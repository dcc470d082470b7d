---------------------------- MODULE IntakeProofs ----------------------------
(***************************************************************************)
(* Proofs about both ways to submit orders, for any files, rows, SKUs,     *)
(* drafts, stores and requests.                                            *)
(***************************************************************************)
EXTENDS MCIntake, FiniteSetTheorems, WellFoundedInduction, TLAPS

-----------------------------------------------------------------------------
(* The library's operators, as ImportBatch and BulkDraft see them.         *)

LEMMA SameCardinality == \A S : Import!Cardinality(S) = Cardinality(S)
BY DEF Import!Cardinality, Cardinality

LEMMA SameBulkCardinality == \A S : Bulk!Cardinality(S) = Cardinality(S)
BY DEF Bulk!Cardinality, Cardinality

(* A set of numbers that is not empty has a least one.                     *)
LEMMA Least ==
    ASSUME NEW S \in SUBSET Nat, S # {}
    PROVE  \E n \in S : \A m \in S : n <= m
<1>1. PICK n \in S : \A m \in S : <<m, n>> \notin OpToRel(<, Nat)
  BY WFMin, NatLessThanWellFounded
<1>2. ASSUME NEW m \in S
      PROVE  n <= m
  <2>1. <<m, n>> \notin {x \in Nat \X Nat : x[1] < x[2]}
    BY <1>1, <1>2, Zenon DEF OpToRel
  <2>2. m \in Nat /\ n \in Nat
    OBVIOUS
  <2> QED  BY <2>1, <2>2
<1> QED  BY <1>2

LEMMA LeastInLibrary ==
    ASSUME NEW S \in SUBSET Nat, S # {}
    PROVE  Import!Min(S) \in S
BY Least DEF Import!Min

-----------------------------------------------------------------------------
(* Rows of files                                                           *)

Own0 == Skus \cup {NoSku, Own}
Items == {seq \in Seq(Skus \cup {Own}) : Len(seq) <= MaxItems}
Row == [status : Import!Statuses, code : {"", "SKU_UNAVAILABLE", "INSUFFICIENT_STOCK"},
        sku : Own0, items : Items, qty : Nat, rev : 0 .. MaxRevision]

Sound(x) == x.status \notin {"DUPLICATE", "INVALID"}

(* A row that is ready has goods, one that waits says why.                 *)
RowGood(x) == /\ x.status = "READY" => x.sku # NoSku /\ x.code = ""
              /\ x.code # "" => x.status = "UNKNOWN_SKU"

(* A number counts once in a file.                                         *)
KeysApart(rs) ==
    \A x, y \in Rows : x # y /\ FileOf[x] = FileOf[y] /\ Sound(rs[x]) /\ Sound(rs[y]) => Key[x] # Key[y]

RowsGood(rs) == /\ rs \in [Rows -> Row] /\ KeysApart(rs)
                /\ \A r \in Rows : RowGood(rs[r])

(* What a revision stands for: the validation may only take a SKU away.    *)
Same(x, y) == x.rev = y.rev => x.qty = y.qty
Later(x, y) ==
    /\ x.rev <= y.rev
    /\ x.rev = y.rev => x.qty = y.qty /\ x.items = y.items /\ y.sku \in {x.sku, NoSku}

LEMMA RowFields ==
    ASSUME NEW x \in Row
    PROVE  /\ x.status \in {"READY", "UNKNOWN_SKU", "DUPLICATE", "INVALID"}
           /\ x.code \in {"", "SKU_UNAVAILABLE", "INSUFFICIENT_STOCK"}
           /\ x.sku \in Own0 /\ x.items \in Items /\ x.qty \in Nat /\ x.rev \in 0 .. MaxRevision
           /\ x.rev \in Nat
           /\ x.items \in Seq(Skus \cup {Own}) /\ Len(x.items) \in Nat /\ Len(x.items) <= MaxItems
<1>1. x.items \in Items
  BY DEF Row
<1>2. x.items \in Seq(Skus \cup {Own}) /\ Len(x.items) <= MaxItems
  BY <1>1 DEF Items
<1>3. Len(x.items) \in Nat
  BY <1>2
<1>4. x.rev \in 0 .. MaxRevision /\ MaxRevision \in Nat
  BY IntakeAssumption DEF Row
<1>5. x.rev \in Nat
  BY <1>4
<1> QED  BY <1>1, <1>2, <1>3, <1>5 DEF Row, Import!Statuses

(* How a row wants SKUs.                                                   *)
LEMMA WantsNat ==
    ASSUME NEW x \in Row, NEW s
    PROVE  /\ Import!Wants(x, s) \in Nat
           /\ ~Sound(x) => Import!Wants(x, s) = 0
<1> DEFINE at == {i \in 1 .. Len(x.items) : x.items[i] = s}
<1>1. IsFiniteSet(1 .. Len(x.items))
  <2>1. \A n \in Nat : IsFiniteSet(1 .. n)
    BY FS_Interval
  <2> QED  BY <2>1, RowFields
<1>2. Import!Occurrences(x.items, s) = Cardinality(at)
  BY SameCardinality DEF Import!Occurrences
<1>3. Cardinality(at) \in Nat
  BY <1>1, FS_Subset, FS_CardinalityType
<1> HIDE DEF at
<1>4. Import!Occurrences(x.items, s) \in Nat /\ x.qty \in Nat
  BY <1>2, <1>3, RowFields
<1> QED  BY <1>4 DEF Import!Wants, Sound

(* A sum of pieces is a number, and more rows have a larger sum.           *)
LEMMA AmountNat ==
    ASSUME NEW R \in SUBSET Rows, NEW want \in [R -> Nat]
    PROVE  /\ IsFiniteSet(UNION {{r} \X (1 .. want[r]) : r \in R})
           /\ Import!Amount(want) = Cardinality(UNION {{r} \X (1 .. want[r]) : r \in R})
           /\ Import!Amount(want) \in Nat
<1> DEFINE of == [r \in R |-> {r} \X (1 .. want[r])]
           all == {{r} \X (1 .. want[r]) : r \in R}
<1>1. IsFiniteSet(all)
  <2>1. of \in Surjection(R, all)
    BY DEF Surjection
  <2>2. IsFiniteSet(R)
    BY FS_Subset, IntakeAssumption
  <2> QED  BY <2>1, <2>2, FS_Surjection
<1>2. ASSUME NEW r \in R
      PROVE  IsFiniteSet({r} \X (1 .. want[r]))
  <2>1. \A n \in Nat : IsFiniteSet(1 .. n)
    BY FS_Interval
  <2>2. IsFiniteSet(1 .. want[r]) /\ IsFiniteSet({r})
    BY <2>1, FS_Singleton
  <2> QED  BY <2>2, FS_Product
<1>3. IsFiniteSet(UNION all)
  <2>1. \A T \in all : IsFiniteSet(T)
    BY <1>2
  <2> QED  BY <1>1, <2>1, FS_UNION
<1>4. Import!Amount(want) = Cardinality(UNION all)
  BY SameCardinality DEF Import!Amount
<1> QED  BY <1>3, <1>4, FS_CardinalityType

LEMMA NeededNat ==
    ASSUME NEW rs \in [Rows -> Row], NEW R \in SUBSET Rows, NEW s
    PROVE  Import!Needed(rs, R, s) \in Nat
<1>1. [r \in R |-> Import!Wants(rs[r], s)] \in [R -> Nat]
  BY WantsNat
<1> QED  BY <1>1, AmountNat DEF Import!Needed

LEMMA NeededMonotone ==
    ASSUME NEW rs \in [Rows -> Row], NEW ts \in [Rows -> Row], NEW s,
           NEW Q \in SUBSET Rows, NEW R \in SUBSET Q,
           \A r \in R : Import!Wants(rs[r], s) = Import!Wants(ts[r], s)
    PROVE  Import!Needed(rs, R, s) <= Import!Needed(ts, Q, s)
<1> DEFINE f == [r \in R |-> Import!Wants(rs[r], s)]
           g == [r \in Q |-> Import!Wants(ts[r], s)]
           few == UNION {{r} \X (1 .. f[r]) : r \in R}
           many == UNION {{r} \X (1 .. g[r]) : r \in Q}
<1>1. f \in [R -> Nat] /\ g \in [Q -> Nat] /\ \A r \in R : f[r] = g[r]
  BY WantsNat
<1> HIDE DEF f, g
<1>2. few \subseteq many
  BY <1>1
<1>3. /\ Import!Amount(f) = Cardinality(few) /\ Import!Amount(f) \in Nat
      /\ Import!Amount(g) = Cardinality(many) /\ Import!Amount(g) \in Nat
      /\ IsFiniteSet(many)
  BY <1>1, AmountNat
<1>4. Cardinality(few) <= Cardinality(many)
  BY <1>2, <1>3, FS_Subset
<1> QED  BY <1>3, <1>4 DEF f, g, Import!Needed

-----------------------------------------------------------------------------
(* The validation                                                          *)

LEMMA JudgeKeeps ==
    ASSUME NEW x \in Row, RowGood(x), NEW rs, NEW b
    PROVE  LET y == Import!Judge(rs, b, x) IN
           /\ y \in Row /\ RowGood(y) /\ Sound(y) = Sound(x)
           /\ y.items = x.items /\ y.qty = x.qty /\ y.rev = x.rev /\ y.sku \in {x.sku, NoSku}
           /\ ~Sound(x) => y = x
           /\ y.status \in {"DUPLICATE", "INVALID"} => y.status = x.status
           /\ x.status = "INVALID" => y = x
<1> DEFINE y == Import!Judge(rs, b, x)
           gone == Import!Uses(x, Import!Unavailable(rs, b))
           few == Import!Uses(x, Import!Short(rs, b))
<1>1. ~Sound(x) => ~gone /\ ~few /\ x.code = ""
  <2>1. ~Sound(x) => \A s : Import!Wants(x, s) = 0
    BY WantsNat
  <2>2. ~Sound(x) => ~gone /\ ~few
    BY <2>1 DEF Import!Uses
  <2> QED  BY <2>2 DEF RowGood, Sound
<1>2. CASE gone
  <2>1. y = [x EXCEPT !.status = "UNKNOWN_SKU", !.code = "SKU_UNAVAILABLE",
                      !.sku = IF @ \in Import!Unavailable(rs, b) THEN NoSku ELSE @]
    BY <1>2 DEF Import!Judge
  <2>2. y \in Row /\ y.status = "UNKNOWN_SKU" /\ y.code = "SKU_UNAVAILABLE" /\ y.sku \in {x.sku, NoSku}
        /\ y.items = x.items /\ y.qty = x.qty /\ y.rev = x.rev
    BY <2>1 DEF Row, Own0, Import!Statuses
  <2> QED  BY <1>1, <1>2, <2>2 DEF RowGood, Sound
<1>3. CASE ~gone /\ few
  <2>1. y = [x EXCEPT !.status = "UNKNOWN_SKU", !.code = "INSUFFICIENT_STOCK"]
    BY <1>3 DEF Import!Judge
  <2>2. y \in Row /\ y.status = "UNKNOWN_SKU" /\ y.code = "INSUFFICIENT_STOCK" /\ y.sku = x.sku
        /\ y.items = x.items /\ y.qty = x.qty /\ y.rev = x.rev
    BY <2>1 DEF Row, Import!Statuses
  <2> QED  BY <1>1, <1>3, <2>2 DEF RowGood, Sound
<1>4. CASE ~gone /\ ~few /\ x.code # ""
  <2>1. y = [x EXCEPT !.status = IF x.sku # NoSku THEN "READY" ELSE "UNKNOWN_SKU", !.code = ""]
    BY <1>4 DEF Import!Judge
  <2>2. y \in Row /\ y.status \in {"READY", "UNKNOWN_SKU"} /\ y.code = "" /\ y.sku = x.sku
        /\ (y.status = "READY" => x.sku # NoSku)
        /\ y.items = x.items /\ y.qty = x.qty /\ y.rev = x.rev
    BY <2>1 DEF Row, Import!Statuses
  <2> QED  BY <1>4, <2>2 DEF RowGood, Sound
<1>5. CASE ~gone /\ ~few /\ x.code = ""
  <2>1. y = x
    BY <1>5 DEF Import!Judge
  <2> QED  BY <2>1
<1> QED  BY <1>2, <1>3, <1>4, <1>5

LEMMA ValidatedGood ==
    ASSUME NEW rs, RowsGood(rs), NEW bs
    PROVE  LET v == Import!Validated(rs, bs) IN
           /\ RowsGood(v)
           /\ \A r \in Rows : /\ Sound(v[r]) = Sound(rs[r])
                              /\ v[r].items = rs[r].items /\ v[r].qty = rs[r].qty /\ v[r].rev = rs[r].rev
                              /\ v[r].sku \in {rs[r].sku, NoSku}
                              /\ FileOf[r] \notin bs \/ rs[r].status = "INVALID" => v[r] = rs[r]
<1> DEFINE v == Import!Validated(rs, bs)
<1>1. ASSUME NEW r \in Rows
      PROVE  /\ v[r] \in Row /\ RowGood(v[r]) /\ Sound(v[r]) = Sound(rs[r])
             /\ v[r].items = rs[r].items /\ v[r].qty = rs[r].qty /\ v[r].rev = rs[r].rev
             /\ v[r].sku \in {rs[r].sku, NoSku}
             /\ FileOf[r] \notin bs \/ rs[r].status = "INVALID" => v[r] = rs[r]
  <2>1. rs[r] \in Row /\ RowGood(rs[r])
    BY DEF RowsGood
  <2>2. v[r] = IF FileOf[r] \in bs THEN Import!Judge(rs, FileOf[r], rs[r]) ELSE rs[r]
    BY DEF Import!Validated
  <2> HIDE DEF v
  <2> QED  BY <2>1, <2>2, JudgeKeeps
<1>2. v = [r \in Rows |-> v[r]]
  BY DEF Import!Validated
<1> HIDE DEF v
<1>3. v \in [Rows -> Row]
  BY <1>1, <1>2
<1>4. KeysApart(v)
  BY <1>1 DEF KeysApart, RowsGood
<1> QED  BY <1>1, <1>3, <1>4 DEF RowsGood, v

-----------------------------------------------------------------------------
(* The counters of a preview                                               *)

LEMMA TallyType ==
    ASSUME NEW rs, NEW b
    PROVE  Import!Tally(rs, b) \in [Import!Statuses -> 0 .. Import!Cardinality(Rows)]
<1>1. ASSUME NEW s
      PROVE  Cardinality({r \in Import!RowsOf(b) : rs[r].status = s}) \in 0 .. Cardinality(Rows)
  <2>1. {r \in Import!RowsOf(b) : rs[r].status = s} \in SUBSET Rows
    BY DEF Import!RowsOf
  <2>2. /\ Cardinality({r \in Import!RowsOf(b) : rs[r].status = s}) \in Nat
        /\ Cardinality({r \in Import!RowsOf(b) : rs[r].status = s}) <= Cardinality(Rows)
        /\ Cardinality(Rows) \in Nat
    BY <2>1, FS_Subset, FS_CardinalityType, IntakeAssumption
  <2> QED  BY <2>2
<1>2. \A s : Import!Cardinality({r \in Import!RowsOf(b) : rs[r].status = s})
               \in 0 .. Import!Cardinality(Rows)
  BY <1>1, SameCardinality
<1> QED  BY <1>2 DEF Import!Tally

LEMMA TallyLocal ==
    ASSUME NEW rs, NEW ts, NEW b, \A r \in Rows : FileOf[r] = b => rs[r] = ts[r]
    PROVE  Import!Tally(rs, b) = Import!Tally(ts, b)
<1>1. ASSUME NEW s
      PROVE  {r \in Import!RowsOf(b) : rs[r].status = s} = {r \in Import!RowsOf(b) : ts[r].status = s}
  BY DEF Import!RowsOf
<1> QED  BY <1>1 DEF Import!Tally

-----------------------------------------------------------------------------
(* The invariant of ImportBatch                                            *)

FilesSafe ==
    /\ batch \in [Batches -> {"NONE", "PREVIEW", "SUBMITTED", "EXPIRED"}]
    /\ expired \in [Batches -> BOOLEAN]
    /\ count \in [Batches -> [Import!Statuses -> 0 .. Import!Cardinality(Rows)]]
    /\ RowsGood(row)
    /\ \A r \in Rows : batch[FileOf[r]] = "NONE" => row[r].status = "INVALID"
    /\ \A b \in Batches : batch[b] # "NONE" => count[b] = Import!Tally(row, b)

GoodsSafe ==
    /\ alias \in [Codes -> Skus \cup {NoSku}]
    /\ stock \in [Skus -> Nat] /\ usable \in [Skus -> BOOLEAN]
    /\ live \in SUBSET Rows /\ OneOrderPerNumber

(* The tab shows the row as it was in some revision.                       *)
TabSafe ==
    tab # NoTab =>
      /\ tab.id \in Rows /\ tab.was \in Row
      /\ batch[FileOf[tab.id]] # "NONE" /\ Later(tab.was, row[tab.id])

(* What the model was asked, has answered, or proposes, was so in some     *)
(* revision; who prepares a run has counted under the lock.                *)
Asked == [rev : Nat, qty : Nat, skus : SUBSET Skus]
Asks == UNION {[R -> Asked] : R \in SUBSET Rows}
Suggestion == [row : Rows, rev : Nat, qty : Nat, skus : SUBSET Skus]
Run == {Import!Idle}
         \cup [at : {"preparing"}, batch : Batches, recent : Nat, ask : Asks]
         \cup [at : {"calling"}, batch : Batches, ask : Asks]
         \cup [at : {"answered"}, new : SUBSET Suggestion]

Fits(x, to) == x.rev <= to.rev /\ (x.rev = to.rev => x.qty = to.qty)
RunFits(c) ==
    /\ c.at \in {"preparing", "calling"} => \A r \in DOMAIN c.ask : Fits(c.ask[r], row[r])
    /\ c.at = "answered" => \A x \in c.new : Fits(x, row[x.row])

ModelSafe ==
    /\ run \in [Sessions -> Run] /\ aiLock \in Sessions \cup {NoOne}
    /\ recent \in Nat /\ recent <= MaxRuns
    /\ \A g \in Sessions : /\ RunFits(run[g])
                           /\ run[g].at = "preparing" => aiLock = g /\ run[g].recent = recent
    /\ pending \in SUBSET Suggestion
    /\ \A x \in pending : Fits(x, row[x.row])

ImportSafe == FilesSafe /\ GoodsSafe /\ TabSafe /\ ModelSafe

-----------------------------------------------------------------------------
(* How rows move, and what moves with them                                 *)

RowsMove ==
    /\ row' \in [Rows -> Row]
    /\ \A r \in Rows : Fits(row[r], row'[r])
    /\ \A r \in Rows : batch[FileOf[r]] # "NONE" => Later(row[r], row'[r])

LEMMA FitsOn ==
    ASSUME NEW x, NEW y \in Row, NEW z \in Row, x.rev \in Nat, Fits(x, y), Fits(y, z)
    PROVE  Fits(x, z)
<1>1. y.rev \in Nat /\ z.rev \in Nat
  BY RowFields
<1> QED  BY <1>1 DEF Fits

LEMMA LaterOn ==
    ASSUME NEW x \in Row, NEW y \in Row, NEW z \in Row, Later(x, y), Later(y, z)
    PROVE  Later(x, z)
<1>1. x.rev \in Nat /\ y.rev \in Nat /\ z.rev \in Nat
  BY RowFields
<1> QED  BY <1>1 DEF Later

LEMMA RunFields ==
    ASSUME NEW c \in Run
    PROVE  /\ c.at \in {"idle", "preparing", "calling", "answered"}
           /\ c.at = "idle" => c = Import!Idle
           /\ c.at = "preparing" => c.recent \in Nat
           /\ c.at \in {"preparing", "calling"} =>
                /\ c.batch \in Batches /\ DOMAIN c.ask \in SUBSET Rows
                /\ \A r \in DOMAIN c.ask : c.ask[r] \in Asked
           /\ c.at = "answered" => c.new \in SUBSET Suggestion
<1>1. CASE c = Import!Idle
  BY <1>1 DEF Import!Idle
<1>2. CASE c \in [at : {"preparing"}, batch : Batches, recent : Nat, ask : Asks]
  <2>1. c.at = "preparing" /\ c.batch \in Batches /\ c.recent \in Nat /\ c.ask \in Asks
    BY <1>2
  <2>2. DOMAIN c.ask \in SUBSET Rows /\ \A r \in DOMAIN c.ask : c.ask[r] \in Asked
    BY <2>1 DEF Asks
  <2> QED  BY <2>1, <2>2
<1>3. CASE c \in [at : {"calling"}, batch : Batches, ask : Asks]
  <2>1. c.at = "calling" /\ c.batch \in Batches /\ c.ask \in Asks
    BY <1>3
  <2>2. DOMAIN c.ask \in SUBSET Rows /\ \A r \in DOMAIN c.ask : c.ask[r] \in Asked
    BY <2>1 DEF Asks
  <2> QED  BY <2>1, <2>2
<1>4. CASE c \in [at : {"answered"}, new : SUBSET Suggestion]
  BY <1>4
<1> QED  BY <1>1, <1>2, <1>3, <1>4 DEF Run

LEMMA ModelKept ==
    ASSUME row \in [Rows -> Row], RowsMove, ModelSafe,
           UNCHANGED <<run, aiLock, recent>>, pending' \in SUBSET pending
    PROVE  ModelSafe'
<1>1. \A r \in Rows : row[r] \in Row /\ row'[r] \in Row /\ Fits(row[r], row'[r])
  BY DEF RowsMove
<1>2. ASSUME NEW g \in Sessions
      PROVE  RunFits(run[g])'
  <2>1. run[g] \in Run /\ RunFits(run[g]) /\ run' = run
    BY DEF ModelSafe
  <2>2. /\ run[g].at \in {"preparing", "calling"} =>
             \A r \in DOMAIN run[g].ask : r \in Rows /\ run[g].ask[r].rev \in Nat /\ Fits(run[g].ask[r], row[r])
        /\ run[g].at = "answered" =>
             \A x \in run[g].new : x.row \in Rows /\ x.rev \in Nat /\ Fits(x, row[x.row])
    BY <2>1, RunFields DEF RunFits, Asked, Suggestion
  <2> QED  BY <1>1, <2>1, <2>2, FitsOn DEF RunFits
<1>3. ASSUME NEW x \in pending
      PROVE  Fits(x, row'[x.row])
  <2>1. x.row \in Rows /\ x.rev \in Nat /\ Fits(x, row[x.row])
    BY DEF ModelSafe, Suggestion
  <2> QED  BY <1>1, <2>1, FitsOn
<1> QED  BY <1>2, <1>3 DEF ModelSafe

LEMMA TabKept ==
    ASSUME row \in [Rows -> Row], RowsMove, TabSafe, tab' \in {tab, NoTab},
           \A b \in Batches : batch[b] # "NONE" => batch'[b] # "NONE"
    PROVE  TabSafe'
<1>1. CASE tab' = tab /\ tab # NoTab
  <2>1. tab.id \in Rows /\ tab.was \in Row /\ FileOf[tab.id] \in Batches
        /\ batch[FileOf[tab.id]] # "NONE" /\ Later(tab.was, row[tab.id])
    BY <1>1, IntakeAssumption DEF TabSafe
  <2>2. row[tab.id] \in Row /\ row'[tab.id] \in Row /\ Later(row[tab.id], row'[tab.id])
    BY <2>1 DEF RowsMove
  <2> QED  BY <1>1, <2>1, <2>2, LaterOn DEF TabSafe
<1>2. CASE tab' = NoTab
  BY <1>2 DEF TabSafe
<1> QED  BY <1>1, <1>2

-----------------------------------------------------------------------------
(* Steps that store rows and validate their files                          *)

LEMMA Revalidated ==
    ASSUME FilesSafe, NEW bs \in SUBSET Batches, NEW rs, RowsGood(rs),
           \A r \in Rows : FileOf[r] \notin bs => rs[r] = row[r],
           Import!Revalidate(rs, bs),
           batch' \in [Batches -> {"NONE", "PREVIEW", "SUBMITTED", "EXPIRED"}],
           expired' \in [Batches -> BOOLEAN],
           \A b \in Batches : batch'[b] # "NONE" => batch[b] # "NONE" \/ b \in bs,
           \A r \in Rows : batch'[FileOf[r]] = "NONE" => rs[r].status = "INVALID"
    PROVE  FilesSafe'
<1>1. row' = Import!Validated(rs, bs)
      /\ count' = [b \in Batches |-> IF b \in bs THEN Import!Tally(row', b) ELSE count[b]]
  BY DEF Import!Revalidate
<1>2. /\ RowsGood(row')
      /\ \A r \in Rows : FileOf[r] \notin bs \/ rs[r].status = "INVALID" => row'[r] = rs[r]
  BY <1>1, ValidatedGood
<1>3. count' \in [Batches -> [Import!Statuses -> 0 .. Import!Cardinality(Rows)]]
  <2>1. count \in [Batches -> [Import!Statuses -> 0 .. Import!Cardinality(Rows)]]
    BY DEF FilesSafe
  <2> QED  BY <1>1, <2>1, TallyType
<1>4. ASSUME NEW b \in Batches, batch'[b] # "NONE"
      PROVE  count'[b] = Import!Tally(row', b)
  <2>1. CASE b \in bs
    BY <1>1, <2>1
  <2>2. CASE b \notin bs
    <3>1. count'[b] = Import!Tally(row, b)
      BY <1>1, <1>4, <2>2 DEF FilesSafe
    <3>2. Import!Tally(row, b) = Import!Tally(row', b)
      BY <1>2, <2>2, TallyLocal
    <3> QED  BY <3>1, <3>2
  <2> QED  BY <2>1, <2>2
<1>5. \A r \in Rows : batch'[FileOf[r]] = "NONE" => row'[r].status = "INVALID"
  BY <1>2
<1> QED  BY <1>2, <1>3, <1>4, <1>5 DEF FilesSafe

LEMMA MovesAlong ==
    ASSUME FilesSafe, NEW bs, NEW rs, RowsGood(rs), Import!Revalidate(rs, bs),
           \A r \in Rows : Fits(row[r], rs[r]),
           \A r \in Rows : batch[FileOf[r]] # "NONE" => Later(row[r], rs[r])
    PROVE  RowsMove
<1>1. row' = Import!Validated(rs, bs)
  BY DEF Import!Revalidate
<1>2. RowsGood(row') /\ RowsGood(row)
  BY <1>1, ValidatedGood DEF FilesSafe
<1>3. ASSUME NEW r \in Rows
      PROVE  /\ Fits(row[r], row'[r])
             /\ batch[FileOf[r]] # "NONE" => Later(row[r], row'[r])
  <2>1. row[r] \in Row /\ rs[r] \in Row /\ row'[r] \in Row
    BY <1>2 DEF RowsGood
  <2>2. /\ row'[r].items = rs[r].items /\ row'[r].qty = rs[r].qty /\ row'[r].rev = rs[r].rev
        /\ row'[r].sku \in {rs[r].sku, NoSku}
    BY <1>1, ValidatedGood
  <2>3. rs[r].rev \in Nat
    BY <2>1, RowFields
  <2>4. Fits(rs[r], row'[r]) /\ Later(rs[r], row'[r])
    BY <2>2, <2>3 DEF Fits, Later
  <2>5. row[r].rev \in Nat
    BY <2>1, RowFields
  <2> QED  BY <2>1, <2>4, <2>5, FitsOn, LaterOn
<1> QED  BY <1>2, <1>3 DEF RowsMove, RowsGood

(* A row that stays is of the same revision and later than itself.         *)
LEMMA StaysItself ==
    ASSUME NEW x \in Row
    PROVE  Fits(x, x) /\ Later(x, x)
<1>1. x.rev \in Nat
  BY RowFields
<1> QED  BY <1>1 DEF Fits, Later

(* Rows, goods and tabs of a step that only validates or edits rows of     *)
(* previews.                                                               *)
LEMMA EditSafe ==
    ASSUME ImportSafe, NEW bs \in SUBSET Batches, NEW rs \in [Rows -> Row], Import!Revalidate(rs, bs),
           \A b \in bs : batch[b] = "PREVIEW",
           \A r \in Rows :
             \/ rs[r] = row[r]
             \/ FileOf[r] \in bs /\ RowGood(rs[r]) /\ Sound(row[r]) /\ Later(row[r], rs[r]),
           UNCHANGED <<batch, expired, live, run, aiLock, recent>>,
           tab' \in {tab, NoTab}, pending' \in SUBSET pending,
           alias' \in [Codes -> Skus \cup {NoSku}], stock' = stock, usable' = usable
    PROVE  ImportSafe'
<1>1. RowsGood(row) /\ row \in [Rows -> Row]
  BY DEF ImportSafe, FilesSafe, RowsGood
<1>2. \A r \in Rows : /\ rs[r] \in Row /\ RowGood(rs[r])
                      /\ Sound(rs[r]) => Sound(row[r])
  BY <1>1 DEF RowsGood
<1>3. RowsGood(rs)
  <2>1. KeysApart(rs)
    BY <1>1, <1>2 DEF RowsGood, KeysApart
  <2> QED  BY <1>2, <2>1 DEF RowsGood
<1>4. \A r \in Rows : row[r] \in Row /\ Later(row[r], rs[r]) /\ Fits(row[r], rs[r])
  <2>1. \A r \in Rows : row[r] \in Row
    BY <1>1
  <2> QED  BY <2>1, StaysItself DEF Later, Fits
<1>5. FilesSafe'
  <2>1. FilesSafe
    BY DEF ImportSafe
  <2>2. \A r \in Rows : FileOf[r] \notin bs => rs[r] = row[r]
    OBVIOUS
  <2>3. \A r \in Rows : batch'[FileOf[r]] = "NONE" => rs[r].status = "INVALID"
    BY <2>1 DEF FilesSafe
  <2>4. /\ batch' \in [Batches -> {"NONE", "PREVIEW", "SUBMITTED", "EXPIRED"}]
        /\ expired' \in [Batches -> BOOLEAN]
    BY <2>1 DEF FilesSafe
  <2> QED  BY <1>3, <2>1, <2>2, <2>3, <2>4, Revalidated
<1>6. RowsMove
  BY <1>3, <1>4, MovesAlong DEF ImportSafe
<1>7. TabSafe'
  BY <1>1, <1>6, TabKept DEF ImportSafe
<1>8. ModelSafe'
  BY <1>1, <1>6, ModelKept DEF ImportSafe
<1>9. GoodsSafe'
  BY DEF ImportSafe, GoodsSafe, OneOrderPerNumber, Import!OneOrderPerNumber
<1> QED  BY <1>5, <1>7, <1>8, <1>9 DEF ImportSafe

(* Row r is stored as x in a new revision.                                 *)
LEMMA StoreSafe ==
    ASSUME ImportSafe, NEW r \in Rows, NEW x \in Row, RowGood(x), Import!Store(r, x),
           batch[FileOf[r]] = "PREVIEW", Sound(row[r]), x.rev = row[r].rev, x.rev < MaxRevision,
           UNCHANGED <<batch, expired, alias, stock, usable, live, run, aiLock, recent>>,
           tab' \in {tab, NoTab}, pending' \in SUBSET pending
    PROVE  ImportSafe'
<1> DEFINE y == [x EXCEPT !.rev = @ + 1]
           rs == [row EXCEPT ![r] = y]
<1>1. row \in [Rows -> Row]
  BY DEF ImportSafe, FilesSafe, RowsGood
<1>2. y \in Row /\ RowGood(y) /\ y.rev = row[r].rev + 1
  <2>1. x.rev \in Nat /\ MaxRevision \in Nat
    BY RowFields, IntakeAssumption
  <2>2. x.rev + 1 \in 0 .. MaxRevision
    BY <2>1
  <2> QED  BY <2>2 DEF Row, RowGood
<1>3. Import!Revalidate(rs, {FileOf[r]})
  BY DEF Import!Store
<1> HIDE DEF y
<1>4. rs \in [Rows -> Row]
  BY <1>1, <1>2
<1>5. Later(row[r], y)
  <2>1. row[r].rev \in Nat
    BY <1>1, RowFields
  <2> QED  BY <1>2, <2>1 DEF Later
<1>6. \A z \in Rows :
         \/ rs[z] = row[z]
         \/ FileOf[z] \in {FileOf[r]} /\ RowGood(rs[z]) /\ Sound(row[z]) /\ Later(row[z], rs[z])
  BY <1>1, <1>2, <1>5
<1>7. {FileOf[r]} \in SUBSET Batches /\ \A b \in {FileOf[r]} : batch[b] = "PREVIEW"
  BY IntakeAssumption
<1>8. alias' \in [Codes -> Skus \cup {NoSku}]
  BY DEF ImportSafe, GoodsSafe
<1> HIDE DEF rs
<1> QED  BY <1>3, <1>4, <1>6, <1>7, <1>8, EditSafe

(* The rows are stored as they are.                                        *)
LEMMA ValidateSafe ==
    ASSUME ImportSafe, NEW b \in Batches, batch[b] = "PREVIEW", Import!Revalidate(row, {b}),
           UNCHANGED <<batch, expired, alias, stock, usable, live, run, aiLock, recent, pending>>,
           tab' \in {tab, NoTab}
    PROVE  ImportSafe'
<1>1. row \in [Rows -> Row]
  BY DEF ImportSafe, FilesSafe, RowsGood
<1>2. alias' \in [Codes -> Skus \cup {NoSku}]
  BY DEF ImportSafe, GoodsSafe
<1> QED  BY <1>1, <1>2, EditSafe

LEMMA EditableFacts ==
    ASSUME ImportSafe, NEW r \in Rows, NEW slow \in BOOLEAN, Import!Editable(r, slow)
    PROVE  /\ batch[FileOf[r]] = "PREVIEW" /\ Sound(row[r])
           /\ row[r] \in Row /\ RowGood(row[r]) /\ row[r].rev < MaxRevision
BY DEF ImportSafe, FilesSafe, RowsGood, Import!Editable, Sound

LEMMA OverriddenGood ==
    ASSUME NEW r \in Rows, row[r] \in Row, NEW s \in Skus \cup {Own}, NEW q \in Nat
    PROVE  LET x == Import!Overridden(r, s, q) IN
           x \in Row /\ RowGood(x) /\ x.rev = row[r].rev
<1>1. s # NoSku /\ s \in Own0
  BY IntakeAssumption DEF Own0
<1> QED  BY <1>1 DEF Import!Overridden, Row, RowGood, Import!Statuses

LEMMA OverrideSafe ==
    ASSUME ImportSafe, NEW r \in Rows, NEW slow \in BOOLEAN, NEW s \in Skus \cup {Own},
           NEW q \in Quantities, Import!Override(r, s, q, slow)
    PROVE  ImportSafe'
<1>1. /\ batch[FileOf[r]] = "PREVIEW" /\ Sound(row[r])
      /\ row[r] \in Row /\ RowGood(row[r]) /\ row[r].rev < MaxRevision
  BY EditableFacts DEF Import!Override
<1>2. /\ UNCHANGED <<batch, expired, alias, stock, usable, live, run, aiLock, recent, pending>>
      /\ tab' \in {tab, NoTab} /\ q \in Nat /\ FileOf[r] \in Batches
  BY IntakeAssumption DEF Import!Override, Import!CloseTab, Import!goods, Import!ai
<1>3. CASE row[r].sku = s /\ row[r].qty = q
  <2>1. Import!Revalidate(row, {FileOf[r]})
    BY <1>3 DEF Import!Override
  <2> QED  BY <1>1, <1>2, <2>1, ValidateSafe
<1>4. CASE ~(row[r].sku = s /\ row[r].qty = q)
  <2> DEFINE x == Import!Overridden(r, s, q)
  <2>1. Import!Store(r, x)
    BY <1>4 DEF Import!Override
  <2>2. x \in Row /\ RowGood(x) /\ x.rev = row[r].rev
    BY <1>1, <1>2, OverriddenGood
  <2> HIDE DEF x
  <2> QED  BY <1>1, <1>2, <2>1, <2>2, StoreSafe
<1> QED  BY <1>3, <1>4

LEMMA AcceptSafe ==
    ASSUME ImportSafe, NEW r \in Rows, NEW slow \in BOOLEAN, NEW s \in Skus,
           NEW p \in pending, Import!Accept(r, p, s, slow)
    PROVE  ImportSafe'
<1>1. /\ batch[FileOf[r]] = "PREVIEW" /\ Sound(row[r])
      /\ row[r] \in Row /\ RowGood(row[r]) /\ row[r].rev < MaxRevision
  BY EditableFacts DEF Import!Accept
<1>2. /\ UNCHANGED <<batch, expired, alias, stock, usable, live, run, aiLock, recent>>
      /\ tab' \in {tab, NoTab} /\ pending' \in SUBSET pending
  BY DEF Import!Accept, Import!CloseTab, Import!goods
<1>3. p.qty \in Nat
  BY DEF ImportSafe, ModelSafe, Suggestion
<1> DEFINE x == Import!Overridden(r, s, p.qty)
<1>4. Import!Store(r, x)
  BY DEF Import!Accept
<1>5. x \in Row /\ RowGood(x) /\ x.rev = row[r].rev
  BY <1>1, <1>3, OverriddenGood
<1> HIDE DEF x
<1> QED  BY <1>1, <1>2, <1>4, <1>5, StoreSafe

LEMMA ItemsChange ==
    ASSUME NEW seq \in Items, NEW s \in Skus \cup {Own}, NEW new \in Import!ItemChanges(seq, s)
    PROVE  new \in Items
<1> DEFINE U == Skus \cup {Own}
<1>1. seq \in Seq(U) /\ Len(seq) <= MaxItems /\ MaxItems \in Nat /\ Len(seq) \in Nat
  BY IntakeAssumption DEF Items
<1> HIDE DEF U
<1>2. s \in U
  BY DEF U
<1>3. CASE new = Append(seq, s) /\ Len(seq) < MaxItems
  <2>1. new \in Seq(U) /\ Len(new) = Len(seq) + 1
    BY <1>1, <1>2, <1>3
  <2> QED  BY <1>1, <1>3, <2>1 DEF Items, U
<1>4. ASSUME NEW i \in 1 .. Len(seq), new = [seq EXCEPT ![i] = s]
      PROVE  new \in Items
  <2>1. new \in Seq(U) /\ Len(new) = Len(seq)
    BY <1>1, <1>2, <1>4
  <2> QED  BY <1>1, <2>1 DEF Items, U
<1>5. ASSUME NEW i \in 1 .. Len(seq), new = SubSeq(seq, 1, i - 1) \o SubSeq(seq, i + 1, Len(seq))
      PROVE  new \in Items
  <2>1. /\ SubSeq(seq, 1, i - 1) \in Seq(U) /\ Len(SubSeq(seq, 1, i - 1)) = i - 1
        /\ SubSeq(seq, i + 1, Len(seq)) \in Seq(U)
        /\ Len(SubSeq(seq, i + 1, Len(seq))) = Len(seq) - i
    BY <1>1, <1>5
  <2>2. \A a, b \in Seq(U) : a \o b \in Seq(U) /\ Len(a \o b) = Len(a) + Len(b)
    OBVIOUS
  <2>3. new \in Seq(U) /\ Len(new) = (i - 1) + (Len(seq) - i)
    BY <1>5, <2>1, <2>2
  <2> QED  BY <1>1, <2>3 DEF Items, U
<1>6. \/ new = Append(seq, s) /\ Len(seq) < MaxItems
      \/ \E i \in 1 .. Len(seq) : \/ new = [seq EXCEPT ![i] = s]
                                  \/ new = SubSeq(seq, 1, i - 1) \o SubSeq(seq, i + 1, Len(seq))
  BY DEF Import!ItemChanges, Import!ReplaceAt, Import!RemoveAt
<1> QED  BY <1>3, <1>4, <1>5, <1>6

LEMMA ChangeItemsSafe ==
    ASSUME ImportSafe, NEW r \in Rows, NEW slow \in BOOLEAN, NEW s \in Skus \cup {Own},
           Import!ChangeItems(r, s, slow)
    PROVE  ImportSafe'
<1>1. /\ batch[FileOf[r]] = "PREVIEW" /\ Sound(row[r])
      /\ row[r] \in Row /\ RowGood(row[r]) /\ row[r].rev < MaxRevision
  BY EditableFacts DEF Import!ChangeItems
<1>2. /\ UNCHANGED <<batch, expired, alias, stock, usable, live, run, aiLock, recent, pending>>
      /\ tab' \in {tab, NoTab}
  BY DEF Import!ChangeItems, Import!CloseTab, Import!goods, Import!ai
<1>3. PICK seq \in Import!ItemChanges(row[r].items, s) :
         Import!Store(r, IF row[r].sku # NoSku
                         THEN [row[r] EXCEPT !.items = seq, !.code = "", !.status = "READY"]
                         ELSE [row[r] EXCEPT !.items = seq])
  BY DEF Import!ChangeItems
<1>4. seq \in Items
  BY <1>1, ItemsChange, RowFields
<1> DEFINE x == IF row[r].sku # NoSku
                THEN [row[r] EXCEPT !.items = seq, !.code = "", !.status = "READY"]
                ELSE [row[r] EXCEPT !.items = seq]
<1>5. x \in Row /\ RowGood(x) /\ x.rev = row[r].rev
  BY <1>1, <1>4 DEF Row, RowGood, Import!Statuses
<1>6. Import!Store(r, x)
  BY <1>3
<1> HIDE DEF x
<1> QED  BY <1>1, <1>2, <1>5, <1>6, StoreSafe

-----------------------------------------------------------------------------
(* Mappings and uploads                                                    *)

(* What a code stands for, whatever the mapping of the store.              *)
LEMMA FirstIsSku ==
    ASSUME NEW r \in Rows, alias \in [Codes -> Skus \cup {NoSku}], Import!Known(r) # {}
    PROVE  Import!First(r) \in Skus
<1>1. Lookup[r] \in Seq(Codes) /\ Len(Lookup[r]) \in Nat
  BY IntakeAssumption
<1>2. Import!Known(r) \in SUBSET Nat
  BY <1>1 DEF Import!Known
<1>3. Import!Min(Import!Known(r)) \in Import!Known(r)
  BY <1>2, LeastInLibrary
<1>4. \A i \in 1 .. Len(Lookup[r]) : Lookup[r][i] \in Codes
  BY <1>1
<1>5. \A c \in Codes : Import!Candidate(c) \in Skus \cup {NoSku}
  BY IntakeAssumption DEF Import!Candidate
<1> QED  BY <1>3, <1>4, <1>5 DEF Import!First, Import!Known

LEMMA FirstIsSkuAfter ==
    ASSUME NEW r \in Rows, alias' \in [Codes -> Skus \cup {NoSku}], Import!Known(r)' # {}
    PROVE  Import!First(r)' \in Skus
<1>1. Lookup[r] \in Seq(Codes) /\ Len(Lookup[r]) \in Nat
  BY IntakeAssumption
<1>2. Import!Known(r)' \in SUBSET Nat
  BY <1>1 DEF Import!Known
<1>3. Import!Min(Import!Known(r)') \in Import!Known(r)'
  BY <1>2, LeastInLibrary
<1>4. \A i \in 1 .. Len(Lookup[r]) : Lookup[r][i] \in Codes
  BY <1>1
<1>5. \A c \in Codes : Import!Candidate(c)' \in Skus \cup {NoSku}
  BY IntakeAssumption DEF Import!Candidate
<1> QED  BY <1>3, <1>4, <1>5 DEF Import!First, Import!Known, Import!Min

LEMMA CreateAliasSafe ==
    ASSUME ImportSafe, NEW c \in Codes, NEW s \in Skus, Import!CreateAlias(c, s)
    PROVE  ImportSafe'
<1> DEFINE R == Import!Resolving(c, s)
           rs == [r \in Rows |->
                   IF r \in R
                   THEN [row[r] EXCEPT !.sku = Import!First(r)', !.qty = Quantity[r], !.code = "",
                                       !.status = "READY", !.rev = @ + 1]
                   ELSE row[r]]
           bs == {FileOf[r] : r \in R}
<1>1. alias' \in [Codes -> Skus \cup {NoSku}]
  BY DEF ImportSafe, GoodsSafe, Import!CreateAlias
<1>2. row \in [Rows -> Row] /\ \A r \in Rows : RowGood(row[r])
  BY DEF ImportSafe, FilesSafe, RowsGood
<1>3. \A r \in R : /\ r \in Rows /\ batch[FileOf[r]] = "PREVIEW" /\ row[r].rev < MaxRevision
                   /\ row[r].status = "UNKNOWN_SKU" /\ Import!Known(r)' # {}
  BY DEF Import!CreateAlias, Import!Resolving, Import!Mapped
<1>4. Import!Revalidate(rs, bs)
  BY DEF Import!CreateAlias
<1>5. /\ UNCHANGED <<batch, expired, stock, usable, live, run, aiLock, recent, pending>>
      /\ tab' = tab
  BY DEF Import!CreateAlias, Import!ai
<1> HIDE DEF R
<1>6. ASSUME NEW r \in R
      PROVE  rs[r] \in Row /\ RowGood(rs[r]) /\ Sound(row[r]) /\ Later(row[r], rs[r])
  <2>1. Import!First(r)' \in Own0 /\ Import!First(r)' # NoSku
    <3>1. r \in Rows /\ Import!Known(r)' # {}
      BY <1>3
    <3>2. Import!First(r)' \in Skus
      BY <1>1, <3>1, FirstIsSkuAfter
    <3>3. NoSku \notin Skus
      BY IntakeAssumption
    <3> QED  BY <3>2, <3>3 DEF Own0
  <2>2. row[r] \in Row /\ row[r].rev \in Nat /\ MaxRevision \in Nat
    BY <1>2, <1>3, RowFields, IntakeAssumption
  <2>3. row[r].rev + 1 \in 0 .. MaxRevision
    BY <1>3, <2>2
  <2>4. Quantity[r] \in Nat
    BY <1>3, IntakeAssumption
  <2>5. rs[r] = [row[r] EXCEPT !.sku = Import!First(r)', !.qty = Quantity[r], !.code = "",
                               !.status = "READY", !.rev = @ + 1]
    BY <1>3
  <2> HIDE DEF rs
  <2>6. rs[r] \in Row /\ RowGood(rs[r]) /\ rs[r].rev = row[r].rev + 1
    BY <2>1, <2>2, <2>3, <2>4, <2>5 DEF Row, RowGood, Import!Statuses
  <2>7. Later(row[r], rs[r])
    BY <2>2, <2>6 DEF Later
  <2> QED  BY <1>3, <2>6, <2>7 DEF Sound
<1>7. \A r \in Rows : r \notin R => rs[r] = row[r]
  OBVIOUS
<1>8. bs \in SUBSET Batches /\ \A b \in bs : batch[b] = "PREVIEW"
  BY <1>3, IntakeAssumption
<1>9. \A r \in R : FileOf[r] \in bs
  OBVIOUS
<1>10. rs \in [Rows -> Row]
  BY <1>2, <1>6, <1>7
<1> HIDE DEF rs, bs
<1>11. \A r \in Rows :
         \/ rs[r] = row[r]
         \/ FileOf[r] \in bs /\ RowGood(rs[r]) /\ Sound(row[r]) /\ Later(row[r], rs[r])
  BY <1>6, <1>7, <1>9
<1> QED  BY <1>1, <1>4, <1>5, <1>8, <1>10, <1>11, EditSafe

LEMMA ClassifiedGood ==
    ASSUME ImportSafe, NEW r \in Rows, NEW bad, row[r].status = "INVALID"
    PROVE  LET x == Import!Classified(r, bad) IN
           /\ x \in Row /\ RowGood(x) /\ x.qty = row[r].qty /\ x.rev = row[r].rev
           /\ Sound(x) => r \notin bad /\ ~Import!Repeated(r, bad)
<1>1. row[r] \in Row /\ row[r].code = ""
  BY DEF ImportSafe, FilesSafe, RowsGood, RowGood
<1>2. Import!Resolve(r) \in Own0
  BY FirstIsSku DEF Import!Resolve, Own0, ImportSafe, GoodsSafe
<1>3. CASE r \in bad
  BY <1>1, <1>3 DEF Import!Classified, Sound, RowGood
<1>4. CASE r \notin bad /\ Import!Repeated(r, bad)
  <2>1. Import!Classified(r, bad) = [row[r] EXCEPT !.status = "DUPLICATE"]
    BY <1>4 DEF Import!Classified
  <2> QED  BY <1>1, <2>1 DEF Row, Import!Statuses, Sound, RowGood
<1>5. CASE r \notin bad /\ ~Import!Repeated(r, bad)
  <2>1. Import!Classified(r, bad) =
          [row[r] EXCEPT !.sku = Import!Resolve(r),
                         !.status = IF Import!Resolve(r) = NoSku THEN "UNKNOWN_SKU" ELSE "READY"]
    BY <1>5 DEF Import!Classified
  <2> QED  BY <1>1, <1>2, <1>5, <2>1 DEF Row, Import!Statuses, Sound, RowGood
<1> QED  BY <1>3, <1>4, <1>5

LEMMA UploadSafe ==
    ASSUME ImportSafe, NEW b \in Batches, NEW bad \in SUBSET Import!RowsOf(b), Import!Upload(b, bad)
    PROVE  ImportSafe'
<1> DEFINE rs == [r \in Rows |-> IF FileOf[r] = b THEN Import!Classified(r, bad) ELSE row[r]]
<1>1. /\ batch[b] = "NONE" /\ batch' = [batch EXCEPT ![b] = "PREVIEW"]
      /\ Import!Revalidate(rs, {b})
      /\ UNCHANGED <<expired, alias, stock, usable, live, tab, run, aiLock, recent, pending>>
  BY DEF Import!Upload, Import!goods, Import!ai
<1>2. row \in [Rows -> Row] /\ RowsGood(row)
  BY DEF ImportSafe, FilesSafe, RowsGood
<1>3. \A r \in Rows : FileOf[r] = b => row[r].status = "INVALID"
  BY <1>1 DEF ImportSafe, FilesSafe
<1>4. \A r \in Rows : FileOf[r] = b =>
        /\ rs[r] \in Row /\ RowGood(rs[r]) /\ rs[r].qty = row[r].qty /\ rs[r].rev = row[r].rev
        /\ Sound(rs[r]) => r \notin bad /\ ~Import!Repeated(r, bad)
  BY <1>3, ClassifiedGood
<1>5. \A r \in Rows : FileOf[r] # b => rs[r] = row[r]
  OBVIOUS
<1>6. rs \in [Rows -> Row]
  BY <1>2, <1>4, <1>5
<1> HIDE DEF rs
<1>7. KeysApart(rs)
  <2>1. ASSUME NEW x \in Rows, NEW y \in Rows, FileOf[x] = b, FileOf[y] = b, Sound(rs[x]), Sound(rs[y]),
               RowNo[x] < RowNo[y]
        PROVE  Key[x] # Key[y]
    <3>1. x \notin bad /\ ~Import!Repeated(y, bad)
      BY <1>4, <2>1
    <3>2. x \in Import!Earlier(y, bad)
      BY <2>1, <3>1 DEF Import!Earlier, Import!RowsOf
    <3> QED  BY <3>1, <3>2 DEF Import!Repeated
  <2>2. ASSUME NEW x \in Rows, NEW y \in Rows, x # y, FileOf[x] = b, FileOf[y] = b
        PROVE  RowNo[x] < RowNo[y] \/ RowNo[y] < RowNo[x]
    <3>1. RowNo[x] # RowNo[y]
      BY <2>2, IntakeAssumption
    <3>2. RowNo[x] \in Nat /\ RowNo[y] \in Nat
      BY IntakeAssumption
    <3> QED  BY <3>1, <3>2
  <2>3. ASSUME NEW x \in Rows, NEW y \in Rows, x # y, FileOf[x] = FileOf[y], FileOf[x] # b,
               Sound(rs[x]), Sound(rs[y])
        PROVE  Key[x] # Key[y]
    BY <1>2, <1>5, <2>3 DEF RowsGood, KeysApart
  <2> QED  BY <2>1, <2>2, <2>3 DEF KeysApart
<1>8. RowsGood(rs)
  BY <1>2, <1>4, <1>5, <1>6, <1>7 DEF RowsGood
<1>9. FilesSafe'
  <2>1. FilesSafe
    BY DEF ImportSafe
  <2>2. /\ batch' \in [Batches -> {"NONE", "PREVIEW", "SUBMITTED", "EXPIRED"}]
        /\ expired' \in [Batches -> BOOLEAN]
    BY <1>1, <2>1 DEF FilesSafe
  <2>3. \A x \in Batches : batch'[x] # "NONE" => batch[x] # "NONE" \/ x \in {b}
    BY <1>1, <2>1 DEF FilesSafe
  <2>4. \A r \in Rows : batch'[FileOf[r]] = "NONE" => rs[r].status = "INVALID"
    <3>1. \A r \in Rows : FileOf[r] \in Batches
      BY IntakeAssumption
    <3> QED  BY <1>1, <1>5, <2>1, <3>1 DEF FilesSafe
  <2> QED  BY <1>1, <1>5, <1>8, <2>1, <2>2, <2>3, <2>4, Revalidated
<1>10. RowsMove
  <2>1. \A r \in Rows : Fits(row[r], rs[r])
    <3>1. \A r \in Rows : row[r] \in Row /\ row[r].rev \in Nat
      BY <1>2, RowFields
    <3> QED  BY <1>4, <1>5, <3>1 DEF Fits
  <2>2. \A r \in Rows : batch[FileOf[r]] # "NONE" => Later(row[r], rs[r])
    BY <1>1, <1>2, <1>5, StaysItself
  <2> QED  BY <1>1, <1>8, <2>1, <2>2, MovesAlong DEF ImportSafe
<1>11. \A x \in Batches : batch[x] # "NONE" => batch'[x] # "NONE"
  BY <1>1 DEF ImportSafe, FilesSafe
<1>12. TabSafe'
  BY <1>1, <1>2, <1>10, <1>11, TabKept DEF ImportSafe
<1>13. ModelSafe'
  BY <1>1, <1>2, <1>10, ModelKept DEF ImportSafe
<1>14. GoodsSafe'
  BY <1>1 DEF ImportSafe, GoodsSafe, OneOrderPerNumber, Import!OneOrderPerNumber
<1> QED  BY <1>9, <1>12, <1>13, <1>14 DEF ImportSafe

-----------------------------------------------------------------------------
(* Submission                                                              *)

(* A validation that finds nothing changes no demand.                      *)
LEMMA NothingFound ==
    ASSUME RowsGood(row), NEW b, Import!Unavailable(row, b) \cup Import!Short(row, b) = {},
           NEW r \in Rows, NEW s
    PROVE  Import!Wants(Import!Validated(row, {b})[r], s) = Import!Wants(row[r], s)
<1> DEFINE v == Import!Validated(row, {b})
<1>1. v[r] = IF FileOf[r] \in {b} THEN Import!Judge(row, FileOf[r], row[r]) ELSE row[r]
  BY DEF Import!Validated
<1>2. row[r] \in Row /\ RowGood(row[r])
  BY DEF RowsGood
<1>3. FileOf[r] = b => /\ ~Import!Uses(row[r], Import!Unavailable(row, FileOf[r]))
                       /\ ~Import!Uses(row[r], Import!Short(row, FileOf[r]))
  BY DEF Import!Uses
<1>4. v[r].sku = row[r].sku /\ v[r].items = row[r].items /\ v[r].qty = row[r].qty
  BY <1>1, <1>2, <1>3 DEF Import!Judge, Row
<1>5. Sound(v[r]) = Sound(row[r])
  BY ValidatedGood
<1> HIDE DEF v
<1>6. v[r].status \in {"DUPLICATE", "INVALID"} <=> row[r].status \in {"DUPLICATE", "INVALID"}
  BY <1>5 DEF Sound
<1>7. Import!Wants(v[r], s) = Import!Wants(row[r], s)
  BY <1>4, <1>6 DEF Import!Wants
<1> QED  BY <1>7 DEF v

(* Rows that are left out at submission are counted as duplicates.         *)
Shifted(tally, n) == [tally EXCEPT !["DUPLICATE"] = @ + n, !["READY"] = @ - n]

LEMMA LeftOutCounted ==
    ASSUME NEW rs \in [Rows -> Row], KeysApart(rs), NEW b \in Batches,
           NEW again \in SUBSET Import!RowsOf(b), \A r \in again : rs[r].status = "READY",
           NEW to \in [Rows -> Row],
           \A r \in Rows : to[r].status = IF r \in again THEN "DUPLICATE" ELSE rs[r].status
    PROVE  Shifted(Import!Tally(rs, b), Import!Cardinality({Key[r] : r \in again})) = Import!Tally(to, b)
<1> DEFINE Of(x, s) == {r \in Import!RowsOf(b) : x[r].status = s}
           double == Import!Cardinality({Key[r] : r \in again})
<1>1. Import!RowsOf(b) \in SUBSET Rows /\ IsFiniteSet(Import!RowsOf(b))
      /\ \A r \in Import!RowsOf(b) : FileOf[r] = b
  BY FS_Subset, IntakeAssumption DEF Import!RowsOf
<1>2. again \in SUBSET Import!RowsOf(b) /\ again \in SUBSET Rows
      /\ \A r \in again : rs[r].status = "READY"
  BY <1>1
<1>3. IsFiniteSet(again) /\ Cardinality(again) \in Nat
  BY <1>1, <1>2, FS_Subset, FS_CardinalityType
<1>4. double = Cardinality(again)
  <2> DEFINE key == [r \in again |-> Key[r]]
  <2>1. \A x, y \in again : x # y => Key[x] # Key[y]
    BY <1>1, <1>2 DEF KeysApart, Sound
  <2>2. key \in Bijection(again, {Key[r] : r \in again})
    BY <2>1 DEF Bijection, Injection, Surjection, IsInjective
  <2>3. Cardinality({Key[r] : r \in again}) = Cardinality(again)
    BY <1>3, <2>2, FS_Bijection DEF ExistsBijection
  <2> QED  BY <2>3, SameCardinality
<1> HIDE DEF double
<1>5. ASSUME NEW x, NEW s
      PROVE  IsFiniteSet(Of(x, s)) /\ Cardinality(Of(x, s)) \in Nat
  BY <1>1, FS_Subset, FS_CardinalityType
<1>6. Cardinality(Of(to, "DUPLICATE")) = Cardinality(Of(rs, "DUPLICATE")) + double
  <2>1. Of(to, "DUPLICATE") = Of(rs, "DUPLICATE") \cup again
    BY <1>1, <1>2
  <2>2. Of(rs, "DUPLICATE") \cap again = {}
    BY <1>2
  <2> HIDE DEF Of
  <2>3. Cardinality(Of(rs, "DUPLICATE") \cap again) = 0
    BY <2>2, FS_EmptySet
  <2> QED  BY <1>3, <1>4, <1>5, <2>1, <2>3, FS_Union
<1>7. Cardinality(Of(to, "READY")) = Cardinality(Of(rs, "READY")) - double
  <2>1. Of(to, "READY") = Of(rs, "READY") \ again
    BY <1>1, <1>2
  <2>2. Of(rs, "READY") \cap again = again
    BY <1>2
  <2> HIDE DEF Of
  <2> QED  BY <1>4, <1>5, <2>1, <2>2, FS_Difference
<1>8. ASSUME NEW s, s # "READY", s # "DUPLICATE"
      PROVE  Of(to, s) = Of(rs, s)
  BY <1>1, <1>2, <1>8
<1>9. \A x : Import!Tally(x, b) = [s \in Import!Statuses |-> Cardinality(Of(x, s))]
  BY SameCardinality DEF Import!Tally
<1> HIDE DEF Of
<1>10. Shifted(Import!Tally(rs, b), double) = Import!Tally(to, b)
  BY <1>6, <1>7, <1>8, <1>9 DEF Shifted, Import!Statuses
<1> QED  BY <1>10 DEF double

LEMMA SubmitSafe ==
    ASSUME ImportSafe, NEW b \in Batches, Import!Submit(b)
    PROVE  ImportSafe'
<1> DEFINE rs == Import!Validated(row, {b})
           ready == {r \in Import!RowsOf(b) : rs[r].status = "READY"}
           again == {r \in ready : Import!Taken(r)}
           R == ready \ again
<1>1. /\ batch[b] = "PREVIEW" /\ Import!Unavailable(row, b) \cup Import!Short(row, b) = {}
      /\ row' = [r \in Rows |-> IF r \in again THEN [rs[r] EXCEPT !.status = "DUPLICATE"] ELSE rs[r]]
      /\ count' = [count EXCEPT ![b] =
                     Shifted(Import!Tally(rs, b), Import!Cardinality({Key[r] : r \in again}))]
      /\ \/ UNCHANGED <<batch, live, stock>>
         \/ Import!Order(b, rs, R)
      /\ UNCHANGED <<expired, alias, usable, tab, run, aiLock, recent, pending>>
  BY DEF Import!Submit, Import!ai, Shifted
<1>2. RowsGood(row) /\ FilesSafe /\ GoodsSafe
  BY DEF ImportSafe, FilesSafe
<1>3. /\ RowsGood(rs)
      /\ \A r \in Rows : /\ Sound(rs[r]) = Sound(row[r])
                         /\ rs[r].items = row[r].items /\ rs[r].qty = row[r].qty /\ rs[r].rev = row[r].rev
                         /\ rs[r].sku \in {row[r].sku, NoSku}
                         /\ FileOf[r] # b \/ row[r].status = "INVALID" => rs[r] = row[r]
  BY <1>2, ValidatedGood
<1>4. \A r \in Rows : \A s : Import!Wants(rs[r], s) = Import!Wants(row[r], s)
  BY <1>1, <1>2, NothingFound
<1> HIDE DEF rs
<1>5. /\ ready \in SUBSET Rows /\ again \in SUBSET ready /\ R \in SUBSET ready
      /\ \A r \in ready : FileOf[r] = b /\ rs[r].status = "READY"
      /\ \A r \in R : ~Import!Taken(r)
      /\ ready \in SUBSET Import!RowsOf(b) /\ Import!RowsOf(b) \in SUBSET Rows
  BY DEF Import!RowsOf
<1> HIDE DEF ready, again, R
<1>6. rs \in [Rows -> Row] /\ KeysApart(rs) /\ \A r \in Rows : RowGood(rs[r])
  BY <1>3 DEF RowsGood
<1>7. ASSUME NEW r \in Rows
      PROVE  /\ row'[r] \in Row /\ RowGood(row'[r])
             /\ row'[r].items = rs[r].items /\ row'[r].qty = rs[r].qty /\ row'[r].rev = rs[r].rev
             /\ row'[r].sku = rs[r].sku
             /\ row'[r].status = IF r \in again THEN "DUPLICATE" ELSE rs[r].status
             /\ FileOf[r] # b \/ row[r].status = "INVALID" => row'[r] = row[r]
  <2>1. CASE r \in again
    <3>1. row'[r] = [rs[r] EXCEPT !.status = "DUPLICATE"] /\ rs[r] \in Row /\ RowGood(rs[r])
          /\ rs[r].status = "READY" /\ FileOf[r] = b
      BY <1>1, <1>5, <1>6, <2>1
    <3>2. row[r].status # "INVALID"
      BY <1>3, <3>1 DEF Sound
    <3> QED  BY <2>1, <3>1, <3>2 DEF Row, RowGood, Import!Statuses
  <2>2. CASE r \notin again
    BY <1>1, <1>3, <1>6, <2>2
  <2> QED  BY <2>1, <2>2
<1>8. row' \in [Rows -> Row]
  BY <1>1, <1>7
<1>9. RowsGood(row')
  <2>1. \A r \in Rows : Sound(row'[r]) => Sound(rs[r])
    BY <1>7 DEF Sound
  <2>2. KeysApart(row')
    BY <1>6, <2>1 DEF KeysApart
  <2> QED  BY <1>7, <1>8, <2>2 DEF RowsGood
<1>10. /\ batch' \in [Batches -> {"NONE", "PREVIEW", "SUBMITTED", "EXPIRED"}]
       /\ \A x \in Batches : batch'[x] = "NONE" <=> batch[x] = "NONE"
  BY <1>1, <1>2 DEF FilesSafe, Import!Order
<1>11. Shifted(Import!Tally(rs, b), Import!Cardinality({Key[r] : r \in again})) = Import!Tally(row', b)
  <2>1. again \in SUBSET Import!RowsOf(b) /\ \A r \in again : rs[r].status = "READY"
    BY <1>5
  <2>2. \A r \in Rows : row'[r].status = IF r \in again THEN "DUPLICATE" ELSE rs[r].status
    BY <1>7
  <2> QED  BY <1>6, <1>8, <2>1, <2>2, LeftOutCounted
<1>12. count' = [count EXCEPT ![b] = Import!Tally(row', b)]
  BY <1>1, <1>11
<1>13. \A x \in Batches \ {b} : Import!Tally(row', x) = Import!Tally(row, x)
  BY <1>7, TallyLocal
<1>14. FilesSafe'
  <2>1. count' \in [Batches -> [Import!Statuses -> 0 .. Import!Cardinality(Rows)]]
    BY <1>2, <1>12, TallyType DEF FilesSafe
  <2>2. \A x \in Batches : batch'[x] # "NONE" => count'[x] = Import!Tally(row', x)
    BY <1>2, <1>10, <1>12, <1>13 DEF FilesSafe
  <2>3. \A r \in Rows : batch'[FileOf[r]] = "NONE" => row'[r].status = "INVALID"
    <3>1. \A r \in Rows : FileOf[r] \in Batches
      BY IntakeAssumption
    <3> QED  BY <1>2, <1>7, <1>10, <3>1 DEF FilesSafe
  <2>4. expired' \in [Batches -> BOOLEAN]
    BY <1>1, <1>2 DEF FilesSafe
  <2> QED  BY <1>9, <1>10, <2>1, <2>2, <2>3, <2>4 DEF FilesSafe
<1>15. RowsMove
  <2>1. ASSUME NEW r \in Rows
        PROVE  Fits(row[r], row'[r]) /\ Later(row[r], row'[r])
    <3>1. row[r] \in Row /\ row[r].rev \in Nat
      BY <1>2, RowFields DEF RowsGood
    <3> QED  BY <1>3, <1>7, <3>1 DEF Fits, Later
  <2> QED  BY <1>8, <2>1 DEF RowsMove
<1>16. TabSafe' /\ ModelSafe'
  <2>1. row \in [Rows -> Row]
    BY <1>2 DEF RowsGood
  <2> QED  BY <1>1, <1>10, <1>15, <2>1, TabKept, ModelKept DEF ImportSafe
<1>17. ASSUME Import!Order(b, rs, R)
       PROVE  stock' \in [Skus -> Nat] /\ live' \in SUBSET Rows /\ OneOrderPerNumber'
  <2>1. stock' = [s \in Skus |-> stock[s] - Import!Needed(rs, R, s)] /\ live' = live \cup R
    BY <1>17 DEF Import!Order, Import!Reserve
  <2>2. ASSUME NEW s \in Skus
        PROVE  stock[s] - Import!Needed(rs, R, s) \in Nat
    <3>1. Import!Needed(rs, R, s) <= Import!Demand(row, b, s)
      <4>1. row \in [Rows -> Row] /\ R \in SUBSET Import!RowsOf(b)
        BY <1>2, <1>5 DEF RowsGood
      <4> QED  BY <1>4, <1>5, <1>6, <4>1, NeededMonotone DEF Import!Demand
    <3>2. Import!Needed(rs, R, s) \in Nat /\ Import!Demand(row, b, s) \in Nat
      <4>1. row \in [Rows -> Row] /\ R \in SUBSET Rows
        BY <1>2, <1>5 DEF RowsGood
      <4> QED  BY <1>5, <1>6, <4>1, NeededNat DEF Import!Demand
    <3>3. stock[s] \in Nat
      BY <1>2 DEF GoodsSafe
    <3>4. Import!Demand(row, b, s) > 0 => ~(stock[s] < Import!Demand(row, b, s))
      BY <1>1 DEF Import!Demanded, Import!Unavailable, Import!Short
    <3> QED  BY <3>1, <3>2, <3>3, <3>4
  <2>3. stock' \in [Skus -> Nat]
    BY <2>1, <2>2
  <2>4. live \in SUBSET Rows /\ Import!OneOrderPerNumber
    BY <1>2 DEF GoodsSafe, OneOrderPerNumber
  <2>5. \A x \in live, y \in R : Key[x] # Key[y] /\ Pack[x] # Pack[y]
    BY <1>5 DEF Import!Taken
  <2>6. \A x, y \in R : x # y => Key[x] # Key[y] /\ FileOf[x] = FileOf[y]
    BY <1>5, <1>6 DEF KeysApart, Sound
  <2>7. Import!OneOrderPerNumber'
    BY <2>1, <2>4, <2>5, <2>6 DEF Import!OneOrderPerNumber
  <2> QED  BY <1>5, <2>1, <2>3, <2>4, <2>7 DEF OneOrderPerNumber
<1>18. GoodsSafe'
  <2>1. CASE UNCHANGED <<batch, live, stock>>
    BY <1>1, <1>2, <2>1 DEF GoodsSafe, OneOrderPerNumber, Import!OneOrderPerNumber
  <2>2. CASE Import!Order(b, rs, R)
    BY <1>1, <1>2, <1>17, <2>2 DEF GoodsSafe
  <2> QED  BY <1>1, <2>1, <2>2
<1> QED  BY <1>14, <1>16, <1>18 DEF ImportSafe

-----------------------------------------------------------------------------
(* The other steps                                                         *)

(* Rows stay as they are.                                                  *)
LEMMA RowsStay ==
    ASSUME ImportSafe, UNCHANGED <<row, count>>
    PROVE  /\ RowsMove /\ row \in [Rows -> Row]
           /\ /\ batch' \in [Batches -> {"NONE", "PREVIEW", "SUBMITTED", "EXPIRED"}]
              /\ \A x \in Batches : batch'[x] = "NONE" <=> batch[x] = "NONE"
              /\ expired' \in [Batches -> BOOLEAN]
              => FilesSafe'
<1>1. FilesSafe /\ row \in [Rows -> Row]
  BY DEF ImportSafe, FilesSafe, RowsGood
<1>2. RowsMove
  BY <1>1, StaysItself DEF RowsMove
<1>3. ASSUME batch' \in [Batches -> {"NONE", "PREVIEW", "SUBMITTED", "EXPIRED"}],
             \A x \in Batches : batch'[x] = "NONE" <=> batch[x] = "NONE",
             expired' \in [Batches -> BOOLEAN]
      PROVE  FilesSafe'
  <2>1. \A r \in Rows : FileOf[r] \in Batches
    BY IntakeAssumption
  <2> QED  BY <1>1, <1>3, <2>1 DEF FilesSafe
<1> QED  BY <1>1, <1>2, <1>3

LEMMA FileStepSafe ==
    ASSUME ImportSafe, Import!FileStep
    PROVE  ImportSafe'
<1>1. PICK b \in Batches :
        \/ \E bad \in SUBSET Import!RowsOf(b) : Import!Upload(b, bad)
        \/ Import!FindExpired(b) \/ Import!SubmitInvalid(b) \/ Import!Submit(b)
        \/ Import!CancelOrder(b) \/ Import!Expire(b)
  BY DEF Import!FileStep
<1>2. CASE \E bad \in SUBSET Import!RowsOf(b) : Import!Upload(b, bad)
  BY <1>2, UploadSafe
<1>3. CASE Import!FindExpired(b) \/ Import!Expire(b)
  <2>1. /\ UNCHANGED <<row, count, alias, stock, usable, live, tab, run, aiLock, recent, pending>>
        /\ batch' \in [Batches -> {"NONE", "PREVIEW", "SUBMITTED", "EXPIRED"}]
        /\ \A x \in Batches : batch'[x] = "NONE" <=> batch[x] = "NONE"
        /\ expired' \in [Batches -> BOOLEAN]
    BY <1>3 DEF Import!FindExpired, Import!Expire, Import!goods, Import!ai, ImportSafe, FilesSafe
  <2>2. FilesSafe' /\ RowsMove /\ row \in [Rows -> Row]
    BY <2>1, RowsStay
  <2>3. TabSafe' /\ ModelSafe'
    BY <2>1, <2>2, TabKept, ModelKept DEF ImportSafe
  <2>4. GoodsSafe'
    BY <2>1 DEF ImportSafe, GoodsSafe, OneOrderPerNumber, Import!OneOrderPerNumber
  <2> QED  BY <2>2, <2>3, <2>4 DEF ImportSafe
<1>4. CASE Import!SubmitInvalid(b)
  BY <1>4, ValidateSafe DEF Import!SubmitInvalid, Import!goods, Import!ai
<1>5. CASE Import!Submit(b)
  BY <1>5, SubmitSafe
<1>6. CASE Import!CancelOrder(b)
  <2> DEFINE R == live \cap Import!RowsOf(b)
  <2>1. /\ live' = live \ R
        /\ stock' = [s \in Skus |-> stock[s] + Import!Needed(row, R, s)]
        /\ UNCHANGED <<batch, expired, row, count, alias, usable, tab, run, aiLock, recent, pending>>
    BY <1>6 DEF Import!CancelOrder, Import!files, Import!ai
  <2>2. R \in SUBSET Rows
    BY DEF ImportSafe, GoodsSafe
  <2> HIDE DEF R
  <2>3. /\ batch' \in [Batches -> {"NONE", "PREVIEW", "SUBMITTED", "EXPIRED"}]
        /\ \A x \in Batches : batch'[x] = "NONE" <=> batch[x] = "NONE"
        /\ expired' \in [Batches -> BOOLEAN]
    BY <2>1 DEF ImportSafe, FilesSafe
  <2>4. FilesSafe' /\ RowsMove /\ row \in [Rows -> Row]
    BY <2>1, <2>3, RowsStay
  <2>5. TabSafe' /\ ModelSafe'
    BY <2>1, <2>4, TabKept, ModelKept DEF ImportSafe
  <2>6. stock' \in [Skus -> Nat]
    <3>1. ASSUME NEW s \in Skus
          PROVE  stock[s] + Import!Needed(row, R, s) \in Nat
      <4>1. stock[s] \in Nat /\ Import!Needed(row, R, s) \in Nat
        BY <2>2, <2>4, NeededNat DEF ImportSafe, GoodsSafe
      <4> QED  BY <4>1
    <3> QED  BY <2>1, <3>1
  <2>7. GoodsSafe'
    BY <2>1, <2>6 DEF ImportSafe, GoodsSafe, OneOrderPerNumber, Import!OneOrderPerNumber
  <2> QED  BY <2>4, <2>5, <2>7 DEF ImportSafe
<1> QED  BY <1>1, <1>2, <1>3, <1>4, <1>5, <1>6

LEMMA RowStepSafe ==
    ASSUME ImportSafe, Import!RowStep
    PROVE  ImportSafe'
<1>1. PICK r \in Rows, slow \in BOOLEAN :
        \/ \E s \in Skus \cup {Own}, q \in Quantities : Import!Override(r, s, q, slow)
        \/ \E s \in Skus \cup {Own} : Import!ChangeItems(r, s, slow)
        \/ \E x \in pending, s \in Skus : Import!Accept(r, x, s, slow)
        \/ Import!OpenTab(r)
  BY DEF Import!RowStep
<1>2. CASE Import!OpenTab(r)
  <2>1. /\ tab' = [id |-> r, was |-> row[r]] /\ batch[FileOf[r]] = "PREVIEW"
        /\ UNCHANGED <<batch, expired, row, count, alias, stock, usable, live, run, aiLock, recent, pending>>
    BY <1>2 DEF Import!OpenTab, Import!files, Import!goods, Import!ai
  <2>2. /\ batch' \in [Batches -> {"NONE", "PREVIEW", "SUBMITTED", "EXPIRED"}]
        /\ expired' \in [Batches -> BOOLEAN]
    BY <2>1 DEF ImportSafe, FilesSafe
  <2>3. FilesSafe' /\ RowsMove /\ row \in [Rows -> Row]
    BY <2>1, <2>2, RowsStay
  <2>4. ModelSafe'
    BY <2>1, <2>3, ModelKept DEF ImportSafe
  <2>5. TabSafe'
    <3>1. row[r] \in Row /\ Later(row[r], row[r])
      BY <2>3, StaysItself
    <3> QED  BY <2>1, <3>1 DEF TabSafe
  <2>6. GoodsSafe'
    BY <2>1 DEF ImportSafe, GoodsSafe, OneOrderPerNumber, Import!OneOrderPerNumber
  <2> QED  BY <2>3, <2>4, <2>5, <2>6 DEF ImportSafe
<1> QED  BY <1>1, <1>2, OverrideSafe, ChangeItemsSafe, AcceptSafe

(* What is for sale changes; the rows do not.                              *)
LEMMA CatalogStepSafe ==
    ASSUME ImportSafe, Import!CatalogStep
    PROVE  ImportSafe'
<1>1. CASE \E c \in Codes, s \in Skus : Import!CreateAlias(c, s)
  BY <1>1, CreateAliasSafe
<1>2. ASSUME NEW s \in Skus, Import!StockMoves(s) \/ Import!SkuChanges(s)
      PROVE  ImportSafe'
  <2>1. /\ UNCHANGED <<batch, expired, row, count, alias, live, tab, run, aiLock, recent, pending>>
        /\ stock' = stock \/ stock' = [stock EXCEPT ![s] = IF @ = 0 THEN MaxStock ELSE 0]
        /\ usable' = usable \/ usable' = [usable EXCEPT ![s] = ~@]
    BY <1>2 DEF Import!StockMoves, Import!SkuChanges, Import!files, Import!ai
  <2>2. /\ batch' \in [Batches -> {"NONE", "PREVIEW", "SUBMITTED", "EXPIRED"}]
        /\ expired' \in [Batches -> BOOLEAN]
    BY <2>1 DEF ImportSafe, FilesSafe
  <2>3. FilesSafe' /\ RowsMove /\ row \in [Rows -> Row]
    BY <2>1, <2>2, RowsStay
  <2>4. TabSafe' /\ ModelSafe'
    BY <2>1, <2>3, TabKept, ModelKept DEF ImportSafe
  <2>5. stock' \in [Skus -> Nat]
    <3>1. stock \in [Skus -> Nat] /\ MaxStock \in Nat
      BY IntakeAssumption DEF ImportSafe, GoodsSafe
    <3> QED  BY <2>1, <3>1
  <2>6. usable' \in [Skus -> BOOLEAN]
    <3>1. usable \in [Skus -> BOOLEAN]
      BY DEF ImportSafe, GoodsSafe
    <3> QED  BY <2>1, <3>1
  <2>7. GoodsSafe'
    BY <2>1, <2>5, <2>6 DEF ImportSafe, GoodsSafe, OneOrderPerNumber, Import!OneOrderPerNumber
  <2> QED  BY <2>3, <2>4, <2>7 DEF ImportSafe
<1> QED  BY <1>1, <1>2 DEF Import!CatalogStep

-----------------------------------------------------------------------------
(* Suggestions                                                             *)

LEMMA OnlyModel ==
    ASSUME ImportSafe, UNCHANGED <<batch, expired, row, count, alias, stock, usable, live, tab>>, ModelSafe'
    PROVE  ImportSafe'
<1>1. FilesSafe'
  BY DEF ImportSafe, FilesSafe
<1>2. GoodsSafe' /\ TabSafe'
  BY DEF ImportSafe, GoodsSafe, OneOrderPerNumber, Import!OneOrderPerNumber, TabSafe
<1> QED  BY <1>1, <1>2 DEF ImportSafe

(* A request for suggestions moves on to c.                                *)
LEMMA RunMoves ==
    ASSUME ImportSafe, NEW g \in Sessions, NEW c \in Run, RunFits(c),
           UNCHANGED <<batch, expired, row, count, alias, stock, usable, live, tab>>,
           run' = [run EXCEPT ![g] = c], recent' \in Nat, recent' <= MaxRuns,
           aiLock' \in Sessions \cup {NoOne},
           c.at = "preparing" => aiLock' = g /\ c.recent = recent',
           \A h \in Sessions \ {g} : run[h].at = "preparing" => aiLock' = h /\ run[h].recent = recent',
           pending' \in SUBSET Suggestion, \A x \in pending' : Fits(x, row[x.row])
    PROVE  ImportSafe'
<1>1. run \in [Sessions -> Run] /\ \A h \in Sessions : RunFits(run[h])
  BY DEF ImportSafe, ModelSafe
<1>2. \A h \in Sessions : run'[h] = IF h = g THEN c ELSE run[h]
  BY <1>1
<1>3. run' \in [Sessions -> Run]
  BY <1>1
<1>4. ASSUME NEW h \in Sessions
      PROVE  RunFits(run[h])'
  <2>1. run'[h] = c \/ run'[h] = run[h]
    BY <1>2
  <2>2. row' = row
    OBVIOUS
  <2> QED  BY <1>1, <2>1, <2>2 DEF RunFits
<1>5. \A x \in pending' : Fits(x, row'[x.row])
  OBVIOUS
<1>6. ModelSafe'
  BY <1>2, <1>3, <1>4, <1>5 DEF ModelSafe
<1> QED  BY <1>6, OnlyModel

(* To a resting place, with the lock left or given back.                   *)
LEMMA IdleRun == Import!Idle \in Run /\ RunFits(Import!Idle) /\ Import!Idle.at = "idle"
BY DEF Run, RunFits, Import!Idle

LEMMA TakeLockSafe ==
    ASSUME ImportSafe, NEW g \in Sessions, NEW b \in Batches, Import!TakeLock(g, b)
    PROVE  ImportSafe'
<1> DEFINE R == {r \in Import!Unmatched(b) : ~Import!Suggested(r) /\ Import!Suitable(b, row[r].qty) # {}}
           ask == [r \in R |-> [rev |-> row[r].rev, qty |-> row[r].qty,
                                skus |-> Import!Suitable(b, row[r].qty)]]
           c == [at |-> "preparing", batch |-> b, recent |-> recent, ask |-> ask]
<1>1. /\ run' = [run EXCEPT ![g] = c] /\ aiLock = NoOne /\ aiLock' = g
      /\ UNCHANGED <<batch, expired, row, count, alias, stock, usable, live, tab, recent, pending>>
  BY DEF Import!TakeLock, Import!files, Import!goods
<1>2. R \in SUBSET Rows
  BY DEF Import!Unmatched, Import!RowsOf
<1>3. \A q : Import!Suitable(b, q) \in SUBSET Skus
  BY DEF Import!Suitable
<1>4. \A r \in Rows : row[r].rev \in Nat /\ row[r].qty \in Nat
  BY RowFields DEF ImportSafe, FilesSafe, RowsGood
<1> HIDE DEF R
<1>5. ask \in Asks /\ \A r \in DOMAIN ask : Fits(ask[r], row[r])
  <2>1. ask \in [R -> Asked]
    BY <1>2, <1>3, <1>4 DEF Asked
  <2>2. \A r \in DOMAIN ask : Fits(ask[r], row[r])
    BY <1>2, <1>4 DEF Fits
  <2> HIDE DEF ask
  <2> QED  BY <1>2, <2>1, <2>2 DEF Asks
<1> HIDE DEF ask
<1>6. recent \in Nat /\ recent <= MaxRuns /\ pending \in SUBSET Suggestion
      /\ \A x \in pending : Fits(x, row[x.row])
  BY DEF ImportSafe, ModelSafe
<1>7. c \in Run /\ RunFits(c) /\ c.at = "preparing" /\ c.recent = recent
  BY <1>5, <1>6 DEF Run, RunFits
<1>8. \A h \in Sessions : run[h].at # "preparing"
  BY <1>1, IntakeAssumption DEF ImportSafe, ModelSafe
<1> HIDE DEF c
<1> QED  BY <1>1, <1>6, <1>7, <1>8, RunMoves

LEMMA StartRunSafe ==
    ASSUME ImportSafe, NEW g \in Sessions, Import!StartRun(g)
    PROVE  ImportSafe'
<1>1. /\ run[g].at = "preparing" /\ aiLock' \in {aiLock, NoOne}
      /\ UNCHANGED <<batch, expired, row, count, alias, stock, usable, live, tab, pending>>
  BY DEF Import!StartRun, Import!files, Import!goods
<1>2. /\ run[g] \in Run /\ RunFits(run[g]) /\ recent \in Nat /\ recent <= MaxRuns /\ MaxRuns \in Nat
      /\ run[g].recent = recent /\ pending \in SUBSET Suggestion
      /\ \A x \in pending : Fits(x, row[x.row])
      /\ aiLock' \in Sessions \cup {NoOne}
  BY <1>1, IntakeAssumption DEF ImportSafe, ModelSafe
<1>3. \A h \in Sessions \ {g} : run[h].at # "preparing"
  BY <1>1 DEF ImportSafe, ModelSafe
<1>4. CASE run[g].recent < MaxRuns
  <2> DEFINE c == [at |-> "calling", batch |-> run[g].batch, ask |-> run[g].ask]
  <2>1. recent' = recent + 1 /\ run' = [run EXCEPT ![g] = c]
    BY <1>4 DEF Import!StartRun
  <2>2. recent' \in Nat /\ recent' <= MaxRuns
    BY <1>2, <1>4, <2>1
  <2>3. run[g].batch \in Batches /\ run[g].ask \in Asks
        /\ \A r \in DOMAIN run[g].ask : Fits(run[g].ask[r], row[r])
    <3>1. run[g] \in [at : {"preparing"}, batch : Batches, recent : Nat, ask : Asks]
      BY <1>1, <1>2 DEF Run, Import!Idle
    <3>2. run[g].batch \in Batches /\ run[g].ask \in Asks
      BY <3>1
    <3>3. \A r \in DOMAIN run[g].ask : Fits(run[g].ask[r], row[r])
      BY <1>1, <1>2 DEF RunFits
    <3> QED  BY <3>2, <3>3
  <2>4. c \in Run /\ RunFits(c) /\ c.at = "calling"
    BY <2>3 DEF Run, RunFits
  <2> HIDE DEF c
  <2> QED  BY <1>1, <1>2, <1>3, <2>1, <2>2, <2>4, RunMoves
<1>5. CASE ~(run[g].recent < MaxRuns)
  <2>1. recent' = recent /\ run' = [run EXCEPT ![g] = Import!Idle]
    BY <1>5 DEF Import!StartRun
  <2> QED  BY <1>1, <1>2, <1>3, <2>1, IdleRun, RunMoves
<1> QED  BY <1>4, <1>5

LEMMA AnswerSafe ==
    ASSUME ImportSafe, NEW g \in Sessions, Import!Answer(g)
    PROVE  ImportSafe'
<1>1. /\ run[g].at = "calling"
      /\ UNCHANGED <<batch, expired, row, count, alias, stock, usable, live, tab, aiLock, recent, pending>>
  BY DEF Import!Answer, Import!files, Import!goods
<1>2. /\ run[g] \in Run /\ RunFits(run[g]) /\ recent \in Nat /\ recent <= MaxRuns
      /\ pending \in SUBSET Suggestion
      /\ \A x \in pending : Fits(x, row[x.row])
      /\ aiLock \in Sessions \cup {NoOne}
      /\ \A h \in Sessions : run[h].at = "preparing" => aiLock = h /\ run[h].recent = recent
  BY DEF ImportSafe, ModelSafe
<1>3. CASE run' = [run EXCEPT ![g] = Import!Idle]
  BY <1>1, <1>2, <1>3, IdleRun, RunMoves
<1>4. CASE run' # [run EXCEPT ![g] = Import!Idle]
  <2> DEFINE Kept(r) == run[g].ask[r].skus \cap Import!Suitable(run[g].batch, run[g].ask[r].qty)
             New(R) == {[row |-> r, rev |-> run[g].ask[r].rev, qty |-> run[g].ask[r].qty,
                         skus |-> Kept(r)] : r \in R}
  <2>1. PICK R \in SUBSET Import!StillCurrent(g) : run' = [run EXCEPT ![g] = [at |-> "answered", new |-> New(R)]]
    BY <1>4 DEF Import!Answer
  <2>2. ASSUME NEW r \in R
        PROVE  /\ r \in Rows /\ run[g].ask[r] \in Asked /\ Fits(run[g].ask[r], row[r])
               /\ Kept(r) \in SUBSET Skus
    <3>1. r \in DOMAIN run[g].ask
      BY DEF Import!StillCurrent
    <3>2. r \in Rows /\ run[g].ask[r] \in Asked
      BY <1>1, <1>2, <3>1, RunFields
    <3>3. Fits(run[g].ask[r], row[r])
      BY <1>1, <1>2, <3>1 DEF RunFits
    <3> QED  BY <3>2, <3>3 DEF Asked
  <2>3. \A x \in New(R) : x \in Suggestion /\ Fits(x, row[x.row])
    BY <2>2 DEF Suggestion, Asked, Fits
  <2> DEFINE c == [at |-> "answered", new |-> New(R)]
  <2> HIDE DEF New
  <2>4. c \in Run /\ RunFits(c) /\ c.at = "answered"
    BY <2>3 DEF Run, RunFits
  <2>5. run' = [run EXCEPT ![g] = c]
    BY <2>1
  <2> HIDE DEF c
  <2> QED  BY <1>1, <1>2, <2>4, <2>5, RunMoves
<1> QED  BY <1>3, <1>4

LEMMA SuggestionStepSafe ==
    ASSUME ImportSafe, Import!SuggestionStep
    PROVE  ImportSafe'
<1>1. /\ run \in [Sessions -> Run] /\ \A g \in Sessions : RunFits(run[g])
      /\ recent \in Nat /\ recent <= MaxRuns /\ MaxRuns \in Nat /\ pending \in SUBSET Suggestion
      /\ \A x \in pending : Fits(x, row[x.row])
      /\ aiLock \in Sessions \cup {NoOne}
      /\ \A h \in Sessions : run[h].at = "preparing" => aiLock = h /\ run[h].recent = recent
  BY IntakeAssumption DEF ImportSafe, ModelSafe
<1>2. ASSUME NEW g \in Sessions, Import!Insert(g)
      PROVE  ImportSafe'
  <2>1. /\ run[g].at = "answered" /\ run' = [run EXCEPT ![g] = Import!Idle]
        /\ pending' \in SUBSET (pending \cup run[g].new)
        /\ UNCHANGED <<batch, expired, row, count, alias, stock, usable, live, tab, aiLock, recent>>
    BY <1>2 DEF Import!Insert, Import!files, Import!goods
  <2>2. run[g].new \in SUBSET Suggestion /\ \A x \in run[g].new : Fits(x, row[x.row])
    BY <1>1, <2>1, RunFields DEF RunFits
  <2> QED  BY <1>1, <2>1, <2>2, IdleRun, RunMoves
<1>3. ASSUME NEW g \in Sessions, Import!Lose(g)
      PROVE  ImportSafe'
  <2>1. /\ run' = [run EXCEPT ![g] = Import!Idle] /\ aiLock' = IF aiLock = g THEN NoOne ELSE aiLock
        /\ UNCHANGED <<batch, expired, row, count, alias, stock, usable, live, tab, recent, pending>>
    BY <1>3 DEF Import!Lose, Import!files, Import!goods
  <2>2. aiLock' \in Sessions \cup {NoOne}
        /\ \A h \in Sessions \ {g} : run[h].at = "preparing" => aiLock' = h /\ run[h].recent = recent
    BY <1>1, <2>1
  <2> QED  BY <1>1, <2>1, <2>2, IdleRun, RunMoves
<1>4. ASSUME NEW x \in pending, Import!Reject(x)
      PROVE  ImportSafe'
  <2>1. /\ pending' = pending \ {x}
        /\ UNCHANGED <<batch, expired, row, count, alias, stock, usable, live, tab, run, aiLock, recent>>
    BY <1>4 DEF Import!Reject, Import!files, Import!goods
  <2>2. ModelSafe'
    BY <1>1, <2>1 DEF ModelSafe, RunFits
  <2> QED  BY <2>1, <2>2, OnlyModel
<1>5. ASSUME Import!WindowPasses
      PROVE  ImportSafe'
  <2>1. /\ recent' = 0 /\ \A g \in Sessions : run[g].at # "preparing"
        /\ UNCHANGED <<batch, expired, row, count, alias, stock, usable, live, tab, run, aiLock, pending>>
    BY <1>5 DEF Import!WindowPasses, Import!files, Import!goods
  <2>2. ModelSafe'
    BY <1>1, <2>1 DEF ModelSafe, RunFits
  <2> QED  BY <2>1, <2>2, OnlyModel
<1> QED  BY <1>2, <1>3, <1>4, <1>5, TakeLockSafe, StartRunSafe, AnswerSafe DEF Import!SuggestionStep

-----------------------------------------------------------------------------
(* What ImportBatch promises                                               *)

LEMMA ImportInit == Import!Init => ImportSafe
<1> SUFFICES ASSUME Import!Init
             PROVE  ImportSafe
  OBVIOUS
<1> DEFINE x(r) == [status |-> "INVALID", code |-> "", sku |-> NoSku,
                    items |-> <<>>, qty |-> Quantity[r], rev |-> 0]
<1>1. /\ batch = [b \in Batches |-> "NONE"] /\ expired = [b \in Batches |-> FALSE]
      /\ row = [r \in Rows |-> x(r)]
      /\ count = [b \in Batches |-> [s \in Import!Statuses |-> 0]]
      /\ alias = [c \in Codes |-> NoSku] /\ stock = [s \in Skus |-> MaxStock]
      /\ usable = [s \in Skus |-> TRUE] /\ live = {} /\ tab = NoTab
      /\ run = [g \in Sessions |-> Import!Idle] /\ aiLock = NoOne /\ recent = 0 /\ pending = {}
  BY DEF Import!Init
<1>2. ASSUME NEW r \in Rows
      PROVE  x(r) \in Row /\ RowGood(x(r)) /\ ~Sound(x(r)) /\ x(r).status = "INVALID"
  <2>1. Quantity[r] \in Nat /\ 0 \in 0 .. MaxRevision /\ <<>> \in Items
    BY IntakeAssumption DEF Items
  <2> QED  BY <2>1 DEF Row, RowGood, Sound, Own0, Import!Statuses
<1> HIDE DEF x
<1>3. RowsGood(row)
  BY <1>1, <1>2 DEF RowsGood, KeysApart
<1>4. count \in [Batches -> [Import!Statuses -> 0 .. Import!Cardinality(Rows)]]
  <2>1. Import!Cardinality(Rows) \in Nat
    BY SameCardinality, FS_CardinalityType, IntakeAssumption
  <2>2. 0 \in 0 .. Import!Cardinality(Rows)
    BY <2>1
  <2> QED  BY <1>1, <2>2
<1>5. FilesSafe
  <2>1. \A r \in Rows : FileOf[r] \in Batches
    BY IntakeAssumption
  <2> QED  BY <1>1, <1>2, <1>3, <1>4, <2>1 DEF FilesSafe
<1>6. GoodsSafe /\ TabSafe
  BY <1>1, IntakeAssumption DEF GoodsSafe, TabSafe, OneOrderPerNumber, Import!OneOrderPerNumber
<1>7. ModelSafe
  BY <1>1, IdleRun, IntakeAssumption DEF ModelSafe
<1> QED  BY <1>5, <1>6, <1>7 DEF ImportSafe

LEMMA ImportNext == ImportSafe /\ [Import!Next]_(Import!vars) => ImportSafe'
<1> SUFFICES ASSUME ImportSafe, [Import!Next]_(Import!vars)
             PROVE  ImportSafe'
  OBVIOUS
<1>1. CASE UNCHANGED Import!vars
  <2>1. UNCHANGED <<batch, expired, row, count, alias, stock, usable, live, tab, run, aiLock, recent, pending>>
    BY <1>1 DEF Import!vars
  <2>2. ModelSafe'
    BY <2>1 DEF ImportSafe, ModelSafe, RunFits
  <2> QED  BY <2>1, <2>2, OnlyModel
<1> QED  BY <1>1, FileStepSafe, RowStepSafe, SuggestionStepSafe, CatalogStepSafe DEF Import!Next

LEMMA ImportStaysSafe == Import!Spec => []ImportSafe
BY ImportInit, ImportNext, PTL DEF Import!Spec

(* Whatever uploads, edits, mappings and submissions do, the counters of a *)
(* preview count its rows, a row that is ready has goods, and stock never  *)
(* falls below zero (order-import/service.ts and validation of batches,    *)
(* orders/submission.ts).                                                  *)
THEOREM PreviewsAlwaysAddUp == Import!Spec => []PreviewsAddUp
<1>1. ImportSafe => PreviewsAddUp
  <2> SUFFICES ASSUME ImportSafe
               PROVE  PreviewsAddUp
    OBVIOUS
  <2>1. FilesSafe /\ GoodsSafe /\ ModelSafe
    BY DEF ImportSafe
  <2>2. \A r \in Rows : row[r] \in Row /\ RowGood(row[r])
    BY <2>1 DEF FilesSafe, RowsGood
  <2>3. ASSUME NEW r \in Rows
        PROVE  /\ row[r].status \in Import!Statuses
               /\ row[r].code \in {"", "SKU_UNAVAILABLE", "INSUFFICIENT_STOCK"}
               /\ row[r].sku \in Skus \cup {NoSku, Own}
               /\ row[r].items \in Seq(Skus \cup {Own})
               /\ Len(row[r].items) <= MaxItems
               /\ row[r].qty \in Nat /\ row[r].rev \in 0 .. MaxRevision
    BY <2>2, RowFields DEF Own0, Import!Statuses
  <2>4. Import!TypeOK
    BY <2>1, <2>3 DEF Import!TypeOK, FilesSafe, GoodsSafe, ModelSafe
  <2>5. \A b \in Batches : batch[b] # "NONE" => count[b] = Import!Tally(row, b)
    BY <2>1 DEF FilesSafe
  <2> QED  BY <2>2, <2>4, <2>5 DEF PreviewsAddUp, Import!PreviewsAddUp, RowGood
<1> QED  BY <1>1, ImportStaysSafe, PTL

(* Two orders that are alive never ship the same order of a shop: what the *)
(* upload could not see, the submission looks up under its locks           *)
(* (orders/submission.ts, submitTemuImportBatch).                          *)
THEOREM NumbersOrderedOnce == Import!Spec => []OneOrderPerNumber
<1>1. ImportSafe => OneOrderPerNumber
  BY DEF ImportSafe, GoodsSafe
<1> QED  BY <1>1, ImportStaysSafe, PTL

(* A suggestion that can be accepted was checked for the pieces of its row *)
(* as it is now, and overlapping requests keep the limit of runs           *)
(* (ai-sku-matching/service.ts).                                           *)
THEOREM SuggestionsAlwaysFit == Import!Spec => []SuggestionsFit
<1>1. ImportSafe => SuggestionsFit
  BY DEF ImportSafe, ModelSafe, SuggestionsFit, Import!SuggestionsFit, Fits
<1> QED  BY <1>1, ImportStaysSafe, PTL

(* A slow tab overwrites no entry that it did not show                     *)
(* (order-import/customer-service.ts, the revision of a row).              *)
THEOREM EditsNeverLost == Import!Spec => NoLostEdit
<1> DEFINE A1 == tab # NoTab /\ tab' = NoTab =>
                   /\ row[tab.id].qty = tab.was.qty /\ row[tab.id].items = tab.was.items
                   /\ row[tab.id].sku \in {tab.was.sku, NoSku}
<1>1. ASSUME ImportSafe, Import!Next
      PROVE  A1
  <2> SUFFICES ASSUME tab # NoTab, tab' = NoTab
               PROVE  /\ row[tab.id].qty = tab.was.qty /\ row[tab.id].items = tab.was.items
                      /\ row[tab.id].sku \in {tab.was.sku, NoSku}
    OBVIOUS
  <2>1. PICK r \in Rows : Import!Editable(r, TRUE)
    <3>1. tab' # tab
      OBVIOUS
    <3>2. ~Import!FileStep /\ ~Import!CatalogStep /\ ~Import!SuggestionStep
      BY <3>1 DEF Import!FileStep, Import!CatalogStep, Import!SuggestionStep, Import!Upload, Import!FindExpired,
         Import!SubmitInvalid, Import!Submit, Import!CancelOrder, Import!Expire, Import!CreateAlias,
         Import!StockMoves, Import!SkuChanges, Import!TakeLock, Import!StartRun, Import!Answer,
         Import!Insert, Import!Lose, Import!Reject, Import!WindowPasses
    <3>3. PICK r \in Rows, slow \in BOOLEAN :
            \/ \E s \in Skus \cup {Own}, q \in Quantities : Import!Override(r, s, q, slow)
            \/ \E s \in Skus \cup {Own} : Import!ChangeItems(r, s, slow)
            \/ \E x \in pending, s \in Skus : Import!Accept(r, x, s, slow)
            \/ Import!OpenTab(r)
      BY <1>1, <3>2 DEF Import!Next, Import!RowStep
    <3>4. ~Import!OpenTab(r)
      BY DEF Import!OpenTab
    <3>5. Import!Editable(r, slow) /\ Import!CloseTab(slow)
      BY <3>3, <3>4 DEF Import!Override, Import!ChangeItems, Import!Accept
    <3>6. slow = TRUE
      BY <3>1, <3>5 DEF Import!CloseTab
    <3> QED  BY <3>5, <3>6
  <2>2. tab.id = r /\ row[r].rev = tab.was.rev
    BY <2>1 DEF Import!Editable, Import!Current, Import!Shown
  <2>3. Later(tab.was, row[tab.id])
    BY <1>1 DEF ImportSafe, TabSafe
  <2> QED  BY <2>2, <2>3 DEF Later
<1>2. ImportSafe /\ [Import!Next]_(Import!vars) => [A1]_(Import!vars)
  BY <1>1
<1> QED  BY <1>2, ImportStaysSafe, PTL DEF Import!Spec, NoLostEdit, Import!NoLostEdit, A1

-----------------------------------------------------------------------------
(* Drafts of several stores                                                *)

Groups == Drafts \X Stores
AllNumbers == UNION {Numbers[f] : f \in Files}
DraftStatus == {"NONE", "DRAFT", "PARTIALLY_SUBMITTED", "COMPLETED", "EXPIRED"}
GroupRow == [status : {"NONE", "PREVIEW", "SUBMITTED"}, files : Seq(Files)]
FileRow == [status : {"NONE", "PREVIEW", "SUBMITTED"}, old : SUBSET AllNumbers, known : BOOLEAN]
OrderRow == [by : {"bulk", "single"}, key : Keys \cup {None}, group : Groups, store : Stores,
             numbers : SUBSET AllNumbers, alive : BOOLEAN]
Answers == [draft : Drafts, created : SUBSET Groups, failed : SUBSET Groups]

VerdictOf == {"OK", "INVALID", "EXPIRED", "CROSS_STORE_CONFLICT", "DUPLICATE_CHANGED"}
Verdicts == UNION {[G -> VerdictOf] : G \in SUBSET Groups}
Loaded == [at : {"loaded"}, draft : Drafts, groups : SUBSET Groups, preview : SUBSET Files]
Judged == [at : {"judged"}, draft : Drafts, files : SUBSET Files, overdue : BOOLEAN, verdict : Verdicts]
Checked == [at : {"checked"}, draft : Drafts, files : SUBSET Files, overdue : BOOLEAN,
            wanted : SUBSET Groups, verdict : Verdicts]
Operation == {Bulk!Idle} \cup Loaded \cup Judged \cup Checked

DraftType ==
    /\ draft \in [Drafts -> DraftStatus] /\ late \in [Drafts -> BOOLEAN]
    /\ group \in [Groups -> GroupRow] /\ file \in [Files -> FileRow]
    /\ orders \in Seq(OrderRow)
    /\ op \in [Keys -> Operation] /\ result \in [Keys -> {None} \cup Answers]

(* A file is in one group, once, and a draft that is not there has none.   *)
FilesApart ==
    /\ \A g \in Groups : /\ group[g].status = "NONE" => group[g].files = <<>>
                         /\ \A f \in Bulk!FilesOf(g) : file[f].status # "NONE"
                         /\ \A i, j \in DOMAIN group[g].files :
                              group[g].files[i] = group[g].files[j] => i = j
    /\ \A g, h \in Groups : g # h => Bulk!FilesOf(g) \cap Bulk!FilesOf(h) = {}
    /\ \A d \in Drafts : draft[d] = "NONE" => Bulk!GroupsOf(d) = {}

(* A group that was found good is still so as long as its draft is locked. *)
StillGood(g) ==
    /\ group[g].status = "PREVIEW" /\ draft[g[1]] # "EXPIRED"
    /\ ~Bulk!CrossStore(g) /\ ~Bulk!Unresolved(g) /\ Bulk!Candidates(g) # {}

(* Only a single submission of another store has what it is about to order. *)
NotOrdered(g) ==
    \A i \in DOMAIN orders :
        orders[i].alive /\ orders[i].numbers \cap Bulk!Candidates(g) # {} =>
            orders[i].store # g[2] /\ orders[i].by = "single"

Busy(c) == c.at \in {"judged", "checked"}
GoodOf(c) == {g \in DOMAIN c.verdict : c.verdict[g] = "OK"}
NumbersOfAll(G) == UNION {Bulk!Candidates(g) : g \in G}

OpOK(k) ==
    LET c == op[k] IN
    /\ c.at # "idle" => draft[c.draft] # "NONE" /\ result[k] = None
    /\ c.at = "loaded" => c.groups \subseteq Bulk!GroupsOf(c.draft)
    /\ Busy(c) => /\ DOMAIN c.verdict \subseteq Bulk!GroupsOf(c.draft)
                  /\ c.files = UNION {Bulk!FilesOf(g) : g \in DOMAIN c.verdict}
    /\ Busy(c) => \A g \in GoodOf(c) : StillGood(g)
    /\ c.at = "checked" => /\ GoodOf(c) \subseteq c.wanted /\ c.wanted \subseteq DOMAIN c.verdict
                           /\ \A g \in GoodOf(c) : NotOrdered(g)

(* Two submissions that run have nothing in common.                        *)
OpsApart(j, k) ==
    /\ op[j].at # "idle" /\ op[k].at # "idle" => op[j].draft # op[k].draft
    /\ Busy(op[j]) /\ Busy(op[k]) => op[j].files \cap op[k].files = {}
    /\ op[j].at = "checked" /\ op[k].at = "checked" =>
         NumbersOfAll(op[j].wanted) \cap NumbersOfAll(op[k].wanted) = {}

AllRight == \A k \in Keys : OpOK(k)
AllApart == \A j, k \in Keys : j # k => OpsApart(j, k)

BulkSafe == DraftType /\ FilesApart /\ NumbersLiveOnce /\ OrdersAnswerable /\ AllRight /\ AllApart

LEMMA OpFields ==
    ASSUME NEW c \in Operation
    PROVE  /\ c.at \in {"idle", "loaded", "judged", "checked"}
           /\ c.at = "idle" <=> c = Bulk!Idle
           /\ c.at # "idle" => c.draft \in Drafts
           /\ c.at = "loaded" => c \in Loaded /\ c.groups \in SUBSET Groups /\ c.preview \in SUBSET Files
           /\ c.at = "judged" => c \in Judged
           /\ c.at = "checked" => c \in Checked /\ c.wanted \in SUBSET Groups
           /\ Busy(c) => /\ c.files \in SUBSET Files /\ c.overdue \in BOOLEAN /\ c.verdict \in Verdicts
                         /\ DOMAIN c.verdict \in SUBSET Groups /\ GoodOf(c) \in SUBSET Groups
<1>1. \A v \in Verdicts : DOMAIN v \in SUBSET Groups
  BY DEF Verdicts
<1>2. CASE c = Bulk!Idle
  BY <1>2 DEF Bulk!Idle, Busy
<1>3. CASE c \in Loaded
  BY <1>3 DEF Loaded, Bulk!Idle, Busy
<1>4. CASE c \in Judged
  <2>1. c.at = "judged" /\ c.draft \in Drafts /\ c.files \in SUBSET Files /\ c.overdue \in BOOLEAN
        /\ c.verdict \in Verdicts
    BY <1>4 DEF Judged
  <2> QED  BY <1>1, <1>4, <2>1 DEF Bulk!Idle, Busy, GoodOf
<1>5. CASE c \in Checked
  <2>1. c.at = "checked" /\ c.draft \in Drafts /\ c.files \in SUBSET Files /\ c.overdue \in BOOLEAN
        /\ c.verdict \in Verdicts /\ c.wanted \in SUBSET Groups
    BY <1>5 DEF Checked
  <2> QED  BY <1>1, <1>5, <2>1 DEF Bulk!Idle, Busy, GoodOf
<1> QED  BY <1>2, <1>3, <1>4, <1>5 DEF Operation

-----------------------------------------------------------------------------
(* The numbers of a group                                                  *)

(* The first file with a number is one of the group.                       *)
LEMMA FirstIsThere ==
    ASSUME NEW g \in Groups, group[g].files \in Seq(Files), NEW n \in Bulk!NumbersOf(g)
    PROVE  Bulk!FirstWith(g, n) \in Bulk!FilesOf(g) /\ n \in Numbers[Bulk!FirstWith(g, n)]
<1> DEFINE fs == group[g].files
           S == {i \in DOMAIN fs : n \in Numbers[fs[i]]}
<1>1. DOMAIN fs = 1 .. Len(fs) /\ Len(fs) \in Nat
  OBVIOUS
<1>2. S \in SUBSET Nat /\ S # {}
  <2>1. \E f \in {fs[i] : i \in DOMAIN fs} : n \in Numbers[f]
    BY DEF Bulk!NumbersOf, Bulk!FilesOf, Bulk!ToSet
  <2> QED  BY <1>1, <2>1
<1>3. PICK i \in S : \A j \in S : i <= j
  BY <1>2, Least
<1>4. i \in DOMAIN fs /\ n \in Numbers[fs[i]] /\ \A j \in 1 .. (i - 1) : n \notin Numbers[fs[j]]
  <2>1. \A j \in 1 .. (i - 1) : j \in DOMAIN fs /\ ~(i <= j)
    BY <1>1, <1>3
  <2> QED  BY <1>3, <2>1
<1>5. \E m \in DOMAIN fs : n \in Numbers[fs[m]] /\ \A j \in 1 .. (m - 1) : n \notin Numbers[fs[j]]
  BY <1>4
<1> DEFINE m == CHOOSE m \in DOMAIN fs :
                  n \in Numbers[fs[m]] /\ \A j \in 1 .. (m - 1) : n \notin Numbers[fs[j]]
<1>6. m \in DOMAIN fs /\ n \in Numbers[fs[m]]
  BY <1>5
<1>7. Bulk!FirstWith(g, n) = fs[m]
  BY DEF Bulk!FirstWith
<1> QED  BY <1>6, <1>7 DEF Bulk!FilesOf, Bulk!ToSet

(* What a group orders depends on its files and their old numbers.         *)
LEMMA FilesOfGroup ==
    ASSUME DraftType, NEW g \in Groups
    PROVE  /\ group[g].files \in Seq(Files) /\ group[g].status \in {"NONE", "PREVIEW", "SUBMITTED"}
           /\ Bulk!FilesOf(g) \in SUBSET Files
           /\ Bulk!NumbersOf(g) \in SUBSET AllNumbers /\ Bulk!Candidates(g) \in SUBSET AllNumbers
<1>1. group[g] \in GroupRow
  BY DEF DraftType
<1>2. group[g].files \in Seq(Files) /\ group[g].status \in {"NONE", "PREVIEW", "SUBMITTED"}
  BY <1>1 DEF GroupRow
<1>3. Bulk!FilesOf(g) \in SUBSET Files
  BY <1>2 DEF Bulk!FilesOf, Bulk!ToSet
<1> QED  BY <1>2, <1>3 DEF Bulk!NumbersOf, Bulk!Candidates, AllNumbers

LEMMA SameCandidates ==
    ASSUME DraftType, NEW g \in Groups, group'[g].files = group[g].files,
           \A f \in Bulk!FilesOf(g) : file'[f].old = file[f].old
    PROVE  /\ Bulk!FilesOf(g)' = Bulk!FilesOf(g) /\ Bulk!NumbersOf(g)' = Bulk!NumbersOf(g)
           /\ Bulk!Candidates(g)' = Bulk!Candidates(g)
<1>1. Bulk!FilesOf(g)' = Bulk!FilesOf(g)
  BY DEF Bulk!FilesOf, Bulk!ToSet
<1>2. Bulk!NumbersOf(g)' = Bulk!NumbersOf(g)
  BY <1>1 DEF Bulk!NumbersOf
<1>3. \A n : Bulk!FirstWith(g, n)' = Bulk!FirstWith(g, n)
  BY DEF Bulk!FirstWith
<1>4. \A n \in Bulk!NumbersOf(g) : file'[Bulk!FirstWith(g, n)].old = file[Bulk!FirstWith(g, n)].old
  BY FirstIsThere, FilesOfGroup
<1> QED  BY <1>1, <1>2, <1>3, <1>4 DEF Bulk!Candidates

(* Nothing that a running submission relies on has changed.                *)
DraftUntouched(d) ==
    draft'[d] = draft[d] /\ \A h \in Groups : h[1] = d => group'[h] = group[h]
FilesUntouched(F) == \A f \in F : file'[f].old = file[f].old /\ file'[f].known = file[f].known
Untouched(k) ==
    /\ op'[k] = op[k]
    /\ op[k].at # "idle" => result'[k] = result[k] /\ DraftUntouched(op[k].draft)
    /\ Busy(op[k]) => FilesUntouched(op[k].files)
Avoids(g) ==
    \A i \in DOMAIN orders' : orders'[i].alive /\ orders'[i].numbers \cap Bulk!Candidates(g) # {} =>
        \/ orders'[i].store # g[2] /\ orders'[i].by = "single"
        \/ /\ i \in DOMAIN orders /\ orders[i].alive /\ orders[i].numbers = orders'[i].numbers
           /\ orders[i].store = orders'[i].store /\ orders[i].by = orders'[i].by
OrdersAvoid(k) == op[k].at = "checked" => \A g \in GoodOf(op[k]) : Avoids(g)

LEMMA StaysGood ==
    ASSUME DraftType, NEW g \in Groups, DraftUntouched(g[1]), FilesUntouched(Bulk!FilesOf(g)), StillGood(g)
    PROVE  StillGood(g)'
<1>0. g[1] \in Drafts
  BY DEF Groups
<1>1. \A h \in Groups : h[1] = g[1] => group'[h] = group[h] /\ Bulk!FilesOf(h)' = Bulk!FilesOf(h)
                                       /\ Bulk!NumbersOf(h)' = Bulk!NumbersOf(h)
  BY DEF DraftUntouched, Bulk!FilesOf, Bulk!NumbersOf
<1>2. Bulk!Candidates(g)' = Bulk!Candidates(g)
  BY <1>1, SameCandidates DEF FilesUntouched
<1>3. Bulk!GroupsOf(g[1])' = Bulk!GroupsOf(g[1])
  BY <1>1 DEF Bulk!GroupsOf, Bulk!Groups, Groups
<1>4. \A h \in Bulk!GroupsOf(g[1]) : h \in Groups /\ h[1] = g[1]
  BY DEF Bulk!GroupsOf, Bulk!Groups, Groups
<1>5. ~Bulk!CrossStore(g)'
  BY <1>1, <1>3, <1>4 DEF StillGood, Bulk!CrossStore
<1>6. ~Bulk!Unresolved(g)'
  BY <1>1 DEF StillGood, Bulk!Unresolved, FilesUntouched
<1> QED  BY <1>1, <1>2, <1>5, <1>6 DEF StillGood, DraftUntouched

LEMMA StaysNotOrdered ==
    ASSUME NEW g, Avoids(g), NotOrdered(g), Bulk!Candidates(g)' = Bulk!Candidates(g)
    PROVE  NotOrdered(g)'
<1> SUFFICES ASSUME NEW i \in DOMAIN orders', orders'[i].alive,
                    orders'[i].numbers \cap Bulk!Candidates(g) # {}
             PROVE  orders'[i].store # g[2] /\ orders'[i].by = "single"
  BY DEF NotOrdered
<1> QED  BY DEF Avoids, NotOrdered

(* The groups a submission has judged are of its draft, their files its own. *)
LEMMA GroupsHeld ==
    ASSUME DraftType, NEW k \in Keys, OpOK(k), Busy(op[k]), NEW g \in DOMAIN op[k].verdict
    PROVE  /\ g \in Groups /\ g[1] = op[k].draft /\ g[1] \in Drafts /\ group[g].status # "NONE"
           /\ Bulk!FilesOf(g) \subseteq op[k].files
<1>1. g \in Bulk!GroupsOf(op[k].draft) /\ Bulk!FilesOf(g) \subseteq op[k].files
  BY DEF OpOK
<1> QED  BY <1>1 DEF Bulk!GroupsOf, Bulk!Groups, Groups

LEMMA HeldCandidates ==
    ASSUME DraftType, NEW k \in Keys, OpOK(k), Untouched(k), Busy(op[k])
    PROVE  \A g \in DOMAIN op[k].verdict :
             /\ g \in Bulk!GroupsOf(op[k].draft)' /\ Bulk!FilesOf(g)' = Bulk!FilesOf(g)
             /\ Bulk!Candidates(g)' = Bulk!Candidates(g)
             /\ DraftUntouched(g[1]) /\ FilesUntouched(Bulk!FilesOf(g))
<1> SUFFICES ASSUME NEW g \in DOMAIN op[k].verdict
             PROVE  /\ g \in Bulk!GroupsOf(op[k].draft)' /\ Bulk!FilesOf(g)' = Bulk!FilesOf(g)
                    /\ Bulk!Candidates(g)' = Bulk!Candidates(g)
                    /\ DraftUntouched(g[1]) /\ FilesUntouched(Bulk!FilesOf(g))
  OBVIOUS
<1>1. /\ g \in Groups /\ g[1] = op[k].draft /\ group[g].status # "NONE"
      /\ Bulk!FilesOf(g) \subseteq op[k].files
  BY GroupsHeld
<1>2. op[k].at # "idle"
  BY DEF Busy
<1>3. DraftUntouched(g[1]) /\ FilesUntouched(Bulk!FilesOf(g))
  BY <1>1, <1>2 DEF Untouched, FilesUntouched
<1>4. group'[g] = group[g]
  BY <1>1, <1>3 DEF DraftUntouched
<1>5. Bulk!FilesOf(g)' = Bulk!FilesOf(g) /\ Bulk!Candidates(g)' = Bulk!Candidates(g)
  BY <1>1, <1>3, <1>4, SameCandidates DEF FilesUntouched
<1>6. g \in Bulk!GroupsOf(op[k].draft)'
  BY <1>1, <1>2, <1>4 DEF Bulk!GroupsOf, Bulk!Groups, Groups, Untouched
<1> QED  BY <1>3, <1>5, <1>6

LEMMA OpStays ==
    ASSUME DraftType, NEW k \in Keys, OpOK(k), Untouched(k), OrdersAvoid(k)
    PROVE  OpOK(k)' /\ (op[k].at = "checked" => NumbersOfAll(op[k].wanted)' = NumbersOfAll(op[k].wanted))
<1> DEFINE c == op[k]
<1>0. op'[k] = c /\ c \in Operation
  BY DEF Untouched, DraftType
<1>1. c.at # "idle" => draft'[c.draft] # "NONE" /\ result'[k] = None
  BY DEF OpOK, Untouched, DraftUntouched
<1>2. ASSUME c.at = "loaded"
      PROVE  c.groups \subseteq Bulk!GroupsOf(c.draft)'
  <2>1. c.groups \subseteq Bulk!GroupsOf(c.draft) /\ DraftUntouched(c.draft) /\ op'[k].draft = c.draft
    BY <1>0, <1>2 DEF OpOK, Untouched
  <2> QED  BY <2>1 DEF Bulk!GroupsOf, Bulk!Groups, Groups, DraftUntouched
<1>3. ASSUME Busy(c)
      PROVE  /\ DOMAIN c.verdict \subseteq Bulk!GroupsOf(c.draft)'
             /\ c.files = UNION {Bulk!FilesOf(g) : g \in DOMAIN c.verdict}'
             /\ \A g \in DOMAIN c.verdict : Bulk!Candidates(g)' = Bulk!Candidates(g)
  <2>1. /\ DOMAIN c.verdict \subseteq Bulk!GroupsOf(c.draft)'
        /\ \A g \in DOMAIN c.verdict : /\ Bulk!FilesOf(g)' = Bulk!FilesOf(g)
                                       /\ Bulk!Candidates(g)' = Bulk!Candidates(g)
    BY <1>3, HeldCandidates
  <2>2. c.files = UNION {Bulk!FilesOf(g) : g \in DOMAIN c.verdict}
    BY <1>3 DEF OpOK
  <2> QED  BY <1>0, <2>1, <2>2
<1>4. ASSUME Busy(c)
      PROVE  \A g \in GoodOf(c) : StillGood(g)'
  <2> SUFFICES ASSUME NEW g \in GoodOf(c)
               PROVE  StillGood(g)'
    OBVIOUS
  <2>1. g \in DOMAIN c.verdict /\ StillGood(g)
    BY <1>4 DEF GoodOf, OpOK
  <2>2. g \in Groups
    BY <1>4, <2>1, GroupsHeld
  <2> QED  BY <1>4, <2>1, <2>2, HeldCandidates, StaysGood
<1>5. ASSUME c.at = "checked"
      PROVE  /\ GoodOf(c) \subseteq c.wanted /\ c.wanted \subseteq DOMAIN c.verdict
             /\ \A g \in GoodOf(c) : NotOrdered(g)'
  <2>1. GoodOf(c) \subseteq c.wanted /\ c.wanted \subseteq DOMAIN c.verdict /\ \A g \in GoodOf(c) : NotOrdered(g)
    BY <1>5 DEF OpOK
  <2>2. \A g \in GoodOf(c) : Avoids(g)
    BY <1>5 DEF OrdersAvoid
  <2>3. Busy(c)
    BY <1>5 DEF Busy
  <2> QED  BY <1>3, <2>1, <2>2, <2>3, StaysNotOrdered
<1>6. c.at = "checked" => NumbersOfAll(c.wanted)' = NumbersOfAll(c.wanted)
  <2> SUFFICES ASSUME c.at = "checked"
               PROVE  NumbersOfAll(c.wanted)' = NumbersOfAll(c.wanted)
    OBVIOUS
  <2>1. Busy(c) /\ op'[k].wanted = c.wanted
    BY <1>0 DEF Busy
  <2> QED  BY <1>3, <1>5, <2>1 DEF NumbersOfAll
<1>7. OpOK(k)'
  <2>1. op'[k] = c /\ c' = c
    BY <1>0
  <2>2. GoodOf(op[k])' = GoodOf(c) /\ Busy(op[k])' = Busy(c)
    BY <2>1 DEF GoodOf, Busy
  <2> HIDE DEF c
  <2> QED  BY <1>1, <1>2, <1>3, <1>4, <1>5, <2>1, <2>2 DEF OpOK
<1> QED  BY <1>6, <1>7

(* When no submission is touched, they stay right and apart.               *)
LEMMA ApartStays ==
    ASSUME DraftType, NEW j \in Keys, NEW k \in Keys, OpOK(j), OpOK(k), OpsApart(j, k),
           Untouched(j), OrdersAvoid(j), Untouched(k), OrdersAvoid(k)
    PROVE  OpsApart(j, k)'
<1>1. op'[j] = op[j] /\ op'[k] = op[k]
  BY DEF Untouched
<1>2. op[j].at = "checked" => NumbersOfAll(op[j].wanted)' = NumbersOfAll(op[j].wanted)
  BY OpStays
<1>3. op[k].at = "checked" => NumbersOfAll(op[k].wanted)' = NumbersOfAll(op[k].wanted)
  BY OpStays
<1> QED  BY <1>1, <1>2, <1>3 DEF OpsApart, Busy

LEMMA AllStay ==
    ASSUME DraftType, AllRight, AllApart, \A k \in Keys : Untouched(k) /\ OrdersAvoid(k)
    PROVE  AllRight' /\ AllApart'
<1>1. AllRight'
  BY OpStays DEF AllRight
<1>2. AllApart'
  BY ApartStays DEF AllApart, AllRight
<1> QED  BY <1>1, <1>2

LEMMA SameOrdersAvoided ==
    ASSUME UNCHANGED orders
    PROVE  \A k \in Keys : OrdersAvoid(k)
  BY DEF OrdersAvoid, Avoids

(* A draft that is not locked is of no submission, a file that is not is held by none. *)
LEMMA NotLocked ==
    ASSUME DraftType, NEW d \in Drafts, ~Bulk!Locked(d), NEW k \in Keys, op[k].at # "idle"
    PROVE  op[k].draft # d
<1>1. op[k] \in Operation
  BY DEF DraftType
<1> QED  BY <1>1, OpFields DEF Bulk!Locked

LEMMA NotFileLocked ==
    ASSUME NEW f, ~Bulk!FileLocked(f), NEW k \in Keys, Busy(op[k])
    PROVE  f \notin op[k].files
  BY DEF Bulk!FileLocked, Busy

(* The files of a draft that is locked are in its groups, so nobody else changes them. *)
LEMMA HeldDraft ==
    ASSUME DraftType, NEW k \in Keys, OpOK(k), op[k].at # "idle"
    PROVE  op[k].draft \in Drafts /\ draft[op[k].draft] # "NONE" /\ result[k] = None
<1>1. op[k] \in Operation
  BY DEF DraftType
<1> QED  BY <1>1, OpFields DEF OpOK

-----------------------------------------------------------------------------
(* Steps of the page, which order nothing                                  *)

LEMMA FileFacts ==
    ASSUME DraftType, NEW f \in Files
    PROVE  /\ file[f].status \in {"NONE", "PREVIEW", "SUBMITTED"}
           /\ file[f].old \in SUBSET AllNumbers /\ file[f].known \in BOOLEAN
<1>1. file[f] \in FileRow
  BY DEF DraftType
<1> QED  BY <1>1 DEF FileRow

(* A submission that runs has its files from groups that are there.        *)
LEMMA HeldFile ==
    ASSUME DraftType, FilesApart, NEW k \in Keys, OpOK(k), Busy(op[k]), NEW f \in op[k].files
    PROVE  /\ f \in Files /\ file[f].status # "NONE"
           /\ \A g \in Groups : f \in Bulk!FilesOf(g) => g[1] = op[k].draft
<1>1. PICK g \in DOMAIN op[k].verdict : f \in Bulk!FilesOf(g)
  BY DEF OpOK
<1>2. g \in Groups /\ g[1] = op[k].draft
  BY GroupsHeld
<1>3. f \in Files
  BY <1>1, <1>2, FilesOfGroup
<1> QED  BY <1>1, <1>2, <1>3 DEF FilesApart

(* Without new orders, the answers stay right when no group is submitted.  *)
Marks == \A g \in Groups : group'[g].status = "SUBMITTED" <=> group[g].status = "SUBMITTED"

LEMMA AnswersStay ==
    ASSUME OrdersAnswerable, UNCHANGED <<orders, result>>, Marks, Bulk!DraftTellsTheTruth'
    PROVE  OrdersAnswerable'
  BY DEF OrdersAnswerable, Bulk!OrdersAnswerable, Marks, Bulk!Groups, Groups

LEMMA QuietStep ==
    ASSUME BulkSafe, UNCHANGED <<orders, op, result>>, DraftType', FilesApart', Marks,
           Bulk!DraftTellsTheTruth',
           \A k \in Keys : op[k].at # "idle" =>
               DraftUntouched(op[k].draft) /\ (Busy(op[k]) => FilesUntouched(op[k].files))
    PROVE  BulkSafe'
<1>1. \A k \in Keys : Untouched(k) /\ OrdersAvoid(k)
  BY SameOrdersAvoided DEF Untouched, Busy
<1>2. AllRight' /\ AllApart'
  BY <1>1, AllStay DEF BulkSafe
<1>3. OrdersAnswerable'
  BY AnswersStay DEF BulkSafe
<1>4. NumbersLiveOnce'
  BY DEF BulkSafe, NumbersLiveOnce, Bulk!NumbersLiveOnce
<1> QED  BY <1>2, <1>3, <1>4 DEF BulkSafe

(* The groups of a draft, and what its status says of them.                *)
LEMMA GroupsAre ==
    \A d : /\ Bulk!GroupsOf(d) = {g \in Groups : g[1] = d /\ group[g].status # "NONE"}
           /\ Bulk!GroupsOf(d)' = {g \in Groups : g[1] = d /\ group'[g].status # "NONE"}
  BY DEF Bulk!GroupsOf, Bulk!Groups, Groups

LEMMA DraftsTell ==
    ASSUME OrdersAnswerable, NEW d \in Drafts
    PROVE  LET left == {g \in Bulk!GroupsOf(d) : group[g].status = "PREVIEW"}
           IN /\ draft[d] = "COMPLETED" => left = {} /\ Bulk!GroupsOf(d) # {}
              /\ draft[d] = "DRAFT" => left = Bulk!GroupsOf(d)
              /\ draft[d] = "PARTIALLY_SUBMITTED" => left # Bulk!GroupsOf(d)
  BY DEF OrdersAnswerable, Bulk!OrdersAnswerable, Bulk!DraftTellsTheTruth

LEMMA CreateDraftSafe ==
    ASSUME BulkSafe, NEW d \in Drafts, Bulk!CreateDraft(d)
    PROVE  BulkSafe'
<1> USE DEF Bulk!CreateDraft
<1>1. DraftType'
  BY DEF BulkSafe, DraftType, DraftStatus
<1>2. FilesApart'
  BY GroupsAre DEF BulkSafe, FilesApart, Bulk!FilesOf, Bulk!GroupsOf, DraftType
<1>3. Bulk!DraftTellsTheTruth'
  <2> SUFFICES ASSUME NEW e \in Drafts
               PROVE  LET left == {g \in Bulk!GroupsOf(e) : group[g].status = "PREVIEW"}
                      IN (/\ draft[e] = "COMPLETED" => left = {} /\ Bulk!GroupsOf(e) # {}
                          /\ draft[e] = "DRAFT" => left = Bulk!GroupsOf(e)
                          /\ draft[e] = "PARTIALLY_SUBMITTED" => left # Bulk!GroupsOf(e))'
    BY DEF Bulk!DraftTellsTheTruth
  <2>1. Bulk!GroupsOf(e)' = Bulk!GroupsOf(e)
    BY DEF Bulk!GroupsOf
  <2>2. CASE e = d
    <3>1. Bulk!GroupsOf(d) = {} /\ draft'[d] = "DRAFT"
      BY DEF BulkSafe, FilesApart, DraftType
    <3> QED  BY <2>1, <2>2, <3>1
  <2>3. CASE e # d
    <3>1. draft'[e] = draft[e]
      BY <2>3 DEF BulkSafe, DraftType
    <3> QED  BY <2>1, <3>1, DraftsTell DEF BulkSafe
  <2> QED  BY <2>2, <2>3
<1>4. \A k \in Keys : op[k].at # "idle" =>
          DraftUntouched(op[k].draft) /\ (Busy(op[k]) => FilesUntouched(op[k].files))
  <2>1. \A k \in Keys : op[k].at # "idle" => op[k].draft # d /\ op[k].draft \in Drafts
    BY HeldDraft DEF BulkSafe, AllRight
  <2> QED  BY <2>1 DEF BulkSafe, DraftType, DraftUntouched, FilesUntouched
<1>5. Marks
  BY DEF Marks
<1> QED  BY <1>1, <1>2, <1>3, <1>4, <1>5, QuietStep

LEMMA SeeDraftSafe ==
    ASSUME BulkSafe, NEW d \in Drafts, Bulk!SeeDraft(d)
    PROVE  BulkSafe'
<1> USE DEF Bulk!SeeDraft
<1>1. DraftType'
  BY DEF BulkSafe, DraftType, DraftStatus
<1>2. FilesApart'
  BY GroupsAre DEF BulkSafe, FilesApart, Bulk!FilesOf, Bulk!GroupsOf, DraftType
<1>3. Bulk!DraftTellsTheTruth'
  <2> SUFFICES ASSUME NEW e \in Drafts
               PROVE  LET left == {g \in Bulk!GroupsOf(e) : group[g].status = "PREVIEW"}
                      IN (/\ draft[e] = "COMPLETED" => left = {} /\ Bulk!GroupsOf(e) # {}
                          /\ draft[e] = "DRAFT" => left = Bulk!GroupsOf(e)
                          /\ draft[e] = "PARTIALLY_SUBMITTED" => left # Bulk!GroupsOf(e))'
    BY DEF Bulk!DraftTellsTheTruth
  <2>1. Bulk!GroupsOf(e)' = Bulk!GroupsOf(e)
    BY DEF Bulk!GroupsOf
  <2>2. draft'[e] = draft[e] \/ draft'[e] = "EXPIRED"
    BY DEF BulkSafe, DraftType
  <2> QED  BY <2>1, <2>2, DraftsTell DEF BulkSafe
<1>4. \A k \in Keys : op[k].at # "idle" =>
          DraftUntouched(op[k].draft) /\ (Busy(op[k]) => FilesUntouched(op[k].files))
  <2>1. \A k \in Keys : op[k].at # "idle" => op[k].draft # d /\ op[k].draft \in Drafts
    BY HeldDraft, NotLocked DEF BulkSafe, AllRight
  <2> QED  BY <2>1 DEF BulkSafe, DraftType, DraftUntouched, FilesUntouched
<1>5. Marks
  BY DEF Marks
<1> QED  BY <1>1, <1>2, <1>3, <1>4, <1>5, QuietStep

LEMMA ExpiresSafe ==
    ASSUME BulkSafe, NEW d \in Drafts, Bulk!Expires(d)
    PROVE  BulkSafe'
<1> USE DEF Bulk!Expires
<1>1. DraftType'
  BY DEF BulkSafe, DraftType
<1>2. FilesApart' /\ Bulk!DraftTellsTheTruth'
  <2>1. FilesApart'
    BY DEF BulkSafe, FilesApart, Bulk!FilesOf, Bulk!GroupsOf
  <2>2. Bulk!DraftTellsTheTruth
    BY DEF BulkSafe, OrdersAnswerable, Bulk!OrdersAnswerable
  <2>3. Bulk!DraftTellsTheTruth'
    BY <2>2 DEF Bulk!DraftTellsTheTruth, Bulk!GroupsOf
  <2> QED  BY <2>1, <2>3
<1>3. Marks /\ \A k \in Keys : DraftUntouched(op[k].draft) /\ FilesUntouched(op[k].files)
  BY DEF Marks, DraftUntouched, FilesUntouched
<1> QED  BY <1>1, <1>2, <1>3, QuietStep

LEMMA SameStatuses ==
    ASSUME OrdersAnswerable, UNCHANGED draft, \A g \in Groups : group'[g].status = group[g].status
    PROVE  Marks /\ Bulk!DraftTellsTheTruth' /\ \A d : Bulk!GroupsOf(d)' = Bulk!GroupsOf(d)
<1>1. \A d : Bulk!GroupsOf(d)' = Bulk!GroupsOf(d)
  BY GroupsAre
<1>2. \A d : \A g \in Bulk!GroupsOf(d) : group'[g].status = group[g].status
  BY GroupsAre
<1>3. Bulk!DraftTellsTheTruth
  BY DEF OrdersAnswerable, Bulk!OrdersAnswerable
<1>4. Bulk!DraftTellsTheTruth'
  BY <1>1, <1>2, <1>3 DEF Bulk!DraftTellsTheTruth
<1> QED  BY <1>1, <1>4 DEF Marks

(* What an edit of an unlocked draft leaves to the submissions that run.   *)
LEMMA EditOfUnlocked ==
    ASSUME BulkSafe, NEW g \in Groups, ~Bulk!Locked(g[1]), UNCHANGED draft,
           \A h \in Groups : h # g => group'[h] = group[h],
           \A f \in Files : file'[f] = file[f] \/ f \in Bulk!FilesOf(g) \/ file[f].status = "NONE"
    PROVE  \A k \in Keys : op[k].at # "idle" =>
               DraftUntouched(op[k].draft) /\ (Busy(op[k]) => FilesUntouched(op[k].files))
<1> SUFFICES ASSUME NEW k \in Keys, op[k].at # "idle"
             PROVE  DraftUntouched(op[k].draft) /\ (Busy(op[k]) => FilesUntouched(op[k].files))
  OBVIOUS
<1>1. g[1] \in Drafts
  BY DEF Groups
<1>2. op[k].draft # g[1]
  BY <1>1, NotLocked DEF BulkSafe
<1>3. DraftUntouched(op[k].draft)
  BY <1>2 DEF DraftUntouched
<1>4. ASSUME Busy(op[k])
      PROVE  FilesUntouched(op[k].files)
  <2>1. \A f \in op[k].files : f \in Files /\ file[f].status # "NONE" /\ f \notin Bulk!FilesOf(g)
    BY <1>2, <1>4, HeldFile DEF BulkSafe, AllRight
  <2> QED  BY <2>1 DEF FilesUntouched
<1> QED  BY <1>3, <1>4

LEMMA AddGroupSafe ==
    ASSUME BulkSafe, NEW g \in Groups, Bulk!AddGroup(g)
    PROVE  BulkSafe'
<1> USE DEF Bulk!AddGroup
<1>0. g[1] \in Drafts /\ ~Bulk!Locked(g[1]) /\ draft[g[1]] \in {"DRAFT", "PARTIALLY_SUBMITTED"}
  BY DEF Bulk!Writable, Groups
<1>1. /\ \A h \in Groups : h # g => group'[h] = group[h]
      /\ group'[g] = [status |-> "PREVIEW", files |-> group[g].files]
      /\ group' \in [Groups -> GroupRow]
  <2>1. group \in [Groups -> GroupRow] /\ group[g] \in GroupRow
    BY DEF BulkSafe, DraftType
  <2>2. group'[g] = [status |-> "PREVIEW", files |-> group[g].files] /\ group'[g] \in GroupRow
    BY <2>1 DEF GroupRow
  <2> QED  BY <2>1, <2>2
<1>2. DraftType'
  BY <1>1 DEF BulkSafe, DraftType
<1>3. \A h \in Groups : group'[h].files = group[h].files /\ Bulk!FilesOf(h)' = Bulk!FilesOf(h)
  BY <1>1 DEF Bulk!FilesOf
<1>4. \A d \in Drafts : d # g[1] => Bulk!GroupsOf(d)' = Bulk!GroupsOf(d)
  BY ZenonT(40), <1>1, GroupsAre
<1>5. FilesApart'
  <2>1. \A h \in Groups : group'[h].status = "NONE" => group[h].status = "NONE"
    BY <1>1
  <2>2. \A d \in Drafts : draft'[d] = "NONE" => Bulk!GroupsOf(d)' = {}
    BY <1>0, <1>4 DEF BulkSafe, FilesApart
  <2> QED  BY <1>3, <2>1, <2>2 DEF BulkSafe, FilesApart
<1>6. Bulk!DraftTellsTheTruth'
  <2> SUFFICES ASSUME NEW e \in Drafts
               PROVE  LET left == {h \in Bulk!GroupsOf(e) : group[h].status = "PREVIEW"}
                      IN (/\ draft[e] = "COMPLETED" => left = {} /\ Bulk!GroupsOf(e) # {}
                          /\ draft[e] = "DRAFT" => left = Bulk!GroupsOf(e)
                          /\ draft[e] = "PARTIALLY_SUBMITTED" => left # Bulk!GroupsOf(e))'
    BY DEF Bulk!DraftTellsTheTruth
  <2> DEFINE left == {h \in Bulk!GroupsOf(e) : group[h].status = "PREVIEW"}
  <2>1. /\ draft[e] = "COMPLETED" => left = {} /\ Bulk!GroupsOf(e) # {}
        /\ draft[e] = "DRAFT" => left = Bulk!GroupsOf(e)
        /\ draft[e] = "PARTIALLY_SUBMITTED" => left # Bulk!GroupsOf(e)
    BY DraftsTell DEF BulkSafe
  <2>2. CASE e = g[1]
    <3>1. g \notin Bulk!GroupsOf(e) /\ Bulk!GroupsOf(e)' = Bulk!GroupsOf(e) \cup {g}
      BY ZenonT(40), <1>1, <2>2, GroupsAre
    <3>2. \A h \in Bulk!GroupsOf(e) : group'[h] = group[h]
      BY <1>1, <3>1, GroupsAre
    <3>3. left' = left \cup {g}
      BY <1>1, <3>1, <3>2
    <3>4. draft'[e] = "DRAFT" => left' = Bulk!GroupsOf(e)'
      BY <2>1, <3>1, <3>3
    <3>5. draft'[e] = "PARTIALLY_SUBMITTED" => left' # Bulk!GroupsOf(e)'
      <4>1. left \subseteq Bulk!GroupsOf(e)
        OBVIOUS
      <4> QED  BY <2>1, <3>1, <3>3, <4>1
    <3> QED  BY <1>0, <2>2, <3>4, <3>5
  <2>3. CASE e # g[1]
    <3>1. Bulk!GroupsOf(e)' = Bulk!GroupsOf(e) /\ \A h \in Bulk!GroupsOf(e) : group'[h] = group[h]
      BY <1>1, <1>4, <2>3, GroupsAre
    <3> QED  BY <2>1, <3>1
  <2> QED  BY <2>2, <2>3
<1>7. \A k \in Keys : op[k].at # "idle" =>
          DraftUntouched(op[k].draft) /\ (Busy(op[k]) => FilesUntouched(op[k].files))
  BY <1>0, <1>1, EditOfUnlocked
<1>8. Marks
  BY <1>1 DEF Marks
<1> QED  BY <1>2, <1>5, <1>6, <1>7, <1>8, QuietStep

(* A file that comes last, and one that goes.                              *)
LEMMA Appended ==
    ASSUME NEW s \in Seq(Files), NEW f \in Files, \A i \in DOMAIN s : s[i] # f,
           \A i, j \in DOMAIN s : s[i] = s[j] => i = j
    PROVE  LET t == Append(s, f) IN
           /\ t \in Seq(Files) /\ Bulk!ToSet(t) = Bulk!ToSet(s) \cup {f}
           /\ \A i, j \in DOMAIN t : t[i] = t[j] => i = j
<1> DEFINE t == Append(s, f)
<1>1. t \in Seq(Files) /\ Len(s) \in Nat /\ DOMAIN s = 1 .. Len(s) /\ DOMAIN t = 1 .. (Len(s) + 1)
  OBVIOUS
<1>2. \A i \in 1 .. Len(s) : t[i] = s[i]
  OBVIOUS
<1>3. t[Len(s) + 1] = f
  OBVIOUS
<1>4. \A i \in DOMAIN t : i \in DOMAIN s \/ i = Len(s) + 1
  BY <1>1
<1>5. \A i, j \in DOMAIN t : t[i] = t[j] => i = j
  BY <1>1, <1>2, <1>3, <1>4
<1>6. Bulk!ToSet(t) = Bulk!ToSet(s) \cup {f}
  <2>1. DOMAIN t = DOMAIN s \cup {Len(s) + 1}
    BY <1>1
  <2> HIDE DEF t
  <2> QED  BY <1>1, <1>2, <1>3, <2>1 DEF Bulk!ToSet
<1> QED  BY <1>1, <1>5, <1>6

LEMMA Removed ==
    ASSUME NEW s \in Seq(Files), NEW m \in DOMAIN s,
           \A i, j \in DOMAIN s : s[i] = s[j] => i = j
    PROVE  LET t == Bulk!RemoveAt(s, m) IN
           /\ t \in Seq(Files) /\ Bulk!ToSet(t) = Bulk!ToSet(s) \ {s[m]}
           /\ \A i, j \in DOMAIN t : t[i] = t[j] => i = j
<1> DEFINE t == Bulk!RemoveAt(s, m)
<1>1. Len(s) \in Nat /\ DOMAIN s = 1 .. Len(s) /\ m \in 1 .. Len(s)
  OBVIOUS
<1> DEFINE low == SubSeq(s, 1, m - 1)
           up == SubSeq(s, m + 1, Len(s))
<1>2. /\ low \in Seq(Files) /\ Len(low) = m - 1 /\ DOMAIN low = 1 .. (m - 1)
      /\ \A i \in 1 .. (m - 1) : low[i] = s[i]
  BY <1>1
<1>3. /\ up \in Seq(Files) /\ Len(up) = Len(s) - m /\ DOMAIN up = 1 .. (Len(s) - m)
      /\ \A i \in 1 .. (Len(s) - m) : up[i] = s[i + m]
  BY <1>1
<1>4. t = low \o up
  BY DEF Bulk!RemoveAt
<1>5. /\ t \in Seq(Files) /\ DOMAIN t = 1 .. (Len(s) - 1)
      /\ \A i \in 1 .. (m - 1) : t[i] = s[i]
      /\ \A i \in m .. (Len(s) - 1) : t[i] = s[i + 1]
  <2> HIDE DEF low, up
  <2>1. /\ t \in Seq(Files) /\ Len(t) = Len(s) - 1 /\ DOMAIN t = 1 .. (Len(s) - 1)
    <3>1. t \in Seq(Files) /\ Len(t) = Len(low) + Len(up)
      BY <1>2, <1>3, <1>4
    <3>2. (m - 1) + (Len(s) - m) = Len(s) - 1
      BY <1>1
    <3>3. Len(t) = Len(s) - 1
      BY <1>2, <1>3, <3>1, <3>2
    <3> HIDE DEF t
    <3> QED  BY <3>1, <3>3
  <2>2. \A i \in 1 .. (m - 1) : t[i] = s[i]
    BY <1>1, <1>2, <1>3, <1>4
  <2>3. ASSUME NEW i \in m .. (Len(s) - 1)
        PROVE  t[i] = s[i + 1]
    <3>1. i - (m - 1) \in 1 .. (Len(s) - m) /\ i > m - 1
      BY <1>1
    <3>2. t[i] = up[i - (m - 1)]
      BY SMTT(30), <1>1, <1>2, <1>3, <1>4, <3>1
    <3>3. up[i - (m - 1)] = s[(i - (m - 1)) + m] /\ (i - (m - 1)) + m = i + 1
      BY <1>1, <1>3, <3>1
    <3> QED  BY <3>2, <3>3
  <2> QED  BY <2>1, <2>2, <2>3
<1> HIDE DEF t
<1>6. \A i, j \in DOMAIN t : t[i] = t[j] => i = j
  <2>1. \A i \in DOMAIN t : \/ i < m /\ i \in DOMAIN s /\ t[i] = s[i]
                            \/ i >= m /\ i + 1 \in DOMAIN s /\ t[i] = s[i + 1]
    BY <1>1, <1>5
  <2>2. \A i \in DOMAIN t : i \in Nat
    BY <1>5
  <2> QED  BY <1>1, <2>1, <2>2
<1>7. Bulk!ToSet(t) = Bulk!ToSet(s) \ {s[m]}
  <2>1. \A i \in DOMAIN t : \E j \in DOMAIN s \ {m} : t[i] = s[j]
    BY SMTT(30), <1>1, <1>5
  <2>2. ASSUME NEW j \in DOMAIN s \ {m}
        PROVE  \E i \in DOMAIN t : t[i] = s[j]
    <3>1. CASE j < m
      <4>1. j \in DOMAIN t /\ t[j] = s[j]
        BY <1>1, <1>5, <3>1
      <4> QED  BY <4>1
    <3>2. CASE j > m
      <4>1. j - 1 \in DOMAIN t /\ t[j - 1] = s[(j - 1) + 1] /\ (j - 1) + 1 = j
        BY <1>1, <1>5, <3>2
      <4> QED  BY <4>1
    <3> QED  BY <1>1, <3>1, <3>2
  <2> QED  BY <2>1, <2>2 DEF Bulk!ToSet
<1> QED  BY <1>5, <1>6, <1>7 DEF t

LEMMA FilesEdited ==
    ASSUME BulkSafe, NEW g \in Groups, ~Bulk!Locked(g[1]), UNCHANGED <<draft, orders, op, result>>,
           \A h \in Groups : h # g => group'[h] = group[h],
           group'[g].status = group[g].status,
           \A f \in Files : file'[f] = file[f] \/ f \in Bulk!FilesOf(g) \/ file[f].status = "NONE",
           DraftType', FilesApart'
    PROVE  BulkSafe'
<1>1. \A h \in Groups : group'[h].status = group[h].status
  OBVIOUS
<1>2. Marks /\ Bulk!DraftTellsTheTruth'
  BY <1>1, SameStatuses DEF BulkSafe
<1>3. \A k \in Keys : op[k].at # "idle" =>
          DraftUntouched(op[k].draft) /\ (Busy(op[k]) => FilesUntouched(op[k].files))
  BY EditOfUnlocked
<1> QED  BY <1>2, <1>3, QuietStep

LEMMA AddFileSafe ==
    ASSUME BulkSafe, NEW g \in Groups, NEW f \in Files, NEW kn \in BOOLEAN, Bulk!Upload(g, f, kn)
    PROVE  BulkSafe'
<1>0. PICK old \in SUBSET Numbers[f] :
          file' = [file EXCEPT ![f] = [status |-> "PREVIEW", known |-> kn, old |-> old]]
  BY DEF Bulk!Upload
<1>1. /\ ~Bulk!Locked(g[1]) /\ group[g].status # "NONE" /\ file[f] = Bulk!NoFile
      /\ group' = [group EXCEPT ![g].files = Append(@, f)]
      /\ UNCHANGED <<draft, late, orders, op, result>>
  BY DEF Bulk!Upload, Bulk!Writable
<1>2. /\ group \in [Groups -> GroupRow] /\ group[g] \in GroupRow /\ group[g].files \in Seq(Files)
      /\ file \in [Files -> FileRow]
  BY FilesOfGroup DEF BulkSafe, DraftType
<1>3. file[f].status = "NONE"
  BY <1>1 DEF Bulk!NoFile
<1>4. \A h \in Groups : f \notin Bulk!FilesOf(h)
  BY <1>3 DEF BulkSafe, FilesApart
<1>5. (\A i \in DOMAIN group[g].files : group[g].files[i] # f)
      /\ \A i, j \in DOMAIN group[g].files : group[g].files[i] = group[g].files[j] => i = j
  BY <1>4 DEF Bulk!FilesOf, Bulk!ToSet, BulkSafe, FilesApart
<1>6. LET t == Append(group[g].files, f) IN
      /\ t \in Seq(Files) /\ Bulk!ToSet(t) = Bulk!ToSet(group[g].files) \cup {f}
      /\ \A i, j \in DOMAIN t : t[i] = t[j] => i = j
  BY <1>2, <1>5, Appended
<1>7. /\ group'[g].files = Append(group[g].files, f) /\ group'[g].status = group[g].status
      /\ group'[g] \in GroupRow /\ group' \in [Groups -> GroupRow]
      /\ \A h \in Groups : h # g => group'[h] = group[h]
  <2>1. group'[g] = [status |-> group[g].status, files |-> Append(group[g].files, f)]
    BY <1>1, <1>2 DEF GroupRow
  <2>2. group'[g] \in GroupRow
    BY <1>2, <1>6, <2>1 DEF GroupRow
  <2> QED  BY <1>1, <1>2, <2>1, <2>2
<1>8. old \in SUBSET AllNumbers
  BY DEF AllNumbers
<1>9. /\ file' \in [Files -> FileRow] /\ file'[f].status = "PREVIEW"
      /\ \A e \in Files : e # f => file'[e] = file[e]
  BY <1>0, <1>1, <1>2, <1>8 DEF FileRow
<1>10. DraftType'
  BY <1>1, <1>7, <1>9 DEF BulkSafe, DraftType
<1>11. /\ Bulk!FilesOf(g)' = Bulk!FilesOf(g) \cup {f}
       /\ \A h \in Groups : h # g => Bulk!FilesOf(h)' = Bulk!FilesOf(h)
  BY <1>6, <1>7 DEF Bulk!FilesOf
<1>12. FilesApart'
  <2>1. \A h \in Groups : group'[h].status = "NONE" => group'[h].files = <<>>
    BY <1>1, <1>7 DEF BulkSafe, FilesApart
  <2>2. \A h \in Groups : \A e \in Bulk!FilesOf(h)' : file'[e].status # "NONE"
    <3> SUFFICES ASSUME NEW h \in Groups, NEW e \in Bulk!FilesOf(h)'
                 PROVE  file'[e].status # "NONE"
      OBVIOUS
    <3>1. e \in Bulk!FilesOf(h) \/ e = f
      BY <1>11
    <3>2. CASE e = f
      BY <1>9, <3>2
    <3>3. CASE e # f
      <4>1. e \in Files /\ file[e].status # "NONE"
        BY <3>1, <3>3, FilesOfGroup DEF BulkSafe, FilesApart
      <4> QED  BY <1>9, <3>3, <4>1
    <3> QED  BY <3>2, <3>3
  <2>3. \A h \in Groups : \A i, j \in DOMAIN group'[h].files : group'[h].files[i] = group'[h].files[j] => i = j
    BY <1>6, <1>7 DEF BulkSafe, FilesApart
  <2>4. \A h, e \in Groups : h # e => Bulk!FilesOf(h)' \cap Bulk!FilesOf(e)' = {}
    BY <1>4, <1>11 DEF BulkSafe, FilesApart
  <2>5. \A d \in Drafts : draft'[d] = "NONE" => Bulk!GroupsOf(d)' = {}
    <3>1. \A d : Bulk!GroupsOf(d)' = Bulk!GroupsOf(d)
      BY <1>7, GroupsAre
    <3> QED  BY <1>1, <3>1 DEF BulkSafe, FilesApart
  <2> QED  BY <2>1, <2>2, <2>3, <2>4, <2>5 DEF FilesApart
<1>13. \A e \in Files : file'[e] = file[e] \/ e \in Bulk!FilesOf(g) \/ file[e].status = "NONE"
  BY <1>3, <1>9
<1>14. UNCHANGED <<draft, orders, op, result>>
  BY <1>1
<1> QED  BY <1>1, <1>7, <1>10, <1>12, <1>13, <1>14, FilesEdited

LEMMA RemoveFileSafe ==
    ASSUME BulkSafe, NEW g \in Groups, NEW f \in Files, Bulk!RemoveFile(g, f)
    PROVE  BulkSafe'
<1>1. PICK m \in DOMAIN group[g].files :
          group[g].files[m] = f /\ group' = [group EXCEPT ![g].files = Bulk!RemoveAt(@, m)]
  BY DEF Bulk!RemoveFile
<1>2. /\ ~Bulk!Locked(g[1]) /\ file' = [file EXCEPT ![f] = Bulk!NoFile]
      /\ UNCHANGED <<draft, late, orders, op, result>>
  BY DEF Bulk!RemoveFile, Bulk!Writable
<1>3. /\ group \in [Groups -> GroupRow] /\ group[g] \in GroupRow /\ group[g].files \in Seq(Files)
      /\ file \in [Files -> FileRow]
  BY FilesOfGroup DEF BulkSafe, DraftType
<1>4. \A i, j \in DOMAIN group[g].files : group[g].files[i] = group[g].files[j] => i = j
  BY DEF BulkSafe, FilesApart
<1>5. LET t == Bulk!RemoveAt(group[g].files, m) IN
      /\ t \in Seq(Files) /\ Bulk!ToSet(t) = Bulk!ToSet(group[g].files) \ {f}
      /\ \A i, j \in DOMAIN t : t[i] = t[j] => i = j
  BY <1>1, <1>3, <1>4, Removed
<1>6. /\ group'[g].files = Bulk!RemoveAt(group[g].files, m) /\ group'[g].status = group[g].status
      /\ group'[g] \in GroupRow /\ group' \in [Groups -> GroupRow]
      /\ \A h \in Groups : h # g => group'[h] = group[h]
  <2>1. group'[g] = [status |-> group[g].status, files |-> Bulk!RemoveAt(group[g].files, m)]
    BY <1>1, <1>3 DEF GroupRow
  <2>2. group'[g] \in GroupRow
    BY <1>3, <1>5, <2>1 DEF GroupRow
  <2> QED  BY <1>1, <1>3, <2>1, <2>2
<1>7. Bulk!NoFile \in FileRow
  BY DEF Bulk!NoFile, FileRow
<1>8. file' \in [Files -> FileRow] /\ \A e \in Files : e # f => file'[e] = file[e]
  BY <1>2, <1>3, <1>7
<1>9. DraftType'
  BY <1>2, <1>6, <1>8 DEF BulkSafe, DraftType
<1>10. /\ Bulk!FilesOf(g)' = Bulk!FilesOf(g) \ {f} /\ f \in Bulk!FilesOf(g)
       /\ \A h \in Groups : h # g => Bulk!FilesOf(h)' = Bulk!FilesOf(h)
  <2>1. f \in Bulk!FilesOf(g)
    BY <1>1 DEF Bulk!FilesOf, Bulk!ToSet
  <2> QED  BY <1>5, <1>6, <2>1 DEF Bulk!FilesOf
<1>11. FilesApart'
  <2>1. \A h \in Groups : group'[h].status = "NONE" => group'[h].files = <<>>
    <3>1. group[g].status # "NONE"
      BY <1>1 DEF BulkSafe, FilesApart
    <3> QED  BY <1>6, <3>1 DEF BulkSafe, FilesApart
  <2>2. \A h \in Groups : \A e \in Bulk!FilesOf(h)' : file'[e].status # "NONE"
    <3> SUFFICES ASSUME NEW h \in Groups, NEW e \in Bulk!FilesOf(h)'
                 PROVE  file'[e].status # "NONE"
      OBVIOUS
    <3>1. e \in Bulk!FilesOf(h) /\ e # f
      BY <1>10 DEF BulkSafe, FilesApart
    <3>2. e \in Files /\ file[e].status # "NONE"
      BY <3>1, FilesOfGroup DEF BulkSafe, FilesApart
    <3> QED  BY <1>8, <3>1, <3>2
  <2>3. \A h \in Groups : \A i, j \in DOMAIN group'[h].files : group'[h].files[i] = group'[h].files[j] => i = j
    BY <1>5, <1>6 DEF BulkSafe, FilesApart
  <2>4. \A h, e \in Groups : h # e => Bulk!FilesOf(h)' \cap Bulk!FilesOf(e)' = {}
    BY <1>10 DEF BulkSafe, FilesApart
  <2>5. \A d \in Drafts : draft'[d] = "NONE" => Bulk!GroupsOf(d)' = {}
    <3>1. \A d : Bulk!GroupsOf(d)' = Bulk!GroupsOf(d)
      BY <1>6, GroupsAre
    <3> QED  BY <1>2, <3>1 DEF BulkSafe, FilesApart
  <2> QED  BY <2>1, <2>2, <2>3, <2>4, <2>5 DEF FilesApart
<1> QED  BY <1>2, <1>6, <1>8, <1>9, <1>10, <1>11, FilesEdited

LEMMA RowsChangeSafe ==
    ASSUME BulkSafe, NEW g \in Groups, NEW f \in Files, Bulk!RowsChange(g, f)
    PROVE  BulkSafe'
<1>1. /\ ~Bulk!FileLocked(f) /\ file' = [file EXCEPT ![f].known = ~@]
      /\ UNCHANGED <<draft, late, group, orders, op, result>>
  BY DEF Bulk!RowsChange
<1>2. file \in [Files -> FileRow] /\ file[f] \in FileRow
  BY DEF BulkSafe, DraftType
<1>3. /\ file' \in [Files -> FileRow] /\ file'[f].status = file[f].status
      /\ \A e \in Files : e # f => file'[e] = file[e]
  BY <1>1, <1>2 DEF FileRow
<1>4. DraftType'
  BY <1>1, <1>3 DEF BulkSafe, DraftType
<1>5. \A h : Bulk!FilesOf(h)' = Bulk!FilesOf(h) /\ Bulk!GroupsOf(h)' = Bulk!GroupsOf(h)
  BY <1>1 DEF Bulk!FilesOf, Bulk!GroupsOf
<1>6. \A h \in Groups : \A e \in Bulk!FilesOf(h) : file'[e].status # "NONE"
  BY <1>3, FilesOfGroup DEF BulkSafe, FilesApart
<1>7. FilesApart'
  BY <1>1, <1>5, <1>6 DEF BulkSafe, FilesApart
<1>8. Marks /\ Bulk!DraftTellsTheTruth'
  BY <1>1, SameStatuses DEF BulkSafe
<1>9. \A k \in Keys : op[k].at # "idle" =>
          DraftUntouched(op[k].draft) /\ (Busy(op[k]) => FilesUntouched(op[k].files))
  <2>1. \A k \in Keys : DraftUntouched(op[k].draft)
    BY <1>1 DEF DraftUntouched
  <2>2. \A k \in Keys : Busy(op[k]) => \A e \in op[k].files : e # f /\ e \in Files
    BY <1>1, NotFileLocked, HeldFile DEF BulkSafe, AllRight
  <2> QED  BY <1>3, <2>1, <2>2 DEF FilesUntouched
<1> QED  BY <1>1, <1>4, <1>7, <1>8, <1>9, QuietStep

LEMMA DiscardSafe ==
    ASSUME BulkSafe, NEW d \in Drafts, Bulk!Discard(d)
    PROVE  BulkSafe'
<1> DEFINE gone == {f \in Files : \E g \in Bulk!GroupsOf(d) : f \in Bulk!FilesOf(g)}
           empty == [status |-> "NONE", files |-> <<>>]
<1>1. /\ draft[d] = "DRAFT" /\ ~Bulk!Locked(d)
      /\ draft' = [draft EXCEPT ![d] = "NONE"] /\ late' = [late EXCEPT ![d] = FALSE]
      /\ UNCHANGED <<orders, op, result>>
  BY DEF Bulk!Discard
<1>2. /\ \A g \in Groups : g[1] = d => group'[g] = empty
      /\ \A g \in Groups : g[1] # d => group'[g] = group[g]
      /\ group' \in [Groups -> GroupRow]
  <2>1. group' = [g \in Groups |-> IF g[1] = d THEN empty ELSE group[g]]
    BY DEF Bulk!Discard, Bulk!Groups, Groups
  <2>2. empty \in GroupRow
    BY DEF GroupRow
  <2>3. \A g \in Groups : group[g] \in GroupRow
    BY DEF BulkSafe, DraftType
  <2> HIDE DEF empty
  <2> QED  BY <2>1, <2>2, <2>3
<1>3. /\ \A f \in Files \ gone : file'[f] = file[f]
      /\ file' \in [Files -> FileRow]
  <2>1. file' = [f \in Files |-> IF f \in gone THEN Bulk!NoFile ELSE file[f]]
    BY DEF Bulk!Discard
  <2>2. Bulk!NoFile \in FileRow
    BY DEF Bulk!NoFile, FileRow
  <2>3. \A f \in Files : file[f] \in FileRow
    BY DEF BulkSafe, DraftType
  <2> HIDE DEF gone
  <2> QED  BY <2>1, <2>2, <2>3
<1>4. DraftType'
  BY <1>1, <1>2, <1>3 DEF BulkSafe, DraftType, DraftStatus
<1>5. /\ \A g \in Groups : g[1] = d => group'[g].files = <<>> /\ Bulk!FilesOf(g)' = {}
      /\ \A g \in Groups : g[1] # d => Bulk!FilesOf(g)' = Bulk!FilesOf(g)
  BY <1>2 DEF Bulk!FilesOf, Bulk!ToSet
<1>6. \A g \in Groups : g[1] # d => Bulk!FilesOf(g) \cap gone = {}
  BY GroupsAre DEF BulkSafe, FilesApart
<1>7. \A e \in Drafts : e # d => Bulk!GroupsOf(e)' = Bulk!GroupsOf(e) /\ draft'[e] = draft[e]
  BY <1>1, <1>2, GroupsAre DEF BulkSafe, DraftType
<1>8. Bulk!GroupsOf(d)' = {} /\ draft'[d] = "NONE"
  BY <1>1, <1>2, GroupsAre DEF BulkSafe, DraftType
<1>9. FilesApart'
  <2>1. \A g \in Groups : group'[g].status = "NONE" => group'[g].files = <<>>
    BY <1>2, <1>5 DEF BulkSafe, FilesApart
  <2>2. \A g \in Groups : \A e \in Bulk!FilesOf(g)' : file'[e].status # "NONE"
    <3> SUFFICES ASSUME NEW g \in Groups, NEW e \in Bulk!FilesOf(g)'
                 PROVE  file'[e].status # "NONE"
      OBVIOUS
    <3>1. g[1] # d /\ e \in Bulk!FilesOf(g)
      BY <1>5
    <3>2. e \in Files /\ file[e].status # "NONE"
      BY <3>1, FilesOfGroup DEF BulkSafe, FilesApart
    <3> QED  BY <1>3, <1>6, <3>1, <3>2
  <2>3. \A g \in Groups : \A i, j \in DOMAIN group'[g].files : group'[g].files[i] = group'[g].files[j] => i = j
    BY <1>2, <1>5 DEF BulkSafe, FilesApart
  <2>4. \A g, h \in Groups : g # h => Bulk!FilesOf(g)' \cap Bulk!FilesOf(h)' = {}
    BY <1>5 DEF BulkSafe, FilesApart
  <2>5. \A e \in Drafts : draft'[e] = "NONE" => Bulk!GroupsOf(e)' = {}
    BY <1>7, <1>8 DEF BulkSafe, FilesApart
  <2> QED  BY <2>1, <2>2, <2>3, <2>4, <2>5 DEF FilesApart
<1>10. Bulk!DraftTellsTheTruth'
  <2> SUFFICES ASSUME NEW e \in Drafts
               PROVE  LET left == {h \in Bulk!GroupsOf(e) : group[h].status = "PREVIEW"}
                      IN (/\ draft[e] = "COMPLETED" => left = {} /\ Bulk!GroupsOf(e) # {}
                          /\ draft[e] = "DRAFT" => left = Bulk!GroupsOf(e)
                          /\ draft[e] = "PARTIALLY_SUBMITTED" => left # Bulk!GroupsOf(e))'
    BY DEF Bulk!DraftTellsTheTruth
  <2>1. CASE e = d
    BY <1>8, <2>1
  <2>2. CASE e # d
    <3>1. \A h \in Bulk!GroupsOf(e) : group'[h] = group[h]
      BY <1>2, <2>2, GroupsAre
    <3> QED  BY <1>7, <2>2, <3>1, DraftsTell DEF BulkSafe
  <2> QED  BY <2>1, <2>2
<1>11. Marks
  <2> SUFFICES ASSUME NEW g \in Groups, g[1] = d
               PROVE  group[g].status # "SUBMITTED"
    BY <1>2 DEF Marks
  <2>1. {h \in Bulk!GroupsOf(d) : group[h].status = "PREVIEW"} = Bulk!GroupsOf(d)
    BY <1>1, DraftsTell DEF BulkSafe
  <2>2. group[g].status # "NONE" => g \in Bulk!GroupsOf(d)
    BY GroupsAre
  <2> QED  BY <2>1, <2>2
<1>12. \A k \in Keys : op[k].at # "idle" =>
          DraftUntouched(op[k].draft) /\ (Busy(op[k]) => FilesUntouched(op[k].files))
  <2> SUFFICES ASSUME NEW k \in Keys, op[k].at # "idle"
               PROVE  DraftUntouched(op[k].draft) /\ (Busy(op[k]) => FilesUntouched(op[k].files))
    OBVIOUS
  <2>1. op[k].draft # d /\ op[k].draft \in Drafts
    BY <1>1, NotLocked, HeldDraft DEF BulkSafe, AllRight
  <2>2. DraftUntouched(op[k].draft)
    BY <1>2, <1>7, <2>1 DEF DraftUntouched
  <2>3. ASSUME Busy(op[k])
        PROVE  FilesUntouched(op[k].files)
    <3>1. ASSUME NEW f \in op[k].files
          PROVE  f \in Files \ gone
      <4>1. f \in Files /\ \A g \in Groups : f \in Bulk!FilesOf(g) => g[1] = op[k].draft
        BY <2>3, HeldFile DEF BulkSafe, AllRight
      <4> QED  BY <2>1, <4>1, GroupsAre
    <3> QED  BY <1>3, <3>1 DEF FilesUntouched
  <2> QED  BY <2>2, <2>3
<1> QED  BY <1>1, <1>4, <1>9, <1>10, <1>11, <1>12, QuietStep

-----------------------------------------------------------------------------
(* Steps of a submission before it commits                                 *)

LEMMA ApartBothWays ==
    ASSUME NEW j, NEW k, OpsApart(j, k)
    PROVE  OpsApart(k, j)
  BY DEF OpsApart

LEMMA SameGroups ==
    ASSUME UNCHANGED <<draft, group, file, orders>>
    PROVE  \A g : /\ Bulk!FilesOf(g)' = Bulk!FilesOf(g) /\ Bulk!GroupsOf(g)' = Bulk!GroupsOf(g)
                  /\ Bulk!Candidates(g)' = Bulk!Candidates(g)
                  /\ StillGood(g) => StillGood(g)'
                  /\ NotOrdered(g) => NotOrdered(g)'
<1> TAKE g
<1>1. /\ \A h : Bulk!FilesOf(h)' = Bulk!FilesOf(h) /\ Bulk!GroupsOf(h)' = Bulk!GroupsOf(h)
      /\ \A h : Bulk!NumbersOf(h)' = Bulk!NumbersOf(h)
      /\ \A n : Bulk!FirstWith(g, n)' = Bulk!FirstWith(g, n)
  BY DEF Bulk!FilesOf, Bulk!GroupsOf, Bulk!NumbersOf, Bulk!FirstWith
<1>2. Bulk!Candidates(g)' = Bulk!Candidates(g)
  BY <1>1 DEF Bulk!Candidates
<1>3. Bulk!CrossStore(g)' = Bulk!CrossStore(g) /\ Bulk!Unresolved(g)' = Bulk!Unresolved(g)
  BY <1>1 DEF Bulk!CrossStore, Bulk!Unresolved
<1>4. StillGood(g) => StillGood(g)'
  BY <1>2, <1>3 DEF StillGood
<1>5. NotOrdered(g) => NotOrdered(g)'
  BY <1>2 DEF NotOrdered
<1> QED  BY <1>1, <1>2, <1>4, <1>5

(* A step of one submission leaves the others alone.                       *)
LEMMA OthersStay ==
    ASSUME BulkSafe, NEW k \in Keys, OpOK(k)', \A j \in Keys \ {k} : OpsApart(j, k)',
           \A j \in Keys \ {k} : Untouched(j) /\ OrdersAvoid(j)
    PROVE  AllRight' /\ AllApart'
<1>1. AllRight'
  <2>1. \A j \in Keys \ {k} : OpOK(j)'
    BY OpStays DEF BulkSafe, AllRight
  <2> QED  BY <2>1 DEF AllRight
<1>2. AllApart'
  <2> SUFFICES ASSUME NEW i \in Keys, NEW j \in Keys, i # j
               PROVE  OpsApart(i, j)'
    BY DEF AllApart
  <2>1. CASE i # k /\ j # k
    <3>1. OpOK(i) /\ OpOK(j) /\ OpsApart(i, j)
      BY DEF BulkSafe, AllRight, AllApart
    <3>2. Untouched(i) /\ OrdersAvoid(i) /\ Untouched(j) /\ OrdersAvoid(j)
      BY <2>1
    <3> QED  BY <3>1, <3>2, ApartStays DEF BulkSafe
  <2>2. CASE j = k
    BY <2>2
  <2>3. CASE i = k
    <3>1. OpsApart(j, k)'
      BY <2>3
    <3> QED  BY <2>3, <3>1 DEF OpsApart
  <2> QED  BY <2>1, <2>2, <2>3
<1> QED  BY <1>1, <1>2

LEMMA OpStep ==
    ASSUME BulkSafe, NEW k \in Keys, NEW c \in Operation, op' = [op EXCEPT ![k] = c],
           UNCHANGED <<draft, late, group, file, orders, result>>, OpOK(k)',
           \A j \in Keys \ {k} : OpsApart(j, k)'
    PROVE  BulkSafe'
<1>1. op' \in [Keys -> Operation] /\ op'[k] = c /\ \A j \in Keys \ {k} : op'[j] = op[j]
  BY DEF BulkSafe, DraftType
<1>2. DraftType'
  BY <1>1 DEF BulkSafe, DraftType
<1>3. FilesApart'
  BY SameGroups DEF BulkSafe, FilesApart
<1>4. NumbersLiveOnce' /\ OrdersAnswerable'
  <2>1. \A g \in Groups : group'[g].status = group[g].status
    OBVIOUS
  <2>2. Marks /\ Bulk!DraftTellsTheTruth'
    BY <2>1, SameStatuses DEF BulkSafe
  <2>3. OrdersAnswerable'
    BY <2>2, AnswersStay DEF BulkSafe
  <2>4. NumbersLiveOnce'
    BY DEF BulkSafe, NumbersLiveOnce, Bulk!NumbersLiveOnce
  <2> QED  BY <2>3, <2>4
<1>5. \A j \in Keys \ {k} : Untouched(j) /\ OrdersAvoid(j)
  <2>1. \A j \in Keys \ {k} : Untouched(j)
    BY <1>1 DEF Untouched, DraftUntouched, FilesUntouched
  <2> QED  BY <2>1, SameOrdersAvoided
<1>6. AllRight' /\ AllApart'
  BY <1>5, OthersStay
<1> QED  BY <1>2, <1>3, <1>4, <1>6 DEF BulkSafe

LEMMA AbortSafe ==
    ASSUME BulkSafe, NEW k \in Keys, Bulk!Abort(k)
    PROVE  BulkSafe'
<1>1. op' = [op EXCEPT ![k] = Bulk!Idle] /\ UNCHANGED <<draft, late, group, file, orders, result>>
  BY DEF Bulk!Abort
<1>2. op'[k].at = "idle"
  BY <1>1 DEF BulkSafe, DraftType, Bulk!Idle
<1>3. OpOK(k)' /\ \A j \in Keys \ {k} : OpsApart(j, k)'
  BY <1>2 DEF OpOK, OpsApart, Busy
<1>4. Bulk!Idle \in Operation
  BY DEF Operation
<1> QED  BY <1>1, <1>3, <1>4, OpStep

LEMMA LoadSafe ==
    ASSUME BulkSafe, NEW k \in Keys, NEW d \in Drafts, NEW G \in SUBSET Groups, Bulk!Load(k, d, G)
    PROVE  BulkSafe'
<1> DEFINE c == [at |-> "loaded", draft |-> d, groups |-> G,
                 preview |-> {f \in Files : file[f].status = "PREVIEW"}]
<1>1. /\ op' = [op EXCEPT ![k] = c] /\ UNCHANGED <<draft, late, group, file, orders, result>>
      /\ result[k] = None /\ draft[d] # "NONE" /\ ~Bulk!Locked(d) /\ G \subseteq Bulk!GroupsOf(d)
  BY DEF Bulk!Load, Bulk!Fresh
<1>2. c \in Operation
  BY DEF Operation, Loaded
<1>3. op'[k].at = "loaded" /\ op'[k].draft = d /\ op'[k].groups = G /\ \A j \in Keys \ {k} : op'[j] = op[j]
  BY <1>1 DEF BulkSafe, DraftType
<1>4. OpOK(k)'
  BY <1>1, <1>3, SameGroups DEF OpOK, Busy
<1>5. \A j \in Keys \ {k} : OpsApart(j, k)'
  <2>1. \A j \in Keys \ {k} : op[j].at # "idle" => op[j].draft # d
    BY <1>1, NotLocked DEF BulkSafe
  <2> QED  BY <1>3, <2>1 DEF OpsApart, Busy
<1> HIDE DEF c
<1> QED  BY <1>1, <1>2, <1>4, <1>5, OpStep

LEMMA JudgeSafe ==
    ASSUME BulkSafe, NEW k \in Keys, Bulk!Judge(k)
    PROVE  BulkSafe'
<1> DEFINE G == op[k].groups
           fs == UNION {Bulk!FilesOf(g) : g \in G}
<1>1. /\ op[k].at = "loaded" /\ ~\E f \in fs : Bulk!FileLocked(f)
      /\ UNCHANGED <<draft, late, group, file, orders, result>>
  BY DEF Bulk!Judge
<1>2. PICK odd \in SUBSET G :
          op' = [op EXCEPT ![k] =
                   [at |-> "judged", draft |-> op[k].draft, files |-> fs,
                    overdue |-> Bulk!Overdue(op[k].draft),
                    verdict |-> [g \in G |-> LET v == Bulk!Judgement(g, op[k].preview)
                                             IN IF v = "OK" /\ g \in odd THEN "INVALID" ELSE v]]]
  BY DEF Bulk!Judge
<1> DEFINE verdict == [g \in G |-> LET v == Bulk!Judgement(g, op[k].preview)
                                   IN IF v = "OK" /\ g \in odd THEN "INVALID" ELSE v]
           c == [at |-> "judged", draft |-> op[k].draft, files |-> fs,
                 overdue |-> Bulk!Overdue(op[k].draft), verdict |-> verdict]
<1>3. /\ op[k] \in Operation /\ op[k].draft \in Drafts /\ G \in SUBSET Groups
      /\ G \subseteq Bulk!GroupsOf(op[k].draft) /\ draft[op[k].draft] # "NONE" /\ result[k] = None
  <2>1. op[k] \in Operation
    BY DEF BulkSafe, DraftType
  <2> QED  BY <1>1, <2>1, OpFields DEF BulkSafe, AllRight, OpOK
<1>4. \A g \in G : g \in Groups /\ Bulk!FilesOf(g) \in SUBSET Files
  BY <1>3, FilesOfGroup DEF BulkSafe
<1>5. fs \in SUBSET Files
  BY <1>4
<1>6. Bulk!Overdue(op[k].draft) \in BOOLEAN
  BY <1>3 DEF BulkSafe, DraftType, Bulk!Overdue
<1>7. DOMAIN verdict = G /\ \A g \in G : verdict[g] \in VerdictOf
                                         /\ (verdict[g] = "OK" => Bulk!Judgement(g, op[k].preview) = "OK")
  BY DEF VerdictOf, Bulk!Judgement
<1>8. verdict \in Verdicts
  <2>1. verdict = [g \in G |-> verdict[g]]
    OBVIOUS
  <2> HIDE DEF verdict
  <2>2. verdict \in [G -> VerdictOf]
    BY <1>7, <2>1
  <2> QED  BY <1>3, <2>2 DEF Verdicts
<1>9. c \in Operation
  <2> HIDE DEF fs, verdict
  <2> QED  BY <1>3, <1>5, <1>6, <1>8 DEF Operation, Judged
<1>10. /\ op'[k].at = "judged" /\ op'[k].draft = op[k].draft /\ op'[k].files = fs /\ op'[k].verdict = verdict
       /\ \A j \in Keys \ {k} : op'[j] = op[j]
  <2> HIDE DEF fs, verdict
  <2>1. op' = [op EXCEPT ![k] = c]
    BY <1>2 DEF verdict
  <2> QED  BY <2>1 DEF BulkSafe, DraftType
<1>11. \A g \in G : verdict[g] = "OK" => StillGood(g)
  <2> SUFFICES ASSUME NEW g \in G, Bulk!Judgement(g, op[k].preview) = "OK"
               PROVE  StillGood(g)
    BY <1>7
  <2>1. ~Bulk!Overdue(g[1]) /\ group[g].status = "PREVIEW" /\ ~Bulk!CrossStore(g)
    BY DEF Bulk!Judgement
  <2>2. ~Bulk!Unresolved(g) /\ Bulk!Candidates(g) # {}
    BY DEF Bulk!Judgement
  <2> QED  BY <2>1, <2>2 DEF StillGood, Bulk!Overdue
<1>12. OpOK(k)'
  <2>1. \A g \in G : verdict[g] = "OK" => StillGood(g)'
    BY <1>1, <1>11, SameGroups
  <2>2. G \subseteq Bulk!GroupsOf(op[k].draft)'
    BY <1>1, <1>3, <1>10, SameGroups
  <2>3. GoodOf(op[k])' = {g \in G : verdict[g] = "OK"}
    BY <1>7, <1>10 DEF GoodOf
  <2>4. fs = UNION {Bulk!FilesOf(g) : g \in DOMAIN op[k].verdict}' /\ DOMAIN op'[k].verdict = G
    BY <1>1, <1>7, <1>10, SameGroups
  <2> HIDE DEF fs, verdict
  <2> QED  BY <1>1, <1>3, <1>10, <2>1, <2>2, <2>3, <2>4 DEF OpOK, Busy
<1>13. \A j \in Keys \ {k} : OpsApart(j, k)'
  <2> SUFFICES ASSUME NEW j \in Keys \ {k}
               PROVE  OpsApart(j, k)'
    OBVIOUS
  <2>1. op[j].at # "idle" => op[j].draft # op[k].draft
    BY <1>1 DEF BulkSafe, AllApart, OpsApart
  <2>2. Busy(op[j]) => op[j].files \cap fs = {}
    BY <1>1, NotFileLocked
  <2> HIDE DEF fs, verdict
  <2> QED  BY <1>10, <2>1, <2>2 DEF OpsApart, Busy
<1> QED
  <2> HIDE DEF c
  <2>1. op' = [op EXCEPT ![k] = c]
    BY <1>2 DEF c
  <2> QED  BY <1>1, <1>9, <1>12, <1>13, <2>1, OpStep

(* What no alive order has is not ordered.                                 *)
LEMMA NobodyHasIt ==
    ASSUME NEW g, ~Bulk!Elsewhere(g), ~Bulk!SameStore(g)
    PROVE  NotOrdered(g)
<1> SUFFICES ASSUME NEW i \in DOMAIN orders, orders[i].alive,
                    NEW n \in orders[i].numbers \cap Bulk!Candidates(g)
             PROVE  FALSE
  BY DEF NotOrdered
<1>1. orders[i] \in Bulk!Alive
  BY DEF Bulk!Alive
<1>2. orders[i].store = g[2]
  BY <1>1 DEF Bulk!Elsewhere
<1>3. n \in Bulk!OwnOrders(g)
  BY <1>1, <1>2 DEF Bulk!OwnOrders
<1> QED  BY <1>3 DEF Bulk!SameStore

LEMMA CheckSafe ==
    ASSUME BulkSafe, NEW k \in Keys, Bulk!Check(k)
    PROVE  BulkSafe'
<1> DEFINE a == op[k]
           G == GoodOf(op[k])
           verdict == [g \in DOMAIN a.verdict |->
                         IF g \notin G THEN a.verdict[g]
                         ELSE IF Bulk!Elsewhere(g) THEN "CROSS_STORE_CONFLICT"
                         ELSE IF Bulk!SameStore(g) THEN "DUPLICATE_CHANGED"
                         ELSE "OK"]
           c == [at |-> "checked", draft |-> a.draft, files |-> a.files, overdue |-> a.overdue,
                 wanted |-> G, verdict |-> verdict]
<1>1. a.at = "judged" /\ UNCHANGED <<draft, late, group, file, orders, result>> /\ Bulk!Good(k) = G
  BY DEF Bulk!Check, Bulk!Good, GoodOf
<1>2. op' = [op EXCEPT ![k] = c]
  BY <1>1 DEF Bulk!Check
<1>3. \A j \in Keys : op[j].at = "checked" => NumbersOfAll(op[j].wanted) \cap NumbersOfAll(G) = {}
  BY <1>1 DEF Bulk!Check, Bulk!NumberLocks, NumbersOfAll
<1>4. /\ a \in Operation /\ a.draft \in Drafts /\ a.files \in SUBSET Files /\ a.overdue \in BOOLEAN
      /\ a.verdict \in Verdicts /\ DOMAIN a.verdict \in SUBSET Groups /\ G \in SUBSET Groups
      /\ Busy(a) /\ a.at # "idle"
  <2>1. op[k] \in Operation
    BY DEF BulkSafe, DraftType
  <2> QED  BY <1>1, <2>1, OpFields DEF Busy
<1>5. /\ draft[a.draft] # "NONE" /\ result[k] = None
      /\ DOMAIN a.verdict \subseteq Bulk!GroupsOf(a.draft)
      /\ a.files = UNION {Bulk!FilesOf(g) : g \in DOMAIN a.verdict}
      /\ \A g \in G : StillGood(g)
  BY <1>4 DEF BulkSafe, AllRight, OpOK
<1>6. /\ DOMAIN verdict = DOMAIN a.verdict /\ verdict \in Verdicts
      /\ \A g \in DOMAIN verdict : verdict[g] = "OK" => g \in G /\ NotOrdered(g)
  <2>1. DOMAIN verdict = DOMAIN a.verdict /\ verdict = [g \in DOMAIN a.verdict |-> verdict[g]]
    OBVIOUS
  <2>2. \A g \in DOMAIN a.verdict : a.verdict[g] \in VerdictOf
    BY <1>4 DEF Verdicts
  <2>3. \A g \in DOMAIN a.verdict : verdict[g] \in VerdictOf
    BY <2>2 DEF VerdictOf
  <2>4. \A g \in DOMAIN a.verdict : verdict[g] = "OK" => g \in G /\ NotOrdered(g)
    BY NobodyHasIt DEF GoodOf
  <2> HIDE DEF verdict
  <2>5. verdict \in [DOMAIN a.verdict -> VerdictOf]
    BY <2>1, <2>3
  <2> QED  BY <1>4, <2>1, <2>4, <2>5 DEF Verdicts
<1>7. G \subseteq DOMAIN verdict
  BY <1>6 DEF GoodOf
<1>8. c \in Operation
  <2> HIDE DEF verdict, G, a
  <2> QED  BY <1>4, <1>6 DEF Operation, Checked
<1>9. /\ op'[k].at = "checked" /\ op'[k].draft = a.draft /\ op'[k].files = a.files /\ op'[k].wanted = G
      /\ op'[k].verdict = verdict /\ \A j \in Keys \ {k} : op'[j] = op[j]
  <2> HIDE DEF verdict, G
  <2> QED  BY <1>2 DEF BulkSafe, DraftType
<1>10. GoodOf(op[k])' = {g \in DOMAIN verdict : verdict[g] = "OK"} /\ GoodOf(op[k])' \subseteq G
  <2>1. GoodOf(op[k])' = {g \in DOMAIN verdict : verdict[g] = "OK"}
    <3> HIDE DEF verdict, G
    <3> QED  BY <1>9 DEF GoodOf
  <2> QED  BY <1>6, <2>1
<1>11. OpOK(k)'
  <2>1. \A g \in GoodOf(op[k])' : StillGood(g)' /\ NotOrdered(g)'
    BY <1>1, <1>5, <1>6, <1>10, SameGroups
  <2>2. op'[k].files = UNION {Bulk!FilesOf(g) : g \in DOMAIN op[k].verdict}' /\ DOMAIN op'[k].verdict = DOMAIN a.verdict
    BY <1>1, <1>5, <1>6, <1>9, SameGroups
  <2>3. DOMAIN a.verdict \subseteq Bulk!GroupsOf(op[k].draft)'
    BY <1>1, <1>5, <1>9, SameGroups
  <2>4. op'[k].wanted = G /\ op'[k].wanted \subseteq DOMAIN op'[k].verdict
    BY <1>7, <1>9
  <2>5. op'[k].at = "checked" /\ draft'[op'[k].draft] # "NONE" /\ result'[k] = None
    BY <1>1, <1>5, <1>9
  <2>6. GoodOf(op[k])' \subseteq op'[k].wanted
    BY <1>9, <1>10
  <2> HIDE DEF verdict, G, a
  <2> QED  BY <2>1, <2>2, <2>3, <2>4, <2>5, <2>6 DEF OpOK, Busy
<1>12. \A j \in Keys \ {k} : OpsApart(j, k)'
  <2> SUFFICES ASSUME NEW j \in Keys \ {k}
               PROVE  OpsApart(j, k)'
    OBVIOUS
  <2>1. /\ op[j].at # "idle" => op[j].draft # a.draft
        /\ Busy(op[j]) => op[j].files \cap a.files = {}
    BY <1>4 DEF BulkSafe, AllApart, OpsApart
  <2>2. op[j].at = "checked" => NumbersOfAll(op[j].wanted)' = NumbersOfAll(op[j].wanted)
    BY <1>1, <1>9, SameGroups DEF NumbersOfAll
  <2>3. NumbersOfAll(op[k].wanted)' = NumbersOfAll(G)
    BY <1>1, <1>9, SameGroups DEF NumbersOfAll
  <2> HIDE DEF verdict, G, a
  <2> QED  BY <1>3, <1>9, <2>1, <2>2, <2>3 DEF OpsApart, Busy
<1> QED
  <2> HIDE DEF c
  <2> QED  BY <1>1, <1>2, <1>8, <1>11, <1>12, OpStep

-----------------------------------------------------------------------------
(* Orders of single files, and their end                                   *)

LEMMA OrderFields ==
    ASSUME DraftType, NEW i \in DOMAIN orders
    PROVE  /\ orders[i] \in OrderRow /\ i \in Nat
           /\ orders[i].by \in {"bulk", "single"} /\ orders[i].key \in Keys \cup {None}
           /\ orders[i].group \in Groups /\ orders[i].store \in Stores
           /\ orders[i].numbers \in SUBSET AllNumbers /\ orders[i].alive \in BOOLEAN
<1>1. orders[i] \in OrderRow /\ i \in Nat
  BY DEF DraftType
<1> QED  BY <1>1 DEF OrderRow

LEMMA CancelDraftOrderSafe ==
    ASSUME BulkSafe, NEW m \in DOMAIN orders, Bulk!CancelOrder(m)
    PROVE  BulkSafe'
<1>1. orders' = [orders EXCEPT ![m].alive = FALSE] /\ UNCHANGED <<draft, late, group, file, op, result>>
  BY DEF Bulk!CancelOrder
<1>2. orders \in Seq(OrderRow) /\ orders[m] \in OrderRow
  BY OrderFields DEF BulkSafe, DraftType
<1>3. /\ DOMAIN orders' = DOMAIN orders /\ orders'[m] = [orders[m] EXCEPT !.alive = FALSE]
      /\ \A i \in DOMAIN orders : i # m => orders'[i] = orders[i]
  BY <1>1, <1>2
<1>4. orders'[m] \in OrderRow
  BY <1>2, <1>3 DEF OrderRow
<1>5. orders' \in Seq(OrderRow)
  BY <1>1, <1>2, <1>4
<1>6. \A i \in DOMAIN orders :
          /\ orders'[i].by = orders[i].by /\ orders'[i].key = orders[i].key
          /\ orders'[i].group = orders[i].group /\ orders'[i].store = orders[i].store
          /\ orders'[i].numbers = orders[i].numbers
          /\ orders'[i].alive => orders[i].alive
  <2>1. orders'[m].alive = FALSE /\ orders'[m].by = orders[m].by /\ orders'[m].key = orders[m].key
        /\ orders'[m].group = orders[m].group /\ orders'[m].store = orders[m].store
        /\ orders'[m].numbers = orders[m].numbers
    BY <1>2, <1>3 DEF OrderRow
  <2> QED  BY <1>3, <2>1
<1>7. DraftType'
  BY <1>1, <1>5 DEF BulkSafe, DraftType
<1>8. FilesApart'
  BY <1>1 DEF BulkSafe, FilesApart, Bulk!FilesOf, Bulk!GroupsOf
<1>9. NumbersLiveOnce'
  BY <1>3, <1>6 DEF BulkSafe, NumbersLiveOnce, Bulk!NumbersLiveOnce
<1>10. OrdersAnswerable'
  <2>1. Bulk!DraftTellsTheTruth'
    BY <1>1, SameStatuses DEF BulkSafe
  <2> QED  BY <1>1, <1>3, <1>6, <2>1 DEF BulkSafe, OrdersAnswerable, Bulk!OrdersAnswerable
<1>11. \A k \in Keys : Untouched(k) /\ OrdersAvoid(k)
  BY <1>1, <1>3, <1>6 DEF Untouched, DraftUntouched, FilesUntouched, OrdersAvoid, Avoids
<1> QED  BY <1>7, <1>8, <1>9, <1>10, <1>11, AllStay DEF BulkSafe

LEMMA SingleOfDraftSafe ==
    ASSUME BulkSafe, NEW g \in Groups, NEW f \in Files, Bulk!SubmitSingle(g, f)
    PROVE  BulkSafe'
<1> DEFINE mine == Numbers[f] \ file[f].old
           new == mine \ Bulk!OwnOrders(g)
           e == [by |-> "single", key |-> None, group |-> g, store |-> g[2], numbers |-> new, alive |-> TRUE]
<1>1. /\ f \in Bulk!FilesOf(g) /\ file[f].status = "PREVIEW" /\ ~Bulk!FileLocked(f)
      /\ \A k \in Keys : op[k].at = "checked" =>
             ~\E h \in op[k].wanted : h[2] = g[2] /\ Bulk!Candidates(h) \cap mine # {}
      /\ UNCHANGED <<draft, late, group, op, result>>
  BY DEF Bulk!SubmitSingle
<1>2. \/ file' = [file EXCEPT ![f].old = Numbers[f]] /\ orders' = orders
      \/ file' = [file EXCEPT ![f].old = Numbers[f] \ new, ![f].status = "SUBMITTED"] /\ orders' = Append(orders, e)
  BY DEF Bulk!SubmitSingle
<1>3. file \in [Files -> FileRow] /\ file[f] \in FileRow /\ Numbers[f] \in SUBSET AllNumbers
      /\ orders \in Seq(OrderRow) /\ Len(orders) \in Nat /\ DOMAIN orders = 1 .. Len(orders)
  BY DEF BulkSafe, DraftType, AllNumbers
<1>4. /\ file' \in [Files -> FileRow] /\ file'[f].status \in {"PREVIEW", "SUBMITTED"}
      /\ \A h \in Files : h # f => file'[h] = file[h]
  <2> HIDE DEF new, e
  <2>1. CASE file' = [file EXCEPT ![f].old = Numbers[f]]
    BY <1>1, <1>3, <2>1 DEF FileRow
  <2>2. CASE file' = [file EXCEPT ![f].old = Numbers[f] \ new, ![f].status = "SUBMITTED"]
    <3>1. Numbers[f] \ new \in SUBSET AllNumbers
      BY <1>3
    <3> QED  BY <1>3, <2>2, <3>1 DEF FileRow
  <2> QED  BY <1>2, <2>1, <2>2
<1>5. e \in OrderRow /\ new \subseteq mine
  <2>1. g[2] \in Stores /\ new \in SUBSET AllNumbers
    BY <1>3 DEF Groups
  <2> HIDE DEF new
  <2>2. e \in OrderRow
    BY <2>1 DEF OrderRow
  <2> QED  BY <2>2 DEF new
<1>6. orders' = orders \/ orders' = Append(orders, e)
  BY <1>2
<1>7. /\ orders' \in Seq(OrderRow) /\ DOMAIN orders \subseteq DOMAIN orders'
      /\ \A i \in DOMAIN orders : orders'[i] = orders[i]
      /\ \A i \in DOMAIN orders' \ DOMAIN orders : orders'[i] = e /\ i = Len(orders) + 1
  <2> HIDE DEF e
  <2>1. CASE orders' = orders
    BY <1>3, <2>1
  <2>2. CASE orders' = Append(orders, e)
    BY <1>3, <1>5, <2>2
  <2> QED  BY <1>6, <2>1, <2>2
<1>8. DraftType'
  BY <1>1, <1>4, <1>7 DEF BulkSafe, DraftType
<1>9. FilesApart'
  <2>1. \A h : Bulk!FilesOf(h)' = Bulk!FilesOf(h) /\ Bulk!GroupsOf(h)' = Bulk!GroupsOf(h)
    BY <1>1 DEF Bulk!FilesOf, Bulk!GroupsOf
  <2>2. \A h \in Groups : \A i \in Bulk!FilesOf(h) : file'[i].status # "NONE"
    BY <1>4, FilesOfGroup DEF BulkSafe, FilesApart
  <2> QED  BY <1>1, <2>1, <2>2 DEF BulkSafe, FilesApart
<1>10. NumbersLiveOnce'
  <2> SUFFICES ASSUME NEW i \in DOMAIN orders', NEW j \in DOMAIN orders', i < j,
                      orders'[i].alive, orders'[j].alive,
                      NEW n \in orders'[i].numbers \cap orders'[j].numbers
               PROVE  orders'[i].store # orders'[j].store /\ "single" \in {orders'[i].by, orders'[j].by}
    BY DEF NumbersLiveOnce, Bulk!NumbersLiveOnce
  <2>1. CASE j \in DOMAIN orders
    <3>1. i \in DOMAIN orders
      <4>1. i \notin DOMAIN orders => i = Len(orders) + 1
        BY <1>7
      <4> QED  BY <1>3, <2>1, <4>1
    <3> QED  BY <1>7, <2>1, <3>1 DEF BulkSafe, NumbersLiveOnce, Bulk!NumbersLiveOnce
  <2>2. CASE j \notin DOMAIN orders
    <3>1. orders'[j] = e /\ j = Len(orders) + 1
      BY <1>7, <2>2
    <3>2. i \in DOMAIN orders
      <4>1. i \notin DOMAIN orders => i = Len(orders) + 1
        BY <1>7
      <4> QED  BY <1>3, <3>1, <4>1
    <3>3. orders'[i] = orders[i]
      BY <1>7, <3>2
    <3>4. n \in new
      BY <3>1
    <3>5. orders[i].store # g[2]
      <4>1. orders[i] \in Bulk!Alive
        BY <3>2, <3>3 DEF Bulk!Alive
      <4>2. n \notin Bulk!OwnOrders(g)
        BY <3>4
      <4> QED  BY <3>3, <4>1, <4>2 DEF Bulk!OwnOrders
    <3>6. e.store = g[2] /\ e.by = "single"
      OBVIOUS
    <3> QED  BY <3>1, <3>3, <3>5, <3>6
  <2> QED  BY <2>1, <2>2
<1>11. OrdersAnswerable'
  <2>1. Bulk!DraftTellsTheTruth'
    BY <1>1, SameStatuses DEF BulkSafe
  <2>2. {i \in DOMAIN orders' : orders'[i].by = "bulk"} = {i \in DOMAIN orders : orders[i].by = "bulk"}
    <3>1. e.by = "single"
      OBVIOUS
    <3> HIDE DEF e
    <3> QED  BY <1>7, <3>1
  <2>3. \A i \in DOMAIN orders : orders'[i].group = orders[i].group /\ orders'[i].key = orders[i].key
    BY <1>7
  <2> QED  BY <1>1, <2>1, <2>2, <2>3 DEF BulkSafe, OrdersAnswerable, Bulk!OrdersAnswerable
<1>12. \A k \in Keys : Untouched(k) /\ OrdersAvoid(k)
  <2> SUFFICES ASSUME NEW k \in Keys
               PROVE  Untouched(k) /\ OrdersAvoid(k)
    OBVIOUS
  <2>1. Busy(op[k]) => FilesUntouched(op[k].files)
    <3>1. Busy(op[k]) => \A h \in op[k].files : h # f /\ h \in Files
      BY <1>1, NotFileLocked, HeldFile DEF BulkSafe, AllRight
    <3> QED  BY <1>4, <3>1 DEF FilesUntouched
  <2>2. Untouched(k)
    BY <1>1, <2>1 DEF Untouched, DraftUntouched
  <2>3. OrdersAvoid(k)
    <3> SUFFICES ASSUME op[k].at = "checked", NEW h \in GoodOf(op[k]), NEW i \in DOMAIN orders',
                        orders'[i].alive, orders'[i].numbers \cap Bulk!Candidates(h) # {}, i \notin DOMAIN orders
                 PROVE  orders'[i].store # h[2] /\ orders'[i].by = "single"
      BY <1>7 DEF OrdersAvoid, Avoids
    <3>1. orders'[i] = e
      BY <1>7
    <3>2. h \in op[k].wanted
      BY DEF BulkSafe, AllRight, OpOK
    <3>3. Bulk!Candidates(h) \cap mine # {}
      BY <1>5, <3>1
    <3>4. h[2] # g[2]
      BY <1>1, <3>2, <3>3
    <3>5. e.store = g[2] /\ e.by = "single"
      OBVIOUS
    <3> QED  BY <3>1, <3>4, <3>5
  <2> QED  BY <2>2, <2>3
<1> QED  BY <1>8, <1>9, <1>10, <1>11, <1>12, AllStay DEF BulkSafe

-----------------------------------------------------------------------------
(* The orders of a submission that commits: one of each group              *)

LEMMA ListOfGroups ==
    ASSUME NEW G \in SUBSET Groups
    PROVE  LET n == Bulk!Cardinality(G)
               s == Bulk!SetToSeq(G)
           IN /\ n \in Nat /\ s \in [1 .. n -> G]
              /\ \A i, j \in 1 .. n : s[i] = s[j] => i = j
              /\ \A g \in G : \E i \in 1 .. n : s[i] = g
<1> DEFINE n == Bulk!Cardinality(G)
           s == Bulk!SetToSeq(G)
<1>1. IsFiniteSet(G)
  <2>1. IsFiniteSet(Groups)
    BY FS_Product, DraftAssumption DEF Groups
  <2> QED  BY <2>1, FS_Subset
<1>2. n = Cardinality(G) /\ n \in Nat
  BY <1>1, SameBulkCardinality, FS_CardinalityType
<1>3. \E f \in [1 .. n -> G] : \A a, b \in DOMAIN f : f[a] = f[b] => a = b
  <2>1. PICK f \in Bijection(1 .. Cardinality(G), G) : TRUE
    BY <1>1, FS_CardinalityType DEF ExistsBijection
  <2> QED  BY <1>2, <2>1 DEF Bijection, Injection, IsInjective
<1>4. s \in [1 .. n -> G] /\ \A a, b \in DOMAIN s : s[a] = s[b] => a = b
  BY <1>3 DEF Bulk!SetToSeq, Bulk!IsInjective
<1>5. s \in Injection(1 .. n, G)
  <2> HIDE DEF s, n
  <2> QED  BY <1>4 DEF Injection, IsInjective
<1>6. s \in Surjection(1 .. n, G)
  <2>1. Cardinality(1 .. n) = Cardinality(G)
    <3>1. \A m \in Nat : IsFiniteSet(1 .. m) /\ Cardinality(1 .. m) = IF 1 > m THEN 0 ELSE m - 1 + 1
      BY FS_Interval
    <3> HIDE DEF n
    <3> QED  BY <1>2, <3>1
  <2> HIDE DEF s, n
  <2> QED  BY <1>1, <1>5, <2>1, FS_Injection
<1> HIDE DEF s, n
<1>7. \A g \in G : \E i \in 1 .. n : s[i] = g
  BY <1>6 DEF Surjection
<1> QED  BY <1>2, <1>4, <1>7 DEF s, n

LEMMA Joined ==
    ASSUME NEW S, NEW s \in Seq(S), NEW t \in Seq(S), NEW u, u = s \o t, NEW n, n = Len(t)
    PROVE  /\ u \in Seq(S) /\ DOMAIN s \subseteq DOMAIN u /\ Len(s) \in Nat
           /\ \A i \in DOMAIN s : u[i] = s[i]
           /\ \A i \in DOMAIN u, j \in DOMAIN s : i < j => i \in DOMAIN s
           /\ \A i \in DOMAIN u \ DOMAIN s : i \in Nat /\ i - Len(s) \in 1 .. n /\ u[i] = t[i - Len(s)]
           /\ \A i \in 1 .. n : Len(s) + i \in DOMAIN u \ DOMAIN s /\ u[Len(s) + i] = t[i]
<1>1. n \in Nat /\ s \o t \in Seq(S) /\ Len(s \o t) = Len(s) + Len(t)
  OBVIOUS
<1>2. u \in Seq(S) /\ Len(u) = Len(s) + n /\ Len(s) \in Nat /\ DOMAIN s = 1 .. Len(s)
  BY <1>1
<1>3. DOMAIN u = 1 .. (Len(s) + n)
  BY <1>2
<1>4. \A i \in 1 .. Len(s) : u[i] = s[i]
  BY <1>1, <1>2
<1>5. ASSUME NEW i \in DOMAIN u \ DOMAIN s
      PROVE  i \in Nat /\ i - Len(s) \in 1 .. n /\ u[i] = t[i - Len(s)]
  <2>1. i \in Nat /\ i > Len(s) /\ i <= Len(s) + n /\ i - Len(s) \in 1 .. n
    BY <1>2, <1>3
  <2> QED  BY <1>1, <1>2, <2>1
<1>6. ASSUME NEW i \in 1 .. n
      PROVE  Len(s) + i \in DOMAIN u \ DOMAIN s /\ u[Len(s) + i] = t[i]
  <2>1. Len(s) + i \in DOMAIN u \ DOMAIN s /\ (Len(s) + i) - Len(s) = i
    BY <1>2, <1>3
  <2> QED  BY <1>5, <2>1
<1> QED  BY <1>2, <1>3, <1>4, <1>5, <1>6

OrderOf(k, g) == [by |-> "bulk", key |-> k, group |-> g, store |-> g[2],
                  numbers |-> Bulk!Candidates(g), alive |-> TRUE]
OrdersOf(k, G) == [i \in 1 .. Bulk!Cardinality(G) |-> OrderOf(k, Bulk!SetToSeq(G)[i])]

(* The old orders are as they were, and each group of G has one new order. *)
Ordered(k, G) ==
    LET fresh == DOMAIN orders' \ DOMAIN orders
    IN /\ orders' \in Seq(OrderRow) /\ DOMAIN orders \subseteq DOMAIN orders'
       /\ \A i \in DOMAIN orders : orders'[i] = orders[i]
       /\ \A i \in DOMAIN orders', j \in DOMAIN orders : i < j => i \in DOMAIN orders
       /\ \A i \in fresh : \E g \in G : orders'[i] = OrderOf(k, g)
       /\ \A g \in G : \E i \in fresh : orders'[i] = OrderOf(k, g)
       /\ \A i, j \in fresh : orders'[i].group = orders'[j].group => i = j

LEMMA NewOrders ==
    ASSUME DraftType, NEW k \in Keys, NEW G \in SUBSET Groups, orders' = orders \o OrdersOf(k, G)
    PROVE  Ordered(k, G)
<1> DEFINE n == Bulk!Cardinality(G)
           s == Bulk!SetToSeq(G)
           fresh == DOMAIN orders' \ DOMAIN orders
<1>1. /\ n \in Nat /\ s \in [1 .. n -> G]
      /\ \A i, j \in 1 .. n : s[i] = s[j] => i = j
      /\ \A g \in G : \E i \in 1 .. n : s[i] = g
  BY ListOfGroups
<1>2. \A g \in G : OrderOf(k, g) \in OrderRow /\ OrderOf(k, g).group = g
  BY FilesOfGroup DEF OrderOf, OrderRow, Groups
<1>3. orders \in Seq(OrderRow)
  BY DEF DraftType
<1> HIDE DEF n, s
<1>4. OrdersOf(k, G) \in [1 .. n -> OrderRow] /\ \A i \in 1 .. n : OrdersOf(k, G)[i] = OrderOf(k, s[i])
  <2>1. \A i \in 1 .. n : OrderOf(k, s[i]) \in OrderRow
    BY <1>1, <1>2
  <2>2. OrdersOf(k, G) = [i \in 1 .. n |-> OrderOf(k, s[i])]
    BY DEF OrdersOf, n, s
  <2> QED  BY <2>1, <2>2
<1> DEFINE t == OrdersOf(k, G)
<1>5. t \in Seq(OrderRow) /\ n = Len(t)
  <2> HIDE DEF t
  <2>1. t \in [1 .. n -> OrderRow]
    BY <1>4 DEF t
  <2> QED  BY <1>1, <2>1
<1>6. /\ orders' \in Seq(OrderRow) /\ DOMAIN orders \subseteq DOMAIN orders' /\ Len(orders) \in Nat
      /\ \A i \in DOMAIN orders : orders'[i] = orders[i]
      /\ \A i \in DOMAIN orders', j \in DOMAIN orders : i < j => i \in DOMAIN orders
      /\ \A i \in fresh : i \in Nat /\ i - Len(orders) \in 1 .. n
                          /\ orders'[i] = OrdersOf(k, G)[i - Len(orders)]
      /\ \A i \in 1 .. n : Len(orders) + i \in fresh /\ orders'[Len(orders) + i] = OrdersOf(k, G)[i]
  <2> HIDE DEF t
  <2>1. orders' = orders \o t
    BY DEF t
  <2> QED  BY <1>3, <1>5, <2>1, Joined DEF t
<1>7. \A i \in fresh : i \in Nat /\ i - Len(orders) \in 1 .. n
                        /\ orders'[i] = OrderOf(k, s[i - Len(orders)])
  BY <1>4, <1>6
<1>8. \A i \in fresh : \E g \in G : orders'[i] = OrderOf(k, g)
  BY <1>1, <1>7
<1>9. ASSUME NEW g \in G
      PROVE  \E i \in fresh : orders'[i] = OrderOf(k, g)
  <2>1. PICK i \in 1 .. n : s[i] = g
    BY <1>1
  <2>2. Len(orders) + i \in fresh /\ orders'[Len(orders) + i] = OrderOf(k, g)
    BY <1>4, <1>6, <2>1
  <2> QED  BY <2>2
<1>10. ASSUME NEW i \in fresh, NEW j \in fresh, orders'[i].group = orders'[j].group
      PROVE  i = j
  <2>1. /\ i \in Nat /\ i - Len(orders) \in 1 .. n /\ orders'[i] = OrderOf(k, s[i - Len(orders)])
        /\ j \in Nat /\ j - Len(orders) \in 1 .. n /\ orders'[j] = OrderOf(k, s[j - Len(orders)])
    BY <1>7
  <2>2. s[i - Len(orders)] \in G /\ s[j - Len(orders)] \in G
    BY <1>1, <2>1
  <2>3. s[i - Len(orders)] = s[j - Len(orders)]
    BY <1>2, <1>10, <2>1, <2>2
  <2>4. i - Len(orders) = j - Len(orders)
    BY <1>1, <2>1, <2>3
  <2> QED  BY <1>6, <2>1, <2>4
<1> QED  BY <1>6, <1>8, <1>9, <1>10 DEF Ordered

(* What a commit does to one group, file, draft and answer.                *)
Committed(k, G) ==
    /\ op[k].at = "checked" /\ G \subseteq GoodOf(op[k])
    /\ Ordered(k, G)
    /\ \A g \in Groups : /\ group'[g].files = group[g].files
                         /\ g \in G => group'[g].status = "SUBMITTED"
                         /\ g \notin G => group'[g] = group[g]
    /\ \A f \in Files : /\ file'[f].old = file[f].old
                        /\ file'[f].status # file[f].status => file'[f].status = "SUBMITTED"
                        /\ f \notin op[k].files => file'[f] = file[f]
    /\ draft'[op[k].draft] = Bulk!After(k, G)
    /\ \A d \in Drafts : d # op[k].draft => draft'[d] = draft[d]
    /\ result'[k] = [draft |-> op[k].draft, created |-> G, failed |-> DOMAIN op[k].verdict \ G]
    /\ \A j \in Keys : j # k => result'[j] = result[j] /\ op'[j] = op[j]
    /\ op'[k].at = "idle"

CommitOf(k, G, withdrawn) ==
    /\ orders' = orders \o OrdersOf(k, G)
    /\ group' = [g \in Bulk!Groups |-> IF g \in G THEN [group[g] EXCEPT !.status = "SUBMITTED"] ELSE group[g]]
    /\ file' = [f \in Files |->
          IF \E g \in G : f \in Bulk!FilesOf(g) THEN [file[f] EXCEPT !.status = "SUBMITTED"]
          ELSE IF \E g \in withdrawn : f \in Bulk!FilesOf(g) THEN [file[f] EXCEPT !.known = FALSE]
          ELSE file[f]]
    /\ draft' = [draft EXCEPT ![op[k].draft] = Bulk!After(k, G)]
    /\ result' = [result EXCEPT ![k] = [draft |-> op[k].draft, created |-> G,
                                        failed |-> DOMAIN op[k].verdict \ G]]

LEMMA CommitEffects ==
    ASSUME BulkSafe, NEW k \in Keys, Bulk!Commit(k)
    PROVE  \E G \in SUBSET GoodOf(op[k]) : Committed(k, G) /\ DraftType'
<1> DEFINE c == op[k]
<1>1. c.at = "checked" /\ op' = [op EXCEPT ![k] = Bulk!Idle] /\ late' = late
  BY DEF Bulk!Commit
<1>2. PICK withdrawn \in SUBSET Bulk!Good(k) : \E short \in SUBSET (Bulk!Good(k) \ withdrawn) :
          CommitOf(k, Bulk!Good(k) \ (withdrawn \cup short), withdrawn)
  BY Zenon DEF Bulk!Commit, CommitOf, OrdersOf, OrderOf
<1>3. PICK short \in SUBSET (Bulk!Good(k) \ withdrawn) :
          CommitOf(k, Bulk!Good(k) \ (withdrawn \cup short), withdrawn)
  BY <1>2
<1> DEFINE G == Bulk!Good(k) \ (withdrawn \cup short)
           mine == {f \in Files : \E g \in G : f \in Bulk!FilesOf(g)}
           back == {f \in Files : \E g \in withdrawn : f \in Bulk!FilesOf(g)}
           answer == [draft |-> op[k].draft, created |-> G, failed |-> DOMAIN op[k].verdict \ G]
<1>4. G \subseteq GoodOf(c) /\ withdrawn \subseteq GoodOf(c)
  BY DEF Bulk!Good, GoodOf
<1>5. /\ orders' = orders \o OrdersOf(k, G)
      /\ group' = [g \in Groups |-> IF g \in G THEN [group[g] EXCEPT !.status = "SUBMITTED"] ELSE group[g]]
      /\ file' = [f \in Files |-> IF f \in mine THEN [file[f] EXCEPT !.status = "SUBMITTED"]
                                 ELSE IF f \in back THEN [file[f] EXCEPT !.known = FALSE]
                                 ELSE file[f]]
      /\ draft' = [draft EXCEPT ![op[k].draft] = Bulk!After(k, G)]
      /\ result' = [result EXCEPT ![k] = answer]
  <2>1. orders' = orders \o OrdersOf(k, G)
    BY <1>3 DEF CommitOf
  <2>2. group' = [g \in Groups |-> IF g \in G THEN [group[g] EXCEPT !.status = "SUBMITTED"] ELSE group[g]]
    BY <1>3 DEF CommitOf, Bulk!Groups, Groups
  <2>3. file' = [f \in Files |-> IF f \in mine THEN [file[f] EXCEPT !.status = "SUBMITTED"]
                                 ELSE IF f \in back THEN [file[f] EXCEPT !.known = FALSE]
                                 ELSE file[f]]
    BY <1>3 DEF CommitOf
  <2>4. draft' = [draft EXCEPT ![op[k].draft] = Bulk!After(k, G)] /\ result' = [result EXCEPT ![k] = answer]
    BY <1>3 DEF CommitOf
  <2> QED  BY <2>1, <2>2, <2>3, <2>4
<1>6. /\ c \in Operation /\ Busy(c) /\ c.draft \in Drafts /\ DOMAIN c.verdict \in SUBSET Groups
      /\ GoodOf(c) \in SUBSET Groups /\ GoodOf(c) \subseteq DOMAIN c.verdict
      /\ c.files = UNION {Bulk!FilesOf(g) : g \in DOMAIN c.verdict}
  <2>1. op[k] \in Operation /\ Busy(op[k])
    BY <1>1 DEF BulkSafe, DraftType, Busy
  <2> QED  BY <1>1, <2>1, OpFields DEF BulkSafe, AllRight, OpOK, GoodOf
<1>7. mine \subseteq c.files /\ back \subseteq c.files
  BY <1>4, <1>6
<1>8. G \in SUBSET Groups /\ answer \in Answers
  <2>1. G \in SUBSET Groups
    BY <1>4, <1>6
  <2> HIDE DEF G
  <2> QED  BY <1>6, <2>1 DEF Answers
<1> HIDE DEF G, mine, back, answer
<1>9. Ordered(k, G)
  BY <1>5, <1>8, NewOrders DEF BulkSafe
<1>10. /\ group' \in [Groups -> GroupRow]
       /\ \A g \in Groups : /\ group'[g].files = group[g].files
                            /\ g \in G => group'[g].status = "SUBMITTED"
                            /\ g \notin G => group'[g] = group[g]
  <2>1. \A g \in Groups : group[g] \in GroupRow
    BY DEF BulkSafe, DraftType
  <2> QED  BY <1>5, <2>1 DEF GroupRow
<1>11. /\ file' \in [Files -> FileRow]
       /\ \A f \in Files : /\ file'[f].old = file[f].old
                           /\ file'[f].status # file[f].status => file'[f].status = "SUBMITTED"
                           /\ f \notin c.files => file'[f] = file[f]
  <2>1. \A f \in Files : file[f] \in FileRow
    BY DEF BulkSafe, DraftType
  <2> QED  BY <1>5, <1>7, <2>1 DEF FileRow
<1>12. /\ draft' \in [Drafts -> DraftStatus] /\ draft'[c.draft] = Bulk!After(k, G)
       /\ \A d \in Drafts : d # c.draft => draft'[d] = draft[d]
  <2>1. draft \in [Drafts -> DraftStatus] /\ draft[c.draft] \in DraftStatus
    BY <1>6 DEF BulkSafe, DraftType
  <2>2. Bulk!After(k, G) \in DraftStatus
    BY <2>1 DEF Bulk!After, DraftStatus
  <2> QED  BY <1>5, <1>6, <2>1, <2>2
<1>13. /\ result' \in [Keys -> {None} \cup Answers] /\ result'[k] = answer
       /\ \A j \in Keys : j # k => result'[j] = result[j]
  BY <1>5, <1>8 DEF BulkSafe, DraftType
<1>14. /\ op' \in [Keys -> Operation] /\ op'[k].at = "idle" /\ \A j \in Keys : j # k => op'[j] = op[j]
  BY <1>1 DEF BulkSafe, DraftType, Operation, Bulk!Idle
<1>15. DraftType'
  BY <1>1, <1>9, <1>10, <1>11, <1>12, <1>13, <1>14 DEF BulkSafe, DraftType, Ordered
<1>16. Committed(k, G)
  BY <1>1, <1>4, <1>9, <1>10, <1>11, <1>12, <1>13, <1>14 DEF Committed, answer
<1> QED  BY <1>4, <1>15, <1>16

(* What the submission relied on: each group it orders is still as it was judged. *)
LEMMA GoodGroups ==
    ASSUME BulkSafe, NEW k \in Keys, op[k].at = "checked"
    PROVE  /\ op[k] \in Operation /\ Busy(op[k]) /\ op[k].draft \in Drafts /\ result[k] = None
           /\ draft[op[k].draft] # "NONE"
           /\ \A g \in GoodOf(op[k]) :
                 /\ g \in Groups /\ g[1] = op[k].draft /\ g \in op[k].wanted
                 /\ g \in Bulk!GroupsOf(op[k].draft)
                 /\ StillGood(g) /\ NotOrdered(g) /\ group[g].status = "PREVIEW"
<1>1. op[k] \in Operation /\ Busy(op[k])
  BY DEF BulkSafe, DraftType, Busy
<1>2. \A g \in GoodOf(op[k]) : g \in DOMAIN op[k].verdict
  BY DEF GoodOf
<1>3. OpOK(k)
  BY DEF BulkSafe, AllRight
<1>4. \A g \in GoodOf(op[k]) : /\ g \in Groups /\ g[1] = op[k].draft
                               /\ g \in Bulk!GroupsOf(op[k].draft)
  BY <1>1, <1>2, <1>3, GroupsHeld DEF BulkSafe, OpOK
<1>5. \A g \in GoodOf(op[k]) : g \in op[k].wanted /\ StillGood(g) /\ NotOrdered(g)
  BY <1>1, <1>3 DEF OpOK
<1>6. op[k].draft \in Drafts /\ draft[op[k].draft] # "NONE" /\ result[k] = None
  BY <1>1, <1>3, HeldDraft DEF BulkSafe
<1> QED  BY <1>1, <1>4, <1>5, <1>6 DEF StillGood

(* Groups of one draft that do not conflict order different numbers.       *)
LEMMA GroupsDiffer ==
    ASSUME NEW g, NEW h, g # h, h \in Bulk!GroupsOf(g[1]), ~Bulk!CrossStore(g)
    PROVE  Bulk!Candidates(g) \cap Bulk!Candidates(h) = {}
<1>1. Bulk!NumbersOf(g) \cap Bulk!NumbersOf(h) = {}
  BY DEF Bulk!CrossStore
<1> QED  BY <1>1 DEF Bulk!Candidates

LEMMA CommitOrdersOnce ==
    ASSUME BulkSafe, NEW k \in Keys, NEW G, Committed(k, G)
    PROVE  NumbersLiveOnce'
<1>1. op[k].at = "checked" /\ G \subseteq GoodOf(op[k]) /\ Ordered(k, G)
  BY DEF Committed
<1>2. \A g \in G : OrderOf(k, g).numbers = Bulk!Candidates(g) /\ OrderOf(k, g).store = g[2]
                   /\ OrderOf(k, g).group = g /\ OrderOf(k, g).by = "bulk"
  BY DEF OrderOf
<1> SUFFICES ASSUME NEW i \in DOMAIN orders', NEW j \in DOMAIN orders', i < j,
                    orders'[i].alive, orders'[j].alive,
                    orders'[i].numbers \cap orders'[j].numbers # {}
             PROVE  orders'[i].store # orders'[j].store /\ "single" \in {orders'[i].by, orders'[j].by}
  BY DEF NumbersLiveOnce, Bulk!NumbersLiveOnce
<1>3. CASE j \in DOMAIN orders
  <2>1. i \in DOMAIN orders /\ orders'[i] = orders[i] /\ orders'[j] = orders[j]
    BY <1>1, <1>3 DEF Ordered
  <2> QED  BY <1>3, <2>1 DEF BulkSafe, NumbersLiveOnce, Bulk!NumbersLiveOnce
<1>4. CASE j \notin DOMAIN orders
  <2>1. PICK h \in G : orders'[j] = OrderOf(k, h)
    BY <1>1, <1>4 DEF Ordered
  <2>2. CASE i \in DOMAIN orders
    <3>1. orders'[i] = orders[i]
      BY <1>1, <2>2 DEF Ordered
    <3>2. NotOrdered(h)
      BY <1>1, GoodGroups
    <3>3. orders[i].numbers \cap Bulk!Candidates(h) # {}
      BY <1>2, <2>1, <3>1
    <3>4. orders[i].store # h[2] /\ orders[i].by = "single"
      BY <2>2, <3>1, <3>2, <3>3 DEF NotOrdered
    <3> QED  BY <1>2, <2>1, <3>1, <3>4
  <2>3. CASE i \notin DOMAIN orders
    <3>1. PICK g \in G : orders'[i] = OrderOf(k, g)
      BY <1>1, <2>3 DEF Ordered
    <3>2. g # h
      <4>1. orders'[i].group = g /\ orders'[j].group = h
        BY <1>2, <2>1, <3>1
      <4>2. i \in Nat /\ i # j
        BY <1>1 DEF Ordered
      <4> QED  BY <1>1, <1>4, <2>3, <4>1, <4>2 DEF Ordered
    <3>3. Bulk!Candidates(g) \cap Bulk!Candidates(h) # {}
      BY <1>2, <2>1, <3>1
    <3>4. h \in Bulk!GroupsOf(g[1]) /\ ~Bulk!CrossStore(g)
      BY <1>1, GoodGroups DEF StillGood
    <3> QED  BY <3>2, <3>3, <3>4, GroupsDiffer
  <2> QED  BY <2>2, <2>3
<1> QED  BY <1>3, <1>4

LEMMA CommitTellsTheTruth ==
    ASSUME BulkSafe, NEW k \in Keys, NEW G, Committed(k, G)
    PROVE  Bulk!DraftTellsTheTruth' /\ \A d \in Drafts : Bulk!GroupsOf(d)' = Bulk!GroupsOf(d)
<1> DEFINE d0 == op[k].draft
<1>1. /\ d0 \in Drafts /\ draft[d0] # "NONE" /\ G \subseteq Groups /\ G \subseteq Bulk!GroupsOf(d0)
      /\ \A g \in G : g[1] = d0 /\ group[g].status = "PREVIEW"
  BY GoodGroups DEF Committed
<1>2. \A d \in Drafts : Bulk!GroupsOf(d)' = Bulk!GroupsOf(d)
  <2>1. \A g \in Groups : group'[g].status # "NONE" <=> group[g].status # "NONE"
    BY <1>1 DEF Committed
  <2> QED  BY <2>1, GroupsAre
<1>3. ASSUME NEW d \in Drafts
      PROVE  LET left == {g \in Bulk!GroupsOf(d) : group[g].status = "PREVIEW"}
             IN (/\ draft[d] = "COMPLETED" => left = {} /\ Bulk!GroupsOf(d) # {}
                 /\ draft[d] = "DRAFT" => left = Bulk!GroupsOf(d)
                 /\ draft[d] = "PARTIALLY_SUBMITTED" => left # Bulk!GroupsOf(d))'
  <2> DEFINE left == {g \in Bulk!GroupsOf(d) : group[g].status = "PREVIEW"}
  <2>1. /\ draft[d] = "COMPLETED" => left = {} /\ Bulk!GroupsOf(d) # {}
        /\ draft[d] = "DRAFT" => left = Bulk!GroupsOf(d)
        /\ draft[d] = "PARTIALLY_SUBMITTED" => left # Bulk!GroupsOf(d)
    BY DraftsTell DEF BulkSafe
  <2>2. left' = left \ G
    <3>1. \A g \in Bulk!GroupsOf(d) : g \in Groups
      BY GroupsAre
    <3>2. \A g \in Bulk!GroupsOf(d) : (group'[g].status = "PREVIEW") <=> (group[g].status = "PREVIEW" /\ g \notin G)
      BY <3>1 DEF Committed
    <3> QED  BY <1>2, <3>2
  <2>3. CASE d # d0 \/ G = {}
    <3>1. left' = left
      <4>1. d # d0 => \A g \in Bulk!GroupsOf(d) : g \notin G
        BY <1>1, GroupsAre
      <4> QED  BY <2>2, <2>3, <4>1
    <3>2. draft'[d] = draft[d] \/ draft'[d] = "EXPIRED"
      BY <2>3 DEF Committed, Bulk!After
    <3> QED  BY <1>2, <2>1, <3>1, <3>2
  <2>4. CASE d = d0 /\ G # {}
    <3>1. PICK g \in G : g \in Bulk!GroupsOf(d) /\ g \in left
      BY <1>1, <2>4
    <3>2. /\ draft'[d] \in {"EXPIRED", "PARTIALLY_SUBMITTED", "COMPLETED"}
          /\ draft'[d] = "COMPLETED" => ~\E h \in Bulk!GroupsOf(d) \ G : group[h].status = "PREVIEW"
      BY <2>4 DEF Committed, Bulk!After
    <3>3. draft'[d] = "COMPLETED" => left' = {} /\ Bulk!GroupsOf(d)' # {}
      BY <1>2, <2>2, <3>1, <3>2
    <3>4. left' # Bulk!GroupsOf(d)'
      BY <1>2, <2>2, <3>1
    <3> QED  BY <3>2, <3>3, <3>4
  <2> QED  BY <2>3, <2>4
<1> QED  BY <1>2, <1>3 DEF Bulk!DraftTellsTheTruth

LEMMA CommitAnswered ==
    ASSUME BulkSafe, NEW k \in Keys, NEW G, Committed(k, G)
    PROVE  OrdersAnswerable'
<1> DEFINE placed == {i \in DOMAIN orders : orders[i].by = "bulk"}
           fresh == DOMAIN orders' \ DOMAIN orders
<1>1. /\ G \subseteq Groups /\ Ordered(k, G) /\ result[k] = None
      /\ \A g \in G : group[g].status = "PREVIEW"
  BY GoodGroups DEF Committed
<1>2. /\ \A g \in G : OrderOf(k, g).group = g /\ OrderOf(k, g).by = "bulk" /\ OrderOf(k, g).key = k
      /\ \A i \in placed : orders'[i] = orders[i]
  BY <1>1 DEF OrderOf, Ordered
<1>3. placed' = placed \cup fresh
  <2>1. \A i \in fresh : orders'[i].by = "bulk"
    BY <1>1, <1>2 DEF Ordered
  <2>2. \A i \in DOMAIN orders : i \in DOMAIN orders' /\ orders'[i] = orders[i]
    BY <1>1 DEF Ordered
  <2> QED  BY <2>1, <2>2
<1>4. /\ \A i, j \in placed : orders[i].group = orders[j].group => i = j
      /\ \A g \in Groups : group[g].status = "SUBMITTED" <=> \E i \in placed : orders[i].group = g
      /\ \A j \in Keys, g \in Groups :
            (result[j] # None /\ g \in result[j].created)
               <=> \E i \in placed : orders[i].group = g /\ orders[i].key = j
  BY DEF BulkSafe, OrdersAnswerable, Bulk!OrdersAnswerable, Bulk!Groups, Groups
<1>5. \A i \in placed : orders[i].group \in Groups /\ orders[i].group \notin G
  <2>1. \A i \in placed : orders[i].group \in Groups
    BY OrderFields DEF BulkSafe
  <2>2. \A i \in placed : group[orders[i].group].status = "SUBMITTED"
    BY <1>4, <2>1
  <2> QED  BY <1>1, <2>1, <2>2
<1>6. \A i \in fresh : \E g \in G : orders'[i].group = g /\ orders'[i].key = k
  BY <1>1, <1>2 DEF Ordered
<1>7. \A g \in G : \E i \in fresh : orders'[i].group = g /\ orders'[i].key = k
  BY <1>1, <1>2 DEF Ordered
<1>8. \A i, j \in placed' : orders'[i].group = orders'[j].group => i = j
  <2>1. \A i, j \in fresh : orders'[i].group = orders'[j].group => i = j
    BY <1>1 DEF Ordered
  <2>2. \A i \in placed, j \in fresh : orders'[i].group # orders'[j].group
    BY <1>2, <1>5, <1>6
  <2>3. \A i, j \in placed : orders'[i].group = orders'[j].group => i = j
    BY <1>2, <1>4
  <2> HIDE DEF placed, fresh
  <2> QED  BY <1>3, <2>1, <2>2, <2>3
<1>9. \A g \in Groups : group'[g].status = "SUBMITTED" <=> \E i \in placed' : orders'[i].group = g
  <2> SUFFICES ASSUME NEW g \in Groups
               PROVE  group'[g].status = "SUBMITTED" <=> \E i \in placed' : orders'[i].group = g
    OBVIOUS
  <2>1. CASE g \in G
    <3>1. group'[g].status = "SUBMITTED"
      BY <2>1 DEF Committed
    <3>2. \E i \in placed' : orders'[i].group = g
      BY <1>3, <1>7, <2>1
    <3> QED  BY <3>1, <3>2
  <2>2. CASE g \notin G
    <3>1. group'[g].status = group[g].status
      BY <2>2 DEF Committed
    <3>2. (\E i \in placed' : orders'[i].group = g) <=> (\E i \in placed : orders[i].group = g)
      <4>1. \A i \in fresh : orders'[i].group # g
        BY <1>6, <2>2
      <4>2. \A i \in placed : orders'[i].group = orders[i].group
        BY <1>2
      <4> HIDE DEF placed, fresh
      <4> QED  BY <1>3, <4>1, <4>2
    <3> QED  BY <1>4, <3>1, <3>2
  <2> QED  BY <2>1, <2>2
<1>10. \A j \in Keys, g \in Groups :
          (result'[j] # None /\ g \in result'[j].created)
             <=> \E i \in placed' : orders'[i].group = g /\ orders'[i].key = j
  <2> SUFFICES ASSUME NEW j \in Keys, NEW g \in Groups
               PROVE  (result'[j] # None /\ g \in result'[j].created)
                         <=> \E i \in placed' : orders'[i].group = g /\ orders'[i].key = j
    OBVIOUS
  <2>1. \A i \in placed : orders'[i].group = orders[i].group /\ orders'[i].key = orders[i].key
    BY <1>2
  <2>2. CASE j = k
    <3>1. result'[k] # None /\ result'[k].created = G
      <4>1. result'[k] = [draft |-> op[k].draft, created |-> G, failed |-> DOMAIN op[k].verdict \ G]
        BY DEF Committed
      <4>2. op[k] \in Operation /\ Busy(op[k]) /\ op[k].draft \in Drafts
        BY GoodGroups DEF Committed
      <4>3. DOMAIN op[k].verdict \in SUBSET Groups
        BY <4>2, OpFields
      <4>4. result'[k] \in [draft : Drafts, created : SUBSET Groups, failed : SUBSET Groups]
        BY <1>1, <4>1, <4>2, <4>3
      <4> QED  BY <4>1, <4>4, DraftAssumption DEF Groups
    <3>2. \A i \in placed : orders[i].key # k
      <4>1. \A i \in placed : orders[i].key = k => orders[i].group \in Groups
        BY <1>5
      <4> QED  BY <1>1, <1>4, <4>1
    <3>3. g \in G => \E i \in placed' : orders'[i].group = g /\ orders'[i].key = k
      BY <1>3, <1>7
    <3>4. (\E i \in placed' : orders'[i].group = g /\ orders'[i].key = k) => g \in G
      <4> HIDE DEF placed, fresh
      <4> QED  BY <1>3, <1>6, <2>1, <3>2
    <3> QED  BY <2>2, <3>1, <3>3, <3>4
  <2>3. CASE j # k
    <3>1. result'[j] = result[j]
      BY <2>3 DEF Committed
    <3>2. (\E i \in placed' : orders'[i].group = g /\ orders'[i].key = j)
             <=> (\E i \in placed : orders[i].group = g /\ orders[i].key = j)
      <4>1. \A i \in fresh : orders'[i].key # j
        BY <1>6, <2>3
      <4> HIDE DEF placed, fresh
      <4> QED  BY <1>3, <2>1, <4>1
    <3> QED  BY <1>4, <3>1, <3>2
  <2> QED  BY <2>2, <2>3
<1>11. Bulk!DraftTellsTheTruth'
  BY CommitTellsTheTruth
<1> QED  BY <1>8, <1>9, <1>10, <1>11 DEF OrdersAnswerable, Bulk!OrdersAnswerable, Bulk!Groups, Groups

LEMMA CommitSpares ==
    ASSUME BulkSafe, NEW k \in Keys, NEW G, Committed(k, G), NEW j \in Keys \ {k}
    PROVE  Untouched(j) /\ OrdersAvoid(j)
<1>1. /\ op[k].at = "checked" /\ op[k].at # "idle" /\ Busy(op[k]) /\ G \subseteq GoodOf(op[k]) /\ G \subseteq Groups
      /\ \A g \in G : g[1] = op[k].draft /\ g \in op[k].wanted
  BY GoodGroups DEF Committed
<1>2. /\ OpOK(j) /\ OpsApart(j, k) /\ DraftType
  BY DEF BulkSafe, AllRight, AllApart
<1>3. ASSUME op[j].at # "idle"
      PROVE  result'[j] = result[j] /\ DraftUntouched(op[j].draft)
  <2>1. op[j].draft # op[k].draft /\ op[j].draft \in Drafts
    BY <1>1, <1>2, <1>3, HeldDraft DEF OpsApart
  <2> QED  BY <1>1, <2>1 DEF Committed, DraftUntouched
<1>4. ASSUME Busy(op[j])
      PROVE  FilesUntouched(op[j].files)
  <2>1. op[j].files \cap op[k].files = {}
    BY <1>1, <1>2, <1>4 DEF OpsApart
  <2>2. \A f \in op[j].files : f \in Files
    BY <1>2, <1>4, HeldFile DEF BulkSafe
  <2> QED  BY <2>1, <2>2 DEF Committed, FilesUntouched
<1>5. Untouched(j)
  BY <1>3, <1>4 DEF Untouched, Committed
<1>6. OrdersAvoid(j)
  <2> SUFFICES ASSUME op[j].at = "checked", NEW h \in GoodOf(op[j])
               PROVE  Avoids(h)
    BY DEF OrdersAvoid
  <2>1. h \in op[j].wanted
    BY <1>2 DEF OpOK
  <2>2. \A g \in G : Bulk!Candidates(g) \cap Bulk!Candidates(h) = {}
    BY <1>1, <1>2, <2>1 DEF OpsApart, NumbersOfAll
  <2>3. \A i \in DOMAIN orders' \ DOMAIN orders : orders'[i].numbers \cap Bulk!Candidates(h) = {}
    BY <2>2 DEF Committed, Ordered, OrderOf
  <2>4. \A i \in DOMAIN orders : orders'[i] = orders[i]
    BY DEF Committed, Ordered
  <2> QED  BY <2>3, <2>4 DEF Avoids
<1> QED  BY <1>5, <1>6

LEMMA CommitSafe ==
    ASSUME BulkSafe, NEW k \in Keys, NEW G, Committed(k, G), DraftType'
    PROVE  BulkSafe'
<1>1. NumbersLiveOnce' /\ OrdersAnswerable'
  BY CommitOrdersOnce, CommitAnswered
<1>2. FilesApart'
  <2>0. \A g \in Groups : group'[g].files = group[g].files /\ Bulk!FilesOf(g)' = Bulk!FilesOf(g)
    BY DEF Committed, Bulk!FilesOf
  <2>1. \A g \in Groups : group'[g].status = "NONE" => group'[g].files = <<>>
    BY <2>0 DEF Committed, BulkSafe, FilesApart
  <2>2. \A g \in Groups : \A f \in Bulk!FilesOf(g)' : file'[f].status # "NONE"
    <3> SUFFICES ASSUME NEW g \in Groups, NEW f \in Bulk!FilesOf(g)
                 PROVE  file'[f].status # "NONE"
      BY <2>0
    <3>1. f \in Files /\ file[f].status # "NONE"
      BY FilesOfGroup DEF BulkSafe, FilesApart
    <3> QED  BY <3>1 DEF Committed
  <2>3. \A d \in Drafts : draft'[d] = "NONE" => Bulk!GroupsOf(d)' = {}
    <3> SUFFICES ASSUME NEW d \in Drafts, draft'[d] = "NONE"
                 PROVE  Bulk!GroupsOf(d)' = {}
      OBVIOUS
    <3>1. draft[op[k].draft] # "NONE"
      BY GoodGroups DEF Committed
    <3>2. d # op[k].draft
      BY <3>1 DEF Committed, Bulk!After
    <3>3. draft[d] = "NONE"
      BY <3>2 DEF Committed
    <3> QED  BY <3>3, CommitTellsTheTruth DEF BulkSafe, FilesApart
  <2> QED  BY <2>0, <2>1, <2>2, <2>3 DEF BulkSafe, FilesApart
<1>3. \A j \in Keys \ {k} : Untouched(j) /\ OrdersAvoid(j)
  BY CommitSpares
<1>4. OpOK(k)' /\ \A j \in Keys \ {k} : OpsApart(j, k)'
  BY DEF Committed, OpOK, OpsApart, Busy
<1>5. AllRight' /\ AllApart'
  BY <1>3, <1>4, OthersStay
<1> QED  BY <1>1, <1>2, <1>5 DEF BulkSafe

-----------------------------------------------------------------------------
(* The promises                                                            *)

LEMMA BulkStarts == ASSUME Bulk!Init PROVE BulkSafe
<1> USE DEF Bulk!Init
<1>1. /\ \A g \in Groups : group[g] = [status |-> "NONE", files |-> <<>>] /\ Bulk!FilesOf(g) = {}
      /\ group \in [Groups -> GroupRow]
  <2>1. group = [g \in Groups |-> [status |-> "NONE", files |-> <<>>]]
    BY DEF Bulk!Groups, Groups
  <2>2. [status |-> "NONE", files |-> <<>>] \in GroupRow
    BY DEF GroupRow
  <2>3. \A g \in Groups : group[g] = [status |-> "NONE", files |-> <<>>]
    BY <2>1
  <2>4. \A g \in Groups : Bulk!FilesOf(g) = {}
    BY <2>3 DEF Bulk!FilesOf, Bulk!ToSet
  <2> QED  BY <2>1, <2>2, <2>3, <2>4
<1>2. DraftType
  <2>1. file \in [Files -> FileRow]
    BY DEF Bulk!NoFile, FileRow
  <2>2. op \in [Keys -> Operation]
    BY DEF Operation
  <2> QED  BY <1>1, <2>1, <2>2 DEF DraftType, DraftStatus
<1>3. \A d : Bulk!GroupsOf(d) = {}
  BY <1>1, GroupsAre
<1>4. FilesApart
  BY <1>1, <1>3 DEF FilesApart
<1>5. DOMAIN orders = {}
  OBVIOUS
<1>6. NumbersLiveOnce
  BY <1>5 DEF NumbersLiveOnce, Bulk!NumbersLiveOnce
<1>7. OrdersAnswerable
  <2>1. Bulk!DraftTellsTheTruth
    BY DEF Bulk!DraftTellsTheTruth
  <2>2. \A g \in Groups : group[g].status # "SUBMITTED"
    BY <1>1
  <2>3. \A k \in Keys : result[k] = None
    OBVIOUS
  <2> QED  BY <1>5, <2>1, <2>2, <2>3 DEF OrdersAnswerable, Bulk!OrdersAnswerable, Bulk!Groups, Groups
<1>8. \A k \in Keys : op[k].at = "idle"
  BY DEF Bulk!Idle
<1>9. AllRight /\ AllApart
  BY <1>8 DEF AllRight, AllApart, OpOK, OpsApart, Busy
<1> QED  BY <1>2, <1>4, <1>6, <1>7, <1>9 DEF BulkSafe

LEMMA BulkStep ==
    ASSUME BulkSafe, [Bulk!Next]_(Bulk!bulkVars)
    PROVE  BulkSafe'
<1>1. ASSUME NEW d \in Drafts, Bulk!CreateDraft(d) \/ Bulk!Discard(d) \/ Bulk!SeeDraft(d) \/ Bulk!Expires(d)
      PROVE  BulkSafe'
  BY <1>1, CreateDraftSafe, DiscardSafe, SeeDraftSafe, ExpiresSafe
<1>2. ASSUME NEW g \in Groups, Bulk!AddGroup(g)
      PROVE  BulkSafe'
  BY <1>2, AddGroupSafe
<1>3. ASSUME NEW g \in Groups, NEW f \in Files, NEW known \in BOOLEAN, Bulk!Upload(g, f, known)
      PROVE  BulkSafe'
  BY <1>3, AddFileSafe
<1>4. ASSUME NEW g \in Groups, NEW f \in Files, Bulk!RemoveFile(g, f) \/ Bulk!RowsChange(g, f)
      PROVE  BulkSafe'
  BY <1>4, RemoveFileSafe, RowsChangeSafe
<1>5. ASSUME NEW k \in Keys, NEW d \in Drafts, NEW G \in SUBSET Groups, Bulk!Load(k, d, G)
      PROVE  BulkSafe'
  BY <1>5, LoadSafe
<1>6. ASSUME NEW k \in Keys, Bulk!Judge(k) \/ Bulk!Check(k) \/ Bulk!Abort(k)
      PROVE  BulkSafe'
  BY <1>6, JudgeSafe, CheckSafe, AbortSafe
<1>7. ASSUME NEW k \in Keys, Bulk!Commit(k)
      PROVE  BulkSafe'
  BY <1>7, CommitEffects, CommitSafe
<1>8. ASSUME NEW g \in Groups, NEW f \in Files, Bulk!SubmitSingle(g, f)
      PROVE  BulkSafe'
  BY <1>8, SingleOfDraftSafe
<1>9. ASSUME NEW i \in DOMAIN orders, Bulk!CancelOrder(i)
      PROVE  BulkSafe'
  BY <1>9, CancelDraftOrderSafe
<1>10. ASSUME UNCHANGED Bulk!bulkVars
       PROVE  BulkSafe'
  <2>1. UNCHANGED <<draft, late, group, file, orders, op, result>>
    BY <1>10 DEF Bulk!bulkVars
  <2>2. DraftType' /\ FilesApart'
    BY <2>1, SameGroups DEF BulkSafe, DraftType, FilesApart
  <2>3. Marks /\ Bulk!DraftTellsTheTruth'
    BY <2>1, SameStatuses DEF BulkSafe
  <2>4. \A k \in Keys : DraftUntouched(op[k].draft) /\ FilesUntouched(op[k].files)
    BY <2>1 DEF DraftUntouched, FilesUntouched
  <2> QED  BY <2>1, <2>2, <2>3, <2>4, QuietStep
<1>11. CASE Bulk!DraftStep
  BY <1>1, <1>2, <1>3, <1>4, <1>11 DEF Bulk!DraftStep, Bulk!Groups, Groups
<1>12. CASE Bulk!SubmitStep
  BY <1>5, <1>6, <1>7, <1>8, <1>9, <1>12 DEF Bulk!SubmitStep, Bulk!Groups, Groups
<1> QED  BY <1>10, <1>11, <1>12 DEF Bulk!Next

LEMMA BulkAlways == Bulk!Spec => []BulkSafe
<1>1. Bulk!Init => BulkSafe
  BY BulkStarts
<1>2. BulkSafe /\ [Bulk!Next]_(Bulk!bulkVars) => BulkSafe'
  BY BulkStep
<1> QED  BY <1>1, <1>2, PTL DEF Bulk!Spec

(* No order of a shop is in two orders that are alive in one store, and two bulk      *)
(* submissions never order it twice at all, whatever drafts, stores, requests,        *)
(* single submissions and cancellations come between their four steps.                *)
THEOREM NumbersAlwaysLiveOnce == Bulk!Spec => []NumbersLiveOnce
<1>1. BulkSafe => NumbersLiveOnce
  BY DEF BulkSafe
<1> QED  BY <1>1, BulkAlways, PTL

(* Every bulk order is in the stored answer of the request that made it and in no     *)
(* other's, a group becomes an order once, and the status of the draft tells which    *)
(* of its groups did, also when requests are repeated, rolled back or overlap.        *)
THEOREM OrdersAlwaysAnswerable == Bulk!Spec => []OrdersAnswerable
<1>1. BulkSafe => OrdersAnswerable
  BY DEF BulkSafe
<1> QED  BY <1>1, BulkAlways, PTL

(* A bulk order is made only of a group that the page calls submittable at that very  *)
(* moment, but for expiry: what was judged three steps ago is still so.               *)
LEMMA OrderedWasSubmittable ==
    ASSUME BulkSafe, NEW k \in Keys, Bulk!Commit(k), NEW i \in DOMAIN orders' \ DOMAIN orders
    PROVE  late[orders'[i].group[1]] \/ Bulk!Submittable(orders'[i].group)
<1>1. PICK G : Committed(k, G)
  BY CommitEffects
<1>2. op[k].at = "checked" /\ G \subseteq GoodOf(op[k]) /\ Ordered(k, G)
  BY <1>1 DEF Committed
<1>3. PICK g \in G : orders'[i] = OrderOf(k, g)
  BY <1>2 DEF Ordered
<1>4. orders'[i].group = g
  BY <1>3 DEF OrderOf
<1>5. StillGood(g) /\ NotOrdered(g)
  BY <1>2, GoodGroups
<1>6. ~(Bulk!Candidates(g) \subseteq Bulk!OwnOrders(g))
  <2>1. \A x \in Bulk!Alive : x.store = g[2] => x.numbers \cap Bulk!Candidates(g) = {}
    BY <1>5 DEF NotOrdered, Bulk!Alive
  <2>2. Bulk!Candidates(g) \cap Bulk!OwnOrders(g) = {}
    BY <2>1 DEF Bulk!OwnOrders
  <2> QED  BY <1>5, <2>2 DEF StillGood
<1>7. ~late[g[1]] => Bulk!PageStatus(g) = "SUBMITTABLE"
  BY <1>5, <1>6 DEF StillGood, Bulk!PageStatus
<1> QED  BY <1>4, <1>7 DEF Bulk!Submittable

LEMMA SinglesAreSingle ==
    ASSUME BulkSafe, NEW g \in Groups, NEW f \in Files, Bulk!SubmitSingle(g, f),
           NEW i \in DOMAIN orders' \ DOMAIN orders
    PROVE  orders'[i].by = "single"
<1> DEFINE e == [by |-> "single", key |-> None, group |-> g, store |-> g[2],
                 numbers |-> (Numbers[f] \ file[f].old) \ Bulk!OwnOrders(g), alive |-> TRUE]
<1>1. orders' = orders \/ orders' = Append(orders, e)
  BY DEF Bulk!SubmitSingle
<1>2. e.by = "single"
  OBVIOUS
<1>3. orders \in Seq(OrderRow)
  BY DEF BulkSafe, DraftType
<1> HIDE DEF e
<1>4. orders' = Append(orders, e)
  BY <1>1
<1>5. i = Len(orders) + 1
  BY <1>3, <1>4
<1>6. orders'[i] = e
  BY <1>3, <1>4, <1>5
<1> QED  BY <1>2, <1>6

(* The validation and the submission agree: no bulk order of a group that the page    *)
(* would not have called submittable.                                                 *)
THEOREM OnlySubmittableAreOrdered == Bulk!Spec => OnlySubmittableOrdered
<1> DEFINE A1 == \A i \in DOMAIN orders' \ DOMAIN orders :
                   LET g == orders'[i].group
                   IN orders'[i].by = "bulk" => late[g[1]] \/ Bulk!Submittable(g)
<1>1. ASSUME BulkSafe, Bulk!Next
      PROVE  A1
  <2> SUFFICES ASSUME NEW i \in DOMAIN orders' \ DOMAIN orders, orders'[i].by = "bulk"
               PROVE  late[orders'[i].group[1]] \/ Bulk!Submittable(orders'[i].group)
    OBVIOUS
  <2>1. CASE \E k \in Keys : Bulk!Commit(k)
    BY <1>1, <2>1, OrderedWasSubmittable
  <2>2. CASE UNCHANGED orders
    BY <2>2
  <2>3. CASE \E g \in Groups, f \in Files : Bulk!SubmitSingle(g, f)
    BY <1>1, <2>3, SinglesAreSingle
  <2>4. CASE \E m \in DOMAIN orders : Bulk!CancelOrder(m)
    <3>1. DOMAIN orders' = DOMAIN orders
      BY <2>4 DEF Bulk!CancelOrder
    <3> QED  BY <3>1
  <2>5. CASE Bulk!DraftStep
    <3>1. UNCHANGED orders
      BY <2>5 DEF Bulk!DraftStep, Bulk!CreateDraft, Bulk!Discard, Bulk!SeeDraft, Bulk!Expires, Bulk!AddGroup,
                  Bulk!Upload, Bulk!RemoveFile, Bulk!RowsChange
    <3> QED  BY <3>1
  <2>6. CASE Bulk!SubmitStep
    <3>1. ASSUME NEW k \in Keys, Bulk!Judge(k) \/ Bulk!Check(k) \/ Bulk!Abort(k)
          PROVE  UNCHANGED orders
      BY <3>1 DEF Bulk!Judge, Bulk!Check, Bulk!Abort
    <3>2. ASSUME NEW k \in Keys, NEW d \in Drafts, NEW G \in SUBSET Groups, Bulk!Load(k, d, G)
          PROVE  UNCHANGED orders
      BY <3>2 DEF Bulk!Load
    <3> QED  BY <2>1, <2>2, <2>3, <2>4, <2>6, <3>1, <3>2 DEF Bulk!SubmitStep, Bulk!Groups, Groups
  <2> QED  BY <1>1, <2>5, <2>6 DEF Bulk!Next
<1>2. BulkSafe /\ [Bulk!Next]_(Bulk!bulkVars) => [A1]_(Bulk!bulkVars)
  BY <1>1
<1> QED  BY <1>2, BulkAlways, PTL DEF OnlySubmittableOrdered, Bulk!OnlySubmittableOrdered, Bulk!Spec
=============================================================================
