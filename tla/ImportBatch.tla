---------------------------- MODULE ImportBatch ----------------------------
(***************************************************************************)
(* Uploaded order files of one store: the preview of their rows, the edits *)
(* of the customer, the suggestions of the language model and the          *)
(* submission of a preview as an order                                     *)
(* (src/modules/order-import, ai-sku-matching, orders/submission.ts).      *)
(*                                                                         *)
(* A transaction that holds its batch FOR UPDATE, and locks the rows, SKUs *)
(* and balances it reads, is one action. Suggestions are made without a    *)
(* lock on the batch and take several.                                     *)
(***************************************************************************)
EXTENDS Naturals, FiniteSets, Sequences, SequencesExt, FiniteSetsExt

CONSTANTS Batches,      \* the files
          Rows, RowNo, FileOf,  \* their rows, in order, and the file of each
          Key, Pack,    \* a row's sub-order number and its order number
          Lookup, Quantity,  \* a row's SKU code with its shorter forms, and its pieces
          Skus, Codes, Catalog,  \* Catalog[c]: the SKU of code c, or NoSku
          Sessions,     \* requests for suggestions
          NoSku, Own, NoTab, NoOne,
          Quantities, MaxItems, MaxRevision, MaxRuns, MaxStock

VARIABLES batch,    \* order_import_batches.status, or "NONE" before the upload
          expired,  \* expires_at has passed
          row,      \* order_import_rows with their additional items
          count,    \* the counters in order_import_batches
          alias,    \* sku_aliases of the store
          stock,    \* what is not reserved of a SKU
          usable,   \* ACTIVE, SELLABLE, not archived and priced
          live,     \* rows with lines and packages that are deduplication_active
          tab,      \* a row as a slow browser tab shows it
          run,      \* requests for suggestions and where they are
          aiLock,   \* the advisory lock of the customer
          recent,   \* ai_sku_match_runs within the rate limit's window
          pending   \* ai_sku_match_suggestions that are PENDING

vars == <<batch, expired, row, count, alias, stock, usable, live, tab, run, aiLock, recent, pending>>
files == <<batch, expired, row, count>>
goods == <<alias, stock, usable, live>>
ai == <<run, aiLock, recent, pending>>

RowsOf(b) == {r \in Rows : FileOf[r] = b}
Statuses == {"READY", "UNKNOWN_SKU", "DUPLICATE", "INVALID"}
Idle == [at |-> "idle"]

TypeOK ==
    /\ batch \in [Batches -> {"NONE", "PREVIEW", "SUBMITTED", "EXPIRED"}]
    /\ expired \in [Batches -> BOOLEAN]
    /\ \A r \in Rows : /\ row[r].status \in Statuses
                       /\ row[r].code \in {"", "SKU_UNAVAILABLE", "INSUFFICIENT_STOCK"}
                       /\ row[r].sku \in Skus \cup {NoSku, Own}
                       /\ row[r].items \in Seq(Skus \cup {Own})
                       /\ Len(row[r].items) <= MaxItems
                       /\ row[r].qty \in Nat /\ row[r].rev \in 0 .. MaxRevision
    /\ count \in [Batches -> [Statuses -> 0 .. Cardinality(Rows)]]
    /\ alias \in [Codes -> Skus \cup {NoSku}]
    /\ stock \in [Skus -> Nat] /\ usable \in [Skus -> BOOLEAN]
    /\ live \subseteq Rows
    /\ aiLock \in Sessions \cup {NoOne} /\ recent \in Nat

Init ==
    /\ batch = [b \in Batches |-> "NONE"]
    /\ expired = [b \in Batches |-> FALSE]
    /\ row = [r \in Rows |-> [status |-> "INVALID", code |-> "", sku |-> NoSku,
                              items |-> <<>>, qty |-> Quantity[r], rev |-> 0]]
    /\ count = [b \in Batches |-> [s \in Statuses |-> 0]]
    /\ alias = [c \in Codes |-> NoSku]
    /\ stock = [s \in Skus |-> MaxStock]
    /\ usable = [s \in Skus |-> TRUE]
    /\ live = {} /\ tab = NoTab
    /\ run = [g \in Sessions |-> Idle] /\ aiLock = NoOne /\ recent = 0 /\ pending = {}

-----------------------------------------------------------------------------
(* Which SKU a code stands for                                             *)

\* The mapping of the store comes before the catalogue.
Candidate(c) == IF alias[c] # NoSku THEN alias[c] ELSE Catalog[c]

\* The first form of the code that is known decides, even when its SKU is unavailable.
Known(r) == {i \in 1 .. Len(Lookup[r]) : Candidate(Lookup[r][i]) # NoSku}
First(r) == Candidate(Lookup[r][Min(Known(r))])
Resolve(r) ==
    IF Lookup[r] = <<>> THEN Own
    ELSE IF Known(r) # {} /\ usable[First(r)] THEN First(r) ELSE NoSku

-----------------------------------------------------------------------------
(* revalidateBatchInventory: stock and SKUs of a batch's rows rs            *)

Occurrences(seq, s) == Cardinality({i \in 1 .. Len(seq) : seq[i] = s})
Wants(x, s) ==
    IF x.status \in {"DUPLICATE", "INVALID"} THEN 0
    ELSE Occurrences(x.items, s) + (IF x.sku = s THEN x.qty ELSE 0)
\* The sum of the numbers of pieces want[r].
Amount(want) == Cardinality(UNION {{r} \X (1 .. want[r]) : r \in DOMAIN want})
Needed(rs, R, s) == Amount([r \in R |-> Wants(rs[r], s)])
Demand(rs, b, s) == Needed(rs, RowsOf(b), s)
Demanded(rs, b) == {s \in Skus : Demand(rs, b, s) > 0}
Unavailable(rs, b) == {s \in Demanded(rs, b) : ~usable[s]}
Short(rs, b) == {s \in Demanded(rs, b) : usable[s] /\ stock[s] < Demand(rs, b, s)}
Uses(x, S) == \E s \in S : Wants(x, s) > 0

JudgeKeepsCode(rs, b, x) ==
    IF Uses(x, Unavailable(rs, b))
    THEN [x EXCEPT !.status = "UNKNOWN_SKU", !.code = "SKU_UNAVAILABLE",
                   !.sku = IF @ \in Unavailable(rs, b) THEN NoSku ELSE @]
    ELSE IF Uses(x, Short(rs, b))
    THEN [x EXCEPT !.status = "UNKNOWN_SKU", !.code = "INSUFFICIENT_STOCK"]
    ELSE IF x.code # ""
    THEN [x EXCEPT !.status = "READY", !.code = ""]
    ELSE x
Judge(rs, b, x) ==
    IF Uses(x, Unavailable(rs, b))
    THEN [x EXCEPT !.status = "UNKNOWN_SKU", !.code = "SKU_UNAVAILABLE",
                   !.sku = IF @ \in Unavailable(rs, b) THEN NoSku ELSE @]
    ELSE IF Uses(x, Short(rs, b))
    THEN [x EXCEPT !.status = "UNKNOWN_SKU", !.code = "INSUFFICIENT_STOCK"]
    ELSE IF x.code # ""
    THEN [x EXCEPT !.status = IF x.sku # NoSku THEN "READY" ELSE "UNKNOWN_SKU", !.code = ""]
    ELSE x

Validated(rs, bs) ==
    [r \in Rows |-> IF FileOf[r] \in bs THEN Judge(rs, FileOf[r], rs[r]) ELSE rs[r]]
Tally(rs, b) == [s \in Statuses |-> Cardinality({r \in RowsOf(b) : rs[r].status = s})]

Revalidate(rs, bs) ==
    /\ row' = Validated(rs, bs)
    /\ count' = [b \in Batches |-> IF b \in bs THEN Tally(row', b) ELSE count[b]]

-----------------------------------------------------------------------------
(* Upload of a file and additions to the catalogue                          *)

Earlier(r, bad) == {x \in RowsOf(FileOf[r]) \ bad : RowNo[x] < RowNo[r]}
Repeated(r, bad) ==
    \/ \E x \in live : Pack[x] = Pack[r]
    \/ \E x \in live \cup Earlier(r, bad) : Key[x] = Key[r]

Classified(r, bad) ==
    IF r \in bad THEN row[r]
    ELSE IF Repeated(r, bad) THEN [row[r] EXCEPT !.status = "DUPLICATE"]
    ELSE [row[r] EXCEPT !.sku = Resolve(r),
                        !.status = IF Resolve(r) = NoSku THEN "UNKNOWN_SKU" ELSE "READY"]

\* bad: the rows with a value that cannot be used
Upload(b, bad) ==
    /\ batch[b] = "NONE"
    /\ batch' = [batch EXCEPT ![b] = "PREVIEW"]
    /\ Revalidate([r \in Rows |-> IF FileOf[r] = b THEN Classified(r, bad) ELSE row[r]], {b})
    /\ UNCHANGED <<expired, goods, tab, ai>>

\* Rows of open previews that the new mapping may resolve.
Mapped(c) ==
    {r \in Rows : /\ batch[FileOf[r]] = "PREVIEW" /\ ~expired[FileOf[r]]
                  /\ row[r].status = "UNKNOWN_SKU" /\ row[r].sku = NoSku
                  /\ \E i \in 1 .. Len(Lookup[r]) : Lookup[r][i] = c}

\* createSkuAliasAction; resolutions are those after the insertion.
Resolving(c, s) ==
    {r \in Mapped(c) : usable[s] /\ Known(r)' # {} /\ usable[First(r)']}

CreateAlias(c, s) ==
    /\ alias[c] = NoSku
    /\ alias' = [alias EXCEPT ![c] = s]
    /\ \A r \in Mapped(c) : row[r].rev < MaxRevision
    /\ LET R == Resolving(c, s)
       IN Revalidate([r \in Rows |->
                       IF r \in R
                       THEN [row[r] EXCEPT !.sku = First(r)', !.qty = Quantity[r], !.code = "",
                                           !.status = "READY", !.rev = @ + 1]
                       ELSE row[r]], {FileOf[r] : r \in R})
    /\ UNCHANGED <<batch, expired, stock, usable, live, tab, ai>>

-----------------------------------------------------------------------------
(* Edits of a row. The request names the revision that its page showed.     *)

\* The row as a tab shows it, or as a page that was loaded just now does.
Shown(r, slow) == IF slow THEN tab.was ELSE row[r]
CloseTab(slow) == tab' = IF slow THEN NoTab ELSE tab

CurrentUnchecked(r, slow) == TRUE
Current(r, slow) == row[r].rev = Shown(r, slow).rev
Editable(r, slow) ==
    /\ slow => tab # NoTab /\ tab.id = r
    /\ batch[FileOf[r]] = "PREVIEW" /\ ~expired[FileOf[r]]
    /\ Current(r, slow) /\ row[r].rev < MaxRevision
    /\ row[r].status \notin {"DUPLICATE", "INVALID"}

StoreSameRevision(r, x) == Revalidate([row EXCEPT ![r] = x], {FileOf[r]})
Store(r, x) == Revalidate([row EXCEPT ![r] = [x EXCEPT !.rev = @ + 1]], {FileOf[r]})

\* The SKU entered by the customer, or the one the row has.
Entered(r, s) ==
    \/ s = row[r].sku /\ s # NoSku
    \/ s \in Skus /\ usable[s]
    \/ s = Own

Overridden(r, s, q) == [row[r] EXCEPT !.sku = s, !.qty = q, !.code = "", !.status = "READY"]

\* updateCustomerImportRowOverride without a suggestion
Override(r, s, q, slow) ==
    /\ Editable(r, slow) /\ Entered(r, s)
    /\ IF row[r].sku = s /\ row[r].qty = q
       THEN Revalidate(row, {FileOf[r]})
       ELSE Store(r, Overridden(r, s, q))
    /\ CloseTab(slow)
    /\ UNCHANGED <<batch, expired, goods, ai>>

ItemChanges(seq, s) ==
    (IF Len(seq) < MaxItems THEN {Append(seq, s)} ELSE {})
        \cup {ReplaceAt(seq, i, s) : i \in 1 .. Len(seq)}
        \cup {RemoveAt(seq, i) : i \in 1 .. Len(seq)}

\* mutateCustomerImportRowFulfillmentItem
ChangeItems(r, s, slow) ==
    /\ Editable(r, slow) /\ (s # Own => usable[s])
    /\ \E seq \in ItemChanges(row[r].items, s) :
          Store(r, IF row[r].sku # NoSku
                   THEN [row[r] EXCEPT !.items = seq, !.code = "", !.status = "READY"]
                   ELSE [row[r] EXCEPT !.items = seq])
    /\ CloseTab(slow)
    /\ UNCHANGED <<batch, expired, goods, ai>>

\* An edit or a submission that finds an expired preview records that.
FindExpired(b) ==
    /\ batch[b] = "PREVIEW" /\ expired[b]
    /\ batch' = [batch EXCEPT ![b] = "EXPIRED"]
    /\ UNCHANGED <<expired, row, count, goods, tab, ai>>

OpenTab(r) ==
    /\ tab = NoTab /\ batch[FileOf[r]] = "PREVIEW"
    /\ tab' = [id |-> r, was |-> row[r]]
    /\ UNCHANGED <<files, goods, ai>>

-----------------------------------------------------------------------------
(* Submission                                                               *)

\* The numbers are looked up after the locks on them are held.
TakenByKey(r) == \E x \in live : Key[x] = Key[r]
Taken(r) == \E x \in live : Key[x] = Key[r] \/ Pack[x] = Pack[r]

\* The validation holds the SKUs FOR SHARE and their balances: they are still on sale here.
Reserve(rs, R) == stock' = [s \in Skus |-> stock[s] - Needed(rs, R, s)]

Order(b, rs, R) ==
    /\ batch' = [batch EXCEPT ![b] = "SUBMITTED"]
    /\ live' = live \cup R
    /\ Reserve(rs, R)

\* The validation finds something: that is stored, and the submission refused.
SubmitInvalid(b) ==
    /\ batch[b] = "PREVIEW" /\ ~expired[b]
    /\ Unavailable(row, b) \cup Short(row, b) # {}
    /\ Revalidate(row, {b})
    /\ UNCHANGED <<batch, expired, goods, tab, ai>>

\* submitTemuImportBatch: rows that another order has by now are left out, and
\* the others, if any, become an order and take their stock.
Submit(b) ==
    LET rs == Validated(row, {b})
        ready == {r \in RowsOf(b) : rs[r].status = "READY"}
        again == {r \in ready : Taken(r)}
        double == Cardinality({Key[r] : r \in again})
    IN /\ batch[b] = "PREVIEW" /\ ~expired[b]
       /\ Unavailable(row, b) \cup Short(row, b) = {}
       /\ \A r \in RowsOf(b) : rs[r].status \notin {"UNKNOWN_SKU", "INVALID"}
       /\ row' = [r \in Rows |-> IF r \in again THEN [rs[r] EXCEPT !.status = "DUPLICATE"] ELSE rs[r]]
       /\ count' = [count EXCEPT ![b] = [Tally(rs, b) EXCEPT !["DUPLICATE"] = @ + double,
                                                             !["READY"] = @ - double]]
       /\ IF ready \subseteq again
          THEN UNCHANGED <<batch, live, stock>>
          ELSE Order(b, rs, ready \ again)
       /\ UNCHANGED <<expired, alias, usable, tab, ai>>

\* The order ends unshipped: its numbers and its goods are free again.
CancelOrder(b) ==
    LET R == live \cap RowsOf(b)
    IN /\ R # {}
       /\ live' = live \ R
       /\ stock' = [s \in Skus |-> stock[s] + Needed(row, R, s)]
       /\ UNCHANGED <<files, alias, usable, tab, ai>>

-----------------------------------------------------------------------------
(* Suggestions. Only their creation is serialised, by the customer's lock.  *)

\* What is left of a SKU for rows that are not ready.
Free(b, s) ==
    stock[s] - Amount([r \in {r \in RowsOf(b) : row[r].status = "READY" /\ row[r].sku = s}
                          |-> row[r].qty])
Suitable(b, q) == {s \in Skus : usable[s] /\ Free(b, s) >= q}

Unmatched(b) == {r \in RowsOf(b) : row[r].status = "UNKNOWN_SKU" /\ row[r].sku # Own}
Suggested(r) == \E x \in pending : x.row = r /\ x.rev = row[r].rev

\* prepareGeneration up to the count of the recent runs
TakeLock(g, b) ==
    /\ run[g] = Idle /\ aiLock = NoOne
    /\ batch[b] = "PREVIEW" /\ ~expired[b]
    /\ LET R == {r \in Unmatched(b) : ~Suggested(r) /\ Suitable(b, row[r].qty) # {}}
       IN /\ R # {}
          /\ run' = [run EXCEPT ![g] =
                [at |-> "preparing", batch |-> b, recent |-> recent,
                 ask |-> [r \in R |-> [rev |-> row[r].rev, qty |-> row[r].qty,
                                       skus |-> Suitable(b, row[r].qty)]]]]
    /\ aiLock' = g
    /\ UNCHANGED <<files, goods, tab, recent, pending>>

\* prepareGeneration to its end: the run is inserted, or the limit is reached.
StartRun(g) ==
    /\ run[g].at = "preparing"
    /\ IF run[g].recent < MaxRuns
       THEN /\ recent' = recent + 1
            /\ run' = [run EXCEPT ![g] = [at |-> "calling", batch |-> run[g].batch, ask |-> run[g].ask]]
       ELSE /\ run' = [run EXCEPT ![g] = Idle]
            /\ UNCHANGED recent
    /\ aiLock' = IF aiLock = g THEN NoOne ELSE aiLock
    /\ UNCHANGED <<files, goods, tab, pending>>

\* The rows of a run that are as they were when it was prepared.
StillCurrent(g) ==
    {r \in DOMAIN run[g].ask : r \in Unmatched(run[g].batch) /\ row[r].rev = run[g].ask[r].rev}

\* The model answers for some rows; the batch, the rows and the candidates are
\* read again, without locks.
Answer(g) ==
    /\ run[g].at = "calling"
    /\ LET b == run[g].batch
           Good(r) == run[g].ask[r].skus \cap Suitable(b, run[g].ask[r].qty)
       IN IF batch[b] # "PREVIEW" \/ expired[b]
          THEN run' = [run EXCEPT ![g] = Idle]
          ELSE \E R \in SUBSET {r \in StillCurrent(g) : Good(r) # {}} :
                  run' = [run EXCEPT ![g] = [at |-> "answered", new |->
                     {[row |-> r, rev |-> run[g].ask[r].rev, qty |-> run[g].ask[r].qty,
                       skus |-> Good(r)] : r \in R}]]
    /\ UNCHANGED <<files, goods, tab, aiLock, recent, pending>>

\* A unique index allows one pending suggestion per revision of a row.
Insert(g) ==
    /\ run[g].at = "answered"
    /\ pending' = pending \cup {x \in run[g].new : ~\E y \in pending : y.row = x.row /\ y.rev = x.rev}
    /\ run' = [run EXCEPT ![g] = Idle]
    /\ UNCHANGED <<files, goods, tab, aiLock, recent>>

\* The provider fails, or the process dies: a transaction is rolled back, and a
\* run that was inserted still counts.
Lose(g) ==
    /\ run[g] # Idle
    /\ run' = [run EXCEPT ![g] = Idle]
    /\ aiLock' = IF aiLock = g THEN NoOne ELSE aiLock
    /\ UNCHANGED <<files, goods, tab, recent, pending>>

WindowPasses ==
    /\ recent # 0 /\ \A g \in Sessions : run[g].at # "preparing"
    /\ recent' = 0
    /\ UNCHANGED <<files, goods, tab, run, aiLock, pending>>

\* updateCustomerImportRowOverride with a suggestion: refused as a whole when the
\* stock has changed.
Accept(r, x, s, slow) ==
    /\ Editable(r, slow) /\ x \in pending
    /\ x.row = r /\ x.rev = row[r].rev /\ s \in x.skus /\ usable[s]
    /\ row[r].status = "UNKNOWN_SKU"
    /\ LET new == [row EXCEPT ![r] = Overridden(r, s, x.qty)]
       IN s \notin Short(new, FileOf[r])
    /\ Store(r, Overridden(r, s, x.qty))
    /\ pending' = pending \ {x}
    /\ CloseTab(slow)
    /\ UNCHANGED <<batch, expired, goods, run, aiLock, recent>>

\* rejectAiSkuMatchSuggestion: REJECTED, or STALE when the row has changed.
Reject(x) ==
    /\ pending' = pending \ {x}
    /\ UNCHANGED <<files, goods, tab, run, aiLock, recent>>

-----------------------------------------------------------------------------
(* The surroundings: time, other orders and the catalogue                   *)

Expire(b) ==
    /\ batch[b] = "PREVIEW" /\ ~expired[b]
    /\ expired' = [expired EXCEPT ![b] = TRUE]
    /\ UNCHANGED <<batch, row, count, goods, tab, ai>>

StockMoves(s) ==
    /\ stock' = [stock EXCEPT ![s] = IF @ = 0 THEN MaxStock ELSE 0]
    /\ live = {}
    /\ UNCHANGED <<files, alias, usable, live, tab, ai>>

SkuChanges(s) ==
    /\ usable' = [usable EXCEPT ![s] = ~@]
    /\ UNCHANGED <<files, alias, stock, live, tab, ai>>

FileStep ==
    \E b \in Batches : \/ \E bad \in SUBSET RowsOf(b) : Upload(b, bad)
                       \/ FindExpired(b) \/ SubmitInvalid(b) \/ Submit(b)
                       \/ CancelOrder(b) \/ Expire(b)
RowStep ==
    \E r \in Rows, slow \in BOOLEAN :
        \/ \E s \in Skus \cup {Own}, q \in Quantities : Override(r, s, q, slow)
        \/ \E s \in Skus \cup {Own} : ChangeItems(r, s, slow)
        \/ \E x \in pending, s \in Skus : Accept(r, x, s, slow)
        \/ OpenTab(r)
SuggestionStep ==
    \/ \E g \in Sessions : \/ \E b \in Batches : TakeLock(g, b)
                           \/ StartRun(g) \/ Answer(g) \/ Insert(g) \/ Lose(g)
    \/ \E x \in pending : Reject(x)
    \/ WindowPasses
CatalogStep ==
    \/ \E c \in Codes, s \in Skus : CreateAlias(c, s)
    \/ \E s \in Skus : StockMoves(s) \/ SkuChanges(s)

Next == FileStep \/ RowStep \/ SuggestionStep \/ CatalogStep
Spec == Init /\ [][Next]_vars

-----------------------------------------------------------------------------
(* Properties                                                               *)

\* A preview shows the customer what its rows are: the counters that every path
\* keeps separately (validation, edits, mappings, duplicates at submission) agree
\* with the rows, a row that is ready has goods, and one that waits for goods says so.
PreviewsAddUp ==
    /\ TypeOK
    /\ \A b \in Batches : batch[b] # "NONE" => count[b] = Tally(row, b)
    /\ \A r \in Rows : row[r].status = "READY" => row[r].sku # NoSku /\ row[r].code = ""
    /\ \A r \in Rows : row[r].code # "" => row[r].status = "UNKNOWN_SKU"

\* No two orders that are alive ship the same order of the shop, although their
\* files were checked against each other at upload, when neither was an order.
OneOrderPerNumber ==
    \A x, y \in live : x # y => Key[x] # Key[y] /\ (Pack[x] = Pack[y] => FileOf[x] = FileOf[y])

\* A slow tab never overwrites an entry it did not show: what the customer, a
\* suggestion or a mapping entered meanwhile has another revision. (The validation
\* may have taken a SKU off the row; the tab's edit then names another.)
NoLostEdit ==
    [][tab # NoTab /\ tab' = NoTab =>
          LET now == row[tab.id]
          IN /\ now.qty = tab.was.qty /\ now.items = tab.was.items
             /\ now.sku \in {tab.was.sku, NoSku}]_vars

\* A suggestion that can still be accepted was checked for the number of pieces
\* the row has now, and the rate limit holds although requests overlap.
SuggestionsFit ==
    /\ \A x \in pending : x.rev = row[x.row].rev => x.qty = row[x.row].qty
    /\ recent <= MaxRuns
=============================================================================
