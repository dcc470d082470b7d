-------------------------------- MODULE Catalog --------------------------------
(***************************************************************************)
(* Products and SKUs under the hands of administrators                     *)
(* (src/modules/catalog/sku-management-service.ts). A code TZX-<n>-...     *)
(* belongs to the product with sequence n; no constraint of the database   *)
(* says so, only the checks of the service under its row locks.            *)
(*                                                                         *)
(* A transaction locks its rows in two waits, checks what it may do after  *)
(* the second, and writes in one action. Rows that were locked first are   *)
(* SKUs, but for changes of a product, which lock the product first.       *)
(***************************************************************************)
EXTENDS FiniteSets, Naturals

CONSTANTS Admins, Skus, Products, Sequences, Nobody, None, Free

VARIABLES product,   \* the product of a SKU, None while the SKU does not exist
          code,      \* the sequence in the code of a SKU, Free when it has none
          archived, priced, sellable, \* sets of SKUs
          sequence,  \* of a product, None while it does not exist
          txn,       \* the open transaction of an administrator
          owner      \* the transaction that has locked a row

marks == <<archived, priced, sellable>>
catalogVars == <<product, code, marks, sequence, txn, owner>>

Rows == Skus \cup Products
Codes == Sequences \cup {Free}
NoTxn == [op |-> "none"]
In(p) == {s \in Skus : product[s] = p}
\* assertSkuMatchesSequence
Matches(c, n) == c \in {Free, n}

Init ==
    /\ product = [s \in Skus |-> None] /\ code = [s \in Skus |-> Free]
    /\ archived = {} /\ priced = {} /\ sellable = {}
    /\ sequence = [p \in Products |-> None]
    /\ txn = [a \in Admins |-> NoTxn] /\ owner = [r \in Rows |-> Nobody]

FreeRows(rows) == \A r \in rows : owner[r] = Nobody
Open(a, op, rows, input) ==
    /\ txn[a] = NoTxn /\ FreeRows(rows)
    /\ txn' = [txn EXCEPT ![a] = [op |-> op, held |-> rows, input |-> input, ready |-> FALSE]]
    /\ owner' = [r \in Rows |-> IF r \in rows THEN a ELSE owner[r]]
    /\ UNCHANGED <<product, code, marks, sequence>>
\* The second wait is over; the locks go with the commit, or with the error.
Close(a) ==
    /\ txn' = [txn EXCEPT ![a] = NoTxn]
    /\ owner' = [r \in Rows |-> IF owner[r] = a THEN Nobody ELSE owner[r]]
\* The rows that a transaction locks in its second wait, seen under its first lock.
Needs(t) == CASE t.op = "product" -> In(t.input.product)
              [] t.op = "create"  -> {}
              [] t.op = "move"    -> {t.input.product}
              [] OTHER            -> {product[s] : s \in t.held}
Unlocked(rows) == TRUE
Locked(rows) == \A r \in rows : owner[r] = Nobody
Alive(s) == product[s] # None /\ s \notin archived
Existing(p) == p # None /\ sequence[p] # None

\* What the transaction checks under all its locks, before it writes.
Verdict(t) ==
    CASE t.op = "create"  -> product[t.input.sku] = None /\ Matches(t.input.code, sequence[t.input.product])
      [] t.op = "product" -> /\ \A s \in In(t.input.product) : Matches(code[s], t.input.sequence)
                             /\ \A q \in Products \ {t.input.product} : sequence[q] # t.input.sequence
      [] t.op = "sku"     -> \A s \in t.held : Matches(t.input.code, sequence[product[s]])
      [] t.op = "move"    -> /\ Existing(t.input.product)
                             /\ \A s \in t.held : Matches(code[s], sequence[t.input.product])
      [] t.op = "restore" -> \A s \in t.held : s \in priced /\ Matches(code[s], sequence[product[s]])
      [] t.op = "delete"  -> TRUE
SecondWait(a) ==
    /\ txn[a] # NoTxn /\ ~txn[a].ready /\ Locked(Needs(txn[a]))
    /\ IF Verdict(txn[a])
       THEN /\ txn' = [txn EXCEPT ![a].ready = TRUE]
            /\ owner' = [r \in Rows |-> IF r \in Needs(txn[a]) THEN a ELSE owner[r]]
       ELSE Close(a)
    /\ UNCHANGED <<product, code, marks, sequence>>
Granted(a, op) == txn[a].op = op /\ txn[a].ready

-----------------------------------------------------------------------------
(* Products                                                                 *)

\* createManagedSku with a product of its own: nothing to lock.
CreateBoth(s, p, c, n) ==
    /\ product[s] = None /\ sequence[p] = None /\ owner[p] = Nobody
    /\ \A q \in Products : sequence[q] # n
    /\ Matches(c, n)
    /\ product' = [product EXCEPT ![s] = p] /\ code' = [code EXCEPT ![s] = c]
    /\ sequence' = [sequence EXCEPT ![p] = n]
    /\ priced' = priced \cup {s} /\ sellable' = sellable \cup {s}
    /\ UNCHANGED <<archived, txn, owner>>

OpenCreate(a, s, p, c) == Existing(p) /\ Open(a, "create", {p}, [sku |-> s, product |-> p, code |-> c])
Create(a) ==
    /\ Granted(a, "create")
    /\ LET t == txn[a].input IN
       IF product[t.sku] = None   \* else the code is taken by now
       THEN /\ product' = [product EXCEPT ![t.sku] = t.product] /\ code' = [code EXCEPT ![t.sku] = t.code]
            /\ priced' = priced \cup {t.sku} /\ sellable' = sellable \cup {t.sku}
       ELSE UNCHANGED <<product, code, priced, sellable>>
    /\ Close(a) /\ UNCHANGED <<archived, sequence>>

\* updateManagedProduct
OpenProduct(a, p, n) == Existing(p) /\ Open(a, "product", {p}, [product |-> p, sequence |-> n])
UpdateProduct(a) ==
    /\ Granted(a, "product")
    /\ LET t == txn[a].input IN
       sequence' = IF \A q \in Products \ {t.product} : sequence[q] # t.sequence   \* the unique index
                   THEN [sequence EXCEPT ![t.product] = t.sequence] ELSE sequence
    /\ Close(a) /\ UNCHANGED <<product, code, marks>>

-----------------------------------------------------------------------------
(* SKUs                                                                     *)

\* A SKU is locked although it was archived; the batch stops there.
OpenSku(a, s, c) == Alive(s) /\ Open(a, "sku", {s}, [code |-> c])
UpdateSku(a) ==
    /\ Granted(a, "sku")
    /\ \E s \in txn[a].held :
          /\ code' = [code EXCEPT ![s] = txn[a].input.code]
          /\ priced' = priced \cup {s}
          /\ \E put \in {sellable \cup {s}, sellable \ {s}} : sellable' = put
    /\ Close(a) /\ UNCHANGED <<product, archived, sequence>>

\* batchManageSkus, MOVE
OpenMove(a, rows, p) ==
    /\ \A s \in rows : Alive(s)
    /\ Open(a, "move", rows, [product |-> p])
Move(a) ==
    /\ Granted(a, "move")
    /\ product' = [s \in Skus |-> IF s \in txn[a].held THEN txn[a].input.product ELSE product[s]]
    /\ Close(a) /\ UNCHANGED <<code, marks, sequence>>

\* batchManageSkus, SET_STATUS: one wait.
SetStatus(rows, on) ==
    /\ FreeRows(rows) /\ \A s \in rows : Alive(s)
    /\ on => rows \subseteq priced
    /\ sellable' = IF on THEN sellable \cup rows ELSE sellable \ rows
    /\ UNCHANGED <<product, code, archived, priced, sequence, txn, owner>>

\* deleteManagedSku, and the batch: a SKU with stock, movements or orders is archived, one
\* without is gone, and its product with the last of its SKUs.
OpenDelete(a, rows) ==
    /\ \A s \in rows : product[s] # None /\ (Cardinality(rows) > 1 => s \notin archived)
    /\ Open(a, "delete", rows, <<>>)
Delete(a) ==
    /\ Granted(a, "delete")
    /\ \E gone \in SUBSET (txn[a].held \ archived) :
          /\ archived' = (archived \cup txn[a].held) \ gone
          /\ product' = [s \in Skus |-> IF s \in gone THEN None ELSE product[s]]
          /\ code' = [s \in Skus |-> IF s \in gone THEN Free ELSE code[s]]
          /\ priced' = priced \ gone /\ sellable' = sellable \ txn[a].held
          /\ sequence' = [p \in Products |-> IF In(p) # {} /\ In(p) \subseteq gone THEN None ELSE sequence[p]]
    /\ Close(a)

OpenRestore(a, s) == s \in archived /\ Open(a, "restore", {s}, <<>>)
Restore(a) ==
    /\ Granted(a, "restore")
    /\ archived' = archived \ txn[a].held /\ sellable' = sellable \ txn[a].held
    /\ Close(a) /\ UNCHANGED <<product, code, priced, sequence>>

-----------------------------------------------------------------------------

\* A synchronisation from Feishu writes the row of a SKU, whose prices may be missing there.
\* Whether the SKU is archived was read before the pictures were published, without a lock.
SyncSku(s) ==
    /\ product[s] # None /\ owner[s] = Nobody
    /\ \E complete \in BOOLEAN, active \in {s \notin archived, TRUE} :
          /\ priced' = IF complete THEN priced \cup {s} ELSE priced \ {s}
          /\ sellable' = IF complete /\ active THEN sellable \cup {s} ELSE sellable \ {s}
    /\ UNCHANGED <<product, code, archived, sequence, txn, owner>>
\* The mirror brings back what is in the sheet and archives what is not.
MirrorSku(s) ==
    /\ product[s] # None /\ owner[s] = Nobody
    /\ \/ /\ archived' = archived \ {s}
          /\ \/ priced' = priced \cup {s} /\ sellable' = sellable \cup {s}
             \/ priced' = priced \ {s} /\ sellable' = sellable \ {s}
       \/ archived' = archived \cup {s} /\ sellable' = sellable \ {s} /\ UNCHANGED priced
    /\ UNCHANGED <<product, code, sequence, txn, owner>>

\* Two transactions wait for each other: the database ends one of them.
WaitsFor(a, b) == txn[a] # NoTxn /\ ~txn[a].ready /\ \E r \in Needs(txn[a]) : owner[r] = b
Deadlock(a) ==
    /\ \E b \in Admins \ {a} : WaitsFor(a, b) /\ WaitsFor(b, a)
    /\ Close(a) /\ UNCHANGED <<product, code, marks, sequence>>

Next ==
    \/ \E s \in Skus, p \in Products, c \in Codes, n \in Sequences : CreateBoth(s, p, c, n)
    \/ \E a \in Admins :
          \/ \E s \in Skus, p \in Products, c \in Codes : OpenCreate(a, s, p, c)
          \/ \E p \in Products, n \in Sequences : OpenProduct(a, p, n)
          \/ \E s \in Skus, c \in Codes : OpenSku(a, s, c)
          \/ \E rows \in (SUBSET Skus) \ {{}} : OpenDelete(a, rows) \/ \E p \in Products : OpenMove(a, rows, p)
          \/ \E s \in Skus : OpenRestore(a, s)
          \/ Create(a) \/ UpdateProduct(a) \/ UpdateSku(a) \/ Move(a) \/ Delete(a) \/ Restore(a)
          \/ SecondWait(a) \/ Deadlock(a)
    \/ \E rows \in (SUBSET Skus) \ {{}}, on \in BOOLEAN : SetStatus(rows, on)
    \/ \E s \in Skus : SyncSku(s) \/ MirrorSku(s)
Spec == Init /\ [][Next]_catalogVars

-----------------------------------------------------------------------------
(* Properties                                                               *)

\* Whatever administrators do at the same time, the sequence in the code of a SKU is
\* that of its product, which exists; what is for sale is priced. (A synchronisation can
\* leave an archived SKU marked as sellable: it is not shown, and restoring it unmarks it.)
CatalogConsistent ==
    \A s \in Skus : product[s] # None =>
        /\ sequence[product[s]] # None /\ Matches(code[s], sequence[product[s]])
        /\ s \in sellable => s \in priced
=============================================================================
