---------------------------- MODULE OfficeProofs ----------------------------
(***************************************************************************)
(* The catalogue, the pictures on disk and the sheet that shows the stock, *)
(* for any number of administrators, SKUs, products, files and jobs.       *)
(***************************************************************************)
EXTENDS MCOffice, Sequences, Integers, FiniteSetTheorems, WellFoundedInduction, TLAPS

-----------------------------------------------------------------------------
(* Products and SKUs: whoever writes has locked what the check relied on.  *)

Input == [sku : Skus, product : Products, code : Goods!Codes]
         \cup [product : Products, sequence : Sequences] \cup [code : Goods!Codes]
         \cup [product : Products] \cup {<<>>}

Txn == {Goods!NoTxn} \cup
       [op : {"create", "product", "sku", "move", "delete", "restore"},
        held : SUBSET Goods!Rows, input : Input, ready : BOOLEAN]

CatalogType ==
    /\ product \in [Skus -> Products \cup {None}] /\ code \in [Skus -> Goods!Codes]
    /\ archived \in SUBSET Skus /\ priced \in SUBSET Skus /\ sellable \in SUBSET Skus
    /\ sequence \in [Products -> Sequences \cup {None}]
    /\ txn \in [Procs -> Txn] /\ owner \in [Goods!Rows -> Procs \cup {Nobody}]

(* A transaction has the rows of its first wait, and when it is ready also *)
(* those of its second.                                                    *)
HasLocked(a) ==
    /\ \A r \in txn[a].held : owner[r] = a
    /\ txn[a].ready => \A r \in Goods!Needs(txn[a]) : owner[r] = a

(* What it has seen under its locks is still so.                           *)
InProduct(a) ==
    LET i == txn[a].input IN
    /\ i.product \in Products /\ txn[a].held = {i.product} /\ sequence[i.product] # None
    /\ txn[a].op = "create" =>
         /\ i.sku \in Skus /\ i.code \in Goods!Codes
         /\ txn[a].ready => Goods!Matches(i.code, sequence[i.product])
    /\ txn[a].op = "product" =>
         /\ i.sequence \in Sequences
         /\ txn[a].ready => \A s \in Goods!In(i.product) : Goods!Matches(code[s], i.sequence)

OfSkus(a) ==
    LET i == txn[a].input IN
    /\ txn[a].held \subseteq Skus /\ \A s \in txn[a].held : product[s] # None
    /\ txn[a].op = "sku" =>
         /\ i.code \in Goods!Codes
         /\ txn[a].ready => \A s \in txn[a].held : Goods!Matches(i.code, sequence[product[s]])
    /\ txn[a].op = "move" =>
         /\ i.product \in Products
         /\ txn[a].ready => /\ sequence[i.product] # None
                            /\ \A s \in txn[a].held : Goods!Matches(code[s], sequence[i.product])

TxnOK(a) ==
    txn[a] # Goods!NoTxn =>
      /\ HasLocked(a)
      /\ IF txn[a].op \in {"create", "product"} THEN InProduct(a) ELSE OfSkus(a)

CatalogSafe ==
    /\ CatalogType /\ CatalogConsistent
    /\ \A s \in Skus : s \in archived \/ owner[s] # Nobody => product[s] # None
    /\ \A a \in Procs : TxnOK(a)

LEMMA CatalogTypes ==
    ASSUME CatalogType
    PROVE  /\ product \in [Skus -> Products \cup {None}] /\ code \in [Skus -> Goods!Codes]
           /\ archived \in SUBSET Skus /\ priced \in SUBSET Skus /\ sellable \in SUBSET Skus
           /\ sequence \in [Products -> Sequences \cup {None}]
           /\ txn \in [Procs -> Txn] /\ owner \in [Goods!Rows -> Procs \cup {Nobody}]
BY DEF CatalogType

(* The rows that transaction b has locked are left alone.                  *)
Spares(b) ==
    /\ txn'[b] = txn[b]
    /\ \A r \in Goods!Rows : owner[r] = b => owner'[r] = b
    /\ \A s \in Skus : owner[s] = b => product'[s] = product[s] /\ code'[s] = code[s]
    /\ \A p \in Products : owner[p] = b =>
         /\ sequence'[p] = sequence[p]
         /\ (\A s \in Goods!In(p) : owner[s] = b) => Goods!In(p)' = Goods!In(p)

LEMMA SparedOK ==
    ASSUME CatalogSafe, NEW b \in Procs, Spares(b)
    PROVE  TxnOK(b)'
<1> SUFFICES ASSUME txn[b] # Goods!NoTxn
             PROVE  TxnOK(b)'
  BY DEF TxnOK, Spares
<1> DEFINE t == txn[b]
           i == txn[b].input
<1>1. /\ txn'[b] = t /\ TxnOK(b) /\ CatalogType /\ t \in Txn \ {Goods!NoTxn}
  BY DEF Spares, CatalogSafe, CatalogType
<1>2. /\ HasLocked(b) /\ t.held \subseteq Goods!Rows
      /\ t.op \in {"create", "product", "sku", "move", "delete", "restore"}
  BY <1>1 DEF TxnOK, Txn
<1>3. \A r \in t.held : owner'[r] = b
  BY <1>1, <1>2 DEF HasLocked, Spares
<1>4. CASE t.op \in {"create", "product"}
  <2>1. InProduct(b)
    BY <1>1, <1>4 DEF TxnOK
  <2>2. /\ i.product \in Products /\ owner[i.product] = b
        /\ sequence'[i.product] = sequence[i.product]
        /\ (\A s \in Goods!In(i.product) : owner[s] = b) =>
             Goods!In(i.product)' = Goods!In(i.product)
    BY <1>2, <2>1 DEF InProduct, HasLocked, Spares
  <2>3. CASE t.op = "create"
    <3>1. Goods!Needs(t) = {} /\ Goods!Needs(t)' = {}
      BY <1>1, <2>3 DEF Goods!Needs
    <3>2. HasLocked(b)'
      BY <1>1, <1>3, <3>1 DEF HasLocked
    <3>3. InProduct(b)'
      BY <1>1, <2>1, <2>2, <2>3 DEF InProduct
    <3> QED  BY <1>1, <2>3, <3>2, <3>3 DEF TxnOK
  <2>4. CASE t.op = "product"
    <3>1. Goods!Needs(t) = Goods!In(i.product) /\ Goods!Needs(t)' = Goods!In(i.product)'
      BY <1>1, <2>4 DEF Goods!Needs
    <3>2. \A s \in Goods!In(i.product) : s \in Skus
      BY DEF Goods!In
    <3>3. t.ready => \A s \in Goods!In(i.product) : owner[s] = b
      BY <1>2, <3>1 DEF HasLocked
    <3>4. t.ready => /\ \A s \in Goods!In(i.product) : owner'[s] = b /\ code'[s] = code[s]
                     /\ Goods!In(i.product)' = Goods!In(i.product)
      BY <2>2, <3>2, <3>3 DEF Spares, Goods!Rows
    <3>5. HasLocked(b)'
      BY <1>1, <1>3, <2>2, <3>1, <3>4 DEF HasLocked
    <3>6. InProduct(b)'
      BY <1>1, <2>1, <2>2, <2>4, <3>4 DEF InProduct, Goods!Matches
    <3> QED  BY <1>1, <2>4, <3>5, <3>6 DEF TxnOK
  <2> QED  BY <1>4, <2>3, <2>4
<1>5. CASE t.op \in {"sku", "move", "delete", "restore"}
  <2>1. OfSkus(b)
    BY <1>1, <1>5 DEF TxnOK
  <2>2. /\ t.held \subseteq Skus
        /\ \A s \in t.held : /\ owner[s] = b /\ product'[s] = product[s] /\ code'[s] = code[s]
                             /\ product[s] \in Products
    BY <1>1, <1>2, <2>1, CatalogTypes DEF OfSkus, HasLocked, Spares
  <2>3. CASE t.op = "move"
    <3>1. Goods!Needs(t) = {i.product} /\ Goods!Needs(t)' = {i.product}
      BY <1>1, <2>3 DEF Goods!Needs
    <3>2. t.ready => /\ i.product \in Products /\ owner[i.product] = b
                     /\ owner'[i.product] = b /\ sequence'[i.product] = sequence[i.product]
      BY <1>2, <2>1, <2>3, <3>1 DEF HasLocked, Spares, Goods!Rows, OfSkus
    <3>3. HasLocked(b)'
      BY <1>1, <1>3, <3>1, <3>2 DEF HasLocked
    <3>4. OfSkus(b)'
      BY <1>1, <2>1, <2>2, <2>3, <3>2 DEF OfSkus, Goods!Matches
    <3> QED  BY <1>1, <2>3, <3>3, <3>4 DEF TxnOK
  <2>4. CASE t.op \in {"sku", "delete", "restore"}
    <3>1. /\ Goods!Needs(t) = {product[s] : s \in t.held}
          /\ Goods!Needs(t)' = {product'[s] : s \in t.held}
      BY <1>1, <2>4 DEF Goods!Needs
    <3>2. Goods!Needs(t)' = Goods!Needs(t)
      BY <2>2, <3>1
    <3>3. t.ready => \A s \in t.held : /\ owner[product[s]] = b /\ owner'[product[s]] = b
                                       /\ sequence'[product[s]] = sequence[product[s]]
      BY <1>2, <2>2, <3>1 DEF HasLocked, Spares, Goods!Rows
    <3>4. HasLocked(b)'
      BY <1>1, <1>3, <2>2, <3>1, <3>3 DEF HasLocked
    <3>5. OfSkus(b)'
      BY <1>1, <2>1, <2>2, <2>4, <3>3 DEF OfSkus, Goods!Matches
    <3> QED  BY <1>1, <2>4, <3>4, <3>5 DEF TxnOK
  <2> QED  BY <1>5, <2>3, <2>4
<1> QED  BY <1>2, <1>4, <1>5

(* Rows of SKUs that are written in passing.                               *)
LEMMA MarksSafe ==
    ASSUME CatalogSafe, UNCHANGED <<product, code, sequence, txn, owner>>,
           archived' \in SUBSET Skus, priced' \in SUBSET Skus, sellable' \in SUBSET Skus,
           \A s \in archived' : product[s] # None,
           \A s \in Skus : s \in sellable' => s \in priced' \/ product[s] = None
    PROVE  CatalogSafe'
<1>1. CatalogType'
  BY DEF CatalogSafe, CatalogType
<1>2. CatalogConsistent'
  BY DEF CatalogSafe, CatalogConsistent, Goods!CatalogConsistent
<1>3. \A a \in Procs : Spares(a)
  BY DEF Spares, Goods!In
<1>4. \A a \in Procs : TxnOK(a)'
  BY <1>3, SparedOK
<1> QED  BY <1>1, <1>2, <1>4 DEF CatalogSafe

LEMMA PassingSafe ==
    ASSUME CatalogSafe,
           \/ \E rows \in (SUBSET Skus) \ {{}}, on \in BOOLEAN : Goods!SetStatus(rows, on)
           \/ \E s \in Skus : Goods!SyncSku(s) \/ Goods!MirrorSku(s)
    PROVE  CatalogSafe'
<1>1. /\ archived \in SUBSET Skus /\ priced \in SUBSET Skus /\ sellable \in SUBSET Skus
      /\ \A s \in archived : product[s] # None
      /\ \A s \in Skus : s \in sellable => s \in priced \/ product[s] = None
  BY DEF CatalogSafe, CatalogType, CatalogConsistent, Goods!CatalogConsistent
<1>2. ASSUME NEW rows \in (SUBSET Skus) \ {{}}, NEW on \in BOOLEAN, Goods!SetStatus(rows, on)
      PROVE  CatalogSafe'
  <2>1. UNCHANGED <<product, code, archived, priced, sequence, txn, owner>>
    BY <1>2 DEF Goods!SetStatus
  <2>2. sellable' = sellable \ rows \/ (rows \subseteq priced /\ sellable' = sellable \cup rows)
    BY <1>2 DEF Goods!SetStatus
  <2> QED  BY <1>1, <2>1, <2>2, MarksSafe
<1>3. ASSUME NEW s \in Skus, Goods!SyncSku(s)
      PROVE  CatalogSafe'
  <2>1. UNCHANGED <<product, code, archived, sequence, txn, owner>>
    BY <1>3 DEF Goods!SyncSku
  <2>2. \/ priced' = priced \cup {s} /\ sellable' \in {sellable \cup {s}, sellable \ {s}}
        \/ priced' = priced \ {s} /\ sellable' = sellable \ {s}
    BY <1>3 DEF Goods!SyncSku
  <2> QED  BY <1>1, <2>1, <2>2, MarksSafe
<1>4. ASSUME NEW s \in Skus, Goods!MirrorSku(s)
      PROVE  CatalogSafe'
  <2>1. UNCHANGED <<product, code, sequence, txn, owner>> /\ product[s] # None
    BY <1>4 DEF Goods!MirrorSku
  <2>2. CASE archived' = archived \ {s} /\ priced' = priced \cup {s}
                                        /\ sellable' = sellable \cup {s}
    BY <1>1, <2>1, <2>2, MarksSafe
  <2>3. CASE archived' = archived \ {s} /\ priced' = priced \ {s} /\ sellable' = sellable \ {s}
    BY <1>1, <2>1, <2>3, MarksSafe
  <2>4. CASE archived' = archived \cup {s} /\ priced' = priced /\ sellable' = sellable \ {s}
    BY <1>1, <2>1, <2>4, MarksSafe
  <2> QED  BY <1>4, <2>2, <2>3, <2>4 DEF Goods!MirrorSku
<1> QED  BY <1>2, <1>3, <1>4

(* A transaction ends: its rows are free.                                  *)
LEMMA Closed ==
    ASSUME CatalogType, NEW a \in Procs, Goods!Close(a)
    PROVE  /\ txn' \in [Procs -> Txn] /\ txn'[a] = Goods!NoTxn
           /\ \A b \in Procs \ {a} : txn'[b] = txn[b]
           /\ owner' \in [Goods!Rows -> Procs \cup {Nobody}]
           /\ \A r \in Goods!Rows : owner'[r] = IF owner[r] = a THEN Nobody ELSE owner[r]
BY DEF CatalogType, Goods!Close, Txn

(* What a transaction writes are rows that nobody else has locked.         *)
LEMMA WrittenAlone ==
    ASSUME CatalogSafe, NEW a \in Procs, Goods!Close(a),
           \A s \in Skus : product'[s] # product[s] \/ code'[s] # code[s]
                             => owner[s] \in {a, Nobody},
           \A p \in Products : owner[p] \notin {a, Nobody} =>
             /\ sequence'[p] = sequence[p]
             /\ (\A s \in Goods!In(p) : owner[s] = owner[p]) => Goods!In(p)' = Goods!In(p)
    PROVE  \A b \in Procs : TxnOK(b)'
<1>1. TxnOK(a)'
  BY Closed DEF CatalogSafe, TxnOK
<1>2. ASSUME NEW b \in Procs \ {a}
      PROVE  TxnOK(b)'
  <2>1. b # Nobody
    BY OfficeAssumption
  <2>2. Spares(b)
    BY <2>1, Closed DEF CatalogSafe, Spares, Goods!Rows
  <2> QED  BY <2>2, SparedOK
<1> QED  BY <1>1, <1>2

LEMMA RefusedSafe ==
    ASSUME CatalogSafe, NEW a \in Procs, Goods!Close(a),
           UNCHANGED <<product, code, Goods!marks, sequence>>
    PROVE  CatalogSafe'
<1>1. /\ product' = product /\ code' = code /\ sequence' = sequence
      /\ archived' = archived /\ priced' = priced /\ sellable' = sellable
  BY DEF Goods!marks
<1>2. CatalogType'
  BY <1>1, Closed DEF CatalogSafe, CatalogType
<1>3. \A b \in Procs : TxnOK(b)'
  BY <1>1, WrittenAlone DEF Goods!In
<1>4. \A s \in Skus : owner'[s] # Nobody => owner[s] # Nobody
  BY Closed, OfficeAssumption DEF CatalogSafe, Goods!Rows
<1> QED  BY <1>1, <1>2, <1>3, <1>4 DEF CatalogSafe, CatalogConsistent, Goods!CatalogConsistent

(* A transaction begins with locked rows, of which it knows that they are  *)
(* there.                                                                  *)
LEMMA OpenSafe ==
    ASSUME CatalogSafe, NEW a \in Procs, NEW op, NEW rows, NEW i, Goods!Open(a, op, rows, i),
           [op |-> op, held |-> rows, input |-> i, ready |-> FALSE] \in Txn,
           \A s \in rows \cap Skus : product[s] # None,
           IF op \in {"create", "product"}
           THEN /\ i.product \in Products /\ rows = {i.product} /\ sequence[i.product] # None
                /\ op = "create" => i.sku \in Skus /\ i.code \in Goods!Codes
                /\ op = "product" => i.sequence \in Sequences
           ELSE /\ rows \subseteq Skus
                /\ op = "sku" => i.code \in Goods!Codes
                /\ op = "move" => i.product \in Products
    PROVE  CatalogSafe'
<1> DEFINE t == [op |-> op, held |-> rows, input |-> i, ready |-> FALSE]
<1>1. /\ txn[a] = Goods!NoTxn /\ \A r \in rows : owner[r] = Nobody
      /\ txn' = [txn EXCEPT ![a] = t]
      /\ owner' = [r \in Goods!Rows |-> IF r \in rows THEN a ELSE owner[r]]
      /\ product' = product /\ code' = code /\ sequence' = sequence
      /\ archived' = archived /\ priced' = priced /\ sellable' = sellable
  BY DEF Goods!Open, Goods!FreeRows, Goods!marks
<1>2. /\ CatalogType /\ t \in Txn /\ rows \in SUBSET Goods!Rows
      /\ t.op = op /\ t.held = rows /\ t.input = i /\ t.ready = FALSE
  BY DEF CatalogSafe, Txn, Goods!NoTxn
<1> HIDE DEF t
<1>3. /\ txn' \in [Procs -> Txn] /\ txn'[a] = t /\ \A b \in Procs \ {a} : txn'[b] = txn[b]
      /\ owner' \in [Goods!Rows -> Procs \cup {Nobody}]
  BY <1>1, <1>2 DEF CatalogType
<1>4. CatalogType'
  BY <1>1, <1>2, <1>3 DEF CatalogType
<1>5. ASSUME NEW b \in Procs \ {a}
      PROVE  TxnOK(b)'
  <2>1. Spares(b)
    BY <1>1, <1>2, <1>3, OfficeAssumption DEF Spares, Goods!In
  <2> QED  BY <2>1, SparedOK
<1>6. HasLocked(a)'
  BY <1>1, <1>2, <1>3 DEF HasLocked
<1>7. IF op \in {"create", "product"} THEN InProduct(a)' ELSE OfSkus(a)'
  BY <1>1, <1>2, <1>3 DEF InProduct, OfSkus
<1>8. TxnOK(a)'
  BY <1>2, <1>3, <1>6, <1>7 DEF TxnOK
<1>9. \A s \in Skus : owner'[s] # Nobody => product[s] # None
  BY <1>1 DEF CatalogSafe, Goods!Rows
<1> QED  BY <1>1, <1>4, <1>5, <1>8, <1>9 DEF CatalogSafe, CatalogConsistent, Goods!CatalogConsistent

LEMMA OpeningsSafe ==
    ASSUME CatalogSafe, NEW a \in Procs,
           \/ \E s \in Skus, p \in Products, c \in Goods!Codes : Goods!OpenCreate(a, s, p, c)
           \/ \E p \in Products, n \in Sequences : Goods!OpenProduct(a, p, n)
           \/ \E s \in Skus, c \in Goods!Codes : Goods!OpenSku(a, s, c)
           \/ \E rows \in (SUBSET Skus) \ {{}} :
                 Goods!OpenDelete(a, rows) \/ \E p \in Products : Goods!OpenMove(a, rows, p)
           \/ \E s \in Skus : Goods!OpenRestore(a, s)
    PROVE  CatalogSafe'
<1>1. ASSUME NEW s \in Skus, NEW p \in Products, NEW c \in Goods!Codes, Goods!OpenCreate(a, s, p, c)
      PROVE  CatalogSafe'
  <2> DEFINE i == [sku |-> s, product |-> p, code |-> c]
  <2>1. /\ i \in Input /\ i.product = p /\ i.sku = s /\ i.code = c
        /\ {p} \in SUBSET Goods!Rows /\ {p} \cap Skus = {}
    BY OfficeAssumption DEF Input, Goods!Rows
  <2>2. Goods!Open(a, "create", {p}, i) /\ sequence[p] # None
    BY <1>1 DEF Goods!OpenCreate, Goods!Existing
  <2> HIDE DEF i
  <2>3. [op |-> "create", held |-> {p}, input |-> i, ready |-> FALSE] \in Txn
    BY <2>1 DEF Txn
  <2> QED  BY <2>1, <2>2, <2>3, OpenSafe
<1>2. ASSUME NEW p \in Products, NEW n \in Sequences, Goods!OpenProduct(a, p, n)
      PROVE  CatalogSafe'
  <2> DEFINE i == [product |-> p, sequence |-> n]
  <2>1. /\ i \in Input /\ i.product = p /\ i.sequence = n
        /\ {p} \in SUBSET Goods!Rows /\ {p} \cap Skus = {}
    BY OfficeAssumption DEF Input, Goods!Rows
  <2>2. Goods!Open(a, "product", {p}, i) /\ sequence[p] # None
    BY <1>2 DEF Goods!OpenProduct, Goods!Existing
  <2> HIDE DEF i
  <2>3. [op |-> "product", held |-> {p}, input |-> i, ready |-> FALSE] \in Txn
    BY <2>1 DEF Txn
  <2> QED  BY <2>1, <2>2, <2>3, OpenSafe
<1>3. ASSUME NEW s \in Skus, NEW c \in Goods!Codes, Goods!OpenSku(a, s, c)
      PROVE  CatalogSafe'
  <2> DEFINE i == [code |-> c]
  <2>1. i \in Input /\ i.code = c /\ {s} \in SUBSET Goods!Rows /\ {s} \subseteq Skus
    BY DEF Input, Goods!Rows
  <2>2. Goods!Open(a, "sku", {s}, i) /\ product[s] # None
    BY <1>3 DEF Goods!OpenSku, Goods!Alive
  <2> HIDE DEF i
  <2>3. [op |-> "sku", held |-> {s}, input |-> i, ready |-> FALSE] \in Txn
    BY <2>1 DEF Txn
  <2>4. /\ \A x \in {s} \cap Skus : product[x] # None
        /\ i.code \in Goods!Codes
    BY <2>1, <2>2
  <2> QED  BY <2>1, <2>2, <2>3, <2>4, OpenSafe
<1>4. ASSUME NEW rows \in (SUBSET Skus) \ {{}}, Goods!OpenDelete(a, rows)
      PROVE  CatalogSafe'
  <2>1. <<>> \in Input /\ rows \in SUBSET Goods!Rows
    BY DEF Input, Goods!Rows
  <2>2. Goods!Open(a, "delete", rows, <<>>) /\ \A s \in rows : product[s] # None
    BY <1>4 DEF Goods!OpenDelete
  <2>3. [op |-> "delete", held |-> rows, input |-> <<>>, ready |-> FALSE] \in Txn
    BY <2>1 DEF Txn
  <2> QED  BY <2>2, <2>3, OpenSafe
<1>5. ASSUME NEW rows \in (SUBSET Skus) \ {{}}, NEW p \in Products, Goods!OpenMove(a, rows, p)
      PROVE  CatalogSafe'
  <2> DEFINE i == [product |-> p]
  <2>1. i \in Input /\ i.product = p /\ rows \in SUBSET Goods!Rows
    BY DEF Input, Goods!Rows
  <2>2. Goods!Open(a, "move", rows, i) /\ \A s \in rows : product[s] # None
    BY <1>5 DEF Goods!OpenMove, Goods!Alive
  <2> HIDE DEF i
  <2>3. [op |-> "move", held |-> rows, input |-> i, ready |-> FALSE] \in Txn
    BY <2>1 DEF Txn
  <2> QED  BY <2>1, <2>2, <2>3, OpenSafe
<1>6. ASSUME NEW s \in Skus, Goods!OpenRestore(a, s)
      PROVE  CatalogSafe'
  <2>1. <<>> \in Input /\ {s} \in SUBSET Goods!Rows
    BY DEF Input, Goods!Rows
  <2>2. Goods!Open(a, "restore", {s}, <<>>) /\ product[s] # None
    BY <1>6 DEF Goods!OpenRestore, CatalogSafe
  <2>3. [op |-> "restore", held |-> {s}, input |-> <<>>, ready |-> FALSE] \in Txn
    BY <2>1 DEF Txn
  <2> QED  BY <2>2, <2>3, OpenSafe
<1> QED  BY <1>1, <1>2, <1>3, <1>4, <1>5, <1>6

(* The check comes after the second wait, and sees what the locks keep.    *)
LEMMA SecondWaitSafe ==
    ASSUME CatalogSafe, NEW a \in Procs, Goods!SecondWait(a)
    PROVE  CatalogSafe'
<1> DEFINE t == txn[a]
           i == txn[a].input
           u == [t EXCEPT !.ready = TRUE]
<1>1. /\ t # Goods!NoTxn /\ \A r \in Goods!Needs(t) : owner[r] = Nobody
      /\ UNCHANGED <<product, code, Goods!marks, sequence>>
  BY DEF Goods!SecondWait, Goods!Locked
<1>2. CASE ~Goods!Verdict(t)
  <2>1. Goods!Close(a)
    BY <1>2 DEF Goods!SecondWait
  <2> QED  BY <1>1, <2>1, RefusedSafe
<1>3. CASE Goods!Verdict(t)
  <2>1. /\ CatalogType /\ t \in Txn \ {Goods!NoTxn} /\ TxnOK(a)
        /\ product' = product /\ code' = code /\ sequence' = sequence
        /\ archived' = archived /\ priced' = priced /\ sellable' = sellable
    BY <1>1 DEF CatalogSafe, CatalogType, Goods!marks
  <2>2. /\ u \in Txn /\ u.op = t.op /\ u.held = t.held /\ u.input = i /\ u.ready = TRUE
        /\ u # Goods!NoTxn /\ t.held \subseteq Goods!Rows
        /\ t.op \in {"create", "product", "sku", "move", "delete", "restore"}
    BY <2>1 DEF Txn, Goods!NoTxn
  <2>3. /\ txn' = [txn EXCEPT ![a] = u]
        /\ owner' = [r \in Goods!Rows |-> IF r \in Goods!Needs(t) THEN a ELSE owner[r]]
    BY <1>3, <2>1 DEF Goods!SecondWait, CatalogType
  <2> HIDE DEF u
  <2>4. /\ txn' \in [Procs -> Txn] /\ txn'[a] = u /\ \A b \in Procs \ {a} : txn'[b] = txn[b]
        /\ owner' \in [Goods!Rows -> Procs \cup {Nobody}]
    BY <2>1, <2>2, <2>3 DEF CatalogType
  <2>5. CatalogType'
    BY <2>1, <2>4 DEF CatalogType
  <2>6. ASSUME NEW b \in Procs \ {a}
        PROVE  TxnOK(b)'
    <3>1. Spares(b)
      BY <1>1, <2>1, <2>3, <2>4, OfficeAssumption DEF Spares, Goods!In
    <3> QED  BY <3>1, SparedOK
  <2>7. Goods!Needs(txn[a])' = Goods!Needs(t) /\ Goods!Needs(t) \subseteq Goods!Rows
    <3>1. t.op \in {"create", "product"} => i.product \in Products
      BY <1>1, <2>1 DEF TxnOK, InProduct
    <3>2. t.op \notin {"create", "product"} =>
            /\ \A s \in t.held : product[s] \in Products
            /\ t.op = "move" => i.product \in Products
      BY <1>1, <2>1, CatalogTypes DEF TxnOK, OfSkus
    <3>3. Goods!Needs(txn[a])' = Goods!Needs(t)
      BY ZenonT(40), <2>1, <2>2, <2>4 DEF Goods!Needs, Goods!In
    <3>4. Goods!Needs(t) \subseteq Goods!Rows
      BY <2>2, <3>1, <3>2 DEF Goods!Needs, Goods!In, Goods!Rows
    <3> QED  BY <3>3, <3>4
  <2>8. HasLocked(a)'
    <3>1. HasLocked(a)
      BY <1>1, <2>1 DEF TxnOK
    <3>2. \A r \in t.held : owner'[r] = a
      BY <2>2, <2>3, <3>1 DEF HasLocked
    <3>3. \A r \in Goods!Needs(t) : owner'[r] = a
      BY <2>3, <2>7
    <3> QED  BY <2>2, <2>4, <2>7, <3>2, <3>3 DEF HasLocked
  <2>9. IF t.op \in {"create", "product"} THEN InProduct(a)' ELSE OfSkus(a)'
    <3>1. CASE t.op \in {"create", "product"}
      <4>1. InProduct(a)
        BY <1>1, <2>1, <3>1 DEF TxnOK
      <4>2. /\ t.op = "create" => Goods!Matches(i.code, sequence[i.product])
            /\ t.op = "product" => \A s \in Goods!In(i.product) : Goods!Matches(code[s], i.sequence)
        BY <1>3 DEF Goods!Verdict
      <4> QED  BY <2>1, <2>2, <2>4, <3>1, <4>1, <4>2 DEF InProduct, Goods!In, Goods!Matches
    <3>2. CASE t.op \notin {"create", "product"}
      <4>1. OfSkus(a)
        BY <1>1, <2>1, <3>2 DEF TxnOK
      <4>2. /\ t.op = "sku" => \A s \in t.held : Goods!Matches(i.code, sequence[product[s]])
            /\ t.op = "move" => /\ sequence[i.product] # None
                                /\ \A s \in t.held : Goods!Matches(code[s], sequence[i.product])
        BY <1>3 DEF Goods!Verdict, Goods!Existing
      <4> QED  BY <2>1, <2>2, <2>4, <3>2, <4>1, <4>2 DEF OfSkus, Goods!Matches
    <3> QED  BY <3>1, <3>2
  <2>10. TxnOK(a)'
    BY <2>2, <2>4, <2>8, <2>9 DEF TxnOK
  <2>11. \A s \in Skus : owner'[s] # Nobody => product[s] # None
    <3>1. \A s \in Skus : s \in Goods!Needs(t) => product[s] # None
      BY <1>1, <2>1, <2>2, OfficeAssumption, CatalogTypes
      DEF Goods!Needs, Goods!In, TxnOK, InProduct, OfSkus
    <3> QED  BY <2>3, <3>1 DEF CatalogSafe, Goods!Rows
  <2> QED
    BY <2>1, <2>5, <2>6, <2>10, <2>11 DEF CatalogSafe, CatalogConsistent, Goods!CatalogConsistent
<1> QED  BY <1>2, <1>3

(* What a transaction that is ready knows, and has locked.                 *)
LEMMA GrantedFacts ==
    ASSUME CatalogSafe, NEW a \in Procs, NEW op, op # "none", Goods!Granted(a, op)
    PROVE  /\ txn[a] \in Txn \ {Goods!NoTxn} /\ txn[a].op = op /\ CatalogType
           /\ \A r \in txn[a].held : owner[r] = a
           /\ \A r \in Goods!Needs(txn[a]) : owner[r] = a
           /\ IF op \in {"create", "product"} THEN InProduct(a) ELSE OfSkus(a)
           /\ txn[a].ready
BY DEF CatalogSafe, CatalogType, TxnOK, HasLocked, Goods!Granted, Goods!NoTxn, Txn

LEMMA FreedRows ==
    ASSUME CatalogSafe, NEW a \in Procs, Goods!Close(a),
           \A s \in Skus : product[s] # None /\ product'[s] = None => owner[s] = a
    PROVE  \A s \in Skus : owner'[s] # Nobody => product'[s] # None
BY Closed DEF CatalogSafe, Goods!Rows

LEMMA CreateSafe ==
    ASSUME CatalogSafe, NEW a \in Procs, Goods!Create(a)
    PROVE  CatalogSafe'
<1> DEFINE i == txn[a].input
<1>1. /\ Goods!Granted(a, "create") /\ Goods!Close(a) /\ archived' = archived /\ sequence' = sequence
  BY DEF Goods!Create
<1>2. /\ CatalogType /\ InProduct(a) /\ owner[i.product] = a /\ i.product \in Products
      /\ i.sku \in Skus /\ i.code \in Goods!Codes /\ sequence[i.product] # None
      /\ Goods!Matches(i.code, sequence[i.product])
  BY <1>1, GrantedFacts DEF InProduct
<1>3. CASE product[i.sku] # None
  <2>1. UNCHANGED <<product, code, Goods!marks, sequence>>
    BY <1>1, <1>3 DEF Goods!Create, Goods!marks
  <2> QED  BY <1>1, <2>1, RefusedSafe
<1>4. CASE product[i.sku] = None
  <2>1. /\ product' = [product EXCEPT ![i.sku] = i.product] /\ code' = [code EXCEPT ![i.sku] = i.code]
        /\ priced' = priced \cup {i.sku} /\ sellable' = sellable \cup {i.sku}
    BY <1>4 DEF Goods!Create
  <2> HIDE DEF i
  <2>2. /\ product' \in [Skus -> Products \cup {None}] /\ code' \in [Skus -> Goods!Codes]
        /\ product'[i.sku] = i.product /\ code'[i.sku] = i.code
        /\ \A s \in Skus \ {i.sku} : product'[s] = product[s] /\ code'[s] = code[s]
        /\ i.product # None /\ owner[i.sku] = Nobody
    BY <1>2, <1>4, <2>1, CatalogTypes, OfficeAssumption DEF CatalogSafe
  <2>3. CatalogType'
    BY <1>1, <1>2, <2>1, <2>2, Closed DEF CatalogType
  <2>4. \A p \in Products : p # i.product => Goods!In(p)' = Goods!In(p)
    BY <1>4, <2>2, OfficeAssumption DEF Goods!In
  <2>5. \A b \in Procs : TxnOK(b)'
    BY <1>1, <1>2, <2>2, <2>4, WrittenAlone
  <2>6. \A s \in Skus : owner'[s] # Nobody => product'[s] # None
    BY <1>1, <2>2, FreedRows
  <2>7. CatalogConsistent'
    BY <1>1, <1>2, <2>1, <2>2 DEF CatalogSafe, CatalogConsistent, Goods!CatalogConsistent, Goods!Matches
  <2>8. \A s \in archived' : product'[s] # None
    BY <1>1, <2>2, CatalogTypes DEF CatalogSafe
  <2> QED  BY <2>3, <2>5, <2>6, <2>7, <2>8 DEF CatalogSafe
<1> QED  BY <1>3, <1>4

LEMMA UpdateProductSafe ==
    ASSUME CatalogSafe, NEW a \in Procs, Goods!UpdateProduct(a)
    PROVE  CatalogSafe'
<1> DEFINE i == txn[a].input
<1>1. /\ Goods!Granted(a, "product") /\ Goods!Close(a) /\ UNCHANGED <<product, code, Goods!marks>>
      /\ sequence' \in {sequence, [sequence EXCEPT ![i.product] = i.sequence]}
  BY DEF Goods!UpdateProduct
<1>2. /\ CatalogType /\ owner[i.product] = a /\ i.product \in Products /\ i.sequence \in Sequences
      /\ \A s \in Goods!In(i.product) : Goods!Matches(code[s], i.sequence)
  BY <1>1, GrantedFacts DEF InProduct
<1>3. CASE sequence' = sequence
  BY <1>1, <1>3, RefusedSafe
<1>4. CASE sequence' = [sequence EXCEPT ![i.product] = i.sequence]
  <2> HIDE DEF i
  <2>1. /\ product' = product /\ code' = code /\ archived' = archived /\ priced' = priced
        /\ sellable' = sellable
    BY <1>1 DEF Goods!marks
  <2>2. /\ sequence' \in [Products -> Sequences \cup {None}] /\ sequence'[i.product] = i.sequence
        /\ \A p \in Products \ {i.product} : sequence'[p] = sequence[p]
        /\ i.sequence # None
    BY <1>2, <1>4, CatalogTypes, OfficeAssumption
  <2>3. CatalogType'
    BY <1>1, <1>2, <2>1, <2>2, Closed DEF CatalogType
  <2>4. \A b \in Procs : TxnOK(b)'
    BY <1>1, <1>2, <2>1, <2>2, WrittenAlone DEF Goods!In
  <2>5. \A s \in Skus : owner'[s] # Nobody => product'[s] # None
    BY <1>1, <2>1, FreedRows
  <2>6. CatalogConsistent'
    <3> SUFFICES ASSUME NEW s \in Skus, product[s] # None
                 PROVE  /\ sequence'[product[s]] # None
                        /\ Goods!Matches(code[s], sequence'[product[s]])
                        /\ s \in sellable => s \in priced
      BY <2>1 DEF CatalogConsistent, Goods!CatalogConsistent, Goods!Matches
    <3>1. product[s] \in Products
      BY <1>2, CatalogTypes
    <3>2. /\ sequence[product[s]] # None /\ Goods!Matches(code[s], sequence[product[s]])
          /\ s \in sellable => s \in priced
      BY DEF CatalogSafe, CatalogConsistent, Goods!CatalogConsistent
    <3>3. CASE product[s] = i.product
      BY <1>2, <2>2, <3>2, <3>3 DEF Goods!In
    <3>4. CASE product[s] # i.product
      BY <2>2, <3>1, <3>2, <3>4
    <3> QED  BY <3>3, <3>4
  <2> QED  BY <2>1, <2>3, <2>4, <2>5, <2>6 DEF CatalogSafe
<1> QED  BY <1>1, <1>3, <1>4

LEMMA UpdateSkuSafe ==
    ASSUME CatalogSafe, NEW a \in Procs, Goods!UpdateSku(a)
    PROVE  CatalogSafe'
<1> DEFINE i == txn[a].input
<1>1. /\ Goods!Granted(a, "sku") /\ Goods!Close(a)
      /\ product' = product /\ archived' = archived /\ sequence' = sequence
  BY DEF Goods!UpdateSku
<1>2. PICK s \in txn[a].held :
        /\ code' = [code EXCEPT ![s] = i.code] /\ priced' = priced \cup {s}
        /\ sellable' \in {sellable \cup {s}, sellable \ {s}}
  BY DEF Goods!UpdateSku
<1>3. /\ CatalogType /\ s \in Skus /\ owner[s] = a /\ i.code \in Goods!Codes
      /\ Goods!Matches(i.code, sequence[product[s]])
  BY <1>1, GrantedFacts DEF OfSkus
<1> HIDE DEF i
<1>4. /\ code' \in [Skus -> Goods!Codes] /\ code'[s] = i.code
      /\ \A x \in Skus \ {s} : code'[x] = code[x]
  BY <1>2, <1>3, CatalogTypes
<1>5. CatalogType'
  BY <1>1, <1>2, <1>3, <1>4, Closed DEF CatalogType
<1>6. \A b \in Procs : TxnOK(b)'
  BY <1>1, <1>3, <1>4, WrittenAlone DEF Goods!In
<1>7. \A x \in Skus : owner'[x] # Nobody => product'[x] # None
  BY <1>1, FreedRows
<1>8. CatalogConsistent'
  BY <1>1, <1>2, <1>3, <1>4 DEF CatalogSafe, CatalogConsistent, Goods!CatalogConsistent, Goods!Matches
<1> QED  BY <1>1, <1>5, <1>6, <1>7, <1>8 DEF CatalogSafe

LEMMA MoveSafe ==
    ASSUME CatalogSafe, NEW a \in Procs, Goods!Move(a)
    PROVE  CatalogSafe'
<1> DEFINE i == txn[a].input
           H == txn[a].held
<1>1. /\ Goods!Granted(a, "move") /\ Goods!Close(a) /\ UNCHANGED <<code, Goods!marks, sequence>>
      /\ product' = [s \in Skus |-> IF s \in H THEN i.product ELSE product[s]]
  BY DEF Goods!Move
<1>2. /\ CatalogType /\ H \subseteq Skus /\ \A s \in H : owner[s] = a /\ product[s] # None
      /\ i.product \in Products /\ sequence[i.product] # None
      /\ \A s \in H : Goods!Matches(code[s], sequence[i.product])
      /\ Goods!Needs(txn[a]) = {i.product}
  BY <1>1, GrantedFacts DEF OfSkus, Goods!Needs
<1>3. owner[i.product] = a
  BY <1>1, <1>2, GrantedFacts
<1> HIDE DEF i, H
<1>4. /\ code' = code /\ sequence' = sequence /\ archived' = archived /\ priced' = priced
      /\ sellable' = sellable /\ i.product # None
  BY <1>1, <1>2, OfficeAssumption DEF Goods!marks
<1>5. CatalogType'
  BY <1>1, <1>2, <1>4, Closed DEF CatalogType
<1>6. \A b \in Procs : TxnOK(b)'
  <2>1. ASSUME NEW p \in Products, owner[p] \notin {a, Nobody},
               \A s \in Goods!In(p) : owner[s] = owner[p]
        PROVE  Goods!In(p)' = Goods!In(p)
    <3>1. \A s \in H : product[s] # p
      BY <1>2, <2>1 DEF Goods!In
    <3> QED  BY <1>1, <1>3, <2>1, <3>1 DEF Goods!In
  <2> QED  BY <1>1, <1>2, <1>4, <2>1, WrittenAlone
<1>7. \A s \in Skus : owner'[s] # Nobody => product'[s] # None
  BY <1>1, <1>2, <1>4, FreedRows
<1>8. CatalogConsistent'
  BY <1>1, <1>2, <1>4 DEF CatalogSafe, CatalogConsistent, Goods!CatalogConsistent, Goods!Matches
<1>9. \A s \in archived' : product'[s] # None
  BY <1>1, <1>2, <1>4, CatalogTypes DEF CatalogSafe
<1> QED  BY <1>5, <1>6, <1>7, <1>8, <1>9 DEF CatalogSafe

LEMMA DeleteSafe ==
    ASSUME CatalogSafe, NEW a \in Procs, Goods!Delete(a)
    PROVE  CatalogSafe'
<1> DEFINE H == txn[a].held
<1>1. Goods!Granted(a, "delete") /\ Goods!Close(a)
  BY DEF Goods!Delete
<1>2. PICK gone \in SUBSET (H \ archived) :
        /\ archived' = (archived \cup H) \ gone
        /\ product' = [s \in Skus |-> IF s \in gone THEN None ELSE product[s]]
        /\ code' = [s \in Skus |-> IF s \in gone THEN Free ELSE code[s]]
        /\ priced' = priced \ gone /\ sellable' = sellable \ H
        /\ sequence' = [p \in Products |-> IF Goods!In(p) # {} /\ Goods!In(p) \subseteq gone
                                           THEN None ELSE sequence[p]]
  BY DEF Goods!Delete
<1>3. /\ CatalogType /\ H \subseteq Skus
      /\ \A s \in H : owner[s] = a /\ product[s] # None
      /\ Goods!Needs(txn[a]) = {product[s] : s \in H}
  BY <1>1, GrantedFacts DEF OfSkus, Goods!Needs
<1>4. \A s \in H : owner[product[s]] = a
  BY <1>1, <1>3, GrantedFacts
<1> HIDE DEF H
<1>5. /\ gone \subseteq H /\ \A s \in gone : owner[s] = a /\ owner[product[s]] = a
  BY <1>2, <1>3, <1>4
<1>6. CatalogType'
  <2>1. /\ archived' \in SUBSET Skus /\ priced' \in SUBSET Skus /\ sellable' \in SUBSET Skus
        /\ product' \in [Skus -> Products \cup {None}]
    BY <1>2, <1>3, CatalogTypes
  <2>2. code' \in [Skus -> Goods!Codes] /\ sequence' \in [Products -> Sequences \cup {None}]
    BY <1>2, <1>3, CatalogTypes DEF Goods!Codes
  <2> QED  BY <1>1, <1>3, <2>1, <2>2, Closed DEF CatalogType
<1>7. \A p \in Products : owner[p] # a => sequence'[p] = sequence[p] /\ Goods!In(p)' = Goods!In(p)
  <2> SUFFICES ASSUME NEW p \in Products, owner[p] # a
               PROVE  sequence'[p] = sequence[p] /\ Goods!In(p)' = Goods!In(p)
    OBVIOUS
  <2>1. \A s \in gone : product[s] # p
    BY <1>5
  <2>2. Goods!In(p) \subseteq gone => Goods!In(p) = {}
    BY <2>1 DEF Goods!In
  <2>3. p # None
    BY OfficeAssumption
  <2>4. Goods!In(p)' = Goods!In(p)
    BY <1>2, <2>1, <2>3 DEF Goods!In
  <2> QED  BY <1>2, <2>2, <2>4
<1>8. \A b \in Procs : TxnOK(b)'
  BY <1>1, <1>2, <1>5, <1>7, WrittenAlone
<1>9. \A s \in Skus : owner'[s] # Nobody => product'[s] # None
  BY <1>1, <1>2, <1>5, FreedRows
<1>10. CatalogConsistent'
  <2> SUFFICES ASSUME NEW s \in Skus, product'[s] # None
               PROVE  /\ sequence'[product'[s]] # None
                      /\ Goods!Matches(code'[s], sequence'[product'[s]])
                      /\ s \in sellable' => s \in priced'
    BY DEF CatalogConsistent, Goods!CatalogConsistent, Goods!Matches
  <2>1. s \notin gone /\ product'[s] = product[s] /\ code'[s] = code[s]
    BY <1>2
  <2>2. product[s] \in Products /\ s \in Goods!In(product[s])
    BY <1>3, <2>1, CatalogTypes DEF Goods!In
  <2>3. sequence'[product[s]] = sequence[product[s]]
    BY <1>2, <2>1, <2>2
  <2>4. /\ sequence[product[s]] # None /\ Goods!Matches(code[s], sequence[product[s]])
        /\ s \in sellable => s \in priced
    BY <2>1 DEF CatalogSafe, CatalogConsistent, Goods!CatalogConsistent
  <2> QED  BY <1>2, <2>1, <2>3, <2>4
<1>11. \A s \in archived' : product'[s] # None
  BY <1>2, <1>3, CatalogTypes DEF CatalogSafe
<1> QED  BY <1>6, <1>8, <1>9, <1>10, <1>11 DEF CatalogSafe

LEMMA RestoreSafe ==
    ASSUME CatalogSafe, NEW a \in Procs, Goods!Restore(a)
    PROVE  CatalogSafe'
<1>1. /\ Goods!Close(a) /\ archived' = archived \ txn[a].held /\ sellable' = sellable \ txn[a].held
      /\ product' = product /\ code' = code /\ priced' = priced /\ sequence' = sequence
  BY DEF Goods!Restore
<1>2. CatalogType'
  BY <1>1, Closed DEF CatalogSafe, CatalogType
<1>3. \A b \in Procs : TxnOK(b)'
  BY <1>1, WrittenAlone DEF Goods!In
<1>4. \A s \in Skus : owner'[s] # Nobody => product'[s] # None
  BY <1>1, FreedRows
<1> QED  BY <1>1, <1>2, <1>3, <1>4 DEF CatalogSafe, CatalogConsistent, Goods!CatalogConsistent

(* A product and its first SKU: nobody can have locked either.             *)
LEMMA CreateBothSafe ==
    ASSUME CatalogSafe, NEW s \in Skus, NEW p \in Products, NEW c \in Goods!Codes,
           NEW n \in Sequences, Goods!CreateBoth(s, p, c, n)
    PROVE  CatalogSafe'
<1>1. /\ product[s] = None /\ sequence[p] = None /\ owner[p] = Nobody /\ Goods!Matches(c, n)
      /\ product' = [product EXCEPT ![s] = p] /\ code' = [code EXCEPT ![s] = c]
      /\ sequence' = [sequence EXCEPT ![p] = n]
      /\ priced' = priced \cup {s} /\ sellable' = sellable \cup {s}
      /\ archived' = archived /\ txn' = txn /\ owner' = owner
  BY DEF Goods!CreateBoth
<1>2. CatalogType
  BY DEF CatalogSafe
<1>3. /\ product' \in [Skus -> Products \cup {None}] /\ product'[s] = p
      /\ \A x \in Skus \ {s} : product'[x] = product[x] /\ code'[x] = code[x]
      /\ code' \in [Skus -> Goods!Codes] /\ code'[s] = c
      /\ sequence' \in [Products -> Sequences \cup {None}] /\ sequence'[p] = n
      /\ \A q \in Products \ {p} : sequence'[q] = sequence[q]
      /\ p # None /\ n # None /\ owner[s] = Nobody
  BY <1>1, <1>2, CatalogTypes, OfficeAssumption DEF CatalogSafe
<1>4. CatalogType'
  BY <1>1, <1>2, <1>3 DEF CatalogType
<1>5. ASSUME NEW b \in Procs
      PROVE  TxnOK(b)'
  <2>1. \A q \in Products : q # p => Goods!In(q)' = Goods!In(q)
    BY <1>1, <1>3, OfficeAssumption DEF Goods!In
  <2>2. b # Nobody
    BY OfficeAssumption
  <2>3. Spares(b)
    BY <1>1, <1>3, <2>1, <2>2 DEF Spares
  <2> QED  BY <2>3, SparedOK
<1>6. CatalogConsistent'
  <2> SUFFICES ASSUME NEW x \in Skus, product'[x] # None
               PROVE  /\ sequence'[product'[x]] # None
                      /\ Goods!Matches(code'[x], sequence'[product'[x]])
                      /\ x \in sellable' => x \in priced'
    BY DEF CatalogConsistent, Goods!CatalogConsistent, Goods!Matches
  <2>1. CASE x = s
    BY <1>1, <1>3, <2>1
  <2>2. CASE x # s
    <3>1. /\ product'[x] = product[x] /\ code'[x] = code[x] /\ product[x] \in Products
      BY <1>2, <1>3, <2>2, CatalogTypes
    <3>2. /\ sequence[product[x]] # None /\ Goods!Matches(code[x], sequence[product[x]])
          /\ x \in sellable => x \in priced
      BY <3>1 DEF CatalogSafe, CatalogConsistent, Goods!CatalogConsistent
    <3>3. sequence'[product[x]] = sequence[product[x]]
      BY <1>1, <1>3, <3>1, <3>2
    <3> QED  BY <1>1, <2>2, <3>1, <3>2, <3>3
  <2> QED  BY <2>1, <2>2
<1>7. \A x \in Skus : x \in archived' \/ owner'[x] # Nobody => product'[x] # None
  BY <1>1, <1>3 DEF CatalogSafe
<1> QED  BY <1>4, <1>5, <1>6, <1>7 DEF CatalogSafe

LEMMA CatalogInit == Goods!Init => CatalogSafe
BY DEF Goods!Init, CatalogSafe, CatalogType, TxnOK, CatalogConsistent, Goods!CatalogConsistent,
       Goods!Codes, Txn, Goods!NoTxn, Goods!Rows

LEMMA CatalogNext == CatalogSafe /\ [Goods!Next]_(Goods!catalogVars) => CatalogSafe'
<1> SUFFICES ASSUME CatalogSafe, [Goods!Next]_(Goods!catalogVars)
             PROVE  CatalogSafe'
  OBVIOUS
<1>1. ASSUME UNCHANGED Goods!catalogVars
      PROVE  CatalogSafe'
  <2>1. /\ product' = product /\ code' = code /\ archived' = archived /\ priced' = priced
        /\ sellable' = sellable /\ sequence' = sequence /\ txn' = txn /\ owner' = owner
    BY <1>1 DEF Goods!catalogVars, Goods!marks
  <2>2. /\ archived \in SUBSET Skus /\ priced \in SUBSET Skus /\ sellable \in SUBSET Skus
        /\ \A s \in archived : product[s] # None
        /\ \A s \in Skus : s \in sellable => s \in priced \/ product[s] = None
    BY DEF CatalogSafe, CatalogType, CatalogConsistent, Goods!CatalogConsistent
  <2> QED  BY <2>1, <2>2, MarksSafe
<1>2. ASSUME NEW a \in Procs, Goods!Deadlock(a)
      PROVE  CatalogSafe'
  BY <1>2, RefusedSafe DEF Goods!Deadlock
<1>3. ASSUME NEW a \in Procs,
             \/ Goods!Create(a) \/ Goods!UpdateProduct(a) \/ Goods!UpdateSku(a) \/ Goods!Move(a)
             \/ Goods!Delete(a) \/ Goods!Restore(a) \/ Goods!SecondWait(a)
      PROVE  CatalogSafe'
  BY <1>3, CreateSafe, UpdateProductSafe, UpdateSkuSafe, MoveSafe, DeleteSafe, RestoreSafe,
     SecondWaitSafe
<1> QED
  BY <1>1, <1>2, <1>3, CreateBothSafe, OpeningsSafe, PassingSafe DEF Goods!Next

(* Whatever administrators, synchronisations and the mirror do at the same *)
(* time, the code of a SKU carries the sequence of its product, which      *)
(* exists, and what is for sale is priced (sku-management-service.ts).     *)
THEOREM CatalogAlwaysConsistent == Goods!Spec => []CatalogConsistent
<1>1. CatalogSafe => CatalogConsistent
  BY DEF CatalogSafe
<1> QED  BY <1>1, CatalogInit, CatalogNext, PTL DEF Goods!Spec
-----------------------------------------------------------------------------
(* Pictures on disk: what was promised stays.                              *)

Ats == {"waiting", "look", "write", "rename", "staged", "read", "publish", "fill", "settle",
        "published", "unlinked", "remove", "removed"}
Call == [at : Ats, op : {"stage", "commit", "discard"}, run : Runs, digest : Digests,
         looked : BOOLEAN]

AssetType ==
    /\ access \in [Procs -> {Assets!Idle} \cup Call]
    /\ lock \in [Runs \cup Digests -> Procs \cup {Nobody}]
    /\ staged \in SUBSET Assets!File /\ given \in SUBSET Assets!File
    /\ closed \in SUBSET Runs /\ committed \in SUBSET Digests /\ links \in BOOLEAN
    /\ final \in [Digests -> {"none", "part", "whole"}]

(* A manifest that was returned, or will be.                               *)
Promised(f) == f \in given \/ \E p \in Procs : access[p].at = "staged" /\ Assets!Mine(p) = f

(* A commit that has put its file in place itself may take it away again.  *)
Retractable(d) ==
    ~links /\ \E p \in Procs : access[p].at \in {"fill", "settle"} /\ access[p].digest = d

CallOK(p) ==
    LET c == access[p] IN
    /\ c.at \in {"look", "rename", "staged"} => c.op = "stage"
    /\ c.at \in {"read", "publish", "fill", "settle", "published", "unlinked"} => c.op = "commit"
    /\ c.at = "write" => c.op \in {"stage", "commit"}
    /\ c.at \in {"remove", "removed"} => c.op = "discard"
    /\ c.at # "resting" /\ c.op = "discard" => c.run \in closed
    /\ ~links /\ Assets!Working(p) => Assets!Holds(p)
    /\ c.at = "fill" => final[c.digest] = "part" /\ ~links
    /\ c.at \in {"settle", "published", "unlinked"} => final[c.digest] = "whole"

AssetsSafe ==
    /\ AssetType
    /\ \A p \in Procs : CallOK(p)
    /\ \A d \in committed : final[d] = "whole" /\ ~Retractable(d)
    /\ \A r \in Runs, d \in Digests : Promised(<<r, d>>) =>
         \/ r \in closed \/ <<r, d>> \in staged
         \/ final[d] = "whole" /\ ~Retractable(d)

(* Under its lock, and the lock cannot get lost.                           *)
Alone(p, d) ==
    ~links /\ Assets!Working(p) /\ access[p].op = "commit" /\ access[p].digest = d

LEMMA AssetTypes ==
    ASSUME AssetType
    PROVE  /\ access \in [Procs -> {Assets!Idle} \cup Call]
           /\ lock \in [Runs \cup Digests -> Procs \cup {Nobody}]
           /\ staged \in SUBSET Assets!File /\ given \in SUBSET Assets!File
           /\ closed \in SUBSET Runs /\ committed \in SUBSET Digests /\ links \in BOOLEAN
           /\ final \in [Digests -> {"none", "part", "whole"}]
BY DEF AssetType

LEMMA WorkingCall ==
    ASSUME AssetType, NEW p \in Procs
    PROVE  /\ access[p].at # "resting" => access[p] \in Call
           /\ access[p].at \in Ats \cup {"resting"}
           /\ Assets!Working(p) <=> access[p].at \notin {"resting", "waiting"}
BY DEF AssetType, Assets!Idle, Assets!Working, Call

LEMMA AloneHolds ==
    ASSUME AssetsSafe, NEW p \in Procs, NEW d, Alone(p, d)
    PROVE  lock[d] = p
BY DEF Alone, AssetsSafe, CallOK, Assets!Holds, Assets!KeyOf

LEMMA NobodyElse ==
    ASSUME AssetsSafe, NEW p \in Procs, NEW d, Alone(p, d), NEW q \in Procs \ {p}
    PROVE  ~(/\ access[q].at \in {"publish", "fill", "settle", "published", "unlinked"}
             /\ access[q].digest = d)
<1> SUFFICES ASSUME access[q].at \in {"publish", "fill", "settle", "published", "unlinked"},
                    access[q].digest = d
             PROVE  FALSE
  OBVIOUS
<1>1. Alone(q, d)
  BY WorkingCall DEF Alone, AssetsSafe, CallOK
<1>2. lock[d] = p /\ lock[d] = q
  BY <1>1, AloneHolds
<1> QED  BY <1>2

(* What a step of p may do to a file in place, to staged files and to      *)
(* promises, so that nobody else's expectations break.                     *)
FinalKept(p) ==
    \A d \in Digests : \/ final'[d] = final[d]
                       \/ links /\ final[d] = "none" /\ final'[d] = "whole"
                       \/ Alone(p, d)

Retracts(p, c) == IF ~links /\ c.at \in {"fill", "settle"} THEN {c.digest} ELSE {}

PromisesKept(p, c) ==
    /\ \A d \in committed' : /\ d \in committed \/ Alone(p, d) \/ links
                             /\ final'[d] = "whole" /\ d \notin Retracts(p, c)
    /\ \A r \in Runs, d \in Digests :
         <<r, d>> \in given' \/ (c.at = "staged" /\ c.run = r /\ c.digest = d)
           => Promised(<<r, d>>) \/ <<r, d>> \in staged'
    /\ \A r \in Runs, d \in Digests : <<r, d>> \in staged /\ <<r, d>> \notin staged' =>
         \/ r \in closed'
         \/ final'[d] = "whole" /\ (links \/ Alone(p, d)) /\ d \notin Retracts(p, c)
    /\ \A d \in Digests : final[d] = "whole" /\ ~Retractable(d) =>
         final'[d] = "whole" /\ d \notin Retracts(p, c)

LEMMA AssetStep ==
    ASSUME AssetsSafe, NEW p \in Procs, NEW c, access' = [access EXCEPT ![p] = c],
           AssetType', links' = links, closed \subseteq closed',
           \A k \in Runs \cup Digests : lock'[k] = lock[k] \/ lock[k] \in {p, Nobody},
           FinalKept(p), PromisesKept(p, c), CallOK(p)'
    PROVE  AssetsSafe'
<1>1. /\ AssetType /\ access'[p] = c /\ \A q \in Procs \ {p} : access'[q] = access[q]
      /\ links \in BOOLEAN
  BY DEF AssetsSafe, AssetType
<1>2. ASSUME NEW q \in Procs \ {p}
      PROVE  CallOK(q)'
  <2>1. CallOK(q) /\ access'[q] = access[q] /\ q # Nobody /\ q # p
    BY <1>1, OfficeAssumption DEF AssetsSafe
  <2>2. access[q].at \notin {"resting", "waiting"} =>
          access[q] \in Call /\ Assets!KeyOf(access[q]) \in Runs \cup Digests
    BY <1>1, WorkingCall DEF Assets!KeyOf, Call
  <2>3. ~links /\ Assets!Working(q)' => Assets!Holds(q)'
    BY <2>1, <2>2 DEF CallOK, Assets!Working, Assets!Holds, Assets!KeyOf
  <2>4. access[q].at \in {"fill", "settle", "published", "unlinked"} =>
          /\ access[q].digest \in Digests /\ ~Alone(p, access[q].digest)
    BY <2>2, NobodyElse DEF Call
  <2>5. access[q].at = "fill" => ~links /\ final'[access[q].digest] = "part"
    BY <2>1, <2>4 DEF CallOK, FinalKept
  <2>6. access[q].at \in {"settle", "published", "unlinked"} => final'[access[q].digest] = "whole"
    BY <2>1, <2>4 DEF CallOK, FinalKept
  <2> QED  BY <2>1, <2>3, <2>5, <2>6 DEF CallOK
<1>3. ASSUME NEW d \in Digests, Retractable(d)'
      PROVE  d \in Retracts(p, c) \/ (Retractable(d) /\ ~links /\ ~Alone(p, d))
  <2>1. PICK q \in Procs : access'[q].at \in {"fill", "settle"} /\ access'[q].digest = d
    BY <1>3 DEF Retractable
  <2>2. ~links
    BY <1>3 DEF Retractable
  <2>3. CASE q = p
    BY <1>1, <2>1, <2>2, <2>3 DEF Retracts
  <2>4. CASE q # p
    BY <1>1, <2>1, <2>2, <2>4, NobodyElse DEF Retractable
  <2> QED  BY <2>3, <2>4
<1>4. \A d \in committed' : final'[d] = "whole" /\ ~Retractable(d)'
  BY <1>3 DEF PromisesKept, AssetsSafe, AssetType
<1>5. ASSUME NEW r \in Runs, NEW d \in Digests, Promised(<<r, d>>)'
      PROVE  \/ r \in closed' \/ <<r, d>> \in staged'
             \/ final'[d] = "whole" /\ ~Retractable(d)'
  <2>1. Promised(<<r, d>>) \/ <<r, d>> \in staged'
    <3>1. CASE <<r, d>> \in given'
      BY <3>1 DEF PromisesKept
    <3>2. ASSUME NEW q \in Procs, access'[q].at = "staged", Assets!Mine(q)' = <<r, d>>
          PROVE  Promised(<<r, d>>) \/ <<r, d>> \in staged'
      <4>1. access'[q].run = r /\ access'[q].digest = d
        BY <3>2 DEF Assets!Mine
      <4>2. CASE q = p
        BY <1>1, <3>2, <4>1, <4>2 DEF PromisesKept
      <4>3. CASE q # p
        BY <1>1, <3>2, <4>1, <4>3 DEF Promised, Assets!Mine
      <4> QED  BY <4>2, <4>3
    <3> QED  BY <1>5, <3>1, <3>2 DEF Promised
  <2>2. CASE <<r, d>> \in staged'
    BY <2>2
  <2>3. CASE Promised(<<r, d>>) /\ <<r, d>> \notin staged'
    <3>1. \/ r \in closed \/ <<r, d>> \in staged
          \/ final[d] = "whole" /\ ~Retractable(d)
      BY <2>3 DEF AssetsSafe
    <3> QED  BY <1>3, <2>3, <3>1 DEF PromisesKept
  <2> QED  BY <2>1, <2>2, <2>3
<1> QED  BY <1>2, <1>4, <1>5 DEF AssetsSafe

(* A step of a call that goes on.                                          *)
LEMMA GoesOn ==
    ASSUME AssetsSafe, NEW p \in Procs, NEW from, NEW to \in Ats \ {"waiting"},
           from \notin {"resting", "waiting"}, Assets!Step(p, from, to)
    PROVE  /\ access[p] \in Call /\ access[p].at = from /\ Assets!Working(p) /\ CallOK(p)
           /\ \E c \in Call : /\ access' = [access EXCEPT ![p] = c] /\ c.at = to
                              /\ c.op = access[p].op /\ c.run = access[p].run
                              /\ c.digest = access[p].digest /\ access'[p] = c
           /\ access' \in [Procs -> {Assets!Idle} \cup Call]
<1>1. AssetType /\ access[p].at = from /\ CallOK(p)
  BY DEF AssetsSafe, Assets!Step
<1>2. access[p] \in Call /\ Assets!Working(p)
  BY <1>1, WorkingCall
<1> DEFINE c == [access[p] EXCEPT !.at = to, !.looked = FALSE]
<1>3. access' = [access EXCEPT ![p] = c]
  BY <1>1, AssetTypes DEF Assets!Step
<1>4. /\ c \in Call /\ c.at = to /\ c.op = access[p].op /\ c.run = access[p].run
      /\ c.digest = access[p].digest
  BY <1>2 DEF Call
<1> HIDE DEF c
<1>5. access'[p] = c /\ access' \in [Procs -> {Assets!Idle} \cup Call]
  BY <1>1, <1>3, <1>4, AssetTypes
<1> QED  BY <1>1, <1>2, <1>3, <1>4, <1>5

(* Steps that do not touch files in place or staged ones.                  *)
LEMMA GoesOnQuietly ==
    ASSUME AssetsSafe, NEW p \in Procs, NEW from, NEW to \in Ats \ {"waiting"},
           from \notin {"resting", "waiting"}, Assets!Step(p, from, to),
           UNCHANGED <<lock, staged, final, given, closed, committed, links>>,
           to = "staged" => Assets!Mine(p) \in staged,
           to \notin {"fill", "settle"},
           \/ access[p].op = "stage" /\ to \in {"staged", "write", "rename"}
           \/ /\ access[p].op = "commit" /\ to \in {"write", "publish", "published"}
              /\ to = "published" => final[access[p].digest] = "whole"
    PROVE  AssetsSafe'
<1>1. PICK c \in Call : /\ access' = [access EXCEPT ![p] = c] /\ c.at = to
                        /\ c.op = access[p].op /\ c.run = access[p].run
                        /\ c.digest = access[p].digest /\ access'[p] = c
  BY GoesOn
<1>2. /\ access[p] \in Call /\ access[p].at = from /\ Assets!Working(p) /\ CallOK(p)
      /\ access' \in [Procs -> {Assets!Idle} \cup Call] /\ AssetType
  BY GoesOn DEF AssetsSafe
<1>3. AssetType'
  BY <1>2 DEF AssetType
<1>4. FinalKept(p) /\ Retracts(p, c) = {}
  BY <1>1 DEF FinalKept, Retracts
<1>5. PromisesKept(p, c)
  <2>1. c.at = "staged" => <<c.run, c.digest>> \in staged
    BY <1>1 DEF Assets!Mine
  <2>2. \A d \in committed : final[d] = "whole"
    BY DEF AssetsSafe
  <2> QED  BY <1>4, <2>1, <2>2 DEF PromisesKept, Promised
<1>6. CallOK(p)'
  BY <1>1, <1>2 DEF CallOK, Assets!Holds, Assets!KeyOf, Assets!Working
<1> QED  BY <1>1, <1>3, <1>4, <1>5, <1>6, AssetStep

LEMMA QuietSteps ==
    ASSUME AssetsSafe, NEW p \in Procs,
           Assets!Look(p) \/ Assets!Write(p) \/ Assets!ReadStaged(p)
           \/ Assets!AlreadyThere(p) \/ Assets!Settle(p)
    PROVE  AssetsSafe'
<1>1. CallOK(p)
  BY DEF AssetsSafe
<1>2. ASSUME Assets!Look(p)
      PROVE  AssetsSafe'
  <2> DEFINE to == IF Assets!Mine(p) \in staged THEN "staged" ELSE "write"
  <2>1. Assets!Step(p, "look", to) /\ access[p].op = "stage"
    BY <1>1, <1>2 DEF Assets!Look, Assets!Step, CallOK
  <2>2. UNCHANGED <<lock, staged, final, given, closed, committed, links>>
    BY <1>2 DEF Assets!Look
  <2>3. to \in {"staged", "write"} /\ (to = "staged" => Assets!Mine(p) \in staged)
    OBVIOUS
  <2> HIDE DEF to
  <2> QED  BY <2>1, <2>2, <2>3, GoesOnQuietly DEF Ats
<1>3. ASSUME Assets!Write(p)
      PROVE  AssetsSafe'
  <2> DEFINE to == IF access[p].op = "stage" THEN "rename" ELSE "publish"
  <2>1. Assets!Step(p, "write", to) /\ access[p].op \in {"stage", "commit"}
    BY <1>1, <1>3 DEF Assets!Write, Assets!Step, CallOK
  <2>2. UNCHANGED <<lock, staged, final, given, closed, committed, links>>
    BY <1>3 DEF Assets!Write
  <2>3. IF access[p].op = "stage" THEN to = "rename" ELSE to = "publish"
    OBVIOUS
  <2> HIDE DEF to
  <2> QED  BY <2>1, <2>2, <2>3, GoesOnQuietly DEF Ats
<1>4. ASSUME Assets!ReadStaged(p)
      PROVE  AssetsSafe'
  <2>1. Assets!Step(p, "read", "write") /\ access[p].op = "commit"
    BY <1>1, <1>4 DEF Assets!ReadStaged, Assets!Step, CallOK
  <2>2. UNCHANGED <<lock, staged, final, given, closed, committed, links>>
    BY <1>4 DEF Assets!ReadStaged
  <2> QED  BY <2>1, <2>2, GoesOnQuietly DEF Ats
<1>5. ASSUME Assets!AlreadyThere(p)
      PROVE  AssetsSafe'
  <2>1. /\ Assets!Step(p, "publish", "published") /\ access[p].op = "commit"
        /\ final[access[p].digest] = "whole"
    BY <1>1, <1>5 DEF Assets!AlreadyThere, Assets!SameBytes, Assets!Step, CallOK
  <2>2. UNCHANGED <<lock, staged, final, given, closed, committed, links>>
    BY <1>5 DEF Assets!AlreadyThere
  <2> QED  BY <2>1, <2>2, GoesOnQuietly DEF Ats
<1>6. ASSUME Assets!Settle(p)
      PROVE  AssetsSafe'
  <2>1. /\ Assets!Step(p, "settle", "published") /\ access[p].op = "commit"
        /\ final[access[p].digest] = "whole"
    BY <1>1, <1>6 DEF Assets!Settle, Assets!Step, CallOK
  <2>2. UNCHANGED <<lock, staged, final, given, closed, committed, links>>
    BY <1>6 DEF Assets!Settle
  <2> QED  BY <2>1, <2>2, GoesOnQuietly DEF Ats
<1> QED  BY <1>2, <1>3, <1>4, <1>5, <1>6

(* A file is staged, published or taken from the staging area.             *)
LEMMA RenameSafe ==
    ASSUME AssetsSafe, NEW p \in Procs, Assets!Rename(p)
    PROVE  AssetsSafe'
<1>1. /\ Assets!Step(p, "rename", "staged") /\ staged' = staged \cup {Assets!Mine(p)}
      /\ UNCHANGED <<lock, final, given, closed, committed, links>>
  BY DEF Assets!Rename
<1>2. PICK c \in Call : /\ access' = [access EXCEPT ![p] = c] /\ c.at = "staged"
                        /\ c.op = access[p].op /\ c.run = access[p].run
                        /\ c.digest = access[p].digest /\ access'[p] = c
  BY <1>1, GoesOn DEF Ats
<1>3. /\ access[p] \in Call /\ access[p].at = "rename" /\ Assets!Working(p) /\ CallOK(p)
      /\ access' \in [Procs -> {Assets!Idle} \cup Call] /\ AssetType
  BY <1>1, GoesOn DEF AssetsSafe, Ats
<1>4. Assets!Mine(p) \in Assets!File /\ Assets!Mine(p) = <<access[p].run, access[p].digest>>
  BY <1>3 DEF Assets!Mine, Assets!File, Call
<1>5. AssetType'
  BY <1>1, <1>3, <1>4 DEF AssetType
<1>6. FinalKept(p) /\ Retracts(p, c) = {}
  BY <1>1, <1>2 DEF FinalKept, Retracts
<1>7. PromisesKept(p, c)
  BY <1>1, <1>2, <1>4, <1>6 DEF PromisesKept, AssetsSafe, Promised
<1>8. CallOK(p)'
  BY <1>1, <1>2, <1>3 DEF CallOK, Assets!Holds, Assets!KeyOf, Assets!Working
<1> QED  BY <1>1, <1>2, <1>5, <1>6, <1>7, <1>8, AssetStep

LEMMA PublishSafe ==
    ASSUME AssetsSafe, NEW p \in Procs, Assets!Link(p) \/ Assets!Create(p) \/ Assets!Fill(p)
    PROVE  AssetsSafe'
<1> DEFINE d == access[p].digest
<1>1. /\ \/ /\ links /\ Assets!Step(p, "publish", "settle") /\ final[d] = "none"
            /\ final' = [final EXCEPT ![d] = "whole"]
         \/ /\ ~links /\ Assets!Step(p, "publish", "fill") /\ final[d] = "none"
            /\ final' = [final EXCEPT ![d] = "part"]
         \/ /\ Assets!Step(p, "fill", "settle")
            /\ final' = [final EXCEPT ![d] = "whole"]
      /\ UNCHANGED <<lock, staged, given, closed, committed, links>>
  BY DEF Assets!Link, Assets!Create, Assets!Fill
<1>2. PICK from \in {"publish", "fill"}, to \in {"settle", "fill"}, f \in {"whole", "part"} :
        /\ Assets!Step(p, from, to) /\ final' = [final EXCEPT ![d] = f]
        /\ to = "settle" <=> f = "whole"
        /\ from = "publish" => final[d] = "none" /\ (links <=> to = "settle")
        /\ from = "fill" => to = "settle"
  BY <1>1
<1>3. PICK c \in Call : /\ access' = [access EXCEPT ![p] = c] /\ c.at = to
                        /\ c.op = access[p].op /\ c.run = access[p].run
                        /\ c.digest = d /\ access'[p] = c
  BY <1>2, GoesOn DEF Ats
<1>4. /\ access[p] \in Call /\ access[p].at = from /\ Assets!Working(p) /\ CallOK(p)
      /\ access' \in [Procs -> {Assets!Idle} \cup Call] /\ AssetType
  BY <1>2, GoesOn DEF AssetsSafe, Ats
<1>5. /\ d \in Digests /\ d = access[p].digest /\ access[p].op = "commit" /\ final'[d] = f
      /\ \A e \in Digests \ {d} : final'[e] = final[e]
      /\ final' \in [Digests -> {"none", "part", "whole"}]
  BY <1>2, <1>4, AssetTypes DEF CallOK, Call
<1>6. from = "fill" => ~links /\ final[d] = "part"
  BY <1>4 DEF CallOK
<1> HIDE DEF d
<1>7. AssetType'
  BY <1>1, <1>4, <1>5 DEF AssetType
<1>8. ~links => Alone(p, d)
  BY <1>4, <1>5 DEF Alone, d
<1>9. links => to = "settle" /\ from = "publish" /\ final[d] = "none"
  BY <1>2, <1>6
<1>10. FinalKept(p)
  BY <1>2, <1>5, <1>8, <1>9 DEF FinalKept
<1>11. final[d] # "whole" /\ Retracts(p, c) \subseteq {d}
  BY <1>2, <1>3, <1>6 DEF Retracts
<1>12. PromisesKept(p, c)
  <2>1. d \notin committed
    BY <1>11 DEF AssetsSafe
  <2>2. \A e \in committed : e \in Digests /\ final[e] = "whole"
    BY DEF AssetsSafe, AssetType
  <2>3. \A e \in committed' : final'[e] = "whole" /\ e \notin Retracts(p, c)
    BY <1>1, <1>5, <1>11, <2>1, <2>2
  <2> QED  BY <1>1, <1>3, <1>5, <1>11, <2>3 DEF PromisesKept, Promised
<1>13. CallOK(p)'
  BY <1>1, <1>2, <1>3, <1>4, <1>5, <1>9 DEF CallOK, Assets!Holds, Assets!KeyOf, Assets!Working
<1> QED  BY <1>1, <1>3, <1>7, <1>10, <1>12, <1>13, AssetStep

LEMMA TakenAwaySafe ==
    ASSUME AssetsSafe, NEW p \in Procs, Assets!UnlinkStaged(p) \/ Assets!Remove(p)
    PROVE  AssetsSafe'
<1>1. PICK from \in {"published", "remove"}, to \in {"unlinked", "removed"} :
        /\ Assets!Step(p, from, to) /\ (from = "published" <=> to = "unlinked")
        /\ from = "published" => staged' = staged \ {Assets!Mine(p)}
        /\ from = "remove" => staged' = staged \ Assets!FilesOf(access[p].run)
        /\ UNCHANGED <<lock, final, given, closed, committed, links>>
  BY DEF Assets!UnlinkStaged, Assets!Remove
<1>2. PICK c \in Call : /\ access' = [access EXCEPT ![p] = c] /\ c.at = to
                        /\ c.op = access[p].op /\ c.run = access[p].run
                        /\ c.digest = access[p].digest /\ access'[p] = c
  BY <1>1, GoesOn DEF Ats
<1>3. /\ access[p] \in Call /\ access[p].at = from /\ Assets!Working(p) /\ CallOK(p)
      /\ access' \in [Procs -> {Assets!Idle} \cup Call] /\ AssetType
  BY <1>1, GoesOn DEF AssetsSafe, Ats
<1>4. AssetType'
  BY <1>1, <1>3 DEF AssetType
<1>5. FinalKept(p) /\ Retracts(p, c) = {}
  BY <1>1, <1>2 DEF FinalKept, Retracts
<1>6. ASSUME NEW r \in Runs, NEW d \in Digests, <<r, d>> \in staged, <<r, d>> \notin staged'
      PROVE  r \in closed \/ (final[d] = "whole" /\ (links \/ Alone(p, d)))
  <2>1. CASE from = "published"
    <3>1. d = access[p].digest
      BY <1>1, <1>6, <2>1 DEF Assets!Mine
    <3> QED  BY <1>3, <2>1, <3>1 DEF CallOK, Alone
  <2>2. CASE from = "remove"
    <3>1. r = access[p].run
      BY <1>1, <1>6, <2>2 DEF Assets!FilesOf
    <3> QED  BY <1>3, <2>2, <3>1 DEF CallOK
  <2> QED  BY <2>1, <2>2
<1>7. PromisesKept(p, c)
  BY <1>1, <1>2, <1>5, <1>6 DEF PromisesKept, AssetsSafe, Promised
<1>8. CallOK(p)'
  BY <1>1, <1>2, <1>3 DEF CallOK, Assets!Holds, Assets!KeyOf, Assets!Working
<1> QED  BY <1>1, <1>2, <1>4, <1>5, <1>7, <1>8, AssetStep

(* A call that ends, well or badly.                                        *)
LEMMA Released ==
    ASSUME AssetType, NEW p \in Procs, Assets!Release(p)
    PROVE  /\ lock' \in [Runs \cup Digests -> Procs \cup {Nobody}]
           /\ \A k \in Runs \cup Digests : lock'[k] = lock[k] \/ lock[k] = p
<1>1. CASE ~Assets!Holds(p)
  BY <1>1, AssetTypes DEF Assets!Release
<1>2. CASE Assets!Holds(p)
  <2>1. access[p] \in Call
    BY <1>2, WorkingCall DEF Assets!Holds
  <2>2. Assets!KeyOf(access[p]) \in Runs \cup Digests
    BY <2>1 DEF Assets!KeyOf, Call
  <2>3. lock' = [lock EXCEPT ![Assets!KeyOf(access[p])] = Nobody]
    BY <1>2 DEF Assets!Release
  <2>4. lock[Assets!KeyOf(access[p])] = p
    BY <1>2 DEF Assets!Holds
  <2> QED  BY <2>2, <2>3, <2>4, AssetTypes
<1> QED  BY <1>1, <1>2

LEMMA EndsSafe ==
    ASSUME AssetsSafe, NEW p \in Procs, access' = [access EXCEPT ![p] = Assets!Idle],
           UNCHANGED <<staged, closed, links>>, Assets!Release(p) \/ UNCHANGED lock,
           final' \in [Digests -> {"none", "part", "whole"}], FinalKept(p),
           \A d \in Digests : final[d] = "whole" /\ ~Retractable(d) => final'[d] = "whole",
           given' \in SUBSET Assets!File, \A f \in given' : Promised(f),
           committed' \in SUBSET Digests,
           \A d \in committed' : d \in committed \/ (final'[d] = "whole" /\ (links \/ Alone(p, d)))
    PROVE  AssetsSafe'
<1>1. AssetType /\ access' \in [Procs -> {Assets!Idle} \cup Call] /\ access'[p] = Assets!Idle
  BY DEF AssetsSafe, AssetType
<1>2. /\ lock' \in [Runs \cup Digests -> Procs \cup {Nobody}]
      /\ \A k \in Runs \cup Digests : lock'[k] = lock[k] \/ lock[k] \in {p, Nobody}
  BY <1>1, Released, AssetTypes
<1>3. AssetType'
  BY <1>1, <1>2 DEF AssetType
<1>4. Retracts(p, Assets!Idle) = {} /\ Assets!Idle.at = "resting"
  BY DEF Retracts, Assets!Idle
<1>5. PromisesKept(p, Assets!Idle)
  <2>1. \A d \in committed' : final'[d] = "whole"
    BY <1>1 DEF AssetsSafe
  <2> QED  BY <1>4, <2>1 DEF PromisesKept
<1>6. CallOK(p)'
  BY <1>1, <1>4 DEF CallOK, Assets!Working
<1> QED  BY <1>1, <1>2, <1>3, <1>5, <1>6, AssetStep

LEMMA EndingsSafe ==
    ASSUME AssetsSafe, NEW p \in Procs,
           Assets!TimesOut(p) \/ Assets!StageReturns(p) \/ Assets!CommitReturns(p)
           \/ Assets!DiscardReturns(p) \/ Assets!GiveUp(p) \/ Assets!Crash(p)
    PROVE  AssetsSafe'
<1>1. AssetType /\ CallOK(p)
  BY DEF AssetsSafe
<1>2. \A f \in given : Promised(f)
  BY DEF Promised
<1>3. ASSUME final' = final
      PROVE  /\ final' \in [Digests -> {"none", "part", "whole"}] /\ FinalKept(p)
             /\ \A d \in Digests : final[d] = "whole" /\ ~Retractable(d) => final'[d] = "whole"
  BY <1>1, <1>3, AssetTypes DEF FinalKept
<1>4. ASSUME Assets!TimesOut(p) \/ Assets!DiscardReturns(p) \/ Assets!Crash(p)
      PROVE  AssetsSafe'
  <2>1. /\ access' = [access EXCEPT ![p] = Assets!Idle]
        /\ UNCHANGED <<staged, final, given, closed, committed, links>>
        /\ Assets!Release(p) \/ UNCHANGED lock
    BY <1>4 DEF Assets!TimesOut, Assets!DiscardReturns, Assets!Return, Assets!Crash
  <2> QED  BY <1>1, <1>2, <1>3, <2>1, EndsSafe, AssetTypes
<1>5. ASSUME Assets!StageReturns(p)
      PROVE  AssetsSafe'
  <2>1. /\ access' = [access EXCEPT ![p] = Assets!Idle] /\ given' = given \cup {Assets!Mine(p)}
        /\ UNCHANGED <<staged, final, closed, committed, links>>
        /\ Assets!Release(p) /\ access[p].at = "staged"
    BY <1>5 DEF Assets!StageReturns, Assets!Return
  <2>2. Assets!Mine(p) \in Assets!File /\ Promised(Assets!Mine(p))
    BY <1>1, <2>1, WorkingCall DEF Assets!Mine, Assets!File, Call, Promised
  <2>3. given' \in SUBSET Assets!File /\ \A f \in given' : Promised(f)
    BY <1>1, <1>2, <2>1, <2>2, AssetTypes
  <2> QED  BY <1>1, <1>3, <2>1, <2>3, EndsSafe, AssetTypes
<1>6. ASSUME Assets!CommitReturns(p)
      PROVE  AssetsSafe'
  <2>1. /\ access' = [access EXCEPT ![p] = Assets!Idle]
        /\ committed' = committed \cup {access[p].digest}
        /\ UNCHANGED <<staged, final, given, closed, links>>
        /\ Assets!Release(p) /\ access[p].at = "unlinked" /\ Assets!Holds(p)
    BY <1>6 DEF Assets!CommitReturns, Assets!Return
  <2>2. /\ access[p].digest \in Digests /\ final[access[p].digest] = "whole"
        /\ links \/ Alone(p, access[p].digest)
    BY <1>1, <2>1, WorkingCall DEF CallOK, Call, Alone, Assets!Holds
  <2>3. committed' \in SUBSET Digests
    BY <1>1, <2>1, <2>2, AssetTypes
  <2> QED  BY <1>1, <1>2, <1>3, <2>1, <2>2, <2>3, EndsSafe, AssetTypes
<1>7. ASSUME Assets!GiveUp(p)
      PROVE  AssetsSafe'
  <2>1. /\ access' = [access EXCEPT ![p] = Assets!Idle] /\ Assets!Release(p)
        /\ UNCHANGED <<staged, given, closed, committed, links>> /\ Assets!Working(p)
        /\ final' = IF Assets!Owned(p) THEN [final EXCEPT ![access[p].digest] = "none"]
                    ELSE final
    BY <1>7 DEF Assets!GiveUp
  <2>2. CASE ~Assets!Owned(p)
    BY <1>1, <1>2, <1>3, <2>1, <2>2, EndsSafe, AssetTypes
  <2>3. CASE Assets!Owned(p)
    <3>1. /\ Alone(p, access[p].digest) /\ Retractable(access[p].digest)
          /\ access[p].digest \in Digests
      BY <1>1, <2>1, <2>3, WorkingCall DEF Assets!Owned, Alone, Retractable, CallOK, Call
    <3>2. final' = [final EXCEPT ![access[p].digest] = "none"]
      BY <2>1, <2>3
    <3>3. /\ final' \in [Digests -> {"none", "part", "whole"}] /\ FinalKept(p)
          /\ \A d \in Digests : final[d] = "whole" /\ ~Retractable(d) => final'[d] = "whole"
      BY <1>1, <3>1, <3>2, AssetTypes DEF FinalKept
    <3> QED  BY <1>1, <1>2, <2>1, <3>3, EndsSafe, AssetTypes
  <2> QED  BY <2>2, <2>3
<1> QED  BY <1>4, <1>5, <1>6, <1>7

(* A call that begins, gets its lock or loses it.                          *)
LEMMA LocksSafe ==
    ASSUME AssetsSafe, NEW p \in Procs,
           \/ \E op \in {"stage", "commit", "discard"}, f \in Assets!File : Assets!Begin(p, op, f)
           \/ Assets!TakeLock(p) \/ Assets!LoseLock(p)
    PROVE  AssetsSafe'
<1>1. AssetType /\ CallOK(p)
  BY DEF AssetsSafe
<1>2. ASSUME UNCHANGED <<staged, final, given, committed, links>>, NEW c,
             c.at = "staged" => access[p] = [c EXCEPT !.looked = access[p].looked]
                                /\ access[p] \in Call /\ c \in Call,
             Retracts(p, c) = {}
      PROVE  FinalKept(p) /\ PromisesKept(p, c)
  <2>1. c.at = "staged" => Promised(<<c.run, c.digest>>)
    <3> SUFFICES ASSUME c.at = "staged"
                 PROVE  Promised(<<c.run, c.digest>>)
      OBVIOUS
    <3>1. access[p].at = "staged" /\ access[p].run = c.run /\ access[p].digest = c.digest
      BY <1>2 DEF Call
    <3> QED  BY <3>1 DEF Promised, Assets!Mine
  <2>2. \A d \in committed : final[d] = "whole"
    BY DEF AssetsSafe
  <2> QED  BY <1>2, <2>1, <2>2 DEF FinalKept, PromisesKept, Promised
<1>3. ASSUME NEW op \in {"stage", "commit", "discard"}, NEW f \in Assets!File,
             Assets!Begin(p, op, f)
      PROVE  AssetsSafe'
  <2> DEFINE c == [at |-> "waiting", op |-> op, run |-> f[1], digest |-> f[2],
                   looked |-> FALSE]
  <2>1. /\ access' = [access EXCEPT ![p] = c]
        /\ closed' = IF op = "discard" THEN closed \cup {f[1]} ELSE closed
        /\ UNCHANGED <<lock, staged, final, given, committed, links>>
    BY <1>3 DEF Assets!Begin
  <2>2. /\ c \in Call /\ c.at = "waiting" /\ c.op = op /\ c.run = f[1] /\ f[1] \in Runs
        /\ Retracts(p, c) = {}
    BY DEF Call, Ats, Assets!File, Retracts
  <2> HIDE DEF c
  <2>3. access' \in [Procs -> {Assets!Idle} \cup Call] /\ access'[p] = c
    BY <1>1, <2>1, <2>2, AssetTypes
  <2>4. AssetType' /\ closed \subseteq closed'
    BY <1>1, <2>1, <2>2, <2>3 DEF AssetType
  <2>5. CallOK(p)'
    BY <2>1, <2>2, <2>3 DEF CallOK, Assets!Working
  <2> QED  BY <1>2, <2>1, <2>2, <2>4, <2>5, AssetStep
<1>4. ASSUME Assets!TakeLock(p)
      PROVE  AssetsSafe'
  <2> DEFINE key == Assets!KeyOf(access[p])
             c == [access[p] EXCEPT !.at = Assets!First(access[p].op)]
  <2>1. /\ access' = [access EXCEPT ![p] = c] /\ lock' = [lock EXCEPT ![key] = p]
        /\ lock[key] = Nobody /\ access[p].at = "waiting"
        /\ UNCHANGED <<staged, final, given, closed, committed, links>>
    BY <1>1, <1>4, AssetTypes DEF Assets!TakeLock
  <2>2. access[p] \in Call /\ key \in Runs \cup Digests
    BY <1>1, <2>1, WorkingCall DEF Call, Assets!KeyOf
  <2>3. /\ c \in Call /\ c.op = access[p].op /\ c.run = access[p].run
        /\ c.digest = access[p].digest /\ c.at = Assets!First(access[p].op)
        /\ Assets!KeyOf(c) = key
    BY <2>2 DEF Call, Ats, Assets!First, Assets!KeyOf
  <2>4. \/ c.op = "stage" /\ c.at = "look"
        \/ c.op = "commit" /\ c.at = "read"
        \/ c.op = "discard" /\ c.at = "remove" /\ c.run \in closed
    BY <1>1, <2>1, <2>2, <2>3 DEF CallOK, Call, Assets!First
  <2> HIDE DEF c, key
  <2>5. /\ access' \in [Procs -> {Assets!Idle} \cup Call] /\ access'[p] = c
        /\ lock' \in [Runs \cup Digests -> Procs \cup {Nobody}] /\ lock'[key] = p
        /\ \A k \in Runs \cup Digests : lock'[k] = lock[k] \/ lock[k] = Nobody
    BY <1>1, <2>1, <2>2, <2>3, AssetTypes
  <2>6. AssetType'
    BY <1>1, <2>1, <2>5 DEF AssetType
  <2>7. Assets!Holds(p)'
    BY <2>3, <2>4, <2>5 DEF Assets!Holds, Assets!Working, Assets!KeyOf
  <2>8. CallOK(p)'
    BY <2>1, <2>4, <2>5, <2>7 DEF CallOK
  <2>9. Retracts(p, c) = {}
    BY <2>4 DEF Retracts
  <2> QED  BY <1>2, <2>1, <2>4, <2>5, <2>6, <2>8, <2>9, AssetStep
<1>5. ASSUME Assets!LoseLock(p)
      PROVE  AssetsSafe'
  <2> DEFINE key == Assets!KeyOf(access[p])
  <2>1. PICK looked \in BOOLEAN : access' = [access EXCEPT ![p].looked = looked]
    BY <1>5 DEF Assets!LoseLock
  <2> DEFINE c == [access[p] EXCEPT !.looked = looked]
  <2>2. /\ access' = [access EXCEPT ![p] = c] /\ lock' = [lock EXCEPT ![key] = Nobody]
        /\ lock[key] = p /\ Assets!Working(p) /\ links
        /\ UNCHANGED <<staged, final, given, closed, committed, links>>
    BY <1>1, <1>5, <2>1, AssetTypes DEF Assets!LoseLock, Assets!Holds
  <2>3. access[p] \in Call /\ key \in Runs \cup Digests
    BY <1>1, <2>2, WorkingCall DEF Call, Assets!KeyOf
  <2>4. /\ c \in Call /\ c.op = access[p].op /\ c.run = access[p].run
        /\ c.digest = access[p].digest /\ c.at = access[p].at
        /\ access[p] = [c EXCEPT !.looked = access[p].looked]
    BY <2>3 DEF Call
  <2> HIDE DEF c, key
  <2>5. /\ access' \in [Procs -> {Assets!Idle} \cup Call] /\ access'[p] = c
        /\ lock' \in [Runs \cup Digests -> Procs \cup {Nobody}]
        /\ \A k \in Runs \cup Digests : lock'[k] = lock[k] \/ lock[k] = p
    BY <1>1, <2>2, <2>3, <2>4, AssetTypes
  <2>6. AssetType'
    BY <1>1, <2>2, <2>5 DEF AssetType
  <2>7. CallOK(p)'
    BY <1>1, <2>2, <2>4, <2>5 DEF CallOK
  <2>8. Retracts(p, c) = {}
    BY <2>2 DEF Retracts
  <2> QED  BY <1>2, <2>2, <2>3, <2>4, <2>5, <2>6, <2>7, <2>8, AssetStep
<1> QED  BY <1>3, <1>4, <1>5

LEMMA AssetInit == Assets!Init => AssetsSafe
<1> SUFFICES ASSUME Assets!Init
             PROVE  AssetsSafe
  OBVIOUS
<1>1. AssetType /\ given = {} /\ committed = {}
  BY DEF Assets!Init, AssetType
<1>2. \A p \in Procs : access[p].at = "resting"
  BY DEF Assets!Init, Assets!Idle
<1>3. \A p \in Procs : CallOK(p)
  BY <1>2 DEF CallOK, Assets!Working
<1> QED  BY <1>1, <1>2, <1>3 DEF AssetsSafe, Promised

LEMMA AssetNext == AssetsSafe /\ [Assets!Next]_(Assets!assetVars) => AssetsSafe'
<1>1. ASSUME AssetsSafe, UNCHANGED Assets!assetVars
      PROVE  AssetsSafe'
  BY <1>1 DEF Assets!assetVars, AssetsSafe, AssetType, CallOK, Promised, Retractable,
       Assets!Working, Assets!Holds, Assets!Mine
<1>2. ASSUME AssetsSafe, NEW p \in Procs,
             \/ \E op \in {"stage", "commit", "discard"}, f \in Assets!File : Assets!Begin(p, op, f)
             \/ Assets!TakeLock(p) \/ Assets!LoseLock(p) \/ Assets!Rename(p)
             \/ Assets!Look(p) \/ Assets!Write(p) \/ Assets!ReadStaged(p)
             \/ Assets!AlreadyThere(p) \/ Assets!Settle(p)
             \/ Assets!Link(p) \/ Assets!Create(p) \/ Assets!Fill(p)
             \/ Assets!UnlinkStaged(p) \/ Assets!Remove(p)
             \/ Assets!TimesOut(p) \/ Assets!StageReturns(p) \/ Assets!CommitReturns(p)
             \/ Assets!DiscardReturns(p) \/ Assets!GiveUp(p) \/ Assets!Crash(p)
      PROVE  AssetsSafe'
  BY <1>2, LocksSafe, RenameSafe, QuietSteps, PublishSafe, TakenAwaySafe, EndingsSafe
<1>3. ASSUME AssetsSafe, Assets!Next
      PROVE  AssetsSafe'
  BY <1>2, <1>3 DEF Assets!Next
<1> QED  BY <1>1, <1>3

(* A picture whose commit was reported is on disk with all its bytes, and  *)
(* one whose staging was reported, in a run that nobody discards, is still *)
(* there or published, whatever crashes, lost locks and other writers of   *)
(* the same picture do (asset-storage.ts).                                 *)
THEOREM PicturesSurvive == Assets!Spec => []AssetsSurvive
<1>1. AssetsSafe => AssetsSurvive
  <2> SUFFICES ASSUME AssetsSafe
               PROVE  AssetsSurvive
    OBVIOUS
  <2>1. Assets!CommittedStays
    BY DEF AssetsSafe, Assets!CommittedStays
  <2>2. ASSUME NEW f \in given
        PROVE  f[1] \in closed \/ f \in staged \/ final[f[2]] = "whole"
    <3>1. f[1] \in Runs /\ f[2] \in Digests /\ f = <<f[1], f[2]>>
      BY DEF AssetsSafe, AssetType, Assets!File
    <3> QED  BY <3>1 DEF AssetsSafe, Promised
  <2> QED  BY <2>1, <2>2 DEF AssetsSurvive, Assets!AssetsSurvive, Assets!StagedStays
<1> QED  BY <1>1, AssetInit, AssetNext, PTL DEF Assets!Spec

-----------------------------------------------------------------------------
(* The sheet that shows the stock: a job that is alone and was not         *)
(* overtaken by a change writes what the rows of the stock are.            *)

Line == [sku : Items \cup {None}, total : Int, available : Int, picture : Resources \cup {None}]
StockLine == [sku : Items, total : Int, available : Int, picture : Resources \cup {None}]
JobState == {x \in [at : {"idle", "claimed", "counted", "read", "pictures"}, rows : Seq(StockLine),
                    next : Nat, alone : BOOLEAN] : x.at = "pictures" => x.next > 0}

TargetType ==
    /\ stock \in [Items -> Target!Goods \cup {None}]
    /\ target \in [1..Target!Cardinality(Items) -> Line]
    /\ job \in [Procs -> JobState]
    /\ waiting \in BOOLEAN /\ unannounced \in BOOLEAN /\ settled \in BOOLEAN

AtWork(j) == job[j].at # "idle"
Announced == waiting \/ unannounced
WithoutOthers ==
    /\ \A j, k \in Procs : AtWork(j) /\ job[j].alone /\ AtWork(k) => j = k
    /\ settled => \A j \in Procs : ~AtWork(j)

(* The row of a SKU as it is in stock, and the sheet when the pictures are *)
(* written up to a row.                                                    *)
LineOf(i) == [sku |-> i, total |-> stock[i].total, available |-> stock[i].total - stock[i].reserved,
              picture |-> stock[i].picture]
Unpictured(x) == [x EXCEPT !.picture = None]
Uncounted(x) == [x EXCEPT !.available = 0]
Lines == [n \in 1..Len(Target!InOrder) |-> LineOf(Target!InOrder[n])]
WrittenTo(m) == [n \in DOMAIN target |->
                   IF n > Len(Target!InOrder) THEN Target!Blank
                   ELSE IF n < m THEN Lines[n] ELSE Unpictured(Lines[n])]

UpToDate(j) ==
    /\ job[j].at = "counted" => job[j].rows = [n \in DOMAIN Lines |-> Uncounted(Lines[n])]
    /\ job[j].at \in {"read", "pictures"} => job[j].rows = Lines
    /\ job[j].at = "pictures" => target = WrittenTo(job[j].next)

TargetSafe ==
    /\ TargetType /\ WithoutOthers
    /\ \A j \in Procs : AtWork(j) /\ job[j].alone /\ ~Announced => UpToDate(j)
    /\ TargetShowsStock

LEMMA TargetCardinality == \A S : Target!Cardinality(S) = Cardinality(S)
BY DEF Target!Cardinality, Cardinality

(* A set of numbers that is not empty has a least one.                     *)
LEMMA LeastNumber ==
    ASSUME NEW S \in SUBSET Nat, S # {}
    PROVE  \E n \in S : \A m \in S : n <= m
<1>1. PICK n \in S : \A m \in S : <<m, n>> \notin OpToRel(<, Nat)
  BY WFMin, NatLessThanWellFounded
<1>2. ASSUME NEW m \in S
      PROVE  n <= m
  <2>1. <<m, n>> \notin {x \in Nat \X Nat : x[1] < x[2]}
    BY <1>1, <1>2, Zenon DEF OpToRel
  <2>2. m \in Nat /\ n \in Nat
    OBVIOUS
  <2> QED  BY <2>1, <2>2
<1> QED  BY <1>2

(* A finite set of numbers can be listed in order.                         *)
Sorted(f, n) == \A a, b \in 1..n : a < b => f[a] < f[b]
Sortable(S) == \E f \in [1..Cardinality(S) -> S] : Sorted(f, Cardinality(S))

LEMMA OneMore ==
    ASSUME NEW S \in SUBSET Nat, NEW n \in Nat, NEW x \in S, \A y \in S : x <= y,
           NEW f \in [1..n -> S \ {x}], Sorted(f, n)
    PROVE  \E g \in [1..n + 1 -> S] : Sorted(g, n + 1)
<1> DEFINE g == [a \in 1..n + 1 |-> IF a = 1 THEN x ELSE f[a - 1]]
<1>1. \A a \in 1..n + 1 : a = 1 \/ a - 1 \in 1..n
  OBVIOUS
<1>2. \A a \in 1..n : f[a] \in S /\ f[a] # x /\ f[a] \in Nat
  OBVIOUS
<1>3. g \in [1..n + 1 -> S]
  BY <1>1, <1>2
<1>4. Sorted(g, n + 1)
  <2> SUFFICES ASSUME NEW a \in 1..n + 1, NEW b \in 1..n + 1, a < b
               PROVE  g[a] < g[b]
    BY DEF Sorted
  <2>1. b - 1 \in 1..n /\ g[b] = f[b - 1]
    OBVIOUS
  <2>2. CASE a = 1
    <3>1. g[a] = x /\ x \in Nat
      BY <2>2
    <3>2. f[b - 1] \in Nat /\ f[b - 1] # x /\ x <= f[b - 1]
      BY <1>2, <2>1
    <3> HIDE DEF g
    <3> QED  BY <2>1, <3>1, <3>2
  <2>3. CASE a # 1
    <3>1. a - 1 \in 1..n /\ g[a] = f[a - 1] /\ a - 1 < b - 1
      BY <2>3
    <3> HIDE DEF g
    <3> QED  BY <2>1, <3>1 DEF Sorted
  <2> QED  BY <2>2, <2>3
<1> HIDE DEF g
<1> QED  BY <1>3, <1>4

LEMMA NumbersSortable ==
    ASSUME NEW S \in SUBSET Nat, IsFiniteSet(S)
    PROVE  Sortable(S)
<1> DEFINE Bad == {n \in Nat : \E T \in SUBSET Nat : IsFiniteSet(T) /\ Cardinality(T) = n /\ ~Sortable(T)}
<1>1. Bad = {}
  <2> SUFFICES ASSUME Bad # {}
               PROVE  FALSE
    OBVIOUS
  <2>1. PICK n \in Bad : \A m \in Bad : n <= m
    <3>1. Bad \in SUBSET Nat
      OBVIOUS
    <3> HIDE DEF Bad
    <3> QED  BY <3>1, LeastNumber
  <2>2. PICK T \in SUBSET Nat : IsFiniteSet(T) /\ Cardinality(T) = n /\ ~Sortable(T)
    OBVIOUS
  <2>3. n \in Nat
    OBVIOUS
  <2>4. T # {}
    <3> SUFFICES ASSUME T = {}
                 PROVE  FALSE
      OBVIOUS
    <3>1. Cardinality(T) = 0
      BY FS_EmptySet
    <3>2. \E f : f \in [1..0 -> T]
      <4>1. [a \in 1..0 |-> 0] \in [1..0 -> T]
        OBVIOUS
      <4> QED  BY <4>1
    <3>3. \A f \in [1..0 -> T] : Sorted(f, 0)
      BY DEF Sorted
    <3> QED  BY <2>2, <3>1, <3>2, <3>3 DEF Sortable
  <2>5. PICK x \in T : \A y \in T : x <= y
    BY <2>4, LeastNumber
  <2>6. IsFiniteSet(T \ {x}) /\ Cardinality(T \ {x}) = n - 1
    BY <2>2, <2>5, FS_RemoveElement
  <2>7. n - 1 \in Nat
    BY <2>6, FS_CardinalityType
  <2>8. Sortable(T \ {x})
    <3>1. n - 1 \notin Bad
      <4> HIDE DEF Bad
      <4> QED  BY <2>1, <2>3
    <3> QED  BY <2>6, <2>7, <3>1
  <2>9. PICK f \in [1..n - 1 -> T \ {x}] : Sorted(f, n - 1)
    BY <2>6, <2>8 DEF Sortable
  <2>10. \E g \in [1..(n - 1) + 1 -> T] : Sorted(g, (n - 1) + 1)
    BY <2>5, <2>7, <2>9, OneMore
  <2>11. (n - 1) + 1 = n
    BY <2>3
  <2> QED  BY <2>2, <2>10, <2>11 DEF Sortable
<1>2. Cardinality(S) \in Nat
  BY FS_CardinalityType
<1> QED  BY <1>1, <1>2

Present == {i \in Items : stock[i] # None}

LEMMA InOrderLists == Target!InOrder \in [1..Cardinality(Present) -> Present] /\ Cardinality(Present) \in Nat
<1>1. IsFiniteSet(Present) /\ Present \in SUBSET Nat
  BY OfficeAssumption, FS_Subset DEF Present
<1>2. Cardinality(Present) \in Nat
  BY <1>1, FS_CardinalityType
<1>3. \E f \in [1..Cardinality(Present) -> Present] : \A m, n \in DOMAIN f : m < n => f[m] < f[n]
  <2>1. PICK f \in [1..Cardinality(Present) -> Present] : Sorted(f, Cardinality(Present))
    BY <1>1, NumbersSortable DEF Sortable
  <2>2. DOMAIN f = 1..Cardinality(Present)
    OBVIOUS
  <2> QED  BY <2>1, <2>2 DEF Sorted
<1>4. Target!InOrder = CHOOSE f \in [1..Cardinality(Present) -> Present] :
                          \A m, n \in DOMAIN f : m < n => f[m] < f[n]
  BY TargetCardinality DEF Target!InOrder, Present
<1> HIDE DEF Present
<1>5. Target!InOrder \in [1..Cardinality(Present) -> Present]
  BY <1>3, <1>4, Zenon
<1> QED  BY <1>2, <1>5

(* Rows of the stock, in the order of the sheet.                           *)
LEMMA LinesAre ==
    ASSUME TargetType
    PROVE  /\ Target!InOrder \in Seq(Items) /\ Len(Target!InOrder) \in Nat
           /\ \A n \in 1..Len(Target!InOrder) :
                 /\ Target!InOrder[n] \in Items /\ stock[Target!InOrder[n]] # None
                 /\ LineOf(Target!InOrder[n]) \in StockLine
                 /\ Lines[n] = LineOf(Target!InOrder[n])
           /\ Lines \in Seq(StockLine) /\ Len(Lines) = Len(Target!InOrder)
           /\ DOMAIN Lines = 1..Len(Target!InOrder)
<1>1. Target!InOrder \in [1..Cardinality(Present) -> Present] /\ Cardinality(Present) \in Nat
  BY InOrderLists
<1>2. Target!InOrder \in Seq(Items) /\ Len(Target!InOrder) = Cardinality(Present)
  <2>1. Present \subseteq Items
    BY DEF Present
  <2> HIDE DEF Present
  <2> QED  BY <1>1, <2>1
<1>3. \A n \in 1..Len(Target!InOrder) : Target!InOrder[n] \in Items /\ stock[Target!InOrder[n]] # None
  BY <1>1, <1>2 DEF Present
<1>4. ASSUME NEW i \in Items, stock[i] # None
      PROVE  LineOf(i) \in StockLine
  <2>1. stock[i] \in Target!Goods
    BY <1>4 DEF TargetType
  <2>2. stock[i].total \in Int /\ stock[i].reserved \in Int /\ stock[i].picture \in Resources \cup {None}
    BY <2>1, OfficeAssumption DEF Target!Goods
  <2> QED  BY <1>4, <2>2 DEF LineOf, StockLine
<1>5. \A n \in 1..Len(Target!InOrder) : LineOf(Target!InOrder[n]) \in StockLine
  BY <1>3, <1>4
<1>6. Lines \in [1..Cardinality(Present) -> StockLine]
  BY <1>2, <1>5 DEF Lines
<1>7. Lines \in Seq(StockLine) /\ Len(Lines) = Len(Target!InOrder) /\ DOMAIN Lines = 1..Len(Target!InOrder)
  BY <1>1, <1>2, <1>6
<1>8. \A n \in 1..Len(Target!InOrder) : Lines[n] = LineOf(Target!InOrder[n])
  BY DEF Lines
<1> QED  BY <1>1, <1>2, <1>3, <1>5, <1>7, <1>8

LEMMA SameStock ==
    ASSUME UNCHANGED stock
    PROVE  /\ Target!InOrder' = Target!InOrder /\ Lines' = Lines
           /\ \A i : LineOf(i)' = LineOf(i)
<1>1. Target!InOrder' = Target!InOrder
  BY DEF Target!InOrder
<1>2. \A i : LineOf(i)' = LineOf(i)
  BY DEF LineOf
<1>3. Lines' = Lines
  BY <1>1, <1>2 DEF Lines
<1> QED  BY <1>1, <1>2, <1>3

LEMMA LineFields ==
    ASSUME NEW x \in Line
    PROVE  /\ Unpictured(x) \in Line
           /\ x \in StockLine => Uncounted(x) \in StockLine
           /\ x.picture = None => Unpictured(x) = x
           /\ [Unpictured(x) EXCEPT !.picture = x.picture] = x
<1>1. Unpictured(x) \in Line /\ (x \in StockLine => Uncounted(x) \in StockLine)
  BY DEF Line, StockLine, Unpictured, Uncounted
<1>2. /\ x = [sku |-> x.sku, total |-> x.total, available |-> x.available, picture |-> x.picture]
      /\ Unpictured(x) = [sku |-> x.sku, total |-> x.total, available |-> x.available, picture |-> None]
  BY DEF Line, Unpictured
<1>3. [Unpictured(x) EXCEPT !.picture = x.picture] =
          [sku |-> x.sku, total |-> x.total, available |-> x.available, picture |-> x.picture]
  BY <1>2
<1>4. x.picture = None => Unpictured(x) = x
  BY <1>2
<1> QED  BY <1>1, <1>2, <1>3, <1>4

LEMMA StockLines == StockLine \subseteq Line
BY DEF StockLine, Line

LEMMA BlankIsLine == Target!Blank \in Line
BY DEF Target!Blank, Line

LEMMA IdleIsJob == Target!Idle \in JobState /\ Target!Idle.at = "idle"
<1>1. <<>> \in Seq(StockLine)
  OBVIOUS
<1> QED  BY <1>1 DEF Target!Idle, JobState

LEMMA JobTypes ==
    ASSUME TargetType, NEW j \in Procs
    PROVE  /\ job[j] \in JobState /\ job[j].rows \in Seq(StockLine) /\ job[j].next \in Nat
           /\ job[j].alone \in BOOLEAN /\ Len(job[j].rows) \in Nat
           /\ DOMAIN job[j].rows = 1..Len(job[j].rows)
           /\ \A n \in 1..Len(job[j].rows) : job[j].rows[n] \in StockLine
BY DEF TargetType, JobState

(* The stock changes and another job will follow.                          *)
LEMMA ChangeSafe ==
    ASSUME TargetSafe, NEW i \in Items, NEW g \in Target!Goods \cup {None}, stock' = [stock EXCEPT ![i] = g],
           UNCHANGED <<target, job, settled>>, waiting' \in BOOLEAN, unannounced' \in BOOLEAN, Announced'
    PROVE  TargetSafe'
<1>1. TargetType'
  BY DEF TargetSafe, TargetType
<1>2. WithoutOthers'
  BY DEF TargetSafe, WithoutOthers, AtWork
<1>3. TargetShowsStock'
  BY DEF TargetShowsStock, Target!TargetShowsStock, Announced
<1> QED  BY <1>1, <1>2, <1>3 DEF TargetSafe

LEMMA FiveMinutesSafe ==
    ASSUME TargetSafe, Target!FiveMinutes
    PROVE  TargetSafe'
<1> USE DEF Target!FiveMinutes
<1>1. TargetType'
  BY DEF TargetSafe, TargetType
<1>2. WithoutOthers'
  BY DEF TargetSafe, WithoutOthers, AtWork
<1>3. TargetShowsStock' /\ Announced'
  BY DEF TargetShowsStock, Target!TargetShowsStock, Announced
<1> QED  BY <1>1, <1>2, <1>3 DEF TargetSafe

(* One job goes on, alone or not.                                          *)
LEMMA JobStep ==
    ASSUME TargetSafe, NEW j \in Procs, AtWork(j), UNCHANGED <<stock, waiting, unannounced, settled>>,
           target' \in [1..Target!Cardinality(Items) -> Line],
           job' \in [Procs -> JobState], \A k \in Procs : k # j => job'[k] = job[k],
           job'[j].alone = job[j].alone, AtWork(j)',
           job[j].alone /\ ~Announced => UpToDate(j)'
    PROVE  TargetSafe'
<1>1. TargetType'
  BY DEF TargetSafe, TargetType
<1>2. ~settled
  BY DEF TargetSafe, WithoutOthers
<1>3. \A k \in Procs : AtWork(k)' => AtWork(k)
  BY DEF AtWork
<1>4. \A k \in Procs : job'[k].alone = job[k].alone
  OBVIOUS
<1>5. WithoutOthers'
  BY <1>2, <1>3, <1>4 DEF TargetSafe, WithoutOthers
<1>6. TargetShowsStock'
  BY <1>2 DEF TargetShowsStock, Target!TargetShowsStock
<1>7. ASSUME NEW k \in Procs, AtWork(k)', job'[k].alone, ~Announced'
      PROVE  UpToDate(k)'
  <2>1. k = j
    BY <1>3, <1>4, <1>7 DEF TargetSafe, WithoutOthers
  <2>2. ~Announced
    BY <1>7 DEF Announced
  <2> QED  BY <1>7, <2>1, <2>2
<1> QED  BY <1>1, <1>5, <1>6, <1>7 DEF TargetSafe

(* One job ends early, or all of it was written.                           *)
LEMMA JobEnds ==
    ASSUME TargetSafe, NEW j \in Procs, AtWork(j), UNCHANGED <<stock, target, unannounced>>,
           waiting' \in BOOLEAN, settled' \in BOOLEAN, job' = [job EXCEPT ![j] = Target!Idle],
           waiting => waiting', settled' => settled \/ job[j].alone, TargetShowsStock'
    PROVE  TargetSafe'
<1>1. TargetType'
  BY IdleIsJob DEF TargetSafe, TargetType
<1>2. ~settled /\ \A k \in Procs : AtWork(k)' => AtWork(k) /\ k # j /\ job'[k] = job[k]
  BY IdleIsJob DEF TargetSafe, TargetType, WithoutOthers, AtWork
<1>3. WithoutOthers'
  BY <1>2 DEF TargetSafe, WithoutOthers
<1>4. ASSUME NEW k \in Procs, AtWork(k)', job'[k].alone, ~Announced'
      PROVE  UpToDate(k)'
  BY <1>2, <1>4 DEF TargetSafe, WithoutOthers
<1> QED  BY <1>1, <1>3, <1>4 DEF TargetSafe

LEMMA ClaimSafe ==
    ASSUME TargetSafe, NEW j \in Procs, Target!Claim(j)
    PROVE  TargetSafe'
<1> USE DEF Target!Claim
<1>1. \A k \in Procs : /\ AtWork(k) <=> k \in Target!Working
                       /\ job[k] \in JobState
  BY JobTypes DEF AtWork, Target!Working, TargetSafe
<1>2. job'[j] = [Target!Idle EXCEPT !.at = "claimed", !.alone = Target!Working = {}]
  OBVIOUS
<1>3. job'[j] \in JobState /\ job'[j].at = "claimed"
  BY <1>2, IdleIsJob DEF JobState
<1>4. ASSUME NEW k \in Procs, k # j
      PROVE  /\ job'[k] \in JobState /\ job'[k].at = job[k].at
             /\ job'[k].at # "idle" => ~job'[k].alone
  <2>1. job'[k] = [job[k] EXCEPT !.alone = job[k].alone /\ k \notin Target!Working]
    BY <1>4
  <2>2. job[k].alone \in BOOLEAN /\ job[k] \in JobState
    BY <1>1 DEF JobState
  <2>3. job'[k] \in JobState /\ job'[k].at = job[k].at
    BY <2>1, <2>2 DEF JobState
  <2>4. job'[k].alone = (job[k].alone /\ k \notin Target!Working)
    BY <2>1, <2>2 DEF JobState
  <2> QED  BY <1>1, <2>3, <2>4 DEF AtWork
<1>5. TargetType'
  <2>1. job' \in [Procs -> JobState]
    BY <1>3, <1>4
  <2> QED  BY <2>1 DEF TargetSafe, TargetType
<1>6. job'[j].alone => \A k \in Procs : k # j => ~AtWork(k)'
  <2>1. job'[j].alone = (Target!Working = {})
    BY <1>2 DEF Target!Idle
  <2> QED  BY <1>1, <1>4, <2>1 DEF AtWork
<1>7. WithoutOthers'
  BY <1>4, <1>6 DEF WithoutOthers, AtWork
<1>8. ASSUME NEW k \in Procs, AtWork(k)', job'[k].alone
      PROVE  UpToDate(k)'
  <2>1. k = j
    BY <1>4, <1>8 DEF AtWork
  <2> QED  BY <1>3, <2>1 DEF UpToDate
<1>9. TargetShowsStock'
  BY DEF TargetShowsStock, Target!TargetShowsStock
<1> QED  BY <1>5, <1>7, <1>8, <1>9 DEF TargetSafe

LEMMA ReadRowsSafe ==
    ASSUME TargetSafe, NEW j \in Procs, Target!ReadRows(j)
    PROVE  TargetSafe'
<1> USE DEF Target!ReadRows
<1>1. TargetType
  BY DEF TargetSafe
<1> DEFINE rs == [n \in DOMAIN Lines |-> Uncounted(Lines[n])]
<1>2. rs \in Seq(StockLine)
  BY <1>1, LinesAre, LineFields, StockLines
<1>3. \A n \in 1..Len(Target!InOrder) :
         Uncounted(Lines[n]) = LET i == Target!InOrder[n]
                               IN [sku |-> i, total |-> stock[i].total, available |-> 0, picture |-> stock[i].picture]
  <2> SUFFICES ASSUME NEW n \in 1..Len(Target!InOrder)
               PROVE  Uncounted(LineOf(Target!InOrder[n])) =
                          LET i == Target!InOrder[n]
                          IN [sku |-> i, total |-> stock[i].total, available |-> 0, picture |-> stock[i].picture]
    BY <1>1, LinesAre
  <2> QED  BY DEF LineOf, Uncounted
<1>4. rs = [n \in 1..Len(Target!InOrder) |->
              LET i == Target!InOrder[n]
              IN [sku |-> i, total |-> stock[i].total, available |-> 0, picture |-> stock[i].picture]]
  BY <1>1, <1>3, LinesAre
<1> HIDE DEF rs
<1>5. job' = [job EXCEPT ![j].at = "counted", ![j].rows = rs]
  BY <1>4
<1>6. job[j] \in JobState /\ job \in [Procs -> JobState]
  BY <1>1, JobTypes DEF TargetType
<1>7. job'[j] = [job[j] EXCEPT !.at = "counted", !.rows = rs]
  BY <1>5, <1>6
<1>8. /\ job'[j] \in JobState /\ job'[j].at = "counted" /\ job'[j].rows = rs
      /\ job'[j].alone = job[j].alone
  BY <1>2, <1>6, <1>7 DEF JobState
<1>9. job' \in [Procs -> JobState] /\ \A k \in Procs : k # j => job'[k] = job[k]
  BY <1>5, <1>6, <1>8
<1>10. UpToDate(j)'
  BY <1>8, SameStock DEF UpToDate, rs
<1>11. AtWork(j) /\ AtWork(j)' /\ target' \in [1..Target!Cardinality(Items) -> Line]
  BY <1>1, <1>8 DEF AtWork, TargetType
<1> QED  BY <1>8, <1>9, <1>10, <1>11, JobStep

LEMMA ReadReservedSafe ==
    ASSUME TargetSafe, NEW j \in Procs, Target!ReadReserved(j)
    PROVE  TargetSafe'
<1> USE DEF Target!ReadReserved
<1>1. TargetType
  BY DEF TargetSafe
<1> DEFINE Counted(x) == [x EXCEPT !.available = x.total - Target!Held(stock[x.sku])]
           old == job[j].rows
           rs == [n \in DOMAIN old |-> Counted(old[n])]
<1>2. job[j] \in JobState /\ job \in [Procs -> JobState]
  BY <1>1, JobTypes DEF TargetType
<1>3. old \in Seq(StockLine) /\ Len(old) \in Nat /\ DOMAIN old = 1..Len(old) /\ \A n \in 1..Len(old) : old[n] \in StockLine
  BY <1>1, JobTypes
<1>4. job'[j] = [job[j] EXCEPT !.at = "read", !.rows = rs] /\ \A k \in Procs : k # j => job'[k] = job[k]
  BY <1>2, <1>3
<1>5. ASSUME NEW x \in StockLine
      PROVE  Counted(x) \in StockLine
  <2>1. stock[x.sku] \in Target!Goods \cup {None} /\ x.total \in Int
    BY <1>1 DEF StockLine, TargetType
  <2>2. Target!Held(stock[x.sku]) \in Int
    BY <2>1, OfficeAssumption DEF Target!Held, Target!Goods
  <2>3. x.total - Target!Held(stock[x.sku]) \in Int
    BY <2>1, <2>2
  <2> QED  BY <2>3 DEF StockLine
<1>6. rs \in Seq(StockLine)
  <2>1. \A n \in 1..Len(old) : Counted(old[n]) \in StockLine
    BY <1>3, <1>5
  <2> HIDE DEF Counted, old
  <2> QED  BY <1>3, <2>1
<1>7. ASSUME UpToDate(j)
      PROVE  rs = Lines
  <2>1. old = [n \in DOMAIN Lines |-> Uncounted(Lines[n])]
    BY <1>7 DEF UpToDate
  <2>2. ASSUME NEW n \in DOMAIN Lines
        PROVE  Counted(Uncounted(Lines[n])) = Lines[n]
    <3> DEFINE i == Target!InOrder[n]
    <3>1. i \in Items /\ stock[i] # None /\ Lines[n] = LineOf(i)
      BY <1>1, LinesAre
    <3>2. Target!Held(stock[i]) = stock[i].reserved
      BY <3>1 DEF Target!Held
    <3> HIDE DEF i
    <3>3. Uncounted(LineOf(i)) = [sku |-> i, total |-> stock[i].total, available |-> 0,
                                  picture |-> stock[i].picture]
      BY DEF LineOf, Uncounted
    <3>4. Counted(Uncounted(LineOf(i))) =
              [Uncounted(LineOf(i)) EXCEPT !.available = stock[i].total - Target!Held(stock[i])]
      BY <3>3
    <3>5. Counted(Uncounted(LineOf(i))) = LineOf(i)
      BY <3>2, <3>3, <3>4 DEF LineOf
    <3> QED  BY <3>1, <3>5
  <2>3. rs = [n \in DOMAIN Lines |-> Counted(Uncounted(Lines[n]))]
    <3> HIDE DEF Counted, old
    <3> QED  BY <2>1
  <2>4. rs = [n \in DOMAIN Lines |-> Lines[n]]
    <3> HIDE DEF Counted, rs
    <3> QED  BY <2>2, <2>3
  <2>5. Lines = [n \in DOMAIN Lines |-> Lines[n]]
    BY <1>1, LinesAre
  <2> QED  BY <2>4, <2>5
<1> HIDE DEF rs
<1>8. /\ job'[j] \in JobState /\ job'[j].at = "read" /\ job'[j].rows = rs
      /\ job'[j].alone = job[j].alone
  BY <1>2, <1>4, <1>6 DEF JobState
<1>9. job' \in [Procs -> JobState]
  BY <1>2, <1>4, <1>8
<1>10. job[j].alone /\ ~Announced => UpToDate(j)'
  <2> SUFFICES ASSUME job[j].alone, ~Announced
               PROVE  UpToDate(j)'
    OBVIOUS
  <2>1. UpToDate(j)
    BY DEF TargetSafe, AtWork
  <2>2. job'[j].rows = Lines'
    BY <1>7, <1>8, <2>1, SameStock
  <2> QED  BY <1>8, <2>2 DEF UpToDate
<1>11. AtWork(j) /\ AtWork(j)' /\ target' \in [1..Target!Cardinality(Items) -> Line]
  BY <1>1, <1>8 DEF AtWork, TargetType
<1> QED  BY <1>4, <1>8, <1>9, <1>10, <1>11, JobStep

LEMMA WriteValuesSafe ==
    ASSUME TargetSafe, NEW j \in Procs, Target!WriteValues(j)
    PROVE  TargetSafe'
<1> USE DEF Target!WriteValues
<1>1. TargetType
  BY DEF TargetSafe
<1> DEFINE rs == job[j].rows
<1>2. job[j] \in JobState /\ job \in [Procs -> JobState] /\ rs \in Seq(StockLine) /\ Len(rs) \in Nat
      /\ \A n \in 1..Len(rs) : rs[n] \in Line
  BY <1>1, JobTypes, StockLines DEF TargetType
<1>3. /\ job'[j] = [job[j] EXCEPT !.at = "pictures", !.next = 1]
      /\ job' = [job EXCEPT ![j] = [job[j] EXCEPT !.at = "pictures", !.next = 1]]
  BY <1>2
<1>4. /\ job'[j] \in JobState /\ job'[j].at = "pictures" /\ job'[j].rows = rs /\ job'[j].next = 1
      /\ job'[j].alone = job[j].alone
  BY <1>2, <1>3 DEF JobState
<1>5. job' \in [Procs -> JobState] /\ \A k \in Procs : k # j => job'[k] = job[k]
  BY <1>2, <1>3, <1>4
<1>6. /\ DOMAIN target = 1..Target!Cardinality(Items) /\ Target!Cardinality(Items) \in Nat
      /\ target \in [1..Target!Cardinality(Items) -> Line]
  BY <1>1, OfficeAssumption, TargetCardinality, FS_CardinalityType DEF TargetType
<1>7. target' = [n \in DOMAIN target |-> IF n <= Len(rs) THEN Unpictured(rs[n]) ELSE Target!Blank]
  BY DEF Target!Values, Unpictured
<1>8. target' \in [1..Target!Cardinality(Items) -> Line]
  <2>1. \A n \in DOMAIN target : n <= Len(rs) => Unpictured(rs[n]) \in Line
    <3> SUFFICES ASSUME NEW n \in DOMAIN target, n <= Len(rs)
                 PROVE  Unpictured(rs[n]) \in Line
      OBVIOUS
    <3>1. n \in 1..Len(rs)
      BY <1>2, <1>6
    <3>2. rs[n] \in Line
      BY <1>2, <3>1
    <3> QED  BY <3>2, LineFields
  <2> HIDE DEF rs
  <2> QED  BY <1>6, <1>7, <2>1, BlankIsLine
<1>9. ASSUME job[j].alone, ~Announced
      PROVE  UpToDate(j)'
  <2>1. UpToDate(j)
    BY <1>9 DEF TargetSafe, AtWork
  <2>2. rs = Lines /\ Lines' = Lines /\ Target!InOrder' = Target!InOrder
    BY <2>1, SameStock DEF UpToDate
  <2>3. Len(Lines) = Len(Target!InOrder) /\ Len(Lines) \in Nat
    BY <1>1, LinesAre
  <2>4. \A n \in DOMAIN target : n \in Nat /\ n >= 1
    BY <1>6
  <2>5. DOMAIN target' = DOMAIN target
    BY <1>7
  <2>6. WrittenTo(job[j].next)' = [n \in DOMAIN target |->
            IF n > Len(Target!InOrder) THEN Target!Blank
            ELSE IF n < 1 THEN Lines[n] ELSE Unpictured(Lines[n])]
    BY <1>4, <2>2, <2>5 DEF WrittenTo, Target!Blank
  <2>7. target' = WrittenTo(job[j].next)'
    <3> HIDE DEF rs
    <3> QED  BY <1>7, <2>2, <2>3, <2>4, <2>6
  <2> QED  BY <1>4, <2>2, <2>7 DEF UpToDate
<1>10. AtWork(j) /\ AtWork(j)'
  BY <1>4 DEF AtWork
<1> QED  BY <1>4, <1>5, <1>8, <1>9, <1>10, JobStep

(* The next picture is the first that is left.                             *)
LEMMA FirstPicture ==
    ASSUME TargetType, NEW j \in Procs, Target!Pictured(j) # {}
    PROVE  LET n == Target!Min(Target!Pictured(j)) IN
           /\ n \in Nat /\ job[j].next <= n /\ n <= Len(job[j].rows)
           /\ n \in Target!Pictured(j)
           /\ \A m \in job[j].next..(n - 1) : m \notin Target!Pictured(j)
<1> DEFINE P == Target!Pictured(j)
           n == Target!Min(P)
<1>1. job[j].next \in Nat /\ Len(job[j].rows) \in Nat
  BY JobTypes
<1>2. P \in SUBSET (job[j].next..Len(job[j].rows)) /\ P \in SUBSET Nat
  BY <1>1 DEF Target!Pictured
<1> HIDE DEF P
<1>3. n \in P /\ \A m \in P : n <= m
  BY <1>2, LeastNumber DEF Target!Min, P
<1> HIDE DEF n
<1>4. n \in Nat /\ job[j].next <= n /\ n <= Len(job[j].rows)
  BY <1>1, <1>2, <1>3
<1>5. \A m \in job[j].next..(n - 1) : m \notin P
  BY <1>1, <1>3, <1>4
<1> QED  BY <1>3, <1>4, <1>5 DEF P, n

LEMMA WriteImageSafe ==
    ASSUME TargetSafe, NEW j \in Procs, Target!WriteImage(j)
    PROVE  TargetSafe'
<1> USE DEF Target!WriteImage
<1>1. TargetType
  BY DEF TargetSafe
<1> DEFINE rs == job[j].rows
           from == job[j].next
           n == Target!Min(Target!Pictured(j))
<1>2. job[j] \in JobState /\ job \in [Procs -> JobState] /\ rs \in Seq(StockLine) /\ Len(rs) \in Nat
      /\ from \in Nat /\ from > 0 /\ \A m \in 1..Len(rs) : rs[m] \in Line
  BY <1>1, JobTypes, StockLines DEF TargetType, JobState
<1>3. /\ n \in Nat /\ from <= n /\ n <= Len(rs) /\ n \in 1..Len(rs)
      /\ \A m \in from..(n - 1) : m \in 1..Len(rs) /\ rs[m].picture = None
  <2>1. /\ n \in Nat /\ from <= n /\ n <= Len(rs)
        /\ \A m \in from..(n - 1) : m \notin Target!Pictured(j)
    BY <1>1, FirstPicture
  <2> HIDE DEF n
  <2>2. \A m \in from..(n - 1) : m \in 1..Len(rs) /\ m \in from..Len(rs)
    BY <1>2, <2>1
  <2> QED  BY <1>2, <2>1, <2>2 DEF Target!Pictured
<1>4. target' = [target EXCEPT ![n].picture = rs[n].picture]
  OBVIOUS
<1>5. job' = [job EXCEPT ![j] = [job[j] EXCEPT !.next = n + 1]]
  BY <1>2
<1> HIDE DEF n
<1>6. /\ job'[j] \in JobState /\ job'[j].at = "pictures" /\ job'[j].rows = rs /\ job'[j].next = n + 1
      /\ job'[j].alone = job[j].alone
  <2>1. job'[j] = [job[j] EXCEPT !.next = n + 1]
    BY <1>2, <1>5
  <2>2. n + 1 \in Nat /\ n + 1 > 0
    BY <1>3
  <2> QED  BY <1>2, <2>1, <2>2 DEF JobState
<1>7. job' \in [Procs -> JobState] /\ \A k \in Procs : k # j => job'[k] = job[k]
  BY <1>2, <1>5, <1>6
<1>8. target \in [1..Target!Cardinality(Items) -> Line]
  BY <1>1 DEF TargetType
<1>9. rs[n] \in Line /\ rs[n].picture \in Resources \cup {None}
  BY <1>2, <1>3 DEF Line
<1>10. target' \in [1..Target!Cardinality(Items) -> Line]
  <2>1. \A x \in Line : [x EXCEPT !.picture = rs[n].picture] \in Line
    BY <1>9 DEF Line
  <2>2. target' = [target EXCEPT ![n] = [target[n] EXCEPT !.picture = rs[n].picture]]
    BY <1>4
  <2> DEFINE D == 1..Target!Cardinality(Items)
             y == [target[n] EXCEPT !.picture = rs[n].picture]
  <2>3. n \in D => y \in Line
    BY <1>8, <2>1
  <2>4. target' = [target EXCEPT ![n] = y]
    BY <2>2
  <2> HIDE DEF D, y
  <2>5. target \in [D -> Line]
    BY <1>8 DEF D
  <2>6. target' \in [D -> Line]
    BY <2>3, <2>4, <2>5
  <2> QED  BY <2>6 DEF D
<1>11. ASSUME job[j].alone, ~Announced
       PROVE  UpToDate(j)'
  <2>1. UpToDate(j)
    BY <1>11 DEF TargetSafe, AtWork
  <2>2. rs = Lines /\ Lines' = Lines /\ Target!InOrder' = Target!InOrder
    BY <2>1, SameStock DEF UpToDate
  <2>3. Len(Lines) = Len(Target!InOrder)
    BY <1>1, LinesAre
  <2>4. target = WrittenTo(from)
    BY <2>1 DEF UpToDate
  <2>5. DOMAIN target' = DOMAIN target /\ \A m \in DOMAIN target : m \in Nat /\ m > 0
    <3>1. Target!Cardinality(Items) \in Nat
      BY OfficeAssumption, TargetCardinality, FS_CardinalityType
    <3> QED  BY <1>4, <1>8, <3>1
  <2>6. WrittenTo(job[j].next)' = [m \in DOMAIN target |->
            IF m > Len(rs) THEN Target!Blank
            ELSE IF m < n + 1 THEN rs[m] ELSE Unpictured(rs[m])]
    BY <1>6, <2>2, <2>3, <2>5 DEF WrittenTo, Target!Blank
  <2>7. target = [m \in DOMAIN target |->
            IF m > Len(rs) THEN Target!Blank ELSE IF m < from THEN rs[m] ELSE Unpictured(rs[m])]
    BY <2>2, <2>3, <2>4 DEF WrittenTo
  <2>8. ASSUME NEW m \in DOMAIN target
        PROVE  target'[m] = IF m > Len(rs) THEN Target!Blank
                            ELSE IF m < n + 1 THEN rs[m] ELSE Unpictured(rs[m])
    <3>1. CASE m = n
      <4>1. target[n] = Unpictured(rs[n])
        <5>1. ~(n > Len(rs)) /\ ~(n < from)
          BY <1>2, <1>3
        <5> HIDE DEF rs, from
        <5> QED  BY <2>7, <3>1, <5>1, <2>8
      <4>2. target'[n] = [Unpictured(rs[n]) EXCEPT !.picture = rs[n].picture]
        BY <1>4, <2>8, <3>1, <4>1
      <4>3. target'[n] = rs[n]
        BY <1>9, <4>2, LineFields
      <4>4. ~(n > Len(rs)) /\ n < n + 1
        BY <1>2, <1>3
      <4> HIDE DEF rs
      <4> QED  BY <3>1, <4>3, <4>4
    <3>2. CASE m # n
      <4>1. target'[m] = target[m]
        BY <1>4, <3>2
      <4>2. target[m] = IF m > Len(rs) THEN Target!Blank ELSE IF m < from THEN rs[m] ELSE Unpictured(rs[m])
        <5> HIDE DEF rs, from
        <5> QED  BY <2>7, <2>8
      <4>3. CASE m \in from..(n - 1)
        <5>1. m \in 1..Len(rs) /\ rs[m].picture = None /\ rs[m] \in Line
          BY <1>2, <1>3, <4>3
        <5>2. Unpictured(rs[m]) = rs[m]
          BY <5>1, LineFields
        <5>3. m < n + 1 /\ ~(m > Len(rs)) /\ ~(m < from)
          BY <1>2, <1>3, <4>3, <5>1
        <5> HIDE DEF rs, from
        <5> QED  BY <4>1, <4>2, <5>2, <5>3
      <4>4. CASE m \notin from..(n - 1)
        <5>1. m \in Nat
          BY <2>5
        <5>2. m < from <=> m < n + 1
          BY <1>2, <1>3, <3>2, <4>4, <5>1
        <5> HIDE DEF rs, from
        <5> QED  BY <4>1, <4>2, <5>2
      <4> QED  BY <4>3, <4>4
    <3> QED  BY <3>1, <3>2
  <2>9. target' = WrittenTo(job[j].next)'
    <3>1. target' = [m \in DOMAIN target |-> target'[m]]
      BY <1>10, <2>5
    <3> HIDE DEF rs
    <3> QED  BY <2>6, <2>8, <3>1
  <2> QED  BY <1>6, <2>2, <2>9 DEF UpToDate
<1>12. AtWork(j) /\ AtWork(j)'
  BY <1>6 DEF AtWork
<1> QED  BY <1>6, <1>7, <1>10, <1>11, <1>12, JobStep

LEMMA CompleteSafe ==
    ASSUME TargetSafe, NEW j \in Procs, Target!Complete(j)
    PROVE  TargetSafe'
<1> USE DEF Target!Complete
<1>1. TargetType
  BY DEF TargetSafe
<1> DEFINE rs == job[j].rows
           from == job[j].next
<1>2. rs \in Seq(StockLine) /\ Len(rs) \in Nat /\ from \in Nat /\ from > 0 /\ job[j].alone \in BOOLEAN
      /\ \A m \in 1..Len(rs) : rs[m] \in Line
  BY <1>1, JobTypes, StockLines DEF JobState
<1>3. Target!Shown' = [m \in DOMAIN target |->
                         IF m > Len(Target!InOrder) THEN Target!Blank ELSE LineOf(Target!InOrder[m])]
  BY SameStock DEF Target!Shown, LineOf, Target!Blank
<1>4. ASSUME job[j].alone, ~Announced
      PROVE  target = Target!Shown'
  <2>1. UpToDate(j)
    BY <1>4 DEF TargetSafe, AtWork
  <2>2. rs = Lines /\ target = WrittenTo(from)
    BY <2>1 DEF UpToDate
  <2>3. /\ Len(Target!InOrder) = Len(rs)
        /\ \A m \in 1..Len(rs) : rs[m] = LineOf(Target!InOrder[m])
    BY <1>1, <2>2, LinesAre
  <2>4. \A m \in DOMAIN target : m \in Nat /\ m > 0
    <3>1. Target!Cardinality(Items) \in Nat
      BY OfficeAssumption, TargetCardinality, FS_CardinalityType
    <3> QED  BY <1>1, <3>1 DEF TargetType
  <2>5. ASSUME NEW m \in DOMAIN target
        PROVE  (IF m > Len(rs) THEN Target!Blank ELSE IF m < from THEN rs[m] ELSE Unpictured(rs[m]))
               = IF m > Len(Target!InOrder) THEN Target!Blank ELSE LineOf(Target!InOrder[m])
    <3>1. CASE m > Len(rs)
      BY <2>3, <3>1
    <3>2. CASE ~(m > Len(rs))
      <4>1. m \in 1..Len(rs)
        BY <1>2, <2>4, <3>2
      <4>2. m < from \/ Unpictured(rs[m]) = rs[m]
        <5> SUFFICES ASSUME ~(m < from)
                     PROVE  Unpictured(rs[m]) = rs[m]
          OBVIOUS
        <5>1. m \in from..Len(rs)
          BY <1>2, <4>1
        <5>2. rs[m].picture = None
          BY <5>1 DEF Target!Pictured
        <5> QED  BY <1>2, <4>1, <5>2, LineFields
      <4>3. rs[m] = LineOf(Target!InOrder[m])
        BY <2>3, <4>1
      <4> HIDE DEF rs, from
      <4> QED  BY <2>3, <3>2, <4>2, <4>3
    <3> QED  BY <3>1, <3>2
  <2>6. target = [m \in DOMAIN target |->
            IF m > Len(rs) THEN Target!Blank ELSE IF m < from THEN rs[m] ELSE Unpictured(rs[m])]
    BY <2>2, <2>3 DEF WrittenTo
  <2> HIDE DEF rs, from
  <2> QED  BY <1>3, <2>5, <2>6
<1>5. TargetShowsStock'
  BY <1>4 DEF TargetShowsStock, Target!TargetShowsStock, Announced
<1>6. AtWork(j) /\ waiting' \in BOOLEAN /\ settled' \in BOOLEAN
  BY <1>1, <1>2 DEF AtWork, TargetType
<1> QED  BY <1>5, <1>6, JobEnds

LEMMA StopSafe ==
    ASSUME TargetSafe, NEW j \in Procs, Target!Stop(j), waiting' \in BOOLEAN, waiting => waiting'
    PROVE  TargetSafe'
<1> USE DEF Target!Stop
<1>1. AtWork(j) /\ settled' \in BOOLEAN /\ ~settled'
  BY DEF AtWork, TargetSafe, TargetType, WithoutOthers
<1>2. TargetShowsStock'
  BY <1>1 DEF TargetShowsStock, Target!TargetShowsStock
<1> QED  BY <1>1, <1>2, JobEnds

LEMMA TargetInit == Target!Init => TargetSafe
<1> SUFFICES ASSUME Target!Init
             PROVE  TargetSafe
  OBVIOUS
<1> USE DEF Target!Init
<1>1. TargetType
  BY IdleIsJob, BlankIsLine DEF TargetType
<1>2. \A j \in Procs : ~AtWork(j)
  BY IdleIsJob DEF AtWork
<1>3. TargetShowsStock
  BY DEF TargetShowsStock, Target!TargetShowsStock
<1> QED  BY <1>1, <1>2, <1>3 DEF TargetSafe, WithoutOthers

LEMMA TargetNext == TargetSafe /\ [Target!Next]_(Target!targetVars) => TargetSafe'
<1> SUFFICES ASSUME TargetSafe, [Target!Next]_(Target!targetVars)
             PROVE  TargetSafe'
  OBVIOUS
<1>1. CASE Target!FiveMinutes
  BY <1>1, FiveMinutesSafe
<1>2. ASSUME NEW i \in Items, NEW g \in Target!Goods \cup {None}, Target!Announced(i, g)
      PROVE  TargetSafe'
  <2>1. waiting' /\ waiting' \in BOOLEAN /\ unannounced' \in BOOLEAN /\ Announced'
    BY <1>2 DEF Target!Announced, Announced, TargetSafe, TargetType
  <2> QED  BY <1>2, <2>1, ChangeSafe DEF Target!Announced, Target!Change
<1>3. ASSUME NEW i \in Items, NEW g \in Target!Goods \cup {None}, Target!Silent(i, g)
      PROVE  TargetSafe'
  <2>1. waiting' \in BOOLEAN /\ unannounced' \in BOOLEAN /\ Announced'
    BY <1>3 DEF Target!Silent, Announced, TargetSafe, TargetType
  <2> QED  BY <1>3, <2>1, ChangeSafe DEF Target!Silent, Target!Change
<1>4. ASSUME NEW j \in Procs, \/ Target!Claim(j) \/ Target!ReadRows(j) \/ Target!ReadReserved(j)
                              \/ Target!WriteValues(j) \/ Target!WriteImage(j) \/ Target!Complete(j)
      PROVE  TargetSafe'
  BY <1>4, ClaimSafe, ReadRowsSafe, ReadReservedSafe, WriteValuesSafe, WriteImageSafe, CompleteSafe
<1>5. ASSUME NEW j \in Procs, Target!TryAgain(j) \/ Target!GiveUp(j)
      PROVE  TargetSafe'
  <2>1. Target!Stop(j) /\ waiting' \in BOOLEAN /\ (waiting => waiting')
    BY <1>5 DEF Target!TryAgain, Target!GiveUp, TargetSafe, TargetType
  <2> QED  BY <2>1, StopSafe
<1>6. CASE UNCHANGED Target!targetVars
  <2>1. UNCHANGED <<stock, target, waiting, unannounced, job, settled>>
    BY <1>6 DEF Target!targetVars
  <2>2. TargetType' /\ WithoutOthers'
    BY <2>1 DEF TargetSafe, TargetType, WithoutOthers, AtWork
  <2>3. TargetShowsStock'
    <3>1. Target!Shown' = Target!Shown
      BY <2>1, SameStock DEF Target!Shown, Target!Blank
    <3> QED  BY <2>1, <3>1 DEF TargetSafe, TargetShowsStock, Target!TargetShowsStock
  <2>4. \A j \in Procs : UpToDate(j) => UpToDate(j)'
    <3>1. \A m : WrittenTo(m)' = WrittenTo(m)
      BY <2>1, SameStock DEF WrittenTo, Target!Blank
    <3> QED  BY <2>1, <3>1, SameStock DEF UpToDate
  <2> QED  BY <2>1, <2>2, <2>3, <2>4 DEF TargetSafe, AtWork, Announced
<1> QED  BY <1>1, <1>2, <1>3, <1>4, <1>5, <1>6 DEF Target!Next

(* Once a job that nobody disturbed has come to its end and no other is due,          *)
(* the sheet shows each SKU in its row with its own stock and picture, for any        *)
(* SKUs, jobs, pictures and changes (feishu/cargo-sync.ts).                           *)
THEOREM TargetAlwaysShowsStock == Target!Spec => []TargetShowsStock
<1>1. TargetSafe => TargetShowsStock
  BY DEF TargetSafe
<1>2. Target!Spec => []TargetSafe
  BY TargetInit, TargetNext, PTL DEF Target!Spec
<1> QED  BY <1>1, <1>2, PTL
=============================================================================
