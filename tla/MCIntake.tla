----------------------------- MODULE MCIntake ------------------------------
(***************************************************************************)
(* ImportBatch and BulkDraft for TLC. They share no state: the variable    *)
(* scene says which of them moves, and in ImportBatch which of its steps   *)
(* are explored together, so that one run holds the sum of their states    *)
(* and not the product.                                                    *)
(***************************************************************************)
EXTENDS Naturals, Sequences, FiniteSets, TLC

CONSTANTS Batches, Rows, RowNo, FileOf, Key, Pack, Lookup, Quantity, Skus, Codes, Catalog,
          Sessions, NoSku, Own, NoTab, NoOne, Quantities, MaxItems, MaxRevision, MaxRuns, MaxStock,
          Drafts, Stores, Files, Numbers, Hash, Keys, None, MaxOrders
CONSTANTS b1, b2, r1, r2, r3, A, B, d1, d2, s1, s2, f1, f2

VARIABLES batch, expired, row, count, alias, stock, usable, live, tab, run, aiLock, recent, pending
VARIABLES draft, late, group, file, orders, op, result
VARIABLE scene

importVars == <<batch, expired, row, count, alias, stock, usable, live, tab, run, aiLock, recent, pending>>
bulkVars == <<draft, late, group, file, orders, op, result>>

Import == INSTANCE ImportBatch
Bulk == INSTANCE BulkDraft

\* Two files of one shop: the second repeats an order of the first.
Number   == (r1 :> 1) @@ (r2 :> 2) @@ (r3 :> 1)
File     == (r1 :> b1) @@ (r2 :> b1) @@ (r3 :> b2)
SubOrder == (r1 :> 1) @@ (r2 :> 2) @@ (r3 :> 3)
Order    == (r1 :> 1) @@ (r2 :> 1) @@ (r3 :> 1)
Forms    == (r1 :> <<"long", "short">>) @@ (r2 :> <<"short">>) @@ (r3 :> <<"long">>)
Pieces   == (r1 :> 1) @@ (r2 :> 1) @@ (r3 :> 2)
Known0   == ("short" :> A) @@ ("long" :> NoSku)

\* Two files of a draft that share an order.
Content == (f1 :> {1}) @@ (f2 :> {1, 2})
Digest  == (f1 :> 1) @@ (f2 :> 2)

Init == Import!Init /\ Bulk!Init /\ scene \in {"orders", "tabs", "model", "drafts"}

UploadSecond == \E bad \in SUBSET Import!RowsOf(b2) : Import!Upload(b2, bad)
ByHand == \E r \in Rows : Import!Override(r, B, 1, FALSE)

Goods == Import!SkuChanges(A) \/ Import!StockMoves(A) \/ Import!CreateAlias("long", B)
Orders1 == Import!FileStep \/ Goods \/ ByHand
Tabs == UploadSecond \/ Import!RowStep \/ Goods \/ Import!FindExpired(b2) \/ Import!Expire(b2)
Model == \/ UploadSecond \/ Import!SuggestionStep \/ Goods \/ ByHand \/ Import!Expire(b2)
         \/ \E x \in pending : Import!Accept(r3, x, A, FALSE)

Next ==
    /\ UNCHANGED scene
    /\ \/ scene = "orders" /\ Orders1 /\ UNCHANGED bulkVars
       \/ scene = "tabs" /\ Tabs /\ UNCHANGED bulkVars
       \/ scene = "model" /\ Model /\ UNCHANGED bulkVars
       \/ scene = "drafts" /\ Bulk!Next /\ UNCHANGED importVars
Spec == Init /\ [][Next]_<<importVars, bulkVars, scene>>

\* Both stores in one draft, or a draft of each.
OneDraft == draft[d2] = "NONE"
Apart == group[<<d1, s2>>].status = "NONE" /\ group[<<d2, s1>>].status = "NONE"
Drafted == OneDraft \/ Apart

\* What the proofs use: the names that stand for nothing are of no other kind, rows
\* have numbers in their file, a form of a code is looked up where codes are kept, and
\* there are finitely many rows, drafts and stores.
ASSUME IntakeAssumption ==
    /\ IsFiniteSet(Rows) /\ FileOf \in [Rows -> Batches] /\ RowNo \in [Rows -> Nat]
    /\ \A x, y \in Rows : FileOf[x] = FileOf[y] /\ RowNo[x] = RowNo[y] => x = y
    /\ Lookup \in [Rows -> Seq(Codes)] /\ Catalog \in [Codes -> Skus \cup {NoSku}]
    /\ Quantity \in [Rows -> Nat] /\ Quantities \subseteq Nat
    /\ MaxItems \in Nat /\ MaxRevision \in Nat /\ MaxRuns \in Nat /\ MaxStock \in Nat
    /\ NoSku \notin Skus /\ Own \notin Skus /\ NoSku # Own /\ NoOne \notin Sessions
ASSUME DraftAssumption ==
    /\ IsFiniteSet(Drafts) /\ IsFiniteSet(Stores)
    /\ None \notin [draft : Drafts, created : SUBSET (Drafts \X Stores),
                    failed : SUBSET (Drafts \X Stores)]

Symmetry == Permutations(Keys) \cup Permutations(Sessions)

\* The counters and marks of a preview agree with its rows.
PreviewsAddUp == Import!PreviewsAddUp
\* No two orders that are alive ship the same order of the shop.
OneOrderPerNumber == Import!OneOrderPerNumber
\* A slow tab overwrites nothing that it did not show.
NoLostEdit == Import!NoLostEdit
\* What can be accepted was checked for the pieces that the row has now.
SuggestionsFit == Import!SuggestionsFit
\* Bulk submissions never order twice what a shop sold once.
NumbersLiveOnce == Bulk!NumbersLiveOnce
\* Every bulk order is in the stored answer of one request, and the draft says so.
OrdersAnswerable == Bulk!OrdersAnswerable
\* The validation and the submission of a draft agree.
OnlySubmittableOrdered == Bulk!OnlySubmittableOrdered
=============================================================================
