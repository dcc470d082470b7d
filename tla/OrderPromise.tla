---------------------------- MODULE OrderPromise ----------------------------
(***************************************************************************)
(* What the payment of fulfillment orders promises, one atomic step per    *)
(* committed transaction.  An order that has been placed holds its stock   *)
(* until it is closed; it is paid in full or not at all, once; closing it  *)
(* gives all of the money and all of the stock back.                       *)
(*                                                                         *)
(* Payments.tla has the transactions of the code (wallet debits, payment   *)
(* claims, settlement batches with wallet holds, deadlines) and implements *)
(* this module.                                                            *)
(***************************************************************************)
EXTENDS Integers

CONSTANTS
    Orders,     \* the fulfillment orders of one customer
    Amount      \* what each order costs

VARIABLES
    stage,      \* how far each order has come
    kept,       \* the customer's money that is kept for each order
    stock       \* whether stock is held for each order

promiseVars == <<stage, kept, stock>>

PromiseInit ==
    /\ stage = [o \in Orders |-> "new"]
    /\ kept = [o \in Orders |-> 0]
    /\ stock = [o \in Orders |-> FALSE]

(* The orders S, all in one of the stages "from", get to the stage "to".   *)
Move(S, from, to) ==
    /\ \A o \in S : stage[o] \in from
    /\ stage' = [o \in Orders |-> IF o \in S THEN to ELSE stage[o]]
    /\ kept' = [o \in Orders |-> IF o \notin S THEN kept[o]
                                 ELSE IF to = "paid" THEN Amount[o] ELSE 0]
    /\ stock' = [o \in Orders |-> IF o \in S THEN to # "closed" ELSE stock[o]]

PlaceUnpaid(S) == Move(S, {"new"}, "open")
Pay(S)         == Move(S, {"new", "open"}, "paid")
Close(S)       == Move(S, {"open", "paid"}, "closed")

PromiseNext == \E S \in SUBSET Orders : PlaceUnpaid(S) \/ Pay(S) \/ Close(S)

PromiseSpec == PromiseInit /\ [][PromiseNext]_promiseVars
=============================================================================
