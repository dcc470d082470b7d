----------------------------- MODULE MCPayments -----------------------------
(* Instances of Payments for TLC.                                          *)
EXTENDS Payments, TLC

CONSTANTS o1, o2, b1, b2

TwoOrders   == {o1, o2}
OneBatch    == {b1}
TwoBatches  == {b1, b2}

(* The second order costs twice as much as the others, or all cost the     *)
(* same, so that a wallet may pay a part of each.                          *)
Prices == [o \in Orders |-> IF o = o2 THEN 2 ELSE 1]

SamePrices == [o \in Orders |-> 2]

Symmetry == Permutations(Batches) \cup Permutations(Orders)
=============================================================================
