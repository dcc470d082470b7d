------------------------------ MODULE MCOutbox ------------------------------
(* Instances of Outbox for TLC.                                            *)
EXTENDS Outbox, TLC

CONSTANTS e1, e2, j1, j2

TwoRows == {e1, e2}
TwoJobs == {j1, j2}

TwoCargo   == (e1 :> "cargo") @@ (e2 :> "cargo")
TwoMirrors == (e1 :> "mirror") @@ (e2 :> "mirror")

(* The mirror tries again sooner than the others.                          *)
Delays == [c \in Channels |-> IF c = "mirror" THEN 1 ELSE 2]

RowSymmetry == Permutations(Events) \cup Permutations(Jobs)
=============================================================================
