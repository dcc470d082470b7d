--------------------------- MODULE MCFulfillment ---------------------------
(* Instances of Fulfillment for TLC.                                       *)
EXTENDS Fulfillment, TLC

CONSTANTS p1, p2, r1, w1, w2

Two   == {p1, p2}
One   == {p1}
NoOne == {}
Again == {r1}

\* Jifeng may do everything with every package.
AnyFate == [p \in All |-> {2, 7, 8, 9}]

\* Jifeng only works on the packages and ships or cancels them.
PlainFate == [p \in All |-> {2, 7, 9}]

Symmetry == Permutations(Packages)

-----------------------------------------------------------------------------
(* Three scenes, so that the interesting cases fit: what is outside them   *)
(* is not explored further.                                                *)

Alone ==
    /\ job[w2] = Idle
    /\ \A p \in All : row[p].poller # w2 /\ event[p].token # w2

\* One worker and two packages; administrators retry, Jifeng does not hold up.
Siblings ==
    /\ \A r \in Replacements : request[r] = "NONE"
    /\ \A p \in All : remote[p] # HeldUp
    /\ retries = 0 \/ \A p \in All : remote[p] \in {Absent, Shipped}
    /\ job[w1].task # "refresh" /\ Alone

\* One worker, two packages and a replacement; Jifeng ships whatever it gets.
Replaced ==
    /\ retries = 0
    /\ \A p \in All : remote[p] \in {Absent, Active, Shipped}
    /\ Cardinality({p \in All : remote[p] = Active}) <= 1
    /\ job[w1].task # "refresh" /\ Alone

\* Two workers over one package; Jifeng does whatever it likes.
Rivals ==
    /\ retries = 0
    /\ Cardinality({p \in All : row[p] # NoRow}) <= 1
    /\ Cardinality({p \in All : remote[p] # Absent}) <= 1

Scenes == Siblings \/ Replaced \/ Rivals
=============================================================================
