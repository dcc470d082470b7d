---------------------------- MODULE MCInventory ----------------------------
(* Instances of Inventory for TLC.                                         *)
EXTENDS Inventory, TLC

CONSTANTS t1, t2, r1, r2

TwoSessions == {t1, t2}
OneRef      == {r1}
TwoRefs     == {r1, r2}

(* The life of reservations, while the stock is adjusted.                  *)
OrderKinds == {"reserve", "ship", "release", "adjust", "count"}

(* Everything but the mirror, which stops the others while it plans.       *)
EveryKind == OrderKinds \cup {"replace", "groups", "lateShip", "create"}

(* Everybody who locks balance rows in the order of the SKU ids.           *)
SortedKinds == {"reserve", "groups", "ship", "count", "mirror"}

(* The mirror while SKUs are created and ordered.                          *)
MirrorKinds == {"reserve", "mirror", "create"}

SafetySymmetry == Permutations(Txns) \cup Permutations(Refs)
=============================================================================
