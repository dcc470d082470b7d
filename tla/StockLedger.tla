---------------------------- MODULE StockLedger ----------------------------
(***************************************************************************)
(* What the inventory component promises, one atomic step per committed    *)
(* database transaction.  The stock of a SKU is a number of units; a       *)
(* reference (a fulfillment order or a replacement request) holds units of *)
(* it while its inventory_reservations row is ACTIVE.  The promise is that *)
(* every unit held exists: nothing that is sold twice is ever shipped.     *)
(*                                                                         *)
(* Inventory.tla has the transactions as the code runs them, statement by  *)
(* statement under row locks, and implements this module.                  *)
(***************************************************************************)
EXTENDS Integers, FiniteSets

CONSTANTS
    Skus,       \* the SKUs, numbered in the order of their ids
    Refs,       \* reference ids that reservations are made under
    MaxUnits    \* bound: the largest quantity one reservation row holds

VARIABLES
    total,      \* inventory_balances.total_quantity of each SKU
    held        \* units of each SKU in ACTIVE reservations of each reference

stockVars == <<total, held>>

Quantities == [Skus -> 0..MaxUnits]
Holdings   == [Refs -> Quantities]

(* The units of SKU s that the holdings h claim, one element per unit.     *)
Units(h, s) == {u \in Refs \X (1..MaxUnits) : u[2] <= h[u[1]][s]}

(* The sum over ACTIVE reservations that getReservedQuantity computes.     *)
Reserved(h, s) == Cardinality(Units(h, s))

StockTypeOK ==
    /\ total \in [Skus -> Nat]
    /\ held \in Holdings

(* Every unit promised to an order or a replacement exists.                *)
NoOversell == \A s \in Skus : Reserved(held, s) <= total[s]

StockInit ==
    /\ total \in [Skus -> Nat]
    /\ held = [r \in Refs |-> [s \in Skus |-> 0]]

(* Reservations are granted only for units that nobody else holds.         *)
Promise ==
    /\ held' \in Holdings
    /\ \A r \in Refs, s \in Skus : held[r][s] <= held'[r][s]
    /\ \A s \in Skus : Reserved(held', s) <= total[s]
    /\ UNCHANGED total

(* A cancelled, expired or rejected reference gives units back.            *)
GiveBack ==
    /\ held' \in Holdings
    /\ \A r \in Refs, s \in Skus : held'[r][s] <= held[r][s]
    /\ UNCHANGED total

(* A parcel leaves: the stock loses exactly the units its reference gives  *)
(* up, and no other reference is touched.                                  *)
Ship == \E r \in Refs :
    /\ held' \in Holdings
    /\ \A x \in Refs \ {r} : held'[x] = held[x]
    /\ \A s \in Skus : held'[r][s] <= held[r][s]
    /\ total' = [s \in Skus |-> total[s] - (held[r][s] - held'[r][s])]

(* The stock is set anew, to no less than what is promised.                *)
Restock ==
    /\ total' \in [Skus -> Nat]
    /\ \A s \in Skus : total'[s] # total[s] => Reserved(held, s) <= total'[s]
    /\ UNCHANGED held

StockNext == Promise \/ GiveBack \/ Ship \/ Restock

StockSpec == StockInit /\ [][StockNext]_stockVars
=============================================================================
