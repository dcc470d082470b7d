----------------------- MODULE InventoryLedgerProofs -----------------------
(***************************************************************************)
(* The transactions of Inventory implement the atomic steps of StockLedger,*)
(* no update is lost, a reservation is whole or nothing, and only          *)
(* replacements can wait for each other in a circle: for any number of     *)
(* sessions, SKUs and references.                                          *)
(***************************************************************************)
EXTENDS InventoryProofs

-----------------------------------------------------------------------------
(* What a commit does to the committed stock.                              *)

(* The ledger counts reserved units as the database does.                  *)
LEMMA LedgerReserved == \A h, s : Ledger!Reserved(h, s) = Reserved(h, s)
BY DEF Ledger!Reserved, Ledger!Units, Ledger!Cardinality, Reserved, Units, Cardinality


(* A shipment takes the planned units of its one order from the stock and  *)
(* from what the order holds, and only from stock it read under its lock.  *)
LEMMA ShipmentTakes ==
    ASSUME StockSafe, NEW t \in Txns, CommitShipment(t)
    PROVE  /\ \A s \in Skus : total'[s] # total[s] => tx[t].base[s] = total[s]
           /\ \E r \in Refs :
                /\ \A x \in Refs \ {r} : held'[x] = held[x]
                /\ \A s \in Skus : /\ held'[r][s] <= held[r][s]
                                   /\ total'[s] = total[s] - (held[r][s] - held'[r][s])
<1> DEFINE x == tx[t]
<1>1. /\ x.step = "commit" /\ x.kind = "ship"
      /\ held' = [r \in Refs |-> [s \in Skus |-> held[r][s] - x.plan[r][s]]]
      /\ \A s \in Skus : total'[s] = IF s \in x.written
                                     THEN x.base[s] - Reserved(x.plan, s) ELSE total[s]
      /\ held \in Holdings /\ total \in [Skus -> 0..MaxTotal]
      /\ x.plan \in Holdings /\ x.written \subseteq Skus
      /\ StepOK(t) /\ LocksOK(t)
  BY DEF CommitShipment, Stock, StockSafe, SessionOK, TypeOK, Sessions
<1>2. /\ held' \in Holdings
      /\ \A s \in Skus : Reserved(held', s) <= Reserved(held, s)
  BY <1>1, TakenOut
<1>3. PICK r0 \in Refs, q \in Quantities : x.plan = Single(r0, q)
  BY <1>1 DEF LocksOK
<1>4. /\ x.plan[r0] = q
      /\ \A s \in Skus : q[s] \in 0..MaxUnits /\ Reserved(x.plan, s) = q[s]
      /\ \A r \in Refs \ {r0}, s \in Skus : x.plan[r][s] = 0
  <2>1. \A s \in Skus : Reserved(Single(r0, q), s) = q[s]
    BY ReservedSingle
  <2> QED  BY <1>3, <2>1 DEF Single, Nothing, Quantities
<1>5. \A s \in x.written : s \in Skus /\ x.base[s] = total[s]
  BY <1>1 DEF LocksOK, Owns
<1>6. \A s \in Skus \ x.written : q[s] = 0
  <2> SUFFICES ASSUME NEW s \in Skus \ x.written
               PROVE  q[s] = 0
    OBVIOUS
  <2>1. ~(x.plan[r0][s] > 0)
    BY <1>1 DEF StepOK, Wanted
  <2> QED  BY <1>4, <2>1, InventoryAssumption
<1> HIDE DEF x
<1>7. \A r \in Refs, s \in Skus : /\ held[r][s] \in 0..MaxUnits
                                  /\ held'[r][s] = held[r][s] - x.plan[r][s]
  BY <1>1 DEF Holdings, Quantities
<1>8. \A r \in Refs \ {r0} : held'[r] = held[r]
  <2> SUFFICES ASSUME NEW r \in Refs \ {r0}
               PROVE  held'[r] = held[r]
    OBVIOUS
  <2>1. \A s \in Skus : held'[r][s] = held[r][s]
    BY <1>4, <1>7
  <2> QED  BY <1>1, <1>2, <2>1 DEF Holdings, Quantities
<1>9. ASSUME NEW s \in Skus
      PROVE  /\ held'[r0][s] <= held[r0][s]
             /\ total'[s] = total[s] - (held[r0][s] - held'[r0][s])
             /\ total'[s] # total[s] => x.base[s] = total[s]
  <2>1. /\ held[r0][s] \in Int /\ q[s] \in Nat /\ total[s] \in Int
        /\ held'[r0][s] = held[r0][s] - q[s]
    BY <1>1, <1>4, <1>7
  <2>2. total'[s] = total[s] - q[s]
    BY <1>1, <1>4, <1>5, <1>6, <2>1
  <2>3. s \notin x.written => total'[s] = total[s]
    BY <1>1
  <2> QED  BY <1>5, <2>1, <2>2, <2>3
<1> QED  BY <1>8, <1>9 DEF x

(* A late shipment moves units from the stock to those shipped late.       *)
LEMMA LateShipmentMoves ==
    ASSUME StockSafe, NEW t \in Txns, CommitLateShipment(t)
    PROVE  \A s \in Skus : /\ total'[s] + late'[s] = total[s] + late[s]
                           /\ total'[s] # total[s] => tx[t].base[s] = total[s]
<1> DEFINE x == tx[t]
<1>1. /\ x.kind = "lateShip"
      /\ \A s \in Skus : total'[s] = IF s \in x.written THEN x.base[s] - x.goal[s] ELSE total[s]
      /\ \A s \in Skus : late'[s] = late[s] + x.goal[s]
      /\ total \in [Skus -> 0..MaxTotal] /\ late \in [Skus -> 0..MaxLate]
      /\ x.goal \in [Skus -> Int] /\ x.step = "commit" /\ StepOK(t) /\ LocksOK(t)
  BY DEF CommitLateShipment, Stock, StockSafe, SessionOK, TypeOK, Sessions
<1>2. \A s \in x.written : x.base[s] = total[s]
  BY <1>1 DEF LocksOK, Owns
<1>3. \A s \in Skus : s \notin x.written => x.goal[s] = 0
  BY <1>1 DEF StepOK
<1> HIDE DEF x
<1> QED  BY <1>1, <1>2, <1>3 DEF x

(* An adjustment or a count sets a stock that it read under its lock.      *)
LEMMA TotalSetFromRead ==
    ASSUME StockSafe, NEW t \in Txns, CommitTotal(t)
    PROVE  \A s \in Skus : total'[s] # total[s] => tx[t].base[s] = total[s]
<1>1. /\ tx[t].kind \in SetKinds /\ LocksOK(t)
      /\ \A s \in Skus : s \notin tx[t].written => total'[s] = total[s]
  BY DEF CommitTotal, Stock, StockSafe, SessionOK
<1>2. \A s \in tx[t].written : tx[t].base[s] = total[s]
  BY <1>1 DEF LocksOK, Owns, SetKinds
<1> QED  BY <1>1, <1>2

(* A reservation grants a reference its whole plan, or nothing.            *)
LEMMA GrantsWholePlan ==
    ASSUME StockSafe, NEW t \in Txns, CommitReservation(t)
    PROVE  \A r \in Refs : /\ \A s \in Skus : held[r][s] <= held'[r][s]
                           /\ held[r] = Nothing => held'[r] \in {Nothing, tx[t].plan[r]}
<1> DEFINE x == tx[t]
           G == Granted(x)
<1>1. /\ held' = [r \in Refs |-> [s \in Skus |-> held[r][s] + G[r][s]]]
      /\ held \in Holdings /\ x.plan \in Holdings /\ MaxUnits \in Nat
  BY InventoryAssumption DEF CommitReservation, StockSafe, TypeOK, Sessions
<1>2. \A r \in Refs : G[r] \in {Nothing, x.plan[r]}
  BY DEF Granted
<1>3. Nothing \in Quantities /\ x.plan \in [Refs -> Quantities] /\ held \in [Refs -> Quantities]
  BY <1>1, IdleType DEF Holdings
<1> HIDE DEF x, G
<1>4. ASSUME NEW r \in Refs
      PROVE  /\ \A s \in Skus : held[r][s] <= held'[r][s]
             /\ held[r] = Nothing => held'[r] = G[r]
  <2>1. G[r] \in Quantities /\ held[r] \in Quantities
    BY <1>2, <1>3
  <2>2. \A s \in Skus : G[r][s] \in 0..MaxUnits /\ held[r][s] \in 0..MaxUnits
    BY <2>1 DEF Quantities
  <2>3. held'[r] = [s \in Skus |-> held[r][s] + G[r][s]]
    BY <1>1
  <2>4. ASSUME held[r] = Nothing
        PROVE  held'[r] = G[r]
    <3>1. \A s \in Skus : held[r][s] + G[r][s] = G[r][s]
      BY <2>2, <2>4 DEF Nothing
    <3>2. G[r] = [s \in Skus |-> G[r][s]]
      BY <2>1 DEF Quantities
    <3> QED  BY <2>3, <3>1, <3>2
  <2> QED  BY <1>1, <2>2, <2>3, <2>4
<1> QED  BY <1>2, <1>4 DEF x

(* A release and a shipment leave no reference with more than it held.     *)
LEMMA NeverTakesMore ==
    ASSUME StockSafe, NEW t \in Txns, CommitRelease(t) \/ CommitShipment(t)
    PROVE  \A r \in Refs : /\ \A s \in Skus : held'[r][s] <= held[r][s]
                           /\ held[r] = Nothing => held'[r] = Nothing
<1>1. /\ tx[t].step = "commit" /\ tx[t].kind \in {"ship", "release"}
      /\ held' = [r \in Refs |-> [s \in Skus |-> held[r][s] - tx[t].plan[r][s]]]
  BY DEF CommitRelease, CommitShipment
<1>2. held' \in Holdings /\ held \in Holdings /\ tx[t].plan \in Holdings /\ MaxUnits \in Nat
  BY <1>1, TakenOut, InventoryAssumption DEF StockSafe, TypeOK, Sessions
<1>3. \A r \in Refs, s \in Skus : /\ held'[r][s] = held[r][s] - tx[t].plan[r][s]
                                  /\ held'[r][s] \in 0..MaxUnits /\ held[r][s] \in 0..MaxUnits
                                  /\ tx[t].plan[r][s] \in 0..MaxUnits
  BY <1>1, <1>2 DEF Holdings, Quantities
<1>4. \A r \in Refs, s \in Skus : held'[r][s] <= held[r][s]
  BY <1>2, <1>3
<1>5. ASSUME NEW r \in Refs, held[r] = Nothing
      PROVE  held'[r] = Nothing
  <2>1. \A s \in Skus : held'[r][s] = 0
    BY <1>2, <1>3, <1>4, <1>5 DEF Nothing
  <2> QED  BY <1>2, <2>1 DEF Nothing, Holdings, Quantities
<1> QED  BY <1>4, <1>5
-----------------------------------------------------------------------------
(* The actions that leave the committed data alone.                        *)
Statement ==
    \E t \in Txns : \/ BeginAny(t) \/ LockBalance(t) \/ SkipMissingBalance(t)
                    \/ ReadReserved(t) \/ Write(t) \/ Refuse(t) \/ Abort(t)

LEMMA StatementChangesNoData == Statement => UNCHANGED stockData
<1> SUFFICES ASSUME NEW t \in Txns,
                    \/ BeginAny(t) \/ LockBalance(t) \/ SkipMissingBalance(t)
                    \/ ReadReserved(t) \/ Write(t) \/ Refuse(t) \/ Abort(t)
             PROVE  UNCHANGED stockData
  BY DEF Statement
<1>1. CASE BeginAny(t)
  <2>1. ASSUME NEW kind, NEW S, NEW p, NEW g, Begin(t, kind, S, p, g)
        PROVE  UNCHANGED stockData
    BY <2>1 DEF Begin
  <2> QED  BY <1>1, <2>1, Zenon DEF BeginAny, BeginReserve, BeginGroups, BeginShip, BeginLateShip,
                                    BeginAdjust, BeginCount, BeginMirror, BeginRelease
<1>2. CASE \/ LockBalance(t) \/ SkipMissingBalance(t) \/ ReadReserved(t)
           \/ Write(t) \/ Refuse(t) \/ Abort(t)
  BY <1>2, Zenon DEF LockBalance, SkipMissingBalance, ReadReserved, Write, Refuse, Abort
<1> QED  BY <1>1, <1>2

(* A step runs a statement, commits, or adds a SKU.                        *)
LEMMA NextCases ==
    ASSUME [Next]_vars
    PROVE  \/ UNCHANGED stockData
           \/ \E t \in Txns : Commit(t)
           \/ \E s \in Skus : InitializeSku(s)
<1>1. CASE UNCHANGED vars
  BY <1>1 DEF vars, stockData
<1>2. CASE Next
  BY <1>2, StatementChangesNoData, Zenon DEF Next, Statement
<1> QED  BY <1>1, <1>2

(* A new row changes the stock of its own SKU only.                        *)
LEMMA NewRow ==
    ASSUME StockSafe, NEW s \in Skus, InitializeSku(s)
    PROVE  /\ held' = held /\ s \notin stocked
           /\ \A z \in Skus \ {s} : total'[z] = total[z]
BY DEF InitializeSku, StockSafe, TypeOK

-----------------------------------------------------------------------------
(* The refinement.                                                         *)

(* A step that keeps the holdings and the invariant restocks the ledger.   *)
LEMMA RestockStep ==
    ASSUME StockSafe, StockSafe', held' = held,
           \A s \in Skus : total'[s] + late'[s] # total[s] + late[s]
                             => Reserved(held, s) <= total'[s] + late'[s]
    PROVE  Ledger!Restock
<1>1. [s \in Skus |-> total'[s] + late'[s]] \in [Skus -> Nat]
  BY InventoryAssumption DEF StockSafe, TypeOK
<1> QED  BY <1>1, LedgerReserved DEF Ledger!Restock

(* Every commit is one atomic step of the ledger, or changes nothing in it.*)
LEMMA CommitImplements ==
    ASSUME StockSafe, StockSafe', NEW t \in Txns, Commit(t)
    PROVE  Ledger!StockNext \/ UNCHANGED Ledger!stockVars
<1>a. /\ \A s \in Skus : /\ total[s] \in Nat /\ late[s] \in Nat
                         /\ total'[s] \in Nat /\ late'[s] \in Nat
      /\ held' \in Ledger!Holdings
  <2>1. held' \in Holdings
    BY DEF StockSafe, TypeOK
  <2>2. held' \in Ledger!Holdings
    BY <2>1 DEF Holdings, Quantities, Ledger!Holdings, Ledger!Quantities
  <2> QED  BY <2>2, InventoryAssumption DEF StockSafe, TypeOK
<1>b. \A s \in Skus : Reserved(held', s) <= total'[s] + late'[s]
  BY DEF StockSafe, NoOversell
<1>1. CASE CommitReservation(t)
  <2>1. total' = total /\ late' = late
    BY <1>1 DEF CommitReservation
  <2>2. \A r \in Refs, s \in Skus : held[r][s] <= held'[r][s]
    BY <1>1, GrantsWholePlan
  <2>3. Ledger!Promise
    BY <1>a, <1>b, <2>1, <2>2, LedgerReserved DEF Ledger!Promise
  <2> QED  BY <2>3 DEF Ledger!StockNext
<1>2. CASE CommitRelease(t)
  <2>1. total' = total /\ late' = late
    BY <1>2 DEF CommitRelease
  <2>2. \A r \in Refs, s \in Skus : held'[r][s] <= held[r][s]
    BY <1>2, NeverTakesMore
  <2>3. Ledger!GiveBack
    BY <1>a, <2>1, <2>2 DEF Ledger!GiveBack
  <2> QED  BY <2>3 DEF Ledger!StockNext
<1>3. CASE CommitShipment(t)
  <2>1. PICK r \in Refs :
          /\ \A x \in Refs \ {r} : held'[x] = held[x]
          /\ \A s \in Skus : /\ held'[r][s] <= held[r][s]
                             /\ total'[s] = total[s] - (held[r][s] - held'[r][s])
    BY <1>3, ShipmentTakes
  <2>2. late' = late
    BY <1>3 DEF CommitShipment
  <2>3. \A s \in Skus : held[r][s] \in Int /\ held'[r][s] \in Int
    BY DEF StockSafe, TypeOK, Holdings, Quantities
  <2>4. \A s \in Skus : total'[s] + late'[s]
                          = (total[s] + late[s]) - (held[r][s] - held'[r][s])
    BY <1>a, <2>1, <2>2, <2>3
  <2>5. Ledger!Ship
    BY <1>a, <2>1, <2>4 DEF Ledger!Ship
  <2> QED  BY <2>5 DEF Ledger!StockNext
<1>4. CASE CommitLateShipment(t)
  <2>1. held' = held
    BY <1>4 DEF CommitLateShipment
  <2>2. \A s \in Skus : total'[s] + late'[s] = total[s] + late[s]
    BY <1>4, LateShipmentMoves
  <2> QED  BY <2>1, <2>2 DEF Ledger!stockVars
<1>5. CASE CommitTotal(t) \/ CommitMirror(t)
  <2>1. held' = held
    BY <1>5 DEF CommitTotal, CommitMirror
  <2>2. Ledger!Restock
    BY <1>b, <2>1, RestockStep
  <2> QED  BY <2>2 DEF Ledger!StockNext
<1> QED  BY <1>1, <1>2, <1>3, <1>4, <1>5 DEF Commit

(* Every step of the transactions is a step of the ledger or a stutter.    *)
LEMMA StepImplements ==
    ASSUME StockSafe, StockSafe', [Next]_vars
    PROVE  Ledger!StockNext \/ UNCHANGED Ledger!stockVars
<1>1. CASE UNCHANGED stockData
  BY <1>1 DEF stockData, Ledger!stockVars
<1>2. CASE \E t \in Txns : Commit(t)
  BY <1>2, CommitImplements
<1>3. CASE \E s \in Skus : InitializeSku(s)
  <2>1. held' = held
    BY <1>3, NewRow
  <2>2. \A s \in Skus : Reserved(held, s) <= total'[s] + late'[s]
    BY <2>1 DEF StockSafe, NoOversell
  <2>3. Ledger!Restock
    BY <2>1, <2>2, RestockStep
  <2> QED  BY <2>3 DEF Ledger!StockNext
<1> QED  BY <1>1, <1>2, <1>3, NextCases

LEMMA InitImplements == Init => Ledger!StockInit
<1> SUFFICES ASSUME Init
             PROVE  Ledger!StockInit
  OBVIOUS
<1>1. total \in [Skus -> 0..MaxTotal] /\ late = Nothing /\ held = NoHoldings
  BY DEF Init
<1>2. [s \in Skus |-> total[s] + late[s]] \in [Skus -> Nat]
  BY <1>1, InventoryAssumption DEF Nothing
<1> QED  BY <1>1, <1>2 DEF Ledger!StockInit, NoHoldings, Nothing

(* The transactions, statement by statement under row locks, implement the *)
(* ledger, in which each committed transaction is one atomic step: what is *)
(* promised exists, a shipment costs the stock what its order gives up.    *)
THEOREM LedgerImplemented == MirrorAlone /\ Spec => ImplementsLedger
<1> SUFFICES ASSUME MirrorAlone
             PROVE  Spec => ImplementsLedger
  OBVIOUS
<1>1. Init => Ledger!StockInit
  BY InitImplements
<1>2. StockSafe /\ StockSafe' /\ [Next]_vars => [Ledger!StockNext]_(Ledger!stockVars)
  BY StepImplements
<1>3. Spec => []StockSafe
  BY StockStaysSafe
<1> QED  BY <1>1, <1>2, <1>3, PTL DEF Spec, ImplementsLedger, Ledger!StockSpec

-----------------------------------------------------------------------------
(* The action properties.                                                  *)

(* No transaction overwrites stock it has not read: an operation changes   *)
(* the stock of a SKU only from the value it read under the row lock (the  *)
(* mirror, which runs while nobody reserves, sets it without reading).     *)
THEOREM NoUpdateLost == MirrorAlone /\ Spec => NoLostUpdate
<1> SUFFICES ASSUME MirrorAlone
             PROVE  Spec => NoLostUpdate
  OBVIOUS
<1> DEFINE A == \A s \in Skus : total'[s] # total[s] /\ s \in stocked
                  => \E t \in Txns : /\ tx[t].step = "commit"
                                     /\ tx[t].kind = "mirror" \/ tx[t].base[s] = total[s]
<1>1. StockSafe /\ [Next]_vars => A
  <2> SUFFICES ASSUME StockSafe, [Next]_vars
               PROVE  A
    OBVIOUS
  <2>1. CASE UNCHANGED stockData
    BY <2>1 DEF stockData
  <2>2. ASSUME NEW t \in Txns, Commit(t)
        PROVE  A
    <3>1. tx[t].step = "commit"
      BY <2>2 DEF Commit, CommitReservation, CommitRelease, CommitShipment,
                  CommitLateShipment, CommitTotal, CommitMirror
    <3>2. CASE CommitReservation(t) \/ CommitRelease(t)
      BY <3>2 DEF CommitReservation, CommitRelease
    <3>3. CASE CommitShipment(t)
      BY <3>1, <3>3, ShipmentTakes
    <3>4. CASE CommitLateShipment(t)
      BY <3>1, <3>4, LateShipmentMoves
    <3>5. CASE CommitTotal(t)
      BY <3>1, <3>5, TotalSetFromRead
    <3>6. CASE CommitMirror(t)
      BY <3>1, <3>6 DEF CommitMirror
    <3> QED  BY <2>2, <3>2, <3>3, <3>4, <3>5, <3>6 DEF Commit
  <2>3. CASE \E s \in Skus : InitializeSku(s)
    BY <2>3, NewRow
  <2> QED  BY <2>1, <2>2, <2>3, NextCases
<1>2. Spec => []StockSafe
  BY StockStaysSafe
<1>3. StockSafe /\ [Next]_vars => [A]_vars
  BY <1>1
<1> QED  BY <1>2, <1>3, PTL DEF Spec, NoLostUpdate

(* No order or replacement is ever left with a part of what it asked for:  *)
(* a reference that held nothing and starts to hold units holds its plan.  *)
THEOREM ReservationsWhole == MirrorAlone /\ Spec => ReservesAllOrNothing
<1> SUFFICES ASSUME MirrorAlone
             PROVE  Spec => ReservesAllOrNothing
  OBVIOUS
<1> DEFINE A == \A r \in Refs : held[r] = Nothing /\ held'[r] # Nothing
                  => \E t \in Txns : held'[r] = tx[t].plan[r]
<1>1. StockSafe /\ [Next]_vars => A
  <2> SUFFICES ASSUME StockSafe, [Next]_vars
               PROVE  A
    OBVIOUS
  <2>1. CASE UNCHANGED stockData
    BY <2>1 DEF stockData
  <2>2. ASSUME NEW t \in Txns, Commit(t)
        PROVE  A
    <3>1. CASE CommitReservation(t)
      BY <3>1, GrantsWholePlan
    <3>2. CASE CommitRelease(t) \/ CommitShipment(t)
      BY <3>2, NeverTakesMore
    <3>3. CASE CommitLateShipment(t) \/ CommitTotal(t) \/ CommitMirror(t)
      BY <3>3 DEF CommitLateShipment, CommitTotal, CommitMirror
    <3> QED  BY <2>2, <3>1, <3>2, <3>3 DEF Commit
  <2>3. CASE \E s \in Skus : InitializeSku(s)
    BY <2>3, NewRow
  <2> QED  BY <2>1, <2>2, <2>3, NextCases
<1>2. Spec => []StockSafe
  BY StockStaysSafe
<1>3. StockSafe /\ [Next]_vars => [A]_vars
  BY <1>1
<1> QED  BY <1>2, <1>3, PTL DEF Spec, ReservesAllOrNothing
-----------------------------------------------------------------------------
(* Only replacements deadlock.                                             *)

Running == {t \in Txns : tx[t].step # "idle"}

(* The invariant of this part: locks are taken in order, and finitely many *)
(* sessions are in a transaction, however many there are.                  *)
OrderSafe == LocksInOrder /\ IsFiniteSet(Running)

(* What only session t does keeps the order of the others.                 *)
LEMMA OwnStep ==
    ASSUME TypeOK, OrderSafe, NEW t \in Txns,
           tx' = [tx EXCEPT ![t] = tx'[t]],
           \A s \in Skus : balanceLock'[s] \in {balanceLock[s], t, NoTxn},
           InOrder(t)'
    PROVE  OrderSafe'
<1>1. ASSUME NEW u \in Txns, u # t
      PROVE  InOrder(u)'
  <2>1. tx'[u] = tx[u]
    BY <1>1 DEF TypeOK
  <2>2. \A s \in Skus : balanceLock'[s] = u => balanceLock[s] = u
    BY <1>1, InventoryAssumption
  <2> QED  BY <2>1, <2>2 DEF OrderSafe, LocksInOrder, InOrder, Sorted
<1>2. Running' \subseteq Running \cup {t}
  BY DEF Running, TypeOK
<1>3. IsFiniteSet(Running \cup {t})
  BY FS_AddElement DEF OrderSafe
<1>4. IsFiniteSet(Running')
  BY <1>2, <1>3, FS_Subset
<1> QED  BY <1>1, <1>4 DEF OrderSafe, LocksInOrder

(* The next SKU that a sorting session asks for.                           *)
LEMMA SortedNext ==
    ASSUME NEW kind, kind # "replace", NEW S, NEW s \in NextSku(kind, S)
    PROVE  s \in Least(S)
BY DEF NextSku

LEMMA BeginInOrder ==
    ASSUME StockSafe, OrderSafe, NEW t \in Txns, BeginAny(t)
    PROVE  OrderSafe'
<1>1. \A s \in Skus : tx[t].step = "idle" => balanceLock[s] # t
  BY DEF OrderSafe, LocksInOrder, InOrder
<1>2. ASSUME NEW kind, NEW S, NEW p, NEW g, Begin(t, kind, S, p, g)
      PROVE  OrderSafe'
  <2>1. PICK s \in NextSku(kind, S) :
          tx' = [tx EXCEPT ![t] = [Idle EXCEPT !.kind = kind, !.step = "lock",
                                               !.todo = S, !.next = s,
                                               !.plan = p, !.goal = g]]
    BY <1>2 DEF Begin
  <2>2. balanceLock' = balanceLock /\ tx[t].step = "idle"
    BY <1>2 DEF Begin, stockData
  <2>3. tx' = [tx EXCEPT ![t] = tx'[t]] /\ tx \in [Txns -> Sessions]
    BY <2>1 DEF StockSafe, TypeOK
  <2>4. /\ tx'[t].step = "lock" /\ tx'[t].kind = kind
        /\ tx'[t].todo = S /\ tx'[t].next = s
    BY <2>1, <2>3 DEF Idle
  <2>5. kind # "replace" => s \in Least(S)
    BY SortedNext
  <2>6. InOrder(t)'
    BY <1>1, <2>2, <2>4, <2>5 DEF InOrder, Sorted
  <2> QED  BY <2>2, <2>3, <2>6, OwnStep DEF StockSafe
<1>3. CASE BeginRelease(t)
  <2>1. PICK r \in Refs, q \in Quantities \ {Nothing} :
          /\ tx[t].step = "idle" /\ balanceLock' = balanceLock
          /\ tx' = [tx EXCEPT ![t] = [Idle EXCEPT !.kind = "release", !.step = "commit",
                                            !.plan = Single(r, q), !.written = Skus]]
    BY <1>3 DEF BeginRelease
  <2>2. tx' = [tx EXCEPT ![t] = tx'[t]] /\ tx'[t].step = "commit" /\ tx'[t].todo = {}
    BY <2>1 DEF StockSafe, TypeOK, Idle
  <2>3. InOrder(t)'
    BY <1>1, <2>1, <2>2 DEF InOrder, Sorted
  <2> QED  BY <2>1, <2>2, <2>3, OwnStep DEF StockSafe
<1> QED  BY <1>2, <1>3, Zenon DEF BeginAny, BeginReserve, BeginGroups, BeginShip, BeginLateShip,
                                  BeginAdjust, BeginCount, BeginMirror

(* A SKU dealt with by the lock statement comes before all that are left.  *)
LEMMA LockInOrder ==
    ASSUME StockSafe, OrderSafe, NEW t \in Txns, LockBalance(t) \/ SkipMissingBalance(t)
    PROVE  OrderSafe'
<1> DEFINE s == tx[t].next
           x0 == tx[t]
<1>1. PICK x : /\ x \in {[x0 EXCEPT !.todo = @ \ {s}, !.at = @ \cup {s}, !.base[s] = total[s]],
                         [x0 EXCEPT !.todo = @ \ {s}, !.at = @ \cup {s}]}
               /\ \E y \in AfterLock(x) : tx' = [tx EXCEPT ![t] = y]
  <2>1. CASE LockBalance(t)
    BY <2>1 DEF LockBalance
  <2>2. CASE SkipMissingBalance(t)
    BY <2>2 DEF SkipMissingBalance
  <2> QED  BY <2>1, <2>2
<1>2. PICK y \in AfterLock(x) : tx' = [tx EXCEPT ![t] = y]
  BY <1>1
<1>3. /\ x0 \in Sessions /\ x0.step = "lock" /\ s \in x0.todo /\ x0.todo \subseteq Skus
      /\ tx'[t] = y
  BY <1>2 DEF LockBalance, SkipMissingBalance, StockSafe, SessionOK, StepOK, TypeOK, Sessions
<1>4. /\ x.kind = x0.kind /\ x.todo = x0.todo \ {s} /\ x.step = "lock"
      /\ x = [x EXCEPT !.next = x.next]
  BY <1>1, <1>3 DEF Sessions
<1>5. /\ y.kind = x0.kind /\ y.todo = x0.todo \ {s} /\ y.step # "idle"
      /\ y.step = "lock" => y.next \in Least(y.todo)
  <2>1. CASE x.kind \in Batched /\ x.todo # {}
    <3>1. PICK z \in Least(x.todo) : y = [x EXCEPT !.next = z]
      BY <1>2, <2>1 DEF AfterLock
    <3> QED  BY <1>1, <1>3, <1>4, <3>1 DEF Sessions
  <2>2. CASE ~(x.kind \in Batched /\ x.todo # {})
    <3>1. y = [x EXCEPT !.step = IF x.kind \in {"ship", "lateShip"} THEN "write" ELSE "read"]
      BY <1>2, <2>2 DEF AfterLock
    <3> QED  BY <1>1, <1>3, <1>4, <3>1 DEF Sessions
  <2> QED  BY <2>1, <2>2
<1>6. \A z \in Skus : balanceLock'[z] = t => z = s \/ balanceLock[z] = t
  BY DEF LockBalance, SkipMissingBalance, StockSafe, TypeOK
<1>7. InOrder(t)'
  <2>1. ASSUME x0.kind # "replace", NEW z \in Skus, balanceLock'[z] = t, NEW w \in x0.todo \ {s}
        PROVE  z < w
    <3>1. s \in Least(x0.todo) /\ (balanceLock[z] = t => z < w)
      BY <1>3, <2>1 DEF OrderSafe, LocksInOrder, InOrder, Sorted
    <3>2. s \in Nat /\ w \in Nat /\ s <= w
      BY <1>3, <3>1, InventoryAssumption DEF Least
    <3> QED  BY <1>6, <2>1, <3>1, <3>2
  <2> QED  BY <1>3, <1>5, <2>1 DEF InOrder, Sorted
<1>8. /\ tx' = [tx EXCEPT ![t] = tx'[t]]
      /\ \A z \in Skus : balanceLock'[z] \in {balanceLock[z], t, NoTxn}
  BY <1>2, <1>3 DEF LockBalance, SkipMissingBalance, StockSafe, TypeOK
<1> QED  BY <1>7, <1>8, OwnStep DEF StockSafe

LEMMA WorkInOrder ==
    ASSUME StockSafe, OrderSafe, NEW t \in Txns, ReadReserved(t) \/ Write(t)
    PROVE  OrderSafe'
<1> DEFINE x == tx[t]
<1>1. /\ x \in Sessions /\ tx \in [Txns -> Sessions] /\ balanceLock' = balanceLock
      /\ InOrder(t) /\ x.step \in {"read", "write"}
  BY DEF ReadReserved, Write, StockSafe, TypeOK, OrderSafe, LocksInOrder
<1>2. PICK y : /\ tx' = [tx EXCEPT ![t] = y]
               /\ y.kind = x.kind /\ y.todo = x.todo /\ y.step # "idle"
               /\ y.step = "lock" /\ x.kind # "replace" => y.next \in Least(y.todo)
  <2>1. CASE ReadReserved(t)
    <3>1. PICK seen : tx' = [tx EXCEPT ![t].step = "write", ![t].seen = seen]
      BY <2>1 DEF ReadReserved
    <3>2. tx' = [tx EXCEPT ![t] = [x EXCEPT !.step = "write", !.seen = seen]]
      BY <1>1, <3>1
    <3> DEFINE y == [x EXCEPT !.step = "write", !.seen = seen]
    <3>3. y.kind = x.kind /\ y.todo = x.todo /\ y.step = "write"
      BY <1>1 DEF Sessions
    <3> HIDE DEF x, y
    <3> QED  BY <3>2, <3>3 DEF y
  <2>2. CASE Write(t)
    <3>1. PICK y \in AfterWrite(x) : tx' = [tx EXCEPT ![t] = y]
      BY <2>2 DEF Write
    <3>2. CASE x.todo = {}
      BY <1>1, <3>1, <3>2 DEF AfterWrite, Sessions
    <3>3. CASE x.todo # {}
      <4>1. PICK s \in NextSku(x.kind, x.todo) :
              y = [[x EXCEPT !.written = @ \cup x.at, !.at = {}] EXCEPT !.step = "lock", !.next = s]
        BY <3>1, <3>3 DEF AfterWrite
      <4>2. y.kind = x.kind /\ y.todo = x.todo /\ y.step = "lock" /\ y.next = s
        BY <1>1, <4>1 DEF Sessions
      <4> QED  BY <3>1, <4>2, SortedNext
    <3> QED  BY <3>2, <3>3
  <2> QED  BY <2>1, <2>2
<1>3. tx'[t] = y /\ tx' = [tx EXCEPT ![t] = tx'[t]]
  BY <1>1, <1>2
<1>4. InOrder(t)'
  BY <1>1, <1>2, <1>3 DEF InOrder, Sorted
<1> QED  BY <1>1, <1>3, <1>4, OwnStep DEF StockSafe

(* The end of a transaction frees all its rows.                            *)
LEMMA EndInOrder ==
    ASSUME StockSafe, OrderSafe, NEW t \in Txns, End(t)
    PROVE  OrderSafe'
<1>1. /\ tx' = [tx EXCEPT ![t] = Idle] /\ tx \in [Txns -> Sessions] /\ t # NoTxn
      /\ \A s \in Skus : balanceLock'[s] = IF balanceLock[s] = t THEN NoTxn ELSE balanceLock[s]
  BY InventoryAssumption DEF End, Unlocked, StockSafe, TypeOK
<1>2. tx'[t] = Idle /\ tx' = [tx EXCEPT ![t] = tx'[t]]
  BY <1>1
<1>3. InOrder(t)'
  BY <1>1, <1>2 DEF InOrder, Sorted, Idle
<1> QED  BY <1>1, <1>2, <1>3, OwnStep DEF StockSafe

LEMMA OrderInit == Init => OrderSafe
<1> SUFFICES ASSUME Init
             PROVE  OrderSafe
  OBVIOUS
<1>1. tx = [t \in Txns |-> Idle] /\ balanceLock = [s \in Skus |-> NoTxn]
  BY DEF Init
<1>2. LocksInOrder
  BY <1>1, InventoryAssumption DEF LocksInOrder, InOrder, Sorted, Idle
<1>3. Running = {}
  BY <1>1 DEF Running, Idle
<1> QED  BY <1>2, <1>3, FS_EmptySet DEF OrderSafe

LEMMA OrderNext ==
    ASSUME StockSafe, OrderSafe, [Next]_vars
    PROVE  OrderSafe'
<1>1. ASSUME NEW t \in Txns, Commit(t) \/ Refuse(t) \/ Abort(t)
      PROVE  OrderSafe'
  <2>1. End(t)
    BY <1>1, Zenon DEF Commit, CommitReservation, CommitRelease, CommitShipment,
                       CommitLateShipment, CommitTotal, CommitMirror, Refuse, Abort
  <2> QED  BY <2>1, EndInOrder
<1>2. CASE (\E s \in Skus : InitializeSku(s)) \/ UNCHANGED vars
  <2>1. tx' = tx /\ balanceLock' = balanceLock
    BY <1>2 DEF InitializeSku, vars
  <2> QED  BY <2>1 DEF OrderSafe, LocksInOrder, InOrder, Sorted, Running
<1> QED  BY <1>1, <1>2, BeginInOrder, LockInOrder, WorkInOrder DEF Next

(* Among finitely many numbered things one has the largest number.         *)
LEMMA SomeLargest ==
    ASSUME NEW C, IsFiniteSet(C), C # {}, NEW f \in [C -> Int]
    PROVE  \E m \in C : \A t \in C : f[t] <= f[m]
<1> SUFFICES ASSUME \A m \in C : \E t \in C : f[m] < f[t]
             PROVE  FALSE
  OBVIOUS
<1> DEFINE T == {D \in SUBSET C : D # {} /\ \A t \in D : \E u \in D : f[t] < f[u]}
           R == StrictSubsetOrdering(C)
<1>1. IsWellFoundedOn(R, SUBSET C)
  BY FS_StrictSubsetOrderingWellFounded, FS_FiniteSubsetsOfFinite
<1>2. T \subseteq SUBSET C /\ C \in T
  OBVIOUS
<1>3. PICK D \in T : \A E \in T : <<E, D>> \notin R
  <2> HIDE DEF T, R
  <2>1. T # {}
    BY <1>2
  <2> QED  BY <1>1, <1>2, <2>1, WFMin
<1>4. PICK d \in D : TRUE
  OBVIOUS
<1> DEFINE E == D \ {d}
<1>5. E \in T
  <2>1. PICK e \in D : f[d] < f[e]
    OBVIOUS
  <2>2. e \in E
    BY <2>1
  <2>3. ASSUME NEW t \in E
        PROVE  \E u \in E : f[t] < f[u]
    <3>1. PICK u \in D : f[t] < f[u]
      OBVIOUS
    <3>2. CASE u # d
      BY <3>1, <3>2
    <3>3. CASE u = d
      <4>1. f[t] < f[e]
        BY <2>1, <3>1, <3>3
      <4> QED  BY <2>2, <4>1
    <3> QED  BY <3>2, <3>3
  <2> QED  BY <2>2, <2>3
<1>6. <<E, D>> \in R
  BY <1>4 DEF StrictSubsetOrdering
<1> QED  BY <1>3, <1>5, <1>6

(* A session that waits for another waiting one, where both sort, asks for *)
(* a smaller SKU: in a circle none could ask for the largest.              *)
LEMMA NoSortedCircle == StockSafe /\ OrderSafe => OnlyReplacementsDeadlock
<1> SUFFICES ASSUME StockSafe, OrderSafe,
                    NEW C \in (SUBSET Txns) \ {{}},
                    \A t \in C : \E u \in C : WaitsFor(t, u),
                    \A t \in C : Sorted(t)
             PROVE  FALSE
  BY DEF OnlyReplacementsDeadlock, Sorted
<1> DEFINE f == [t \in C |-> tx[t].next]
<1>1. ASSUME NEW t \in C
      PROVE  /\ tx[t].step = "lock" /\ tx[t].next \in tx[t].todo
             /\ tx[t].next \in Skus /\ tx[t].next \in Nat
  <2>1. t \in Txns /\ tx[t].step = "lock"
    BY DEF WaitsFor
  <2>2. tx[t].next \in tx[t].todo /\ tx[t].todo \subseteq Skus
    BY <2>1 DEF StockSafe, SessionOK, StepOK, TypeOK, Sessions
  <2> QED  BY <2>1, <2>2, InventoryAssumption
<1>2. C \subseteq Running
  BY <1>1 DEF Running
<1>3. IsFiniteSet(C)
  BY <1>2, FS_Subset DEF OrderSafe
<1>4. f \in [C -> Int]
  BY <1>1
<1>5. PICK m \in C : \A t \in C : f[t] <= f[m]
  <2> HIDE DEF f
  <2> QED  BY <1>3, <1>4, SomeLargest
<1>6. PICK u \in C : WaitsFor(m, u)
  OBVIOUS
<1>7. tx[m].next < tx[u].next
  <2>1. balanceLock[tx[m].next] = u
    BY <1>6 DEF WaitsFor
  <2> QED  BY <1>1, <2>1 DEF OrderSafe, LocksInOrder, InOrder
<1> QED  BY <1>1, <1>5, <1>7

(* Sessions that wait for each other in a circle include a replacement,    *)
(* whose items are locked in the order they were entered: every other      *)
(* operation sorts the SKU ids, so it can only wait for those ahead of it. *)
THEOREM SortedNeverDeadlock == MirrorAlone /\ Spec => []OnlyReplacementsDeadlock
<1> SUFFICES ASSUME MirrorAlone
             PROVE  Spec => []OnlyReplacementsDeadlock
  OBVIOUS
<1>1. StockSafe /\ OrderSafe /\ [Next]_vars => OrderSafe'
  BY OrderNext
<1> QED  BY <1>1, OrderInit, StockStaysSafe, NoSortedCircle, PTL DEF Spec
=============================================================================
