-------------------------- MODULE InventoryProofs --------------------------
(***************************************************************************)
(* NoOversell for any number of sessions, SKUs and references.             *)
(***************************************************************************)
EXTENDS Inventory, FiniteSetTheorems, TLAPS

-----------------------------------------------------------------------------
(* Sums of reservations.                                                   *)

(* The units reserved of a SKU are finitely many.                          *)
LEMMA UnitsFinite ==
    ASSUME NEW h \in Holdings, NEW s \in Skus
    PROVE  IsFiniteSet(Units(h, s)) /\ Reserved(h, s) \in Nat
<1>1. IsFiniteSet(Refs) /\ IsFiniteSet(1..MaxUnits)
  BY FS_Interval, InventoryAssumption
<1>2. IsFiniteSet(Refs \X (1..MaxUnits))
  BY <1>1, FS_Product
<1>3. IsFiniteSet(Units(h, s))
  BY <1>2, FS_Subset DEF Units
<1> QED  BY <1>3, FS_CardinalityType DEF Reserved

(* Who holds less of a SKU, reference by reference, reserves less of it.   *)
LEMMA ReservedMonotone ==
    ASSUME NEW g \in Holdings, NEW h \in Holdings, NEW s \in Skus,
           \A r \in Refs : g[r][s] <= h[r][s]
    PROVE  Reserved(g, s) <= Reserved(h, s)
<1>1. Units(g, s) \subseteq Units(h, s)
  <2> SUFFICES ASSUME NEW r \in Refs, NEW n \in 1..MaxUnits, n <= g[r][s]
               PROVE  n <= h[r][s]
    BY DEF Units
  <2>1. g[r][s] \in Int /\ h[r][s] \in Int /\ MaxUnits \in Int
    BY InventoryAssumption DEF Holdings, Quantities
  <2> QED  BY <2>1
<1> QED  BY <1>1, UnitsFinite, FS_Subset DEF Reserved

(* Holding nothing of a SKU reserves none of it.                           *)
LEMMA ReservedNone ==
    ASSUME NEW h \in Holdings, NEW s \in Skus, \A r \in Refs : h[r][s] = 0
    PROVE  Reserved(h, s) = 0
<1>1. Units(h, s) = {}
  BY InventoryAssumption DEF Units
<1> QED  BY <1>1, FS_EmptySet DEF Reserved

(* Sums add up: what is reserved of a SKU after the holdings p are added   *)
(* to the holdings g.                                                      *)
LEMMA ReservedAdd ==
    ASSUME NEW g \in Holdings, NEW p \in Holdings, NEW h \in Holdings, NEW s \in Skus,
           \A r \in Refs : h[r][s] = g[r][s] + p[r][s]
    PROVE  Reserved(h, s) = Reserved(g, s) + Reserved(p, s)
<1> DEFINE D == Units(h, s) \ Units(g, s)
           f == [u \in Units(p, s) |-> <<u[1], g[u[1]][s] + u[2]>>]
<1>1. \A r \in Refs : /\ g[r][s] \in 0..MaxUnits
                      /\ p[r][s] \in 0..MaxUnits
                      /\ h[r][s] \in 0..MaxUnits
  BY DEF Holdings, Quantities
<1>a. MaxUnits \in Nat
  BY InventoryAssumption
<1>2. \A r \in Refs, n \in 1..MaxUnits :
        <<r, n>> \in D <=> g[r][s] < n /\ n <= g[r][s] + p[r][s]
  BY <1>1, <1>a DEF Units
<1>3. \A u \in Units(p, s) : /\ u = <<u[1], u[2]>>
                             /\ u[1] \in Refs
                             /\ u[2] \in 1..MaxUnits
                             /\ u[2] <= p[u[1]][s]
  BY DEF Units
<1>4. f \in Bijection(Units(p, s), D)
  <2>1. f \in [Units(p, s) -> D]
    <3> SUFFICES ASSUME NEW u \in Units(p, s)
                 PROVE  <<u[1], g[u[1]][s] + u[2]>> \in D
      OBVIOUS
    <3>1. g[u[1]][s] + u[2] \in 1..MaxUnits
      BY <1>1, <1>3, <1>a
    <3> QED  BY <1>1, <1>2, <1>3, <1>a, <3>1
  <2>2. ASSUME NEW u \in Units(p, s), NEW v \in Units(p, s), f[u] = f[v]
        PROVE  u = v
    <3>1. u[1] = v[1] /\ g[u[1]][s] + u[2] = g[v[1]][s] + v[2]
      BY <2>2
    <3>2. u[2] = v[2]
      BY <1>1, <1>3, <3>1
    <3> QED  BY <1>3, <3>1, <3>2
  <2>3. ASSUME NEW d \in D
        PROVE  \E u \in Units(p, s) : f[u] = d
    <3>1. PICK r \in Refs, n \in 1..MaxUnits : d = <<r, n>>
      BY DEF Units
    <3>2. g[r][s] < n /\ n <= g[r][s] + p[r][s]
      BY <1>2, <3>1
    <3>3. n - g[r][s] \in 1..MaxUnits /\ n - g[r][s] <= p[r][s]
      BY <1>1, <1>a, <3>2
    <3>4. <<r, n - g[r][s]>> \in Units(p, s)
      BY <3>3 DEF Units
    <3>5. f[<<r, n - g[r][s]>>] = <<r, g[r][s] + (n - g[r][s])>>
      BY <3>4
    <3>6. g[r][s] + (n - g[r][s]) = n
      BY <1>1
    <3> QED  BY <3>1, <3>4, <3>5, <3>6
  <2> QED  BY <2>1, <2>2, <2>3 DEF Bijection, Injection, Surjection, IsInjective
<1>5. IsFiniteSet(D) /\ Cardinality(D) = Cardinality(Units(p, s))
  BY <1>4, UnitsFinite, FS_Bijection DEF ExistsBijection
<1>6. Units(g, s) \subseteq Units(h, s)
  <2> SUFFICES ASSUME NEW r \in Refs, NEW n \in 1..MaxUnits, n <= g[r][s]
               PROVE  n <= h[r][s]
    BY DEF Units
  <2> QED  BY <1>1
<1>7. Units(h, s) = Units(g, s) \cup D /\ Units(g, s) \cap D = {}
  BY <1>6
<1>8. Cardinality(Units(g, s) \cap D) = 0
  BY <1>7, FS_EmptySet
<1>9. Cardinality(Units(g, s) \cup D)
        = Cardinality(Units(g, s)) + Cardinality(D) - Cardinality(Units(g, s) \cap D)
  BY <1>5, UnitsFinite, FS_Union
<1> HIDE DEF D
<1> QED  BY <1>5, <1>7, <1>8, <1>9, UnitsFinite DEF Reserved

(* What one reference alone plans is the sum of the plan.                  *)
LEMMA ReservedSingle ==
    ASSUME NEW r \in Refs, NEW q \in Quantities, NEW s \in Skus
    PROVE  Reserved(Single(r, q), s) = q[s]
<1> DEFINE U == Units(Single(r, q), s)
           f == [n \in 1..q[s] |-> <<r, n>>]
<1>1. q[s] \in 0..MaxUnits /\ MaxUnits \in Nat
  BY InventoryAssumption DEF Quantities
<1>2. \A x \in Refs : Single(r, q)[x][s] = IF x = r THEN q[s] ELSE 0
  BY DEF Single, Nothing
<1>3. f \in Bijection(1..q[s], U)
  <2>1. f \in [1..q[s] -> U]
    BY <1>1, <1>2 DEF Units
  <2>2. \A m, n \in 1..q[s] : f[m] = f[n] => m = n
    OBVIOUS
  <2>3. \A d \in U : \E n \in 1..q[s] : f[n] = d
    BY <1>1, <1>2 DEF Units
  <2> QED  BY <2>1, <2>2, <2>3 DEF Bijection, Injection, Surjection, IsInjective
<1>4. IsFiniteSet(1..q[s]) /\ Cardinality(1..q[s]) = q[s]
  <2>1. \A n \in Nat : IsFiniteSet(1..n) /\ Cardinality(1..n) = n
    BY FS_Interval
  <2> QED  BY <1>1, <2>1
<1> QED  BY <1>3, <1>4, FS_Bijection DEF ExistsBijection, Reserved
-----------------------------------------------------------------------------
(* The sessions that an action does not run.                               *)

(* Session u is where it was; the rows it has locked are as they were, of  *)
(* the SKUs it owns no more is reserved, and its order keeps its units.    *)
Untouched(u) ==
    /\ tx'[u] = tx[u]
    /\ \A s \in Skus : balanceLock'[s] = u <=> balanceLock[s] = u
    /\ \A r \in Refs : orderLock[r] = u => orderLock'[r] = u
    /\ \A s \in Skus : Owns(u, s) => /\ s \in stocked'
                                     /\ total'[s] = total[s]
                                     /\ late'[s] = late[s]
                                     /\ Reserved(held', s) <= Reserved(held, s)
    /\ \A r \in Refs : orderLock[r] = u => \A s \in Skus : held[r][s] <= held'[r][s]
    /\ tx[u].kind = "mirror" /\ tx[u].step = "commit" => held' = held

(* What an untouched session relied on, it can still rely on.              *)
LEMMA UntouchedKeeps ==
    ASSUME TypeOK, TypeOK', NEW u \in Txns, SessionOK(u), Untouched(u)
    PROVE  SessionOK(u)'
<1> DEFINE x == tx[u]
<1>1. x \in Sessions /\ tx'[u] = x
  BY DEF TypeOK, Untouched
<1>2. \A s \in Skus : Owns(u, s) => Owns(u, s)'
  BY DEF Owns, Untouched
<1>3. \A s \in x.at \cup x.written : x.kind # "release" /\ Owns(u, s)' => Owns(u, s)
  BY <1>1 DEF Owns, Untouched, SessionOK, LocksOK, Sessions
<1>4. StepOK(u)'
  BY <1>1 DEF SessionOK, StepOK, Wanted
<1>5. LocksOK(u)'
  BY <1>1, <1>2 DEF SessionOK, LocksOK, Untouched, Sessions
<1>6. ChecksOK(u)'
  <2>1. ASSUME x.kind \in ReserveKinds \cup SetKinds, NEW s \in Skus,
               s \in x.written \/ (s \in x.at /\ x.step = "write"), Owns(u, s)'
        PROVE  Reserved(held', s) <= x.seen[s]
    <3>1. Owns(u, s) /\ x.kind # "release"
      BY <1>3, <2>1 DEF ReserveKinds, SetKinds
    <3>2. Reserved(held, s) <= x.seen[s]
      BY <2>1, <3>1 DEF SessionOK, ChecksOK
    <3>3. Reserved(held', s) <= Reserved(held, s)
      BY <3>1 DEF Untouched
    <3>4. Reserved(held, s) \in Nat /\ Reserved(held', s) \in Nat /\ x.seen[s] \in Nat
      BY <1>1, UnitsFinite DEF TypeOK, Sessions
    <3> QED  BY <3>2, <3>3, <3>4
  <2>2. ASSUME x.kind \in {"ship", "release"}, NEW s \in Skus, NEW r \in Refs,
               x.plan[r][s] <= held[r][s]
        PROVE  x.plan[r][s] <= held'[r][s]
    <3>1. x.plan[r][s] \in 0..MaxUnits /\ held[r][s] \in 0..MaxUnits /\ held'[r][s] \in 0..MaxUnits
      BY <1>1 DEF TypeOK, Sessions, Holdings, Quantities
    <3>2. CASE x.plan[r] = Nothing
      BY <3>1, <3>2 DEF Nothing
    <3>3. CASE x.plan[r] # Nothing
      <4>1. orderLock[r] = u
        BY <2>2, <3>3 DEF SessionOK, LocksOK
      <4> QED  BY <2>2, <3>1, <4>1 DEF Untouched
    <3> QED  BY <3>2, <3>3
  <2>3. ASSUME x.kind = "lateShip", NEW s \in x.written
        PROVE  late'[s] = late[s]
    <3>1. Owns(u, s) /\ s \in Skus
      BY <1>1, <2>3 DEF SessionOK, LocksOK, Sessions
    <3> QED  BY <3>1 DEF Untouched
  <2>4. x.written \subseteq Skus
    BY <1>1 DEF Sessions
  <2>5. x.kind = "mirror" /\ x.step = "commit" => held' = NoHoldings
    BY DEF SessionOK, ChecksOK, Untouched
  <2> USE <1>1
  <2>6. x.kind \in SetKinds =>
          \A s \in x.written : \/ NewTotal(x, s) = x.base[s]
                               \/ NewTotal(x, s) \in x.seen[s]..MaxTotal
    BY DEF SessionOK, ChecksOK
  <2>7. x.kind = "ship" =>
          \A s \in x.written, r \in Refs : /\ x.plan[r][s] <= x.base[s]
                                           /\ x.plan[r][s] <= held'[r][s]
    BY <2>2, <2>4 DEF SessionOK, ChecksOK
  <2>8. x.kind = "release" =>
          \A s \in Skus, r \in Refs : x.plan[r][s] <= held'[r][s]
    BY <2>2 DEF SessionOK, ChecksOK
  <2>9. x.kind = "lateShip" =>
          \A s \in x.written : /\ x.goal[s] <= x.base[s]
                               /\ late'[s] + x.goal[s] <= MaxLate
    BY <2>3 DEF SessionOK, ChecksOK
  <2> HIDE DEF x
  <2> QED  BY <2>1, <2>5, <2>6, <2>7, <2>8, <2>9 DEF ChecksOK, NewTotal, x
<1> QED  BY <1>4, <1>5, <1>6 DEF SessionOK
-----------------------------------------------------------------------------
(* Actions that change no committed data.                                  *)

LEMMA IdleType ==
    Idle \in Sessions /\ NoHoldings \in Holdings /\ Nothing \in Quantities
<1>1. 0 \in 0..MaxUnits
  BY InventoryAssumption
<1>2. Nothing \in Quantities /\ NoHoldings \in Holdings
  BY <1>1 DEF Nothing, Quantities, NoHoldings, Holdings
<1> QED  BY <1>2 DEF Idle, Sessions, AllKinds, Steps, Nothing

(* The rest of the invariant when only session t has moved, without        *)
(* changing its plan or kind, and balance locks were only added for t.     *)
LEMMA LocalStep ==
    ASSUME StockSafe, NEW t \in Txns, TypeOK', SessionOK(t)',
           UNCHANGED stockData, UNCHANGED orderLock,
           tx' = [tx EXCEPT ![t] = tx'[t]],
           tx'[t].kind = tx[t].kind, tx'[t].plan = tx[t].plan,
           \A s \in Skus : balanceLock'[s] # balanceLock[s]
                             => /\ s \in stocked
                                /\ balanceLock[s] = NoTxn
                                /\ balanceLock'[s] = t
    PROVE  StockSafe'
<1>1. \A u \in Txns : SessionOK(u)'
  <2>1. ASSUME NEW u \in Txns, u # t
        PROVE  SessionOK(u)'
    <3>1. tx'[u] = tx[u]
      BY <2>1 DEF StockSafe, TypeOK
    <3>2. \A s \in Skus : balanceLock'[s] = u <=> balanceLock[s] = u
      BY <2>1, InventoryAssumption
    <3>3. \A r \in Refs, s \in Skus : held[r][s] <= held'[r][s]
      BY DEF StockSafe, TypeOK, Holdings, Quantities, stockData
    <3>4. \A s \in Skus : Reserved(held', s) <= Reserved(held, s)
      BY UnitsFinite DEF StockSafe, TypeOK, stockData
    <3>5. Untouched(u)
      BY <3>1, <3>2, <3>3, <3>4 DEF Untouched, stockData, Owns
    <3> QED  BY <3>5, UntouchedKeeps DEF StockSafe
  <2> QED  BY <2>1
<1>2. PlansDisjoint'
  <2>1. \A u \in Txns : tx'[u].kind = tx[u].kind /\ tx'[u].plan = tx[u].plan
    BY DEF StockSafe, TypeOK
  <2> QED  BY <2>1 DEF StockSafe, PlansDisjoint, stockData
<1>3. NoOversell' /\ UnstockedEmpty' /\ AllStocked'
  BY DEF StockSafe, NoOversell, UnstockedEmpty, AllStocked, stockData
<1> QED  BY <1>1, <1>2, <1>3 DEF StockSafe

LEMMA LockBalanceSafe ==
    ASSUME StockSafe, NEW t \in Txns, LockBalance(t)
    PROVE  StockSafe'
<1> DEFINE s == tx[t].next
           x == [tx[t] EXCEPT !.todo = @ \ {s}, !.at = @ \cup {s}, !.base[s] = total[s]]
<1>1. PICK y \in AfterLock(x) : tx' = [tx EXCEPT ![t] = y]
  BY DEF LockBalance
<1>2. tx[t] \in Sessions /\ s \in Skus /\ total[s] \in Nat
  BY InventoryAssumption DEF StockSafe, TypeOK, LockBalance
<1>3. x \in Sessions
  BY <1>2 DEF Sessions
<1>4. /\ y \in Sessions
      /\ y.kind = x.kind /\ y.todo = x.todo /\ y.at = x.at /\ y.written = x.written
      /\ y.plan = x.plan /\ y.goal = x.goal /\ y.base = x.base /\ y.seen = x.seen
      /\ y.step \in {"lock", "write", "read"}
      /\ y.step = "write" => x.kind \in {"ship", "lateShip"}
      /\ y.step = "lock" => y.next \in y.todo /\ x.kind \in Batched
      /\ x.kind \in Batched /\ y.step # "lock" => y.todo = {}
  <2>1. x.step = "lock"
    BY <1>2 DEF LockBalance, Sessions
  <2> HIDE DEF x
  <2> QED  BY <1>3, <2>1 DEF AfterLock, Least, Sessions, Steps
<1>5. /\ x.kind = tx[t].kind /\ x.written = tx[t].written /\ x.plan = tx[t].plan
      /\ x.goal = tx[t].goal /\ x.seen = tx[t].seen
      /\ x.todo = tx[t].todo \ {s} /\ x.at = tx[t].at \cup {s}
      /\ x.base = [tx[t].base EXCEPT ![s] = total[s]]
  BY <1>2 DEF Sessions
<1>6. tx'[t] = y /\ tx[t].step = "lock"
  BY <1>1 DEF StockSafe, TypeOK, LockBalance
<1>7. TypeOK'
  <2>1. tx' \in [Txns -> Sessions]
    BY <1>1, <1>4 DEF StockSafe, TypeOK
  <2>2. balanceLock' \in [Skus -> Txns \cup {NoTxn}]
    BY DEF StockSafe, TypeOK, LockBalance
  <2> QED  BY <2>1, <2>2 DEF StockSafe, TypeOK, LockBalance, stockData
<1>8. StepOK(t)'
  <2>1. StepOK(t)
    BY DEF StockSafe, SessionOK
  <2>2. tx'[t].todo \cup tx'[t].at \cup tx'[t].written
          = tx[t].todo \cup tx[t].at \cup tx[t].written \cup {s}
    BY <1>4, <1>5, <1>6
  <2>3. /\ tx'[t].step \notin {"idle", "commit"} /\ tx[t].step = "lock"
        /\ tx'[t].kind = tx[t].kind /\ tx'[t].plan = tx[t].plan
        /\ tx'[t].goal = tx[t].goal /\ tx'[t].written = tx[t].written
    BY <1>4, <1>5, <1>6
  <2>4. tx'[t].step = "lock" => /\ tx'[t].next \in tx'[t].todo
                                /\ tx'[t].kind \in Batched => tx'[t].written = {}
    BY <1>4, <1>5, <1>6, <2>1 DEF StepOK
  <2>6. tx'[t].step # "lock" /\ tx'[t].kind \in Batched => tx'[t].todo = {}
    BY <1>4, <1>5, <1>6
  <2>5. \A z \in Skus \ (tx'[t].at \cup tx'[t].written) : tx'[t].base[z] = 0
    BY <1>2, <1>4, <1>5, <1>6, <2>1 DEF StepOK, Sessions
  <2>7. /\ tx'[t].todo \cap (tx'[t].at \cup tx'[t].written) = {}
        /\ tx'[t].at \cap tx'[t].written = {}
    BY <1>4, <1>5, <1>6, <2>1 DEF StepOK
  <2> HIDE DEF x, s
  <2> QED  BY <1>2, <2>1, <2>2, <2>3, <2>4, <2>5, <2>6, <2>7 DEF StepOK, Wanted
<1>9. LocksOK(t)'
  <2>1. LocksOK(t)
    BY DEF StockSafe, SessionOK
  <2>2. balanceLock[s] = NoTxn /\ t # NoTxn /\ s \in stocked
    BY InventoryAssumption DEF LockBalance
  <2>3. /\ tx'[t].kind = tx[t].kind /\ tx'[t].plan = tx[t].plan
        /\ tx'[t].base = [tx[t].base EXCEPT ![s] = total[s]]
        /\ tx'[t].at \cup tx'[t].written = tx[t].at \cup tx[t].written \cup {s}
        /\ tx[t].base \in [Skus -> Nat]
        /\ tx[t].at \cup tx[t].written \subseteq Skus
    BY <1>2, <1>4, <1>5, <1>6 DEF Sessions
  <2>4. /\ balanceLock' = [balanceLock EXCEPT ![s] = t]
        /\ balanceLock \in [Skus -> Txns \cup {NoTxn}]
        /\ stocked' = stocked /\ total' = total /\ orderLock' = orderLock
    BY DEF LockBalance, stockData, StockSafe, TypeOK
  <2> HIDE DEF x, s
  <2>5. ASSUME NEW z \in tx'[t].at \cup tx'[t].written, tx[t].kind # "release"
        PROVE  Owns(t, z)' \/ (tx[t].kind = "groups" /\ tx'[t].base[z] = 0 /\ balanceLock'[z] # t)
    <3>1. CASE z = s
      BY <1>2, <2>2, <2>3, <2>4, <3>1 DEF Owns
    <3>2. CASE z # s
      <4>1. z \in tx[t].at \cup tx[t].written /\ z \in Skus
        BY <2>3, <2>5, <3>2
      <4>2. Owns(t, z) \/ (tx[t].kind = "groups" /\ tx[t].base[z] = 0 /\ balanceLock[z] # t)
        BY <2>1, <2>5, <4>1 DEF LocksOK
      <4> QED  BY <1>2, <2>3, <2>4, <3>2, <4>1, <4>2 DEF Owns
    <3> QED  BY <3>1, <3>2
  <2> QED  BY <2>1, <2>3, <2>4, <2>5 DEF LocksOK
<1>10. ChecksOK(t)'
  <2>1. ChecksOK(t) /\ LocksOK(t) /\ StepOK(t)
    BY DEF StockSafe, SessionOK
  <2>2. balanceLock[s] = NoTxn /\ t # NoTxn /\ s \in stocked
    BY InventoryAssumption DEF LockBalance
  <2>3. /\ tx'[t].kind = tx[t].kind /\ tx'[t].plan = tx[t].plan
        /\ tx'[t].base = [tx[t].base EXCEPT ![s] = total[s]]
        /\ tx'[t].written = tx[t].written /\ tx[t].written \subseteq Skus
        /\ tx'[t].goal = tx[t].goal /\ tx'[t].seen = tx[t].seen
        /\ tx[t].base \in [Skus -> Nat]
        /\ tx'[t].step # "commit"
        /\ tx'[t].step = "write" => tx[t].kind \in {"ship", "lateShip"}
    BY <1>2, <1>4, <1>5, <1>6 DEF Sessions
  <2>4. /\ balanceLock' = [balanceLock EXCEPT ![s] = t]
        /\ balanceLock \in [Skus -> Txns \cup {NoTxn}]
        /\ stocked' = stocked /\ total' = total /\ held' = held /\ late' = late
    BY DEF LockBalance, stockData, StockSafe, TypeOK
  <2> HIDE DEF x, s
  <2>5. tx[t].kind # "release" => s \notin tx[t].written
    BY <1>6, <2>1, <2>2 DEF LocksOK, StepOK, Owns, Batched
  <2>6. tx[t].kind # "release" =>
          \A z \in tx[t].written : tx'[t].base[z] = tx[t].base[z] /\ (Owns(t, z)' => Owns(t, z))
    BY <2>3, <2>4, <2>5 DEF Owns
  <2>7. tx[t].kind \in ReserveKinds \cup SetKinds =>
          \A z \in Skus : z \in tx[t].written /\ Owns(t, z)' => Reserved(held', z) <= tx[t].seen[z]
    BY <2>1, <2>4, <2>6 DEF ChecksOK, ReserveKinds, SetKinds
  <2>8. tx[t].kind \in SetKinds =>
          \A z \in tx[t].written : \/ NewTotal(tx'[t], z) = tx'[t].base[z]
                                   \/ NewTotal(tx'[t], z) \in tx[t].seen[z]..MaxTotal
    BY <2>1, <2>3, <2>6 DEF ChecksOK, NewTotal, SetKinds
  <2>9. tx[t].kind = "ship" =>
          \A z \in tx[t].written, r \in Refs : /\ tx[t].plan[r][z] <= tx'[t].base[z]
                                               /\ tx[t].plan[r][z] <= held'[r][z]
    BY <2>1, <2>4, <2>6 DEF ChecksOK
  <2>10. tx[t].kind = "lateShip" =>
           \A z \in tx[t].written : /\ tx[t].goal[z] <= tx'[t].base[z]
                                    /\ late'[z] + tx[t].goal[z] <= MaxLate
    BY <2>1, <2>4, <2>6 DEF ChecksOK
  <2>11. tx[t].kind = "release" =>
           \A z \in Skus, r \in Refs : tx[t].plan[r][z] <= held'[r][z]
    BY <2>1, <2>4 DEF ChecksOK
  <2> QED  BY <2>3, <2>7, <2>8, <2>9, <2>10, <2>11 DEF ChecksOK, ReserveKinds, SetKinds
<1>11. /\ UNCHANGED stockData /\ UNCHANGED orderLock
       /\ tx' = [tx EXCEPT ![t] = tx'[t]]
       /\ tx'[t].kind = tx[t].kind /\ tx'[t].plan = tx[t].plan
  BY <1>1, <1>4, <1>5, <1>6 DEF LockBalance
<1>12. \A z \in Skus : balanceLock'[z] # balanceLock[z]
                         => z \in stocked /\ balanceLock[z] = NoTxn /\ balanceLock'[z] = t
  BY DEF LockBalance, StockSafe, TypeOK
<1> QED  BY <1>7, <1>8, <1>9, <1>10, <1>11, <1>12, LocalStep DEF SessionOK

LEMMA SkipMissingBalanceSafe ==
    ASSUME StockSafe, NEW t \in Txns, SkipMissingBalance(t)
    PROVE  StockSafe'
<1> DEFINE s == tx[t].next
           x == [tx[t] EXCEPT !.todo = @ \ {s}, !.at = @ \cup {s}]
<1>1. PICK y \in AfterLock(x) : tx' = [tx EXCEPT ![t] = y]
  BY DEF SkipMissingBalance
<1>2. /\ tx[t] \in Sessions /\ s \notin stocked
      /\ tx[t].step = "lock" /\ tx[t].kind = "groups"
      /\ StepOK(t) /\ LocksOK(t) /\ ChecksOK(t)
  BY DEF StockSafe, SessionOK, TypeOK, SkipMissingBalance
<1>3. s \in tx[t].todo /\ s \in Skus /\ tx[t].written = {}
  BY <1>2 DEF StepOK, Sessions, Batched
<1>4. /\ x \in Sessions /\ x.step = "lock"
      /\ x.kind = "groups" /\ x.written = {} /\ x.plan = tx[t].plan
      /\ x.goal = tx[t].goal /\ x.seen = tx[t].seen /\ x.base = tx[t].base
      /\ x.todo = tx[t].todo \ {s} /\ x.at = tx[t].at \cup {s}
  BY <1>2, <1>3 DEF Sessions
<1>5. /\ y \in Sessions
      /\ y.kind = "groups" /\ y.todo = x.todo /\ y.at = x.at /\ y.written = {}
      /\ y.plan = x.plan /\ y.goal = x.goal /\ y.base = x.base /\ y.seen = x.seen
      /\ y.step \in {"lock", "read"}
      /\ y.step = "lock" => y.next \in y.todo
      /\ y.step = "read" => y.todo = {}
  <2> HIDE DEF x
  <2> QED  BY <1>4 DEF AfterLock, Least, Sessions, Steps, Batched
<1>6. tx'[t] = y
  BY <1>1 DEF StockSafe, TypeOK
<1>7. UNCHANGED <<stockData, balanceLock, orderLock>>
  BY DEF SkipMissingBalance
<1>8. TypeOK'
  <2>1. tx' \in [Txns -> Sessions]
    BY <1>1, <1>5 DEF StockSafe, TypeOK
  <2> QED  BY <1>7, <2>1 DEF StockSafe, TypeOK, stockData
<1>9. /\ tx'[t].kind = "groups" /\ tx'[t].plan = tx[t].plan
      /\ tx'[t].base = tx[t].base /\ tx'[t].goal = tx[t].goal
      /\ tx'[t].written = {} /\ tx'[t].at = tx[t].at \cup {s}
      /\ tx'[t].todo = tx[t].todo \ {s}
      /\ tx'[t].step \in {"lock", "read"}
      /\ tx'[t].step = "lock" => tx'[t].next \in tx'[t].todo
      /\ tx'[t].step = "read" => tx'[t].todo = {}
  BY <1>4, <1>5, <1>6
<1> HIDE DEF x, s
<1>10. StepOK(t)'
  BY <1>2, <1>3, <1>9 DEF StepOK, Wanted
<1>11. LocksOK(t)'
  <2>1. \A z \in Skus : Owns(t, z)' <=> Owns(t, z)
    BY <1>7, <1>9 DEF Owns, stockData
  <2>2. s \notin tx[t].at => tx[t].base[s] = 0
    BY <1>2, <1>3 DEF StepOK
  <2>3. tx[t].at \subseteq Skus
    BY <1>2 DEF Sessions
  <2>4. \A z \in tx[t].at : Owns(t, z) \/ (tx[t].base[z] = 0 /\ balanceLock[z] # t)
    BY <1>2 DEF LocksOK
  <2>5. Owns(t, s) \/ (tx[t].base[s] = 0 /\ balanceLock[s] # t)
    BY <1>2, <1>3, <2>2, <2>4, InventoryAssumption DEF StockSafe, UnstockedEmpty
  <2> QED  BY <1>3, <1>7, <1>9, <2>1, <2>3, <2>4, <2>5 DEF LocksOK
<1>12. ChecksOK(t)'
  BY <1>9 DEF ChecksOK, SetKinds
<1> QED  BY <1>1, <1>2, <1>6, <1>7, <1>8, <1>9, <1>10, <1>11, <1>12, LocalStep DEF SessionOK

LEMMA ReadReservedSafe ==
    ASSUME StockSafe, NEW t \in Txns, ReadReserved(t)
    PROVE  StockSafe'
<1> DEFINE sums == [s \in Skus |-> IF s \in tx[t].at THEN Reserved(held, s)
                                   ELSE tx[t].seen[s]]
           y == [tx[t] EXCEPT !.step = "write", !.seen = sums]
<1>1. /\ tx[t] \in Sessions /\ tx[t].step = "read" /\ held \in Holdings
      /\ StepOK(t) /\ LocksOK(t) /\ ChecksOK(t)
      /\ tx \in [Txns -> Sessions]
  BY DEF StockSafe, SessionOK, TypeOK, ReadReserved
<1>2. tx' = [tx EXCEPT ![t] = y]
  BY <1>1 DEF ReadReserved
<1>3. sums \in [Skus -> Nat]
  BY <1>1, UnitsFinite DEF Sessions
<1>4. /\ y \in Sessions /\ y.step = "write" /\ y.seen = sums
      /\ y.kind = tx[t].kind /\ y.plan = tx[t].plan /\ y.goal = tx[t].goal
      /\ y.todo = tx[t].todo /\ y.at = tx[t].at /\ y.written = tx[t].written
      /\ y.base = tx[t].base
  <2> HIDE DEF sums
  <2> QED  BY <1>1, <1>3 DEF Sessions, Steps
<1>5. tx'[t] = y
  BY <1>1, <1>2
<1>6. UNCHANGED <<stockData, balanceLock, orderLock>>
  BY DEF ReadReserved
<1>7. TypeOK'
  <2>1. tx' \in [Txns -> Sessions]
    BY <1>1, <1>2, <1>4
  <2> QED  BY <1>6, <2>1 DEF StockSafe, TypeOK, stockData
<1>8. \A s \in tx[t].at : s \in Skus /\ sums[s] = Reserved(held, s)
  BY <1>1 DEF Sessions
<1>9. \A s \in Skus : s \notin tx[t].at => sums[s] = tx[t].seen[s]
  OBVIOUS
<1>10. \A s \in Skus : Owns(t, s)' <=> Owns(t, s)
  BY <1>4, <1>5, <1>6 DEF Owns, stockData
<1>11. tx[t].at \cup tx[t].written \subseteq Skus
  BY <1>1 DEF Sessions
<1>12. \A s \in Skus : Reserved(held, s) \in Nat
  BY <1>1, UnitsFinite
<1> HIDE DEF sums, y
<1>13. StepOK(t)'
  BY <1>1, <1>4, <1>5 DEF StepOK, Wanted
<1>14. LocksOK(t)'
  BY <1>1, <1>4, <1>5, <1>6, <1>10, <1>11 DEF LocksOK, stockData
<1>15. ChecksOK(t)'
  <2>1. ASSUME tx[t].kind \in ReserveKinds \cup SetKinds, NEW s \in Skus,
               s \in tx[t].written \/ s \in tx[t].at, Owns(t, s)
        PROVE  Reserved(held, s) <= sums[s]
    <3>1. CASE s \in tx[t].at
      BY <1>8, <1>12, <3>1
    <3>2. CASE s \notin tx[t].at
      BY <1>1, <1>9, <2>1, <3>2 DEF ChecksOK
    <3> QED  BY <3>1, <3>2
  <2>2. \A s \in tx[t].written : sums[s] = tx[t].seen[s]
    BY <1>1, <1>9, <1>11 DEF StepOK
  <2>3. \A s \in tx[t].written : NewTotal(tx'[t], s) = NewTotal(tx[t], s)
    BY <1>4, <1>5 DEF NewTotal
  <2> QED  BY <1>1, <1>4, <1>5, <1>6, <1>10, <2>1, <2>2, <2>3 DEF ChecksOK, stockData
<1> QED  BY <1>2, <1>4, <1>5, <1>6, <1>7, <1>13, <1>14, <1>15, LocalStep DEF SessionOK

LEMMA WriteSafe ==
    ASSUME StockSafe, NEW t \in Txns, Write(t)
    PROVE  StockSafe'
<1> DEFINE x == tx[t]
<1>1. PICK y \in AfterWrite(x) : tx' = [tx EXCEPT ![t] = y]
  BY DEF Write
<1>2. /\ x \in Sessions /\ x.step = "write" /\ Passes(x)
      /\ StepOK(t) /\ LocksOK(t) /\ ChecksOK(t)
      /\ tx \in [Txns -> Sessions]
  BY DEF StockSafe, SessionOK, TypeOK, Write
<1>3. /\ y \in Sessions
      /\ y.kind = x.kind /\ y.todo = x.todo /\ y.at = {} /\ y.written = x.written \cup x.at
      /\ y.plan = x.plan /\ y.goal = x.goal /\ y.base = x.base /\ y.seen = x.seen
      /\ \/ y.step = "lock" /\ y.next \in x.todo /\ x.todo # {}
         \/ y.step = "commit" /\ x.todo = {}
  <2> DEFINE z == [x EXCEPT !.written = @ \cup x.at, !.at = {}]
  <2>1. /\ z \in Sessions /\ z.kind = x.kind /\ z.todo = x.todo /\ z.at = {}
        /\ z.written = x.written \cup x.at /\ z.plan = x.plan /\ z.goal = x.goal
        /\ z.base = x.base /\ z.seen = x.seen
    BY <1>2 DEF Sessions
  <2>2. y \in IF x.todo = {} THEN {[z EXCEPT !.step = "commit"]}
             ELSE {[z EXCEPT !.step = "lock", !.next = s] : s \in NextSku(x.kind, x.todo)}
    BY <1>1 DEF AfterWrite
  <2>3. x.todo \subseteq Skus
    BY <1>2 DEF Sessions
  <2>4. NextSku(x.kind, x.todo) \subseteq x.todo
    BY DEF NextSku, Least
  <2> HIDE DEF x, z
  <2>5. CASE x.todo = {}
    BY <2>1, <2>2, <2>5 DEF Sessions, Steps
  <2>6. CASE x.todo # {}
    <3>1. PICK s \in x.todo : y = [z EXCEPT !.step = "lock", !.next = s]
      BY <2>2, <2>4, <2>6
    <3> QED  BY <2>1, <2>3, <2>6, <3>1 DEF Sessions, Steps
  <2> QED  BY <2>5, <2>6
<1>4. tx'[t] = y
  BY <1>1, <1>2
<1>5. UNCHANGED <<stockData, balanceLock, orderLock>>
  BY DEF Write
<1>6. TypeOK'
  <2>1. tx' \in [Txns -> Sessions]
    BY <1>1, <1>2, <1>3
  <2> QED  BY <1>5, <2>1 DEF StockSafe, TypeOK, stockData
<1>7. StepOK(t)'
  BY <1>2, <1>3, <1>4 DEF StepOK, Wanted
<1>8. \A s \in Skus : Owns(t, s)' <=> Owns(t, s)
  BY <1>3, <1>4, <1>5 DEF Owns, stockData
<1>9. x.at \cup x.written \subseteq Skus
  BY <1>2 DEF Sessions
<1>10. LocksOK(t)'
  BY <1>2, <1>3, <1>4, <1>5, <1>8, <1>9 DEF LocksOK
<1>11. ChecksOK(t)'
  <2>1. \A s \in Skus : NewTotal(tx'[t], s) = NewTotal(x, s)
    BY <1>3, <1>4 DEF NewTotal
  <2>2. x.kind \in SetKinds =>
          \A s \in x.at : \/ NewTotal(x, s) = x.base[s]
                          \/ NewTotal(x, s) \in x.seen[s]..MaxTotal
    BY <1>2 DEF Passes, SetKinds
  <2>3. x.kind = "ship" =>
          \A s \in x.at, r \in Refs : /\ x.plan[r][s] <= x.base[s]
                                      /\ x.plan[r][s] <= held[r][s]
    BY <1>2 DEF Passes, SetKinds
  <2>4. x.kind = "lateShip" =>
          \A s \in x.at : x.goal[s] <= x.base[s] /\ late[s] + x.goal[s] <= MaxLate
    BY <1>2 DEF Passes, SetKinds
  <2>5. x.kind = "mirror" => held = NoHoldings
    BY <1>2 DEF Passes, SetKinds
  <2> HIDE DEF x
  <2>6. \A s \in Skus : x.kind \in ReserveKinds \cup SetKinds
          /\ s \in tx'[t].written /\ Owns(t, s) => Reserved(held, s) <= x.seen[s]
    BY <1>2, <1>3, <1>4 DEF ChecksOK, x
  <2> QED  BY <1>2, <1>3, <1>4, <1>5, <1>8, <1>9, <2>1, <2>2, <2>3, <2>4, <2>5, <2>6
             DEF ChecksOK, stockData, x
<1> QED  BY <1>1, <1>3, <1>4, <1>5, <1>6, <1>7, <1>10, <1>11, LocalStep DEF SessionOK
-----------------------------------------------------------------------------
(* Starting a transaction.                                                 *)

(* The sessions that do not start; order locks are only added, for t.      *)
LEMMA OthersUntouched ==
    ASSUME StockSafe, NEW t \in Txns, TypeOK',
           UNCHANGED <<stockData, balanceLock>>,
           tx' = [tx EXCEPT ![t] = tx'[t]],
           \A r \in Refs : orderLock'[r] # orderLock[r] => orderLock[r] = NoTxn
    PROVE  \A u \in Txns \ {t} : SessionOK(u)'
<1> SUFFICES ASSUME NEW u \in Txns, u # t
             PROVE  SessionOK(u)'
  OBVIOUS
<1>1. tx'[u] = tx[u]
  BY DEF StockSafe, TypeOK
<1>2. \A r \in Refs : orderLock[r] = u => orderLock'[r] = u
  BY InventoryAssumption
<1>3. \A r \in Refs, s \in Skus : held[r][s] <= held'[r][s]
  BY DEF StockSafe, TypeOK, Holdings, Quantities, stockData
<1>4. \A s \in Skus : Reserved(held', s) <= Reserved(held, s)
  BY UnitsFinite DEF StockSafe, TypeOK, stockData
<1>5. Untouched(u)
  BY <1>1, <1>2, <1>3, <1>4 DEF Untouched, stockData, Owns
<1> QED  BY <1>5, UntouchedKeeps DEF StockSafe

LEMMA BeginSafe ==
    ASSUME StockSafe, NEW t \in Txns, NEW kind \in AllKinds \ {"release"},
           NEW S \in SUBSET Skus, NEW p \in Holdings, NEW g \in [Skus -> Int],
           Begin(t, kind, S, p, g), Wanted(p) \subseteq S,
           kind = "lateShip" => \A s \in Skus : g[s] >= 0 /\ (g[s] # 0 => s \in S),
           kind = "mirror" => S = Skus /\ g \in [Skus -> -1..MaxTotal],
           kind = "ship" => \E r \in Refs, q \in Quantities :
                              p = Single(r, q) /\ orderLock'[r] = t,
           orderLock' \in [Refs -> Txns \cup {NoTxn}],
           \A r \in Refs : orderLock'[r] # orderLock[r] => orderLock[r] = NoTxn,
           \A r \in Refs : p[r] # Nothing =>
             IF kind \in ReserveKinds THEN Fresh(r) ELSE held[r] # Nothing
    PROVE  StockSafe'
<1>1. PICK s \in S : tx' = [tx EXCEPT ![t] = [Idle EXCEPT !.kind = kind, !.step = "lock",
                                                          !.todo = S, !.next = s,
                                                          !.plan = p, !.goal = g]]
  BY DEF Begin, NextSku, Least
<1> DEFINE y == [Idle EXCEPT !.kind = kind, !.step = "lock", !.todo = S, !.next = s,
                             !.plan = p, !.goal = g]
<1>2. /\ y \in Sessions /\ y.kind = kind /\ y.step = "lock" /\ y.todo = S /\ y.next = s
      /\ y.plan = p /\ y.goal = g /\ y.at = {} /\ y.written = {}
      /\ \A z \in Skus : y.base[z] = 0
  BY IdleType DEF Idle, Sessions, Steps, Nothing
<1>3. tx'[t] = y /\ tx \in [Txns -> Sessions] /\ kind \in Kinds
  BY <1>1 DEF StockSafe, TypeOK, Begin
<1>4. UNCHANGED <<stockData, balanceLock>>
  BY DEF Begin
<1>5. TypeOK'
  <2>1. tx' \in [Txns -> Sessions]
    BY <1>1, <1>2, <1>3
  <2> QED  BY <1>4, <2>1 DEF StockSafe, TypeOK, stockData
<1> HIDE DEF y
<1>6. StepOK(t)'
  BY <1>2, <1>3 DEF StepOK, Wanted
<1>7. LocksOK(t)'
  <2>1. \A r \in Refs : kind = "ship" /\ p[r] # Nothing => orderLock'[r] = t
    BY DEF Single
  <2> QED  BY <1>2, <1>3, <2>1 DEF LocksOK
<1>8. ChecksOK(t)'
  BY <1>2, <1>3 DEF ChecksOK
<1>9. \A u \in Txns : SessionOK(u)'
  BY <1>1, <1>3, <1>4, <1>5, <1>6, <1>7, <1>8, OthersUntouched DEF SessionOK
<1>10. PlansDisjoint'
  <2> SUFFICES ASSUME NEW u \in Txns, NEW r \in Refs,
                      tx'[u].kind \in ReserveKinds, tx'[u].plan[r] # Nothing
               PROVE  held'[r] = Nothing /\ \A v \in Txns \ {u} : tx'[v].plan[r] = Nothing
    BY DEF PlansDisjoint
  <2>1. held' = held
    BY <1>4 DEF stockData
  <2>2. CASE u = t
    <3>1. Fresh(r)
      BY <1>2, <1>3, <2>2
    <3>2. \A v \in Txns \ {u} : tx'[v] = tx[v]
      BY <1>1, <1>3, <2>2
    <3> QED  BY <2>1, <3>1, <3>2 DEF Fresh
  <2>3. CASE u # t
    <3>1. tx'[u] = tx[u]
      BY <1>1, <1>3, <2>3
    <3>2. held[r] = Nothing /\ \A v \in Txns \ {u} : tx[v].plan[r] = Nothing
      BY <3>1 DEF StockSafe, PlansDisjoint
    <3>3. p[r] = Nothing
      BY <3>1, <3>2 DEF Fresh
    <3>4. \A v \in Txns : v # t => tx'[v] = tx[v]
      BY <1>1, <1>3
    <3> QED  BY <1>2, <1>3, <2>1, <3>2, <3>3, <3>4
  <2> QED  BY <2>2, <2>3
<1>11. NoOversell' /\ UnstockedEmpty' /\ AllStocked'
  BY <1>4 DEF StockSafe, NoOversell, UnstockedEmpty, AllStocked, stockData
<1> QED  BY <1>5, <1>9, <1>10, <1>11 DEF StockSafe

(* The mirror rewrites stock: it does not run while SKUs are created.      *)
MirrorAlone == ~({"mirror", "create"} \subseteq Kinds)

LEMMA SingleType ==
    ASSUME NEW r \in Refs, NEW q \in Quantities
    PROVE  /\ Single(r, q) \in Holdings
           /\ \A x \in Refs : Single(r, q)[x] = IF x = r THEN q ELSE Nothing
           /\ Wanted(Single(r, q)) = {s \in Skus : q[s] > 0}
<1>1. Nothing \in Quantities /\ \A s \in Skus : ~(Nothing[s] > 0)
  BY IdleType DEF Nothing, NoHoldings, Holdings
<1> QED  BY <1>1 DEF Single, Holdings, Wanted

LEMMA BeginAnySafe ==
    ASSUME StockSafe, NEW t \in Txns, BeginAny(t), MirrorAlone
    PROVE  StockSafe'
<1> USE DEF AllKinds, ReserveKinds, SetKinds
<1>0. /\ orderLock \in [Refs -> Txns \cup {NoTxn}]
      /\ NoHoldings \in Holdings /\ Wanted(NoHoldings) = {}
      /\ \A r \in Refs : NoHoldings[r] = Nothing
      /\ Nothing \in [Skus -> Int]
  BY IdleType DEF StockSafe, TypeOK, NoHoldings, Wanted, Nothing
<1>1. CASE BeginReserve(t)
  <2>1. PICK kind \in {"reserve", "replace"}, r \in Refs, q \in Quantities :
          /\ Fresh(r)
          /\ Begin(t, kind, Wanted(Single(r, q)), Single(r, q), Nothing)
          /\ UNCHANGED orderLock
    BY <1>1 DEF BeginReserve
  <2>2. Wanted(Single(r, q)) \in SUBSET Skus
    BY DEF Wanted
  <2> QED  BY <1>0, <2>1, <2>2, BeginSafe, SingleType
<1>2. CASE BeginGroups(t)
  <2>1. PICK p \in Holdings : /\ \A r \in Refs : p[r] # Nothing => Fresh(r)
                              /\ Begin(t, "groups", Wanted(p), p, Nothing)
                              /\ UNCHANGED orderLock
    BY <1>2 DEF BeginGroups
  <2>2. Wanted(p) \in SUBSET Skus
    BY DEF Wanted
  <2>3. /\ orderLock' \in [Refs -> Txns \cup {NoTxn}]
        /\ \A r \in Refs : orderLock'[r] = orderLock[r]
    BY <1>0, <2>1
  <2>4. "groups" \in AllKinds \ {"release"} /\ "groups" \in ReserveKinds
    OBVIOUS
  <2> HIDE DEF AllKinds, ReserveKinds
  <2>5. Begin(t, "groups", Wanted(p), p, Nothing)
    BY <2>1
  <2>6. \A r \in Refs : p[r] # Nothing => Fresh(r)
    BY <2>1
  <2> QED  BY ONLY StockSafe, <1>0, <2>2, <2>3, <2>4, <2>5, <2>6, BeginSafe
<1>3. CASE BeginShip(t)
  <2>1. PICK r \in Refs, q \in Quantities :
          /\ held[r] # Nothing
          /\ orderLock[r] = NoTxn
          /\ orderLock' = [orderLock EXCEPT ![r] = t]
          /\ Begin(t, "ship", Wanted(Single(r, q)), Single(r, q), Nothing)
    BY <1>3 DEF BeginShip
  <2>2. Wanted(Single(r, q)) \in SUBSET Skus
    BY DEF Wanted
  <2>3. /\ orderLock' \in [Refs -> Txns \cup {NoTxn}] /\ orderLock'[r] = t
        /\ \A x \in Refs : orderLock'[x] # orderLock[x] => orderLock[x] = NoTxn
    BY <1>0, <2>1
  <2> QED  BY <1>0, <2>1, <2>2, <2>3, BeginSafe, SingleType
<1>4. CASE BeginLateShip(t)
  <2>1. PICK q \in Quantities :
          /\ Begin(t, "lateShip", {s \in Skus : q[s] > 0}, NoHoldings, q)
          /\ UNCHANGED orderLock
    BY <1>4 DEF BeginLateShip
  <2>2. \A s \in Skus : q[s] \in Nat /\ q[s] >= 0 /\ (q[s] # 0 => q[s] > 0)
    BY InventoryAssumption DEF Quantities
  <2>3. q \in [Skus -> Int] /\ {s \in Skus : q[s] > 0} \in SUBSET Skus
    BY <2>2 DEF Quantities
  <2>4. \A s \in Skus : q[s] >= 0 /\ (q[s] # 0 => s \in {z \in Skus : q[z] > 0})
    BY <2>2
  <2> DEFINE S == {s \in Skus : q[s] > 0}
  <2>5. /\ S \in SUBSET Skus /\ Begin(t, "lateShip", S, NoHoldings, q)
        /\ \A s \in Skus : q[s] >= 0 /\ (q[s] # 0 => s \in S)
    BY <2>1, <2>3, <2>4
  <2>6. "lateShip" \in AllKinds \ {"release"} /\ "lateShip" \notin ReserveKinds
    OBVIOUS
  <2> HIDE DEF S, AllKinds, ReserveKinds
  <2>7. /\ orderLock' \in [Refs -> Txns \cup {NoTxn}]
        /\ \A r \in Refs : orderLock'[r] = orderLock[r]
    BY <1>0, <2>1
  <2> QED  BY ONLY SMTT(30), StockSafe, <1>0, <2>3, <2>5, <2>6, <2>7, BeginSafe
<1>5. CASE BeginAdjust(t)
  <2>1. PICK s \in Skus, delta \in (-MaxTotal..MaxTotal) \ {0} :
          /\ Begin(t, "adjust", {s}, NoHoldings, [Nothing EXCEPT ![s] = delta])
          /\ UNCHANGED orderLock
    BY <1>5 DEF BeginAdjust
  <2> DEFINE g == [Nothing EXCEPT ![s] = delta]
  <2>2. g \in [Skus -> Int] /\ Begin(t, "adjust", {s}, NoHoldings, g)
    BY <1>0, <2>1, InventoryAssumption
  <2>3. "adjust" \in AllKinds \ {"release"} /\ "adjust" \notin ReserveKinds
    OBVIOUS
  <2>4. {s} \in SUBSET Skus
    OBVIOUS
  <2> HIDE DEF g, AllKinds, ReserveKinds
  <2>5. /\ orderLock' \in [Refs -> Txns \cup {NoTxn}]
        /\ \A r \in Refs : orderLock'[r] = orderLock[r]
    BY <1>0, <2>1
  <2> QED  BY ONLY StockSafe, <1>0, <2>2, <2>3, <2>4, <2>5, BeginSafe
<1>6. CASE BeginCount(t)
  <2>1. PICK s \in Skus, actual \in 0..MaxTotal :
          /\ Begin(t, "count", {s}, NoHoldings, [Nothing EXCEPT ![s] = actual])
          /\ UNCHANGED orderLock
    BY <1>6 DEF BeginCount
  <2> DEFINE g == [Nothing EXCEPT ![s] = actual]
  <2>2. g \in [Skus -> Int] /\ Begin(t, "count", {s}, NoHoldings, g)
    BY <1>0, <2>1, InventoryAssumption
  <2>3. "count" \in AllKinds \ {"release"} /\ "count" \notin ReserveKinds
    OBVIOUS
  <2>4. {s} \in SUBSET Skus
    OBVIOUS
  <2> HIDE DEF g, AllKinds, ReserveKinds
  <2>5. /\ orderLock' \in [Refs -> Txns \cup {NoTxn}]
        /\ \A r \in Refs : orderLock'[r] = orderLock[r]
    BY <1>0, <2>1
  <2> QED  BY ONLY StockSafe, <1>0, <2>2, <2>3, <2>4, <2>5, BeginSafe
<1>7. CASE BeginMirror(t)
  <2>1. PICK target \in [Skus -> -1..MaxTotal] :
          /\ Begin(t, "mirror", stocked, NoHoldings, target)
          /\ UNCHANGED orderLock
    BY <1>7 DEF BeginMirror
  <2>2. stocked = Skus
    BY <2>1 DEF Begin, MirrorAlone, StockSafe, AllStocked
  <2>3. target \in [Skus -> Int]
    BY InventoryAssumption
  <2> QED  BY <1>0, <2>1, <2>2, <2>3, BeginSafe
<1>8. CASE BeginRelease(t)
  <2>1. PICK r \in Refs, q \in Quantities \ {Nothing} :
          /\ "release" \in Kinds
          /\ tx[t].step = "idle"
          /\ orderLock[r] = NoTxn
          /\ \A s \in Skus : q[s] <= held[r][s]
          /\ orderLock' = [orderLock EXCEPT ![r] = t]
          /\ tx' = [tx EXCEPT ![t] = [Idle EXCEPT !.kind = "release", !.step = "commit",
                                            !.plan = Single(r, q), !.written = Skus]]
          /\ UNCHANGED <<stockData, balanceLock>>
    BY <1>8 DEF BeginRelease
  <2> DEFINE y == [Idle EXCEPT !.kind = "release", !.step = "commit",
                               !.plan = Single(r, q), !.written = Skus]
  <2>2. /\ y \in Sessions /\ y.kind = "release" /\ y.step = "commit" /\ y.todo = {}
        /\ y.plan = Single(r, q) /\ y.at = {} /\ y.written = Skus
        /\ \A z \in Skus : y.base[z] = 0
    BY IdleType, SingleType DEF Idle, Sessions, Steps, Nothing
  <2>3. tx'[t] = y /\ tx \in [Txns -> Sessions] /\ held \in Holdings
    BY <2>1 DEF StockSafe, TypeOK
  <2>4. TypeOK'
    <3>1. tx' \in [Txns -> Sessions]
      BY <2>1, <2>2, <2>3
    <3>2. orderLock' \in [Refs -> Txns \cup {NoTxn}]
      BY <1>0, <2>1
    <3> QED  BY <2>1, <3>1, <3>2 DEF StockSafe, TypeOK, stockData
  <2> HIDE DEF y
  <2>5. held[r] # Nothing
    <3>1. PICK s \in Skus : q[s] # 0
      BY DEF Quantities, Nothing
    <3>2. q[s] \in 0..MaxUnits /\ held[r][s] \in 0..MaxUnits /\ q[s] <= held[r][s]
      BY <2>1, <2>3 DEF Quantities, Holdings
    <3> QED  BY <3>1, <3>2, InventoryAssumption DEF Nothing
  <2>6. StepOK(t)'
    BY <2>1, <2>2, <2>3 DEF StepOK, Wanted
  <2>7. LocksOK(t)'
    BY <1>0, <2>1, <2>2, <2>3, SingleType DEF LocksOK
  <2>8. ChecksOK(t)'
    <3>1. ASSUME NEW s \in Skus, NEW x \in Refs
          PROVE  Single(r, q)[x][s] <= held[x][s]
      <4>1. CASE x = r
        <5>1. Single(r, q)[x] = q
          BY <4>1, SingleType
        <5> QED  BY <2>1, <4>1, <5>1
      <4>2. CASE x # r
        <5>1. Single(r, q)[x] = Nothing
          BY <4>2, SingleType
        <5>2. held[x][s] \in 0..MaxUnits
          BY <2>3 DEF Holdings, Quantities
        <5> QED  BY <5>1, <5>2, InventoryAssumption DEF Nothing
      <4> QED  BY <4>1, <4>2
    <3> QED  BY <2>1, <2>2, <2>3, <3>1 DEF ChecksOK, stockData
  <2>9. \A x \in Refs : orderLock'[x] # orderLock[x] => orderLock[x] = NoTxn
    BY <1>0, <2>1
  <2>10. \A u \in Txns : SessionOK(u)'
    BY <2>1, <2>3, <2>4, <2>6, <2>7, <2>8, <2>9, OthersUntouched DEF SessionOK
  <2>11. PlansDisjoint'
    <3> SUFFICES ASSUME NEW u \in Txns, NEW x \in Refs,
                        tx'[u].kind \in ReserveKinds, tx'[u].plan[x] # Nothing
                 PROVE  held'[x] = Nothing /\ \A v \in Txns \ {u} : tx'[v].plan[x] = Nothing
      BY DEF PlansDisjoint
    <3>1. u # t /\ tx'[u] = tx[u]
      BY <2>1, <2>2, <2>3
    <3>2. held[x] = Nothing /\ \A v \in Txns \ {u} : tx[v].plan[x] = Nothing
      BY <3>1 DEF StockSafe, PlansDisjoint
    <3>3. Single(r, q)[x] = Nothing
      BY <2>5, <3>2, SingleType
    <3>4. \A v \in Txns : v # t => tx'[v] = tx[v]
      BY <2>1, <2>3
    <3> QED  BY <2>1, <2>2, <2>3, <3>2, <3>3, <3>4 DEF stockData
  <2>12. NoOversell' /\ UnstockedEmpty' /\ AllStocked'
    BY <2>1 DEF StockSafe, NoOversell, UnstockedEmpty, AllStocked, stockData
  <2> QED  BY <2>4, <2>10, <2>11, <2>12 DEF StockSafe
<1> QED  BY <1>1, <1>2, <1>3, <1>4, <1>5, <1>6, <1>7, <1>8 DEF BeginAny
-----------------------------------------------------------------------------
(* Ending a transaction.                                                   *)

(* What a commit or a rollback of t must leave to the others.              *)
LEMMA EndSafe ==
    ASSUME StockSafe, NEW t \in Txns, End(t),
           total' \in [Skus -> 0..MaxTotal], stocked' \in SUBSET Skus,
           held' \in Holdings, late' \in [Skus -> 0..MaxLate],
           NoOversell', AllStocked',
           \A s \in Skus \ stocked' : s \notin stocked /\ total'[s] = 0 /\ late'[s] = 0,
           \A u \in Txns \ {t}, s \in Skus : Owns(u, s) =>
             /\ s \in stocked' /\ total'[s] = total[s] /\ late'[s] = late[s]
             /\ Reserved(held', s) <= Reserved(held, s),
           \A u \in Txns \ {t}, r \in Refs : orderLock[r] = u =>
             \A s \in Skus : held[r][s] <= held'[r][s],
           \A u \in Txns \ {t} :
             tx[u].kind = "mirror" /\ tx[u].step = "commit" => held' = held,
           \A u \in Txns \ {t}, r \in Refs :
             tx[u].kind \in ReserveKinds /\ tx[u].plan[r] # Nothing => held'[r] = Nothing
    PROVE  StockSafe'
<1>1. /\ tx' = [tx EXCEPT ![t] = Idle] /\ tx \in [Txns -> Sessions]
      /\ balanceLock \in [Skus -> Txns \cup {NoTxn}]
      /\ orderLock \in [Refs -> Txns \cup {NoTxn}]
  BY DEF End, StockSafe, TypeOK
<1>2. /\ balanceLock' = [s \in Skus |-> IF balanceLock[s] = t THEN NoTxn ELSE balanceLock[s]]
      /\ orderLock' = [r \in Refs |-> IF orderLock[r] = t THEN NoTxn ELSE orderLock[r]]
  BY <1>1 DEF End, Unlocked
<1>3. TypeOK'
  BY <1>1, <1>2, IdleType DEF TypeOK
<1>4. SessionOK(t)'
  <2>1. tx'[t] = Idle
    BY <1>1
  <2>2. \A r \in Refs : NoHoldings[r] = Nothing /\ \A s \in Skus : ~(Nothing[s] > 0)
    BY DEF NoHoldings, Nothing
  <2>3. \A r \in Refs, s \in Skus : NoHoldings[r][s] <= held'[r][s]
    BY InventoryAssumption DEF NoHoldings, Nothing, Holdings, Quantities
  <2>4. StepOK(t)' /\ LocksOK(t)'
    BY <2>1, <2>2 DEF StepOK, LocksOK, Idle, Wanted, Nothing
  <2>5. ChecksOK(t)'
    BY <2>1, <2>3 DEF ChecksOK, Idle, ReserveKinds, SetKinds
  <2> QED  BY <2>4, <2>5 DEF SessionOK
<1>5. ASSUME NEW u \in Txns \ {t}
      PROVE  SessionOK(u)'
  <2>1. tx'[u] = tx[u]
    BY <1>1
  <2>2. /\ \A s \in Skus : balanceLock'[s] = u <=> balanceLock[s] = u
        /\ \A r \in Refs : orderLock[r] = u => orderLock'[r] = u
    BY <1>2, InventoryAssumption
  <2>3. Untouched(u)
    BY <2>1, <2>2 DEF Untouched
  <2> QED  BY <1>3, <2>3, UntouchedKeeps DEF StockSafe
<1>6. PlansDisjoint'
  <2> SUFFICES ASSUME NEW u \in Txns, NEW r \in Refs,
                      tx'[u].kind \in ReserveKinds, tx'[u].plan[r] # Nothing
               PROVE  held'[r] = Nothing /\ \A v \in Txns \ {u} : tx'[v].plan[r] = Nothing
    BY DEF PlansDisjoint
  <2>1. u # t /\ tx'[u] = tx[u]
    BY <1>1 DEF Idle, ReserveKinds
  <2>2. \A v \in Txns \ {u} : tx[v].plan[r] = Nothing
    BY <2>1 DEF StockSafe, PlansDisjoint
  <2>3. \A v \in Txns : tx'[v] = IF v = t THEN Idle ELSE tx[v]
    BY <1>1
  <2> QED  BY <2>1, <2>2, <2>3 DEF Idle, NoHoldings
<1>7. UnstockedEmpty'
  BY <1>2 DEF StockSafe, UnstockedEmpty
<1> QED  BY <1>3, <1>4, <1>5, <1>6, <1>7 DEF StockSafe

LEMMA RollbackSafe ==
    ASSUME StockSafe, NEW t \in Txns, End(t), UNCHANGED stockData
    PROVE  StockSafe'
<1>1. \A s \in Skus : Reserved(held', s) <= Reserved(held, s)
  BY UnitsFinite DEF StockSafe, TypeOK, stockData
<1>2. \A r \in Refs, s \in Skus : held[r][s] <= held'[r][s]
  BY DEF StockSafe, TypeOK, Holdings, Quantities, stockData
<1>3. /\ total' = total /\ stocked' = stocked /\ held' = held /\ late' = late
      /\ total \in [Skus -> 0..MaxTotal] /\ stocked \in SUBSET Skus
      /\ held \in Holdings /\ late \in [Skus -> 0..MaxLate]
  BY DEF stockData, StockSafe, TypeOK
<1>4. NoOversell' /\ AllStocked'
  BY <1>3 DEF StockSafe, NoOversell, AllStocked
<1>5. \A s \in Skus \ stocked' : s \notin stocked /\ total'[s] = 0 /\ late'[s] = 0
  BY <1>3 DEF StockSafe, UnstockedEmpty
<1>6. \A u \in Txns, r \in Refs :
        tx[u].kind \in ReserveKinds /\ tx[u].plan[r] # Nothing => held'[r] = Nothing
  BY <1>3 DEF StockSafe, PlansDisjoint
<1> QED  BY <1>1, <1>2, <1>3, <1>4, <1>5, <1>6, EndSafe DEF Owns

(* Two sessions do not own the same row.                                   *)
LEMMA OneOwner ==
    ASSUME NEW t, NEW u, t # u, NEW s \in Skus, Owns(t, s)
    PROVE  ~Owns(u, s)
BY DEF Owns

LEMMA ReservedPositive ==
    ASSUME NEW h \in Holdings, NEW s \in Skus, NEW r \in Refs, h[r][s] > 0
    PROVE  Reserved(h, s) > 0
<1>1. h[r][s] \in 0..MaxUnits /\ MaxUnits \in Nat
  BY InventoryAssumption DEF Holdings, Quantities
<1>2. <<r, 1>> \in Units(h, s)
  BY <1>1 DEF Units
<1>3. Units(h, s) # {}
  BY <1>2
<1>4. Cardinality(Units(h, s)) # 0
  BY <1>3, UnitsFinite, FS_EmptySet
<1> QED  BY <1>4, UnitsFinite DEF Reserved

(* A mirror at its commit owns every row.                                  *)
LEMMA MirrorOwnsAll ==
    ASSUME StockSafe, NEW u \in Txns, tx[u].kind = "mirror", tx[u].step = "commit",
           NEW s \in Skus
    PROVE  Owns(u, s)
<1>1. s \in tx[u].written
  BY DEF StockSafe, SessionOK, StepOK
<1> QED  BY <1>1 DEF StockSafe, SessionOK, LocksOK

LEMMA CommitReservationSafe ==
    ASSUME StockSafe, NEW t \in Txns, CommitReservation(t)
    PROVE  StockSafe'
<1> DEFINE x == tx[t]
           G == Granted(x)
<1>1. /\ x \in Sessions /\ x.step = "commit" /\ x.kind \in ReserveKinds
      /\ StepOK(t) /\ LocksOK(t) /\ ChecksOK(t)
      /\ held \in Holdings /\ x.plan \in Holdings /\ total \in [Skus -> 0..MaxTotal]
      /\ late \in [Skus -> 0..MaxLate]
  BY DEF StockSafe, SessionOK, TypeOK, CommitReservation, Sessions
<1>2. /\ held' = [r \in Refs |-> [s \in Skus |-> held[r][s] + G[r][s]]]
      /\ total' = total /\ stocked' = stocked /\ late' = late /\ End(t)
  BY DEF CommitReservation
<1>3. \A r \in Refs : G[r] = IF \E s \in ShortSkus(x) : x.plan[r][s] > 0
                            THEN Nothing ELSE x.plan[r]
  BY DEF Granted
<1>4. \A r \in Refs, s \in Skus : /\ x.plan[r][s] \in 0..MaxUnits
                                  /\ held[r][s] \in 0..MaxUnits
                                  /\ G[r][s] \in {0, x.plan[r][s]}
  BY <1>1, <1>3 DEF Holdings, Quantities, Nothing
<1>a. MaxUnits \in Nat /\ MaxTotal \in Nat /\ MaxLate \in Nat
  BY InventoryAssumption
<1>5. \A r \in Refs, s \in Skus : G[r][s] # 0 =>
         /\ G[r] = x.plan[r] /\ x.plan[r][s] > 0 /\ s \in x.written /\ s \notin ShortSkus(x)
  <2> SUFFICES ASSUME NEW r \in Refs, NEW s \in Skus, G[r][s] # 0
               PROVE  /\ G[r] = x.plan[r] /\ x.plan[r][s] > 0
                      /\ s \in x.written /\ s \notin ShortSkus(x)
    OBVIOUS
  <2>1. G[r] = x.plan[r] /\ ~\E z \in ShortSkus(x) : x.plan[r][z] > 0
    BY <1>3 DEF Nothing
  <2>2. x.plan[r][s] > 0
    BY <1>4, <1>a, <2>1
  <2>3. s \in Wanted(x.plan)
    BY <2>2 DEF Wanted
  <2>4. s \in x.written
    BY <1>1, <2>3 DEF StepOK
  <2> QED  BY <2>1, <2>2, <2>4
<1>6. G \in Holdings
  <2>1. Nothing \in Quantities
    BY IdleType
  <2> QED  BY <1>1, <2>1 DEF Granted, Holdings
<1>7. held' \in Holdings /\ \A r \in Refs, s \in Skus : held'[r][s] = held[r][s] + G[r][s]
  <2>1. ASSUME NEW r \in Refs, NEW s \in Skus
        PROVE  held[r][s] + G[r][s] \in 0..MaxUnits
    <3>1. CASE G[r][s] = 0
      BY <1>4, <3>1
    <3>2. CASE G[r][s] # 0
      <4>1. x.plan[r] # Nothing
        BY <1>4, <1>5, <3>2 DEF Nothing
      <4>2. held[r][s] = 0
        BY <1>1, <4>1 DEF StockSafe, PlansDisjoint, Nothing
      <4> QED  BY <1>4, <1>a, <4>2
    <3> QED  BY <3>1, <3>2
  <2> HIDE DEF G
  <2> QED  BY <1>2, <2>1 DEF Holdings, Quantities
<1> HIDE DEF G
<1>8. \A r \in Refs, s \in Skus : held[r][s] <= held'[r][s]
  BY <1>4, <1>7, <1>a
<1>9. \A s \in Skus : Reserved(held', s) = Reserved(held, s) + Reserved(G, s)
  BY <1>1, <1>6, <1>7, ReservedAdd
<1>10. \A s \in Skus : ~Owns(t, s) => \A r \in Refs : G[r][s] = 0
  <2> SUFFICES ASSUME NEW s \in Skus, NEW r \in Refs, ~Owns(t, s), G[r][s] # 0
               PROVE  FALSE
    OBVIOUS
  <2>1. s \in x.written /\ s \notin ShortSkus(x) /\ x.plan[r][s] > 0
    BY <1>5
  <2>2. x.base[s] = 0
    BY <1>1, <2>1 DEF LocksOK, ReserveKinds
  <2>3. Reserved(x.plan, s) > 0 /\ Reserved(x.plan, s) \in Nat /\ x.seen[s] \in Nat
    BY <1>1, <2>1, ReservedPositive, UnitsFinite DEF Sessions
  <2> HIDE DEF x
  <2> QED  BY <2>1, <2>2, <2>3 DEF ShortSkus
<1>11. \A s \in Skus : ~Owns(t, s) => Reserved(held', s) = Reserved(held, s)
  BY <1>1, <1>6, <1>9, <1>10, ReservedNone, UnitsFinite
<1>12. ASSUME NEW s \in Skus, Owns(t, s), \E r \in Refs : G[r][s] # 0
       PROVE  Reserved(held', s) <= total[s]
  <2>1. s \in x.written /\ s \notin ShortSkus(x)
    BY <1>5, <1>12
  <2>2. Reserved(x.plan, s) \in Nat /\ Reserved(held, s) \in Nat /\ Reserved(G, s) \in Nat
        /\ x.seen[s] \in Nat /\ x.base[s] \in Nat
    BY <1>1, <1>6, UnitsFinite DEF Sessions
  <2>3. Reserved(x.plan, s) <= x.base[s] - x.seen[s]
    BY <2>1, <2>2 DEF ShortSkus
  <2>4. Reserved(held, s) <= x.seen[s]
    BY <1>1, <1>12, <2>1 DEF ChecksOK
  <2>5. x.base[s] = total[s]
    BY <1>12 DEF Owns
  <2>6. \A r \in Refs : G[r][s] <= x.plan[r][s]
    BY <1>4, <1>a
  <2>7. Reserved(G, s) <= Reserved(x.plan, s)
    BY <1>1, <1>6, <2>6, ReservedMonotone
  <2> QED  BY <1>9, <2>2, <2>3, <2>4, <2>5, <2>7
<1>13. NoOversell'
  <2> SUFFICES ASSUME NEW s \in Skus
               PROVE  Reserved(held', s) <= total'[s] + late'[s]
    BY DEF NoOversell
  <2>1. /\ Reserved(held, s) <= total[s] + late[s] /\ total[s] \in Nat /\ late[s] \in Nat
        /\ Reserved(held', s) \in Nat
    BY <1>1, <1>7, UnitsFinite DEF StockSafe, NoOversell
  <2>2. CASE Owns(t, s) /\ \E r \in Refs : G[r][s] # 0
    BY <1>2, <1>12, <2>1, <2>2
  <2>3. CASE \A r \in Refs : G[r][s] = 0
    <3>1. Reserved(G, s) = 0
      BY <1>6, <2>3, ReservedNone
    <3> QED  BY <1>1, <1>2, <1>9, <2>1, <3>1, UnitsFinite
  <2> QED  BY <1>10, <2>2, <2>3
<1>14. \A u \in Txns \ {t}, s \in Skus : Owns(u, s) =>
          Reserved(held', s) <= Reserved(held, s)
  BY <1>1, <1>11, OneOwner, UnitsFinite
<1>15. \A u \in Txns \ {t} :
          tx[u].kind = "mirror" /\ tx[u].step = "commit" => held' = held
  <2> SUFFICES ASSUME NEW u \in Txns \ {t}, tx[u].kind = "mirror", tx[u].step = "commit"
               PROVE  held' = held
    OBVIOUS
  <2>1. \A r \in Refs, s \in Skus : G[r][s] = 0
    BY <1>10, MirrorOwnsAll, OneOwner
  <2>2. \A r \in Refs, s \in Skus : held'[r][s] = held[r][s]
    BY <1>4, <1>7, <2>1
  <2> QED  BY <1>1, <1>7, <2>2 DEF Holdings, Quantities
<1>16. \A u \in Txns \ {t}, r \in Refs :
          tx[u].kind \in ReserveKinds /\ tx[u].plan[r] # Nothing => held'[r] = Nothing
  <2> SUFFICES ASSUME NEW u \in Txns \ {t}, NEW r \in Refs,
                      tx[u].kind \in ReserveKinds, tx[u].plan[r] # Nothing
               PROVE  held'[r] = Nothing
    OBVIOUS
  <2>1. held[r] = Nothing /\ x.plan[r] = Nothing
    BY DEF StockSafe, PlansDisjoint
  <2>2. \A s \in Skus : held[r][s] = 0 /\ G[r][s] = 0
    BY <1>4, <2>1 DEF Nothing
  <2> QED  BY <1>2, <2>2 DEF Nothing
<1>17. /\ AllStocked'
       /\ total' \in [Skus -> 0..MaxTotal] /\ stocked' \in SUBSET Skus
       /\ late' \in [Skus -> 0..MaxLate]
       /\ \A s \in Skus \ stocked' : s \notin stocked /\ total'[s] = 0 /\ late'[s] = 0
  BY <1>2 DEF StockSafe, TypeOK, AllStocked, UnstockedEmpty
<1>18. \A u \in Txns \ {t}, s \in Skus : Owns(u, s) =>
          /\ s \in stocked' /\ total'[s] = total[s] /\ late'[s] = late[s]
          /\ Reserved(held', s) <= Reserved(held, s)
  BY <1>2, <1>14 DEF Owns
<1> QED  BY <1>2, <1>7, <1>8, <1>13, <1>15, <1>16, <1>17, <1>18, EndSafe

(* A release or a shipment of t takes x.plan out of the holdings.          *)
LEMMA TakenOut ==
    ASSUME StockSafe, NEW t \in Txns, tx[t].step = "commit",
           tx[t].kind \in {"ship", "release"},
           held' = [r \in Refs |-> [s \in Skus |-> held[r][s] - tx[t].plan[r][s]]]
    PROVE  /\ held' \in Holdings
           /\ \A s \in Skus : Reserved(held, s) = Reserved(held', s) + Reserved(tx[t].plan, s)
           /\ \A s \in Skus : Reserved(held', s) <= Reserved(held, s)
           /\ \A u \in Txns \ {t}, r \in Refs : orderLock[r] = u => held'[r] = held[r]
           /\ \A u \in Txns \ {t}, r \in Refs :
                tx[u].kind \in ReserveKinds /\ tx[u].plan[r] # Nothing => held'[r] = Nothing
           /\ \A u \in Txns \ {t} :
                tx[u].kind = "mirror" /\ tx[u].step = "commit" => held' = held
<1> DEFINE p == tx[t].plan
<1>1. /\ tx[t] \in Sessions /\ p \in Holdings /\ held \in Holdings
      /\ StepOK(t) /\ LocksOK(t) /\ ChecksOK(t)
  BY DEF StockSafe, SessionOK, TypeOK, Sessions
<1>2. \A r \in Refs, s \in Skus : p[r][s] \in 0..MaxUnits /\ held[r][s] \in 0..MaxUnits
  BY <1>1 DEF Holdings, Quantities
<1>a. MaxUnits \in Nat
  BY InventoryAssumption
<1>3. \A r \in Refs, s \in Skus : p[r][s] <= held[r][s]
  <2> SUFFICES ASSUME NEW r \in Refs, NEW s \in Skus
               PROVE  p[r][s] <= held[r][s]
    OBVIOUS
  <2>1. CASE tx[t].kind = "release"
    BY <1>1, <2>1 DEF ChecksOK
  <2>2. CASE tx[t].kind = "ship" /\ p[r][s] > 0
    <3>1. s \in tx[t].written
      BY <1>1, <2>2 DEF StepOK, Wanted
    <3> QED  BY <1>1, <2>2, <3>1 DEF ChecksOK
  <2>3. CASE ~(p[r][s] > 0)
    BY <1>2, <1>a, <2>3
  <2> QED  BY <2>1, <2>2, <2>3
<1> HIDE DEF p
<1>4. \A r \in Refs, s \in Skus : held'[r][s] = held[r][s] - p[r][s]
  BY DEF p
<1>5. held' \in Holdings
  <2>1. \A r \in Refs, s \in Skus : held[r][s] - p[r][s] \in 0..MaxUnits
    BY <1>2, <1>3, <1>a
  <2> QED  BY <2>1 DEF Holdings, Quantities, p
<1>6. \A r \in Refs, s \in Skus : held[r][s] = held'[r][s] + p[r][s]
  BY <1>2, <1>4
<1>7. \A s \in Skus : Reserved(held, s) = Reserved(held', s) + Reserved(p, s)
  BY <1>1, <1>5, <1>6, ReservedAdd
<1>8. \A s \in Skus : Reserved(held', s) <= Reserved(held, s)
  BY <1>1, <1>5, <1>7, UnitsFinite
<1>9. \A u \in Txns \ {t}, r \in Refs : orderLock[r] = u => held'[r] = held[r]
  <2> SUFFICES ASSUME NEW u \in Txns \ {t}, NEW r \in Refs, orderLock[r] = u
               PROVE  held'[r] = held[r]
    OBVIOUS
  <2>1. p[r] = Nothing
    BY <1>1 DEF LocksOK, p
  <2>2. \A s \in Skus : held'[r][s] = held[r][s]
    BY <1>2, <1>4, <2>1 DEF Nothing
  <2> QED  BY <1>1, <1>5, <2>2 DEF Holdings, Quantities
<1>10. \A u \in Txns \ {t}, r \in Refs :
          tx[u].kind \in ReserveKinds /\ tx[u].plan[r] # Nothing => held'[r] = Nothing
  <2> SUFFICES ASSUME NEW u \in Txns \ {t}, NEW r \in Refs,
                      tx[u].kind \in ReserveKinds, tx[u].plan[r] # Nothing
               PROVE  held'[r] = Nothing
    OBVIOUS
  <2>1. held[r] = Nothing /\ p[r] = Nothing
    BY DEF StockSafe, PlansDisjoint, p
  <2>2. \A s \in Skus : held'[r][s] = 0
    BY <1>2, <1>4, <2>1 DEF Nothing
  <2> QED  BY <1>5, <2>2 DEF Nothing, Holdings, Quantities
<1>11. ASSUME NEW u \in Txns \ {t}, tx[u].kind = "mirror", tx[u].step = "commit"
       PROVE  held' = held
  <2>1. held = NoHoldings
    BY <1>11 DEF StockSafe, SessionOK, ChecksOK
  <2>2. \A r \in Refs, s \in Skus : held[r][s] = 0
    BY <2>1 DEF NoHoldings, Nothing
  <2>3. \A r \in Refs, s \in Skus : held'[r][s] = held[r][s]
    BY <1>2, <1>3, <1>4, <1>a, <2>2
  <2> QED  BY <1>1, <1>5, <2>3 DEF Holdings, Quantities
<1> QED  BY <1>5, <1>7, <1>8, <1>9, <1>10, <1>11 DEF p

LEMMA CommitReleaseSafe ==
    ASSUME StockSafe, NEW t \in Txns, CommitRelease(t)
    PROVE  StockSafe'
<1>1. /\ tx[t].step = "commit" /\ tx[t].kind = "release" /\ End(t)
      /\ held' = [r \in Refs |-> [s \in Skus |-> held[r][s] - tx[t].plan[r][s]]]
      /\ total' = total /\ stocked' = stocked /\ late' = late
      /\ held \in Holdings /\ total \in [Skus -> 0..MaxTotal] /\ late \in [Skus -> 0..MaxLate]
  BY DEF CommitRelease, StockSafe, TypeOK
<1>2. /\ held' \in Holdings
      /\ \A s \in Skus : Reserved(held', s) <= Reserved(held, s)
      /\ \A u \in Txns \ {t}, r \in Refs : orderLock[r] = u => held'[r] = held[r]
      /\ \A u \in Txns \ {t}, r \in Refs :
           tx[u].kind \in ReserveKinds /\ tx[u].plan[r] # Nothing => held'[r] = Nothing
      /\ \A u \in Txns \ {t} :
           tx[u].kind = "mirror" /\ tx[u].step = "commit" => held' = held
  BY <1>1, TakenOut
<1>3. NoOversell'
  <2> SUFFICES ASSUME NEW s \in Skus
               PROVE  Reserved(held', s) <= total'[s] + late'[s]
    BY DEF NoOversell
  <2>1. Reserved(held', s) \in Nat /\ Reserved(held, s) \in Nat
    BY <1>1, <1>2, UnitsFinite
  <2> QED  BY <1>1, <1>2, <2>1, InventoryAssumption DEF StockSafe, NoOversell
<1>4. \A u \in Txns \ {t}, r \in Refs : orderLock[r] = u =>
         \A s \in Skus : held[r][s] <= held'[r][s]
  BY <1>1, <1>2, InventoryAssumption DEF Holdings, Quantities
<1>5. /\ AllStocked'
      /\ stocked' \in SUBSET Skus
      /\ \A s \in Skus \ stocked' : s \notin stocked /\ total'[s] = 0 /\ late'[s] = 0
  BY <1>1 DEF StockSafe, TypeOK, AllStocked, UnstockedEmpty
<1>6. \A u \in Txns \ {t}, s \in Skus : Owns(u, s) =>
         /\ s \in stocked' /\ total'[s] = total[s] /\ late'[s] = late[s]
         /\ Reserved(held', s) <= Reserved(held, s)
  BY <1>1, <1>2 DEF Owns
<1> QED  BY <1>1, <1>2, <1>3, <1>4, <1>5, <1>6, EndSafe

LEMMA CommitShipmentSafe ==
    ASSUME StockSafe, NEW t \in Txns, CommitShipment(t)
    PROVE  StockSafe'
<1> DEFINE x == tx[t]
           n == [s \in Skus |-> x.base[s] - Reserved(x.plan, s)]
<1>1. /\ x.step = "commit" /\ x.kind = "ship" /\ End(t)
      /\ held' = [r \in Refs |-> [s \in Skus |-> held[r][s] - x.plan[r][s]]]
      /\ total' = [s \in Skus |-> IF s \in x.written THEN n[s] ELSE total[s]]
      /\ stocked' = stocked /\ late' = late
      /\ held \in Holdings /\ total \in [Skus -> 0..MaxTotal] /\ late \in [Skus -> 0..MaxLate]
      /\ x \in Sessions /\ x.plan \in Holdings /\ x.written \subseteq Skus
      /\ StepOK(t) /\ LocksOK(t) /\ ChecksOK(t)
  BY DEF CommitShipment, Stock, StockSafe, SessionOK, TypeOK, Sessions
<1>2. /\ held' \in Holdings
      /\ \A s \in Skus : Reserved(held, s) = Reserved(held', s) + Reserved(x.plan, s)
      /\ \A s \in Skus : Reserved(held', s) <= Reserved(held, s)
      /\ \A u \in Txns \ {t}, r \in Refs : orderLock[r] = u => held'[r] = held[r]
      /\ \A u \in Txns \ {t}, r \in Refs :
           tx[u].kind \in ReserveKinds /\ tx[u].plan[r] # Nothing => held'[r] = Nothing
      /\ \A u \in Txns \ {t} :
           tx[u].kind = "mirror" /\ tx[u].step = "commit" => held' = held
  BY <1>1, TakenOut
<1>3. PICK r0 \in Refs, q \in Quantities : x.plan = Single(r0, q)
  BY <1>1 DEF LocksOK
<1>4. \A s \in Skus : /\ Reserved(x.plan, s) = x.plan[r0][s]
                      /\ x.plan[r0][s] \in Nat
  <2>1. x.plan[r0] = q
    BY <1>3, SingleType
  <2>2. \A s \in Skus : q[s] \in 0..MaxUnits
    BY DEF Quantities
  <2>3. \A s \in Skus : Reserved(Single(r0, q), s) = q[s]
    BY ReservedSingle
  <2> QED  BY <1>3, <2>1, <2>2, <2>3
<1> HIDE DEF x
<1>5. \A s \in x.written : Owns(t, s) /\ x.base[s] = total[s] /\ s \in Skus
  BY <1>1 DEF LocksOK, Owns, x
<1>6. \A s \in Skus : s \notin x.written => Reserved(x.plan, s) = 0
  <2> SUFFICES ASSUME NEW s \in Skus, s \notin x.written
               PROVE  x.plan[r0][s] = 0
    BY <1>4
  <2>1. ~(x.plan[r0][s] > 0)
    BY <1>1 DEF StepOK, Wanted, x
  <2> QED  BY <1>4, <2>1
<1>7. \A s \in Skus : total'[s] = total[s] - Reserved(x.plan, s)
  BY <1>1, <1>5, <1>6
<1>8. total' \in [Skus -> 0..MaxTotal]
  <2>1. ASSUME NEW s \in Skus
        PROVE  total'[s] \in 0..MaxTotal
    <3>1. CASE s \in x.written
      <4>1. x.plan[r0][s] <= total[s]
        BY <1>1, <1>5, <3>1 DEF ChecksOK, x
      <4> QED  BY <1>1, <1>4, <1>7, <4>1, InventoryAssumption
    <3>2. CASE s \notin x.written
      BY <1>1, <3>2
    <3> QED  BY <3>1, <3>2
  <2>2. total' = [s \in Skus |-> total'[s]]
    BY <1>1
  <2> QED  BY <2>1, <2>2
<1>9. NoOversell'
  <2> SUFFICES ASSUME NEW s \in Skus
               PROVE  Reserved(held', s) <= total'[s] + late'[s]
    BY DEF NoOversell
  <2>1. /\ Reserved(held', s) \in Nat /\ Reserved(held, s) \in Nat /\ Reserved(x.plan, s) \in Nat
        /\ total[s] \in Nat /\ late[s] \in Nat
    BY <1>1, <1>2, UnitsFinite
  <2>2. Reserved(held, s) <= total[s] + late[s]
    BY DEF StockSafe, NoOversell
  <2> QED  BY <1>1, <1>2, <1>7, <2>1, <2>2
<1>10. \A u \in Txns \ {t}, s \in Skus : Owns(u, s) =>
         /\ s \in stocked' /\ total'[s] = total[s] /\ late'[s] = late[s]
         /\ Reserved(held', s) <= Reserved(held, s)
  <2> SUFFICES ASSUME NEW u \in Txns \ {t}, NEW s \in Skus, Owns(u, s)
               PROVE  s \in stocked /\ s \notin x.written
    BY <1>1, <1>2
  <2> QED  BY <1>5, OneOwner DEF Owns
<1>11. \A u \in Txns \ {t}, r \in Refs : orderLock[r] = u =>
         \A s \in Skus : held[r][s] <= held'[r][s]
  BY <1>1, <1>2, InventoryAssumption DEF Holdings, Quantities
<1>12. /\ AllStocked'
       /\ stocked' \in SUBSET Skus
       /\ \A s \in Skus \ stocked' : s \notin stocked /\ total'[s] = 0 /\ late'[s] = 0
  <2>1. \A s \in x.written : s \in stocked
    BY <1>5 DEF Owns
  <2> QED  BY <1>1, <2>1 DEF StockSafe, TypeOK, AllStocked, UnstockedEmpty
<1> QED  BY <1>1, <1>2, <1>8, <1>9, <1>10, <1>11, <1>12, EndSafe

LEMMA CommitLateShipmentSafe ==
    ASSUME StockSafe, NEW t \in Txns, CommitLateShipment(t)
    PROVE  StockSafe'
<1> DEFINE x == tx[t]
           n == [s \in Skus |-> x.base[s] - x.goal[s]]
<1>1. /\ x.step = "commit" /\ x.kind = "lateShip" /\ End(t)
      /\ total' = [s \in Skus |-> IF s \in x.written THEN n[s] ELSE total[s]]
      /\ late' = [s \in Skus |-> late[s] + x.goal[s]]
      /\ stocked' = stocked /\ held' = held
      /\ held \in Holdings /\ total \in [Skus -> 0..MaxTotal] /\ late \in [Skus -> 0..MaxLate]
      /\ x \in Sessions /\ x.written \subseteq Skus /\ x.goal \in [Skus -> Int]
      /\ StepOK(t) /\ LocksOK(t) /\ ChecksOK(t)
  BY DEF CommitLateShipment, Stock, StockSafe, SessionOK, TypeOK, Sessions
<1> HIDE DEF x
<1>2. \A s \in x.written : Owns(t, s) /\ x.base[s] = total[s] /\ s \in Skus
  BY <1>1 DEF LocksOK, Owns, x
<1>3. \A s \in Skus : x.goal[s] >= 0 /\ (s \notin x.written => x.goal[s] = 0)
  BY <1>1 DEF StepOK, x
<1>4. \A s \in x.written : x.goal[s] <= total[s] /\ late[s] + x.goal[s] <= MaxLate
  BY <1>1, <1>2 DEF ChecksOK, x
<1>5. \A s \in Skus : /\ total'[s] = total[s] - x.goal[s]
                      /\ late'[s] = late[s] + x.goal[s]
                      /\ total[s] \in 0..MaxTotal /\ late[s] \in 0..MaxLate
                      /\ x.goal[s] \in Int
  BY <1>1, <1>2, <1>3
<1>6. total' \in [Skus -> 0..MaxTotal] /\ late' \in [Skus -> 0..MaxLate]
  <2>1. \A s \in Skus : total'[s] \in 0..MaxTotal /\ late'[s] \in 0..MaxLate
    BY <1>3, <1>4, <1>5, InventoryAssumption
  <2>2. total' = [s \in Skus |-> total'[s]] /\ late' = [s \in Skus |-> late'[s]]
    BY <1>1
  <2> QED  BY <2>1, <2>2
<1>7. NoOversell'
  <2> SUFFICES ASSUME NEW s \in Skus
               PROVE  Reserved(held', s) <= total'[s] + late'[s]
    BY DEF NoOversell
  <2>1. Reserved(held, s) \in Nat /\ Reserved(held, s) <= total[s] + late[s]
    BY <1>1, UnitsFinite DEF StockSafe, NoOversell
  <2> QED  BY <1>1, <1>5, <2>1
<1>8. \A u \in Txns \ {t}, s \in Skus : Owns(u, s) =>
        /\ s \in stocked' /\ total'[s] = total[s] /\ late'[s] = late[s]
        /\ Reserved(held', s) <= Reserved(held, s)
  <2> SUFFICES ASSUME NEW u \in Txns \ {t}, NEW s \in Skus, Owns(u, s)
               PROVE  s \in stocked /\ x.goal[s] = 0 /\ Reserved(held, s) \in Nat
    BY <1>1, <1>5
  <2>1. s \notin x.written /\ s \in stocked
    BY <1>2, OneOwner DEF Owns
  <2> QED  BY <1>1, <1>3, <2>1, UnitsFinite
<1>9. \A r \in Refs, s \in Skus : held[r][s] <= held'[r][s]
  BY <1>1, InventoryAssumption DEF Holdings, Quantities
<1>10. \A u \in Txns, r \in Refs :
         tx[u].kind \in ReserveKinds /\ tx[u].plan[r] # Nothing => held'[r] = Nothing
  BY <1>1 DEF StockSafe, PlansDisjoint
<1>11. /\ AllStocked'
       /\ stocked' \in SUBSET Skus /\ held' \in Holdings
       /\ \A s \in Skus \ stocked' : s \notin stocked /\ total'[s] = 0 /\ late'[s] = 0
  <2>1. \A s \in x.written : s \in stocked
    BY <1>2 DEF Owns
  <2> QED  BY <1>1, <1>3, <1>5, <2>1 DEF StockSafe, TypeOK, AllStocked, UnstockedEmpty
<1> QED  BY <1>1, <1>6, <1>7, <1>8, <1>9, <1>10, <1>11, EndSafe

LEMMA CommitTotalSafe ==
    ASSUME StockSafe, NEW t \in Txns, CommitTotal(t)
    PROVE  StockSafe'
<1> DEFINE x == tx[t]
           n == [s \in Skus |-> NewTotal(x, s)]
<1>1. /\ x.step = "commit" /\ x.kind \in SetKinds /\ End(t)
      /\ total' = [s \in Skus |-> IF s \in x.written THEN n[s] ELSE total[s]]
      /\ stocked' = stocked /\ held' = held /\ late' = late
      /\ held \in Holdings /\ total \in [Skus -> 0..MaxTotal] /\ late \in [Skus -> 0..MaxLate]
      /\ x \in Sessions /\ x.written \subseteq Skus /\ x.seen \in [Skus -> Nat]
      /\ LocksOK(t) /\ ChecksOK(t)
  BY DEF CommitTotal, Stock, StockSafe, SessionOK, TypeOK, Sessions
<1> HIDE DEF x
<1>2. \A s \in x.written : Owns(t, s) /\ x.base[s] = total[s] /\ s \in Skus
  BY <1>1 DEF LocksOK, Owns, x, SetKinds
<1>3. \A s \in x.written : /\ Reserved(held, s) <= x.seen[s]
                           /\ \/ NewTotal(x, s) = total[s]
                              \/ NewTotal(x, s) \in x.seen[s]..MaxTotal
  BY <1>1, <1>2 DEF ChecksOK, x
<1>4. \A s \in Skus : /\ Reserved(held, s) \in Nat /\ Reserved(held, s) <= total[s] + late[s]
                      /\ total[s] \in 0..MaxTotal /\ late[s] \in 0..MaxLate /\ x.seen[s] \in Nat
  BY <1>1, UnitsFinite DEF StockSafe, NoOversell
<1>5. \A s \in Skus : /\ total'[s] \in 0..MaxTotal
                      /\ Reserved(held, s) <= total'[s] + late[s]
                      /\ s \notin x.written => total'[s] = total[s]
  <2> SUFFICES ASSUME NEW s \in Skus
               PROVE  /\ total'[s] \in 0..MaxTotal
                      /\ Reserved(held, s) <= total'[s] + late[s]
                      /\ s \notin x.written => total'[s] = total[s]
    OBVIOUS
  <2>1. CASE s \in x.written
    <3>1. total'[s] = NewTotal(x, s)
      BY <1>1, <2>1
    <3> QED  BY <1>3, <1>4, <2>1, <3>1, InventoryAssumption
  <2>2. CASE s \notin x.written
    BY <1>1, <1>4, <2>2
  <2> QED  BY <2>1, <2>2
<1>6. total' \in [Skus -> 0..MaxTotal] /\ NoOversell'
  <2>1. total' = [s \in Skus |-> total'[s]]
    BY <1>1
  <2> QED  BY <1>1, <1>5, <2>1 DEF NoOversell
<1>7. \A u \in Txns \ {t}, s \in Skus : Owns(u, s) =>
        /\ s \in stocked' /\ total'[s] = total[s] /\ late'[s] = late[s]
        /\ Reserved(held', s) <= Reserved(held, s)
  <2> SUFFICES ASSUME NEW u \in Txns \ {t}, NEW s \in Skus, Owns(u, s)
               PROVE  s \in stocked /\ s \notin x.written
    BY <1>1, <1>4, <1>5
  <2> QED  BY <1>2, OneOwner DEF Owns
<1>8. \A r \in Refs, s \in Skus : held[r][s] <= held'[r][s]
  <2>1. held' = held /\ held \in Holdings
    BY <1>1
  <2> HIDE DEF n
  <2> QED  BY ONLY <2>1, InventoryAssumption DEF Holdings, Quantities
<1>9. \A u \in Txns, r \in Refs :
        tx[u].kind \in ReserveKinds /\ tx[u].plan[r] # Nothing => held'[r] = Nothing
  BY <1>1 DEF StockSafe, PlansDisjoint
<1>10. /\ AllStocked'
       /\ stocked' \in SUBSET Skus /\ held' \in Holdings /\ late' \in [Skus -> 0..MaxLate]
       /\ \A s \in Skus \ stocked' : s \notin stocked /\ total'[s] = 0 /\ late'[s] = 0
  <2>1. \A s \in x.written : s \in stocked
    BY <1>2 DEF Owns
  <2> QED  BY <1>1, <1>5, <2>1 DEF StockSafe, TypeOK, AllStocked, UnstockedEmpty
<1> QED  BY <1>1, <1>6, <1>7, <1>8, <1>9, <1>10, EndSafe

LEMMA CommitMirrorSafe ==
    ASSUME StockSafe, NEW t \in Txns, CommitMirror(t), MirrorAlone
    PROVE  StockSafe'
<1> DEFINE x == tx[t]
           targets == {s \in Skus : x.goal[s] >= 0}
<1>1. /\ x.step = "commit" /\ x.kind = "mirror" /\ End(t)
      /\ total' = [s \in Skus |-> IF s \in targets THEN x.goal[s] ELSE total[s]]
      /\ stocked' = stocked \cup targets /\ held' = held /\ late' = late
      /\ held \in Holdings /\ total \in [Skus -> 0..MaxTotal] /\ late \in [Skus -> 0..MaxLate]
      /\ StepOK(t) /\ LocksOK(t) /\ ChecksOK(t)
  BY DEF CommitMirror, StockSafe, SessionOK, TypeOK
<1>2. x.kind \in Kinds /\ x.goal \in [Skus -> -1..MaxTotal] /\ held = NoHoldings
  BY <1>1 DEF StepOK, ChecksOK
<1>3. stocked = Skus
  BY <1>1, <1>2 DEF StockSafe, AllStocked, MirrorAlone
<1>4. total' \in [Skus -> 0..MaxTotal]
  BY <1>1, <1>2, InventoryAssumption
<1>5. NoOversell'
  <2> SUFFICES ASSUME NEW s \in Skus
               PROVE  Reserved(held', s) <= total'[s] + late'[s]
    BY DEF NoOversell
  <2>1. \A r \in Refs : held[r][s] = 0
    BY <1>2 DEF NoHoldings, Nothing
  <2>2. Reserved(held', s) = 0
    BY <1>1, <2>1, ReservedNone
  <2> QED  BY <1>1, <1>4, <2>2, InventoryAssumption
<1>6. \A u \in Txns \ {t}, s \in Skus : ~Owns(u, s)
  BY <1>1, MirrorOwnsAll, OneOwner
<1>7. \A r \in Refs, s \in Skus : held[r][s] <= held'[r][s]
  <2>1. \A r \in Refs, s \in Skus : held[r][s] = 0 /\ held'[r][s] = 0
    BY <1>1, <1>2 DEF NoHoldings, Nothing
  <2> QED  BY <2>1
<1>8. \A u \in Txns, r \in Refs :
        tx[u].kind \in ReserveKinds /\ tx[u].plan[r] # Nothing => held'[r] = Nothing
  BY <1>1 DEF StockSafe, PlansDisjoint
<1>9. /\ AllStocked' /\ stocked' = Skus /\ held' \in Holdings /\ late' \in [Skus -> 0..MaxLate]
  BY <1>1, <1>3 DEF AllStocked
<1> QED  BY <1>1, <1>4, <1>5, <1>6, <1>7, <1>8, <1>9, EndSafe

LEMMA InitializeSkuSafe ==
    ASSUME StockSafe, NEW s \in Skus, InitializeSku(s), MirrorAlone
    PROVE  StockSafe'
<1>1. PICK quantity \in 0..MaxTotal :
        /\ "create" \in Kinds
        /\ s \notin stocked
        /\ stocked' = stocked \cup {s}
        /\ total' = [total EXCEPT ![s] = quantity]
        /\ held' = held /\ late' = late /\ balanceLock' = balanceLock
        /\ orderLock' = orderLock /\ tx' = tx
  BY DEF InitializeSku
<1>2. /\ total \in [Skus -> 0..MaxTotal] /\ held \in Holdings /\ late \in [Skus -> 0..MaxLate]
      /\ stocked \in SUBSET Skus
  BY DEF StockSafe, TypeOK
<1>3. TypeOK'
  BY <1>1, <1>2 DEF StockSafe, TypeOK
<1>4. \A z \in Skus : Reserved(held, z) \in Nat
  BY <1>2, UnitsFinite
<1>5. NoOversell'
  <2> SUFFICES ASSUME NEW z \in Skus
               PROVE  Reserved(held', z) <= total'[z] + late'[z]
    BY DEF NoOversell
  <2>1. Reserved(held, z) <= total[z] + late[z]
    BY DEF StockSafe, NoOversell
  <2>2. CASE z = s
    <3>1. total[s] = 0 /\ late[s] = 0
      BY <1>1 DEF StockSafe, UnstockedEmpty
    <3> QED  BY <1>1, <1>2, <1>4, <2>1, <2>2, <3>1
  <2>3. CASE z # s
    BY <1>1, <1>2, <2>1, <2>3
  <2> QED  BY <2>2, <2>3
<1>6. UnstockedEmpty' /\ AllStocked' /\ PlansDisjoint'
  BY <1>1, <1>2 DEF StockSafe, UnstockedEmpty, AllStocked, PlansDisjoint
<1>7. ASSUME NEW u \in Txns
      PROVE  SessionOK(u)'
  <2>1. \A r \in Refs, z \in Skus : held[r][z] <= held'[r][z]
    BY <1>1, <1>2, InventoryAssumption DEF Holdings, Quantities
  <2>2. \A z \in Skus : Owns(u, z) => /\ z \in stocked' /\ total'[z] = total[z]
                                      /\ late'[z] = late[z]
                                      /\ Reserved(held', z) <= Reserved(held, z)
    BY <1>1, <1>2, <1>4 DEF Owns
  <2>3. Untouched(u)
    BY <1>1, <2>1, <2>2 DEF Untouched
  <2> QED  BY <1>3, <2>3, UntouchedKeeps DEF StockSafe
<1> QED  BY <1>3, <1>5, <1>6, <1>7 DEF StockSafe

-----------------------------------------------------------------------------
(* The theorems.                                                           *)

(* The committed data as they are at the beginning are safe.               *)
LEMMA InitSafe == Init => StockSafe
<1> SUFFICES ASSUME Init
             PROVE  StockSafe
  OBVIOUS
<1>1. /\ total \in [Skus -> 0..MaxTotal] /\ stocked \in SUBSET Skus
      /\ held = NoHoldings /\ late = Nothing
      /\ \A s \in Skus \ stocked : total[s] = 0
      /\ "create" \notin Kinds => stocked = Skus
      /\ balanceLock = [s \in Skus |-> NoTxn] /\ orderLock = [r \in Refs |-> NoTxn]
      /\ tx = [t \in Txns |-> Idle]
  BY DEF Init
<1>2. TypeOK
  BY <1>1, IdleType, InventoryAssumption DEF TypeOK, Nothing
<1>3. NoOversell
  <2> SUFFICES ASSUME NEW s \in Skus
               PROVE  Reserved(held, s) <= total[s] + late[s]
    BY DEF NoOversell
  <2>1. held \in Holdings /\ \A r \in Refs : held[r][s] = 0
    BY <1>1, IdleType DEF NoHoldings, Nothing
  <2>2. Reserved(held, s) = 0
    BY <2>1, ReservedNone
  <2> QED  BY <1>1, <2>2, InventoryAssumption DEF Nothing
<1>4. UnstockedEmpty /\ AllStocked /\ PlansDisjoint
  BY <1>1 DEF UnstockedEmpty, AllStocked, PlansDisjoint, Nothing, Idle, ReserveKinds
<1>5. ASSUME NEW t \in Txns
      PROVE  SessionOK(t)
  <2>1. tx[t] = Idle
    BY <1>1
  <2>2. \A r \in Refs : NoHoldings[r] = Nothing /\ \A s \in Skus : ~(Nothing[s] > 0)
    BY DEF NoHoldings, Nothing
  <2>3. \A r \in Refs, s \in Skus : NoHoldings[r][s] <= held[r][s]
    BY <1>1 DEF NoHoldings, Nothing
  <2>4. StepOK(t) /\ LocksOK(t)
    BY <2>1, <2>2 DEF StepOK, LocksOK, Idle, Wanted, Nothing
  <2>5. ChecksOK(t)
    BY <2>1, <2>3 DEF ChecksOK, Idle, ReserveKinds, SetKinds
  <2> QED  BY <2>4, <2>5 DEF SessionOK
<1> QED  BY <1>2, <1>3, <1>4, <1>5 DEF StockSafe

(* Every step keeps the inductive invariant.                               *)
LEMMA NextSafe ==
    ASSUME MirrorAlone, StockSafe, [Next]_vars
    PROVE  StockSafe'
<1>1. CASE \E t \in Txns : BeginAny(t)
  BY <1>1, BeginAnySafe
<1>2. CASE \E t \in Txns : LockBalance(t)
  BY <1>2, LockBalanceSafe
<1>3. CASE \E t \in Txns : SkipMissingBalance(t)
  BY <1>3, SkipMissingBalanceSafe
<1>4. CASE \E t \in Txns : ReadReserved(t)
  BY <1>4, ReadReservedSafe
<1>5. CASE \E t \in Txns : Write(t)
  BY <1>5, WriteSafe
<1>6. CASE \E t \in Txns : Commit(t)
  BY <1>6, CommitReservationSafe, CommitReleaseSafe, CommitShipmentSafe,
     CommitLateShipmentSafe, CommitTotalSafe, CommitMirrorSafe DEF Commit
<1>7. CASE \E t \in Txns : Refuse(t) \/ Abort(t)
  BY <1>7, RollbackSafe DEF Refuse, Abort
<1>8. CASE \E s \in Skus : InitializeSku(s)
  BY <1>8, InitializeSkuSafe
<1>9. CASE UNCHANGED vars
  <2>1. TypeOK' /\ NoOversell' /\ UnstockedEmpty' /\ AllStocked' /\ PlansDisjoint'
    BY <1>9 DEF StockSafe, TypeOK, NoOversell, UnstockedEmpty, AllStocked, PlansDisjoint, vars
  <2>2. ASSUME NEW u \in Txns
        PROVE  SessionOK(u)'
    BY <1>9 DEF StockSafe, SessionOK, StepOK, LocksOK, ChecksOK, Owns, vars
  <2> QED  BY <2>1, <2>2 DEF StockSafe
<1> QED  BY <1>1, <1>2, <1>3, <1>4, <1>5, <1>6, <1>7, <1>8, <1>9 DEF Next

(* The inductive invariant holds of every behaviour in which the mirror    *)
(* does not run while SKUs are created: a session that owns a row finds it *)
(* as it read it.                                                          *)
THEOREM StockStaysSafe == MirrorAlone /\ Spec => []StockSafe
<1> SUFFICES ASSUME MirrorAlone
             PROVE  Spec => []StockSafe
  OBVIOUS
<1>1. Init => StockSafe
  BY InitSafe
<1>2. StockSafe /\ [Next]_vars => StockSafe'
  BY NextSafe
<1> QED  BY <1>1, <1>2, PTL DEF Spec

(* Type correctness: stock is never negative and never overflows, and no   *)
(* reservation exceeds the bound of its row.                               *)
THEOREM TypeCorrect == MirrorAlone /\ Spec => []TypeOK
<1>1. StockSafe => TypeOK
  BY DEF StockSafe
<1> QED  BY <1>1, StockStaysSafe, PTL

(* However many sessions reserve, ship, release, adjust, count and mirror  *)
(* at the same time, what is reserved exists.                              *)
THEOREM NeverOversold == MirrorAlone /\ Spec => []NoOversell
<1>1. StockSafe => NoOversell
  BY DEF StockSafe
<1> QED  BY <1>1, StockStaysSafe, PTL
=============================================================================
