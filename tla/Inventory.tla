----------------------------- MODULE Inventory -----------------------------
(***************************************************************************)
(* The inventory component as PostgreSQL runs it: every operation that     *)
(* touches inventory_balances or inventory_reservations is a transaction   *)
(* of several statements under READ COMMITTED.  A statement is one step,   *)
(* SELECT ... FOR UPDATE waits for the row lock, a statement sees what has *)
(* been committed, and the writes of a transaction take effect, with its   *)
(* locks released, when it commits.  Any transaction may be rolled back at *)
(* any point (an error, a lost connection, a deadlock victim).             *)
(*                                                                         *)
(* The kinds of transaction:                                               *)
(*   reserve   submitTemuImportBatch: one reserveInventory per SKU, sorted *)
(*   groups    submitBulkDraft: reserveInventoryForGroups                  *)
(*   replace   createReplacementRequest: reserveInventory in the order the *)
(*             items were entered                                          *)
(*   ship      applyJifengOrderStatus, status 7                            *)
(*   lateShip  applyJifengOrderStatus, status 7 after a local cancellation *)
(*   release   a cancelled, expired or rejected order or package           *)
(*   adjust    adjustTotalInventory                                        *)
(*   count     setInventoryToActualCount                                   *)
(*   mirror    the Feishu catalog refresh in mirror mode                   *)
(*   create    initializeSkuInventory, in the transaction that adds a SKU  *)
(***************************************************************************)
EXTENDS Integers, FiniteSets

CONSTANTS
    Skus,       \* SKU ids, ordered as numbers
    Refs,       \* references (orders, replacement requests)
    Txns,       \* database sessions
    NoTxn,      \* the owner of a free lock
    Kinds,      \* the kinds of transaction that run
    MaxUnits,   \* bound: largest quantity of one reservation row
    MaxTotal,   \* bound: largest stock the integer column holds
    MaxLate     \* bound: units shipped after a local cancellation

ReserveKinds == {"reserve", "replace", "groups"}
SetKinds     == {"adjust", "count"}
AllKinds     == ReserveKinds \cup SetKinds
                  \cup {"ship", "lateShip", "release", "mirror", "create"}

ASSUME InventoryAssumption ==
    /\ Skus \subseteq Nat
    /\ IsFiniteSet(Refs)
    /\ NoTxn \notin Txns
    /\ Kinds \subseteq AllKinds
    /\ MaxUnits \in Nat \ {0}
    /\ MaxTotal \in Nat
    /\ MaxLate \in Nat

VARIABLES
    total,        \* inventory_balances.total_quantity, as committed
    stocked,      \* the SKUs that have an inventory_balances row
    held,         \* quantity of each ACTIVE inventory_reservations row, or 0
    late,         \* history: units of each SKU shipped without a reservation
    balanceLock,  \* owner of each inventory_balances row lock
    orderLock,    \* owner of the lock on the order row of each reference
    tx            \* what each session is doing

vars == <<total, stocked, held, late, balanceLock, orderLock, tx>>

stockData == <<total, stocked, held, late>>

Nothing    == [s \in Skus |-> 0]
Quantities == [Skus -> 0..MaxUnits]
Holdings   == [Refs -> Quantities]
NoHoldings == [r \in Refs |-> Nothing]

(* The units of SKU s that the holdings h claim, one element per unit, and *)
(* the sum that getReservedQuantity computes.                              *)
Units(h, s)    == {u \in Refs \X (1..MaxUnits) : u[2] <= h[u[1]][s]}
Reserved(h, s) == Cardinality(Units(h, s))

Steps == {"idle", "lock", "read", "write", "commit"}

(* A session: the kind of its transaction and the statement it is about to *)
(* run; the SKUs still to lock and the one it is waiting for; those locked *)
(* but not written (at) and those written; the quantities it works with    *)
(* (plan, per reference) or the stock it sets (goal, -1 for "leave it");   *)
(* the totals and the sums it has read.                                    *)
Sessions ==
    [kind : AllKinds, step : Steps, todo : SUBSET Skus, next : Skus \cup {-1},
     at : SUBSET Skus, written : SUBSET Skus, plan : Holdings,
     goal : [Skus -> Int], base : [Skus -> Nat], seen : [Skus -> Nat]]

Idle ==
    [kind |-> "release", step |-> "idle", todo |-> {}, next |-> -1,
     at |-> {}, written |-> {}, plan |-> NoHoldings,
     goal |-> Nothing, base |-> Nothing, seen |-> Nothing]

TypeOK ==
    /\ total \in [Skus -> 0..MaxTotal]
    /\ stocked \in SUBSET Skus
    /\ held \in Holdings
    /\ late \in [Skus -> 0..MaxLate]
    /\ balanceLock \in [Skus -> Txns \cup {NoTxn}]
    /\ orderLock \in [Refs -> Txns \cup {NoTxn}]
    /\ tx \in [Txns -> Sessions]

(* With "create" the SKUs come one by one, without it all are there.       *)
Init ==
    /\ stocked \in (IF "create" \in Kinds THEN SUBSET Skus ELSE {Skus})
    /\ total \in {n \in [Skus -> 0..MaxTotal] : \A s \in Skus \ stocked : n[s] = 0}
    /\ held = NoHoldings
    /\ late = Nothing
    /\ balanceLock = [s \in Skus |-> NoTxn]
    /\ orderLock = [r \in Refs |-> NoTxn]
    /\ tx = [t \in Txns |-> Idle]

-----------------------------------------------------------------------------
(* Starting a transaction.                                                 *)

Least(S) == {s \in S : \A x \in S : s <= x}

(* Variant with a bug, to test a property: SKU ids are never sorted.       *)
NextSkuAsEntered(kind, S) == S

(* The SKU that a FOR UPDATE statement asks for next: callers sort the     *)
(* SKU ids, except for the items of a replacement.                         *)
NextSku(kind, S) == IF kind = "replace" THEN S ELSE Least(S)

Single(r, q) == [x \in Refs |-> IF x = r THEN q ELSE Nothing]

(* A reference nobody uses: reservations are made under a new random UUID. *)
Fresh(r) ==
    /\ held[r] = Nothing
    /\ orderLock[r] = NoTxn
    /\ \A t \in Txns : tx[t].plan[r] = Nothing

Wanted(p) == {s \in Skus : \E r \in Refs : p[r][s] > 0}

(* Session t starts a transaction on the SKUs S with plan p and goal g.    *)
Begin(t, kind, S, p, g) ==
    /\ kind \in Kinds
    /\ tx[t].step = "idle"
    /\ \E s \in NextSku(kind, S) :
         tx' = [tx EXCEPT ![t] = [Idle EXCEPT !.kind = kind, !.step = "lock",
                                              !.todo = S, !.next = s,
                                              !.plan = p, !.goal = g]]
    /\ UNCHANGED <<stockData, balanceLock>>

BeginReserve(t) == \E kind \in {"reserve", "replace"}, r \in Refs, q \in Quantities :
    /\ Fresh(r)
    /\ Begin(t, kind, Wanted(Single(r, q)), Single(r, q), Nothing)
    /\ UNCHANGED orderLock

BeginGroups(t) == \E p \in Holdings :
    /\ \A r \in Refs : p[r] # Nothing => Fresh(r)
    /\ Begin(t, "groups", Wanted(p), p, Nothing)
    /\ UNCHANGED orderLock

(* The order row is locked first, then the lines of one parcel follow; the *)
(* reservation of reference r may or may not cover them.                   *)
BeginShip(t) == \E r \in Refs, q \in Quantities :
    /\ held[r] # Nothing
    /\ orderLock[r] = NoTxn
    /\ orderLock' = [orderLock EXCEPT ![r] = t]
    /\ Begin(t, "ship", Wanted(Single(r, q)), Single(r, q), Nothing)

(* A parcel whose reservation was released when it was cancelled locally.  *)
BeginLateShip(t) == \E q \in Quantities :
    /\ Begin(t, "lateShip", {s \in Skus : q[s] > 0}, NoHoldings, q)
    /\ UNCHANGED orderLock

BeginAdjust(t) == \E s \in Skus, delta \in (-MaxTotal..MaxTotal) \ {0} :
    /\ Begin(t, "adjust", {s}, NoHoldings, [Nothing EXCEPT ![s] = delta])
    /\ UNCHANGED orderLock

BeginCount(t) == \E s \in Skus, actual \in 0..MaxTotal :
    /\ Begin(t, "count", {s}, NoHoldings, [Nothing EXCEPT ![s] = actual])
    /\ UNCHANGED orderLock

(* The SKUs there are get a target from the source, or 0; the source may   *)
(* also name SKUs that are not there yet.                                  *)
BeginMirror(t) == \E target \in [Skus -> -1..MaxTotal] :
    /\ \A s \in stocked : target[s] >= 0
    /\ Begin(t, "mirror", stocked, NoHoldings, target)
    /\ UNCHANGED orderLock

(* Cancelling, expiring or rejecting locks the order row, then changes its *)
(* reservation rows, wholly or (for one parcel) in part.  No balance row   *)
(* is locked: the release makes units available, it never takes any.       *)
BeginRelease(t) == \E r \in Refs, q \in Quantities \ {Nothing} :
    /\ "release" \in Kinds
    /\ tx[t].step = "idle"
    /\ orderLock[r] = NoTxn
    /\ \A s \in Skus : q[s] <= held[r][s]
    /\ orderLock' = [orderLock EXCEPT ![r] = t]
    /\ tx' = [tx EXCEPT ![t] = [Idle EXCEPT !.kind = "release", !.step = "commit",
                                            !.plan = Single(r, q), !.written = Skus]]
    /\ UNCHANGED <<stockData, balanceLock>>

-----------------------------------------------------------------------------
(* The statements of a transaction.                                        *)

Batched == {"groups", "mirror"}

(* Where session x stands when SKU s has been dealt with by the lock       *)
(* statement: a batched statement goes on to its next row, the others to   *)
(* the sum of the reservations or, for a parcel, to the check.             *)
AfterLock(x) ==
    IF x.kind \in Batched /\ x.todo # {}
    THEN {[x EXCEPT !.next = s] : s \in Least(x.todo)}
    ELSE {[x EXCEPT !.step = IF x.kind \in {"ship", "lateShip"} THEN "write" ELSE "read"]}

(* After a SKU (or, for the batched kinds, all of them) has been written.  *)
AfterWrite(x) ==
    LET y == [x EXCEPT !.written = @ \cup x.at, !.at = {}]
    IN IF x.todo = {} THEN {[y EXCEPT !.step = "commit"]}
       ELSE {[y EXCEPT !.step = "lock", !.next = s] : s \in NextSku(x.kind, x.todo)}

(* Variant with a bug: a plain SELECT, which does not wait for the lock.   *)
SelectBalance(t) ==
    LET s == tx[t].next
        x == [tx[t] EXCEPT !.todo = @ \ {s}, !.at = @ \cup {s}, !.base[s] = total[s]]
    IN /\ tx[t].step = "lock"
       /\ s \in stocked
       /\ \E y \in AfterLock(x) : tx' = [tx EXCEPT ![t] = y]
       /\ UNCHANGED <<stockData, balanceLock, orderLock>>

(* select total_quantity ... for update: waits until the row is free.      *)
LockBalance(t) ==
    LET s == tx[t].next
        x == [tx[t] EXCEPT !.todo = @ \ {s}, !.at = @ \cup {s}, !.base[s] = total[s]]
    IN /\ tx[t].step = "lock"
       /\ s \in stocked
       /\ balanceLock[s] = NoTxn
       /\ balanceLock' = [balanceLock EXCEPT ![s] = t]
       /\ \E y \in AfterLock(x) : tx' = [tx EXCEPT ![t] = y]
       /\ UNCHANGED <<stockData, orderLock>>

(* A SKU without a balance row: the bulk statement returns no row for it,  *)
(* which counts as no stock; everywhere else it is an error (Refuse).      *)
SkipMissingBalance(t) ==
    LET s == tx[t].next
        x == [tx[t] EXCEPT !.todo = @ \ {s}, !.at = @ \cup {s}]
    IN /\ tx[t].step = "lock"
       /\ tx[t].kind = "groups"
       /\ s \notin stocked
       /\ \E y \in AfterLock(x) : tx' = [tx EXCEPT ![t] = y]
       /\ UNCHANGED <<stockData, balanceLock, orderLock>>

(* The sum over the ACTIVE reservations that are committed by now.         *)
ReadReserved(t) ==
    /\ tx[t].step = "read"
    /\ tx' = [tx EXCEPT ![t].step = "write",
                        ![t].seen = [s \in Skus |-> IF s \in tx[t].at
                                                    THEN Reserved(held, s)
                                                    ELSE tx[t].seen[s]]]
    /\ UNCHANGED <<stockData, balanceLock, orderLock>>

(* Variant with a bug: units promised to others count as available.        *)
ShortOfTotal(x) == {s \in x.at \cup x.written : Reserved(x.plan, s) > x.base[s]}

(* The SKUs of which less is available, by what x has read, than it plans  *)
(* to reserve.                                                             *)
ShortSkus(x) ==
    {s \in x.at \cup x.written : Reserved(x.plan, s) > x.base[s] - x.seen[s]}

(* Variant with a bug: only the lines of the short SKUs are left out.      *)
GrantedLines(x) ==
    [r \in Refs |-> [s \in Skus |-> IF s \in ShortSkus(x) THEN 0 ELSE x.plan[r][s]]]

(* What is granted: a SKU that is short excludes every group that uses it, *)
(* unrelated groups keep theirs.                                           *)
Granted(x) ==
    [r \in Refs |-> IF \E s \in ShortSkus(x) : x.plan[r][s] > 0
                    THEN Nothing ELSE x.plan[r]]

NewTotal(x, s) == IF x.kind = "adjust" THEN x.base[s] + x.goal[s] ELSE x.goal[s]

(* The check between what a session has read and what it writes.           *)
Passes(x) ==
    CASE x.kind \in {"reserve", "replace"} -> ShortSkus(x) = {}
      [] x.kind \in SetKinds ->
           \A s \in x.at : \/ NewTotal(x, s) = x.base[s]
                           \/ NewTotal(x, s) \in x.seen[s]..MaxTotal
      [] x.kind = "mirror" -> held = NoHoldings
      [] x.kind = "ship" ->
           \A s \in x.at, r \in Refs : /\ x.plan[r][s] <= x.base[s]
                                       /\ x.plan[r][s] <= held[r][s]
      [] x.kind = "lateShip" ->
           \A s \in x.at : x.goal[s] <= x.base[s] /\ late[s] + x.goal[s] <= MaxLate
      [] OTHER -> TRUE

Write(t) ==
    /\ tx[t].step = "write"
    /\ Passes(tx[t])
    /\ \E y \in AfterWrite(tx[t]) : tx' = [tx EXCEPT ![t] = y]
    /\ UNCHANGED <<stockData, balanceLock, orderLock>>

-----------------------------------------------------------------------------
(* The end of a transaction.                                               *)

Unlocked(lock, t) == [k \in DOMAIN lock |-> IF lock[k] = t THEN NoTxn ELSE lock[k]]

End(t) ==
    /\ tx' = [tx EXCEPT ![t] = Idle]
    /\ balanceLock' = Unlocked(balanceLock, t)
    /\ orderLock' = Unlocked(orderLock, t)

(* The stock after session x has set n[s] for the SKUs it wrote.           *)
Stock(x, n) == [s \in Skus |-> IF s \in x.written THEN n[s] ELSE total[s]]

CommitReservation(t) ==
    /\ tx[t].step = "commit"
    /\ tx[t].kind \in ReserveKinds
    /\ held' = [r \in Refs |-> [s \in Skus |-> held[r][s] + Granted(tx[t])[r][s]]]
    /\ End(t)
    /\ UNCHANGED <<total, stocked, late>>

CommitRelease(t) ==
    /\ tx[t].step = "commit"
    /\ tx[t].kind = "release"
    /\ held' = [r \in Refs |-> [s \in Skus |-> held[r][s] - tx[t].plan[r][s]]]
    /\ End(t)
    /\ UNCHANGED <<total, stocked, late>>

(* Variant with a bug: the parcel leaves, its reservation stays ACTIVE.    *)
CommitStockOnly(t) ==
    /\ tx[t].step = "commit"
    /\ tx[t].kind = "ship"
    /\ total' = Stock(tx[t], [s \in Skus |-> tx[t].base[s] - Reserved(tx[t].plan, s)])
    /\ End(t)
    /\ UNCHANGED <<stocked, held, late>>

CommitShipment(t) ==
    /\ tx[t].step = "commit"
    /\ tx[t].kind = "ship"
    /\ held' = [r \in Refs |-> [s \in Skus |-> held[r][s] - tx[t].plan[r][s]]]
    /\ total' = Stock(tx[t], [s \in Skus |-> tx[t].base[s] - Reserved(tx[t].plan, s)])
    /\ End(t)
    /\ UNCHANGED <<stocked, late>>

CommitLateShipment(t) ==
    /\ tx[t].step = "commit"
    /\ tx[t].kind = "lateShip"
    /\ total' = Stock(tx[t], [s \in Skus |-> tx[t].base[s] - tx[t].goal[s]])
    /\ late' = [s \in Skus |-> late[s] + tx[t].goal[s]]
    /\ End(t)
    /\ UNCHANGED <<stocked, held>>

CommitTotal(t) ==
    /\ tx[t].step = "commit"
    /\ tx[t].kind \in SetKinds
    /\ total' = Stock(tx[t], [s \in Skus |-> NewTotal(tx[t], s)])
    /\ End(t)
    /\ UNCHANGED <<stocked, held, late>>

(* The rows of the targets: those missing are inserted, the others updated *)
(* (which waits for a row that was not there to lock at the beginning).    *)
CommitMirror(t) ==
    LET targets == {s \in Skus : tx[t].goal[s] >= 0}
    IN /\ tx[t].step = "commit"
       /\ tx[t].kind = "mirror"
       /\ \A s \in targets : balanceLock[s] \in {t, NoTxn}
       /\ stocked' = stocked \cup targets
       /\ total' = [s \in Skus |-> IF s \in targets THEN tx[t].goal[s] ELSE total[s]]
       /\ End(t)
       /\ UNCHANGED <<held, late>>

(* The errors the code raises: the transaction is rolled back.             *)
Refuse(t) ==
    /\ \/ /\ tx[t].step = "lock"
          /\ tx[t].kind # "groups"
          /\ tx[t].next \notin stocked
       \/ /\ tx[t].step = "write"
          /\ ~Passes(tx[t])
    /\ End(t)
    /\ UNCHANGED stockData

(* Any other failure: an error in the rest of the caller's transaction, a  *)
(* lost connection, a victim of the deadlock detector.                     *)
Abort(t) ==
    /\ tx[t].step # "idle"
    /\ End(t)
    /\ UNCHANGED stockData

InitializeSku(s) == \E quantity \in 0..MaxTotal :
    /\ "create" \in Kinds
    /\ s \notin stocked
    /\ stocked' = stocked \cup {s}
    /\ total' = [total EXCEPT ![s] = quantity]
    /\ UNCHANGED <<held, late, balanceLock, orderLock, tx>>

-----------------------------------------------------------------------------
BeginAny(t) ==
    \/ BeginReserve(t) \/ BeginGroups(t) \/ BeginShip(t) \/ BeginLateShip(t)
    \/ BeginAdjust(t) \/ BeginCount(t) \/ BeginMirror(t) \/ BeginRelease(t)

Commit(t) ==
    \/ CommitReservation(t) \/ CommitRelease(t) \/ CommitShipment(t)
    \/ CommitLateShipment(t) \/ CommitTotal(t) \/ CommitMirror(t)

Next ==
    \/ \E t \in Txns : \/ BeginAny(t) \/ LockBalance(t) \/ SkipMissingBalance(t)
                       \/ ReadReserved(t) \/ Write(t) \/ Commit(t)
                       \/ Refuse(t) \/ Abort(t)
    \/ \E s \in Skus : InitializeSku(s)

Spec == Init /\ [][Next]_vars

(* A session keeps running its statements; a lock request that is granted  *)
(* again and again to others is served at last (PostgreSQL queues waiters  *)
(* in order of arrival).  Nothing makes a rollback happen.                 *)
Fairness ==
    \A t \in Txns :
      /\ WF_vars(SkipMissingBalance(t) \/ ReadReserved(t) \/ Write(t) \/ Refuse(t))
      /\ WF_vars(Commit(t))
      /\ SF_vars(LockBalance(t))

FairSpec == Spec /\ Fairness

-----------------------------------------------------------------------------
(* Properties.                                                             *)

(* The units promised to orders and replacements exist, whatever the       *)
(* transactions interleave: the check of reserveInventory,                 *)
(* reserveInventoryForGroups, the adjustments and the mirror is made on    *)
(* two statements, and holds only because of the row lock.  A parcel that  *)
(* leaves after its reservation was given up is the one way to owe units.  *)
NoOversell == \A s \in Skus : Reserved(held, s) <= total[s] + late[s]

(* Session t waits for a row lock that session u owns.                     *)
WaitsFor(t, u) ==
    /\ tx[t].step = "lock"
    /\ tx[t].next \in stocked
    /\ balanceLock[tx[t].next] = u

(* Sessions that wait for each other in a circle include a replacement:    *)
(* everybody else locks balance rows in the order of the SKU ids.          *)
OnlyReplacementsDeadlock ==
    \A C \in (SUBSET Txns) \ {{}} :
      (\A t \in C : \E u \in C : WaitsFor(t, u)) => \E t \in C : tx[t].kind = "replace"

(* An order never gets a part of what it asks for: when a reference that   *)
(* held nothing starts to hold units, it holds all of its plan.            *)
ReservesAllOrNothing ==
    [][\A r \in Refs : held[r] = Nothing /\ held'[r] # Nothing
                         => \E t \in Txns : held'[r] = tx[t].plan[r]]_vars

(* No lost update: an operation changes stock only from the value it read. *)
NoLostUpdate ==
    [][\A s \in Skus : total'[s] # total[s] /\ s \in stocked
         => \E t \in Txns : /\ tx[t].step = "commit"
                            /\ tx[t].kind = "mirror" \/ tx[t].base[s] = total[s]]_vars

(* Every transaction ends although some wait for the locks of others.      *)
EveryTransactionEnds == \A t \in Txns : tx[t].step # "idle" ~> tx[t].step = "idle"

(* The transactions implement the ledger, in which each of them is atomic. *)
(* Units shipped late count as still there: nobody gave them up.           *)
Ledger == INSTANCE StockLedger WITH total <- [s \in Skus |-> total[s] + late[s]]
ImplementsLedger == Ledger!StockSpec
-----------------------------------------------------------------------------
(* Why NoOversell holds: what a session knows while it owns row locks.     *)

(* Session t owns the balance row of s and knows its current total.        *)
Owns(t, s) ==
    /\ s \in stocked
    /\ balanceLock[s] = t
    /\ tx[t].base[s] = total[s]

(* The shape of a session at each step.                                    *)
StepOK(t) ==
    LET x == tx[t]
    IN /\ x.step = "idle" => x = Idle
       /\ x.step # "idle" => x.kind \in Kinds
       /\ x.step = "commit" => x.todo = {} /\ x.at = {}
       /\ x.step = "lock" => /\ x.next \in x.todo
                             /\ x.kind \in Batched => x.written = {}
       /\ x.step \in {"read", "write"} /\ x.kind \in Batched => x.todo = {}
       /\ x.todo \cap (x.at \cup x.written) = {} /\ x.at \cap x.written = {}
       /\ \A s \in Skus \ (x.at \cup x.written) : x.base[s] = 0
       /\ x.step # "idle" => Wanted(x.plan) \subseteq x.todo \cup x.at \cup x.written
       /\ x.kind = "lateShip" =>
            \A s \in Skus : /\ x.goal[s] >= 0
                            /\ x.goal[s] # 0 => s \in x.todo \cup x.at \cup x.written
       /\ x.kind = "mirror" =>
            /\ x.todo \cup x.at \cup x.written = Skus
            /\ x.goal \in [Skus -> -1..MaxTotal]

(* The SKUs it has dealt with are locked by it and as it read them, unless *)
(* they had no balance row; the rows of the order it ships or releases are *)
(* kept for it by the lock on the order.                                   *)
LocksOK(t) ==
    LET x == tx[t]
    IN /\ x.kind # "release" =>
            \A s \in x.at \cup x.written :
              Owns(t, s) \/ (x.kind = "groups" /\ x.base[s] = 0 /\ balanceLock[s] # t)
       /\ x.kind \in {"ship", "release"} =>
            \A r \in Refs : x.plan[r] # Nothing => orderLock[r] = t
       /\ x.kind = "ship" => \E r \in Refs, q \in Quantities : x.plan = Single(r, q)

(* What it has read or checked still holds.                                *)
ChecksOK(t) ==
    LET x == tx[t]
    IN /\ x.kind \in ReserveKinds \cup SetKinds =>
            \A s \in Skus : /\ s \in x.written \/ (s \in x.at /\ x.step = "write")
                            /\ Owns(t, s)
                            => Reserved(held, s) <= x.seen[s]
       /\ x.kind \in SetKinds =>
            \A s \in x.written : \/ NewTotal(x, s) = x.base[s]
                                 \/ NewTotal(x, s) \in x.seen[s]..MaxTotal
       /\ x.kind = "ship" =>
            \A s \in x.written, r \in Refs : /\ x.plan[r][s] <= x.base[s]
                                             /\ x.plan[r][s] <= held[r][s]
       /\ x.kind = "release" =>
            \A s \in Skus, r \in Refs : x.plan[r][s] <= held[r][s]
       /\ x.kind = "lateShip" =>
            \A s \in x.written : /\ x.goal[s] <= x.base[s]
                                 /\ late[s] + x.goal[s] <= MaxLate
       /\ x.kind = "mirror" /\ x.step = "commit" => held = NoHoldings

SessionOK(t) == StepOK(t) /\ LocksOK(t) /\ ChecksOK(t)

(* A reference that is being reserved holds nothing yet and is in nobody   *)
(* else's plan.                                                            *)
PlansDisjoint ==
    \A t \in Txns, r \in Refs :
      tx[t].kind \in ReserveKinds /\ tx[t].plan[r] # Nothing =>
        /\ held[r] = Nothing
        /\ \A u \in Txns \ {t} : tx[u].plan[r] = Nothing

(* A SKU without a balance row has no stock, owes none, and is not locked. *)
UnstockedEmpty ==
    \A s \in Skus \ stocked : total[s] = 0 /\ late[s] = 0 /\ balanceLock[s] = NoTxn

AllStocked == "create" \notin Kinds => stocked = Skus

(* The inductive invariant: sessions that own a row find it as they left   *)
(* it, so the check they made still stands when they commit.               *)
StockSafe ==
    /\ TypeOK
    /\ NoOversell
    /\ UnstockedEmpty
    /\ AllStocked
    /\ PlansDisjoint
    /\ \A t \in Txns : SessionOK(t)
-----------------------------------------------------------------------------
(* Why only replacements deadlock.                                         *)

Sorted(t) == tx[t].kind # "replace"

(* A session owns no row between transactions.  One that sorts its SKUs    *)
(* asks for the least of those left, and all it owns come before them.     *)
InOrder(t) ==
    /\ tx[t].step = "idle" => \A s \in Skus : balanceLock[s] # t
    /\ Sorted(t) =>
         /\ tx[t].step = "lock" => tx[t].next \in Least(tx[t].todo)
         /\ \A s \in Skus : balanceLock[s] = t => \A z \in tx[t].todo : s < z

LocksInOrder == \A t \in Txns : InOrder(t)
=============================================================================
