---------------------------- MODULE Fulfillment ----------------------------
(***************************************************************************)
(* The packages of a paid order on their way through the warehouse Jifeng. *)
(* The worker's cycle enqueues the packages, looks for the order that      *)
(* Jifeng has under the same platform number, binds it, and then polls its *)
(* status; administrators refresh, retry and cancel packages and send      *)
(* replacements; Jifeng ships, holds up or cancels whenever it likes.      *)
(*                                                                         *)
(* Each transaction is one action: all but the two that write nothing of   *)
(* the order lock it first.  Between the transactions of a job, the        *)
(* calls to Jifeng, everything may happen, and a job may die.  A package   *)
(* holds one unit of one SKU.  Times are left out except for what they     *)
(* decide: whether a lease has run out and whether a poll comes never.     *)
(***************************************************************************)
EXTENDS Integers, FiniteSets

CONSTANTS
    Packages,      \* the normal packages of the order
    Replacements,  \* the packages that may be sent to replace them
    Workers,       \* runs of jobs and of requests of administrators
    NoWorker,
    Order,         \* the order, as the holder of reservations
    Stock,         \* units of the SKU that are there at first
    MaxRetries,    \* bound on the retries of administrators
    HandsOff,      \* administrators leave alone what was cancelled here and
                   \* still goes on at Jifeng
    Fates          \* what Jifeng may make of each package

All == Packages \cup Replacements

ASSUME FulfillmentAssumption ==
    /\ IsFiniteSet(All)
    /\ Packages # {} /\ Packages \cap Replacements = {}
    /\ Order \notin All
    /\ NoWorker \notin Workers
    /\ Stock \in Nat /\ Stock >= Cardinality(Packages)
    /\ MaxRetries \in Nat
    /\ HandsOff \in BOOLEAN
    /\ Fates \in [All -> SUBSET {2, 7, 8, 9}]

VARIABLES
    parent,     \* fulfillment_orders.status
    row,        \* shipment_fulfillments
    event,      \* the package's row in integration_outbox
    request,    \* replacement_requests.status
    refunded,   \* packages in shipment_cancellation_adjustments
    released,   \* packages whose cancellation is in audit_logs
    stock,      \* inventory_balances.total_quantity
    held,       \* inventory_reservations.quantity, where ACTIVE
    out,        \* units booked out of stock for each package
    remote,     \* the order's status at Jifeng
    job,        \* what each worker is doing
    retries     \* retries so far

books == <<refunded, released, stock, held, out>>
vars  == <<parent, row, event, request, books, remote, job, retries>>

(* jifeng_status: in progress, shipped, held up, cancelled.                *)
Absent    == 0
Active    == 2
Shipped   == 7
HeldUp    == 8
Cancelled == 9
Details == {Active, Shipped, HeldUp, Cancelled}

Row ==
    [status : {"NONE", "PENDING", "SUBMITTING", "FULFILLING", "EXCEPTION",
               "CANCEL_PENDING", "CANCELLED", "SHIPPED"},
     jifeng : {Absent} \cup Details,
     code   : {"NONE", "OTHER", "INVENTORY", "ACTIVE_AFTER_CANCEL", "SHIPPED_AFTER_CANCEL"},
     bound  : BOOLEAN,                   \* submitted_at is set
     never  : BOOLEAN,                   \* next_retry_at is in the year 9999
     poller : Workers \cup {NoWorker},   \* status_poll_claim_token
     fresh  : BOOLEAN]                   \* status_poll_locked_at is recent

NoRow == [status |-> "NONE", jifeng |-> Absent, code |-> "NONE", bound |-> FALSE,
          never |-> FALSE, poller |-> NoWorker, fresh |-> FALSE]

NewRow == [NoRow EXCEPT !.status = "PENDING"]

Event ==
    [status : {"NONE", "PENDING", "PROCESSING", "FAILED", "COMPLETED"},
     note   : {"NONE", "OTHER", "MONITORING"},   \* last_error_code
     token  : Workers \cup {NoWorker},
     fresh  : BOOLEAN,                           \* locked_at is recent
     never  : BOOLEAN]

NoEvent  == [status |-> "NONE", note |-> "NONE", token |-> NoWorker,
             fresh |-> FALSE, never |-> FALSE]
NewEvent == [NoEvent EXCEPT !.status = "PENDING"]

Job ==
    [task : {"idle", "enqueue", "poll", "refresh", "match", "unmatched",
             "cancel", "call", "accepted", "refused"},
     pkg : All \cup {Order}, answer : {Absent} \cup Details, watch : BOOLEAN]

Idle == [task |-> "idle", pkg |-> Order,   \* no package
         answer |-> Absent, watch |-> FALSE]

OrderStatus == {"PAID_PENDING_FULFILLMENT", "FULFILLING", "SHIPPED",
                "FULFILLMENT_EXCEPTION", "CANCELLED"}

RequestStatus == {"NONE", "PENDING_FULFILLMENT", "FULFILLING", "EXCEPTION",
                  "CANCEL_PENDING", "CANCELLED", "SHIPPED"}

TypeOK ==
    /\ parent \in OrderStatus
    /\ row \in [All -> Row]
    /\ event \in [All -> Event]
    /\ request \in [Replacements -> RequestStatus]
    /\ refunded \in SUBSET Packages
    /\ released \in SUBSET All
    /\ stock \in 0..Stock
    /\ held \in [{Order} \cup Replacements -> 0..Stock]
    /\ out \in [All -> 0..Stock]
    /\ remote \in [All -> {Absent} \cup Details]
    /\ job \in [Workers -> Job]
    /\ retries \in 0..MaxRetries

Init ==
    /\ parent = "PAID_PENDING_FULFILLMENT"
    /\ row = [p \in All |-> NoRow]
    /\ event = [p \in All |-> NoEvent]
    /\ request = [r \in Replacements |-> "NONE"]
    /\ refunded = {}
    /\ released = {}
    /\ stock = Stock
    /\ held = [h \in {Order} \cup Replacements |->
                 IF h = Order THEN Cardinality(Packages) ELSE 0]
    /\ out = [p \in All |-> 0]
    /\ remote = [p \in All |-> Absent]
    /\ job = [w \in Workers |-> Idle]
    /\ retries = 0

-----------------------------------------------------------------------------
(* Jifeng.  Shipped and cancelled orders stay so.                          *)

RemoteMoves(p) ==
    /\ remote[p] \notin {Shipped, Cancelled}
    /\ \E d \in Fates[p] :
         /\ d # remote[p]
         /\ remote[p] = Absent => d = Active
         /\ remote' = [remote EXCEPT ![p] = d]
    /\ row[p].status # "NONE"
    /\ UNCHANGED <<parent, row, event, request, books, job, retries>>

-----------------------------------------------------------------------------
(* Helpers.                                                                *)

Working(w, task) == job[w].task = task

Finish(w) == job' = [job EXCEPT ![w] = Idle]

Start(w, task, p) ==
    /\ Working(w, "idle")
    /\ job' = [job EXCEPT ![w] = [Idle EXCEPT !.task = task, !.pkg = p]]

Holder(p) == IF p \in Replacements THEN p ELSE Order

SetRequest(p, s) ==
    request' = IF p \in Replacements THEN [request EXCEPT ![p] = s] ELSE request

(* deriveParentFulfillmentStatus, for packages that have statuses S.       *)
Derived(S) ==
    LET active == S \ {"CANCELLED"}
    IN  CASE active = {}           -> "CANCELLED"
          [] "EXCEPTION" \in active -> "FULFILLMENT_EXCEPTION"
          [] active = {"SHIPPED"}  -> "SHIPPED"
          [] OTHER                 -> "FULFILLING"

(* Variant with a bug, to test a property: packages without a row do not   *)
(* count.                                                                  *)
StatusesOfRows(r) == {r[p].status : p \in Packages} \ {"NONE"}

Statuses(r) ==
    {IF r[p].status = "NONE" THEN "PENDING" ELSE r[p].status : p \in Packages}

(* refreshParentFulfillmentStatus, when the rows have become r.            *)
Rolled(r) ==
    LET active == Statuses(r) \ {"CANCELLED"}
    IN  CASE parent = "CANCELLED" -> parent
          [] parent = "PAID_PENDING_FULFILLMENT" /\ active = {"PENDING"} -> parent
          [] OTHER -> Derived(Statuses(r))

(* Only normal packages make the order's status.                           *)
SetRow(p, r) ==
    /\ row' = [row EXCEPT ![p] = r]
    /\ parent' = IF p \in Packages THEN Rolled([row EXCEPT ![p] = r]) ELSE parent

SetRowOnly(p, r) ==
    /\ row' = [row EXCEPT ![p] = r]
    /\ UNCHANGED parent

(* clearedStatusPollState                                                  *)
Polled(r) == [r EXCEPT !.never = FALSE, !.poller = NoWorker, !.fresh = FALSE]

-----------------------------------------------------------------------------
(* applyJifengOrderStatus: what the status d of Jifeng makes of package p  *)
(* whose row reads r.  The cases exclude each other in the order of the    *)
(* code's early returns.                                                   *)

Late(r) ==
    /\ r.status # "SHIPPED"
    /\ \/ r.status = "CANCELLED" /\ r.jifeng # Cancelled
       \/ r.code \in {"ACTIVE_AFTER_CANCEL", "SHIPPED_AFTER_CANCEL"}

(* Variant with a bug, to test a property: shipped rows may ship again.    *)
SettledIfCancelled(r, d) ==
    r.status = "CANCELLED" /\ r.jifeng = Cancelled /\ d # Cancelled

(* Already shipped, or cancelled at Jifeng: nothing but the poll state.    *)
Settled(r, d) ==
    \/ r.status = "SHIPPED"
    \/ r.status = "CANCELLED" /\ r.jifeng = Cancelled /\ d # Cancelled

AlreadyCancelled(p, r, d) ==
    /\ r.status = "CANCELLED" /\ d = Cancelled
    /\ p \in Replacements \cup refunded

SoldOut == stock < 1

InStock(p) == ~SoldOut /\ held[Holder(p)] >= 1

(* RemoteShippedInventoryInvariantError                                    *)
LacksStock(p, r, d) ==
    /\ d = Shipped /\ ~Settled(r, d)
    /\ IF Late(r) THEN r.code # "SHIPPED_AFTER_CANCEL" /\ SoldOut
       ELSE ~InStock(p)

(* Variant with a bug, to test a property: only rows that say so.          *)
ReleasedIfCancelled(p, r) == r.status = "CANCELLED" /\ p \in released

(* The goods of a package whose cancellation is logged are free already.   *)
ReleasedBefore(p, r) ==
    /\ r.status = "CANCELLED" \/ r.code = "ACTIVE_AFTER_CANCEL"
    /\ p \in released

LacksReservation(p, r, d) ==
    /\ d = Cancelled /\ r.status # "SHIPPED" /\ ~AlreadyCancelled(p, r, d)
    /\ ~ReleasedBefore(p, r) /\ held[Holder(p)] < 1

KeepAsSettled(p, r, d) ==
    /\ Settled(r, d)
    /\ SetRowOnly(p, Polled(r))
    /\ UNCHANGED <<request, books>>

(* Jifeng ships what was cancelled here: the units leave stock, and the    *)
(* money is left to people.                                                *)
ShipLate(p, r, d) ==
    /\ ~Settled(r, d) /\ Late(r) /\ d = Shipped
    /\ r.code # "SHIPPED_AFTER_CANCEL"
    /\ ~SoldOut
    /\ SetRowOnly(p, [Polled(r) EXCEPT !.status = "EXCEPTION", !.jifeng = Shipped,
                                       !.code = "SHIPPED_AFTER_CANCEL"])
    /\ stock' = stock - 1
    /\ out' = [out EXCEPT ![p] = @ + 1]
    /\ UNCHANGED <<request, refunded, released, held>>

ShipLateAgain(p, r, d) ==
    /\ ~Settled(r, d) /\ Late(r) /\ d = Shipped
    /\ r.code = "SHIPPED_AFTER_CANCEL"
    /\ SetRowOnly(p, Polled(r))
    /\ UNCHANGED <<request, books>>

WorkLate(p, r, d) ==
    /\ ~Settled(r, d) /\ Late(r) /\ d \notin {Shipped, Cancelled}
    /\ SetRowOnly(p, [Polled(r) EXCEPT !.status = "EXCEPTION", !.jifeng = d,
                                       !.code = "ACTIVE_AFTER_CANCEL"])
    /\ UNCHANGED <<request, books>>

AwaitCancellation(p, r, d) ==
    /\ r.status = "CANCEL_PENDING" /\ ~Late(r) /\ d \notin {Shipped, Cancelled}
    /\ SetRowOnly(p, [Polled(r) EXCEPT !.jifeng = d, !.code = "OTHER"])
    /\ UNCHANGED <<request, books>>

KeepCancelled(p, r, d) ==
    /\ AlreadyCancelled(p, r, d)
    /\ SetRow(p, Polled(r))
    /\ UNCHANGED <<request, books>>

Ship(p, r, d) ==
    /\ d = Shipped /\ ~Settled(r, d) /\ ~Late(r)
    /\ InStock(p)
    /\ SetRow(p, [Polled(r) EXCEPT !.status = "SHIPPED", !.jifeng = Shipped, !.code = "NONE"])
    /\ stock' = stock - 1
    /\ held' = [held EXCEPT ![Holder(p)] = @ - 1]
    /\ out' = [out EXCEPT ![p] = @ + 1]
    /\ SetRequest(p, "SHIPPED")
    /\ UNCHANGED <<refunded, released>>

HoldUp(p, r, d) ==
    /\ d = HeldUp /\ ~Settled(r, d) /\ ~Late(r) /\ r.status # "CANCEL_PENDING"
    /\ SetRow(p, [Polled(r) EXCEPT !.status = "EXCEPTION", !.jifeng = HeldUp, !.code = "OTHER"])
    /\ SetRequest(p, "EXCEPTION")
    /\ UNCHANGED books

Cancel(p, r, d) ==
    /\ d = Cancelled /\ r.status # "SHIPPED" /\ ~AlreadyCancelled(p, r, d)
    /\ ~LacksReservation(p, r, d)
    /\ held' = IF ReleasedBefore(p, r) THEN held ELSE [held EXCEPT ![Holder(p)] = @ - 1]
    /\ SetRow(p, [Polled(r) EXCEPT !.status = "CANCELLED", !.jifeng = Cancelled, !.code = "NONE"])
    /\ SetRequest(p, "CANCELLED")
    /\ refunded' = refunded \cup ({p} \cap Packages)
    /\ released' = released \cup {p}
    /\ UNCHANGED <<stock, out>>

Proceed(p, r, d) ==
    /\ d = Active /\ ~Settled(r, d) /\ ~Late(r) /\ r.status # "CANCEL_PENDING"
    /\ SetRow(p, [Polled(r) EXCEPT !.status = "FULFILLING", !.jifeng = Active, !.code = "NONE"])
    /\ SetRequest(p, "FULFILLING")
    /\ UNCHANGED books

Apply(p, r, d) ==
    \/ KeepAsSettled(p, r, d)      \/ ShipLate(p, r, d)
    \/ ShipLateAgain(p, r, d)      \/ WorkLate(p, r, d)
    \/ AwaitCancellation(p, r, d)  \/ KeepCancelled(p, r, d)
    \/ Ship(p, r, d)               \/ HoldUp(p, r, d)
    \/ Cancel(p, r, d)             \/ Proceed(p, r, d)

-----------------------------------------------------------------------------
(* Enqueueing.  The statement reads the order's status with its snapshot   *)
(* and locks only the package; what it then inserts may be late.           *)

EnqueueRead(w, p) ==
    /\ p \in Packages
    /\ parent = "PAID_PENDING_FULFILLMENT"
    /\ row[p].status = "NONE"
    /\ Start(w, "enqueue", p)
    /\ UNCHANGED <<parent, row, event, request, books, remote, retries>>

EnqueueWrite(w) ==
    LET p == job[w].pkg IN
    /\ Working(w, "enqueue")
    /\ IF row[p].status = "NONE"
       THEN /\ row' = [row EXCEPT ![p] = NewRow]
            /\ event' = [event EXCEPT ![p] = NewEvent]
       ELSE UNCHANGED <<row, event>>
    /\ Finish(w)
    /\ UNCHANGED <<parent, request, books, remote, retries>>

-----------------------------------------------------------------------------
(* Polling and refreshing.                                                 *)

(* Variant with a bug, to test a property: claims do not end.              *)
UnclaimedOnly(p) == row[p].poller = NoWorker

Unclaimed(p) == row[p].poller = NoWorker \/ ~row[p].fresh

(* A package that is not bound is asked for only if its match went wrong   *)
(* in a way that may have reached Jifeng.                                  *)
Pollable(p) ==
    /\ row[p].status \in {"FULFILLING", "EXCEPTION", "CANCEL_PENDING", "SHIPPED"}
    /\ row[p].bound \/ row[p].jifeng # Absent \/ event[p].note = "OTHER"
    /\ row[p].code \notin {"INVENTORY", "SHIPPED_AFTER_CANCEL"}
    /\ ~row[p].never

Refreshable(p) ==
    row[p].status \in {"FULFILLING", "EXCEPTION", "CANCEL_PENDING", "CANCELLED", "SHIPPED"}

ClaimAs(task, w, p) ==
    /\ Start(w, task, p)
    /\ Unclaimed(p)
    /\ row' = [row EXCEPT ![p].poller = w, ![p].fresh = TRUE]
    /\ UNCHANGED <<parent, event, request, books, remote, retries>>

ClaimPoll(w, p) == Pollable(p) /\ ClaimAs("poll", w, p)

ClaimRefresh(w, p) == Refreshable(p) /\ ClaimAs("refresh", w, p)

(* Jifeng answers with what is so at this moment; a package that is not    *)
(* bound is asked for under a number that Jifeng does not know.            *)
Answer(w) ==
    LET p == job[w].pkg IN
    /\ job[w].task \in {"poll", "refresh", "match"} /\ job[w].answer = Absent
    /\ remote[p] # Absent
    /\ job[w].task # "match" => row[p].bound
    /\ job' = [job EXCEPT ![w].answer = remote[p]]
    /\ UNCHANGED <<parent, row, event, request, books, remote, retries>>

PollDone(w) ==
    LET p == job[w].pkg IN
    /\ job[w].task \in {"poll", "refresh"} /\ job[w].answer # Absent
    /\ row[p].poller = w
    /\ Apply(p, row[p], job[w].answer)
    /\ Finish(w)
    /\ UNCHANGED <<event, remote, retries>>

(* parkRemoteShippedInventoryInvariant                                     *)
Park(w) ==
    LET p == job[w].pkg IN
    /\ job[w].task \in {"poll", "refresh"} /\ row[p].poller = w
    /\ LacksStock(p, row[p], job[w].answer)
    /\ SetRow(p, [Polled(row[p]) EXCEPT !.status = "EXCEPTION", !.jifeng = Shipped,
                                        !.code = "INVENTORY"])
    /\ Finish(w)
    /\ UNCHANGED <<event, request, books, remote, retries>>

(* The call fails, or the answer cannot be applied.  A failure that may    *)
(* not be retried ends the polling; a refresh only gives back the claim.   *)
Fails(task, w) ==
    LET p == job[w].pkg IN
    /\ Working(w, task) /\ row[p].poller = w
    /\ job[w].answer = Absent \/ LacksReservation(p, row[p], job[w].answer)
    /\ Finish(w)
    /\ UNCHANGED <<parent, event, request, books, remote, retries>>

PollFail(w) ==
    /\ Fails("poll", w)
    /\ \E retryable \in {TRUE} \cup {job[w].answer # Absent} :
         row' = [row EXCEPT ![job[w].pkg] = [Polled(@) EXCEPT !.never = ~retryable]]

RefreshFail(w) ==
    /\ Fails("refresh", w)
    /\ row' = [row EXCEPT ![job[w].pkg].poller = NoWorker, ![job[w].pkg].fresh = FALSE]

PollStale(w) ==
    /\ job[w].task \in {"poll", "refresh"}
    /\ row[job[w].pkg].poller # w
    /\ Finish(w)
    /\ UNCHANGED <<parent, row, event, request, books, remote, retries>>

PollLeaseEnds(p) ==
    /\ row[p].fresh
    /\ row' = [row EXCEPT ![p].fresh = FALSE]
    /\ UNCHANGED <<parent, event, request, books, remote, job, retries>>

-----------------------------------------------------------------------------
(* Matching a package with the order that Jifeng has.                      *)

Due(p) ==
    \/ event[p].status \in {"PENDING", "FAILED"} /\ ~event[p].never
    \/ event[p].status = "PROCESSING" /\ ~event[p].fresh

(* A package that was cancelled here before Jifeng knew it.                *)
Monitored(p) ==
    event[p].status \in {"FAILED", "PENDING"} /\ event[p].note = "MONITORING"

Eligible(p) ==
    \/ parent \in {"PAID_PENDING_FULFILLMENT", "FULFILLING", "FULFILLMENT_EXCEPTION"}
    \/ p \in Replacements /\ request[p] \in {"PENDING_FULFILLMENT", "EXCEPTION"}

Closing(p) ==
    \/ row[p].status = "CANCELLED" /\ ~Monitored(p)
    \/ row[p].status = "SHIPPED"
    \/ ~Eligible(p) /\ ~(parent = "CANCELLED" /\ Monitored(p))

(* Another worker listed the event while it was due, and comes to it when  *)
(* it is claimed.                                                          *)
Overtaken(p) ==
    /\ event[p].status = "PROCESSING"
    /\ \E w \in Workers : Working(w, "idle") /\ w # event[p].token

MatchClose(p) ==
    /\ \/ Due(p) /\ Closing(p)
       \/ Overtaken(p) /\ row[p].status \in {"CANCELLED", "SHIPPED"}
    /\ LET ended == row[p].status = "SHIPPED" \/ (row[p].status = "CANCELLED" /\ ~Monitored(p))
       IN  event' = [event EXCEPT ![p].status = "COMPLETED", ![p].token = NoWorker,
                                  ![p].fresh = FALSE,
                                  ![p].note = IF ended THEN @ ELSE "OTHER"]
    /\ UNCHANGED <<parent, row, request, books, remote, job, retries>>

(* Another order has an active package with the same platform number.      *)
MatchRival(p) ==
    /\ Due(p) /\ ~Closing(p)
    /\ IF Monitored(p)
       THEN /\ event' = [event EXCEPT ![p] = [NoEvent EXCEPT !.status = "COMPLETED",
                                                             !.note = "MONITORING"]]
            /\ UNCHANGED <<parent, row, request>>
       ELSE /\ event' = [event EXCEPT ![p] = [NoEvent EXCEPT !.status = "FAILED",
                                                !.note = "OTHER", !.never = TRUE]]
            /\ row' = [row EXCEPT ![p].status = "EXCEPTION", ![p].code = "OTHER",
                                  ![p].never = FALSE]
            /\ parent' = Rolled(row')
            /\ SetRequest(p, "EXCEPTION")
    /\ UNCHANGED <<books, remote, job, retries>>

ClaimMatch(w, p) ==
    /\ Due(p) /\ ~Closing(p) /\ Working(w, "idle")
    /\ event' = [event EXCEPT ![p] = [NoEvent EXCEPT !.status = "PROCESSING",
                                        !.token = w, !.fresh = TRUE]]
    /\ row' = [row EXCEPT ![p].status = IF @ = "CANCELLED" THEN @ ELSE "SUBMITTING"]
    /\ job' = [job EXCEPT ![w] = [Idle EXCEPT !.task = "match", !.pkg = p,
                 !.watch = row[p].status = "CANCELLED" /\ Monitored(p)]]
    /\ UNCHANGED <<parent, request, books, remote, retries>>

(* Variant with a bug, to test a property: the token is not compared.      *)
StillProcessing(w) == job[w].pkg \in All /\ event[job[w].pkg].status = "PROCESSING"

OwnsEvent(w) ==
    /\ job[w].pkg \in All
    /\ event[job[w].pkg].status = "PROCESSING" /\ event[job[w].pkg].token = w

(* finalizeExistingOrderMatch: the binding, and what Jifeng's status says. *)
Bound(r) == [r EXCEPT !.bound = TRUE, !.code = "NONE", !.never = FALSE]

MatchDone(w) ==
    LET p == job[w].pkg IN
    /\ Working(w, "match") /\ job[w].answer # Absent /\ OwnsEvent(w)
    /\ Apply(p, Bound(row[p]), job[w].answer)
    /\ event' = [event EXCEPT ![p] = [NoEvent EXCEPT !.status = "COMPLETED"]]
    /\ Finish(w)
    /\ UNCHANGED <<remote, retries>>

(* The goods cannot be booked out: the binding is kept, and the failure    *)
(* is recorded by the next transaction.                                    *)
MatchLacksStock(w) ==
    LET p == job[w].pkg IN
    /\ Working(w, "match") /\ OwnsEvent(w)
    /\ LacksStock(p, Bound(row[p]), job[w].answer)
    /\ SetRowOnly(p, Bound(row[p]))
    /\ job' = [job EXCEPT ![w].task = "unmatched"]
    /\ UNCHANGED <<event, request, books, remote, retries>>

(* recordMatchFailure.                                                     *)
RecordFailure(w, retryable, lacksStock) ==
    LET p == job[w].pkg
        watch == job[w].watch /\ ~lacksStock
    IN
    /\ row' = [row EXCEPT
         ![p].jifeng = IF lacksStock THEN Shipped ELSE @,
         ![p].code   = IF lacksStock THEN "INVENTORY" ELSE "OTHER",
         ![p].never  = FALSE,
         ![p].status = IF watch THEN "CANCELLED"
                       ELSE IF retryable THEN "PENDING" ELSE "EXCEPTION"]
    /\ event' = [event EXCEPT ![p] = [NoEvent EXCEPT !.status = "FAILED",
         !.note = IF watch THEN "MONITORING" ELSE "OTHER", !.never = ~retryable]]
    /\ IF job[w].watch THEN UNCHANGED request
       ELSE SetRequest(p, IF retryable THEN "PENDING_FULFILLMENT" ELSE "EXCEPTION")
    /\ parent' = IF ~retryable /\ ~job[w].watch THEN Rolled(row') ELSE parent

(* No answer, an order that is bound to another package, or an answer that *)
(* cannot be applied.                                                      *)
MatchFail(w) ==
    /\ OwnsEvent(w)
    /\ \/ /\ Working(w, "match") /\ job[w].answer = Absent
          /\ \E retryable \in BOOLEAN : RecordFailure(w, retryable, FALSE)
       \/ /\ Working(w, "match") /\ job[w].answer # Absent
          /\ RecordFailure(w, FALSE, FALSE)
       \/ /\ Working(w, "match")
          /\ LacksReservation(job[w].pkg, Bound(row[job[w].pkg]), job[w].answer)
          /\ RecordFailure(w, TRUE, FALSE)
       \/ /\ Working(w, "unmatched")
          /\ RecordFailure(w, FALSE, TRUE)
    /\ Finish(w)
    /\ UNCHANGED <<books, remote, retries>>

MatchStale(w) ==
    /\ job[w].task \in {"match", "unmatched"} /\ ~OwnsEvent(w)
    /\ Finish(w)
    /\ UNCHANGED <<parent, row, event, request, books, remote, retries>>

MatchLeaseEnds(p) ==
    /\ event[p].status = "PROCESSING" /\ event[p].fresh
    /\ event' = [event EXCEPT ![p].fresh = FALSE]
    /\ UNCHANGED <<parent, row, request, books, remote, job, retries>>
-----------------------------------------------------------------------------
(* retryJifengShipment                                                     *)

(* The messages of these codes ask for the case to be settled by hand.     *)
LeftAlone(p) ==
    HandsOff /\ row[p].code \in {"ACTIVE_AFTER_CANCEL", "SHIPPED_AFTER_CANCEL"}

Retry(p) ==
    /\ ~LeftAlone(p)
    /\ retries < MaxRetries
    /\ row[p].status = "EXCEPTION"
    /\ retries' = retries + 1
    /\ \/ /\ row[p].bound \/ row[p].jifeng # Absent
          /\ SetRowOnly(p, [row[p] EXCEPT !.code = "NONE", !.never = FALSE])
          /\ UNCHANGED <<event, request>>
       \/ /\ ~row[p].bound /\ row[p].jifeng = Absent
          /\ event[p].status # "NONE"
          /\ event[p].status = "PROCESSING" => ~event[p].fresh
          /\ SetRow(p, [row[p] EXCEPT !.status = "PENDING", !.code = "NONE", !.never = FALSE])
          /\ event' = [event EXCEPT ![p] = NewEvent]
          /\ SetRequest(p, "PENDING_FULFILLMENT")
    /\ UNCHANGED <<books, remote, job>>

-----------------------------------------------------------------------------
(* cancelJifengShipment                                                    *)

LeaseOver(p) == event[p].status = "PROCESSING" /\ ~event[p].fresh

Unknown(p) == ~row[p].bound /\ row[p].jifeng = Absent

LocalOnly(p) ==
    /\ row[p].status \in {"PENDING", "EXCEPTION"} \/ LeaseOver(p)
    /\ Unknown(p)

(* From here on the worker looks for an order that Jifeng might still get. *)
Monitor(e) ==
    IF e.status \in {"PENDING", "FAILED", "PROCESSING"}
    THEN [NewEvent EXCEPT !.note = "MONITORING"] ELSE e

(* finalizeShipmentCancellation, for a package Jifeng does not know.       *)
CancelLocally(p) ==
    /\ held[Holder(p)] >= 1
    /\ held' = [held EXCEPT ![Holder(p)] = @ - 1]
    /\ SetRow(p, [row[p] EXCEPT !.status = "CANCELLED", !.code = "NONE", !.never = FALSE])
    /\ event' = [event EXCEPT ![p] = Monitor(@)]
    /\ SetRequest(p, "CANCELLED")
    /\ refunded' = refunded \cup ({p} \cap Packages)
    /\ released' = released \cup {p}
    /\ UNCHANGED <<stock, out>>

Cancellable(p) ==
    /\ row[p].status \notin {"NONE", "SHIPPED", "CANCELLED", "CANCEL_PENDING"}
    /\ event[p].status = "PROCESSING" => ~event[p].fresh

CancelPackage(w, p) ==
    /\ Cancellable(p) /\ ~LeftAlone(p)
    /\ \/ /\ Working(w, "idle") /\ LocalOnly(p)
          /\ CancelLocally(p)
          /\ UNCHANGED job
       \/ /\ ~LocalOnly(p)
          /\ SetRowOnly(p, [row[p] EXCEPT !.status = "CANCEL_PENDING"])
          /\ SetRequest(p, "CANCEL_PENDING")
          /\ Start(w, "call", p)
          /\ UNCHANGED <<event, books>>
    /\ UNCHANGED <<remote, retries>>

(* Jifeng accepts, and may cancel at once or later, or refuses; a refusal  *)
(* may also be an acceptance whose answer was lost.                        *)
CallCancel(w) ==
    LET p == job[w].pkg IN
    /\ Working(w, "call")
    /\ \E t \in {"accepted", "refused"} : job' = [job EXCEPT ![w].task = t]
    /\ \/ UNCHANGED remote
       \/ /\ remote[p] \in {Active, HeldUp} /\ Cancelled \in Fates[p]
          /\ remote' = [remote EXCEPT ![p] = Cancelled]
    /\ UNCHANGED <<parent, row, event, request, books, retries>>

CancelAccepted(w) ==
    LET p == job[w].pkg IN
    /\ Working(w, "accepted")
    /\ IF row[p].status \in {"SHIPPED", "CANCELLED"}
       THEN UNCHANGED <<parent, row, request>>
       ELSE /\ SetRowOnly(p, [row[p] EXCEPT !.status = "CANCEL_PENDING", !.code = "NONE",
                                            !.never = FALSE])
            /\ SetRequest(p, "CANCEL_PENDING")
    /\ Finish(w)
    /\ UNCHANGED <<event, books, remote, retries>>

CancelRefused(w) ==
    LET p == job[w].pkg IN
    /\ Working(w, "refused")
    /\ IF row[p].status \in {"SHIPPED", "CANCELLED"}
       THEN UNCHANGED <<parent, row, request>>
       ELSE /\ SetRow(p, [row[p] EXCEPT !.status = "EXCEPTION", !.code = "OTHER"])
            /\ SetRequest(p, "EXCEPTION")
    /\ Finish(w)
    /\ UNCHANGED <<event, books, remote, retries>>

-----------------------------------------------------------------------------
(* cancelFulfillmentOrder and cancelAllCancellableOrderShipments           *)

OrderCancellable ==
    /\ parent = "PAID_PENDING_FULFILLMENT"
    /\ \A p \in All : row[p].status \notin {"NONE", "CANCELLED"} =>
         /\ Unknown(p)
         /\ \/ row[p].status \in {"PENDING", "EXCEPTION"}
            \/ row[p].status = "SUBMITTING" /\ LeaseOver(p)
         /\ event[p].status = "PROCESSING" => LeaseOver(p)

CancelOrder ==
    /\ OrderCancellable
    /\ row' = [p \in All |->
         IF row[p].status \in {"PENDING", "EXCEPTION", "SUBMITTING"}
         THEN [row[p] EXCEPT !.status = "CANCELLED", !.code = "OTHER", !.never = FALSE]
         ELSE row[p]]
    /\ event' = [p \in All |-> Monitor(event[p])]
    /\ refunded' = Packages
    /\ released' = released \cup Packages
    /\ held' = [held EXCEPT ![Order] = 0]
    /\ parent' = "CANCELLED"
    /\ UNCHANGED <<request, stock, out, remote, job, retries>>

(* The whole order cannot be cancelled at once: a package that is not      *)
(* enqueued gets a row, so that it can be cancelled like the others.       *)
Materialize(w, p) ==
    /\ p \in Packages /\ row[p].status = "NONE"
    /\ parent # "CANCELLED" /\ ~OrderCancellable
    /\ row' = [row EXCEPT ![p] = NewRow]
    /\ Start(w, "cancel", p)
    /\ UNCHANGED <<parent, event, request, books, remote, retries>>

CancelMaterialized(w) ==
    LET p == job[w].pkg IN
    /\ Working(w, "cancel")
    /\ IF Cancellable(p) /\ LocalOnly(p)
       THEN CancelLocally(p)
       ELSE UNCHANGED <<parent, row, event, request, books>>
    /\ Finish(w)
    /\ UNCHANGED <<remote, retries>>

(* The sum over the ACTIVE reservations, one element per unit.             *)
Reserved == Cardinality({u \in ({Order} \cup Replacements) \X (1..Stock) : u[2] <= held[u[1]]})

(* createReplacementRequest                                                *)
CreateReplacement(p, r) ==
    /\ r \in Replacements /\ row[r].status = "NONE"
    /\ p \in Packages /\ row[p].status = "SHIPPED"
    /\ stock > Reserved
    /\ held' = [held EXCEPT ![r] = 1]
    /\ row' = [row EXCEPT ![r] = NewRow]
    /\ event' = [event EXCEPT ![r] = NewEvent]
    /\ request' = [request EXCEPT ![r] = "PENDING_FULFILLMENT"]
    /\ UNCHANGED <<parent, refunded, released, stock, out, remote, job, retries>>

(* The process dies; its claims stay until their leases end.               *)
Crash(w) ==
    /\ ~Working(w, "idle")
    /\ Finish(w)
    /\ UNCHANGED <<parent, row, event, request, books, remote, retries>>

-----------------------------------------------------------------------------
PackageStep(p) ==
    \/ RemoteMoves(p) \/ PollLeaseEnds(p) \/ MatchLeaseEnds(p)
    \/ MatchClose(p) \/ MatchRival(p) \/ Retry(p)
    \/ \E r \in Replacements : CreateReplacement(p, r)
    \/ \E w \in Workers : EnqueueRead(w, p) \/ ClaimPoll(w, p) \/ ClaimRefresh(w, p)
                          \/ ClaimMatch(w, p)
                          \/ CancelPackage(w, p) \/ Materialize(w, p)

WorkerStep(w) ==
    \/ EnqueueWrite(w) \/ Answer(w)
    \/ PollDone(w) \/ Park(w) \/ PollFail(w) \/ RefreshFail(w) \/ PollStale(w)
    \/ MatchDone(w) \/ MatchLacksStock(w) \/ MatchFail(w) \/ MatchStale(w)
    \/ CallCancel(w) \/ CancelAccepted(w) \/ CancelRefused(w)
    \/ CancelMaterialized(w) \/ Crash(w)

Next ==
    \/ \E p \in All : PackageStep(p)
    \/ \E w \in Workers : WorkerStep(w)
    \/ CancelOrder

Spec == Init /\ [][Next]_vars

-----------------------------------------------------------------------------
(* Safety.                                                                 *)

(* A package's goods are booked out of stock at most once, however often   *)
(* and in whatever order Jifeng's answers arrive, and never out of stock   *)
(* that is not there.                                                      *)
DeductedOnce ==
    /\ TypeOK
    /\ \A p \in All : out[p] <= 1
    /\ stock = Stock - Cardinality({p \in All : out[p] = 1})

(* What the order and its replacements keep reserved is what their         *)
(* packages still need: no cancellation frees the goods of a sibling, and  *)
(* none leaves goods locked that nobody will send.                         *)
ReservationsMatch ==
    /\ held[Order] =
         Cardinality({p \in Packages : row[p].status \notin {"SHIPPED", "CANCELLED"}
                                       /\ p \notin refunded})
    /\ \A r \in Replacements :
         held[r] = IF request[r] \in {"NONE", "SHIPPED"} \/ r \in released THEN 0 ELSE 1

(* An order that is shown as shipped or cancelled has no package that is   *)
(* still to be sent, and a package that was refunded and left the          *)
(* warehouse all the same is marked for the administrators and stays so.   *)
OrderTellsTheTruth ==
    /\ parent = "SHIPPED" => \A p \in Packages : row[p].status = "SHIPPED" \/ p \in refunded
    /\ parent = "CANCELLED" => Packages \subseteq refunded
    /\ \A p \in refunded : out[p] > 0 => row[p].code = "SHIPPED_AFTER_CANCEL"

(* A match that began before a package was cancelled does not bind it      *)
(* afterwards: only one that watches for orders of cancelled packages may. *)
OnlyWatchersBindCancelled ==
    [][\A w \in Workers, p \in All : job[w].pkg = p =>
         (row[p].status = "CANCELLED" /\ ~row[p].bound /\ row'[p].bound
            => job'[w] = job[w] \/ job[w].watch)]_vars

(* Contradicted by the code: a package that was cancelled locally is       *)
(* watched until Jifeng's order is bound or another package has its        *)
(* number, whatever becomes of the other packages of the order ...         *)
MonitoringSurvivesSiblings ==
    [][\A p \in All :
         Monitored(p) /\ row[p].status = "CANCELLED" /\ event'[p].status = "COMPLETED"
           => row'[p].bound \/ event'[p].note = "MONITORING"]_vars

(* ... and also if a process dies while it looks for the order.            *)
MonitoringSurvivesCrashes ==
    [][\A p \in All :
         (/\ row[p].status = "CANCELLED" /\ ~row[p].bound
          /\ event[p].status = "PROCESSING" /\ event'[p].status = "COMPLETED")
           => row'[p].bound]_vars

(* Contradicted by the code: when a paid order has entered fulfillment,    *)
(* each of its packages is enqueued, or is just being enqueued.            *)
PaidPackagesEnqueued ==
    parent \in {"FULFILLING", "SHIPPED", "FULFILLMENT_EXCEPTION"}
      => \A p \in Packages : \/ row[p].status # "NONE"
                             \/ \E w \in Workers : Working(w, "enqueue") /\ job[w].pkg = p

-----------------------------------------------------------------------------
(* Liveness.  The worker's cycle runs every minute, leases end by time,    *)
(* and not every call fails or is cut off by the death of the process.     *)

FairSpec ==
    /\ Spec
    /\ \A p \in All :
         /\ WF_vars(PollLeaseEnds(p)) /\ WF_vars(MatchLeaseEnds(p))
         /\ \A w \in Workers : SF_vars(ClaimPoll(w, p)) /\ SF_vars(ClaimMatch(w, p))
    /\ \A w \in Workers :
         /\ WF_vars(WorkerStep(w))
         /\ SF_vars(Answer(w))
         /\ SF_vars(PollDone(w) \/ Park(w))
         /\ SF_vars(MatchDone(w) \/ MatchLacksStock(w))
         /\ SF_vars(Working(w, "unmatched") /\ MatchFail(w))

(* What Jifeng ships is seen: the package becomes shipped, or is marked    *)
(* for the administrators, or a failure that cannot be retried has ended   *)
(* the polling.                                                            *)
ShipmentsRecorded ==
    \A p \in All : remote[p] = Shipped /\ row[p].bound ~>
      \/ row[p].status = "SHIPPED" \/ row[p].never
      \/ row[p].code \in {"INVENTORY", "SHIPPED_AFTER_CANCEL"}

(* A cancellation that waits for Jifeng ends when Jifeng has decided.      *)
CancellationsEnd ==
    \A p \in All : row[p].status = "CANCEL_PENDING" /\ remote[p] \in {Shipped, Cancelled}
      ~> row[p].status # "CANCEL_PENDING" \/ row[p].never

(* Whatever Jifeng has decided about a package reaches its row, although   *)
(* polls are late, workers die and retries and cancellations come between. *)
DecisionsArrive == ShipmentsRecorded /\ CancellationsEnd
-----------------------------------------------------------------------------
(* Why the safety properties hold, as long as administrators leave alone   *)
(* what was cancelled here and still goes on at Jifeng.                    *)

(* The packages that were booked out, and the normal packages for which    *)
(* the order still has to hold a unit.                                     *)
Booked == {p \in All : out[p] = 1}
Needy  == {p \in Packages : row[p].status # "SHIPPED" /\ p \notin released}

(* Jifeng has shipped a package that cannot be booked out any more.        *)
Lost(p) == SoldOut /\ row[p].bound /\ remote[p] = Shipped /\ out[p] = 0

(* Never bound, in an order that was cancelled as a whole: the package may *)
(* still be enqueued by a late worker, but nobody looks for it.            *)
Orphan(p) ==
    /\ p \in Packages /\ parent = "CANCELLED" /\ ~row[p].bound
    /\ row[p].status \in {"NONE", "PENDING"}
    /\ event[p].status \in {"NONE", "PENDING", "COMPLETED"} /\ event[p].note # "MONITORING"

(* Cancelled here, and found at work at Jifeng.                            *)
WorkedOn(p) ==
    /\ row[p].status = "EXCEPTION" /\ row[p].code = "ACTIVE_AFTER_CANCEL"
    /\ row[p].bound /\ event[p].status = "COMPLETED"

(* What a row says of the binding, of the goods and of the cancellation.   *)
BindingOK(p) ==
    /\ row[p].status = "NONE" => row[p] = NoRow /\ event[p] = NoEvent
    /\ row[p].bound => event[p].status = "COMPLETED" \/ Lost(p)
    /\ ~row[p].bound =>
         /\ row[p].jifeng = Absent /\ row[p].code \in {"NONE", "OTHER"} /\ out[p] = 0
         /\ row[p].status \in {"NONE", "PENDING", "SUBMITTING", "EXCEPTION", "CANCELLED"}
         /\ row[p].status = "SUBMITTING" => event[p].status = "PROCESSING"

GoodsOK(p) ==
    /\ out[p] <= 1
    /\ row[p].status = "SHIPPED" => out[p] = 1 /\ p \notin released
    /\ row[p].code = "SHIPPED_AFTER_CANCEL" => out[p] = 1
    /\ out[p] = 1 =>
         /\ row[p].bound /\ remote[p] = Shipped /\ event[p].status = "COMPLETED"
         /\ \/ row[p].status = "SHIPPED"
            \/ /\ row[p].status = "EXCEPTION" /\ row[p].code = "SHIPPED_AFTER_CANCEL"
               /\ p \in released

CancellationOK(p) ==
    /\ row[p].status = "CANCELLED" => p \in released
    /\ row[p].code = "ACTIVE_AFTER_CANCEL" => WorkedOn(p) /\ p \in released
    /\ p \in released =>
         \/ row[p].status = "CANCELLED" \/ WorkedOn(p) \/ out[p] = 1
         \/ Lost(p) \/ Orphan(p)

PackageOK(p) == BindingOK(p) /\ GoodsOK(p) /\ CancellationOK(p)

(* A replacement holds its own unit, and its request follows its row.      *)
ReplacementOK(r) ==
    /\ row[r].status = "NONE" <=> request[r] = "NONE"
    /\ row[r].status = "SHIPPED" <=> request[r] = "SHIPPED"
    /\ ~row[r].bound /\ row[r].status \in {"PENDING", "SUBMITTING", "EXCEPTION"}
         => request[r] \in {"PENDING_FULFILLMENT", "EXCEPTION"}
    /\ held[r] = IF request[r] \in {"NONE", "SHIPPED"} \/ r \in released THEN 0 ELSE 1

ParentOK ==
    /\ parent = "PAID_PENDING_FULFILLMENT" =>
         /\ \A p \in Packages : row[p].status # "SHIPPED"
         /\ \A r \in Replacements : row[r].status = "NONE"
    /\ parent = "SHIPPED" => \A p \in Packages : row[p].status = "SHIPPED" \/ p \in released
    /\ parent = "CANCELLED" => Packages \subseteq released

(* What a worker has learned still fits the package when it writes.        *)
AnswerOK(w) ==
    LET p == job[w].pkg
    IN /\ job[w].answer \in {Shipped, Cancelled} => remote[p] = job[w].answer
       /\ job[w].task \in {"poll", "refresh"} /\ job[w].answer # Absent =>
            /\ row[p].bound
            /\ event[p].status = "COMPLETED" \/ job[w].answer = Shipped
            /\ row[p].poller = w /\ out[p] = 1 => job[w].answer = Shipped

CallOK(w) ==
    LET p == job[w].pkg
    IN job[w].task \in {"call", "accepted", "refused"} =>
         /\ row[p].bound
         /\ \/ p \notin released \/ Lost(p)
            \/ row[p].status = "CANCELLED" /\ row[p].jifeng = Cancelled

MatchOK(w) ==
    LET p == job[w].pkg
    IN /\ job[w].task = "match" /\ OwnsEvent(w) =>
            Lost(p) \/ row[p].status = IF job[w].watch THEN "CANCELLED" ELSE "SUBMITTING"
       /\ job[w].task = "unmatched" /\ OwnsEvent(w) => Lost(p)
       /\ job[w].task \in {"match", "unmatched"} /\ job[w].watch => p \in released

JobOK(w) ==
    /\ job[w].task = "idle" => job[w] = Idle
    /\ job[w].task # "idle" => job[w].pkg \in All
    /\ job[w].task \in {"enqueue", "cancel"} => job[w].pkg \in Packages
    /\ AnswerOK(w) /\ CallOK(w) /\ MatchOK(w)

PackagesSafe ==
    /\ TypeOK
    /\ refunded = released \cap Packages
    /\ stock = Stock - Cardinality(Booked)
    /\ held[Order] = Cardinality(Needy)
    /\ ParentOK
    /\ \A p \in All : PackageOK(p)
    /\ \A r \in Replacements : ReplacementOK(r)
    /\ \A w \in Workers : JobOK(w)
=============================================================================
