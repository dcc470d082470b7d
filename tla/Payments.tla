------------------------------ MODULE Payments ------------------------------
(***************************************************************************)
(* How one customer's fulfillment orders are paid: from the wallet when    *)
(* they are submitted, by an offline payment that the customer declares    *)
(* for one order and an administrator reviews, or by a settlement batch    *)
(* that pays several orders, partly from a wallet hold and the rest by one *)
(* declared payment.  Unpaid orders and batches expire; orders that have   *)
(* not gone to the warehouse can be cancelled and are refunded.            *)
(*                                                                         *)
(* Every operation of the code is one database transaction that locks the  *)
(* settlement batch before its orders and the orders before the wallet.    *)
(* The one thing read without a lock, whether an order's batch is open, is *)
(* stable once it is false, because a batch never reopens.  So a           *)
(* transaction is one step here.  What does go out of date is the time:    *)
(* "now" is taken before the transaction waits for its locks.              *)
(***************************************************************************)
EXTENDS Integers, FiniteSets

CONSTANTS
    Orders,         \* the orders the customer may submit, one package each
    Batches,        \* the settlement batches bulk submissions may create
    NoBatch,        \* the batch of an order that was submitted by itself
    Amount,         \* total_amount_fen of each order
    MaxAmount,      \* bound: the largest amount of an order
    MaxBalance,     \* bound: the largest balance the integer column holds
    PaymentLock,    \* time an unpaid order keeps its stock (2 hours)
    ReviewLock,     \* time a declared payment waits for review (12 hours)
    MaxDelay,       \* bound: how old "now" is when a transaction commits
    LastSubmission, \* bound: no order is submitted later than this
    MaxTime         \* bound: the clock stops here

ASSUME PaymentsAssumption ==
    /\ IsFiniteSet(Orders)
    /\ NoBatch \notin Batches
    /\ MaxAmount \in Nat
    /\ Amount \in [Orders -> 1..MaxAmount]
    /\ MaxBalance \in Nat
    /\ PaymentLock \in Nat \ {0}
    /\ ReviewLock \in Nat \ {0}
    /\ MaxDelay \in Nat
    /\ LastSubmission \in Nat
    /\ MaxTime \in Nat

VARIABLES
    clock,        \* the time
    status,       \* fulfillment_orders.status
    lockExpires,  \* fulfillment_orders.lock_expires_at
    claim,        \* status of the order's latest payment_claims row
    reserved,     \* whether its inventory_reservations rows are ACTIVE
    settlement,   \* the settlement_batch_orders row of the order: its batch
    share,        \*   and the part of the amount that the wallet pays
    batch,        \* settlement_batches.status
    due,          \* settlement_batches.payment_due_at
    reportedAt,   \* settlement_batches.payment_reported_at
    batchClaim,   \* status of the batch's settlement_payment_claims row
    hold,         \* status of the batch's wallet_holds row
    balance,      \* wallet_accounts.balance_fen
    deposits,     \* sum of the ADMIN_CREDIT and ADMIN_DEBIT transactions
    debit,        \* amount of the order's ORDER_DEBIT transaction
    refund,       \* amount of the order's ORDER_REFUND transaction
    owed,         \* offline_amount_fen of its cancellation adjustment
    adjustment    \* status of its shipment_cancellation_adjustments row

orderVars  == <<status, lockExpires, claim, reserved>>
shareVars  == <<settlement, share>>
batchVars  == <<batch, due, reportedAt, batchClaim, hold>>
walletVars == <<balance, deposits, debit, refund>>
refundVars == <<owed, adjustment>>
vars       == <<clock, orderVars, shareVars, batchVars, walletVars, refundVars>>

Never == -1
Times == {Never} \cup Nat

OrderStatus == {"NEW", "PENDING_PAYMENT", "PAID_PENDING_FULFILLMENT",
                "FULFILLING", "CANCELLED", "EXPIRED"}
BatchStatus == {"NEW", "PENDING_PAYMENT", "PAYMENT_REPORTED", "PAID",
                "REJECTED", "WITHDRAWN", "EXPIRED", "CANCELLED"}

TypeOK ==
    /\ clock \in 0..MaxTime
    /\ status \in [Orders -> OrderStatus]
    /\ lockExpires \in [Orders -> Times]
    /\ claim \in [Orders -> {"NONE", "PENDING", "APPROVED", "REJECTED"}]
    /\ reserved \in [Orders -> BOOLEAN]
    /\ settlement \in [Orders -> Batches \cup {NoBatch}]
    /\ share \in [Orders -> 0..MaxAmount]
    /\ batch \in [Batches -> BatchStatus]
    /\ due \in [Batches -> Times]
    /\ reportedAt \in [Batches -> Times]
    /\ batchClaim \in [Batches -> {"NONE", "PENDING", "APPROVED", "REJECTED", "WITHDRAWN"}]
    /\ hold \in [Batches -> {"NONE", "ACTIVE", "CONSUMED", "RELEASED"}]
    /\ balance \in 0..MaxBalance
    /\ deposits \in Int
    /\ debit \in [Orders -> 0..MaxAmount]
    /\ refund \in [Orders -> 0..MaxAmount]
    /\ owed \in [Orders -> 0..MaxAmount]
    /\ adjustment \in [Orders -> {"NONE", "NOT_PAID", "PENDING_OFFLINE", "COMPLETED"}]

NoAmounts == [o \in Orders |-> 0]

Init ==
    /\ clock = 0
    /\ status = [o \in Orders |-> "NEW"]
    /\ lockExpires = [o \in Orders |-> Never]
    /\ claim = [o \in Orders |-> "NONE"]
    /\ reserved = [o \in Orders |-> FALSE]
    /\ settlement = [o \in Orders |-> NoBatch]
    /\ share = NoAmounts
    /\ batch = [b \in Batches |-> "NEW"]
    /\ due = [b \in Batches |-> Never]
    /\ reportedAt = [b \in Batches |-> Never]
    /\ batchClaim = [b \in Batches |-> "NONE"]
    /\ hold = [b \in Batches |-> "NONE"]
    /\ balance = 0
    /\ deposits = 0
    /\ debit = NoAmounts
    /\ refund = NoAmounts
    /\ owed = NoAmounts
    /\ adjustment = [o \in Orders |-> "NONE"]

-----------------------------------------------------------------------------
(* What the transactions read.                                             *)

(* The times that a transaction that commits now may have taken for "now". *)
Instants == {n \in (clock - MaxDelay)..clock : n >= 0}

(* The sum of the amounts f, by counting one element per fen.              *)
Fen(f) == {u \in Orders \X (1..MaxAmount) : u[2] <= f[u[1]]}
Sum(f) == Cardinality(Fen(f))

Members(b) == {o \in Orders : settlement[o] = b}

(* The amounts f of the orders S only.                                     *)
Only(S, f) == [o \in Orders |-> IF o \in S THEN f[o] ELSE 0]

WalletPart(b) == Sum(Only(Members(b), share))

Open == {"PENDING_PAYMENT", "PAYMENT_REPORTED"}

(* Variants with a bug, to test properties: an order counts as managed by  *)
(* a batch only when the payment is reported, or even after the batch.     *)
ManagedWhenReported(o) ==
    \E b \in Batches : settlement[o] = b /\ batch[b] = "PAYMENT_REPORTED"
ManagedForEver(o) == \E b \in Batches : settlement[o] = b

(* assertOrderPaymentIsNotManagedBySettlement                              *)
Managed(o) == \E b \in Batches : settlement[o] = b /\ batch[b] \in Open

(* Variant with a bug: the holds are not subtracted.                       *)
WholeBalance == balance

(* The sum of the ACTIVE holds, and what lockWalletFunding leaves of the   *)
(* balance for other purposes.                                             *)
Frozen    == {o \in Orders : \E b \in Batches : settlement[o] = b /\ hold[b] = "ACTIVE"}
HeldFen   == Sum(Only(Frozen, share))
Available == IF balance > HeldFen THEN balance - HeldFen ELSE 0

(* The function f with the value v for the elements of S.                  *)
With(f, S, v) == [x \in DOMAIN f |-> IF x \in S THEN v ELSE f[x]]

(* Variant with a bug: the deadline itself is still in time.               *)
DeadlineExceeded(b, now) ==
    batch[b] = "PAYMENT_REPORTED" /\ reportedAt[b] + ReviewLock < now

(* reportedPaymentDeadlineReached                                          *)
ReviewDeadlinePassed(b, now) ==
    batch[b] = "PAYMENT_REPORTED" /\ reportedAt[b] + ReviewLock <= now

-----------------------------------------------------------------------------
(* Submitting orders.                                                      *)

(* The stock of an order is reserved in the transaction that submits it.   *)
Place(S) ==
    /\ \A o \in S : status[o] = "NEW"
    /\ clock <= LastSubmission
    /\ reserved' = With(reserved, S, TRUE)
    /\ UNCHANGED <<clock, claim, deposits, refund, refundVars>>

(* A TEMU import is paid from the wallet if it covers the whole amount,    *)
(* else it waits for payment.                                              *)
SubmitPaidFromWallet(o) ==
    /\ Place({o})
    /\ Available >= Amount[o]
    /\ status' = [status EXCEPT ![o] = "PAID_PENDING_FULFILLMENT"]
    /\ balance' = balance - Amount[o]
    /\ debit' = [debit EXCEPT ![o] = Amount[o]]
    /\ UNCHANGED <<lockExpires, shareVars, batchVars>>

SubmitUnpaid(o) == \E now \in Instants :
    /\ Place({o})
    /\ Available < Amount[o]
    /\ status' = [status EXCEPT ![o] = "PENDING_PAYMENT"]
    /\ lockExpires' = [lockExpires EXCEPT ![o] = now + PaymentLock]
    /\ UNCHANGED <<shareVars, batchVars, balance, debit>>

(* allocateWalletFen: every order gets its part of the amount w, rounded   *)
(* down, and what is left goes to the dearest orders, one fen each. Which  *)
(* of two that cost the same comes first, by their ids, is left open.      *)
Parts(S, w) ==
    [o \in Orders |-> IF o \in S THEN (w * Amount[o]) \div Sum(Only(S, Amount)) ELSE 0]
Dearest(S, n) ==
    {E \in SUBSET S : Cardinality(E) = n /\ \A o \in E, p \in S \ E : Amount[o] >= Amount[p]}
Allocations(S, w) ==
    LET part == Parts(S, w)
    IN {[o \in Orders |-> IF o \in E THEN part[o] + 1 ELSE part[o]] : E \in Dearest(S, w - Sum(part))}

(* What createSubmissionSettlement takes from the wallet.                  *)
FromWallet(requested, total) ==
    IF requested <= total /\ requested <= Available THEN requested
    ELSE IF total <= Available THEN total ELSE Available

(* A bulk submission puts its orders into a new batch.                     *)
CreateBatch(b, S, f) ==
    /\ batch[b] = "NEW"
    /\ S # {}
    /\ Place(S)
    /\ settlement' = With(settlement, S, b)
    /\ share' = [o \in Orders |-> IF o \in S THEN f[o] ELSE share[o]]
    /\ UNCHANGED <<reportedAt, batchClaim>>

SubmitBulkPaid(b) == \E S \in SUBSET Orders, now \in Instants :
    LET total == Sum(Only(S, Amount)) IN
    /\ total <= Available
    /\ CreateBatch(b, S, Amount)
    /\ status' = With(status, S, "PAID_PENDING_FULFILLMENT")
    /\ batch' = [batch EXCEPT ![b] = "PAID"]
    /\ due' = [due EXCEPT ![b] = now + PaymentLock]
    /\ balance' = balance - total
    /\ debit' = [o \in Orders |-> IF o \in S THEN Amount[o] ELSE debit[o]]
    /\ UNCHANGED <<lockExpires, hold>>

SubmitBulkUnpaid(b) ==
    \E S \in SUBSET Orders, now \in Instants, requested \in 0..MaxBalance :
      LET total == Sum(Only(S, Amount))
          w     == FromWallet(requested, total)
      IN /\ w < total
         /\ \E f \in Allocations(S, w) : CreateBatch(b, S, f)
         /\ status' = With(status, S, "PENDING_PAYMENT")
         /\ lockExpires' = With(lockExpires, S, now + PaymentLock)
         /\ batch' = [batch EXCEPT ![b] = "PENDING_PAYMENT"]
         /\ due' = [due EXCEPT ![b] = now + PaymentLock]
         /\ hold' = [hold EXCEPT ![b] = IF w > 0 THEN "ACTIVE" ELSE "NONE"]
         /\ UNCHANGED <<balance, debit>>

-----------------------------------------------------------------------------
(* Paying a single order.                                                  *)

(* A second declaration finds the PENDING claim and changes nothing.       *)
DeclareOfflinePayment(o) == \E now \in Instants :
    /\ status[o] = "PENDING_PAYMENT"
    /\ ~Managed(o)
    /\ lockExpires[o] > now
    /\ claim[o] # "PENDING"
    /\ claim' = [claim EXCEPT ![o] = "PENDING"]
    /\ lockExpires' = [lockExpires EXCEPT ![o] = now + ReviewLock]
    /\ UNCHANGED <<clock, status, reserved, shareVars, batchVars, walletVars, refundVars>>

ReviewOffline(o, now) ==
    /\ claim[o] = "PENDING"
    /\ status[o] = "PENDING_PAYMENT"
    /\ lockExpires[o] > now
    /\ UNCHANGED <<clock, reserved, shareVars, batchVars, walletVars, refundVars>>

ApproveOfflinePayment(o) == \E now \in Instants :
    /\ ReviewOffline(o, now)
    /\ ~Managed(o)
    /\ claim' = [claim EXCEPT ![o] = "APPROVED"]
    /\ status' = [status EXCEPT ![o] = "PAID_PENDING_FULFILLMENT"]
    /\ lockExpires' = [lockExpires EXCEPT ![o] = Never]

RejectOfflinePayment(o) == \E now \in Instants :
    /\ ReviewOffline(o, now)
    /\ claim' = [claim EXCEPT ![o] = "REJECTED"]
    /\ lockExpires' = [lockExpires EXCEPT ![o] = now + PaymentLock]
    /\ UNCHANGED status

ExpireOrder(o) ==
    /\ status[o] = "PENDING_PAYMENT"
    /\ lockExpires[o] <= clock
    /\ ~Managed(o)
    /\ reserved' = [reserved EXCEPT ![o] = FALSE]
    /\ claim' = [claim EXCEPT ![o] = IF @ = "PENDING" THEN "REJECTED" ELSE @]
    /\ status' = [status EXCEPT ![o] = "EXPIRED"]
    /\ lockExpires' = [lockExpires EXCEPT ![o] = Never]
    /\ UNCHANGED <<clock, shareVars, batchVars, walletVars, refundVars>>

-----------------------------------------------------------------------------
(* Paying a settlement batch.                                              *)

AllOrdersPending(b) ==
    Members(b) # {} /\ \A o \in Members(b) : status[o] = "PENDING_PAYMENT"

NoOrderClaims(b) == \A o \in Members(b) : claim[o] \in {"NONE", "REJECTED"}
ReportSettlementPayment(b) == \E now \in Instants :
    /\ batch[b] = "PENDING_PAYMENT"
    /\ due[b] > now
    /\ AllOrdersPending(b)
    /\ NoOrderClaims(b)
    /\ batchClaim' = [batchClaim EXCEPT ![b] = "PENDING"]
    /\ batch' = [batch EXCEPT ![b] = "PAYMENT_REPORTED"]
    /\ reportedAt' = [reportedAt EXCEPT ![b] = now]
    /\ lockExpires' = With(lockExpires, Members(b), now + ReviewLock)
    /\ UNCHANGED <<clock, status, claim, reserved, shareVars, due, hold, walletVars, refundVars>>

(* Variant with a bug: the hold is consumed without any debit.             *)
MarkHoldConsumed(b) ==
    /\ WalletPart(b) > 0 => hold[b] = "ACTIVE"
    /\ hold' = [hold EXCEPT ![b] = IF WalletPart(b) > 0 THEN "CONSUMED" ELSE @]
    /\ UNCHANGED <<balance, debit>>

(* consumeWalletHold, which is called when the wallet pays a part.         *)
ConsumeWalletHold(b) ==
    LET debited == {o \in Members(b) : share[o] > 0}
    IN IF WalletPart(b) = 0 THEN UNCHANGED <<hold, balance, debit>>
       ELSE /\ hold[b] = "ACTIVE"
            /\ balance >= WalletPart(b)
            /\ hold' = [hold EXCEPT ![b] = "CONSUMED"]
            /\ balance' = balance - WalletPart(b)
            /\ debit' = [o \in Orders |-> IF o \in debited THEN share[o] ELSE debit[o]]

ApproveSettlementPayment(b) == \E now \in Instants :
    /\ batch[b] = "PAYMENT_REPORTED"
    /\ ~ReviewDeadlinePassed(b, now)
    /\ batchClaim[b] = "PENDING"
    /\ AllOrdersPending(b)
    /\ ConsumeWalletHold(b)
    /\ batchClaim' = [batchClaim EXCEPT ![b] = "APPROVED"]
    /\ status' = With(status, Members(b), "PAID_PENDING_FULFILLMENT")
    /\ lockExpires' = With(lockExpires, Members(b), Never)
    /\ batch' = [batch EXCEPT ![b] = "PAID"]
    /\ UNCHANGED <<clock, claim, reserved, shareVars, due, reportedAt, deposits, refund, refundVars>>

(* releaseTerminalBatch: the hold and the stock of all orders are given    *)
(* back, the orders that still wait for payment are closed.                *)
ReleaseTerminalBatch(b, orderStatus, batchStatus) ==
    LET waiting == {o \in Members(b) : status[o] = "PENDING_PAYMENT"}
    IN /\ WalletPart(b) > 0 => hold[b] = "ACTIVE"
       /\ hold' = [hold EXCEPT ![b] = IF WalletPart(b) > 0 THEN "RELEASED" ELSE @]
       /\ reserved' = With(reserved, Members(b), FALSE)
       /\ status' = With(status, waiting, orderStatus)
       /\ lockExpires' = With(lockExpires, waiting, Never)
       /\ batch' = [batch EXCEPT ![b] = batchStatus]
       /\ UNCHANGED <<clock, claim, shareVars, due, reportedAt, walletVars, refundVars>>

WithdrawSettlementPayment(b) == \E now \in Instants :
    /\ batch[b] = "PAYMENT_REPORTED"
    /\ ~ReviewDeadlinePassed(b, now)
    /\ batchClaim[b] = "PENDING"
    /\ batchClaim' = [batchClaim EXCEPT ![b] = "WITHDRAWN"]
    /\ ReleaseTerminalBatch(b, "CANCELLED", "WITHDRAWN")

RejectSettlementPayment(b) == \E now \in Instants :
    /\ batch[b] = "PAYMENT_REPORTED"
    /\ ~ReviewDeadlinePassed(b, now)
    /\ batchClaim[b] = "PENDING"
    /\ batchClaim' = [batchClaim EXCEPT ![b] = "REJECTED"]
    /\ ReleaseTerminalBatch(b, "CANCELLED", "REJECTED")

(* The worker, or a withdrawal or review that comes too late, finds that   *)
(* the review deadline has passed.                                         *)
ExpireReportedBatch(b) ==
    /\ ReviewDeadlinePassed(b, clock)
    /\ batchClaim[b] = "PENDING"
    /\ batchClaim' = [batchClaim EXCEPT ![b] = "REJECTED"]
    /\ ReleaseTerminalBatch(b, "EXPIRED", "EXPIRED")

ExpireUnreportedBatch(b) ==
    /\ batch[b] = "PENDING_PAYMENT"
    /\ due[b] <= clock
    /\ ReleaseTerminalBatch(b, "EXPIRED", "EXPIRED")
    /\ UNCHANGED batchClaim

-----------------------------------------------------------------------------
(* Cancelling an order.                                                    *)

(* prepareSettlementForPackageCancellation: a reported batch forbids the   *)
(* cancellation, a batch that waits for payment is invalidated.            *)
PrepareSettlement(o) ==
    LET invalid == {b \in Batches : settlement[o] = b /\ batch[b] = "PENDING_PAYMENT"}
    IN /\ \A b \in Batches : settlement[o] = b => batch[b] # "PAYMENT_REPORTED"
       /\ \A b \in invalid : batchClaim[b] # "PENDING"
       /\ \A b \in invalid : WalletPart(b) > 0 => hold[b] = "ACTIVE"
       /\ batch' = With(batch, invalid, "CANCELLED")
       /\ hold' = With(hold, {b \in invalid : WalletPart(b) > 0}, "RELEASED")
       /\ UNCHANGED <<due, reportedAt, batchClaim>>

(* Variant with a bug: the other orders of the batch are closed too.       *)
CloseWithSiblings(o) ==
    LET closed == {x \in Orders : x = o \/ (Managed(o) /\ settlement[x] = settlement[o])}
    IN /\ reserved' = With(reserved, closed, FALSE)
       /\ status' = With(status, closed, "CANCELLED")
       /\ lockExpires' = With(lockExpires, closed, Never)
       /\ UNCHANGED claim

CloseOrder(o) ==
    /\ reserved' = [reserved EXCEPT ![o] = FALSE]
    /\ claim' = [claim EXCEPT ![o] = IF @ = "PENDING" THEN "REJECTED" ELSE @]
    /\ status' = [status EXCEPT ![o] = "CANCELLED"]
    /\ lockExpires' = [lockExpires EXCEPT ![o] = Never]

CancelUnpaidOrder(o) ==
    /\ status[o] = "PENDING_PAYMENT"
    /\ PrepareSettlement(o)
    /\ CloseOrder(o)
    /\ adjustment' = [adjustment EXCEPT ![o] = "NOT_PAID"]
    /\ UNCHANGED <<clock, shareVars, walletVars, owed>>

(* Variant with a bug: everything is refunded to the wallet.               *)
WalletPaidAll(o) == Amount[o]

PaidByBatch(o) == \E b \in Batches : settlement[o] = b /\ batch[b] = "PAID"

(* What the wallet paid: the share in a PAID batch, else the debit.        *)
WalletPaid(o) == IF PaidByBatch(o) THEN share[o] ELSE debit[o]

(* What the wallet has got back once packages of `cancelled` fen of an     *)
(* order of `total` fen are cancelled: its part, rounded down.             *)
WalletTarget(cancelled, total, paid) ==
    IF cancelled = total THEN paid ELSE (cancelled * paid) \div total

(* The refund of an order with one package, which nothing came before.     *)
WalletRefund(o) == WalletTarget(Amount[o], Amount[o], WalletPaid(o))

(* The package is adjusted in full: the wallet gets its part back, the     *)
(* rest is owed offline.  Packages the warehouse has taken are refused.    *)
CancelPaidOrder(o) ==
    /\ status[o] = "PAID_PENDING_FULFILLMENT"
    /\ PrepareSettlement(o)
    /\ IF PaidByBatch(o) THEN share[o] = debit[o]
       ELSE debit[o] > 0 \/ claim[o] = "APPROVED"
    /\ WalletRefund(o) \in 0..Amount[o]
    /\ balance + WalletRefund(o) <= MaxBalance
    /\ CloseOrder(o)
    /\ balance' = balance + WalletRefund(o)
    /\ refund' = [refund EXCEPT ![o] = WalletRefund(o)]
    /\ owed' = [owed EXCEPT ![o] = Amount[o] - WalletRefund(o)]
    /\ adjustment' = [adjustment EXCEPT ![o] = IF WalletRefund(o) < Amount[o]
                                               THEN "PENDING_OFFLINE" ELSE "COMPLETED"]
    /\ UNCHANGED <<clock, shareVars, deposits, debit>>

CompleteOfflineRefund(o) ==
    /\ adjustment[o] = "PENDING_OFFLINE"
    /\ adjustment' = [adjustment EXCEPT ![o] = "COMPLETED"]
    /\ UNCHANGED <<clock, orderVars, shareVars, batchVars, walletVars, owed>>

-----------------------------------------------------------------------------
(* The surroundings: administrators change the balance, the warehouse      *)
(* takes paid orders, time passes.                                         *)

AdjustWalletBalance == \E delta \in (-MaxBalance..MaxBalance) \ {0} :
    /\ balance + delta \in 0..MaxBalance
    /\ delta < 0 => -delta <= Available
    /\ balance' = balance + delta
    /\ deposits' = deposits + delta
    /\ UNCHANGED <<clock, orderVars, shareVars, batchVars, debit, refund, refundVars>>

StartFulfillment(o) ==
    /\ status[o] = "PAID_PENDING_FULFILLMENT"
    /\ status' = [status EXCEPT ![o] = "FULFILLING"]
    /\ UNCHANGED <<clock, lockExpires, claim, reserved, shareVars, batchVars, walletVars, refundVars>>

Tick ==
    /\ clock < MaxTime
    /\ clock' = clock + 1
    /\ UNCHANGED <<orderVars, shareVars, batchVars, walletVars, refundVars>>

OrderStep(o) ==
    \/ SubmitPaidFromWallet(o) \/ SubmitUnpaid(o)
    \/ DeclareOfflinePayment(o) \/ ApproveOfflinePayment(o)
    \/ RejectOfflinePayment(o) \/ ExpireOrder(o)
    \/ CancelUnpaidOrder(o) \/ CancelPaidOrder(o) \/ CompleteOfflineRefund(o)
    \/ StartFulfillment(o)

BatchStep(b) ==
    \/ SubmitBulkPaid(b) \/ SubmitBulkUnpaid(b)
    \/ ReportSettlementPayment(b) \/ ApproveSettlementPayment(b)
    \/ RejectSettlementPayment(b) \/ WithdrawSettlementPayment(b)
    \/ ExpireReportedBatch(b) \/ ExpireUnreportedBatch(b)

Next ==
    \/ \E o \in Orders : OrderStep(o)
    \/ \E b \in Batches : BatchStep(b)
    \/ AdjustWalletBalance
    \/ Tick

Spec == Init /\ [][Next]_vars

(* Time passes, and the two jobs of the worker run every minute.  Nobody   *)
(* else has to do anything.                                                *)
Fairness ==
    /\ WF_vars(Tick)
    /\ \A o \in Orders : WF_vars(ExpireOrder(o))
    /\ \A b \in Batches : WF_vars(ExpireReportedBatch(b) \/ ExpireUnreportedBatch(b))

FairSpec == Spec /\ Fairness

-----------------------------------------------------------------------------
(* Properties.                                                             *)

(* What administrators have confirmed to have received offline for o.      *)
PaidOffline(o) ==
    IF claim[o] = "APPROVED" THEN Amount[o]
    ELSE IF PaidByBatch(o) THEN Amount[o] - share[o]
    ELSE 0

Paid   == {"PAID_PENDING_FULFILLMENT", "FULFILLING"}
Placed == {"PENDING_PAYMENT"} \cup Paid

(* An order that goes to the warehouse has been paid exactly once, in      *)
(* full, whichever of the three ways of paying raced; an order that was    *)
(* paid and then cancelled is refunded as it was paid; the others cost     *)
(* the customer nothing. Stock is held for an order exactly while it is or *)
(* may be paid: it is given up with every cancellation, rejection,         *)
(* withdrawal and expiry.                                                  *)
Funded(o) ==
    /\ status[o] \in Paid => /\ debit[o] + PaidOffline(o) = Amount[o]
                             /\ refund[o] = 0 /\ owed[o] = 0
    /\ status[o] \in {"NEW", "PENDING_PAYMENT", "EXPIRED"} =>
         /\ debit[o] = 0 /\ PaidOffline(o) = 0
         /\ refund[o] = 0 /\ owed[o] = 0
    /\ status[o] = "CANCELLED" => refund[o] = debit[o] /\ owed[o] = PaidOffline(o)
    /\ reserved[o] <=> status[o] \in Placed

FundedOnce == \A o \in Orders : Funded(o)

(* Balances promised to open batches are there when the payment is         *)
(* approved: a hold is ACTIVE exactly while its batch is open, and the     *)
(* ACTIVE holds never exceed the balance.                                  *)
HoldFits(b) == hold[b] = "ACTIVE" <=> batch[b] \in Open /\ WalletPart(b) > 0

HoldsCovered == HeldFen <= balance /\ \A b \in Batches : HoldFits(b)

(* The wallet keeps what it promised, whoever debits it in between, and    *)
(* its books: the balance is what administrators put in, less what orders  *)
(* took out, plus what was refunded.                                       *)
BooksBalance ==
    /\ TypeOK
    /\ HoldsCovered
    /\ balance + Sum(debit) = deposits + Sum(refund)

(* There is one way at a time to pay an order: while its batch is open, it *)
(* waits for payment and no claim of its own is pending or approved; a     *)
(* pending claim can still be reviewed, for an order and for a batch.      *)
OneWay(o) ==
    /\ Managed(o) => status[o] = "PENDING_PAYMENT" /\ claim[o] \in {"NONE", "REJECTED"}
    /\ claim[o] = "PENDING" => status[o] = "PENDING_PAYMENT"

ClaimFits(b) == batchClaim[b] = "PENDING" <=> batch[b] = "PAYMENT_REPORTED"

OneWayToPay == (\A o \in Orders : OneWay(o)) /\ (\A b \in Batches : ClaimFits(b))

(* What lies between them: an order joins a batch when it is submitted and *)
(* never leaves it; in a batch that is paid it was debited its share, and  *)
(* nobody has approved a payment of its own.                               *)
OrderFits(o) ==
    /\ share[o] <= Amount[o]
    /\ status[o] = "NEW" => settlement[o] = NoBatch /\ claim[o] = "NONE"
    /\ settlement[o] \in Batches => batch[settlement[o]] # "NEW"
    /\ PaidByBatch(o) => /\ status[o] \in Paid \cup {"CANCELLED"}
                         /\ debit[o] = share[o] /\ claim[o] # "APPROVED"

(* The inductive invariant: it holds at first, and every transaction keeps *)
(* it.                                                                     *)
PaymentsSafe ==
    FundedOnce /\ OneWayToPay /\ BooksBalance /\ \A o \in Orders : OrderFits(o)

(* A waiting order is paid only while its stock is locked, give or take    *)
(* the time its transaction had to wait, although the approval of a batch  *)
(* looks at the deadline of the batch and not at that of the orders.       *)
PaidBeforeLockExpires ==
    [][\A o \in Orders : status[o] = "PENDING_PAYMENT" /\ status'[o] \in Paid
                           => lockExpires[o] > clock - MaxDelay]_vars

(* Cancelling one order invalidates the batch it is in, and leaves the     *)
(* other orders of the batch as they are.                                  *)
SiblingsSpared ==
    [][\A b \in Batches : batch[b] # "CANCELLED" /\ batch'[b] = "CANCELLED"
         => \E o \in Members(b) : /\ status'[o] = "CANCELLED"
                                  /\ \A x \in Members(b) \ {o} :
                                       <<status[x], lockExpires[x], reserved[x]>>'
                                         = <<status[x], lockExpires[x], reserved[x]>>]_vars

(* An order whose lock has run out does not keep its stock for ever: one   *)
(* of the two workers closes it, unless a late transaction extended it.    *)
Overdue(o) == status[o] = "PENDING_PAYMENT" /\ lockExpires[o] <= clock
OverdueOrdersEnd == \A o \in Orders : Overdue(o) ~> ~Overdue(o)

(* A batch that is open, and the hold on the wallet with it, ends.         *)
OpenBatchesEnd == \A b \in Batches : batch[b] \in Open ~> batch[b] \notin Open

(* Neither worker leaves to the other what the other leaves to it.         *)
NothingLeftOpen == OverdueOrdersEnd /\ OpenBatchesEnd

(* The transactions implement the promise.                                 *)
Stage(o) ==
    CASE status[o] = "NEW" -> "new"
      [] status[o] = "PENDING_PAYMENT" -> "open"
      [] status[o] \in Paid -> "paid"
      [] OTHER -> "closed"

(* What is left of the customer's money for o, or promised offline.       *)
Kept(o) == debit[o] - refund[o] + PaidOffline(o) - owed[o]

Promise == INSTANCE OrderPromise WITH
    stage <- [o \in Orders |-> Stage(o)],
    kept  <- [o \in Orders |-> Kept(o)],
    stock <- reserved

ImplementsPromise == Promise!PromiseSpec
=============================================================================
