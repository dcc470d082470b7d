--------------------------- MODULE PaymentsProofs ---------------------------
(***************************************************************************)
(* The safety of Payments for any number of orders and batches, any prices *)
(* and any deadlines: orders are paid once and in full, holds are covered, *)
(* the books balance, and a batch's wallet amount is allocated to the fen. *)
(***************************************************************************)
EXTENDS Payments, FiniteSetTheorems, WellFoundedInduction, TLAPS

-----------------------------------------------------------------------------
(* Sums of amounts.                                                        *)

Amounts == [Orders -> 0..MaxAmount]

(* What an allocation of the amount w to the orders S promises.            *)
Splits(S, w) ==
    {f \in Amounts : /\ \A o \in Orders : f[o] <= (IF o \in S THEN Amount[o] ELSE 0)
                     /\ Sum(f) = w}

(* Amounts are finitely many fen.                                          *)
LEMMA SumNat ==
    ASSUME NEW f \in Amounts
    PROVE  IsFiniteSet(Fen(f)) /\ Sum(f) \in Nat
<1>1. IsFiniteSet(Orders) /\ IsFiniteSet(1..MaxAmount)
  BY FS_Interval, PaymentsAssumption
<1>2. IsFiniteSet(Orders \X (1..MaxAmount))
  BY <1>1, FS_Product
<1>3. IsFiniteSet(Fen(f))
  BY <1>2, FS_Subset DEF Fen
<1> QED  BY <1>3, FS_CardinalityType DEF Sum

(* Smaller amounts have a smaller sum.                                     *)
LEMMA SumMonotone ==
    ASSUME NEW f \in Amounts, NEW g \in Amounts, \A o \in Orders : f[o] <= g[o]
    PROVE  Sum(f) <= Sum(g)
<1>1. Fen(f) \subseteq Fen(g)
  <2> SUFFICES ASSUME NEW o \in Orders, NEW n \in 1..MaxAmount, n <= f[o]
               PROVE  n <= g[o]
    BY DEF Fen
  <2>1. f[o] \in Int /\ g[o] \in Int /\ MaxAmount \in Int
    BY PaymentsAssumption DEF Amounts
  <2> QED  BY <2>1
<1> QED  BY <1>1, SumNat, FS_Subset DEF Sum

(* The sum is 0 exactly when every amount is.                              *)
LEMMA SumZero ==
    ASSUME NEW f \in Amounts
    PROVE  Sum(f) = 0 <=> \A o \in Orders : f[o] = 0
<1>1. Sum(f) = 0 <=> Fen(f) = {}
  BY SumNat, FS_EmptySet DEF Sum
<1>2. ASSUME NEW o \in Orders, f[o] # 0
      PROVE  <<o, 1>> \in Fen(f)
  <2>1. f[o] \in 0..MaxAmount /\ MaxAmount \in Nat
    BY PaymentsAssumption DEF Amounts
  <2> QED  BY <1>2, <2>1 DEF Fen
<1>3. ASSUME \A o \in Orders : f[o] = 0
      PROVE  Fen(f) = {}
  BY <1>3, PaymentsAssumption DEF Fen
<1> QED  BY <1>1, <1>2, <1>3

(* The amounts of disjoint orders add up.                                  *)
LEMMA SumAdd ==
    ASSUME NEW f \in Amounts, NEW g \in Amounts, NEW h \in Amounts,
           \A o \in Orders : \/ f[o] = 0 /\ h[o] = g[o]
                             \/ g[o] = 0 /\ h[o] = f[o]
    PROVE  Sum(h) = Sum(f) + Sum(g)
<1>1. \A o \in Orders : f[o] \in Int /\ g[o] \in Int /\ h[o] \in Int
  BY PaymentsAssumption DEF Amounts
<1>a. \A n \in 1..MaxAmount : n \in Int /\ n >= 1
  BY PaymentsAssumption
<1>2. Fen(h) = Fen(f) \cup Fen(g)
  <2> SUFFICES ASSUME NEW o \in Orders, NEW n \in 1..MaxAmount
               PROVE  n <= h[o] <=> n <= f[o] \/ n <= g[o]
    BY DEF Fen
  <2> QED  BY <1>1, <1>a
<1>3. Fen(f) \cap Fen(g) = {}
  <2> SUFFICES ASSUME NEW o \in Orders, NEW n \in 1..MaxAmount
               PROVE  ~(n <= f[o] /\ n <= g[o])
    BY DEF Fen
  <2> QED  BY <1>1, <1>a
<1>4. Cardinality(Fen(f) \cap Fen(g)) = 0
  BY <1>3, FS_EmptySet
<1>5. Cardinality(Fen(f) \cup Fen(g))
        = Cardinality(Fen(f)) + Cardinality(Fen(g)) - Cardinality(Fen(f) \cap Fen(g))
  BY SumNat, FS_Union
<1> QED  BY <1>2, <1>4, <1>5, SumNat DEF Sum

(* The amount of one order alone is the sum.                               *)
LEMMA SumSingle ==
    ASSUME NEW f \in Amounts, NEW o \in Orders, \A x \in Orders \ {o} : f[x] = 0
    PROVE  Sum(f) = f[o]
<1> DEFINE pair == [n \in 1..f[o] |-> <<o, n>>]
<1>1. f[o] \in 0..MaxAmount /\ MaxAmount \in Nat
  BY PaymentsAssumption DEF Amounts
<1>2. pair \in Bijection(1..f[o], Fen(f))
  <2>1. pair \in [1..f[o] -> Fen(f)]
    BY <1>1 DEF Fen
  <2>2. \A m, n \in 1..f[o] : pair[m] = pair[n] => m = n
    OBVIOUS
  <2>3. \A u \in Fen(f) : \E n \in 1..f[o] : pair[n] = u
    BY <1>1 DEF Fen
  <2> QED  BY <2>1, <2>2, <2>3 DEF Bijection, Injection, Surjection, IsInjective
<1>3. IsFiniteSet(1..f[o]) /\ Cardinality(1..f[o]) = f[o]
  <2>1. \A n \in Nat : IsFiniteSet(1..n) /\ Cardinality(1..n) = n
    BY FS_Interval
  <2> QED  BY <1>1, <2>1
<1> QED  BY <1>2, <1>3, FS_Bijection DEF ExistsBijection, Sum

-----------------------------------------------------------------------------
(* What an action leaves alone.                                            *)

OrderSafe(o) == Funded(o) /\ OneWay(o) /\ OrderFits(o)
BatchSafe(b) == HoldFits(b) /\ ClaimFits(b)
Books == balance + Sum(debit) = deposits + Sum(refund)

LEMMA SafeParts ==
    PaymentsSafe <=> /\ TypeOK
                     /\ \A o \in Orders : OrderSafe(o)
                     /\ \A b \in Batches : BatchSafe(b)
                     /\ HeldFen <= balance
                     /\ Books
BY DEF PaymentsSafe, FundedOnce, OneWayToPay, BooksBalance, HoldsCovered,
       OrderSafe, BatchSafe, Books

LEMMA SafeNext ==
    ASSUME TypeOK', \A o \in Orders : OrderSafe(o)', \A b \in Batches : BatchSafe(b)',
           HeldFen' <= balance', Books'
    PROVE  PaymentsSafe'
BY DEF PaymentsSafe, FundedOnce, OneWayToPay, BooksBalance, HoldsCovered,
       OrderSafe, BatchSafe, Books

(* The amounts of some of the orders.                                      *)
LEMMA OnlyType ==
    ASSUME NEW S, NEW f \in Amounts
    PROVE  Only(S, f) \in Amounts /\ Sum(Only(S, f)) \in Nat
<1>1. 0 \in 0..MaxAmount
  BY PaymentsAssumption
<1>2. Only(S, f) \in Amounts
  BY <1>1 DEF Only, Amounts
<1> QED  BY <1>2, SumNat

LEMMA AmountsType ==
    ASSUME TypeOK
    PROVE  /\ share \in Amounts /\ debit \in Amounts /\ refund \in Amounts /\ Amount \in Amounts
           /\ HeldFen \in Nat
           /\ \A b \in Batches : WalletPart(b) \in Nat
<1>1. share \in Amounts /\ debit \in Amounts /\ refund \in Amounts
  BY DEF TypeOK, Amounts
<1>2. Amount \in Amounts
  BY PaymentsAssumption DEF Amounts
<1> QED  BY <1>1, <1>2, OnlyType DEF HeldFen, WalletPart

(* An order that an action does not change stays safe while its batch      *)
(* neither opens nor becomes paid.                                         *)
LEMMA OrderKept ==
    ASSUME NEW x \in Orders, OrderSafe(x),
           status'[x] = status[x], claim'[x] = claim[x], reserved'[x] = reserved[x],
           settlement'[x] = settlement[x], share'[x] = share[x],
           debit'[x] = debit[x], refund'[x] = refund[x], owed'[x] = owed[x],
           \A b \in Batches : settlement[x] = b =>
             /\ batch'[b] = "PAID" <=> batch[b] = "PAID"
             /\ batch'[b] \in Open => batch[b] \in Open
             /\ batch'[b] = "NEW" => batch[b] = "NEW"
    PROVE  OrderSafe(x)'
<1>1. PaidByBatch(x)' <=> PaidByBatch(x)
  BY DEF PaidByBatch
<1>2. Managed(x)' => Managed(x)
  BY DEF Managed
<1>3. PaidOffline(x)' = PaidOffline(x)
  BY <1>1 DEF PaidOffline
<1>4. Funded(x)'
  BY <1>3 DEF OrderSafe, Funded
<1>5. OneWay(x)'
  BY <1>2 DEF OrderSafe, OneWay
<1>6. OrderFits(x)'
  BY <1>1 DEF OrderSafe, OrderFits
<1> QED  BY <1>4, <1>5, <1>6 DEF OrderSafe

(* Holds and parts of batches depend on the members and their shares.      *)
LEMMA SharesKept ==
    ASSUME UNCHANGED shareVars
    PROVE  /\ \A b \in Batches : WalletPart(b)' = WalletPart(b)
           /\ UNCHANGED hold => HeldFen' = HeldFen
<1>1. settlement' = settlement /\ share' = share
  BY DEF shareVars
<1>2. \A b \in Batches : WalletPart(b)' = WalletPart(b)
  BY <1>1 DEF WalletPart, Members, Only, Sum, Fen
<1>3. UNCHANGED hold => HeldFen' = HeldFen
  BY <1>1 DEF HeldFen, Frozen, Only, Sum, Fen
<1> QED  BY <1>2, <1>3

(* An action on the payment of order o itself: no money moves, and no      *)
(* batch.                                                                  *)
LEMMA OneOrder ==
    ASSUME PaymentsSafe, TypeOK', NEW o \in Orders, OrderSafe(o)',
           UNCHANGED <<shareVars, batchVars, walletVars>>,
           \A x \in Orders \ {o} : /\ status'[x] = status[x] /\ claim'[x] = claim[x]
                                   /\ reserved'[x] = reserved[x] /\ owed'[x] = owed[x]
    PROVE  PaymentsSafe'
<1> USE DEF shareVars, batchVars, walletVars
<1>1. \A x \in Orders : OrderSafe(x)'
  <2> SUFFICES ASSUME NEW x \in Orders, x # o
               PROVE  OrderSafe(x)'
    OBVIOUS
  <2> QED  BY SafeParts, OrderKept
<1>2. \A b \in Batches : BatchSafe(b)'
  BY SafeParts, SharesKept DEF BatchSafe, HoldFits, ClaimFits
<1>3. HeldFen' <= balance' /\ Books'
  BY SafeParts, SharesKept DEF Books, Sum, Fen
<1> QED  BY <1>1, <1>2, <1>3, SafeNext

(* Submitting an order by itself, and what is done to its payment.         *)
LEMMA SubmitUnpaidSafe ==
    ASSUME PaymentsSafe, NEW o \in Orders, SubmitUnpaid(o)
    PROVE  PaymentsSafe'
<1>1. TypeOK /\ OrderSafe(o)
  BY SafeParts
<1>2. PICK now \in Instants :
        /\ Place({o})
        /\ status' = [status EXCEPT ![o] = "PENDING_PAYMENT"]
        /\ lockExpires' = [lockExpires EXCEPT ![o] = now + PaymentLock]
        /\ UNCHANGED <<shareVars, batchVars, balance, debit>>
  BY DEF SubmitUnpaid
<1>3. now + PaymentLock \in Times
  BY PaymentsAssumption, <1>1 DEF Instants, Times, TypeOK
<1>4. status[o] = "NEW" /\ reserved' = [reserved EXCEPT ![o] = TRUE]
      /\ UNCHANGED <<clock, claim, deposits, refund, refundVars>>
  BY <1>1, <1>2 DEF Place, With, TypeOK
<1>5. TypeOK'
  BY <1>1, <1>2, <1>3, <1>4 DEF TypeOK, shareVars, batchVars, refundVars, OrderStatus
<1>6. OrderSafe(o)'
  <2>1. ~Managed(o)' /\ ~PaidByBatch(o)'
    BY <1>1, <1>2, <1>4, PaymentsAssumption DEF OrderSafe, OrderFits, Managed, PaidByBatch, shareVars, batchVars
  <2>2. claim'[o] = "NONE"
    BY <1>1, <1>4 DEF OrderSafe, OrderFits
  <2>3. PaidOffline(o)' = 0
    BY <2>1, <2>2 DEF PaidOffline
  <2> QED  BY <1>1, <1>2, <1>4, <2>1, <2>2, <2>3
           DEF OrderSafe, Funded, OneWay, OrderFits, Placed, Paid, TypeOK, shareVars, batchVars, refundVars
<1>7. \A x \in Orders \ {o} : /\ status'[x] = status[x] /\ claim'[x] = claim[x]
                              /\ reserved'[x] = reserved[x] /\ owed'[x] = owed[x]
  BY <1>1, <1>2, <1>4 DEF TypeOK, refundVars
<1> QED  BY <1>2, <1>4, <1>5, <1>6, <1>7, OneOrder DEF walletVars

LEMMA DeclareOfflinePaymentSafe ==
    ASSUME PaymentsSafe, NEW o \in Orders, DeclareOfflinePayment(o)
    PROVE  PaymentsSafe'
<1> USE DEF orderVars, shareVars, batchVars, walletVars, refundVars
<1>1. TypeOK /\ OrderSafe(o)
  BY SafeParts
<1>2. PICK now \in Instants :
        /\ status[o] = "PENDING_PAYMENT" /\ ~Managed(o) /\ claim[o] # "PENDING"
        /\ claim' = [claim EXCEPT ![o] = "PENDING"]
        /\ lockExpires' = [lockExpires EXCEPT ![o] = now + ReviewLock]
        /\ UNCHANGED <<clock, status, reserved, shareVars, batchVars, walletVars, refundVars>>
  BY DEF DeclareOfflinePayment
<1>3. now + ReviewLock \in Times
  BY PaymentsAssumption, <1>1 DEF Instants, Times, TypeOK
<1>4. TypeOK'
  BY <1>1, <1>2, <1>3 DEF TypeOK
<1>5. OrderSafe(o)'
  <2>1. ~Managed(o)' /\ (PaidByBatch(o)' <=> PaidByBatch(o))
    BY <1>2 DEF Managed, PaidByBatch
  <2>2. ~PaidByBatch(o)
    BY <1>1, <1>2 DEF OrderSafe, OrderFits, Paid
  <2>3. PaidOffline(o)' = 0
    BY <1>1, <1>2, <2>1, <2>2 DEF PaidOffline, TypeOK
  <2> QED  BY <1>1, <1>2, <2>1, <2>2, <2>3
           DEF OrderSafe, Funded, OneWay, OrderFits, Paid, TypeOK
<1>6. \A x \in Orders \ {o} : /\ status'[x] = status[x] /\ claim'[x] = claim[x]
                              /\ reserved'[x] = reserved[x] /\ owed'[x] = owed[x]
  BY <1>1, <1>2 DEF TypeOK
<1> QED  BY <1>2, <1>4, <1>5, <1>6, OneOrder

LEMMA ApproveOfflinePaymentSafe ==
    ASSUME PaymentsSafe, NEW o \in Orders, ApproveOfflinePayment(o)
    PROVE  PaymentsSafe'
<1> USE DEF orderVars, shareVars, batchVars, walletVars, refundVars
<1>1. TypeOK /\ OrderSafe(o)
  BY SafeParts
<1>2. /\ status[o] = "PENDING_PAYMENT" /\ ~Managed(o)
      /\ claim' = [claim EXCEPT ![o] = "APPROVED"]
      /\ status' = [status EXCEPT ![o] = "PAID_PENDING_FULFILLMENT"]
      /\ lockExpires' = [lockExpires EXCEPT ![o] = Never]
      /\ UNCHANGED <<clock, reserved, shareVars, batchVars, walletVars, refundVars>>
  BY DEF ApproveOfflinePayment, ReviewOffline
<1>3. TypeOK'
  BY <1>1, <1>2 DEF TypeOK, Times, OrderStatus
<1>4. OrderSafe(o)'
  <2>1. ~Managed(o)' /\ (PaidByBatch(o)' <=> PaidByBatch(o))
    BY <1>2 DEF Managed, PaidByBatch
  <2>2. ~PaidByBatch(o)
    BY <1>1, <1>2 DEF OrderSafe, OrderFits, Paid
  <2>3. PaidOffline(o)' = Amount[o]
    BY <1>1, <1>2 DEF PaidOffline, TypeOK
  <2>4. Amount[o] \in Int
    BY PaymentsAssumption
  <2> QED  BY <1>1, <1>2, <2>1, <2>2, <2>3, <2>4
           DEF OrderSafe, Funded, OneWay, OrderFits, Paid, Placed, TypeOK
<1>5. \A x \in Orders \ {o} : /\ status'[x] = status[x] /\ claim'[x] = claim[x]
                              /\ reserved'[x] = reserved[x] /\ owed'[x] = owed[x]
  BY <1>1, <1>2 DEF TypeOK
<1> QED  BY <1>2, <1>3, <1>4, <1>5, OneOrder

LEMMA RejectOfflinePaymentSafe ==
    ASSUME PaymentsSafe, NEW o \in Orders, RejectOfflinePayment(o)
    PROVE  PaymentsSafe'
<1> USE DEF orderVars, shareVars, batchVars, walletVars, refundVars
<1>1. TypeOK /\ OrderSafe(o)
  BY SafeParts
<1>2. PICK now \in Instants :
        /\ status[o] = "PENDING_PAYMENT"
        /\ claim' = [claim EXCEPT ![o] = "REJECTED"]
        /\ lockExpires' = [lockExpires EXCEPT ![o] = now + PaymentLock]
        /\ UNCHANGED <<clock, status, reserved, shareVars, batchVars, walletVars, refundVars>>
  BY DEF RejectOfflinePayment, ReviewOffline
<1>3. now + PaymentLock \in Times
  BY PaymentsAssumption, <1>1 DEF Instants, Times, TypeOK
<1>4. TypeOK'
  BY <1>1, <1>2, <1>3 DEF TypeOK
<1>5. OrderSafe(o)'
  <2>1. (Managed(o)' <=> Managed(o)) /\ (PaidByBatch(o)' <=> PaidByBatch(o))
    BY <1>2 DEF Managed, PaidByBatch
  <2>2. ~PaidByBatch(o)
    BY <1>1, <1>2 DEF OrderSafe, OrderFits, Paid
  <2>3. PaidOffline(o)' = 0
    BY <1>1, <1>2, <2>1, <2>2 DEF PaidOffline, TypeOK
  <2> QED  BY <1>1, <1>2, <2>1, <2>2, <2>3
           DEF OrderSafe, Funded, OneWay, OrderFits, Paid, TypeOK
<1>6. \A x \in Orders \ {o} : /\ status'[x] = status[x] /\ claim'[x] = claim[x]
                              /\ reserved'[x] = reserved[x] /\ owed'[x] = owed[x]
  BY <1>1, <1>2 DEF TypeOK
<1> QED  BY <1>2, <1>4, <1>5, <1>6, OneOrder

LEMMA ExpireOrderSafe ==
    ASSUME PaymentsSafe, NEW o \in Orders, ExpireOrder(o)
    PROVE  PaymentsSafe'
<1> USE DEF orderVars, shareVars, batchVars, walletVars, refundVars
<1>1. TypeOK /\ OrderSafe(o)
  BY SafeParts
<1>2. /\ status[o] = "PENDING_PAYMENT" /\ ~Managed(o)
      /\ reserved' = [reserved EXCEPT ![o] = FALSE]
      /\ claim' = [claim EXCEPT ![o] = IF claim[o] = "PENDING" THEN "REJECTED" ELSE claim[o]]
      /\ status' = [status EXCEPT ![o] = "EXPIRED"]
      /\ lockExpires' = [lockExpires EXCEPT ![o] = Never]
      /\ UNCHANGED <<clock, shareVars, batchVars, walletVars, refundVars>>
  BY DEF ExpireOrder
<1>3. TypeOK'
  BY <1>1, <1>2 DEF TypeOK, Times, OrderStatus
<1>4. OrderSafe(o)'
  <2>1. ~Managed(o)' /\ (PaidByBatch(o)' <=> PaidByBatch(o))
    BY <1>2 DEF Managed, PaidByBatch
  <2>2. ~PaidByBatch(o) /\ claim[o] # "APPROVED"
    BY <1>1, <1>2, PaymentsAssumption DEF OrderSafe, OrderFits, Funded, PaidOffline, Paid
  <2>3. PaidOffline(o)' = 0 /\ claim'[o] # "PENDING"
    BY <1>1, <1>2, <2>1, <2>2 DEF PaidOffline, TypeOK
  <2> QED  BY <1>1, <1>2, <2>1, <2>2, <2>3
           DEF OrderSafe, Funded, OneWay, OrderFits, Paid, Placed, TypeOK
<1>5. \A x \in Orders \ {o} : /\ status'[x] = status[x] /\ claim'[x] = claim[x]
                              /\ reserved'[x] = reserved[x] /\ owed'[x] = owed[x]
  BY <1>1, <1>2 DEF TypeOK
<1> QED  BY <1>2, <1>3, <1>4, <1>5, OneOrder

(* The end of a refund, and the warehouse.                                 *)
LEMMA CompleteOfflineRefundSafe ==
    ASSUME PaymentsSafe, NEW o \in Orders, CompleteOfflineRefund(o)
    PROVE  PaymentsSafe'
<1> USE DEF orderVars, shareVars, batchVars, walletVars, refundVars
<1>1. TypeOK /\ OrderSafe(o)
  BY SafeParts
<1>2. /\ adjustment' = [adjustment EXCEPT ![o] = "COMPLETED"]
      /\ UNCHANGED <<clock, orderVars, shareVars, batchVars, walletVars, owed>>
  BY DEF CompleteOfflineRefund
<1>3. TypeOK'
  BY <1>1, <1>2 DEF TypeOK
<1>4. OrderSafe(o)'
  BY <1>1, <1>2, OrderKept
<1> QED  BY <1>2, <1>3, <1>4, OneOrder

LEMMA StartFulfillmentSafe ==
    ASSUME PaymentsSafe, NEW o \in Orders, StartFulfillment(o)
    PROVE  PaymentsSafe'
<1> USE DEF orderVars, shareVars, batchVars, walletVars, refundVars
<1>1. TypeOK /\ OrderSafe(o)
  BY SafeParts
<1>2. /\ status[o] = "PAID_PENDING_FULFILLMENT"
      /\ status' = [status EXCEPT ![o] = "FULFILLING"]
      /\ UNCHANGED <<clock, lockExpires, claim, reserved, shareVars, batchVars, walletVars, refundVars>>
  BY DEF StartFulfillment
<1>3. TypeOK'
  BY <1>1, <1>2 DEF TypeOK, OrderStatus
<1>4. OrderSafe(o)'
  <2>1. (Managed(o)' <=> Managed(o)) /\ (PaidByBatch(o)' <=> PaidByBatch(o))
    BY <1>2 DEF Managed, PaidByBatch
  <2>2. PaidOffline(o)' = PaidOffline(o)
    BY <1>2, <2>1 DEF PaidOffline
  <2> QED  BY <1>1, <1>2, <2>1, <2>2
           DEF OrderSafe, Funded, OneWay, OrderFits, Paid, Placed, TypeOK
<1>5. \A x \in Orders \ {o} : /\ status'[x] = status[x] /\ claim'[x] = claim[x]
                              /\ reserved'[x] = reserved[x] /\ owed'[x] = owed[x]
  BY <1>1, <1>2 DEF TypeOK
<1> QED  BY <1>2, <1>3, <1>4, <1>5, OneOrder

-----------------------------------------------------------------------------
(* Money and time.                                                         *)

(* An amount that was 0 is set.                                            *)
LEMMA SumChanged ==
    ASSUME NEW f \in Amounts, NEW o \in Orders, f[o] = 0, NEW n \in 0..MaxAmount
    PROVE  Sum([f EXCEPT ![o] = n]) = Sum(f) + n
<1> DEFINE h == [f EXCEPT ![o] = n]
           g == [x \in Orders |-> IF x = o THEN n ELSE 0]
<1>1. 0 \in 0..MaxAmount
  BY PaymentsAssumption
<1>2. h \in Amounts /\ g \in Amounts
  BY <1>1 DEF Amounts
<1>3. \A x \in Orders : \/ f[x] = 0 /\ h[x] = g[x]
                        \/ g[x] = 0 /\ h[x] = f[x]
  BY DEF Amounts
<1>4. (\A x \in Orders \ {o} : g[x] = 0) /\ g[o] = n
  OBVIOUS
<1> HIDE DEF h, g
<1>5. Sum(h) = Sum(f) + Sum(g)
  BY <1>2, <1>3, SumAdd
<1>6. Sum(g) = n
  BY <1>2, <1>4, SumSingle
<1> QED  BY <1>5, <1>6 DEF h

LEMMA TickSafe ==
    ASSUME PaymentsSafe, Tick
    PROVE  PaymentsSafe'
<1> USE DEF orderVars, shareVars, batchVars, walletVars, refundVars
<1>1. TypeOK
  BY SafeParts
<1>2. clock' \in 0..MaxTime
  BY <1>1, PaymentsAssumption DEF Tick, TypeOK
<1>3. UNCHANGED <<orderVars, shareVars, batchVars, walletVars, refundVars>>
  BY DEF Tick
<1>4. TypeOK'
  BY <1>1, <1>2, <1>3 DEF TypeOK
<1>5. \A o \in Orders : OrderSafe(o)'
  BY <1>3, SafeParts, OrderKept
<1>6. \A b \in Batches : BatchSafe(b)'
  BY <1>3, SafeParts, SharesKept DEF BatchSafe, HoldFits, ClaimFits
<1>7. HeldFen' <= balance' /\ Books'
  BY <1>3, SafeParts, SharesKept DEF Books, Sum, Fen
<1> QED  BY <1>4, <1>5, <1>6, <1>7, SafeNext

LEMMA UnchangedSafe ==
    ASSUME PaymentsSafe, UNCHANGED vars
    PROVE  PaymentsSafe'
<1> USE DEF vars, orderVars, shareVars, batchVars, walletVars, refundVars
<1>1. TypeOK'
  BY SafeParts DEF TypeOK
<1>2. \A o \in Orders : OrderSafe(o)'
  BY SafeParts, OrderKept
<1>3. \A b \in Batches : BatchSafe(b)'
  BY SafeParts, SharesKept DEF BatchSafe, HoldFits, ClaimFits
<1>4. HeldFen' <= balance' /\ Books'
  BY SafeParts, SharesKept DEF Books, Sum, Fen
<1> QED  BY <1>1, <1>2, <1>3, <1>4, SafeNext

LEMMA AdjustWalletBalanceSafe ==
    ASSUME PaymentsSafe, AdjustWalletBalance
    PROVE  PaymentsSafe'
<1> USE DEF orderVars, shareVars, batchVars, walletVars, refundVars
<1>1. TypeOK
  BY SafeParts
<1>2. PICK delta \in (-MaxBalance..MaxBalance) \ {0} :
        /\ balance + delta \in 0..MaxBalance
        /\ delta < 0 => -delta <= Available
        /\ balance' = balance + delta
        /\ deposits' = deposits + delta
        /\ UNCHANGED <<clock, orderVars, shareVars, batchVars, debit, refund, refundVars>>
  BY DEF AdjustWalletBalance
<1>3. delta \in Int /\ balance \in Nat /\ deposits \in Int
  BY <1>1, PaymentsAssumption DEF TypeOK
<1>4. TypeOK'
  BY <1>1, <1>2, <1>3 DEF TypeOK
<1>5. \A o \in Orders : OrderSafe(o)'
  BY <1>2, SafeParts, OrderKept
<1>6. \A b \in Batches : BatchSafe(b)'
  BY <1>2, SafeParts, SharesKept DEF BatchSafe, HoldFits, ClaimFits
<1>7. HeldFen' <= balance'
  <2>1. HeldFen' = HeldFen /\ HeldFen \in Nat /\ HeldFen <= balance
    BY <1>1, <1>2, SafeParts, SharesKept, AmountsType
  <2> QED  BY <1>2, <1>3, <2>1 DEF Available
<1>8. Books'
  <2>1. Sum(debit') = Sum(debit) /\ Sum(refund') = Sum(refund)
    BY <1>2
  <2>2. Sum(debit) \in Nat /\ Sum(refund) \in Nat
    BY <1>1, AmountsType, SumNat
  <2>3. balance + Sum(debit) = deposits + Sum(refund)
    BY SafeParts DEF Books
  <2>4. balance' + Sum(debit') = deposits' + Sum(refund')
    BY <1>2, <1>3, <2>1, <2>2, <2>3
  <2> QED  BY <2>4 DEF Books, Sum, Fen
<1> QED  BY <1>4, <1>5, <1>6, <1>7, <1>8, SafeNext

LEMMA SubmitPaidFromWalletSafe ==
    ASSUME PaymentsSafe, NEW o \in Orders, SubmitPaidFromWallet(o)
    PROVE  PaymentsSafe'
<1> USE DEF orderVars, shareVars, batchVars, walletVars, refundVars
<1>1. TypeOK /\ OrderSafe(o)
  BY SafeParts
<1>2. /\ status[o] = "NEW" /\ reserved' = [reserved EXCEPT ![o] = TRUE]
      /\ UNCHANGED <<clock, claim, deposits, refund, refundVars>>
  BY <1>1 DEF SubmitPaidFromWallet, Place, With, TypeOK
<1>3. /\ Available >= Amount[o]
      /\ status' = [status EXCEPT ![o] = "PAID_PENDING_FULFILLMENT"]
      /\ balance' = balance - Amount[o]
      /\ debit' = [debit EXCEPT ![o] = Amount[o]]
      /\ UNCHANGED <<lockExpires, shareVars, batchVars>>
  BY DEF SubmitPaidFromWallet
<1>4. Amount[o] \in 1..MaxAmount /\ MaxAmount \in Nat /\ balance \in Nat /\ deposits \in Int /\ MaxBalance \in Nat
  BY <1>1, PaymentsAssumption DEF TypeOK
<1>5. HeldFen \in Nat /\ HeldFen <= balance - Amount[o]
  <2>1. HeldFen \in Nat
    BY <1>1, AmountsType
  <2> QED  BY <1>3, <1>4, <2>1 DEF Available
<1>6. TypeOK'
  <2>1. balance' \in 0..MaxBalance
    BY <1>1, <1>3, <1>4, <1>5 DEF TypeOK
  <2>2. debit' \in [Orders -> 0..MaxAmount]
    BY <1>1, <1>3, <1>4 DEF TypeOK
  <2> QED  BY <1>1, <1>2, <1>3, <2>1, <2>2 DEF TypeOK, OrderStatus
<1>7. \A x \in Orders : OrderSafe(x)'
  <2>1. OrderSafe(o)'
    <3>1. ~Managed(o)' /\ ~PaidByBatch(o)'
      BY <1>1, <1>2, <1>3, PaymentsAssumption DEF OrderSafe, OrderFits, Managed, PaidByBatch
    <3>2. claim'[o] = "NONE"
      BY <1>1, <1>2 DEF OrderSafe, OrderFits
    <3>3. PaidOffline(o)' = 0
      BY <3>1, <3>2 DEF PaidOffline
    <3>4. debit'[o] = Amount[o] /\ refund'[o] = 0 /\ owed'[o] = 0
      BY <1>1, <1>2, <1>3 DEF OrderSafe, Funded, TypeOK
    <3> QED  BY <1>1, <1>2, <1>3, <1>4, <3>1, <3>2, <3>3, <3>4
             DEF OrderSafe, Funded, OneWay, OrderFits, Placed, Paid, TypeOK
  <2>2. ASSUME NEW x \in Orders, x # o
        PROVE  OrderSafe(x)'
    BY <1>1, <1>2, <1>3, <2>2, SafeParts, OrderKept DEF TypeOK
  <2> QED  BY <2>1, <2>2
<1>8. \A b \in Batches : BatchSafe(b)'
  BY <1>3, SafeParts, SharesKept DEF BatchSafe, HoldFits, ClaimFits
<1>9. HeldFen' <= balance'
  BY <1>3, <1>5, SharesKept
<1>10. Books'
  <2>1. debit[o] = 0
    BY <1>1, <1>2 DEF OrderSafe, Funded
  <2>2. debit \in Amounts /\ refund \in Amounts /\ Amount[o] \in 0..MaxAmount
    BY <1>1, <1>4, AmountsType
  <2>3. Sum(debit') = Sum(debit) + Amount[o] /\ Sum(refund') = Sum(refund)
    BY <1>2, <1>3, <2>1, <2>2, SumChanged
  <2>4. Sum(debit) \in Nat /\ Sum(refund) \in Nat
    BY <2>2, SumNat
  <2>5. balance + Sum(debit) = deposits + Sum(refund)
    BY SafeParts DEF Books
  <2>6. balance' + Sum(debit') = deposits' + Sum(refund')
    BY <1>2, <1>3, <1>4, <2>3, <2>4, <2>5
  <2> QED  BY <2>6 DEF Books, Sum, Fen
<1> QED  BY <1>6, <1>7, <1>8, <1>9, <1>10, SafeNext

-----------------------------------------------------------------------------
(* New batches.                                                            *)

(* The orders S join the batch b with the shares f; no other batch and no  *)
(* other order notices.                                                    *)
Joins(b, S, f) ==
    /\ batch[b] = "NEW" /\ batchClaim[b] # "PENDING" /\ hold[b] # "ACTIVE"
    /\ \A o \in S : status[o] = "NEW" /\ settlement[o] = NoBatch /\ claim[o] = "NONE"
    /\ \A x \in Orders : settlement[x] # b
    /\ settlement' = [o \in Orders |-> IF o \in S THEN b ELSE settlement[o]]
    /\ share' = [o \in Orders |-> IF o \in S THEN f[o] ELSE share[o]]
    /\ reserved' = [o \in Orders |-> IF o \in S THEN TRUE ELSE reserved[o]]
    /\ UNCHANGED <<clock, claim, deposits, refund, refundVars, reportedAt, batchClaim>>
    /\ \A c \in Batches \ {b} : WalletPart(c)' = WalletPart(c)
    /\ WalletPart(b)' = Sum(Only(S, f))

(* Creating a batch does that.                                             *)
LEMMA Joined ==
    ASSUME PaymentsSafe, NEW b \in Batches, NEW S \in SUBSET Orders, NEW f \in Amounts,
           CreateBatch(b, S, f)
    PROVE  Joins(b, S, f)
<1>1. /\ TypeOK /\ (\A o \in Orders : OrderFits(o)) /\ HoldFits(b) /\ ClaimFits(b)
  BY SafeParts DEF OrderSafe, BatchSafe
<1>2. /\ batch[b] = "NEW"
      /\ \A o \in S : status[o] = "NEW"
      /\ settlement' = [o \in Orders |-> IF o \in S THEN b ELSE settlement[o]]
      /\ share' = [o \in Orders |-> IF o \in S THEN f[o] ELSE share[o]]
      /\ reserved' = [o \in Orders |-> IF o \in S THEN TRUE ELSE reserved[o]]
      /\ UNCHANGED <<clock, claim, deposits, refund, refundVars, reportedAt, batchClaim>>
  BY <1>1 DEF CreateBatch, Place, With, TypeOK
<1>3. batchClaim[b] # "PENDING" /\ hold[b] # "ACTIVE"
  BY <1>1, <1>2 DEF HoldFits, ClaimFits, Open
<1>4. \A o \in S : settlement[o] = NoBatch /\ claim[o] = "NONE"
  BY <1>1, <1>2 DEF OrderFits
<1>5. \A x \in Orders : settlement[x] # b
  BY <1>1, <1>2 DEF OrderFits
<1>6. ASSUME NEW c \in Batches, c # b
      PROVE  WalletPart(c)' = WalletPart(c)
  <2>1. Members(c)' = Members(c) /\ \A o \in Members(c) : share'[o] = share[o]
    BY <1>2, <1>4, <1>6, PaymentsAssumption DEF Members
  <2>2. Only(Members(c)', share') = Only(Members(c), share)
    BY <2>1 DEF Only
  <2> QED  BY <2>2 DEF WalletPart, Sum, Fen, Only
<1>7. WalletPart(b)' = Sum(Only(S, f))
  <2>1. Members(b)' = S
    BY <1>2, <1>5 DEF Members
  <2>2. Only(Members(b)', share') = Only(S, f)
    BY <1>2, <2>1 DEF Only
  <2> QED  BY <2>2 DEF WalletPart, Sum, Fen, Only
<1> QED  BY <1>2, <1>3, <1>4, <1>5, <1>6, <1>7 DEF Joins

LEMMA SubmitBulkPaidSafe ==
    ASSUME PaymentsSafe, NEW b \in Batches, SubmitBulkPaid(b)
    PROVE  PaymentsSafe'
<1> USE DEF refundVars
<1>1. TypeOK /\ (\A o \in Orders : OrderSafe(o)) /\ (\A c \in Batches : BatchSafe(c))
        /\ HeldFen <= balance /\ Books
  BY SafeParts
<1>2. PICK S \in SUBSET Orders, now \in Instants :
        /\ Sum(Only(S, Amount)) <= Available
        /\ CreateBatch(b, S, Amount)
        /\ status' = [o \in Orders |-> IF o \in S THEN "PAID_PENDING_FULFILLMENT" ELSE status[o]]
        /\ batch' = [batch EXCEPT ![b] = "PAID"]
        /\ due' = [due EXCEPT ![b] = now + PaymentLock]
        /\ balance' = balance - Sum(Only(S, Amount))
        /\ debit' = [o \in Orders |-> IF o \in S THEN Amount[o] ELSE debit[o]]
        /\ UNCHANGED <<lockExpires, hold>>
  BY <1>1 DEF SubmitBulkPaid, With, TypeOK
<1> DEFINE total == Sum(Only(S, Amount))
<1>3. Amount \in Amounts /\ total \in Nat /\ HeldFen \in Nat
  BY <1>1, AmountsType, OnlyType
<1>4. /\ batch[b] = "NEW" /\ batchClaim[b] # "PENDING" /\ hold[b] # "ACTIVE"
      /\ \A o \in S : status[o] = "NEW" /\ settlement[o] = NoBatch /\ claim[o] = "NONE"
      /\ \A x \in Orders : settlement[x] # b
      /\ settlement' = [o \in Orders |-> IF o \in S THEN b ELSE settlement[o]]
      /\ share' = [o \in Orders |-> IF o \in S THEN Amount[o] ELSE share[o]]
      /\ reserved' = [o \in Orders |-> IF o \in S THEN TRUE ELSE reserved[o]]
      /\ UNCHANGED <<clock, claim, deposits, refund, refundVars, reportedAt, batchClaim>>
      /\ \A c \in Batches \ {b} : WalletPart(c)' = WalletPart(c)
  <2>1. CreateBatch(b, S, Amount) /\ Amount \in Amounts
    BY <1>2, <1>3
  <2>2. Joins(b, S, Amount)
    BY <2>1, Joined
  <2> QED  BY <2>2 DEF Joins
<1>5. /\ balance \in Nat /\ deposits \in Int /\ MaxBalance \in Nat /\ MaxAmount \in Nat
      /\ \A o \in Orders : Amount[o] \in 1..MaxAmount
  BY <1>1, PaymentsAssumption DEF TypeOK
<1>6. HeldFen <= balance - total \/ (total = 0 /\ HeldFen <= balance)
  BY <1>1, <1>2, <1>3, <1>5 DEF Available
<1>7. TypeOK'
  <2>1. balance' \in 0..MaxBalance
    BY <1>1, <1>2, <1>3, <1>5, <1>6 DEF TypeOK
  <2>2. debit' \in [Orders -> 0..MaxAmount] /\ share' \in [Orders -> 0..MaxAmount]
    BY <1>1, <1>2, <1>4, <1>5 DEF TypeOK
  <2>3. now + PaymentLock \in Times
    BY PaymentsAssumption, <1>1 DEF Instants, Times, TypeOK
  <2>4. due' \in [Batches -> Times] /\ batch' \in [Batches -> BatchStatus]
    BY <1>1, <1>2, <2>3 DEF TypeOK, BatchStatus
  <2>5. /\ status' \in [Orders -> OrderStatus] /\ settlement' \in [Orders -> Batches \cup {NoBatch}]
        /\ reserved' \in [Orders -> BOOLEAN]
    BY <1>1, <1>2, <1>4 DEF TypeOK, OrderStatus
  <2> QED  BY <1>1, <1>2, <1>4, <2>1, <2>2, <2>4, <2>5 DEF TypeOK
<1>8. \A x \in Orders : OrderSafe(x)'
  <2>1. ASSUME NEW o \in S
        PROVE  OrderSafe(o)'
    <3>1. /\ status'[o] = "PAID_PENDING_FULFILLMENT" /\ claim'[o] = "NONE" /\ reserved'[o] = TRUE
          /\ settlement'[o] = b /\ share'[o] = Amount[o] /\ debit'[o] = Amount[o]
          /\ batch'[b] = "PAID"
      BY <1>1, <1>2, <1>4 DEF TypeOK
    <3>2. refund'[o] = 0 /\ owed'[o] = 0
      BY <1>1, <1>4 DEF OrderSafe, Funded
    <3>3. ~Managed(o)' /\ PaidByBatch(o)'
      BY <3>1 DEF Managed, PaidByBatch, Open
    <3>4. PaidOffline(o)' = 0
      BY <1>5, <3>1, <3>3 DEF PaidOffline
    <3> QED  BY <1>5, <3>1, <3>2, <3>3, <3>4 DEF OrderSafe, Funded, OneWay, OrderFits, Placed, Paid
  <2>2. ASSUME NEW x \in Orders, x \notin S
        PROVE  OrderSafe(x)'
    <3>1. \A c \in Batches : settlement[x] = c => batch'[c] = batch[c]
      BY <1>1, <1>2, <1>4 DEF TypeOK
    <3> QED  BY <1>1, <1>2, <1>4, <2>2, <3>1, OrderKept
  <2> QED  BY <2>1, <2>2
<1>9. \A c \in Batches : BatchSafe(c)'
  <2>1. ASSUME NEW c \in Batches, c # b
        PROVE  BatchSafe(c)'
    <3>1. batch'[c] = batch[c] /\ WalletPart(c)' = WalletPart(c)
      BY <1>1, <1>2, <1>4, <2>1 DEF TypeOK
    <3> QED  BY <1>1, <1>2, <1>4, <3>1 DEF BatchSafe, HoldFits, ClaimFits
  <2>2. batch'[b] = "PAID"
    BY <1>1, <1>2 DEF TypeOK
  <2>3. BatchSafe(b)'
    BY <1>2, <1>4, <2>2 DEF BatchSafe, HoldFits, ClaimFits, Open
  <2> QED  BY <2>1, <2>3
<1>10. HeldFen' <= balance'
  <2>1. Frozen' = Frozen /\ \A o \in Frozen : share'[o] = share[o]
    BY <1>2, <1>4, PaymentsAssumption DEF Frozen
  <2>2. Only(Frozen', share') = Only(Frozen, share)
    BY <2>1 DEF Only
  <2>3. HeldFen' = HeldFen
    BY <2>2 DEF HeldFen, Sum, Fen, Only
  <2> QED  BY <1>2, <1>3, <1>5, <1>6, <2>3
<1>11. Books'
  <2>1. debit \in Amounts /\ refund \in Amounts /\ debit' \in Amounts
    BY <1>1, <1>7, AmountsType DEF TypeOK, Amounts
  <2>2. \A o \in S : debit[o] = 0
    BY <1>1, <1>4 DEF OrderSafe, Funded
  <2>3. Only(S, Amount) \in Amounts
    BY <1>3, OnlyType
  <2>4. \A o \in Orders : \/ debit[o] = 0 /\ debit'[o] = Only(S, Amount)[o]
                          \/ Only(S, Amount)[o] = 0 /\ debit'[o] = debit[o]
    BY <1>2, <2>2 DEF Only
  <2>5. Sum(debit') = Sum(debit) + total
    BY <2>1, <2>3, <2>4, SumAdd
  <2>6. Sum(debit) \in Nat /\ Sum(refund) \in Nat /\ Sum(refund') = Sum(refund)
    BY <1>4, <2>1, SumNat
  <2>7. balance + Sum(debit) = deposits + Sum(refund)
    BY <1>1 DEF Books
  <2>8. balance' + Sum(debit') = deposits' + Sum(refund')
    BY <1>2, <1>3, <1>4, <1>5, <2>5, <2>6, <2>7
  <2> QED  BY <2>8 DEF Books, Sum, Fen
<1> QED  BY <1>7, <1>8, <1>9, <1>10, <1>11, SafeNext
-----------------------------------------------------------------------------
(* How a batch's wallet amount is allocated to its orders.                 *)

(* A set of numbers that is not empty has a least one.                     *)
LEMMA LeastNumber ==
    ASSUME NEW S \in SUBSET Nat, S # {}
    PROVE  \E n \in S : \A m \in S : n <= m
<1>1. PICK n \in S : \A m \in S : <<m, n>> \notin OpToRel(<, Nat)
  BY WFMin, NatLessThanWellFounded
<1>2. ASSUME NEW m \in S
      PROVE  n <= m
  <2>1. <<m, n>> \notin {x \in Nat \X Nat : x[1] < x[2]}
    BY <1>1, <1>2, Zenon DEF OpToRel
  <2>2. m \in Nat /\ n \in Nat
    OBVIOUS
  <2> QED  BY <2>1, <2>2
<1> QED  BY <1>2

(* Counting from 0 to L, without an operator for what is counted.          *)
LEMMA UpTo ==
    ASSUME NEW L \in Nat, NEW T, 0 \in T, \A n \in 0..L : n < L /\ n \in T => n + 1 \in T
    PROVE  \A n \in 0..L : n \in T
<1> DEFINE Bad == {n \in 0..L : n \notin T}
<1>1. ASSUME Bad # {}
      PROVE  FALSE
  <2>1. Bad \in SUBSET Nat
    OBVIOUS
  <2>2. PICK n \in Bad : \A m \in Bad : n <= m
    BY <1>1, <2>1, LeastNumber, Zenon
  <2>3. n \in 0..L /\ n \notin T /\ n \in Nat /\ n # 0
    BY <2>1
  <2>4. n - 1 \in 0..L /\ n - 1 < L /\ (n - 1) + 1 = n /\ n - 1 < n
    BY <2>3
  <2>5. n - 1 \in Bad
    BY <2>3, <2>4
  <2> QED  BY <2>2, <2>3, <2>4, <2>5
<1> QED  BY <1>1

(* One order costs one fen more.                                           *)
LEMMA SumOneMore ==
    ASSUME NEW f \in Amounts, NEW g \in Amounts, NEW o \in Orders, g[o] = f[o] + 1,
           \A x \in Orders \ {o} : g[x] = f[x]
    PROVE  Sum(g) = Sum(f) + 1
<1>1. MaxAmount \in Nat /\ \A x \in Orders : f[x] \in 0..MaxAmount /\ g[x] \in 0..MaxAmount
  BY PaymentsAssumption DEF Amounts
<1>2. g[o] \in 1..MaxAmount
  BY <1>1
<1>3. Fen(g) = Fen(f) \cup {<<o, g[o]>>}
  <2>1. ASSUME NEW x \in Orders, NEW n \in 1..MaxAmount
        PROVE  n <= g[x] <=> n <= f[x] \/ (x = o /\ n = g[o])
    BY <1>1
  <2> QED  BY <1>2, <2>1 DEF Fen
<1>4. <<o, g[o]>> \notin Fen(f)
  BY <1>1 DEF Fen
<1> QED  BY <1>3, <1>4, SumNat, FS_AddElement DEF Sum

(* One order more.                                                         *)
LEMMA SumOrderMore ==
    ASSUME NEW f \in Amounts, NEW S \in SUBSET Orders, NEW o \in S
    PROVE  Sum(Only(S, f)) = Sum(Only(S \ {o}, f)) + f[o]
<1> DEFINE g == Only(S \ {o}, f)
<1>1. g \in Amounts /\ f[o] \in 0..MaxAmount
  BY OnlyType DEF Amounts
<1>2. g[o] = 0 /\ Only(S, f) = [g EXCEPT ![o] = f[o]]
  BY DEF Only
<1> HIDE DEF g
<1>3. Sum([g EXCEPT ![o] = f[o]]) = Sum(g) + f[o]
  BY <1>1, <1>2, SumChanged
<1> QED  BY <1>2, <1>3 DEF g

(* Rounding down.                                                          *)
LEMMA Quotient ==
    ASSUME NEW n \in Nat, NEW d \in Nat, d > 0
    PROVE  n \div d \in Nat /\ d * (n \div d) <= n /\ n < d * (n \div d) + d
OBVIOUS

(* Products grow with their factors.                                       *)
LEMMA ProductLess ==
    ASSUME NEW d \in Nat, NEW m \in Nat, NEW n \in Nat, d * m < d * n
    PROVE  m < n
<1>1. ASSUME n <= m
      PROVE  d * n <= d * m
  <2>1. m = n + (m - n) /\ m - n \in Nat
    BY <1>1
  <2>2. d * m = d * n + d * (m - n) /\ d * (m - n) \in Nat
    BY <2>1
  <2> QED  BY <2>2
<1> QED  BY <1>1

LEMMA ProductGrows ==
    ASSUME NEW d \in Nat, d > 0, NEW m \in Nat, NEW n \in Nat, m < n
    PROVE  d * m < d * n
<1>1. n = m + (n - m) /\ n - m \in Nat /\ n - m >= 1
  OBVIOUS
<1>2. d * n = d * m + d * (n - m) /\ d * (n - m) >= 1 /\ d * m \in Nat /\ d * (n - m) \in Nat
  BY <1>1
<1> QED  BY <1>2

(* The part of one order.                                                  *)
LEMMA PartBounds ==
    ASSUME NEW S \in SUBSET Orders, NEW w \in Nat, w <= Sum(Only(S, Amount)), NEW o \in S
    PROVE  /\ Sum(Only(S, Amount)) \in Nat \ {0}
           /\ Parts(S, w)[o] \in 0..Amount[o]
           /\ Sum(Only(S, Amount)) * Parts(S, w)[o] <= w * Amount[o]
           /\ w * Amount[o] <= Sum(Only(S, Amount)) * (Parts(S, w)[o] + 1)
           /\ w = Sum(Only(S, Amount)) => Parts(S, w)[o] = Amount[o]
           /\ w < Sum(Only(S, Amount)) => Parts(S, w)[o] < Amount[o]
<1> DEFINE t == Sum(Only(S, Amount))
           a == Amount[o]
           p == Parts(S, w)[o]
<1>1. a \in Nat /\ a >= 1 /\ Amount \in Amounts
  BY PaymentsAssumption DEF Amounts
<1>2. t \in Nat /\ t > 0
  <2>1. t = Sum(Only(S \ {o}, Amount)) + a /\ Sum(Only(S \ {o}, Amount)) \in Nat
    BY <1>1, SumOrderMore, OnlyType
  <2> QED  BY <1>1, <2>1
<1>3. p = (w * a) \div t
  BY DEF Parts
<1> HIDE DEF t, a, p
<1>4. w * a \in Nat
  BY <1>1
<1>5. p \in Nat /\ t * p <= w * a /\ w * a < t * p + t
  BY <1>2, <1>3, <1>4, Quotient
<1>6. w * a <= t * (p + 1)
  <2>1. t * (p + 1) = t * p + t /\ t * p \in Nat
    BY <1>2, <1>5
  <2> QED  BY <1>2, <1>4, <1>5, <2>1
<1>7. ASSUME w = t
      PROVE  p = a
  <2>1. t * p <= t * a /\ t * a < t * (p + 1)
    BY <1>2, <1>5, <1>7
  <2>2. a < p + 1
    BY <1>1, <1>2, <1>5, <2>1, ProductLess
  <2>3. ~(a < p)
    <3>1. a < p => t * a < t * p
      BY <1>1, <1>2, <1>5, ProductGrows
    <3>2. t * a \in Nat /\ t * p \in Nat
      BY <1>1, <1>2, <1>5
    <3> QED  BY <2>1, <3>1, <3>2
  <2> QED  BY <1>1, <1>5, <2>2, <2>3
<1>8. ASSUME w < t
      PROVE  p < a
  <2>1. t = w + (t - w) /\ t - w \in Nat /\ t - w >= 1
    BY <1>2, <1>8
  <2>2. t * a = w * a + (t - w) * a /\ (t - w) * a >= 1
    BY <1>1, <1>2, <2>1
  <2>3. t * p < t * a
    BY <1>1, <1>2, <1>4, <1>5, <2>2
  <2> QED  BY <1>1, <1>2, <1>5, <2>3, ProductLess
<1>9. p \in 0..a
  BY <1>1, <1>2, <1>5, <1>7, <1>8 DEF t
<1> QED  BY <1>2, <1>5, <1>6, <1>7, <1>8, <1>9 DEF t, a, p

LEMMA PartsType ==
    ASSUME NEW S \in SUBSET Orders, NEW w \in Nat, w <= Sum(Only(S, Amount))
    PROVE  /\ Parts(S, w) \in Amounts
           /\ \A o \in Orders \ S : Parts(S, w)[o] = 0
           /\ Only(S, Parts(S, w)) = Parts(S, w)
<1>1. MaxAmount \in Nat /\ \A o \in Orders : Amount[o] \in 1..MaxAmount
  BY PaymentsAssumption
<1>2. \A o \in Orders \ S : Parts(S, w)[o] = 0
  BY DEF Parts
<1>3. \A o \in Orders : Parts(S, w)[o] \in 0..MaxAmount
  <2>1. ASSUME NEW o \in S
        PROVE  Parts(S, w)[o] \in 0..MaxAmount
    <3>1. Parts(S, w)[o] \in 0..Amount[o] /\ Amount[o] \in 1..MaxAmount
      BY <1>1, PartBounds
    <3> QED  BY <1>1, <3>1
  <2> QED  BY <1>1, <1>2, <2>1
<1>4. Parts(S, w) = [o \in Orders |-> Parts(S, w)[o]]
  BY DEF Parts
<1>5. Parts(S, w) \in Amounts
  BY <1>3, <1>4 DEF Amounts
<1>6. Only(S, Parts(S, w)) = Parts(S, w)
  BY <1>2, <1>4 DEF Only
<1> QED  BY <1>2, <1>5, <1>6

(* All parts together are the amount, but for less than a fen per order.   *)
LEMMA PartsSum ==
    ASSUME NEW S \in SUBSET Orders, NEW w \in Nat, w <= Sum(Only(S, Amount))
    PROVE  /\ IsFiniteSet(S) /\ Cardinality(S) \in Nat
           /\ w - Sum(Parts(S, w)) \in 0..Cardinality(S)
<1> DEFINE t == Sum(Only(S, Amount))
           part == Parts(S, w)
           A(U) == Sum(Only(U, Amount))
           P(U) == Sum(Only(U, part))
           c == Cardinality(S)
           Fits(U) == t * P(U) <= w * A(U) /\ w * A(U) <= t * (P(U) + Cardinality(U))
<1>1. IsFiniteSet(S) /\ c \in Nat
  BY PaymentsAssumption, FS_Subset, FS_CardinalityType
<1>2. part \in Amounts /\ Amount \in Amounts
  BY PartsType, PaymentsAssumption DEF Amounts
<1>3. \A U \in SUBSET S : A(U) \in Nat /\ P(U) \in Nat /\ IsFiniteSet(U) /\ Cardinality(U) \in Nat
  BY <1>1, <1>2, OnlyType, FS_Subset, FS_CardinalityType
<1>4. t \in Nat /\ t = A(S)
  BY <1>3
<1>5. ASSUME NEW U \in SUBSET S, NEW o \in U, Fits(U \ {o})
      PROVE  Fits(U)
  <2> DEFINE V == U \ {o}
  <2>1. A(U) = A(V) + Amount[o] /\ P(U) = P(V) + part[o]
    BY <1>2, SumOrderMore
  <2>2. Cardinality(U) = Cardinality(V) + 1
    BY <1>3, FS_RemoveElement
  <2>3. /\ Amount[o] \in Nat /\ part[o] \in Nat
        /\ t * part[o] <= w * Amount[o] /\ w * Amount[o] <= t * (part[o] + 1)
    BY PartBounds, PaymentsAssumption
  <2>4. A(V) \in Nat /\ P(V) \in Nat /\ Cardinality(V) \in Nat
    BY <1>3
  <2>5. t * P(V) <= w * A(V) /\ w * A(V) <= t * (P(V) + Cardinality(V))
    BY <1>5
  <2> DEFINE av == A(V) pv == P(V) cv == Cardinality(V) a == Amount[o] p == part[o]
  <2>6. /\ av \in Nat /\ pv \in Nat /\ cv \in Nat /\ a \in Nat /\ p \in Nat
        /\ t * pv <= w * av /\ w * av <= t * (pv + cv)
        /\ t * p <= w * a /\ w * a <= t * (p + 1)
    BY <2>3, <2>4, <2>5
  <2>7. A(U) = av + a /\ P(U) = pv + p /\ Cardinality(U) = cv + 1
    BY <2>1, <2>2
  <2> HIDE DEF V, av, pv, cv, a, p, t, A, P, part
  <2>8. /\ t * (pv + p) = t * pv + t * p /\ w * (av + a) = w * av + w * a
        /\ t * ((pv + p) + (cv + 1)) = t * (pv + cv) + t * (p + 1)
    BY <1>4, <2>6
  <2>9. t * (pv + p) <= w * (av + a) /\ w * (av + a) <= t * ((pv + p) + (cv + 1))
    <3>1. /\ t * pv \in Nat /\ t * p \in Nat /\ w * av \in Nat /\ w * a \in Nat
          /\ t * (pv + cv) \in Nat /\ t * (p + 1) \in Nat
      BY <1>4, <2>6
    <3> QED  BY <2>6, <2>8, <3>1
  <2> QED  BY <2>7, <2>9
<1> DEFINE T == {n \in 0..c : \A U \in SUBSET S : Cardinality(U) = n => Fits(U)}
<1>6. 0 \in T
  <2>1. ASSUME NEW U \in SUBSET S, Cardinality(U) = 0
        PROVE  Fits(U)
    <3>1. U = {}
      BY <1>3, <2>1, FS_EmptySet
    <3>2. A({}) = 0 /\ P({}) = 0
      <4>1. Only({}, Amount) \in Amounts /\ Only({}, part) \in Amounts
        BY <1>2, OnlyType
      <4> QED  BY <4>1, SumZero DEF Only
    <3>3. A(U) = 0 /\ P(U) = 0 /\ t \in Nat
      BY <1>4, <3>1, <3>2
    <3> HIDE DEF A, P, t
    <3>4. t * 0 <= w * 0 /\ w * 0 <= t * (0 + 0)
      BY <3>3
    <3> QED  BY <2>1, <3>3, <3>4
  <2> QED  BY <1>1, <2>1
<1>7. ASSUME NEW n \in 0..c, n < c, n \in T
      PROVE  n + 1 \in T
  <2>1. ASSUME NEW U \in SUBSET S, Cardinality(U) = n + 1
        PROVE  Fits(U)
    <3>1. U # {}
      BY <1>1, <2>1, FS_EmptySet
    <3>2. PICK o \in U : TRUE
      BY <3>1
    <3>3. Cardinality(U \ {o}) = n
      BY <1>1, <1>3, <2>1, FS_RemoveElement
    <3>4. Fits(U \ {o})
      <4> HIDE DEF Fits
      <4> QED  BY <1>7, <3>3
    <3> HIDE DEF Fits
    <3> QED  BY <1>5, <3>4
  <2> HIDE DEF Fits
  <2> QED  BY <1>1, <1>7, <2>1
<1>8. Fits(S)
  <2> HIDE DEF T, Fits
  <2>1. c \in T
    BY <1>1, <1>6, <1>7, UpTo
  <2> QED  BY <2>1 DEF T
<1> DEFINE s == Sum(part)
<1>9. P(S) = s /\ s \in Nat
  BY <1>2, PartsType, SumNat
<1>10. t * s <= w * t /\ w * t <= t * (s + c)
  BY <1>4, <1>8, <1>9
<1>11. w - s \in 0..c
  <2>1. CASE t = 0
    <3>1. S = {}
      <4>1. Only(S, Amount) \in Amounts
        BY <1>2, OnlyType
      <4>2. \A o \in Orders : Only(S, Amount)[o] = 0
        BY <2>1, <4>1, SumZero
      <4>3. \A o \in S : Only(S, Amount)[o] = Amount[o] /\ Amount[o] \in 1..MaxAmount
        BY PaymentsAssumption DEF Only
      <4> QED  BY <4>2, <4>3, PaymentsAssumption
    <3>2. c = 0
      BY <3>1, FS_EmptySet
    <3>3. s = 0
      BY <1>2, <3>1, PartsType, SumZero
    <3>4. w = 0
      BY <2>1
    <3> QED  BY <3>2, <3>3, <3>4
  <2>2. CASE t # 0
    <3> HIDE DEF t, s, c
    <3>1. s <= w
      <4>1. ~(t * w < t * s)
        BY <1>4, <1>9, <1>10
      <4>2. t > 0 /\ (w < s => t * w < t * s)
        BY <1>4, <1>9, <2>2, ProductGrows
      <4> QED  BY <1>9, <4>1, <4>2
    <3>2. w <= s + c
      <4>1. ~(t * (s + c) < t * w)
        BY <1>1, <1>4, <1>9, <1>10
      <4>2. t > 0 /\ s + c \in Nat
        BY <1>1, <1>4, <1>9, <2>2
      <4>3. s + c < w => t * (s + c) < t * w
        BY <1>4, <4>2, ProductGrows
      <4> QED  BY <4>1, <4>2, <4>3
    <3> QED  BY <1>1, <1>9, <3>1, <3>2
  <2> QED  BY <2>1, <2>2
<1> QED  BY <1>1, <1>11

(* There are as many dearest orders as one wants.                          *)
LEMMA DearestExist ==
    ASSUME NEW S \in SUBSET Orders, NEW n \in 0..Cardinality(S)
    PROVE  Dearest(S, n) # {}
<1> DEFINE c == Cardinality(S)
           T == {k \in 0..c : Dearest(S, k) # {}}
<1>1. /\ IsFiniteSet(S) /\ c \in Nat
      /\ \A E \in SUBSET S : IsFiniteSet(E) /\ Cardinality(E) \in Nat
  BY PaymentsAssumption, FS_Subset, FS_CardinalityType
<1>2. MaxAmount \in Nat /\ \A o \in Orders : Amount[o] \in 1..MaxAmount
  BY PaymentsAssumption
<1>3. 0 \in T
  <2>1. {} \in SUBSET S /\ Cardinality({}) = 0
    BY FS_EmptySet
  <2>2. {} \in Dearest(S, 0)
    BY <2>1 DEF Dearest
  <2> QED  BY <1>1, <2>2
<1>4. ASSUME NEW k \in 0..c, k < c, k \in T
      PROVE  k + 1 \in T
  <2>1. PICK E \in SUBSET S : Cardinality(E) = k /\ \A o \in E, p \in S \ E : Amount[o] >= Amount[p]
    BY <1>4 DEF Dearest
  <2> DEFINE Left == {MaxAmount - Amount[p] : p \in S \ E}
  <2>2. S \ E # {}
    <3>1. ASSUME S \ E = {}
          PROVE  FALSE
      <4>1. E = S
        BY <3>1
      <4> QED  BY <1>1, <1>4, <2>1, <4>1
    <3> QED  BY <3>1
  <2>3. Left \in SUBSET Nat /\ Left # {}
    BY <1>2, <2>2
  <2>4. PICK m \in Left : \A l \in Left : m <= l
    <3> HIDE DEF Left
    <3> QED  BY <2>3, LeastNumber
  <2>5. PICK p \in S \ E : m = MaxAmount - Amount[p]
    OBVIOUS
  <2>6. ASSUME NEW r \in S \ E
        PROVE  Amount[p] >= Amount[r]
    <3>1. MaxAmount - Amount[p] <= MaxAmount - Amount[r]
      BY <2>4, <2>5
    <3> QED  BY <1>2, <3>1
  <2> DEFINE F == E \cup {p}
  <2>7. F \in SUBSET S /\ Cardinality(F) = k + 1
    BY <1>1, <2>1, FS_AddElement
  <2>8. \A o \in F, r \in S \ F : Amount[o] >= Amount[r]
    BY <2>1, <2>6
  <2>9. F \in Dearest(S, k + 1)
    <3> HIDE DEF F
    <3> QED  BY <2>7, <2>8 DEF Dearest
  <2> QED  BY <1>1, <1>4, <2>9
<1>5. n \in T
  <2> HIDE DEF T
  <2>1. n \in 0..c
    OBVIOUS
  <2> HIDE DEF c
  <2> QED  BY <1>1, <1>3, <1>4, <2>1, UpTo
<1> QED  BY <1>5

(* A fen more for some of the orders.                                      *)
LEMMA FensAdded ==
    ASSUME NEW f \in Amounts, NEW E \in SUBSET Orders, \A o \in E : f[o] < MaxAmount
    PROVE  /\ [o \in Orders |-> IF o \in E THEN f[o] + 1 ELSE f[o]] \in Amounts
           /\ Sum([o \in Orders |-> IF o \in E THEN f[o] + 1 ELSE f[o]]) = Sum(f) + Cardinality(E)
<1> DEFINE g(D) == [o \in Orders |-> IF o \in D THEN f[o] + 1 ELSE f[o]]
           c == Cardinality(E)
           T == {n \in 0..c : \A D \in SUBSET E : Cardinality(D) = n => Sum(g(D)) = Sum(f) + n}
<1>1. /\ IsFiniteSet(E) /\ c \in Nat
      /\ \A D \in SUBSET E : IsFiniteSet(D) /\ Cardinality(D) \in Nat
  BY PaymentsAssumption, FS_Subset, FS_CardinalityType
<1>2. MaxAmount \in Nat /\ f \in [Orders -> 0..MaxAmount]
  BY PaymentsAssumption DEF Amounts
<1>3. \A D \in SUBSET E : g(D) \in Amounts
  <2> SUFFICES ASSUME NEW D \in SUBSET E
               PROVE  \A o \in Orders : (IF o \in D THEN f[o] + 1 ELSE f[o]) \in 0..MaxAmount
    BY DEF Amounts
  <2>1. \A o \in Orders : f[o] \in 0..MaxAmount /\ (o \in D => f[o] < MaxAmount)
    BY <1>2
  <2> QED  BY <1>2, <2>1
<1>4. 0 \in T
  <2>1. ASSUME NEW D \in SUBSET E, Cardinality(D) = 0
        PROVE  Sum(g(D)) = Sum(f) + 0
    <3>1. D = {}
      BY <1>1, <2>1, FS_EmptySet
    <3>2. g(D) = f
      BY <1>2, <3>1
    <3> HIDE DEF g
    <3> QED  BY <3>2, SumNat
  <2> HIDE DEF g
  <2> QED  BY <1>1, <2>1
<1>5. ASSUME NEW n \in 0..c, n < c, n \in T
      PROVE  n + 1 \in T
  <2>1. ASSUME NEW D \in SUBSET E, Cardinality(D) = n + 1
        PROVE  Sum(g(D)) = Sum(f) + (n + 1)
    <3>1. D # {}
      BY <1>1, <2>1, FS_EmptySet
    <3>2. PICK o \in D : TRUE
      BY <3>1
    <3> DEFINE B == D \ {o}
    <3>3. B \in SUBSET E /\ Cardinality(B) = n
      <4>1. IsFiniteSet(D)
        BY <1>1
      <4>2. Cardinality(B) = Cardinality(D) - 1
        BY <4>1, FS_RemoveElement
      <4> QED  BY <2>1, <4>2
    <3>4. g(D)[o] = g(B)[o] + 1 /\ \A x \in Orders \ {o} : g(D)[x] = g(B)[x]
      BY <1>2
    <3> HIDE DEF g, B
    <3>5. Sum(g(D)) = Sum(g(B)) + 1
      BY <1>3, <3>3, <3>4, SumOneMore
    <3>6. Sum(g(B)) = Sum(f) + n
      BY <1>5, <3>3
    <3> QED  BY <1>1, <3>5, <3>6, SumNat
  <2> HIDE DEF g
  <2> QED  BY <1>1, <1>5, <2>1
<1>6. c \in T
  <2> HIDE DEF T
  <2> QED  BY <1>1, <1>4, <1>5, UpTo
<1>7. Sum(g(E)) = Sum(f) + c
  <2> HIDE DEF g
  <2> QED  BY <1>6
<1> QED  BY <1>3, <1>7

(* The amount that the wallet pays of several orders is paid to the fen,   *)
(* and no order gets more than it costs (allocation.ts).                   *)
THEOREM AllocationFits ==
    ASSUME NEW S \in SUBSET Orders, NEW w \in Nat, w <= Sum(Only(S, Amount))
    PROVE  Allocations(S, w) # {} /\ Allocations(S, w) \subseteq Splits(S, w)
<1> DEFINE t == Sum(Only(S, Amount))
           part == Parts(S, w)
           left == w - Sum(part)
           g(E) == [o \in Orders |-> IF o \in E THEN part[o] + 1 ELSE part[o]]
<1>1. /\ IsFiniteSet(S) /\ left \in 0..Cardinality(S) /\ part \in Amounts /\ Sum(part) \in Nat
      /\ \A o \in Orders \ S : part[o] = 0
  BY PartsSum, PartsType, SumNat
<1>2. Allocations(S, w) = {g(E) : E \in Dearest(S, left)}
  BY Zenon DEF Allocations
<1>3. Dearest(S, left) # {}
  BY <1>1, DearestExist
<1>4. ASSUME NEW E \in Dearest(S, left)
      PROVE  g(E) \in Splits(S, w)
  <2>1. E \in SUBSET S /\ Cardinality(E) = left /\ IsFiniteSet(E)
    BY <1>1, FS_Subset DEF Dearest
  <2>2. ASSUME NEW o \in E
        PROVE  part[o] < Amount[o]
    <3>1. left # 0
      BY <2>1, <2>2, FS_EmptySet
    <3>2. w # t
      <4>1. ASSUME w = t
            PROVE  FALSE
        <5>1. \A x \in Orders : part[x] = Only(S, Amount)[x]
          BY <1>1, <4>1, PartBounds DEF Only
        <5>2. part = Only(S, Amount)
          BY <1>1, <5>1 DEF Amounts, Only
        <5>3. Sum(part) = t
          BY <5>2
        <5> HIDE DEF t, part
        <5> QED  BY <1>1, <3>1, <4>1, <5>3
      <4> QED  BY <4>1
    <3>3. w < t
      <4>1. t \in Nat
        BY <2>1, PartBounds
      <4> QED  BY <3>2, <4>1
    <3> QED  BY <2>1, <3>3, PartBounds
  <2>3. MaxAmount \in Nat /\ \A o \in Orders : Amount[o] \in 1..MaxAmount /\ part[o] \in 0..MaxAmount
    BY <1>1, PaymentsAssumption DEF Amounts
  <2>4. \A o \in E : part[o] < MaxAmount
    BY <2>1, <2>2, <2>3
  <2>5. g(E) \in Amounts /\ Sum(g(E)) = Sum(part) + Cardinality(E)
    <3> HIDE DEF part
    <3> QED  BY <1>1, <2>1, <2>4, FensAdded
  <2>6. Sum(g(E)) = w
    BY <1>1, <2>1, <2>5
  <2>7. ASSUME NEW o \in Orders
        PROVE  g(E)[o] <= (IF o \in S THEN Amount[o] ELSE 0)
    <3>1. o \in S => part[o] \in 0..Amount[o]
      BY PartBounds
    <3> HIDE DEF part
    <3> QED  BY <1>1, <2>1, <2>2, <2>3, <3>1
  <2> HIDE DEF g
  <2> QED  BY <2>5, <2>6, <2>7 DEF Splits
<1> HIDE DEF g
<1> QED  BY <1>2, <1>3, <1>4

-----------------------------------------------------------------------------
LEMMA SubmitBulkUnpaidSafe ==
    ASSUME PaymentsSafe, NEW b \in Batches, SubmitBulkUnpaid(b)
    PROVE  PaymentsSafe'
<1> USE DEF refundVars
<1>1. TypeOK /\ (\A o \in Orders : OrderSafe(o)) /\ (\A c \in Batches : BatchSafe(c))
        /\ HeldFen <= balance /\ Books
  BY SafeParts
<1> DEFINE total(S)  == Sum(Only(S, Amount))
           fee(S, r) == FromWallet(r, total(S))
<1>0. PICK S \in SUBSET Orders, now \in Instants, requested \in 0..MaxBalance :
        /\ \E g \in Allocations(S, fee(S, requested)) : CreateBatch(b, S, g)
        /\ status' = With(status, S, "PENDING_PAYMENT")
        /\ lockExpires' = With(lockExpires, S, now + PaymentLock)
        /\ batch' = [batch EXCEPT ![b] = "PENDING_PAYMENT"]
        /\ due' = [due EXCEPT ![b] = now + PaymentLock]
        /\ hold' = [hold EXCEPT ![b] = IF fee(S, requested) > 0 THEN "ACTIVE" ELSE "NONE"]
        /\ UNCHANGED <<balance, debit>>
  BY Zenon DEF SubmitBulkUnpaid
<1>2. /\ status' = [o \in Orders |-> IF o \in S THEN "PENDING_PAYMENT" ELSE status[o]]
      /\ lockExpires' = [o \in Orders |-> IF o \in S THEN now + PaymentLock ELSE lockExpires[o]]
      /\ due' = [due EXCEPT ![b] = now + PaymentLock]
      /\ UNCHANGED <<balance, debit>>
  BY <1>0, <1>1 DEF With, TypeOK
<1> DEFINE w == FromWallet(requested, Sum(Only(S, Amount)))
<1>3. /\ balance \in Nat /\ MaxBalance \in Nat /\ MaxAmount \in Nat /\ HeldFen \in Nat
      /\ Sum(Only(S, Amount)) \in Nat
      /\ \A o \in Orders : Amount[o] \in 1..MaxAmount
  BY <1>1, AmountsType, OnlyType, PaymentsAssumption DEF TypeOK
<1>4. w \in Nat /\ w + HeldFen <= balance
  BY <1>1, <1>3 DEF FromWallet, Available
<1>5. PICK f \in Splits(S, w) : CreateBatch(b, S, f)
  <2>1. PICK f \in Allocations(S, w) : CreateBatch(b, S, f)
    BY <1>0
  <2>2. w <= Sum(Only(S, Amount))
    BY <1>3 DEF FromWallet, Available
  <2> HIDE DEF w
  <2>3. f \in Splits(S, w)
    BY <1>4, <2>1, <2>2, AllocationFits
  <2> QED  BY <2>1, <2>3
<1> HIDE DEF w
<1>6. /\ f \in Amounts /\ Sum(f) = w
      /\ \A o \in S : f[o] <= Amount[o]
      /\ \A o \in Orders \ S : f[o] = 0
  <2>1. /\ f \in Amounts /\ Sum(f) = w
        /\ \A o \in Orders : f[o] <= (IF o \in S THEN Amount[o] ELSE 0)
    BY DEF Splits, Amounts
  <2>2. \A o \in Orders : f[o] \in Nat
    BY <1>3, <2>1 DEF Amounts
  <2> QED  BY <2>1, <2>2
<1>7. /\ batch[b] = "NEW" /\ batchClaim[b] # "PENDING" /\ hold[b] # "ACTIVE"
      /\ \A o \in S : status[o] = "NEW" /\ settlement[o] = NoBatch /\ claim[o] = "NONE"
      /\ \A x \in Orders : settlement[x] # b
      /\ settlement' = [o \in Orders |-> IF o \in S THEN b ELSE settlement[o]]
      /\ share' = [o \in Orders |-> IF o \in S THEN f[o] ELSE share[o]]
      /\ reserved' = [o \in Orders |-> IF o \in S THEN TRUE ELSE reserved[o]]
      /\ UNCHANGED <<clock, claim, deposits, refund, refundVars, reportedAt, batchClaim>>
      /\ \A c \in Batches \ {b} : WalletPart(c)' = WalletPart(c)
      /\ WalletPart(b)' = Sum(Only(S, f))
  <2>1. Joins(b, S, f)
    BY <1>5, <1>6, Joined
  <2> QED  BY <2>1 DEF Joins
<1>8. WalletPart(b)' = w
  <2>1. Only(S, f) = f
    BY <1>6 DEF Only, Amounts
  <2> QED  BY <1>6, <1>7, <2>1
<1>9. /\ batch' = [batch EXCEPT ![b] = "PENDING_PAYMENT"]
      /\ hold' = [hold EXCEPT ![b] = IF w > 0 THEN "ACTIVE" ELSE "NONE"]
  BY <1>0 DEF w
<1>10. TypeOK'
  <2>1. now + PaymentLock \in Times
    BY PaymentsAssumption, <1>1 DEF Instants, Times, TypeOK
  <2>2. due' \in [Batches -> Times] /\ batch' \in [Batches -> BatchStatus]
        /\ lockExpires' \in [Orders -> Times]
    BY <1>1, <1>2, <1>9, <2>1 DEF TypeOK, BatchStatus
  <2>3. /\ status' \in [Orders -> OrderStatus] /\ settlement' \in [Orders -> Batches \cup {NoBatch}]
        /\ reserved' \in [Orders -> BOOLEAN] /\ share' \in [Orders -> 0..MaxAmount]
    BY <1>1, <1>2, <1>6, <1>7 DEF TypeOK, OrderStatus, Amounts
  <2>4. hold' \in [Batches -> {"NONE", "ACTIVE", "CONSUMED", "RELEASED"}]
    BY <1>1, <1>9 DEF TypeOK
  <2> QED  BY <1>1, <1>2, <1>7, <2>2, <2>3, <2>4 DEF TypeOK
<1>11. \A x \in Orders : OrderSafe(x)'
  <2>1. ASSUME NEW o \in S
        PROVE  OrderSafe(o)'
    <3>1. /\ status'[o] = "PENDING_PAYMENT" /\ claim'[o] = "NONE" /\ reserved'[o] = TRUE
          /\ settlement'[o] = b /\ share'[o] = f[o] /\ debit'[o] = debit[o]
          /\ batch'[b] = "PENDING_PAYMENT"
      BY <1>1, <1>2, <1>7, <1>9 DEF TypeOK
    <3>2. refund'[o] = 0 /\ owed'[o] = 0 /\ debit'[o] = 0
      BY <1>1, <1>7, <3>1 DEF OrderSafe, Funded
    <3>3. ~PaidByBatch(o)'
      BY <3>1 DEF PaidByBatch
    <3>4. PaidOffline(o)' = 0
      BY <3>1, <3>3 DEF PaidOffline
    <3> QED  BY <1>6, <3>1, <3>2, <3>3, <3>4 DEF OrderSafe, Funded, OneWay, OrderFits, Placed, Paid
  <2>2. ASSUME NEW x \in Orders, x \notin S
        PROVE  OrderSafe(x)'
    <3>1. \A c \in Batches : settlement[x] = c => batch'[c] = batch[c]
      BY <1>1, <1>2, <1>7, <1>9 DEF TypeOK
    <3> QED  BY <1>1, <1>2, <1>7, <2>2, <3>1, OrderKept
  <2> QED  BY <2>1, <2>2
<1>12. \A c \in Batches : BatchSafe(c)'
  <2>1. ASSUME NEW c \in Batches, c # b
        PROVE  BatchSafe(c)'
    <3>1. batch'[c] = batch[c] /\ hold'[c] = hold[c] /\ WalletPart(c)' = WalletPart(c)
      BY <1>1, <1>9, <1>7, <2>1 DEF TypeOK
    <3> QED  BY <1>1, <1>7, <3>1 DEF BatchSafe, HoldFits, ClaimFits
  <2>2. batch'[b] = "PENDING_PAYMENT" /\ (hold'[b] = "ACTIVE" <=> w > 0)
    BY <1>1, <1>9 DEF TypeOK
  <2>3. BatchSafe(b)'
    BY <1>7, <1>8, <2>2 DEF BatchSafe, HoldFits, ClaimFits, Open
  <2> QED  BY <2>1, <2>3
<1>13. HeldFen' <= balance'
  <2>1. /\ Only(Frozen, share) \in Amounts /\ share' \in Amounts
        /\ Only(Frozen', share') \in Amounts
    BY <1>1, <1>10, AmountsType, OnlyType DEF TypeOK, Amounts
  <2>2. \A o \in S : Only(Frozen, share)[o] = 0 /\ Only(Frozen', share')[o] = f[o]
    <3> TAKE o \in S
    <3>1. settlement[o] = NoBatch /\ settlement'[o] = b /\ share'[o] = f[o]
      BY <1>7
    <3>2. Only(Frozen, share)[o] = 0
      BY <3>1, PaymentsAssumption DEF Only, Frozen
    <3>3. CASE w = 0
      <4>1. o \in Orders /\ f[o] = 0
        BY <1>6, <3>3, SumZero
      <4> QED  BY <3>1, <3>2, <4>1 DEF Only
    <3>4. CASE w # 0
      <4>1. hold'[b] = "ACTIVE"
        BY <1>1, <1>4, <1>9, <3>4 DEF TypeOK
      <4>2. o \in Frozen'
        BY <3>1, <4>1 DEF Frozen
      <4> QED  BY <3>1, <3>2, <4>2 DEF Only
    <3> QED  BY <3>2, <3>3, <3>4
  <2>3. \A o \in Orders \ S : Only(Frozen', share')[o] = Only(Frozen, share)[o]
    <3> TAKE o \in Orders \ S
    <3>1. settlement'[o] = settlement[o] /\ settlement[o] # b /\ share'[o] = share[o]
      BY <1>7
    <3>2. o \in Frozen' <=> o \in Frozen
      BY <1>1, <1>9, <3>1 DEF Frozen, TypeOK
    <3> QED  BY <3>1, <3>2 DEF Only
  <2>4. Sum(Only(Frozen', share')) = Sum(Only(Frozen, share)) + Sum(f)
    BY <1>6, <2>1, <2>2, <2>3, SumAdd
  <2>5. HeldFen' = HeldFen + w
    <3>1. HeldFen' = Sum(Only(Frozen', share'))
      BY DEF HeldFen, Only, Sum, Fen
    <3> QED  BY <1>6, <2>4, <3>1 DEF HeldFen
  <2> QED  BY <1>2, <1>3, <1>4, <2>5
<1>14. Books'
  <2>1. debit' = debit /\ refund' = refund /\ balance' = balance /\ deposits' = deposits
    BY <1>2, <1>7
  <2> QED  BY <1>1, <2>1 DEF Books, Sum, Fen
<1> QED  BY <1>10, <1>11, <1>12, <1>13, <1>14, SafeNext
-----------------------------------------------------------------------------
(* The payment of a batch.                                                 *)

(* The orders of an open batch wait for payment and cost nothing yet.      *)
LEMMA OpenMembers ==
    ASSUME PaymentsSafe, NEW b \in Batches, batch[b] \in Open, NEW o \in Members(b)
    PROVE  /\ o \in Orders /\ status[o] = "PENDING_PAYMENT" /\ claim[o] \in {"NONE", "REJECTED"}
           /\ debit[o] = 0 /\ refund[o] = 0 /\ owed[o] = 0 /\ share[o] <= Amount[o]
<1>1. o \in Orders /\ settlement[o] = b
  BY DEF Members
<1>2. OrderSafe(o)
  BY <1>1, SafeParts
<1>3. Managed(o)
  BY <1>1 DEF Managed
<1> QED  BY <1>1, <1>2, <1>3 DEF OrderSafe, OneWay, Funded, OrderFits

LEMMA ReportSettlementPaymentSafe ==
    ASSUME PaymentsSafe, NEW b \in Batches, ReportSettlementPayment(b)
    PROVE  PaymentsSafe'
<1> USE DEF walletVars, shareVars, refundVars
<1>1. TypeOK /\ (\A c \in Batches : BatchSafe(c)) /\ HeldFen <= balance /\ Books
  BY SafeParts
<1>2. PICK now \in Instants :
        /\ batch[b] = "PENDING_PAYMENT"
        /\ batchClaim' = [batchClaim EXCEPT ![b] = "PENDING"]
        /\ batch' = [batch EXCEPT ![b] = "PAYMENT_REPORTED"]
        /\ reportedAt' = [reportedAt EXCEPT ![b] = now]
        /\ lockExpires' = [o \in Orders |-> IF o \in Members(b) THEN now + ReviewLock ELSE lockExpires[o]]
        /\ UNCHANGED <<clock, status, claim, reserved, shareVars, due, hold, walletVars, refundVars>>
  BY <1>1 DEF ReportSettlementPayment, With, TypeOK
<1>3. TypeOK'
  <2>1. now + ReviewLock \in Times /\ now \in Times
    BY PaymentsAssumption, <1>1 DEF Instants, Times, TypeOK
  <2>2. lockExpires' \in [Orders -> Times] /\ reportedAt' \in [Batches -> Times]
    BY <1>1, <1>2, <2>1 DEF TypeOK
  <2> QED  BY <1>1, <1>2, <2>2 DEF TypeOK, BatchStatus
<1>4. ASSUME NEW x \in Orders
      PROVE  OrderSafe(x)'
  <2>1. \A c \in Batches : /\ batch'[c] = "PAID" <=> batch[c] = "PAID"
                           /\ batch'[c] \in Open => batch[c] \in Open
                           /\ batch'[c] = "NEW" => batch[c] = "NEW"
    BY <1>1, <1>2 DEF TypeOK, Open
  <2> QED  BY <1>2, <2>1, SafeParts, OrderKept
<1>5. ASSUME NEW c \in Batches
      PROVE  BatchSafe(c)'
  <2>1. WalletPart(c)' = WalletPart(c)
    BY <1>2, SharesKept
  <2>2. CASE c = b
    <3>1. batch'[c] = "PAYMENT_REPORTED" /\ batchClaim'[c] = "PENDING"
      BY <1>1, <1>2, <2>2 DEF TypeOK
    <3> QED  BY <1>1, <1>2, <2>1, <2>2, <3>1 DEF BatchSafe, HoldFits, ClaimFits, Open
  <2>3. CASE c # b
    <3>1. batch'[c] = batch[c] /\ batchClaim'[c] = batchClaim[c]
      BY <1>1, <1>2, <2>3 DEF TypeOK
    <3> QED  BY <1>1, <1>2, <2>1, <3>1 DEF BatchSafe, HoldFits, ClaimFits
  <2> QED  BY <2>2, <2>3
<1>6. HeldFen' <= balance' /\ Books'
  BY <1>1, <1>2, SharesKept DEF Books, Sum, Fen
<1> QED  BY <1>3, <1>4, <1>5, <1>6, SafeNext

(* What the wallet holds for a batch is part of what it holds.             *)
LEMMA HeldPart ==
    ASSUME PaymentsSafe, NEW b \in Batches, batch[b] \in Open, UNCHANGED shareVars,
           \A c \in Batches \ {b} : hold'[c] = hold[c], hold'[b] # "ACTIVE"
    PROVE  HeldFen = HeldFen' + WalletPart(b)
<1>1. /\ TypeOK /\ HoldFits(b) /\ settlement' = settlement /\ share' = share
  BY SafeParts DEF BatchSafe, shareVars
<1>2. share \in Amounts /\ share' \in Amounts
  BY <1>1, AmountsType
<1>3. /\ Only(Frozen, share) \in Amounts /\ Only(Frozen', share) \in Amounts
      /\ Only(Members(b), share) \in Amounts
  BY <1>2, OnlyType
<1>4. ASSUME NEW o \in Members(b)
      PROVE  Only(Frozen', share)[o] = 0 /\ Only(Frozen, share)[o] = Only(Members(b), share)[o]
  <2>1. o \in Orders /\ settlement[o] = b /\ o \notin Frozen'
    BY <1>1 DEF Members, Frozen
  <2>2. CASE WalletPart(b) = 0
    <3>1. share[o] = 0
      <4>1. Only(Members(b), share)[o] = 0
        BY <1>3, <2>1, <2>2, SumZero DEF WalletPart
      <4> QED  BY <2>1, <4>1 DEF Only
    <3> QED  BY <2>1, <3>1 DEF Only
  <2>3. CASE WalletPart(b) # 0
    <3>1. hold[b] = "ACTIVE"
      BY <1>1, <2>3, AmountsType DEF HoldFits
    <3>2. o \in Frozen
      BY <2>1, <3>1 DEF Frozen
    <3> QED  BY <2>1, <3>2 DEF Only
  <2> QED  BY <2>2, <2>3
<1>5. ASSUME NEW o \in Orders \ Members(b)
      PROVE  Only(Members(b), share)[o] = 0 /\ Only(Frozen, share)[o] = Only(Frozen', share)[o]
  <2>1. settlement[o] # b
    BY DEF Members
  <2>2. o \in Frozen <=> o \in Frozen'
    BY <1>1, <2>1 DEF Frozen
  <2> QED  BY <2>2 DEF Only
<1>6. \A o \in Orders :
        \/ Only(Frozen', share)[o] = 0 /\ Only(Frozen, share)[o] = Only(Members(b), share)[o]
        \/ Only(Members(b), share)[o] = 0 /\ Only(Frozen, share)[o] = Only(Frozen', share)[o]
  BY <1>4, <1>5
<1>7. Sum(Only(Frozen, share)) = Sum(Only(Frozen', share)) + Sum(Only(Members(b), share))
  BY <1>3, <1>6, SumAdd
<1>8. HeldFen' = Sum(Only(Frozen', share))
  BY <1>1 DEF HeldFen, Only, Sum, Fen
<1> QED  BY <1>7, <1>8 DEF HeldFen, WalletPart

LEMMA ApproveSettlementPaymentSafe ==
    ASSUME PaymentsSafe, NEW b \in Batches, ApproveSettlementPayment(b)
    PROVE  PaymentsSafe'
<1> USE DEF shareVars, refundVars
<1>1. TypeOK /\ (\A o \in Orders : OrderSafe(o)) /\ (\A c \in Batches : BatchSafe(c))
        /\ HeldFen <= balance /\ Books
  BY SafeParts
<1>2. /\ batch[b] = "PAYMENT_REPORTED"
      /\ ConsumeWalletHold(b)
      /\ batchClaim' = [batchClaim EXCEPT ![b] = "APPROVED"]
      /\ status' = [o \in Orders |->
                      IF o \in Members(b) THEN "PAID_PENDING_FULFILLMENT" ELSE status[o]]
      /\ lockExpires' = [o \in Orders |-> IF o \in Members(b) THEN Never ELSE lockExpires[o]]
      /\ batch' = [batch EXCEPT ![b] = "PAID"]
      /\ UNCHANGED <<clock, claim, reserved, shareVars, due, reportedAt, deposits, refund, refundVars>>
  BY <1>1 DEF ApproveSettlementPayment, With, TypeOK
<1>3. batch[b] \in Open
  BY <1>2 DEF Open
<1>4. /\ share \in Amounts /\ debit \in Amounts /\ refund \in Amounts
      /\ Only(Members(b), share) \in Amounts
      /\ WalletPart(b) \in Nat /\ HeldFen \in Nat
      /\ balance \in Nat /\ deposits \in Int /\ MaxBalance \in Nat /\ MaxAmount \in Nat
  BY <1>1, AmountsType, OnlyType, PaymentsAssumption DEF TypeOK
<1>5. /\ balance' = balance - WalletPart(b)
      /\ debit' = [o \in Orders |-> IF o \in Members(b) THEN share[o] ELSE debit[o]]
      /\ hold'[b] # "ACTIVE"
      /\ \A c \in Batches \ {b} : hold'[c] = hold[c]
      /\ hold' \in [Batches -> {"NONE", "ACTIVE", "CONSUMED", "RELEASED"}]
  <2>1. \A o \in Members(b) : debit[o] = 0
    BY <1>3, OpenMembers
  <2>2. CASE WalletPart(b) = 0
    <3>1. UNCHANGED <<hold, balance, debit>>
      BY <1>2, <2>2 DEF ConsumeWalletHold
    <3>2. \A o \in Members(b) : share[o] = 0
      <4> TAKE o \in Members(b)
      <4>1. o \in Orders /\ Only(Members(b), share)[o] = 0
        BY <1>4, <2>2, SumZero DEF WalletPart, Members
      <4> QED  BY <4>1 DEF Only
    <3>3. debit = [o \in Orders |-> IF o \in Members(b) THEN share[o] ELSE debit[o]]
      BY <1>4, <2>1, <3>2 DEF Amounts
    <3>4. hold[b] # "ACTIVE"
      BY <1>1, <2>2 DEF BatchSafe, HoldFits
    <3> QED  BY <1>1, <1>4, <2>2, <3>1, <3>3, <3>4 DEF TypeOK
  <2>3. CASE WalletPart(b) # 0
    <3>1. /\ hold' = [hold EXCEPT ![b] = "CONSUMED"]
          /\ balance' = balance - WalletPart(b)
          /\ debit' = [o \in Orders |->
               IF o \in {x \in Members(b) : share[x] > 0} THEN share[o] ELSE debit[o]]
      BY <1>2, <2>3 DEF ConsumeWalletHold
    <3>2. \A o \in Members(b) : share[o] > 0 \/ share[o] = debit[o]
      <4> TAKE o \in Members(b)
      <4>1. share[o] \in Nat
        BY <1>4 DEF Members, Amounts
      <4> QED  BY <2>1, <4>1
    <3>3. debit' = [o \in Orders |-> IF o \in Members(b) THEN share[o] ELSE debit[o]]
      BY <3>1, <3>2
    <3> QED  BY <1>1, <3>1, <3>3 DEF TypeOK
  <2> QED  BY <2>2, <2>3
<1>6. HeldFen = HeldFen' + WalletPart(b)
  BY <1>2, <1>3, <1>5, HeldPart
<1>7. TypeOK'
  <2>1. /\ status' \in [Orders -> OrderStatus] /\ lockExpires' \in [Orders -> Times]
        /\ batch' \in [Batches -> BatchStatus]
        /\ batchClaim' \in [Batches -> {"NONE", "PENDING", "APPROVED", "REJECTED", "WITHDRAWN"}]
    BY <1>1, <1>2 DEF TypeOK, OrderStatus, BatchStatus, Times
  <2>2. debit' \in [Orders -> 0..MaxAmount]
    BY <1>1, <1>5 DEF TypeOK
  <2>3. HeldFen' \in Nat
    <3>1. share' \in Amounts
      BY <1>2, <1>4
    <3>2. Sum(Only(Frozen', share')) \in Nat
      BY <3>1, OnlyType
    <3> QED  BY <3>2 DEF HeldFen, Sum, Fen, Only
  <2>4. balance' \in 0..MaxBalance
    BY <1>1, <1>4, <1>5, <1>6, <2>3 DEF TypeOK
  <2> QED  BY <1>1, <1>2, <1>5, <2>1, <2>2, <2>4 DEF TypeOK
<1>8. ASSUME NEW x \in Orders
      PROVE  OrderSafe(x)'
  <2>1. CASE x \in Members(b)
    <3>1. /\ settlement[x] = b /\ status[x] = "PENDING_PAYMENT" /\ claim[x] \in {"NONE", "REJECTED"}
          /\ refund[x] = 0 /\ owed[x] = 0 /\ share[x] <= Amount[x]
      BY <1>3, <2>1, OpenMembers DEF Members
    <3>2. /\ status'[x] = "PAID_PENDING_FULFILLMENT" /\ claim'[x] = claim[x]
          /\ settlement'[x] = b /\ batch'[b] = "PAID"
          /\ share'[x] = share[x] /\ debit'[x] = share[x] /\ refund'[x] = 0 /\ owed'[x] = 0
          /\ reserved'[x] = reserved[x]
      BY <1>1, <1>2, <1>5, <2>1, <3>1 DEF TypeOK
    <3>3. ~Managed(x)' /\ PaidByBatch(x)'
      BY <3>2 DEF Managed, PaidByBatch, Open
    <3>4. PaidOffline(x)' = Amount[x] - share[x]
      BY <3>1, <3>2, <3>3 DEF PaidOffline
    <3>5. share[x] \in Int /\ Amount[x] \in Int
      BY <1>4, PaymentsAssumption DEF Amounts
    <3>6. reserved[x]
      BY <1>1, <3>1 DEF OrderSafe, Funded, Placed
    <3> QED  BY <3>1, <3>2, <3>3, <3>4, <3>5, <3>6
             DEF OrderSafe, Funded, OneWay, OrderFits, Placed, Paid
  <2>2. CASE x \notin Members(b)
    <3>1. \A c \in Batches : settlement[x] = c => batch'[c] = batch[c]
      BY <1>1, <1>2, <2>2 DEF TypeOK, Members
    <3> QED  BY <1>1, <1>2, <1>5, <2>2, <3>1, OrderKept
  <2> QED  BY <2>1, <2>2
<1>9. ASSUME NEW c \in Batches
      PROVE  BatchSafe(c)'
  <2>1. WalletPart(c)' = WalletPart(c)
    BY <1>2, SharesKept
  <2>2. CASE c = b
    <3>1. batch'[c] = "PAID" /\ batchClaim'[c] = "APPROVED"
      BY <1>1, <1>2, <2>2 DEF TypeOK
    <3> QED  BY <1>5, <2>2, <3>1 DEF BatchSafe, HoldFits, ClaimFits, Open
  <2>3. CASE c # b
    <3>1. batch'[c] = batch[c] /\ batchClaim'[c] = batchClaim[c] /\ hold'[c] = hold[c]
      BY <1>1, <1>2, <1>5, <2>3 DEF TypeOK
    <3> QED  BY <1>1, <2>1, <3>1 DEF BatchSafe, HoldFits, ClaimFits
  <2> QED  BY <2>2, <2>3
<1>10. HeldFen' <= balance'
  <2>1. HeldFen' = HeldFen - WalletPart(b)
    <3>1. HeldFen' \in Nat
      <4>1. share' \in Amounts
        BY <1>2, <1>4
      <4>2. Sum(Only(Frozen', share')) \in Nat
        BY <4>1, OnlyType
      <4> QED  BY <4>2 DEF HeldFen, Sum, Fen, Only
    <3> QED  BY <1>4, <1>6, <3>1
  <2> QED  BY <1>1, <1>4, <1>5, <2>1
<1>11. Books'
  <2>1. \A o \in Members(b) : debit[o] = 0
    BY <1>3, OpenMembers
  <2>2. \A o \in Orders : \/ debit[o] = 0 /\ debit'[o] = Only(Members(b), share)[o]
                          \/ Only(Members(b), share)[o] = 0 /\ debit'[o] = debit[o]
    BY <1>5, <2>1 DEF Only
  <2>3. debit' \in Amounts
    BY <1>7 DEF TypeOK, Amounts
  <2>4. Sum(debit') = Sum(debit) + WalletPart(b)
    BY <1>4, <2>2, <2>3, SumAdd DEF WalletPart
  <2>5. Sum(debit) \in Nat /\ Sum(refund) \in Nat /\ Sum(refund') = Sum(refund)
    BY <1>2, <1>4, SumNat
  <2>6. balance + Sum(debit) = deposits + Sum(refund)
    BY <1>1 DEF Books
  <2>7. balance' + Sum(debit') = deposits' + Sum(refund')
    BY <1>2, <1>4, <1>5, <2>4, <2>5, <2>6
  <2> QED  BY <2>7 DEF Books, Sum, Fen
<1> QED  BY <1>7, <1>8, <1>9, <1>10, <1>11, SafeNext
-----------------------------------------------------------------------------
(* A batch ends without payment.                                           *)

(* Its orders are closed, its hold is released; the step says by itself    *)
(* what becomes of the claim.                                              *)
LEMMA ReleaseTerminalBatchSafe ==
    ASSUME PaymentsSafe, NEW b \in Batches, batch[b] \in Open,
           NEW orderStatus \in {"CANCELLED", "EXPIRED"},
           NEW batchStatus \in {"WITHDRAWN", "REJECTED", "EXPIRED"},
           ReleaseTerminalBatch(b, orderStatus, batchStatus),
           batchClaim' \in [Batches -> {"NONE", "PENDING", "APPROVED", "REJECTED", "WITHDRAWN"}],
           batchClaim'[b] # "PENDING",
           \A c \in Batches \ {b} : batchClaim'[c] = batchClaim[c]
    PROVE  PaymentsSafe'
<1> USE DEF shareVars, refundVars, walletVars
<1>1. TypeOK /\ (\A o \in Orders : OrderSafe(o)) /\ (\A c \in Batches : BatchSafe(c))
        /\ HeldFen <= balance /\ Books
  BY SafeParts
<1>2. {o \in Members(b) : status[o] = "PENDING_PAYMENT"} = Members(b)
  BY OpenMembers
<1>3. /\ hold' = [hold EXCEPT ![b] = IF WalletPart(b) > 0 THEN "RELEASED" ELSE hold[b]]
      /\ reserved' = [o \in Orders |-> IF o \in Members(b) THEN FALSE ELSE reserved[o]]
      /\ status' = [o \in Orders |-> IF o \in Members(b) THEN orderStatus ELSE status[o]]
      /\ lockExpires' = [o \in Orders |-> IF o \in Members(b) THEN Never ELSE lockExpires[o]]
      /\ batch' = [batch EXCEPT ![b] = batchStatus]
      /\ UNCHANGED <<clock, claim, shareVars, due, reportedAt, walletVars, refundVars>>
  BY <1>1, <1>2 DEF ReleaseTerminalBatch, With, TypeOK
<1>4. /\ hold'[b] # "ACTIVE" /\ \A c \in Batches \ {b} : hold'[c] = hold[c]
      /\ hold' \in [Batches -> {"NONE", "ACTIVE", "CONSUMED", "RELEASED"}]
  <2>1. WalletPart(b) > 0 \/ hold[b] # "ACTIVE"
    BY <1>1 DEF BatchSafe, HoldFits
  <2> QED  BY <1>1, <1>3, <2>1 DEF TypeOK
<1>5. HeldFen' <= HeldFen
  <2>1. HeldFen = HeldFen' + WalletPart(b)
    BY <1>3, <1>4, HeldPart
  <2>2. WalletPart(b) \in Nat
    BY <1>1, AmountsType
  <2>3. HeldFen' \in Nat
    <3>1. share' \in Amounts
      BY <1>1, <1>3, AmountsType
    <3>2. Sum(Only(Frozen', share')) \in Nat
      BY <3>1, OnlyType
    <3> QED  BY <3>2 DEF HeldFen, Sum, Fen, Only
  <2> QED  BY <2>1, <2>2, <2>3
<1>6. TypeOK'
  <2>1. status' \in [Orders -> OrderStatus] /\ lockExpires' \in [Orders -> Times]
    BY <1>1, <1>3 DEF TypeOK, OrderStatus, Times
  <2>2. batch' \in [Batches -> BatchStatus] /\ reserved' \in [Orders -> BOOLEAN]
    BY <1>1, <1>3 DEF TypeOK, BatchStatus
  <2> QED  BY <1>1, <1>3, <1>4, <2>1, <2>2 DEF TypeOK
<1>7. ASSUME NEW x \in Orders
      PROVE  OrderSafe(x)'
  <2>1. CASE x \in Members(b)
    <3>1. /\ settlement[x] = b /\ claim[x] \in {"NONE", "REJECTED"}
          /\ debit[x] = 0 /\ refund[x] = 0 /\ owed[x] = 0 /\ share[x] <= Amount[x]
      BY <2>1, OpenMembers DEF Members
    <3>2. /\ status'[x] = orderStatus /\ claim'[x] = claim[x] /\ reserved'[x] = FALSE
          /\ settlement'[x] = b /\ batch'[b] = batchStatus
          /\ share'[x] = share[x] /\ debit'[x] = 0 /\ refund'[x] = 0 /\ owed'[x] = 0
      BY <1>1, <1>3, <2>1, <3>1 DEF TypeOK
    <3>3. ~Managed(x)' /\ ~PaidByBatch(x)'
      BY <3>2 DEF Managed, PaidByBatch, Open
    <3>4. PaidOffline(x)' = 0
      BY <3>1, <3>2, <3>3 DEF PaidOffline
    <3> QED  BY <3>1, <3>2, <3>3, <3>4
             DEF OrderSafe, Funded, OneWay, OrderFits, Placed, Paid
  <2>2. CASE x \notin Members(b)
    <3>1. \A c \in Batches : settlement[x] = c => batch'[c] = batch[c]
      BY <1>1, <1>3, <2>2 DEF TypeOK, Members
    <3> QED  BY <1>1, <1>3, <2>2, <3>1, OrderKept
  <2> QED  BY <2>1, <2>2
<1>8. ASSUME NEW c \in Batches
      PROVE  BatchSafe(c)'
  <2>1. WalletPart(c)' = WalletPart(c)
    BY <1>3, SharesKept
  <2>2. CASE c = b
    <3>1. batch'[c] = batchStatus
      BY <1>1, <1>3, <2>2 DEF TypeOK
    <3> QED  BY <1>4, <2>2, <3>1 DEF BatchSafe, HoldFits, ClaimFits, Open
  <2>3. CASE c # b
    <3>1. batch'[c] = batch[c] /\ batchClaim'[c] = batchClaim[c] /\ hold'[c] = hold[c]
      BY <1>1, <1>3, <1>4, <2>3 DEF TypeOK
    <3> QED  BY <1>1, <2>1, <3>1 DEF BatchSafe, HoldFits, ClaimFits
  <2> QED  BY <2>2, <2>3
<1>9. HeldFen' <= balance'
  <2>1. balance' = balance /\ balance \in Int /\ HeldFen \in Int /\ HeldFen' \in Int
    <3>1. share' \in Amounts
      BY <1>1, <1>3, AmountsType
    <3>2. Sum(Only(Frozen', share')) \in Nat
      BY <3>1, OnlyType
    <3>3. HeldFen' \in Nat
      BY <3>2 DEF HeldFen, Sum, Fen, Only
    <3> QED  BY <1>1, <1>3, <3>3, AmountsType, PaymentsAssumption DEF TypeOK
  <2> QED  BY <1>1, <1>5, <2>1
<1>10. Books'
  BY <1>1, <1>3 DEF Books, Sum, Fen
<1> QED  BY <1>6, <1>7, <1>8, <1>9, <1>10, SafeNext

(* The four ways a batch ends without payment.                             *)
LEMMA EndBatchSafe ==
    ASSUME PaymentsSafe, NEW b \in Batches,
           \/ RejectSettlementPayment(b) \/ WithdrawSettlementPayment(b)
           \/ ExpireReportedBatch(b) \/ ExpireUnreportedBatch(b)
    PROVE  PaymentsSafe'
<1>1. TypeOK /\ ClaimFits(b)
  BY SafeParts DEF BatchSafe
<1>2. CASE RejectSettlementPayment(b)
  <2>1. /\ batch[b] \in Open /\ batchClaim' = [batchClaim EXCEPT ![b] = "REJECTED"]
        /\ ReleaseTerminalBatch(b, "CANCELLED", "REJECTED")
    BY <1>2 DEF RejectSettlementPayment, Open
  <2>2. /\ batchClaim' \in [Batches -> {"NONE", "PENDING", "APPROVED", "REJECTED", "WITHDRAWN"}]
        /\ batchClaim'[b] # "PENDING" /\ \A c \in Batches \ {b} : batchClaim'[c] = batchClaim[c]
    BY <1>1, <2>1 DEF TypeOK
  <2> QED  BY <2>1, <2>2, ReleaseTerminalBatchSafe
<1>3. CASE WithdrawSettlementPayment(b)
  <2>1. /\ batch[b] \in Open /\ batchClaim' = [batchClaim EXCEPT ![b] = "WITHDRAWN"]
        /\ ReleaseTerminalBatch(b, "CANCELLED", "WITHDRAWN")
    BY <1>3 DEF WithdrawSettlementPayment, Open
  <2>2. /\ batchClaim' \in [Batches -> {"NONE", "PENDING", "APPROVED", "REJECTED", "WITHDRAWN"}]
        /\ batchClaim'[b] # "PENDING" /\ \A c \in Batches \ {b} : batchClaim'[c] = batchClaim[c]
    BY <1>1, <2>1 DEF TypeOK
  <2> QED  BY <2>1, <2>2, ReleaseTerminalBatchSafe
<1>4. CASE ExpireReportedBatch(b)
  <2>1. /\ batch[b] \in Open /\ batchClaim' = [batchClaim EXCEPT ![b] = "REJECTED"]
        /\ ReleaseTerminalBatch(b, "EXPIRED", "EXPIRED")
    BY <1>4 DEF ExpireReportedBatch, ReviewDeadlinePassed, Open
  <2>2. /\ batchClaim' \in [Batches -> {"NONE", "PENDING", "APPROVED", "REJECTED", "WITHDRAWN"}]
        /\ batchClaim'[b] # "PENDING" /\ \A c \in Batches \ {b} : batchClaim'[c] = batchClaim[c]
    BY <1>1, <2>1 DEF TypeOK
  <2> QED  BY <2>1, <2>2, ReleaseTerminalBatchSafe
<1>5. CASE ExpireUnreportedBatch(b)
  <2>1. /\ batch[b] = "PENDING_PAYMENT" /\ batchClaim' = batchClaim
        /\ ReleaseTerminalBatch(b, "EXPIRED", "EXPIRED")
    BY <1>5 DEF ExpireUnreportedBatch
  <2>2. batch[b] \in Open /\ batchClaim[b] # "PENDING"
    BY <1>1, <2>1 DEF ClaimFits, Open
  <2>3. /\ batchClaim' \in [Batches -> {"NONE", "PENDING", "APPROVED", "REJECTED", "WITHDRAWN"}]
        /\ batchClaim'[b] # "PENDING" /\ \A c \in Batches \ {b} : batchClaim'[c] = batchClaim[c]
    BY <1>1, <2>1, <2>2 DEF TypeOK
  <2> QED  BY <2>1, <2>2, <2>3, ReleaseTerminalBatchSafe
<1> QED  BY <1>2, <1>3, <1>4, <1>5

-----------------------------------------------------------------------------
(* Cancelling an order.                                                    *)

(* Invalidating the batch of o releases its hold, and makes no batch paid  *)
(* or open.                                                                *)
LEMMA PrepareSettlementSafe ==
    ASSUME PaymentsSafe, NEW o \in Orders, PrepareSettlement(o), UNCHANGED shareVars
    PROVE  /\ batch' \in [Batches -> BatchStatus]
           /\ hold' \in [Batches -> {"NONE", "ACTIVE", "CONSUMED", "RELEASED"}]
           /\ UNCHANGED <<due, reportedAt, batchClaim>>
           /\ \A c \in Batches : BatchSafe(c)'
           /\ \A c \in Batches : /\ batch'[c] = "PAID" <=> batch[c] = "PAID"
                                 /\ batch'[c] \in Open => batch[c] \in Open
                                 /\ batch'[c] = "NEW" => batch[c] = "NEW"
           /\ ~Managed(o)' /\ (PaidByBatch(o)' <=> PaidByBatch(o))
           /\ HeldFen' \in Nat /\ HeldFen' <= HeldFen
<1> DEFINE invalid == {b \in Batches : settlement[o] = b /\ batch[b] = "PENDING_PAYMENT"}
<1>1. /\ TypeOK /\ (\A c \in Batches : BatchSafe(c)) /\ settlement' = settlement /\ share' = share
  BY SafeParts DEF shareVars
<1>2. /\ \A b \in Batches : settlement[o] = b => batch[b] # "PAYMENT_REPORTED"
      /\ batch' = [c \in Batches |-> IF c \in invalid THEN "CANCELLED" ELSE batch[c]]
      /\ hold' = [c \in Batches |->
                    IF c \in {b \in invalid : WalletPart(b) > 0} THEN "RELEASED" ELSE hold[c]]
      /\ UNCHANGED <<due, reportedAt, batchClaim>>
  BY <1>1 DEF PrepareSettlement, With, TypeOK
<1>3. ASSUME NEW c \in Batches
      PROVE  /\ c \in invalid => /\ batch[c] = "PENDING_PAYMENT" /\ batch'[c] = "CANCELLED"
                                 /\ hold'[c] # "ACTIVE"
             /\ c \notin invalid => batch'[c] = batch[c] /\ hold'[c] = hold[c]
  <2>1. WalletPart(c) > 0 \/ hold[c] # "ACTIVE"
    BY <1>1 DEF BatchSafe, HoldFits
  <2> QED  BY <1>2, <2>1
<1>4. /\ batch' \in [Batches -> BatchStatus]
      /\ hold' \in [Batches -> {"NONE", "ACTIVE", "CONSUMED", "RELEASED"}]
  BY <1>1, <1>2 DEF TypeOK, BatchStatus
<1>5. ASSUME NEW c \in Batches
      PROVE  BatchSafe(c)'
  <2>1. WalletPart(c)' = WalletPart(c)
    BY <1>1, SharesKept DEF shareVars
  <2> QED  BY <1>1, <1>2, <1>3, <2>1 DEF BatchSafe, HoldFits, ClaimFits, Open
<1>6. \A c \in Batches : /\ batch'[c] = "PAID" <=> batch[c] = "PAID"
                         /\ batch'[c] \in Open => batch[c] \in Open
                         /\ batch'[c] = "NEW" => batch[c] = "NEW"
  BY <1>3 DEF Open
<1>7. ~Managed(o)' /\ (PaidByBatch(o)' <=> PaidByBatch(o))
  <2>1. PaidByBatch(o)' <=> PaidByBatch(o)
    BY <1>1, <1>6 DEF PaidByBatch
  <2>2. ASSUME NEW c \in Batches, settlement[o] = c
        PROVE  batch'[c] \notin Open
    BY <1>2, <1>3, <2>2 DEF Open
  <2> QED  BY <1>1, <2>1, <2>2 DEF Managed
<1>8. HeldFen' \in Nat /\ HeldFen' <= HeldFen
  <2> HIDE DEF invalid
  <2>1. Frozen' \subseteq Frozen
    BY <1>1, <1>3 DEF Frozen
  <2>2. share \in Amounts /\ Only(Frozen, share) \in Amounts /\ Only(Frozen', share) \in Amounts
    BY <1>1, AmountsType, OnlyType
  <2>3. \A x \in Orders : Only(Frozen', share)[x] <= Only(Frozen, share)[x]
    <3> TAKE x \in Orders
    <3>1. share[x] \in Nat
      BY <2>2, PaymentsAssumption DEF Amounts
    <3> QED  BY <2>1, <3>1 DEF Only
  <2>4. Sum(Only(Frozen', share)) \in Nat /\ Sum(Only(Frozen', share)) <= Sum(Only(Frozen, share))
    BY <2>2, <2>3, SumMonotone, SumNat
  <2>5. HeldFen' = Sum(Only(Frozen', share))
    BY <1>1 DEF HeldFen, Only, Sum, Fen
  <2> QED  BY <2>4, <2>5 DEF HeldFen
<1> QED  BY <1>2, <1>4, <1>5, <1>6, <1>7, <1>8

LEMMA CancelUnpaidOrderSafe ==
    ASSUME PaymentsSafe, NEW o \in Orders, CancelUnpaidOrder(o)
    PROVE  PaymentsSafe'
<1> USE DEF shareVars, walletVars
<1>1. TypeOK /\ (\A x \in Orders : OrderSafe(x)) /\ HeldFen <= balance /\ Books
  BY SafeParts
<1>2. /\ status[o] = "PENDING_PAYMENT"
      /\ PrepareSettlement(o)
      /\ reserved' = [reserved EXCEPT ![o] = FALSE]
      /\ claim' = [claim EXCEPT ![o] = IF claim[o] = "PENDING" THEN "REJECTED" ELSE claim[o]]
      /\ status' = [status EXCEPT ![o] = "CANCELLED"]
      /\ lockExpires' = [lockExpires EXCEPT ![o] = Never]
      /\ adjustment' = [adjustment EXCEPT ![o] = "NOT_PAID"]
      /\ UNCHANGED <<clock, shareVars, walletVars, owed>>
  BY DEF CancelUnpaidOrder, CloseOrder
<1>3. /\ batch' \in [Batches -> BatchStatus]
      /\ hold' \in [Batches -> {"NONE", "ACTIVE", "CONSUMED", "RELEASED"}]
      /\ UNCHANGED <<due, reportedAt, batchClaim>>
      /\ \A c \in Batches : BatchSafe(c)'
      /\ \A c \in Batches : /\ batch'[c] = "PAID" <=> batch[c] = "PAID"
                            /\ batch'[c] \in Open => batch[c] \in Open
                            /\ batch'[c] = "NEW" => batch[c] = "NEW"
      /\ ~Managed(o)' /\ (PaidByBatch(o)' <=> PaidByBatch(o))
      /\ HeldFen' \in Nat /\ HeldFen' <= HeldFen
  BY <1>2, PrepareSettlementSafe
<1>4. TypeOK'
  <2>1. /\ status' \in [Orders -> OrderStatus] /\ lockExpires' \in [Orders -> Times]
        /\ claim' \in [Orders -> {"NONE", "PENDING", "APPROVED", "REJECTED"}]
        /\ reserved' \in [Orders -> BOOLEAN]
        /\ adjustment' \in [Orders -> {"NONE", "NOT_PAID", "PENDING_OFFLINE", "COMPLETED"}]
    BY <1>1, <1>2 DEF TypeOK, OrderStatus, Times
  <2> QED  BY <1>1, <1>2, <1>3, <2>1 DEF TypeOK
<1>5. OrderSafe(o)'
  <2>1. ~PaidByBatch(o) /\ claim[o] # "APPROVED"
    <3>1. ~PaidByBatch(o) /\ PaidOffline(o) = 0
      BY <1>1, <1>2 DEF OrderSafe, OrderFits, Funded, Paid
    <3> QED  BY <3>1, PaymentsAssumption DEF PaidOffline
  <2>2. /\ status'[o] = "CANCELLED" /\ claim'[o] # "APPROVED" /\ claim'[o] # "PENDING"
        /\ reserved'[o] = FALSE /\ settlement'[o] = settlement[o]
        /\ share'[o] = share[o] /\ debit'[o] = 0 /\ refund'[o] = 0 /\ owed'[o] = 0
    BY <1>1, <1>2, <2>1 DEF OrderSafe, Funded, TypeOK
  <2>3. PaidOffline(o)' = 0
    BY <1>3, <2>1, <2>2 DEF PaidOffline
  <2> QED  BY <1>1, <1>3, <2>1, <2>2, <2>3
           DEF OrderSafe, Funded, OneWay, OrderFits, Placed, Paid
<1>6. ASSUME NEW x \in Orders, x # o
      PROVE  OrderSafe(x)'
  BY ZenonT(40), <1>1, <1>2, <1>3, <1>6, OrderKept DEF TypeOK
<1>7. HeldFen' <= balance'
  <2>1. balance' = balance /\ balance \in Int /\ HeldFen \in Int
    BY <1>1, <1>2, AmountsType, PaymentsAssumption DEF TypeOK
  <2> QED  BY <1>1, <1>3, <2>1
<1>8. Books'
  BY <1>1, <1>2 DEF Books, Sum, Fen
<1> QED  BY <1>3, <1>4, <1>5, <1>6, <1>7, <1>8, SafeNext

(* The wallet's part grows with what is cancelled, by no more than that.   *)
LEMMA TargetIsQuotient ==
    ASSUME NEW total \in Nat, total > 0, NEW paid \in 0..total, NEW c \in 0..total
    PROVE  /\ WalletTarget(c, total, paid) \in Nat
           /\ total * WalletTarget(c, total, paid) <= c * paid
           /\ c * paid < total * WalletTarget(c, total, paid) + total
<1>1. c * paid \in Nat
  OBVIOUS
<1>2. CASE c = total
  <2>1. WalletTarget(c, total, paid) = paid
    BY <1>2 DEF WalletTarget
  <2>2. total * paid < total * paid + total
    OBVIOUS
  <2> QED  BY <1>2, <2>1, <2>2
<1>3. CASE c # total
  <2>1. WalletTarget(c, total, paid) = (c * paid) \div total
    BY <1>3 DEF WalletTarget
  <2> QED  BY <1>1, <2>1, Quotient
<1> QED  BY <1>2, <1>3

(* However the packages of a paid order are cancelled one after another,   *)
(* each of them gets its target less the target of those before it, which  *)
(* divides its price into a part for the wallet and a part owed offline,   *)
(* neither of them negative (the code's error never occurs); and when all  *)
(* packages are cancelled the wallet has got back exactly what it had paid *)
(* (package-cancellation-adjustment.ts).                                   *)
THEOREM PackageRefundsFit ==
    ASSUME NEW total \in Nat, total > 0, NEW paid \in 0..total,
           NEW cancelled \in 0..total, NEW prior \in 0..cancelled
    PROVE  /\ WalletTarget(cancelled, total, paid) - WalletTarget(prior, total, paid)
                 \in 0..(cancelled - prior)
           /\ WalletTarget(0, total, paid) = 0
           /\ WalletTarget(total, total, paid) = paid
<1> DEFINE now  == WalletTarget(cancelled, total, paid)
           then == WalletTarget(prior, total, paid)
           more == cancelled - prior
<1>1. /\ now \in Nat /\ total * now <= cancelled * paid /\ cancelled * paid < total * now + total
      /\ then \in Nat /\ total * then <= prior * paid /\ prior * paid < total * then + total
  BY TargetIsQuotient
<1>2. cancelled \in Nat /\ prior \in Nat /\ paid \in Nat /\ more \in Nat /\ cancelled = prior + more
  OBVIOUS
<1>3. WalletTarget(total, total, paid) = paid
  BY DEF WalletTarget
<1>4. WalletTarget(0, total, paid) = 0
  <2>1. 0 * paid = 0 /\ 0 \div total = 0
    OBVIOUS
  <2> QED  BY <2>1 DEF WalletTarget
<1> HIDE DEF now, then, more
<1>5. cancelled * paid = prior * paid + more * paid /\ prior * paid \in Nat /\ more * paid \in Nat
  BY <1>2
<1>6. more * paid <= more * total
  <2>1. total - paid \in Nat /\ more * total = more * paid + more * (total - paid)
    BY <1>2
  <2>2. more * (total - paid) \in Nat
    BY <1>2, <2>1
  <2> QED  BY <1>5, <2>1, <2>2
<1>7. now < then + more + 1
  <2>1. total * (then + more + 1) = total * then + more * total + total
    BY <1>1, <1>2
  <2>2. /\ total * now \in Nat /\ total * then \in Nat /\ more * total \in Nat
        /\ cancelled * paid \in Nat
    BY <1>1, <1>2
  <2>3. total * now < total * (then + more + 1)
    BY <1>1, <1>5, <1>6, <2>1, <2>2
  <2> QED  BY <1>1, <1>2, <2>3, ProductLess
<1>8. then < now + 1
  <2>1. total * (now + 1) = total * now + total
    BY <1>1
  <2>2. total * now \in Nat /\ total * then \in Nat
    BY <1>1
  <2>3. total * then < total * (now + 1)
    BY <1>1, <1>5, <2>1, <2>2
  <2> QED  BY <1>1, <2>3, ProductLess
<1>9. now - then \in 0..more
  BY <1>1, <1>2, <1>7, <1>8
<1> QED  BY <1>3, <1>4, <1>9 DEF now, then, more

LEMMA CancelPaidOrderSafe ==
    ASSUME PaymentsSafe, NEW o \in Orders, CancelPaidOrder(o)
    PROVE  PaymentsSafe'
<1> USE DEF shareVars
<1>1. TypeOK /\ (\A x \in Orders : OrderSafe(x)) /\ HeldFen <= balance /\ Books
  BY SafeParts
<1>2. /\ status[o] = "PAID_PENDING_FULFILLMENT"
      /\ PrepareSettlement(o)
      /\ balance + WalletRefund(o) <= MaxBalance
      /\ reserved' = [reserved EXCEPT ![o] = FALSE]
      /\ claim' = [claim EXCEPT ![o] = IF claim[o] = "PENDING" THEN "REJECTED" ELSE claim[o]]
      /\ status' = [status EXCEPT ![o] = "CANCELLED"]
      /\ lockExpires' = [lockExpires EXCEPT ![o] = Never]
      /\ balance' = balance + WalletRefund(o)
      /\ refund' = [refund EXCEPT ![o] = WalletRefund(o)]
      /\ owed' = [owed EXCEPT ![o] = Amount[o] - WalletRefund(o)]
      /\ adjustment' = [adjustment EXCEPT ![o] = IF WalletRefund(o) < Amount[o]
                                                 THEN "PENDING_OFFLINE" ELSE "COMPLETED"]
      /\ UNCHANGED <<clock, shareVars, deposits, debit>>
  BY DEF CancelPaidOrder, CloseOrder
<1>3. /\ batch' \in [Batches -> BatchStatus]
      /\ hold' \in [Batches -> {"NONE", "ACTIVE", "CONSUMED", "RELEASED"}]
      /\ UNCHANGED <<due, reportedAt, batchClaim>>
      /\ \A c \in Batches : BatchSafe(c)'
      /\ \A c \in Batches : /\ batch'[c] = "PAID" <=> batch[c] = "PAID"
                            /\ batch'[c] \in Open => batch[c] \in Open
                            /\ batch'[c] = "NEW" => batch[c] = "NEW"
      /\ ~Managed(o)' /\ (PaidByBatch(o)' <=> PaidByBatch(o))
      /\ HeldFen' \in Nat /\ HeldFen' <= HeldFen
  BY <1>2, PrepareSettlementSafe
<1>4. WalletRefund(o) = debit[o]
  BY <1>1 DEF WalletRefund, WalletTarget, WalletPaid, OrderSafe, OrderFits
<1>5. /\ debit[o] \in 0..MaxAmount /\ MaxAmount \in Nat /\ Amount[o] \in 1..MaxAmount
      /\ balance \in Nat /\ deposits \in Int /\ MaxBalance \in Nat
      /\ share[o] \in 0..MaxAmount
  BY <1>1, PaymentsAssumption DEF TypeOK
<1>6. /\ debit[o] + PaidOffline(o) = Amount[o] /\ refund[o] = 0
      /\ claim[o] # "PENDING" /\ share[o] <= Amount[o]
  BY <1>1, <1>2 DEF OrderSafe, Funded, OneWay, OrderFits, Paid
<1>7. PaidOffline(o) \in Nat
  BY <1>5, <1>6 DEF PaidOffline
<1>8. Amount[o] - debit[o] = PaidOffline(o) /\ PaidOffline(o) \in 0..MaxAmount
  BY <1>5, <1>6, <1>7
<1>9. TypeOK'
  <2>1. /\ status' \in [Orders -> OrderStatus] /\ lockExpires' \in [Orders -> Times]
        /\ claim' \in [Orders -> {"NONE", "PENDING", "APPROVED", "REJECTED"}]
        /\ reserved' \in [Orders -> BOOLEAN]
        /\ adjustment' \in [Orders -> {"NONE", "NOT_PAID", "PENDING_OFFLINE", "COMPLETED"}]
    BY <1>1, <1>2 DEF TypeOK, OrderStatus, Times
  <2>2. refund' \in [Orders -> 0..MaxAmount] /\ owed' \in [Orders -> 0..MaxAmount]
    BY <1>1, <1>2, <1>4, <1>5, <1>8 DEF TypeOK
  <2>3. balance' \in 0..MaxBalance
    BY <1>2, <1>4, <1>5
  <2> QED  BY <1>1, <1>2, <1>3, <2>1, <2>2, <2>3 DEF TypeOK
<1>10. OrderSafe(o)'
  <2>1. /\ status'[o] = "CANCELLED" /\ claim'[o] = claim[o] /\ reserved'[o] = FALSE
        /\ settlement'[o] = settlement[o] /\ share'[o] = share[o] /\ debit'[o] = debit[o]
        /\ refund'[o] = debit[o] /\ owed'[o] = PaidOffline(o)
    BY <1>1, <1>2, <1>4, <1>6, <1>8 DEF TypeOK
  <2>2. PaidOffline(o)' = PaidOffline(o)
    BY <1>3, <2>1 DEF PaidOffline
  <2> QED  BY <1>1, <1>3, <1>6, <2>1, <2>2
           DEF OrderSafe, Funded, OneWay, OrderFits, Placed, Paid
<1>11. ASSUME NEW x \in Orders, x # o
       PROVE  OrderSafe(x)'
  BY ZenonT(40), <1>1, <1>2, <1>3, <1>11, OrderKept DEF TypeOK
<1>12. HeldFen' <= balance'
  <2>1. HeldFen \in Int
    BY <1>1, AmountsType
  <2> QED  BY <1>1, <1>2, <1>3, <1>4, <1>5, <2>1
<1>13. Books'
  <2>1. debit \in Amounts /\ refund \in Amounts
    BY <1>1, AmountsType
  <2>2. Sum(refund') = Sum(refund) + debit[o]
    BY <1>2, <1>4, <1>5, <1>6, <2>1, SumChanged
  <2>3. Sum(debit) \in Nat /\ Sum(refund) \in Nat /\ Sum(debit') = Sum(debit)
    BY <1>2, <2>1, SumNat
  <2>4. balance + Sum(debit) = deposits + Sum(refund)
    BY <1>1 DEF Books
  <2>5. balance' + Sum(debit') = deposits' + Sum(refund')
    BY <1>2, <1>4, <1>5, <2>2, <2>3, <2>4
  <2> QED  BY <2>5 DEF Books, Sum, Fen
<1> QED  BY <1>3, <1>9, <1>10, <1>11, <1>12, <1>13, SafeNext

-----------------------------------------------------------------------------
(* The invariant.                                                          *)

LEMMA InitSafe == Init => PaymentsSafe
<1> SUFFICES ASSUME Init PROVE PaymentsSafe
  OBVIOUS
<1>1. 0 \in 0..MaxAmount /\ 0 \in 0..MaxBalance /\ 0 \in 0..MaxTime /\ NoAmounts \in Amounts
  BY PaymentsAssumption DEF NoAmounts, Amounts
<1>2. TypeOK
  BY <1>1 DEF Init, TypeOK, OrderStatus, BatchStatus, Times, NoAmounts
<1>3. ASSUME NEW o \in Orders
      PROVE  OrderSafe(o)
  <2>1. ~PaidByBatch(o) /\ ~Managed(o)
    BY PaymentsAssumption DEF Init, PaidByBatch, Managed
  <2>2. PaidOffline(o) = 0
    BY <2>1 DEF Init, PaidOffline
  <2>3. share[o] = 0 /\ Amount[o] \in Int /\ 0 <= Amount[o]
    BY PaymentsAssumption DEF Init, NoAmounts
  <2> QED  BY <2>1, <2>2, <2>3, PaymentsAssumption
           DEF Init, NoAmounts, OrderSafe, Funded, OneWay, OrderFits, Paid, Placed
<1>4. \A b \in Batches : BatchSafe(b)
  BY DEF Init, BatchSafe, HoldFits, ClaimFits, Open
<1>5. Sum(NoAmounts) = 0
  BY <1>1, SumZero DEF NoAmounts
<1>6. HeldFen = 0
  <2>1. Only(Frozen, share) = NoAmounts
    BY DEF Init, Only, NoAmounts
  <2> QED  BY <1>5, <2>1 DEF HeldFen
<1>7. HeldFen <= balance /\ Books
  BY <1>5, <1>6 DEF Init, Books
<1> QED  BY <1>2, <1>3, <1>4, <1>7, SafeParts

LEMMA NextSafe == PaymentsSafe /\ [Next]_vars => PaymentsSafe'
<1> SUFFICES ASSUME PaymentsSafe, [Next]_vars PROVE PaymentsSafe'
  OBVIOUS
<1>1. ASSUME NEW o \in Orders, OrderStep(o) PROVE PaymentsSafe'
  BY <1>1, SubmitPaidFromWalletSafe, SubmitUnpaidSafe, DeclareOfflinePaymentSafe,
     ApproveOfflinePaymentSafe, RejectOfflinePaymentSafe, ExpireOrderSafe,
     CancelUnpaidOrderSafe, CancelPaidOrderSafe, CompleteOfflineRefundSafe,
     StartFulfillmentSafe DEF OrderStep
<1>2. ASSUME NEW b \in Batches, BatchStep(b) PROVE PaymentsSafe'
  BY <1>2, SubmitBulkPaidSafe, SubmitBulkUnpaidSafe, ReportSettlementPaymentSafe,
     ApproveSettlementPaymentSafe, EndBatchSafe DEF BatchStep
<1> QED  BY <1>1, <1>2, AdjustWalletBalanceSafe, TickSafe, UnchangedSafe DEF Next

(* The payments are safe in every state: PaymentsSafe, the conjunction of  *)
(* what the runs check and of how an order and its batch fit together.     *)
THEOREM PaymentsStaySafe == Spec => []PaymentsSafe
BY InitSafe, NextSafe, PTL DEF Spec

(* Whatever wallet, claim and batch do, and in whatever order: an order    *)
(* is paid exactly once before it goes to the warehouse, and refunded as   *)
(* it was paid.                                                            *)
THEOREM OrdersFundedOnce == Spec => []FundedOnce
<1>1. PaymentsSafe => FundedOnce
  BY DEF PaymentsSafe
<1> QED  BY <1>1, PaymentsStaySafe, PTL

(* An order is never waiting for two payments at a time, its own and that  *)
(* of its batch, and every pending claim is about something unpaid.        *)
THEOREM AlwaysOneWayToPay == Spec => []OneWayToPay
<1>1. PaymentsSafe => OneWayToPay
  BY DEF PaymentsSafe
<1> QED  BY <1>1, PaymentsStaySafe, PTL

(* The wallet always covers its holds, and its balance is what its         *)
(* transactions add up to.                                                 *)
THEOREM BooksAlwaysBalance == Spec => []BooksBalance
<1>1. PaymentsSafe => BooksBalance
  BY DEF PaymentsSafe
<1> QED  BY <1>1, PaymentsStaySafe, PTL

-----------------------------------------------------------------------------
(* The promise.                                                            *)

(* While the payments are safe, the stage of an order tells how much is    *)
(* kept for it and whether it holds stock.                                 *)
LEMMA KeptByStage ==
    PaymentsSafe => \A o \in Orders :
      /\ Kept(o) = IF Stage(o) = "paid" THEN Amount[o] ELSE 0
      /\ reserved[o] = (Stage(o) \in {"open", "paid"})
<1> SUFFICES ASSUME PaymentsSafe, NEW o \in Orders
             PROVE  /\ Kept(o) = IF Stage(o) = "paid" THEN Amount[o] ELSE 0
                    /\ reserved[o] = (Stage(o) \in {"open", "paid"})
  OBVIOUS
<1>1. TypeOK /\ Funded(o) /\ share[o] <= Amount[o]
  BY SafeParts DEF OrderSafe, OrderFits
<1>2. /\ debit[o] \in Int /\ refund[o] \in Int /\ owed[o] \in Int /\ share[o] \in Int
      /\ Amount[o] \in Int /\ status[o] \in OrderStatus /\ reserved[o] \in BOOLEAN
  BY <1>1, PaymentsAssumption DEF TypeOK
<1>3. PaidOffline(o) \in Int
  BY <1>2 DEF PaidOffline
<1>4. CASE status[o] \in Paid
  <2>1. Stage(o) = "paid"
    BY <1>4 DEF Stage, Paid
  <2> QED  BY <1>1, <1>2, <1>3, <1>4, <2>1 DEF Funded, Kept, Placed
<1>5. CASE status[o] \in {"NEW", "PENDING_PAYMENT", "EXPIRED"}
  <2>1. /\ Stage(o) \in {"new", "open", "closed"}
        /\ Stage(o) = "open" <=> status[o] = "PENDING_PAYMENT"
    BY <1>5 DEF Stage, Paid
  <2>2. Kept(o) = 0
    BY <1>1, <1>5 DEF Funded, Kept
  <2> QED  BY <1>1, <1>2, <1>5, <2>1, <2>2 DEF Funded, Placed, Paid
<1>6. CASE status[o] = "CANCELLED"
  <2>1. Stage(o) = "closed"
    BY <1>6 DEF Stage, Paid
  <2>2. Kept(o) = 0
    BY <1>1, <1>2, <1>3, <1>6 DEF Funded, Kept
  <2> QED  BY <1>1, <1>2, <1>6, <2>1, <2>2 DEF Funded, Placed, Paid
<1> QED  BY <1>2, <1>4, <1>5, <1>6 DEF OrderStatus, Paid

(* So a step is one of the promise as soon as the stages move like one.    *)
LEMMA MoveStages ==
    ASSUME PaymentsSafe, PaymentsSafe', NEW S \in SUBSET Orders,
           NEW from, NEW to \in {"open", "paid", "closed"},
           \A o \in S : Stage(o) \in from /\ Stage(o)' = to,
           \A o \in Orders \ S : Stage(o)' = Stage(o)
    PROVE  Promise!Move(S, from, to)
<1>1. \A o \in Orders :
        /\ Kept(o) = IF Stage(o) = "paid" THEN Amount[o] ELSE 0
        /\ reserved[o] = (Stage(o) \in {"open", "paid"})
  BY KeptByStage
<1>2. \A o \in Orders :
        /\ Kept(o)' = IF Stage(o)' = "paid" THEN Amount[o] ELSE 0
        /\ reserved'[o] = (Stage(o)' \in {"open", "paid"})
  <2>1. (PaymentsSafe => \A o \in Orders :
          /\ Kept(o) = IF Stage(o) = "paid" THEN Amount[o] ELSE 0
          /\ reserved[o] = (Stage(o) \in {"open", "paid"}))'
    BY KeptByStage, PTL
  <2> QED  BY <2>1
<1>3. reserved' \in [Orders -> BOOLEAN]
  <2>1. TypeOK'
    BY DEF PaymentsSafe, BooksBalance
  <2> QED  BY <2>1 DEF TypeOK
<1>4. reserved' = [o \in Orders |-> IF o \in S THEN to # "closed" ELSE reserved[o]]
  <2>1. \A o \in Orders : reserved'[o] = IF o \in S THEN to # "closed" ELSE reserved[o]
    BY <1>1, <1>2
  <2> QED  BY <1>3, <2>1
<1>5. [o \in Orders |-> Kept(o)']
        = [o \in Orders |-> IF o \notin S THEN [x \in Orders |-> Kept(x)][o]
                            ELSE IF to = "paid" THEN Amount[o] ELSE 0]
  BY <1>1, <1>2
<1>6. [o \in Orders |-> Stage(o)']
        = [o \in Orders |-> IF o \in S THEN to ELSE [x \in Orders |-> Stage(x)][o]]
  OBVIOUS
<1>7. \A o \in S : [x \in Orders |-> Stage(x)][o] \in from
  OBVIOUS
<1> QED  BY <1>4, <1>5, <1>6, <1>7 DEF Promise!Move

(* The orders S all get the status st.                                     *)
LEMMA SetStatus ==
    ASSUME PaymentsSafe, PaymentsSafe', NEW S \in SUBSET Orders,
           NEW st, status' = With(status, S, st),
           \/ st = "PENDING_PAYMENT" /\ \A o \in S : status[o] = "NEW"
           \/ /\ st = "PAID_PENDING_FULFILLMENT"
              /\ \A o \in S : status[o] \in {"NEW", "PENDING_PAYMENT"}
           \/ /\ st \in {"CANCELLED", "EXPIRED"}
              /\ \A o \in S : status[o] \in {"PENDING_PAYMENT", "PAID_PENDING_FULFILLMENT"}
    PROVE  Promise!PromiseNext
<1>1. TypeOK
  BY SafeParts
<1>2. /\ \A o \in S : status'[o] = st
      /\ \A o \in Orders \ S : Stage(o)' = Stage(o)
  BY <1>1 DEF With, TypeOK, Stage
<1>3. CASE st = "PENDING_PAYMENT" /\ \A o \in S : status[o] = "NEW"
  <2>1. \A o \in S : Stage(o) \in {"new"} /\ Stage(o)' = "open"
    BY <1>2, <1>3 DEF Stage, Paid
  <2>2. Promise!Move(S, {"new"}, "open")
    BY <1>2, <2>1, MoveStages
  <2> QED  BY <2>2 DEF Promise!PromiseNext, Promise!PlaceUnpaid
<1>4. CASE /\ st = "PAID_PENDING_FULFILLMENT"
           /\ \A o \in S : status[o] \in {"NEW", "PENDING_PAYMENT"}
  <2>1. \A o \in S : Stage(o) \in {"new", "open"} /\ Stage(o)' = "paid"
    BY <1>2, <1>4 DEF Stage, Paid
  <2>2. Promise!Move(S, {"new", "open"}, "paid")
    BY <1>2, <2>1, MoveStages
  <2> QED  BY <2>2 DEF Promise!PromiseNext, Promise!Pay
<1>5. CASE /\ st \in {"CANCELLED", "EXPIRED"}
           /\ \A o \in S : status[o] \in {"PENDING_PAYMENT", "PAID_PENDING_FULFILLMENT"}
  <2>1. \A o \in S : Stage(o) \in {"open", "paid"} /\ Stage(o)' = "closed"
    BY <1>2, <1>5 DEF Stage, Paid
  <2>2. Promise!Move(S, {"open", "paid"}, "closed")
    BY <1>2, <2>1, MoveStages
  <2> QED  BY <2>2 DEF Promise!PromiseNext, Promise!Close
<1> QED  BY <1>3, <1>4, <1>5

(* The steps that change no stage keep everything the promise is about.    *)
LEMMA SameStages ==
    ASSUME PaymentsSafe, PaymentsSafe',
           \A o \in Orders : status'[o] = status[o] \/ {status[o], status'[o]} \subseteq Paid
    PROVE  UNCHANGED Promise!promiseVars
<1>1. \A o \in Orders : Stage(o)' = Stage(o)
  BY DEF Stage, Paid
<1>2. Promise!Move({}, {}, "open")
  BY <1>1, MoveStages
<1>3. reserved \in [Orders -> BOOLEAN]
  BY SafeParts DEF TypeOK
<1> QED  BY <1>2, <1>3 DEF Promise!Move, Promise!promiseVars

LEMMA OrderStepKeepsPromise ==
    ASSUME PaymentsSafe, PaymentsSafe', NEW o \in Orders, OrderStep(o)
    PROVE  Promise!PromiseNext \/ UNCHANGED Promise!promiseVars
<1>1. TypeOK
  BY SafeParts
<1>2. ASSUME NEW st, status' = [status EXCEPT ![o] = st]
      PROVE  status' = With(status, {o}, st)
  BY <1>1, <1>2 DEF With, TypeOK
<1>3. CASE SubmitPaidFromWallet(o)
  <2>1. status' = [status EXCEPT ![o] = "PAID_PENDING_FULFILLMENT"] /\ status[o] = "NEW"
    BY <1>3 DEF SubmitPaidFromWallet, Place
  <2> QED  BY <1>2, <2>1, SetStatus
<1>4. CASE SubmitUnpaid(o)
  <2>1. status' = [status EXCEPT ![o] = "PENDING_PAYMENT"] /\ status[o] = "NEW"
    BY <1>4 DEF SubmitUnpaid, Place
  <2> QED  BY <1>2, <2>1, SetStatus
<1>5. CASE ApproveOfflinePayment(o)
  <2>1. status' = [status EXCEPT ![o] = "PAID_PENDING_FULFILLMENT"] /\ status[o] = "PENDING_PAYMENT"
    BY <1>5 DEF ApproveOfflinePayment, ReviewOffline
  <2> QED  BY <1>2, <2>1, SetStatus
<1>6. CASE ExpireOrder(o)
  <2>1. status' = [status EXCEPT ![o] = "EXPIRED"] /\ status[o] = "PENDING_PAYMENT"
    BY <1>6 DEF ExpireOrder
  <2> QED  BY <1>2, <2>1, SetStatus
<1>7. CASE CancelUnpaidOrder(o) \/ CancelPaidOrder(o)
  <2>1. /\ status' = [status EXCEPT ![o] = "CANCELLED"]
        /\ status[o] \in {"PENDING_PAYMENT", "PAID_PENDING_FULFILLMENT"}
    BY <1>7 DEF CancelUnpaidOrder, CancelPaidOrder, CloseOrder
  <2> QED  BY <1>2, <2>1, SetStatus
<1>8. CASE StartFulfillment(o)
  <2>1. \A x \in Orders : status'[x] = status[x] \/ {status[x], status'[x]} \subseteq Paid
    BY <1>1, <1>8 DEF StartFulfillment, TypeOK, Paid
  <2> QED  BY <2>1, SameStages
<1>9. CASE DeclareOfflinePayment(o) \/ RejectOfflinePayment(o) \/ CompleteOfflineRefund(o)
  <2>1. status' = status
    BY <1>9 DEF DeclareOfflinePayment, RejectOfflinePayment, CompleteOfflineRefund, orderVars
  <2> QED  BY <2>1, SameStages
<1> QED  BY <1>3, <1>4, <1>5, <1>6, <1>7, <1>8, <1>9 DEF OrderStep

LEMMA BatchStepKeepsPromise ==
    ASSUME PaymentsSafe, PaymentsSafe', NEW b \in Batches, BatchStep(b)
    PROVE  Promise!PromiseNext \/ UNCHANGED Promise!promiseVars
<1>1. Members(b) \in SUBSET Orders
  BY DEF Members
<1>2. CASE SubmitBulkPaid(b)
  <2>1. PICK S \in SUBSET Orders : /\ status' = With(status, S, "PAID_PENDING_FULFILLMENT")
                                   /\ \A o \in S : status[o] = "NEW"
    BY <1>2 DEF SubmitBulkPaid, CreateBatch, Place
  <2> QED  BY <2>1, SetStatus
<1>3. CASE SubmitBulkUnpaid(b)
  <2>1. PICK S \in SUBSET Orders : /\ status' = With(status, S, "PENDING_PAYMENT")
                                   /\ \A o \in S : status[o] = "NEW"
    BY <1>3, Zenon DEF SubmitBulkUnpaid, CreateBatch, Place
  <2> QED  BY <2>1, SetStatus
<1>4. CASE ReportSettlementPayment(b)
  <2>1. status' = status
    BY <1>4 DEF ReportSettlementPayment
  <2> QED  BY <2>1, SameStages
<1>5. CASE ApproveSettlementPayment(b)
  <2>1. /\ status' = With(status, Members(b), "PAID_PENDING_FULFILLMENT")
        /\ \A o \in Members(b) : status[o] = "PENDING_PAYMENT"
    BY <1>5 DEF ApproveSettlementPayment, AllOrdersPending
  <2> QED  BY <1>1, <2>1, SetStatus
<1>6. ASSUME NEW st \in {"CANCELLED", "EXPIRED"}, NEW bs, ReleaseTerminalBatch(b, st, bs)
      PROVE  Promise!PromiseNext
  <2> DEFINE waiting == {o \in Members(b) : status[o] = "PENDING_PAYMENT"}
  <2>1. status' = With(status, waiting, st)
    BY <1>6 DEF ReleaseTerminalBatch
  <2>2. waiting \in SUBSET Orders /\ \A o \in waiting : status[o] = "PENDING_PAYMENT"
    BY <1>1
  <2> HIDE DEF waiting
  <2> QED  BY <2>1, <2>2, SetStatus
<1>7. CASE RejectSettlementPayment(b) \/ WithdrawSettlementPayment(b)
  <2>1. \E bs \in BatchStatus : ReleaseTerminalBatch(b, "CANCELLED", bs)
    BY <1>7 DEF RejectSettlementPayment, WithdrawSettlementPayment, BatchStatus
  <2> QED  BY <1>6, <2>1
<1>8. CASE ExpireReportedBatch(b) \/ ExpireUnreportedBatch(b)
  <2>1. ReleaseTerminalBatch(b, "EXPIRED", "EXPIRED")
    BY <1>8 DEF ExpireReportedBatch, ExpireUnreportedBatch
  <2> QED  BY <1>6, <2>1
<1> QED  BY <1>2, <1>3, <1>4, <1>5, <1>7, <1>8 DEF BatchStep

(* Payments implements OrderPromise: whatever the wallet, the claims and   *)
(* the batches do, one order after the other is placed, paid in full or    *)
(* closed with all of its money and stock given back.                      *)
THEOREM PromiseKept == Spec => ImplementsPromise
<1>1. Init => Promise!PromiseInit
  <2> SUFFICES ASSUME Init PROVE Promise!PromiseInit
    OBVIOUS
  <2>1. \A o \in Orders : Stage(o) = "new"
    BY DEF Init, Stage, Paid
  <2>2. \A o \in Orders : Kept(o) = 0
    BY <2>1, InitSafe, KeptByStage
  <2> QED  BY <2>1, <2>2 DEF Init, Promise!PromiseInit
<1>2. PaymentsSafe /\ PaymentsSafe' /\ [Next]_vars
        => [Promise!PromiseNext]_(Promise!promiseVars)
  <2> SUFFICES ASSUME PaymentsSafe, PaymentsSafe', [Next]_vars
               PROVE  Promise!PromiseNext \/ UNCHANGED Promise!promiseVars
    OBVIOUS
  <2>1. CASE \E o \in Orders : OrderStep(o)
    BY <2>1, OrderStepKeepsPromise
  <2>2. CASE \E b \in Batches : BatchStep(b)
    BY <2>2, BatchStepKeepsPromise
  <2>3. CASE AdjustWalletBalance \/ Tick \/ UNCHANGED vars
    <3>1. status' = status
      BY <2>3 DEF AdjustWalletBalance, Tick, vars, orderVars
    <3> QED  BY <3>1, SameStages
  <2> QED  BY <2>1, <2>2, <2>3 DEF Next
<1> QED  BY <1>1, <1>2, PaymentsStaySafe, PTL DEF Spec, ImplementsPromise, Promise!PromiseSpec

-----------------------------------------------------------------------------
(* What one step may not do.                                               *)

(* The stock of the orders of a reported batch is locked until the review  *)
(* of the batch must be over.                                              *)
LocksFit ==
    \A b \in Batches : batch[b] = "PAYMENT_REPORTED" =>
      \A o \in Members(b) : lockExpires[o] = reportedAt[b] + ReviewLock

LEMMA LocksKept ==
    ASSUME LocksFit,
           \A b \in Batches : batch'[b] = "PAYMENT_REPORTED" =>
             /\ batch[b] = "PAYMENT_REPORTED" /\ reportedAt'[b] = reportedAt[b]
             /\ \A o \in Orders : settlement'[o] = b =>
                  settlement[o] = b /\ lockExpires'[o] = lockExpires[o]
    PROVE  LocksFit'
BY DEF LocksFit, Members

LEMMA OrderStepKeepsLocks ==
    ASSUME PaymentsSafe, LocksFit, NEW o \in Orders, OrderStep(o)
    PROVE  LocksFit'
<1> DEFINE free == \A b \in Batches : settlement[o] = b => batch[b] # "PAYMENT_REPORTED"
<1>1. TypeOK /\ OrderSafe(o)
  BY SafeParts
<1>2. /\ settlement' = settlement /\ reportedAt' = reportedAt
      /\ \A b \in Batches : batch'[b] = "PAYMENT_REPORTED" => batch[b] = "PAYMENT_REPORTED"
  <2>1. CASE CancelUnpaidOrder(o) \/ CancelPaidOrder(o)
    BY <1>1, <2>1
       DEF CancelUnpaidOrder, CancelPaidOrder, PrepareSettlement, With, TypeOK, shareVars
  <2>2. CASE ~(CancelUnpaidOrder(o) \/ CancelPaidOrder(o))
    <3>1. UNCHANGED <<shareVars, batchVars>>
      BY <2>2 DEF OrderStep, SubmitPaidFromWallet, SubmitUnpaid, DeclareOfflinePayment,
                  ApproveOfflinePayment, RejectOfflinePayment, ReviewOffline, ExpireOrder,
                  CompleteOfflineRefund, StartFulfillment
    <3> QED  BY <3>1 DEF shareVars, batchVars
  <2> QED  BY <2>1, <2>2
<1>3. \A x \in Orders \ {o} : lockExpires'[x] = lockExpires[x]
  BY <1>1 DEF OrderStep, SubmitPaidFromWallet, SubmitUnpaid, DeclareOfflinePayment,
              ApproveOfflinePayment, RejectOfflinePayment, ExpireOrder, CancelUnpaidOrder,
              CancelPaidOrder, CloseOrder, CompleteOfflineRefund, StartFulfillment,
              orderVars, TypeOK
<1>4. lockExpires' = lockExpires \/ free
  <2>1. CASE SubmitPaidFromWallet(o) \/ CompleteOfflineRefund(o) \/ StartFulfillment(o)
    BY <2>1 DEF SubmitPaidFromWallet, CompleteOfflineRefund, StartFulfillment, orderVars
  <2>2. CASE SubmitUnpaid(o)
    <3>1. settlement[o] = NoBatch
      BY <1>1, <2>2 DEF SubmitUnpaid, Place, OrderSafe, OrderFits
    <3> QED  BY <3>1, PaymentsAssumption
  <2>3. CASE DeclareOfflinePayment(o) \/ ApproveOfflinePayment(o) \/ RejectOfflinePayment(o)
             \/ ExpireOrder(o)
    <3>1. ~Managed(o)
      BY <1>1, <2>3 DEF DeclareOfflinePayment, ApproveOfflinePayment, RejectOfflinePayment,
                        ReviewOffline, ExpireOrder, OrderSafe, OneWay
    <3> QED  BY <3>1 DEF Managed, Open
  <2>4. CASE CancelUnpaidOrder(o) \/ CancelPaidOrder(o)
    BY <2>4 DEF CancelUnpaidOrder, CancelPaidOrder, PrepareSettlement
  <2> QED  BY <2>1, <2>2, <2>3, <2>4 DEF OrderStep
<1> QED  BY <1>2, <1>3, <1>4, LocksKept

LEMMA BatchStepKeepsLocks ==
    ASSUME PaymentsSafe, LocksFit, NEW b \in Batches, BatchStep(b)
    PROVE  LocksFit'
<1>1. TypeOK /\ \A o \in Orders : OrderSafe(o)
  BY SafeParts
<1>2. CASE SubmitBulkPaid(b) \/ SubmitBulkUnpaid(b)
  <2>1. PICK S \in SUBSET Orders, st \in {"PAID", "PENDING_PAYMENT"}, t \in Int :
          /\ \A o \in S : status[o] = "NEW"
          /\ settlement' = With(settlement, S, b)
          /\ batch' = [batch EXCEPT ![b] = st]
          /\ lockExpires' = lockExpires \/ lockExpires' = With(lockExpires, S, t)
          /\ UNCHANGED reportedAt
    <3>1. CASE SubmitBulkPaid(b)
      <4>1. 0 \in Int
        OBVIOUS
      <4> QED  BY <3>1, <4>1, Zenon DEF SubmitBulkPaid, CreateBatch, Place
    <3>2. CASE SubmitBulkUnpaid(b)
      <4>1. \A now \in Instants : now + PaymentLock \in Int
        BY PaymentsAssumption, <1>1 DEF Instants, TypeOK
      <4> QED  BY <3>2, <4>1, Zenon DEF SubmitBulkUnpaid, CreateBatch, Place
    <3> QED  BY <1>2, <3>1, <3>2
  <2>2. \A o \in S : settlement[o] = NoBatch
    BY <1>1, <2>1 DEF OrderSafe, OrderFits
  <2>3. \A c \in Batches : batch'[c] = "PAYMENT_REPORTED" => c # b /\ batch[c] = "PAYMENT_REPORTED"
    BY <1>1, <2>1 DEF TypeOK
  <2>4. \A c \in Batches \ {b}, o \in Orders :
          settlement'[o] = c => settlement[o] = c /\ lockExpires'[o] = lockExpires[o]
    BY <1>1, <2>1, <2>2, PaymentsAssumption DEF With, TypeOK
  <2> QED  BY <2>1, <2>3, <2>4, LocksKept
<1>3. CASE ReportSettlementPayment(b)
  <2>1. PICK now \in Instants :
          /\ batch' = [batch EXCEPT ![b] = "PAYMENT_REPORTED"]
          /\ reportedAt' = [reportedAt EXCEPT ![b] = now]
          /\ lockExpires' = With(lockExpires, Members(b), now + ReviewLock)
          /\ UNCHANGED shareVars
    BY <1>3 DEF ReportSettlementPayment
  <2> SUFFICES ASSUME NEW c \in Batches, batch'[c] = "PAYMENT_REPORTED",
                      NEW o \in Orders, settlement'[o] = c
               PROVE  lockExpires'[o] = reportedAt'[c] + ReviewLock
    BY DEF LocksFit, Members
  <2>2. settlement[o] = c
    BY <2>1 DEF shareVars
  <2>3. CASE c = b
    BY <1>1, <2>1, <2>2, <2>3 DEF With, TypeOK, Members
  <2>4. CASE c # b
    <3>1. batch[c] = "PAYMENT_REPORTED" /\ reportedAt'[c] = reportedAt[c]
          /\ lockExpires'[o] = lockExpires[o]
      BY <1>1, <2>1, <2>2, <2>4 DEF With, TypeOK, Members
    <3> QED  BY <2>2, <3>1 DEF LocksFit, Members
  <2> QED  BY <2>3, <2>4
<1>4. CASE \/ ApproveSettlementPayment(b) \/ RejectSettlementPayment(b)
           \/ WithdrawSettlementPayment(b) \/ ExpireReportedBatch(b) \/ ExpireUnreportedBatch(b)
  <2>1. PICK S \in SUBSET Members(b), st \in BatchStatus \ {"PAYMENT_REPORTED"} :
          /\ lockExpires' = With(lockExpires, S, Never)
          /\ batch' = [batch EXCEPT ![b] = st]
          /\ UNCHANGED <<shareVars, reportedAt>>
    <3>1. CASE ApproveSettlementPayment(b)
      <4>1. Members(b) \in SUBSET Members(b) /\ "PAID" \in BatchStatus \ {"PAYMENT_REPORTED"}
        BY DEF BatchStatus
      <4> QED  BY <3>1, <4>1 DEF ApproveSettlementPayment
    <3>2. CASE \/ RejectSettlementPayment(b) \/ WithdrawSettlementPayment(b)
               \/ ExpireReportedBatch(b) \/ ExpireUnreportedBatch(b)
      <4>1. PICK st \in BatchStatus \ {"PAYMENT_REPORTED"}, os \in OrderStatus :
              ReleaseTerminalBatch(b, os, st)
        BY <3>2 DEF RejectSettlementPayment, WithdrawSettlementPayment, ExpireReportedBatch,
                    ExpireUnreportedBatch, BatchStatus, OrderStatus
      <4>2. {o \in Members(b) : status[o] = "PENDING_PAYMENT"} \in SUBSET Members(b)
        OBVIOUS
      <4> QED  BY <4>1, <4>2 DEF ReleaseTerminalBatch
    <3> QED  BY <1>4, <3>1, <3>2
  <2>2. \A c \in Batches : batch'[c] = "PAYMENT_REPORTED" => c # b /\ batch[c] = "PAYMENT_REPORTED"
    BY <1>1, <2>1 DEF TypeOK
  <2>3. \A c \in Batches \ {b}, o \in Orders :
          settlement'[o] = c => settlement[o] = c /\ lockExpires'[o] = lockExpires[o]
    BY <1>1, <2>1 DEF With, TypeOK, Members, shareVars
  <2> QED  BY <2>1, <2>2, <2>3, LocksKept
<1> QED  BY <1>2, <1>3, <1>4 DEF BatchStep

LEMMA LocksSafe == Spec => []LocksFit
<1>1. Init => LocksFit
  BY DEF Init, LocksFit
<1>2. PaymentsSafe /\ LocksFit /\ [Next]_vars => LocksFit'
  <2> SUFFICES ASSUME PaymentsSafe, LocksFit, [Next]_vars PROVE LocksFit'
    OBVIOUS
  <2>1. CASE AdjustWalletBalance \/ Tick \/ UNCHANGED vars
    <3>1. UNCHANGED <<orderVars, shareVars, batchVars>>
      BY <2>1 DEF AdjustWalletBalance, Tick, vars
    <3> QED  BY <3>1, LocksKept DEF orderVars, shareVars, batchVars
  <2> QED  BY <2>1, OrderStepKeepsLocks, BatchStepKeepsLocks DEF Next
<1> QED  BY <1>1, <1>2, PaymentsStaySafe, PTL DEF Spec

LEMMA OrderStepInTime ==
    ASSUME PaymentsSafe, NEW o \in Orders, OrderStep(o), NEW x \in Orders,
           status[x] = "PENDING_PAYMENT", status'[x] \in Paid
    PROVE  lockExpires[x] > clock - MaxDelay
<1>1. TypeOK
  BY SafeParts
<1>2. ApproveOfflinePayment(o) /\ x = o
  <2>1. CASE SubmitPaidFromWallet(o) \/ SubmitUnpaid(o)
    BY <1>1, <2>1 DEF SubmitPaidFromWallet, SubmitUnpaid, Place, TypeOK, Paid
  <2>2. CASE DeclareOfflinePayment(o) \/ RejectOfflinePayment(o) \/ CompleteOfflineRefund(o)
    BY <2>2 DEF DeclareOfflinePayment, RejectOfflinePayment, CompleteOfflineRefund, orderVars, Paid
  <2>3. CASE ExpireOrder(o) \/ CancelUnpaidOrder(o) \/ CancelPaidOrder(o)
    BY <1>1, <2>3 DEF ExpireOrder, CancelUnpaidOrder, CancelPaidOrder, CloseOrder, TypeOK, Paid
  <2>4. CASE StartFulfillment(o)
    BY <1>1, <2>4 DEF StartFulfillment, TypeOK, Paid
  <2>5. CASE ApproveOfflinePayment(o)
    BY <1>1, <2>5 DEF ApproveOfflinePayment, TypeOK, Paid
  <2> QED  BY <2>1, <2>2, <2>3, <2>4, <2>5 DEF OrderStep
<1>3. PICK now \in Instants : lockExpires[x] > now
  BY <1>2 DEF ApproveOfflinePayment, ReviewOffline
<1>4. /\ now \in Int /\ now >= clock - MaxDelay /\ clock \in Int /\ MaxDelay \in Int
      /\ lockExpires[x] \in Int
  BY <1>1, PaymentsAssumption DEF Instants, TypeOK, Times, Never
<1> QED  BY <1>3, <1>4

LEMMA BatchStepInTime ==
    ASSUME PaymentsSafe, LocksFit, NEW b \in Batches, BatchStep(b), NEW x \in Orders,
           status[x] = "PENDING_PAYMENT", status'[x] \in Paid
    PROVE  lockExpires[x] > clock - MaxDelay
<1>1. TypeOK
  BY SafeParts
<1>2. ApproveSettlementPayment(b) /\ x \in Members(b)
  <2>1. CASE SubmitBulkPaid(b) \/ SubmitBulkUnpaid(b)
    <3>1. PICK S \in SUBSET Orders, st \in OrderStatus :
            status' = With(status, S, st) /\ \A o \in S : status[o] = "NEW"
      <4>1. "PAID_PENDING_FULFILLMENT" \in OrderStatus /\ "PENDING_PAYMENT" \in OrderStatus
        BY DEF OrderStatus
      <4> QED  BY <2>1, <4>1, Zenon DEF SubmitBulkPaid, SubmitBulkUnpaid, CreateBatch, Place
    <3> QED  BY <1>1, <3>1 DEF With, TypeOK, Paid
  <2>2. CASE ReportSettlementPayment(b)
    BY <2>2 DEF ReportSettlementPayment, Paid
  <2>3. CASE ApproveSettlementPayment(b)
    BY <1>1, <2>3 DEF ApproveSettlementPayment, With, TypeOK, Paid
  <2>4. ASSUME NEW st \in {"CANCELLED", "EXPIRED"}, NEW bs, ReleaseTerminalBatch(b, st, bs)
        PROVE  FALSE
    BY <1>1, <2>4 DEF ReleaseTerminalBatch, With, TypeOK, Paid
  <2>5. CASE \/ RejectSettlementPayment(b) \/ WithdrawSettlementPayment(b)
             \/ ExpireReportedBatch(b) \/ ExpireUnreportedBatch(b)
    <3>1. \E st \in {"CANCELLED", "EXPIRED"}, bs \in BatchStatus : ReleaseTerminalBatch(b, st, bs)
      BY <2>5 DEF RejectSettlementPayment, WithdrawSettlementPayment, ExpireReportedBatch,
                  ExpireUnreportedBatch, BatchStatus
    <3> QED  BY <2>4, <3>1
  <2> QED  BY <2>1, <2>2, <2>3, <2>5 DEF BatchStep
<1>3. PICK now \in Instants : batch[b] = "PAYMENT_REPORTED" /\ ~ReviewDeadlinePassed(b, now)
  BY <1>2 DEF ApproveSettlementPayment
<1>4. lockExpires[x] = reportedAt[b] + ReviewLock
  BY <1>2, <1>3 DEF LocksFit
<1>5. /\ now \in Int /\ now >= clock - MaxDelay /\ clock \in Int /\ MaxDelay \in Int
      /\ reportedAt[b] \in Int /\ ReviewLock \in Int
  BY <1>1, PaymentsAssumption DEF Instants, TypeOK, Times, Never
<1> QED  BY <1>3, <1>4, <1>5 DEF ReviewDeadlinePassed

(* A waiting order is paid only while its stock is locked, give or take    *)
(* the wait of the transaction, also when its batch is approved: that      *)
(* looks at the deadline of the batch only.                                *)
THEOREM AlwaysPaidInTime == Spec => PaidBeforeLockExpires
<1>1. PaymentsSafe /\ LocksFit /\ [Next]_vars
        => [\A o \in Orders : status[o] = "PENDING_PAYMENT" /\ status'[o] \in Paid
                                => lockExpires[o] > clock - MaxDelay]_vars
  <2> SUFFICES ASSUME PaymentsSafe, LocksFit, Next, NEW x \in Orders,
                      status[x] = "PENDING_PAYMENT", status'[x] \in Paid
               PROVE  lockExpires[x] > clock - MaxDelay
    OBVIOUS
  <2>1. CASE AdjustWalletBalance \/ Tick
    BY <2>1 DEF AdjustWalletBalance, Tick, orderVars, Paid
  <2> QED  BY <2>1, OrderStepInTime, BatchStepInTime DEF Next
<1> QED  BY <1>1, PaymentsStaySafe, LocksSafe, PTL DEF Spec, PaidBeforeLockExpires

(* A batch is cancelled only together with one of its orders, and the      *)
(* other orders of the batch keep their status, their lock and their       *)
(* stock.                                                                  *)
THEOREM SiblingsAlwaysSpared == Spec => SiblingsSpared
<1>1. PaymentsSafe /\ [Next]_vars
        => [\A b \in Batches : batch[b] # "CANCELLED" /\ batch'[b] = "CANCELLED"
              => \E o \in Members(b) : /\ status'[o] = "CANCELLED"
                                       /\ \A x \in Members(b) \ {o} :
                                            <<status[x], lockExpires[x], reserved[x]>>'
                                              = <<status[x], lockExpires[x], reserved[x]>>]_vars
  <2> SUFFICES ASSUME PaymentsSafe, Next, NEW b \in Batches,
                      batch[b] # "CANCELLED", batch'[b] = "CANCELLED"
               PROVE  \E o \in Members(b) :
                        /\ status'[o] = "CANCELLED"
                        /\ \A x \in Members(b) \ {o} :
                             /\ status'[x] = status[x] /\ lockExpires'[x] = lockExpires[x]
                             /\ reserved'[x] = reserved[x]
    OBVIOUS
  <2>1. TypeOK
    BY SafeParts
  <2>2. CASE AdjustWalletBalance \/ Tick
    BY <2>2 DEF AdjustWalletBalance, Tick, batchVars
  <2>3. ASSUME NEW c \in Batches, BatchStep(c)
        PROVE  FALSE
    <3>1. \E st \in BatchStatus \ {"CANCELLED"} : batch' = [batch EXCEPT ![c] = st]
      BY <2>3 DEF BatchStep, BatchStatus, SubmitBulkPaid, SubmitBulkUnpaid,
                  ReportSettlementPayment, ApproveSettlementPayment, RejectSettlementPayment,
                  WithdrawSettlementPayment, ExpireReportedBatch, ExpireUnreportedBatch,
                  ReleaseTerminalBatch
    <3> QED  BY <2>1, <3>1 DEF TypeOK
  <2>4. ASSUME NEW o \in Orders, OrderStep(o)
        PROVE  /\ o \in Members(b) /\ status'[o] = "CANCELLED"
               /\ \A x \in Members(b) \ {o} :
                    /\ status'[x] = status[x] /\ lockExpires'[x] = lockExpires[x]
                    /\ reserved'[x] = reserved[x]
    <3>1. CASE ~(CancelUnpaidOrder(o) \/ CancelPaidOrder(o))
      BY <2>4, <3>1 DEF OrderStep, SubmitPaidFromWallet, SubmitUnpaid, DeclareOfflinePayment,
                  ApproveOfflinePayment, RejectOfflinePayment, ReviewOffline, ExpireOrder,
                  CompleteOfflineRefund, StartFulfillment, batchVars
    <3>2. CASE CancelUnpaidOrder(o) \/ CancelPaidOrder(o)
      <4>1. PrepareSettlement(o) /\ CloseOrder(o)
        BY <3>2 DEF CancelUnpaidOrder, CancelPaidOrder
      <4>2. settlement[o] = b
        BY <2>1, <4>1 DEF PrepareSettlement, With, TypeOK
      <4>3. Members(b) \subseteq Orders
        BY DEF Members
      <4> QED  BY <2>1, <4>1, <4>2, <4>3 DEF CloseOrder, Members, TypeOK
    <3> QED  BY <3>1, <3>2
  <2> QED  BY <2>2, <2>3, <2>4 DEF Next
<1> QED  BY <1>1, PaymentsStaySafe, PTL DEF Spec, SiblingsSpared
=============================================================================
