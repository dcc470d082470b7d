------------------------- MODULE FulfillmentProofs -------------------------
(***************************************************************************)
(* Goods leave stock once, reservations match what is still to be sent and *)
(* the order tells the truth: for any number of packages, replacements and *)
(* workers, as long as administrators leave alone what was cancelled here  *)
(* and still goes on at Jifeng.                                            *)
(***************************************************************************)
EXTENDS Fulfillment, FiniteSetTheorems, TLAPS

-----------------------------------------------------------------------------
(* The parts of the state.                                                 *)

LEMMA Parts ==
    ASSUME TypeOK
    PROVE  /\ row \in [All -> Row] /\ event \in [All -> Event]
           /\ request \in [Replacements -> RequestStatus]
           /\ out \in [All -> 0..Stock] /\ held \in [{Order} \cup Replacements -> 0..Stock]
           /\ remote \in [All -> {Absent} \cup Details] /\ job \in [Workers -> Job]
           /\ parent \in OrderStatus /\ stock \in 0..Stock /\ retries \in 0..MaxRetries
           /\ refunded \in SUBSET Packages /\ released \in SUBSET All
BY DEF TypeOK

LEMMA SetsFinite ==
    ASSUME NEW S \in SUBSET All
    PROVE  IsFiniteSet(S) /\ Cardinality(S) \in Nat
BY FS_Subset, FS_CardinalityType, FulfillmentAssumption

(* What deriveParentFulfillmentStatus can say, and what it says it of.     *)
LEMMA RolledSays ==
    ASSUME NEW r, parent \in OrderStatus
    PROVE  /\ Rolled(r) \in OrderStatus
           /\ parent = "CANCELLED" => Rolled(r) = "CANCELLED"
           /\ Rolled(r) = "PAID_PENDING_FULFILLMENT" =>
                /\ parent = "PAID_PENDING_FULFILLMENT"
                /\ \A p \in Packages : r[p].status # "SHIPPED"
           /\ Rolled(r) = "SHIPPED" =>
                \A p \in Packages : r[p].status \in {"SHIPPED", "CANCELLED"}
           /\ Rolled(r) = "CANCELLED" =>
                parent = "CANCELLED" \/ \A p \in Packages : r[p].status = "CANCELLED"
<1> DEFINE S == Statuses(r)
           A == S \ {"CANCELLED"}
<1>1. /\ \A p \in Packages : r[p].status # "NONE" => r[p].status \in S
      /\ \A p \in Packages : r[p].status = "NONE" => "PENDING" \in S
  BY DEF Statuses
<1>2. \A p \in Packages : r[p].status # "CANCELLED" /\ r[p].status # "NONE" => r[p].status \in A
  BY <1>1
<1>3. \A p \in Packages : r[p].status = "NONE" => "PENDING" \in A
  BY <1>1
<1>4. Derived(S) = CASE A = {}            -> "CANCELLED"
                     [] "EXCEPTION" \in A -> "FULFILLMENT_EXCEPTION"
                     [] A = {"SHIPPED"}   -> "SHIPPED"
                     [] OTHER             -> "FULFILLING"
  BY DEF Derived
<1>5. Rolled(r) = CASE parent = "CANCELLED" -> parent
                    [] parent = "PAID_PENDING_FULFILLMENT" /\ A = {"PENDING"} -> parent
                    [] OTHER -> Derived(S)
  BY DEF Rolled
<1> HIDE DEF S, A
<1>6. /\ Derived(S) \in {"CANCELLED", "FULFILLMENT_EXCEPTION", "SHIPPED", "FULFILLING"}
      /\ Derived(S) = "CANCELLED" => A = {}
      /\ Derived(S) = "SHIPPED" => A = {"SHIPPED"}
  BY <1>4
<1>7. CASE parent = "CANCELLED"
  <2>1. Rolled(r) = "CANCELLED"
    BY <1>5, <1>7
  <2> QED  BY <1>7, <2>1 DEF OrderStatus
<1>8. CASE parent = "PAID_PENDING_FULFILLMENT" /\ A = {"PENDING"}
  <2>1. Rolled(r) = "PAID_PENDING_FULFILLMENT"
    BY <1>5, <1>8
  <2>2. \A p \in Packages : r[p].status # "SHIPPED"
    BY <1>2, <1>8
  <2> QED  BY <1>8, <2>1, <2>2 DEF OrderStatus
<1>9. CASE parent # "CANCELLED" /\ ~(parent = "PAID_PENDING_FULFILLMENT" /\ A = {"PENDING"})
  <2>1. Rolled(r) = Derived(S)
    BY <1>5, <1>9
  <2>2. Rolled(r) = "SHIPPED" => \A p \in Packages : r[p].status \in {"SHIPPED", "CANCELLED"}
    BY <1>2, <1>3, <1>6, <2>1
  <2>3. Rolled(r) = "CANCELLED" => \A p \in Packages : r[p].status = "CANCELLED"
    BY <1>2, <1>3, <1>6, <2>1
  <2> QED  BY <1>6, <1>9, <2>1, <2>2, <2>3 DEF OrderStatus
<1> QED  BY <1>7, <1>8, <1>9
-----------------------------------------------------------------------------
(* A step that concerns one package.                                       *)

(* Nothing of another package changes.                                     *)
Only(p) ==
    /\ row' \in [All -> Row] /\ event' \in [All -> Event] /\ out' \in [All -> 0..Stock]
    /\ \A q \in All \ {p} : row'[q] = row[q] /\ event'[q] = event[q] /\ out'[q] = out[q]
    /\ request' \in [Replacements -> RequestStatus]
    /\ held' \in [{Order} \cup Replacements -> 0..Stock]
    /\ \A r \in Replacements \ {p} : request'[r] = request[r] /\ held'[r] = held[r]
    /\ released' \in {released, released \cup {p}}
    /\ refunded' = released' \cap Packages
    /\ remote' = remote

(* The unit of package p is booked out once, and the order gives back its  *)
(* reservation when the package needs it no more.                          *)
Books(p) ==
    /\ \/ stock' = stock /\ out'[p] = out[p]
       \/ stock >= 1 /\ stock' = stock - 1 /\ out[p] = 0 /\ out'[p] = 1
    /\ \/ held'[Order] = held[Order] /\ (p \in Needy <=> p \in Needy')
       \/ p \in Needy /\ p \notin Needy' /\ held'[Order] = held[Order] - 1

(* The order's status is kept or refreshed.                                *)
Follows(p) ==
    /\ row[p].status = "SHIPPED" => row'[p].status = "SHIPPED"
    /\ \/ parent' = Rolled(row')
       \/ /\ parent' = parent
          /\ row'[p].status = "SHIPPED" /\ p \in Packages => row[p].status = "SHIPPED"
    /\ p \in Replacements /\ row[p].status = "NONE" /\ parent = "PAID_PENDING_FULFILLMENT"
         => row'[p].status = "NONE"

(* What the workers other than w rely on in package p.                     *)
Respects(w, p) ==
    /\ row[p].bound => row'[p].bound
    /\ row[p].bound /\ event[p].status = "COMPLETED" => event'[p].status = "COMPLETED"
    /\ out[p] = 0 /\ out'[p] = 1 => row'[p].poller = NoWorker
    /\ row'[p].poller \in {row[p].poller, w, NoWorker}
    /\ row[p].bound /\ p \in released' /\ p \notin released =>
         row'[p].status = "CANCELLED" /\ row'[p].jifeng = Cancelled
    /\ row[p].bound /\ row[p].status = "CANCELLED" /\ row[p].jifeng = Cancelled =>
         Lost(p) \/ (row'[p].status = "CANCELLED" /\ row'[p].jifeng = Cancelled)
    /\ event'[p].status = "PROCESSING" /\ event'[p].token # w =>
         /\ event[p].status = "PROCESSING" /\ event[p].token = event'[p].token
         /\ Lost(p) \/ row'[p].status = row[p].status

(* What stays lost.                                                        *)
LEMMA LostStays ==
    ASSUME PackagesSafe, NEW p \in All, Only(p), Books(p), row[p].bound => row'[p].bound
    PROVE  \A q \in All : Lost(q) => Lost(q)'
<1>1. stock \in Nat
  BY FulfillmentAssumption DEF PackagesSafe, TypeOK
<1>2. ASSUME NEW q \in All, Lost(q), q # p
      PROVE  Lost(q)'
  BY <1>1, <1>2 DEF Lost, SoldOut, Only, Books
<1>3. ASSUME Lost(p)
      PROVE  Lost(p)'
  BY <1>1, <1>3 DEF Lost, SoldOut, Only, Books
<1> QED  BY <1>2, <1>3

(* The jobs of the other workers.                                          *)
LEMMA OthersStay ==
    ASSUME PackagesSafe, NEW p \in All, NEW w, Only(p), Books(p), Respects(w, p),
           NEW u \in Workers, u # w, job'[u] = job[u]
    PROVE  JobOK(u)'
<1> DEFINE q == job[u].pkg
<1>1. /\ JobOK(u) /\ job[u] \in Job /\ u # NoWorker
      /\ \A x \in All : PackageOK(x)
  BY FulfillmentAssumption DEF PackagesSafe, TypeOK
<1>2. CASE job[u].task = "idle"
  <2>1. job'[u] = Idle
    BY <1>1, <1>2 DEF JobOK
  <2>2. Idle.task = "idle" /\ Idle.answer = Absent
    BY DEF Idle
  <2>3. Absent \notin {Shipped, Cancelled}
    BY DEF Absent, Shipped, Cancelled
  <2>4. AnswerOK(u)' /\ CallOK(u)' /\ MatchOK(u)'
    BY <2>1, <2>2, <2>3 DEF AnswerOK, CallOK, MatchOK
  <2> QED  BY <2>1, <2>2, <2>4 DEF JobOK
<1>3. CASE job[u].task # "idle"
  <2>1. q \in All
    BY <1>1, <1>3 DEF JobOK
  <2>2. Lost(q) => Lost(q)'
    BY <2>1, LostStays DEF Respects
  <2>3. /\ row[q].bound => row'[q].bound
        /\ row[q].bound /\ event[q].status = "COMPLETED" => event'[q].status = "COMPLETED"
        /\ out'[q] = 1 => out[q] = 1 \/ row'[q].poller = NoWorker
        /\ row'[q].poller = u => row[q].poller = u
        /\ row[q].bound /\ q \in released' =>
             q \in released \/ (row'[q].status = "CANCELLED" /\ row'[q].jifeng = Cancelled)
        /\ row[q].bound /\ row[q].status = "CANCELLED" /\ row[q].jifeng = Cancelled =>
             Lost(q) \/ (row'[q].status = "CANCELLED" /\ row'[q].jifeng = Cancelled)
        /\ event'[q].status = "PROCESSING" /\ event'[q].token = u =>
             /\ event[q].status = "PROCESSING" /\ event[q].token = u
             /\ Lost(q) \/ row'[q].status = row[q].status
    <3>1. CASE q = p
      <4>1. out[p] \in 0..Stock /\ out[p] <= 1 /\ Stock \in Nat
        BY <1>1, FulfillmentAssumption DEF PackagesSafe, TypeOK, PackageOK, GoodsOK
      <4>2. out[p] = 0 \/ out[p] = 1
        BY <4>1
      <4> QED  BY <1>1, <3>1, <4>2 DEF Respects
    <3>2. CASE q # p
      BY <2>1, <3>2 DEF Only
    <3> QED  BY <3>1, <3>2
  <2>4. remote'[q] = remote[q]
    BY DEF Only
  <2> HIDE DEF q
  <2>5. AnswerOK(u)'
    <3>1. AnswerOK(u)
      BY <1>1 DEF JobOK
    <3> QED  BY <1>1, <2>3, <2>4, <3>1 DEF AnswerOK, q
  <2>6. CallOK(u)'
    <3>1. CallOK(u)
      BY <1>1 DEF JobOK
    <3> QED  BY <2>2, <2>3, <3>1 DEF CallOK, q
  <2>7. MatchOK(u)'
    <3>1. MatchOK(u)
      BY <1>1 DEF JobOK
    <3>2. q \in released => q \in released'
      BY DEF Only
    <3> QED  BY <2>2, <2>3, <3>1, <3>2 DEF MatchOK, OwnsEvent, q
  <2> QED  BY <1>1, <2>5, <2>6, <2>7 DEF JobOK
<1> QED  BY <1>2, <1>3

(* What is known of the other packages is not touched.                     *)
LEMMA OtherPackages ==
    ASSUME PackagesSafe, NEW p \in All, Only(p), Books(p), row[p].bound => row'[p].bound,
           parent = "CANCELLED" => parent' = "CANCELLED",
           NEW q \in All, q # p
    PROVE  PackageOK(q)'
<1>1. /\ row'[q] = row[q] /\ event'[q] = event[q] /\ out'[q] = out[q] /\ remote'[q] = remote[q]
      /\ q \in released' <=> q \in released
  BY DEF Only
<1>2. Lost(q) => Lost(q)'
  BY LostStays
<1>3. Orphan(q) => Orphan(q)'
  BY <1>1 DEF Orphan
<1>4. WorkedOn(q) => WorkedOn(q)'
  BY <1>1 DEF WorkedOn
<1>5. PackageOK(q)
  BY DEF PackagesSafe
<1> QED  BY <1>1, <1>2, <1>3, <1>4, <1>5 DEF PackageOK, BindingOK, GoodsOK, CancellationOK

(* The order's status still tells the truth when it has followed a step.   *)
LEMMA ParentFollows ==
    ASSUME PackagesSafe, NEW p \in All, Only(p), Follows(p),
           row'[p].status = "CANCELLED" => p \in released'
    PROVE  ParentOK' /\ parent' \in OrderStatus /\ (parent = "CANCELLED" => parent' = "CANCELLED")
<1>1. parent \in OrderStatus /\ ParentOK /\ Packages \subseteq All /\ Replacements \subseteq All
  BY DEF PackagesSafe, TypeOK, All
<1>2. /\ \A q \in All \ {p} : row'[q] = row[q]
      /\ released \subseteq released'
  BY DEF Only
<1>3. \A q \in All : row'[q].status = "CANCELLED" => q \in released'
  BY <1>2 DEF PackagesSafe, PackageOK, CancellationOK
<1>4. \A q \in Packages : row[q].status = "SHIPPED" \/ q \in released
                            => row'[q].status = "SHIPPED" \/ q \in released'
  BY <1>1, <1>2 DEF Follows
<1>5. parent = "PAID_PENDING_FULFILLMENT" => \A r \in Replacements : row'[r].status = "NONE"
  BY <1>1, <1>2 DEF ParentOK, Follows
<1>6. CASE parent' = Rolled(row')
  <2>1. /\ parent' \in OrderStatus
        /\ parent = "CANCELLED" => parent' = "CANCELLED"
        /\ parent' = "PAID_PENDING_FULFILLMENT" =>
             /\ parent = "PAID_PENDING_FULFILLMENT"
             /\ \A q \in Packages : row'[q].status # "SHIPPED"
        /\ parent' = "SHIPPED" =>
             \A q \in Packages : row'[q].status \in {"SHIPPED", "CANCELLED"}
        /\ parent' = "CANCELLED" =>
             parent = "CANCELLED" \/ \A q \in Packages : row'[q].status = "CANCELLED"
    BY <1>1, <1>6, RolledSays
  <2>2. parent = "CANCELLED" => Packages \subseteq released'
    BY <1>1, <1>2 DEF ParentOK
  <2> QED  BY <1>1, <1>3, <1>5, <2>1, <2>2 DEF ParentOK
<1>7. CASE parent' = parent /\ (row'[p].status = "SHIPPED" /\ p \in Packages
                                  => row[p].status = "SHIPPED")
  <2>1. \A q \in Packages : row'[q].status = "SHIPPED" => row[q].status = "SHIPPED"
    BY <1>1, <1>2, <1>7
  <2> QED  BY <1>1, <1>2, <1>4, <1>5, <1>7, <2>1 DEF ParentOK
<1> QED  BY <1>6, <1>7 DEF Follows

(* The books balance.                                                      *)
LEMMA BooksBalance ==
    ASSUME PackagesSafe, NEW p \in All, Only(p), Books(p)
    PROVE  /\ stock' \in 0..Stock /\ stock' = Stock - Cardinality(Booked')
           /\ held'[Order] = Cardinality(Needy')
<1>1. /\ stock \in 0..Stock /\ stock = Stock - Cardinality(Booked)
      /\ held[Order] = Cardinality(Needy) /\ Stock \in Nat
      /\ Packages \subseteq All
  BY FulfillmentAssumption DEF PackagesSafe, TypeOK, All
<1>2. Booked \subseteq All /\ Booked' \subseteq All /\ Needy \subseteq All /\ Needy' \subseteq All
  BY <1>1 DEF Booked, Needy
<1>3. /\ IsFiniteSet(Booked) /\ Cardinality(Booked) \in Nat
      /\ IsFiniteSet(Needy) /\ Cardinality(Needy) \in Nat
  BY <1>2, SetsFinite
<1>4. stock' \in 0..Stock /\ stock' = Stock - Cardinality(Booked')
  <2>1. CASE stock' = stock /\ out'[p] = out[p]
    <3>1. Booked' = Booked
      BY <2>1 DEF Booked, Only
    <3> QED  BY <1>1, <2>1, <3>1
  <2>2. CASE stock >= 1 /\ stock' = stock - 1 /\ out[p] = 0 /\ out'[p] = 1
    <3>1. Booked' = Booked \cup {p} /\ p \notin Booked
      BY <2>2 DEF Booked, Only
    <3>2. Cardinality(Booked') = Cardinality(Booked) + 1
      BY <1>3, <3>1, FS_AddElement
    <3> QED  BY <1>1, <1>3, <2>2, <3>2
  <2> QED  BY <2>1, <2>2 DEF Books
<1>5. held'[Order] = Cardinality(Needy')
  <2>1. \A q \in Packages \ {p} : q \in Needy' <=> q \in Needy
    BY <1>1 DEF Needy, Only
  <2>2. CASE held'[Order] = held[Order] /\ (p \in Needy <=> p \in Needy')
    <3>1. Needy' = Needy
      BY <2>1, <2>2 DEF Needy
    <3> QED  BY <1>1, <2>2, <3>1
  <2>3. CASE p \in Needy /\ p \notin Needy' /\ held'[Order] = held[Order] - 1
    <3>1. Needy' = Needy \ {p}
      BY <2>1, <2>3 DEF Needy
    <3>2. Cardinality(Needy') = Cardinality(Needy) - 1
      BY <1>3, <2>3, <3>1, FS_RemoveElement
    <3> QED  BY <1>1, <2>3, <3>2
  <2> QED  BY <2>2, <2>3 DEF Books
<1> QED  BY <1>4, <1>5

(* A step about package p by worker w (or none) keeps the invariant.       *)
LEMMA PackageStepSafe ==
    ASSUME PackagesSafe, NEW p \in All, NEW w,
           Only(p), Books(p), Follows(p), Respects(w, p),
           PackageOK(p)', p \in Replacements => ReplacementOK(p)',
           job' \in [Workers -> Job], \A u \in Workers \ {w} : job'[u] = job[u],
           w \in Workers => JobOK(w)',
           retries' \in 0..MaxRetries
    PROVE  PackagesSafe'
<1>1. ParentOK' /\ parent' \in OrderStatus /\ (parent = "CANCELLED" => parent' = "CANCELLED")
  BY ParentFollows DEF PackageOK, CancellationOK
<1>2. /\ stock' \in 0..Stock /\ stock' = Stock - Cardinality(Booked')
      /\ held'[Order] = Cardinality(Needy')
  BY BooksBalance
<1>3. released \subseteq All
  BY DEF PackagesSafe, TypeOK
<1>4. TypeOK' /\ refunded' = released' \cap Packages
  BY <1>1, <1>2, <1>3 DEF Only, TypeOK, PackagesSafe
<1>5. \A q \in All : PackageOK(q)'
  BY <1>1, OtherPackages DEF Respects
<1>6. \A r \in Replacements : ReplacementOK(r)'
  <2> SUFFICES ASSUME NEW r \in Replacements, r # p
               PROVE  ReplacementOK(r)'
    OBVIOUS
  <2>1. r \in All /\ ReplacementOK(r)
    BY DEF All, PackagesSafe
  <2>2. /\ row'[r] = row[r] /\ request'[r] = request[r] /\ held'[r] = held[r]
        /\ r \in released' <=> r \in released
    BY <2>1 DEF Only
  <2> QED  BY <2>1, <2>2 DEF ReplacementOK
<1>7. \A u \in Workers : JobOK(u)'
  BY OthersStay
<1> QED  BY <1>1, <1>2, <1>4, <1>5, <1>6, <1>7 DEF PackagesSafe
-----------------------------------------------------------------------------
(* Applying an answer of Jifeng.                                           *)

(* The row r, bound, fits what is booked and released for package p.       *)
Fits(p, r) ==
    /\ r \in Row /\ r.bound /\ out[p] \in {0, 1}
    /\ r.status = "SHIPPED" => out[p] = 1 /\ p \notin released
    /\ r.code = "SHIPPED_AFTER_CANCEL" => out[p] = 1
    /\ out[p] = 1 =>
         /\ remote[p] = Shipped
         /\ \/ r.status = "SHIPPED"
            \/ /\ r.status = "EXCEPTION" /\ r.code = "SHIPPED_AFTER_CANCEL"
               /\ p \in released
    /\ r.status = "CANCELLED" => p \in released
    /\ r.code = "ACTIVE_AFTER_CANCEL" => r.status = "EXCEPTION" /\ p \in released
    /\ p \in released =>
         \/ r.status = "CANCELLED" \/ r.code = "ACTIVE_AFTER_CANCEL" \/ out[p] = 1
         \/ SoldOut /\ remote[p] = Shipped

(* The answer d is not out of date where it matters.                       *)
Timely(p, r, d) ==
    /\ d \in Details
    /\ d \in {Shipped, Cancelled} => remote[p] = d
    /\ out[p] = 1 /\ r.status # "SHIPPED" => d = Shipped

(* The row was read as it is, or when the package had not been bound.      *)
Reads(p, r) ==
    /\ r.status = row[p].status /\ r.jifeng = row[p].jifeng /\ r.status # "NONE"
    /\ out[p] = 1 => row[p].bound
    /\ row[p].bound => r.poller = row[p].poller

(* What an answer changes, apart from the event and the job.               *)
Applied(p) ==
    /\ row' \in [All -> Row] /\ \A q \in All \ {p} : row'[q] = row[q]
    /\ out' \in [All -> 0..Stock] /\ \A q \in All \ {p} : out'[q] = out[q]
    /\ request' \in [Replacements -> RequestStatus]
    /\ held' \in [{Order} \cup Replacements -> 0..Stock]
    /\ \A r \in Replacements \ {p} : request'[r] = request[r] /\ held'[r] = held[r]
    /\ released' \in {released, released \cup {p}}
    /\ refunded' = released' \cap Packages
    /\ Books(p) /\ Follows(p)
    /\ p \in Replacements => ReplacementOK(p)'
    /\ row'[p].bound /\ row'[p].poller = NoWorker

(* ... to a row that fits again, and is final if the package is released.  *)
AppliedRow(p, d) ==
    /\ row'[p].status # "NONE"
    /\ row'[p].status = "SHIPPED" => out'[p] = 1 /\ p \notin released'
    /\ row'[p].code = "SHIPPED_AFTER_CANCEL" => out'[p] = 1
    /\ out'[p] = 1 =>
         /\ remote[p] = Shipped
         /\ \/ row'[p].status = "SHIPPED"
            \/ /\ row'[p].status = "EXCEPTION" /\ row'[p].code = "SHIPPED_AFTER_CANCEL"
               /\ p \in released'
    /\ row'[p].status = "CANCELLED" => p \in released'
    /\ row'[p].code = "ACTIVE_AFTER_CANCEL" =>
         row'[p].status = "EXCEPTION" /\ p \in released' /\ d # Shipped
    /\ p \in released' =>
         \/ row'[p].status = "CANCELLED" \/ row'[p].code = "ACTIVE_AFTER_CANCEL"
         \/ out'[p] = 1 \/ (SoldOut /\ remote[p] = Shipped /\ out'[p] = 0)
    /\ p \in released' /\ p \notin released =>
         row'[p].status = "CANCELLED" /\ row'[p].jifeng = Cancelled
    /\ row[p].status = "CANCELLED" /\ row[p].jifeng = Cancelled =>
         row'[p].status = "CANCELLED" /\ row'[p].jifeng = Cancelled
    /\ out'[p] = out[p] \/ ~SoldOut

LEMMA Codes ==
    /\ Absent = 0 /\ Active = 2 /\ Shipped = 7 /\ HeldUp = 8 /\ Cancelled = 9
    /\ Details = {2, 7, 8, 9}
BY DEF Absent, Active, Shipped, HeldUp, Cancelled, Details

(* Giving back the claim keeps the rest of a row.                          *)
LEMMA PolledRow ==
    ASSUME NEW r \in Row
    PROVE  /\ Polled(r) \in Row /\ Polled(r).status = r.status /\ Polled(r).jifeng = r.jifeng
           /\ Polled(r).code = r.code /\ Polled(r).bound = r.bound
           /\ Polled(r).poller = NoWorker
BY DEF Polled, Row

(* The unit of a package that still needs it is held for it.               *)
LEMMA HeldForNeedy ==
    ASSUME PackagesSafe, NEW p \in Packages, p \in Needy
    PROVE  held[Order] >= 1
<1>1. IsFiniteSet(Needy) /\ Needy # {} /\ held[Order] = Cardinality(Needy)
  <2>1. Needy \in SUBSET All
    BY DEF Needy, All
  <2> QED  BY <2>1, SetsFinite DEF PackagesSafe
<1>2. Cardinality(Needy) \in Nat /\ Cardinality(Needy) # 0
  BY <1>1, FS_CardinalityType, FS_EmptySet
<1> QED  BY <1>1, <1>2

(* A row and a request are replaced, the order's status is refreshed or    *)
(* not.                                                                    *)
LEMMA RowReplaced ==
    ASSUME TypeOK, NEW p \in All, NEW x \in Row, SetRow(p, x) \/ SetRowOnly(p, x)
    PROVE  /\ row' \in [All -> Row] /\ row'[p] = x /\ \A q \in All \ {p} : row'[q] = row[q]
           /\ p \in Replacements => parent' = parent
           /\ SetRowOnly(p, x) => parent' = parent
           /\ SetRow(p, x) => parent' = Rolled(row') \/ (parent' = parent /\ p \notin Packages)
<1>1. row \in [All -> Row] /\ row' = [row EXCEPT ![p] = x]
  BY DEF TypeOK, SetRow, SetRowOnly
<1>2. p \in Replacements => p \notin Packages
  BY FulfillmentAssumption
<1>3. SetRow(p, x) => parent' = Rolled(row') \/ (parent' = parent /\ p \notin Packages)
  BY <1>1 DEF SetRow
<1>4. p \in Replacements => parent' = parent
  BY <1>2 DEF SetRow, SetRowOnly
<1> QED  BY <1>1, <1>3, <1>4 DEF SetRowOnly

LEMMA RequestSet ==
    ASSUME TypeOK, NEW p \in All, NEW s \in RequestStatus, SetRequest(p, s)
    PROVE  /\ request' \in [Replacements -> RequestStatus]
           /\ \A r \in Replacements \ {p} : request'[r] = request[r]
           /\ p \in Replacements => request'[p] = s
BY DEF TypeOK, SetRequest

(* The follow-up of the order's status, when the package had a row.        *)
LEMMA RowFollows ==
    ASSUME TypeOK, NEW p \in All, NEW x \in Row, row[p].status # "NONE",
           row[p].status = "SHIPPED" => x.status = "SHIPPED",
           \/ SetRow(p, x)
           \/ SetRowOnly(p, x) /\ (x.status = "SHIPPED" => row[p].status = "SHIPPED")
    PROVE  Follows(p)
<1>1. /\ row'[p] = x /\ (SetRowOnly(p, x) => parent' = parent)
      /\ SetRow(p, x) => parent' = Rolled(row') \/ (parent' = parent /\ p \notin Packages)
  BY RowReplaced
<1> QED  BY <1>1 DEF Follows

(* One unit less of a reservation.                                         *)
LEMMA HeldReduced ==
    ASSUME TypeOK, NEW p \in All, held[Holder(p)] >= 1,
           held' = [held EXCEPT ![Holder(p)] = @ - 1]
    PROVE  /\ held' \in [{Order} \cup Replacements -> 0..Stock]
           /\ \A r \in Replacements \ {p} : held'[r] = held[r]
           /\ p \in Replacements => held'[p] = held[p] - 1 /\ held'[Order] = held[Order]
           /\ p \in Packages => held'[Order] = held[Order] - 1
<1>1. /\ held \in [{Order} \cup Replacements -> 0..Stock] /\ Stock \in Nat
      /\ Order \notin Replacements /\ Packages \cap Replacements = {}
  BY FulfillmentAssumption DEF TypeOK, All
<1>2. Holder(p) \in {Order} \cup Replacements
  BY DEF Holder
<1>3. /\ p \in Replacements => Holder(p) = p
      /\ p \in Packages => Holder(p) = Order
  BY <1>1 DEF Holder
<1>4. /\ p \in All => p \in Packages \/ p \in Replacements
  BY DEF All
<1>5. held[Holder(p)] - 1 \in 0..Stock
  BY <1>1, <1>2
<1>6. held' \in [{Order} \cup Replacements -> 0..Stock]
  BY <1>1, <1>2, <1>5
<1>7. /\ held'[Holder(p)] = held[Holder(p)] - 1
      /\ \A h \in {Order} \cup Replacements : h # Holder(p) => held'[h] = held[h]
  BY <1>1, <1>2
<1> QED  BY <1>1, <1>3, <1>4, <1>6, <1>7

(* What the branches of an answer rely on: the types, and the unit that is *)
(* held for the package.                                                   *)
LEMMA ApplyFacts ==
    ASSUME PackagesSafe, NEW p \in All, NEW r, NEW d, Fits(p, r), Timely(p, r, d), Reads(p, r)
    PROVE  /\ TypeOK /\ row[p] \in Row /\ r \in Row /\ stock \in 0..Stock /\ Stock \in Nat
           /\ out[p] \in {0, 1} /\ row[p].status = r.status /\ row[p].status # "NONE"
           /\ refunded = released \cap Packages /\ released \in SUBSET All
           /\ p \in Packages <=> p \notin Replacements
           /\ p \in Replacements =>
                /\ Holder(p) = p /\ request[p] # "NONE"
                /\ row[p].status = "SHIPPED" <=> request[p] = "SHIPPED"
                /\ held[p] = IF request[p] = "SHIPPED" \/ p \in released THEN 0 ELSE 1
           /\ p \in Packages => Holder(p) = Order
           /\ p \in Needy <=> p \in Packages /\ r.status # "SHIPPED" /\ p \notin released
<1>1. /\ TypeOK /\ refunded = released \cap Packages
      /\ p \in Replacements => ReplacementOK(p)
  BY DEF PackagesSafe
<1>2. /\ row[p] \in Row /\ stock \in 0..Stock /\ Stock \in Nat /\ released \in SUBSET All
  BY <1>1, FulfillmentAssumption DEF TypeOK
<1>3. p \in Packages <=> p \notin Replacements
  BY FulfillmentAssumption DEF All
<1>4. p \in Replacements =>
        /\ request[p] # "NONE"
        /\ row[p].status = "SHIPPED" <=> request[p] = "SHIPPED"
        /\ held[p] = IF request[p] = "SHIPPED" \/ p \in released THEN 0 ELSE 1
  BY <1>1 DEF ReplacementOK, Reads
<1>5. row[p].status = r.status /\ row[p].status # "NONE"
  BY DEF Reads
<1> QED  BY <1>1, <1>2, <1>3, <1>4, <1>5 DEF Fits, Needy, Holder

(* An answer that leaves the books and the request alone, with a row x.    *)
LEMMA RowAnswer ==
    ASSUME PackagesSafe, NEW p \in All, NEW r, NEW d, Fits(p, r), Timely(p, r, d), Reads(p, r),
           NEW x \in Row, x.bound, x.poller = NoWorker,
           \/ SetRow(p, x)
           \/ SetRowOnly(p, x) /\ (x.status = "SHIPPED" => r.status = "SHIPPED"),
           UNCHANGED <<request, books>>,
           x.status # "NONE", x.status = "SHIPPED" <=> r.status = "SHIPPED"
    PROVE  Applied(p) /\ row'[p] = x
<1>1. /\ TypeOK /\ row[p].status = r.status /\ row[p].status # "NONE"
      /\ refunded = released \cap Packages
      /\ p \in Replacements =>
           /\ request[p] # "NONE"
           /\ row[p].status = "SHIPPED" <=> request[p] = "SHIPPED"
           /\ held[p] = IF request[p] = "SHIPPED" \/ p \in released THEN 0 ELSE 1
  BY ApplyFacts
<1>2. row' \in [All -> Row] /\ row'[p] = x /\ \A q \in All \ {p} : row'[q] = row[q]
  BY <1>1, RowReplaced
<1>3. Follows(p)
  BY <1>1, RowFollows
<1>4. /\ request' = request /\ refunded' = refunded /\ released' = released
      /\ stock' = stock /\ held' = held /\ out' = out
  BY DEF books
<1>5. Books(p)
  BY <1>1, <1>2, <1>4 DEF Books, Needy
<1>6. p \in Replacements => ReplacementOK(p)'
  BY <1>1, <1>2, <1>4 DEF ReplacementOK
<1> QED  BY <1>1, <1>2, <1>3, <1>4, <1>5, <1>6 DEF Applied, TypeOK

LEMMA QuietAnswersSafe ==
    ASSUME PackagesSafe, NEW p \in All, NEW r, NEW d, Fits(p, r), Timely(p, r, d), Reads(p, r),
           \/ KeepAsSettled(p, r, d) \/ ShipLateAgain(p, r, d) \/ WorkLate(p, r, d)
           \/ AwaitCancellation(p, r, d) \/ KeepCancelled(p, r, d)
    PROVE  Applied(p) /\ AppliedRow(p, d)
<1>1. /\ r \in Row /\ r.bound /\ d \in Details /\ out[p] \in {0, 1} /\ r.status # "NONE"
      /\ r.status = row[p].status /\ r.jifeng = row[p].jifeng
      /\ refunded = released \cap Packages /\ p \in Packages \cup Replacements
  BY ApplyFacts DEF Fits, Timely, Reads, All
<1>2. /\ Polled(r) \in Row /\ Polled(r).status = r.status /\ Polled(r).jifeng = r.jifeng
      /\ Polled(r).code = r.code /\ Polled(r).bound = r.bound /\ Polled(r).poller = NoWorker
  BY <1>1, PolledRow
<1>3. CASE KeepAsSettled(p, r, d) \/ ShipLateAgain(p, r, d)
  <2>1. Applied(p) /\ row'[p] = Polled(r)
    BY <1>1, <1>2, <1>3, RowAnswer DEF KeepAsSettled, ShipLateAgain, Late
  <2>2. /\ out'[p] = out[p] /\ released' = released
        /\ Settled(r, d) \/ (Late(r) /\ d = Shipped /\ r.code = "SHIPPED_AFTER_CANCEL" /\ ~Settled(r, d))
    BY <1>3 DEF KeepAsSettled, ShipLateAgain, books
  <2>3. r.code = "ACTIVE_AFTER_CANCEL" => d # Shipped
    BY <1>1, <2>2 DEF Settled, Fits
  <2>4. r.status = "CANCELLED" /\ r.jifeng = Cancelled =>
          row'[p].status = "CANCELLED" /\ row'[p].jifeng = Cancelled
    BY <1>2, <2>1
  <2> QED  BY <1>1, <1>2, <2>1, <2>2, <2>3, <2>4 DEF AppliedRow, Fits
<1>4. CASE WorkLate(p, r, d)
  <2> DEFINE x == [Polled(r) EXCEPT !.status = "EXCEPTION", !.jifeng = d,
                                    !.code = "ACTIVE_AFTER_CANCEL"]
  <2>1. /\ x \in Row /\ x.status = "EXCEPTION" /\ x.jifeng = d /\ x.code = "ACTIVE_AFTER_CANCEL"
        /\ x.bound = r.bound /\ x.poller = NoWorker
    BY <1>1 DEF Polled, Row, Details
  <2>2. /\ SetRowOnly(p, x) /\ UNCHANGED <<request, books>> /\ ~Settled(r, d) /\ Late(r)
        /\ d # Shipped /\ d # Cancelled
    BY <1>4 DEF WorkLate
  <2> HIDE DEF x
  <2>3. r.status # "SHIPPED"
    BY <2>2 DEF Settled
  <2>4. Applied(p) /\ row'[p] = x
    BY <1>1, <2>1, <2>2, <2>3, RowAnswer
  <2>5. out'[p] = out[p] /\ released' = released
    BY <2>2 DEF books
  <2>6. out[p] = 0
    BY <1>1, <2>2, <2>3 DEF Timely
  <2>7. p \in released
    BY <2>2, <2>6 DEF Late, Fits
  <2>8. ~(r.status = "CANCELLED" /\ r.jifeng = Cancelled)
    BY <2>2 DEF Settled
  <2> QED  BY <1>1, <2>1, <2>2, <2>4, <2>5, <2>6, <2>7, <2>8 DEF AppliedRow
<1>5. CASE AwaitCancellation(p, r, d)
  <2> DEFINE x == [Polled(r) EXCEPT !.jifeng = d, !.code = "OTHER"]
  <2>1. /\ x \in Row /\ x.status = r.status /\ x.jifeng = d /\ x.code = "OTHER"
        /\ x.bound = r.bound /\ x.poller = NoWorker
    BY <1>1 DEF Polled, Row, Details
  <2>2. /\ SetRowOnly(p, x) /\ UNCHANGED <<request, books>> /\ r.status = "CANCEL_PENDING"
        /\ ~Late(r) /\ d # Shipped /\ d # Cancelled
    BY <1>5 DEF AwaitCancellation
  <2> HIDE DEF x
  <2>3. Applied(p) /\ row'[p] = x
    BY <1>1, <2>1, <2>2, RowAnswer
  <2>4. out'[p] = out[p] /\ released' = released
    BY <2>2 DEF books
  <2>5. out[p] = 0
    BY <1>1, <2>2 DEF Timely
  <2>6. p \in released => SoldOut /\ remote[p] = Shipped
    BY <2>2, <2>5 DEF Late, Fits
  <2> QED  BY <1>1, <2>1, <2>2, <2>3, <2>4, <2>5, <2>6 DEF AppliedRow
<1>6. CASE KeepCancelled(p, r, d)
  <2>1. /\ SetRow(p, Polled(r)) /\ UNCHANGED <<request, books>> /\ r.status = "CANCELLED"
        /\ d = Cancelled
    BY <1>6 DEF KeepCancelled, AlreadyCancelled
  <2>2. Applied(p) /\ row'[p] = Polled(r)
    BY <1>1, <1>2, <2>1, RowAnswer
  <2>3. out'[p] = out[p] /\ released' = released
    BY <2>1 DEF books
  <2> QED  BY <1>1, <1>2, <2>1, <2>2, <2>3, Codes DEF AppliedRow, Fits
<1> QED  BY <1>3, <1>4, <1>5, <1>6

(* A package under way again, or held up.                                  *)
LEMMA WorkingAnswersSafe ==
    ASSUME PackagesSafe, NEW p \in All, NEW r, NEW d, Fits(p, r), Timely(p, r, d), Reads(p, r),
           HoldUp(p, r, d) \/ Proceed(p, r, d)
    PROVE  Applied(p) /\ AppliedRow(p, d)
<1> DEFINE s == IF d = HeldUp THEN "EXCEPTION" ELSE "FULFILLING"
           c == IF d = HeldUp THEN "OTHER" ELSE "NONE"
           x == [Polled(r) EXCEPT !.status = s, !.jifeng = d, !.code = c]
<1>1. /\ TypeOK /\ r \in Row /\ r.bound /\ d \in Details /\ out[p] \in {0, 1}
      /\ row[p].status = r.status /\ row[p].status # "NONE"
      /\ refunded = released \cap Packages
      /\ p \in Replacements =>
           /\ request[p] # "NONE"
           /\ row[p].status = "SHIPPED" <=> request[p] = "SHIPPED"
           /\ held[p] = IF request[p] = "SHIPPED" \/ p \in released THEN 0 ELSE 1
  BY ApplyFacts DEF Fits, Timely
<1>2. /\ x \in Row /\ x.status = s /\ x.jifeng = d /\ x.code = c
      /\ x.bound = r.bound /\ x.poller = NoWorker
  BY ZenonT(40), <1>1 DEF Polled, Row, Details
<1>3. /\ SetRow(p, x) /\ SetRequest(p, s) /\ UNCHANGED books
      /\ ~Settled(r, d) /\ ~Late(r) /\ d # Shipped /\ d # Cancelled
  <2>1. CASE HoldUp(p, r, d)
    <3>1. s = "EXCEPTION" /\ c = "OTHER" /\ d = HeldUp
      BY <2>1 DEF HoldUp
    <3>2. /\ SetRow(p, x) /\ SetRequest(p, s)
      BY <2>1, <3>1 DEF HoldUp
    <3> QED  BY <2>1, <3>1, <3>2, Codes DEF HoldUp
  <2>2. CASE Proceed(p, r, d)
    <3>1. s = "FULFILLING" /\ c = "NONE" /\ d = Active
      BY <2>2, Codes DEF Proceed
    <3>2. /\ SetRow(p, x) /\ SetRequest(p, s)
      BY <2>2, <3>1 DEF Proceed
    <3> QED  BY <2>2, <3>1, <3>2, Codes DEF Proceed
  <2> QED  BY <2>1, <2>2
<1>4. s \in {"EXCEPTION", "FULFILLING"} /\ c \in {"OTHER", "NONE"} /\ s \in RequestStatus
  BY DEF RequestStatus
<1> HIDE DEF s, c, x
<1>5. r.status # "SHIPPED" /\ r.status # "CANCELLED"
  BY <1>3 DEF Settled, Late
<1>6. row' \in [All -> Row] /\ row'[p] = x /\ \A q \in All \ {p} : row'[q] = row[q]
  BY <1>1, <1>2, <1>3, RowReplaced
<1>7. Follows(p)
  BY <1>1, <1>2, <1>3, <1>5, RowFollows
<1>8. /\ request' \in [Replacements -> RequestStatus]
      /\ \A q \in Replacements \ {p} : request'[q] = request[q]
      /\ p \in Replacements => request'[p] = s
  BY <1>1, <1>3, <1>4, RequestSet
<1>9. /\ refunded' = refunded /\ released' = released
      /\ stock' = stock /\ held' = held /\ out' = out
  BY <1>3 DEF books
<1>10. Books(p)
  BY <1>1, <1>2, <1>4, <1>5, <1>6, <1>9 DEF Books, Needy
<1>11. p \in Replacements => ReplacementOK(p)'
  BY <1>1, <1>2, <1>4, <1>5, <1>6, <1>8, <1>9 DEF ReplacementOK
<1>12. Applied(p)
  BY <1>1, <1>2, <1>6, <1>7, <1>8, <1>9, <1>10, <1>11 DEF Applied, TypeOK
<1>13. out[p] = 0
  BY <1>1, <1>3, <1>5 DEF Timely
<1>14. p \in released => SoldOut /\ remote[p] = Shipped
  BY <1>3, <1>5, <1>13 DEF Late, Fits
<1> QED  BY <1>1, <1>2, <1>4, <1>5, <1>6, <1>9, <1>12, <1>13, <1>14 DEF AppliedRow

(* Goods leave stock: for a package that still has its reservation ...     *)
LEMMA ShipSafe ==
    ASSUME PackagesSafe, NEW p \in All, NEW r, NEW d, Fits(p, r), Timely(p, r, d), Reads(p, r),
           Ship(p, r, d)
    PROVE  Applied(p) /\ AppliedRow(p, d)
<1> DEFINE x == [Polled(r) EXCEPT !.status = "SHIPPED", !.jifeng = Shipped, !.code = "NONE"]
<1>1. /\ TypeOK /\ r \in Row /\ r.bound /\ out[p] \in {0, 1}
      /\ row[p].status = r.status /\ row[p].status # "NONE"
      /\ stock \in 0..Stock /\ Stock \in Nat
      /\ refunded = released \cap Packages
      /\ p \in Packages <=> p \notin Replacements
      /\ p \in Replacements =>
           /\ Holder(p) = p
           /\ request[p] # "NONE"
           /\ row[p].status = "SHIPPED" <=> request[p] = "SHIPPED"
           /\ held[p] = IF request[p] = "SHIPPED" \/ p \in released THEN 0 ELSE 1
      /\ p \in Needy <=> p \in Packages /\ r.status # "SHIPPED" /\ p \notin released
  BY ApplyFacts DEF Fits
<1>2. /\ x \in Row /\ x.status = "SHIPPED" /\ x.jifeng = Shipped /\ x.code = "NONE"
      /\ x.bound = r.bound /\ x.poller = NoWorker
  BY <1>1 DEF Polled, Row, Details
<1>3. /\ SetRow(p, x) /\ SetRequest(p, "SHIPPED") /\ d = Shipped
      /\ ~Settled(r, d) /\ ~Late(r) /\ ~SoldOut /\ held[Holder(p)] >= 1
      /\ stock' = stock - 1 /\ held' = [held EXCEPT ![Holder(p)] = @ - 1]
      /\ out' = [out EXCEPT ![p] = @ + 1] /\ refunded' = refunded /\ released' = released
  BY DEF Ship, InStock
<1> HIDE DEF x
<1>4. /\ r.status # "SHIPPED" /\ r.code # "SHIPPED_AFTER_CANCEL"
      /\ r.code # "ACTIVE_AFTER_CANCEL" /\ r.status # "CANCELLED"
  BY <1>3, Codes DEF Settled, Late
<1>5. out[p] = 0 /\ p \notin released /\ remote[p] = Shipped
  BY <1>1, <1>3, <1>4 DEF Fits, Timely
<1>6. stock >= 1
  BY <1>1, <1>3 DEF SoldOut
<1>7. row' \in [All -> Row] /\ row'[p] = x /\ \A q \in All \ {p} : row'[q] = row[q]
  BY <1>1, <1>2, <1>3, RowReplaced
<1>8. Follows(p)
  BY <1>1, <1>2, <1>3, <1>4, RowFollows
<1>9. /\ request' \in [Replacements -> RequestStatus]
      /\ \A q \in Replacements \ {p} : request'[q] = request[q]
      /\ p \in Replacements => request'[p] = "SHIPPED"
  BY <1>1, <1>3, RequestSet DEF RequestStatus
<1>10. /\ held' \in [{Order} \cup Replacements -> 0..Stock]
       /\ \A q \in Replacements \ {p} : held'[q] = held[q]
       /\ p \in Replacements => held'[p] = held[p] - 1 /\ held'[Order] = held[Order]
       /\ p \in Packages => held'[Order] = held[Order] - 1
  BY <1>1, <1>3, HeldReduced
<1>11. out' \in [All -> 0..Stock] /\ out'[p] = 1 /\ \A q \in All \ {p} : out'[q] = out[q]
  BY <1>1, <1>3, <1>5, <1>6 DEF TypeOK
<1>12. Books(p)
  BY <1>1, <1>2, <1>3, <1>4, <1>5, <1>6, <1>7, <1>10, <1>11 DEF Books, Needy
<1>13. p \in Replacements => ReplacementOK(p)'
  <2>1. p \in Replacements => held'[p] = 0
    BY <1>1, <1>4, <1>5, <1>10
  <2> QED  BY <1>1, <1>2, <1>7, <1>9, <2>1 DEF ReplacementOK
<1>14. Applied(p)
  BY <1>1, <1>2, <1>3, <1>7, <1>8, <1>9, <1>10, <1>11, <1>12, <1>13 DEF Applied
<1>15. AppliedRow(p, d)
  BY <1>1, <1>2, <1>3, <1>4, <1>5, <1>7, <1>11 DEF AppliedRow, Reads
<1> QED  BY <1>14, <1>15

(* ... and for one that was cancelled here.                                *)
LEMMA ShipLateSafe ==
    ASSUME PackagesSafe, NEW p \in All, NEW r, NEW d, Fits(p, r), Timely(p, r, d), Reads(p, r),
           ShipLate(p, r, d)
    PROVE  Applied(p) /\ AppliedRow(p, d)
<1> DEFINE x == [Polled(r) EXCEPT !.status = "EXCEPTION", !.jifeng = Shipped,
                                  !.code = "SHIPPED_AFTER_CANCEL"]
<1>1. /\ TypeOK /\ r \in Row /\ r.bound /\ out[p] \in {0, 1}
      /\ row[p].status = r.status /\ row[p].status # "NONE"
      /\ stock \in 0..Stock /\ Stock \in Nat
      /\ refunded = released \cap Packages
      /\ p \in Replacements =>
           /\ request[p] # "NONE"
           /\ row[p].status = "SHIPPED" <=> request[p] = "SHIPPED"
           /\ held[p] = IF request[p] = "SHIPPED" \/ p \in released THEN 0 ELSE 1
      /\ p \in Needy <=> p \in Packages /\ r.status # "SHIPPED" /\ p \notin released
  BY ApplyFacts DEF Fits
<1>2. /\ x \in Row /\ x.status = "EXCEPTION" /\ x.jifeng = Shipped
      /\ x.code = "SHIPPED_AFTER_CANCEL" /\ x.bound = r.bound /\ x.poller = NoWorker
  BY <1>1 DEF Polled, Row, Details
<1>3. /\ SetRowOnly(p, x) /\ d = Shipped
      /\ ~Settled(r, d) /\ Late(r) /\ r.code # "SHIPPED_AFTER_CANCEL" /\ ~SoldOut
      /\ stock' = stock - 1 /\ out' = [out EXCEPT ![p] = @ + 1]
      /\ request' = request /\ refunded' = refunded /\ released' = released /\ held' = held
  BY DEF ShipLate
<1> HIDE DEF x
<1>4. r.status # "SHIPPED" /\ ~(r.status = "CANCELLED" /\ r.jifeng = Cancelled)
  BY <1>3, Codes DEF Settled
<1>5. out[p] = 0 /\ p \in released /\ remote[p] = Shipped
  BY <1>1, <1>3, <1>4 DEF Fits, Timely, Late
<1>6. stock >= 1
  BY <1>1, <1>3 DEF SoldOut
<1>7. row' \in [All -> Row] /\ row'[p] = x /\ \A q \in All \ {p} : row'[q] = row[q]
  BY <1>1, <1>2, <1>3, RowReplaced
<1>8. Follows(p)
  BY <1>1, <1>2, <1>3, <1>4, RowFollows
<1>9. out' \in [All -> 0..Stock] /\ out'[p] = 1 /\ \A q \in All \ {p} : out'[q] = out[q]
  BY <1>1, <1>3, <1>5, <1>6 DEF TypeOK
<1>10. Books(p)
  BY <1>1, <1>2, <1>3, <1>5, <1>6, <1>7, <1>9 DEF Books, Needy
<1>11. p \in Replacements => ReplacementOK(p)'
  BY <1>1, <1>2, <1>3, <1>4, <1>7 DEF ReplacementOK
<1>12. Applied(p)
  BY <1>1, <1>2, <1>3, <1>7, <1>8, <1>9, <1>10, <1>11 DEF Applied, TypeOK
<1>13. AppliedRow(p, d)
  BY <1>1, <1>2, <1>3, <1>4, <1>5, <1>7, <1>9 DEF AppliedRow, Reads
<1> QED  BY <1>12, <1>13

(* A cancellation frees the unit once.                                     *)
LEMMA CancelSafe ==
    ASSUME PackagesSafe, NEW p \in All, NEW r, NEW d, Fits(p, r), Timely(p, r, d), Reads(p, r),
           Cancel(p, r, d)
    PROVE  Applied(p) /\ AppliedRow(p, d)
<1> DEFINE x == [Polled(r) EXCEPT !.status = "CANCELLED", !.jifeng = Cancelled, !.code = "NONE"]
<1>1. /\ TypeOK /\ r \in Row /\ r.bound /\ out[p] \in {0, 1}
      /\ row[p].status = r.status /\ row[p].status # "NONE"
      /\ refunded = released \cap Packages /\ released \in SUBSET All
      /\ p \in Packages <=> p \notin Replacements
      /\ p \in Replacements =>
           /\ Holder(p) = p
           /\ request[p] # "NONE"
           /\ row[p].status = "SHIPPED" <=> request[p] = "SHIPPED"
           /\ held[p] = IF request[p] = "SHIPPED" \/ p \in released THEN 0 ELSE 1
      /\ p \in Needy <=> p \in Packages /\ r.status # "SHIPPED" /\ p \notin released
  BY ApplyFacts DEF Fits
<1>2. /\ x \in Row /\ x.status = "CANCELLED" /\ x.jifeng = Cancelled /\ x.code = "NONE"
      /\ x.bound = r.bound /\ x.poller = NoWorker
  BY <1>1 DEF Polled, Row, Details
<1>3. /\ SetRow(p, x) /\ SetRequest(p, "CANCELLED") /\ d = Cancelled
      /\ r.status # "SHIPPED" /\ (ReleasedBefore(p, r) \/ ~(held[Holder(p)] < 1))
      /\ held' = IF ReleasedBefore(p, r) THEN held ELSE [held EXCEPT ![Holder(p)] = @ - 1]
      /\ stock' = stock /\ out' = out
      /\ refunded' = refunded \cup ({p} \cap Packages) /\ released' = released \cup {p}
  BY DEF Cancel, LacksReservation
<1> HIDE DEF x
<1>4. remote[p] = Cancelled /\ Cancelled # Shipped
  BY <1>3, Codes DEF Timely
<1>5. out[p] = 0
  BY <1>1, <1>4 DEF Fits
<1>6. ReleasedBefore(p, r) <=> p \in released
  BY <1>4, <1>5 DEF Fits, ReleasedBefore
<1>7. row' \in [All -> Row] /\ row'[p] = x /\ \A q \in All \ {p} : row'[q] = row[q]
  BY <1>1, <1>2, <1>3, RowReplaced
<1>8. Follows(p)
  BY <1>1, <1>2, <1>3, RowFollows
<1>9. /\ request' \in [Replacements -> RequestStatus]
      /\ \A q \in Replacements \ {p} : request'[q] = request[q]
      /\ p \in Replacements => request'[p] = "CANCELLED"
  BY <1>1, <1>3, RequestSet DEF RequestStatus
<1>10. /\ held' \in [{Order} \cup Replacements -> 0..Stock]
       /\ \A q \in Replacements \ {p} : held'[q] = held[q]
       /\ p \in Replacements => held'[p] = 0
       /\ p \in Packages => held'[Order] = IF p \in released THEN held[Order]
                                                             ELSE held[Order] - 1
       /\ p \in Replacements => held'[Order] = held[Order]
  <2>1. CASE p \in released
    BY <1>1, <1>3, <1>6, <2>1 DEF TypeOK
  <2>2. CASE p \notin released
    <3>1. held' = [held EXCEPT ![Holder(p)] = @ - 1]
      BY <1>3, <1>6, <2>2
    <3>2. Holder(p) \in {Order} \cup Replacements
      BY DEF Holder
    <3>3. held[Holder(p)] \in Nat /\ ~(held[Holder(p)] < 1)
      BY <1>1, <1>3, <1>6, <2>2, <3>2 DEF TypeOK
    <3>4. held[Holder(p)] >= 1
      BY <3>3
    <3>5. /\ held' \in [{Order} \cup Replacements -> 0..Stock]
          /\ \A q \in Replacements \ {p} : held'[q] = held[q]
          /\ p \in Replacements => held'[p] = held[p] - 1 /\ held'[Order] = held[Order]
          /\ p \in Packages => held'[Order] = held[Order] - 1
      BY <1>1, <3>1, <3>4, HeldReduced
    <3>6. p \in Replacements => held[p] = 1
      BY <1>1, <1>3, <2>2
    <3> QED  BY <2>2, <3>5, <3>6
  <2> QED  BY <2>1, <2>2
<1>11. Books(p)
  <2>1. p \notin Needy'
    BY <1>3 DEF Needy
  <2>2. p \in Needy <=> p \in Packages /\ p \notin released
    BY <1>1, <1>3
  <2>3. \/ held'[Order] = held[Order] /\ (p \in Needy <=> p \in Needy')
        \/ p \in Needy /\ p \notin Needy' /\ held'[Order] = held[Order] - 1
    BY <1>1, <1>10, <2>1, <2>2
  <2> QED  BY <1>3, <2>3 DEF Books
<1>12. p \in Replacements => ReplacementOK(p)'
  BY <1>1, <1>2, <1>3, <1>7, <1>9, <1>10 DEF ReplacementOK
<1>13. Applied(p)
  BY <1>1, <1>2, <1>3, <1>7, <1>8, <1>9, <1>10, <1>11, <1>12 DEF Applied, TypeOK
<1>14. AppliedRow(p, d)
  BY <1>1, <1>2, <1>3, <1>4, <1>5, <1>7 DEF AppliedRow, Reads
<1> QED  BY <1>13, <1>14

(* Whatever Jifeng answers.                                                *)
LEMMA ApplySafe ==
    ASSUME PackagesSafe, NEW p \in All, NEW r, NEW d, Fits(p, r), Timely(p, r, d), Reads(p, r),
           Apply(p, r, d)
    PROVE  Applied(p) /\ AppliedRow(p, d)
<1>1. CASE \/ KeepAsSettled(p, r, d) \/ ShipLateAgain(p, r, d) \/ WorkLate(p, r, d)
           \/ AwaitCancellation(p, r, d) \/ KeepCancelled(p, r, d)
  BY <1>1, QuietAnswersSafe
<1>2. CASE HoldUp(p, r, d) \/ Proceed(p, r, d)
  BY <1>2, WorkingAnswersSafe
<1>3. CASE Ship(p, r, d)
  BY <1>3, ShipSafe
<1>4. CASE ShipLate(p, r, d)
  BY <1>4, ShipLateSafe
<1>5. CASE Cancel(p, r, d)
  BY <1>5, CancelSafe
<1> QED  BY <1>1, <1>2, <1>3, <1>4, <1>5 DEF Apply
-----------------------------------------------------------------------------
(* Jobs that begin, wait and end.                                          *)

LEMMA IdleOK ==
    ASSUME NEW w \in Workers, job' = [job EXCEPT ![w] = Idle], job \in [Workers -> Job]
    PROVE  /\ JobOK(w)' /\ job' \in [Workers -> Job]
           /\ \A u \in Workers \ {w} : job'[u] = job[u]
<1>1. job'[w] = Idle /\ Idle \in Job
  BY DEF Idle, Job, Absent
<1>2. Idle.task = "idle" /\ Idle.answer = Absent /\ Absent \notin {Shipped, Cancelled}
  BY DEF Idle, Absent, Shipped, Cancelled
<1>3. AnswerOK(w)' /\ CallOK(w)' /\ MatchOK(w)'
  BY <1>1, <1>2 DEF AnswerOK, CallOK, MatchOK
<1> QED  BY <1>1, <1>2, <1>3 DEF JobOK

(* Nothing is written but what one worker does.                            *)
LEMMA JobStepSafe ==
    ASSUME PackagesSafe, NEW w \in Workers,
           UNCHANGED <<parent, row, event, request, books, remote, retries>>,
           job' \in [Workers -> Job], \A u \in Workers \ {w} : job'[u] = job[u], JobOK(w)'
    PROVE  PackagesSafe'
<1>1. /\ parent' = parent /\ row' = row /\ event' = event /\ request' = request
      /\ refunded' = refunded /\ released' = released /\ stock' = stock /\ held' = held
      /\ out' = out /\ remote' = remote /\ retries' = retries
  BY DEF books
<1>2. /\ TypeOK' /\ refunded' = released' \cap Packages
      /\ Booked' = Booked /\ Needy' = Needy
  BY <1>1 DEF PackagesSafe, TypeOK, Booked, Needy
<1>3. \A p \in All : PackageOK(p)'
  BY <1>1 DEF PackagesSafe, PackageOK, BindingOK, GoodsOK, CancellationOK, Lost, Orphan,
              WorkedOn, SoldOut
<1>4. \A r \in Replacements : ReplacementOK(r)'
  BY <1>1 DEF PackagesSafe, ReplacementOK
<1>5. ParentOK'
  BY <1>1 DEF PackagesSafe, ParentOK
<1>6. \A u \in Workers : JobOK(u)'
  <2> SUFFICES ASSUME NEW u \in Workers, u # w
               PROVE  JobOK(u)'
    OBVIOUS
  <2>1. JobOK(u) /\ job'[u] = job[u]
    BY DEF PackagesSafe
  <2> QED  BY <1>1, <2>1 DEF JobOK, AnswerOK, CallOK, MatchOK, OwnsEvent, Lost, SoldOut
<1>7. stock' = Stock - Cardinality(Booked') /\ held'[Order] = Cardinality(Needy')
  BY <1>1, <1>2 DEF PackagesSafe
<1> QED  BY <1>2, <1>3, <1>4, <1>5, <1>6, <1>7 DEF PackagesSafe

(* A claim is taken or given back, and nothing else is written.            *)
LEMMA ClaimStepSafe ==
    ASSUME PackagesSafe, NEW p \in All, NEW w,
           row' \in [All -> Row], \A q \in All \ {p} : row'[q] = row[q],
           row'[p].status = row[p].status, row'[p].jifeng = row[p].jifeng,
           row'[p].code = row[p].code, row'[p].bound = row[p].bound,
           row'[p].poller \in {row[p].poller, w, NoWorker}, row[p].status # "NONE",
           event' \in [All -> Event], \A q \in All \ {p} : event'[q] = event[q],
           event'[p].status = event[p].status, event'[p].token = event[p].token,
           event'[p].note = event[p].note,
           UNCHANGED <<parent, request, books, remote, retries>>,
           job' \in [Workers -> Job], \A u \in Workers \ {w} : job'[u] = job[u],
           w \in Workers => JobOK(w)'
    PROVE  PackagesSafe'
<1>1. /\ parent' = parent /\ request' = request
      /\ refunded' = refunded /\ released' = released /\ stock' = stock /\ held' = held
      /\ out' = out /\ remote' = remote /\ retries' = retries
  BY DEF books
<1>2. TypeOK /\ PackageOK(p) /\ refunded = released \cap Packages
      /\ (p \in Replacements => ReplacementOK(p))
  BY DEF PackagesSafe
<1>3. Only(p)
  BY <1>1, <1>2 DEF Only, TypeOK
<1>4. Books(p)
  BY <1>1 DEF Books, Needy
<1>5. Follows(p)
  BY <1>1 DEF Follows
<1>6. Respects(w, p)
  BY <1>1 DEF Respects
<1>7. PackageOK(p)'
  BY <1>1, <1>2 DEF PackageOK, BindingOK, GoodsOK, CancellationOK, Lost, Orphan, WorkedOn, SoldOut
<1>8. p \in Replacements => ReplacementOK(p)'
  BY <1>1, <1>2 DEF ReplacementOK
<1>9. retries' \in 0..MaxRetries
  BY <1>1, <1>2 DEF TypeOK
<1> QED  BY <1>3, <1>4, <1>5, <1>6, <1>7, <1>8, <1>9, PackageStepSafe

(* An answer is applied, and the event of the package is completed unless  *)
(* the package is lost.                                                    *)
LEMMA AnswerStepSafe ==
    ASSUME PackagesSafe, NEW p \in All, NEW w \in Workers, NEW r, NEW d,
           Fits(p, r), Timely(p, r, d), Reads(p, r), Apply(p, r, d),
           event' \in [All -> Event], \A q \in All \ {p} : event'[q] = event[q],
           event'[p].status = "COMPLETED" \/ (event' = event /\ Lost(p) /\ d = Shipped),
           job' = [job EXCEPT ![w] = Idle], remote' = remote, retries' = retries
    PROVE  PackagesSafe'
<1>1. Applied(p) /\ AppliedRow(p, d)
  BY ApplySafe
<1>2. /\ TypeOK /\ out[p] \in {0, 1} /\ stock \in 0..Stock /\ Stock \in Nat
  BY ApplyFacts
<1>3. Only(p)
  BY <1>1 DEF Applied, Only
<1>4. Books(p) /\ Follows(p) /\ (p \in Replacements => ReplacementOK(p)')
  BY <1>1 DEF Applied
<1>5. out'[p] = out[p] \/ (out[p] = 0 /\ out'[p] = 1)
  BY <1>4 DEF Books
<1>6. SoldOut => out'[p] = out[p] /\ stock' = stock
  BY <1>1, <1>2, <1>4 DEF AppliedRow, Books, SoldOut
<1>7. Lost(p) => Lost(p)'
  BY <1>1, <1>3, <1>6 DEF Lost, SoldOut, Applied
<1>8. Respects(w, p)
  BY <1>1, <1>7 DEF Respects, Applied, AppliedRow
<1>9. BindingOK(p)'
  BY <1>1, <1>7 DEF BindingOK, Applied, AppliedRow
<1>10. GoodsOK(p)'
  <2>1. out'[p] = 1 => event'[p].status = "COMPLETED"
    BY <1>6 DEF Lost
  <2> QED  BY <1>1, <1>2, <1>3, <1>5, <2>1 DEF GoodsOK, Applied, AppliedRow, Only
<1>11. CancellationOK(p)'
  <2>1. row'[p].code = "ACTIVE_AFTER_CANCEL" => WorkedOn(p)'
    BY <1>1 DEF WorkedOn, Applied, AppliedRow
  <2>2. SoldOut /\ remote[p] = Shipped /\ out'[p] = 0 => Lost(p)'
    BY <1>1, <1>3, <1>6 DEF Lost, SoldOut, Applied, Only
  <2> QED  BY <1>1, <2>1, <2>2 DEF CancellationOK, AppliedRow
<1>12. JobOK(w)' /\ job' \in [Workers -> Job] /\ \A u \in Workers \ {w} : job'[u] = job[u]
  BY <1>2, IdleOK DEF TypeOK
<1>13. retries' \in 0..MaxRetries
  BY <1>2 DEF TypeOK
<1> QED  BY <1>3, <1>4, <1>8, <1>9, <1>10, <1>11, <1>12, <1>13, PackageStepSafe DEF PackageOK

LEMMA Started ==
    ASSUME TypeOK, NEW w \in Workers, NEW p \in All,
           NEW t \in {"enqueue", "poll", "refresh", "cancel", "call"}, Start(w, t, p)
    PROVE  /\ job' \in [Workers -> Job] /\ \A u \in Workers \ {w} : job'[u] = job[u]
           /\ job'[w].task = t /\ job'[w].pkg = p /\ job'[w].answer = Absent
           /\ (t \in {"enqueue", "cancel"} => p \in Packages) /\ CallOK(w)' => JobOK(w)'
<1> DEFINE j == [Idle EXCEPT !.task = t, !.pkg = p]
<1>1. j \in Job /\ j.task = t /\ j.pkg = p /\ j.answer = Absent
  BY DEF Idle, Job, Absent
<1>2. job \in [Workers -> Job] /\ job' = [job EXCEPT ![w] = j]
  BY DEF TypeOK, Start
<1> HIDE DEF j
<1>3. job' \in [Workers -> Job] /\ job'[w] = j /\ \A u \in Workers \ {w} : job'[u] = job[u]
  BY <1>1, <1>2
<1>4. Absent \notin {Shipped, Cancelled}
  BY DEF Absent, Shipped, Cancelled
<1>5. AnswerOK(w)' /\ MatchOK(w)'
  BY <1>1, <1>3, <1>4 DEF AnswerOK, MatchOK
<1> QED  BY <1>1, <1>3, <1>5 DEF JobOK

LEMMA EnqueueReadSafe ==
    ASSUME PackagesSafe, NEW w \in Workers, NEW p \in All, EnqueueRead(w, p)
    PROVE  PackagesSafe'
<1>1. TypeOK /\ Start(w, "enqueue", p) /\ p \in Packages
  BY DEF EnqueueRead, PackagesSafe
<1>2. /\ job' \in [Workers -> Job] /\ \A u \in Workers \ {w} : job'[u] = job[u]
      /\ job'[w].task = "enqueue" /\ job'[w].pkg = p /\ job'[w].answer = Absent
      /\ CallOK(w)' => JobOK(w)'
  BY <1>1, Started
<1>3. CallOK(w)'
  BY <1>2 DEF CallOK
<1> QED  BY <1>2, <1>3, JobStepSafe DEF EnqueueRead

LEMMA EndsSafe ==
    ASSUME PackagesSafe, NEW w \in Workers, Crash(w) \/ PollStale(w) \/ MatchStale(w)
    PROVE  PackagesSafe'
<1>1. job' = [job EXCEPT ![w] = Idle] /\ job \in [Workers -> Job]
  BY DEF Crash, PollStale, MatchStale, Finish, PackagesSafe, TypeOK
<1>2. UNCHANGED <<parent, row, event, request, books, remote, retries>>
  BY DEF Crash, PollStale, MatchStale
<1> QED  BY <1>1, <1>2, IdleOK, JobStepSafe

LEMMA AnswerSafe ==
    ASSUME PackagesSafe, NEW w \in Workers, Answer(w)
    PROVE  PackagesSafe'
<1> DEFINE p == job[w].pkg
           j == [job[w] EXCEPT !.answer = remote[p]]
<1>1. /\ job[w].task \in {"poll", "refresh", "match"} /\ remote[p] # Absent
      /\ job[w].task # "match" => row[p].bound
      /\ job' = [job EXCEPT ![w] = j]
      /\ UNCHANGED <<parent, row, event, request, books, remote, retries>>
  BY DEF Answer
<1>2. /\ job \in [Workers -> Job] /\ job[w] \in Job /\ JobOK(w) /\ TypeOK
  BY DEF PackagesSafe, TypeOK
<1>3. p \in All
  BY <1>1, <1>2 DEF JobOK
<1>4. remote[p] \in {Absent} \cup Details /\ PackageOK(p)
  BY <1>2, <1>3 DEF TypeOK, PackagesSafe
<1>5. /\ j \in Job /\ j.task = job[w].task /\ j.pkg = p /\ j.answer = remote[p]
      /\ j.watch = job[w].watch
  BY <1>2, <1>4 DEF Job
<1> HIDE DEF j
<1>6. job' \in [Workers -> Job] /\ job'[w] = j /\ \A u \in Workers \ {w} : job'[u] = job[u]
  BY <1>1, <1>2, <1>5
<1>7. /\ row' = row /\ event' = event /\ remote' = remote /\ out' = out /\ stock' = stock
      /\ released' = released
  BY <1>1 DEF books
<1>8. row[p].bound /\ event[p].status # "COMPLETED" => remote[p] = Shipped
  BY <1>4 DEF PackageOK, BindingOK, Lost
<1>9. out[p] = 1 => remote[p] = Shipped
  BY <1>4 DEF PackageOK, GoodsOK
<1> HIDE DEF p
<1>10. AnswerOK(w)'
  BY <1>1, <1>5, <1>6, <1>7, <1>8, <1>9 DEF AnswerOK
<1>11. CallOK(w)'
  BY <1>1, <1>5, <1>6 DEF CallOK
<1>12. MatchOK(w)'
  BY <1>1, <1>2, <1>5, <1>6, <1>7 DEF MatchOK, JobOK, OwnsEvent, Lost, SoldOut, p
<1>13. JobOK(w)'
  BY <1>1, <1>3, <1>5, <1>6, <1>10, <1>11, <1>12 DEF JobOK
<1> QED  BY <1>1, <1>6, <1>13, JobStepSafe

LEMMA ClaimSafe ==
    ASSUME PackagesSafe, NEW w \in Workers, NEW p \in All, ClaimPoll(w, p) \/ ClaimRefresh(w, p)
    PROVE  PackagesSafe'
<1>1. PICK t \in {"poll", "refresh"} : ClaimAs(t, w, p)
  BY DEF ClaimPoll, ClaimRefresh
<1>2. row[p].status # "NONE"
  BY DEF ClaimPoll, ClaimRefresh, Pollable, Refreshable
<1>3. TypeOK /\ row \in [All -> Row] /\ event \in [All -> Event]
  BY DEF PackagesSafe, TypeOK
<1>4. job' \in [Workers -> Job] /\ \A u \in Workers \ {w} : job'[u] = job[u]
  BY <1>1, <1>3, Started DEF ClaimAs
<1>5. job'[w].task = t
  BY <1>1, <1>3, Started DEF ClaimAs
<1>6. CallOK(w)'
  BY <1>5 DEF CallOK
<1> DEFINE x == [row[p] EXCEPT !.poller = w, !.fresh = TRUE]
<1>7. row' = [row EXCEPT ![p] = x] /\ UNCHANGED <<parent, event, request, books, remote, retries>>
  BY <1>1, <1>3 DEF ClaimAs
<1>8. /\ x \in Row /\ x.status = row[p].status /\ x.jifeng = row[p].jifeng
      /\ x.code = row[p].code /\ x.bound = row[p].bound /\ x.poller = w
  BY <1>3 DEF Row
<1> HIDE DEF x
<1>9. row' \in [All -> Row] /\ row'[p] = x /\ \A q \in All \ {p} : row'[q] = row[q]
  BY <1>3, <1>7, <1>8
<1>10. JobOK(w)'
  BY <1>1, <1>3, <1>6, Started DEF ClaimAs
<1> QED  BY <1>2, <1>3, <1>4, <1>7, <1>8, <1>9, <1>10, ClaimStepSafe
-----------------------------------------------------------------------------
(* Polling.                                                                *)

(* The row of a bound package fits, as it is and as a match binds it.      *)
LEMMA RowFits ==
    ASSUME PackagesSafe, NEW p \in All
    PROVE  /\ row[p].bound => Fits(p, row[p]) /\ Reads(p, row[p])
           /\ event[p].status = "PROCESSING" => Fits(p, Bound(row[p])) /\ Reads(p, Bound(row[p]))
                                                /\ out[p] = 0
<1>1. /\ row[p] \in Row /\ out[p] \in 0..Stock /\ Stock \in Nat
      /\ BindingOK(p) /\ GoodsOK(p) /\ CancellationOK(p)
  BY FulfillmentAssumption DEF PackagesSafe, TypeOK, PackageOK
<1>2. out[p] \in {0, 1}
  BY <1>1 DEF GoodsOK
<1>3. ASSUME row[p].bound
      PROVE  Fits(p, row[p]) /\ Reads(p, row[p])
  <2>1. row[p].status # "NONE"
    BY <1>1, <1>3 DEF BindingOK, NoRow
  <2>2. p \in released =>
         \/ row[p].status = "CANCELLED" \/ row[p].code = "ACTIVE_AFTER_CANCEL" \/ out[p] = 1
         \/ SoldOut /\ remote[p] = Shipped
    BY <1>1, <1>3 DEF CancellationOK, Orphan, WorkedOn, Lost
  <2>3. row[p].code = "ACTIVE_AFTER_CANCEL" => row[p].status = "EXCEPTION" /\ p \in released
    BY <1>1 DEF CancellationOK, WorkedOn
  <2> QED  BY <1>1, <1>2, <1>3, <2>1, <2>2, <2>3 DEF Fits, Reads, GoodsOK, CancellationOK
<1>4. ASSUME event[p].status = "PROCESSING"
      PROVE  Fits(p, Bound(row[p])) /\ Reads(p, Bound(row[p])) /\ out[p] = 0
  <2>1. row[p].status # "NONE"
    BY <1>1, <1>4 DEF BindingOK, NoEvent
  <2>2. out[p] = 0
    BY <1>1, <1>2, <1>4 DEF GoodsOK
  <2>3. p \in released => row[p].status = "CANCELLED" \/ (SoldOut /\ remote[p] = Shipped)
    BY <1>1, <1>4, <2>2 DEF CancellationOK, Orphan, WorkedOn, Lost
  <2>4. row[p].status # "SHIPPED" /\ (row[p].status = "CANCELLED" => p \in released)
    BY <1>1, <2>2 DEF GoodsOK, CancellationOK
  <2> DEFINE r == Bound(row[p])
  <2>5. /\ r \in Row /\ r.status = row[p].status /\ r.jifeng = row[p].jifeng /\ r.bound
        /\ r.code = "NONE" /\ r.poller = row[p].poller
    BY <1>1 DEF Bound, Row
  <2> HIDE DEF r
  <2>6. Fits(p, r) /\ Reads(p, r)
    BY <2>1, <2>2, <2>3, <2>4, <2>5 DEF Fits, Reads
  <2> QED  BY <2>2, <2>6 DEF r
<1> QED  BY <1>3, <1>4

(* Jifeng has shipped what cannot be booked out: only if all is sold.      *)
LEMMA LacksStockIsLost ==
    ASSUME PackagesSafe, NEW p \in All, NEW r, NEW d, Fits(p, r), Reads(p, r), Timely(p, r, d),
           LacksStock(p, r, d)
    PROVE  SoldOut /\ out[p] = 0 /\ remote[p] = Shipped /\ d = Shipped /\ r.status # "SHIPPED"
<1>1. /\ d = Shipped /\ remote[p] = Shipped /\ r.status # "SHIPPED"
      /\ ~(r.status = "CANCELLED" /\ r.jifeng = Cancelled)
      /\ IF Late(r) THEN r.code # "SHIPPED_AFTER_CANCEL" /\ SoldOut ELSE ~InStock(p)
  BY Codes DEF LacksStock, Settled, Timely
<1>2. out[p] = 0
  BY <1>1 DEF Fits, Late
<1>3. CASE Late(r)
  BY <1>1, <1>2, <1>3
<1>4. CASE ~Late(r)
  <2>1. p \in released => SoldOut
    BY <1>1, <1>2, <1>4 DEF Fits, Late
  <2>2. ASSUME p \notin released
        PROVE  held[Holder(p)] >= 1
    <3>1. CASE p \in Packages
      BY <1>1, <2>2, <3>1, HeldForNeedy, ApplyFacts
    <3>2. CASE p \in Replacements
      BY <1>1, <2>2, <3>2, ApplyFacts
    <3> QED  BY <3>1, <3>2 DEF All
  <2> QED  BY <1>1, <1>2, <1>4, <2>1, <2>2 DEF InStock
<1> QED  BY <1>3, <1>4

(* What a worker with an answer for its own claim relies on.               *)
LEMMA PollFacts ==
    ASSUME PackagesSafe, NEW w \in Workers, job[w].task \in {"poll", "refresh"},
           row[job[w].pkg].poller = w
    PROVE  LET p == job[w].pkg
           IN  /\ p \in All /\ row[p].status # "NONE" /\ row[p] \in Row
               /\ job[w].answer # Absent =>
                    /\ row[p].bound /\ Fits(p, row[p]) /\ Reads(p, row[p])
                    /\ Timely(p, row[p], job[w].answer)
                    /\ event[p].status = "COMPLETED" \/ (Lost(p) /\ job[w].answer = Shipped)
<1> DEFINE p == job[w].pkg
<1>1. TypeOK /\ JobOK(w) /\ job[w] \in Job
  BY DEF PackagesSafe, TypeOK
<1>2. p \in All
  BY <1>1 DEF JobOK
<1>3. row[p] \in Row /\ PackageOK(p)
  BY <1>1, <1>2 DEF TypeOK, PackagesSafe
<1>4. row[p].status # "NONE"
  BY <1>3, FulfillmentAssumption DEF PackageOK, BindingOK, NoRow
<1>5. ASSUME job[w].answer # Absent
      PROVE  /\ row[p].bound /\ Fits(p, row[p]) /\ Reads(p, row[p])
             /\ Timely(p, row[p], job[w].answer)
             /\ event[p].status = "COMPLETED" \/ (Lost(p) /\ job[w].answer = Shipped)
  <2>1. /\ job[w].answer \in Details
        /\ job[w].answer \in {Shipped, Cancelled} => remote[p] = job[w].answer
        /\ row[p].bound /\ (event[p].status = "COMPLETED" \/ job[w].answer = Shipped)
        /\ out[p] = 1 => job[w].answer = Shipped
    BY <1>1, <1>5 DEF JobOK, AnswerOK, Job
  <2>2. event[p].status = "COMPLETED" \/ Lost(p)
    BY <1>3, <2>1 DEF PackageOK, BindingOK
  <2> QED  BY <1>2, <2>1, <2>2, RowFits DEF Timely
<1> QED  BY <1>2, <1>3, <1>4, <1>5

LEMMA PollDoneSafe ==
    ASSUME PackagesSafe, NEW w \in Workers, PollDone(w)
    PROVE  PackagesSafe'
<1> DEFINE p == job[w].pkg
           d == job[w].answer
<1>1. /\ job[w].task \in {"poll", "refresh"} /\ d # Absent /\ row[p].poller = w
      /\ Apply(p, row[p], d) /\ job' = [job EXCEPT ![w] = Idle]
      /\ event' = event /\ remote' = remote /\ retries' = retries
  BY DEF PollDone, Finish
<1>2. /\ p \in All /\ Fits(p, row[p]) /\ Reads(p, row[p]) /\ Timely(p, row[p], d)
      /\ event[p].status = "COMPLETED" \/ (Lost(p) /\ d = Shipped)
  BY <1>1, PollFacts
<1>3. event \in [All -> Event]
  BY DEF PackagesSafe, TypeOK
<1> HIDE DEF p, d
<1> QED  BY <1>1, <1>2, <1>3, AnswerStepSafe

LEMMA FailSafe ==
    ASSUME PackagesSafe, NEW w \in Workers, PollFail(w) \/ RefreshFail(w)
    PROVE  PackagesSafe'
<1> DEFINE p == job[w].pkg
<1>1. /\ job[w].task \in {"poll", "refresh"} /\ row[p].poller = w
      /\ job' = [job EXCEPT ![w] = Idle]
      /\ UNCHANGED <<parent, event, request, books, remote, retries>>
  BY DEF PollFail, RefreshFail, Fails, Finish, Working
<1>2. p \in All /\ row[p].status # "NONE" /\ row[p] \in Row
  BY <1>1, PollFacts
<1>3. TypeOK /\ row \in [All -> Row] /\ event \in [All -> Event] /\ job \in [Workers -> Job]
  BY DEF PackagesSafe, TypeOK
<1>4. PICK x \in Row : /\ row' = [row EXCEPT ![p] = x]
                       /\ x.status = row[p].status /\ x.jifeng = row[p].jifeng
                       /\ x.code = row[p].code /\ x.bound = row[p].bound /\ x.poller = NoWorker
  <2>1. CASE PollFail(w)
    <3>1. PICK retryable \in BOOLEAN :
            row' = [row EXCEPT ![p] = [Polled(@) EXCEPT !.never = ~retryable]]
      BY <2>1 DEF PollFail
    <3> DEFINE x == [Polled(row[p]) EXCEPT !.never = ~retryable]
    <3>2. /\ x \in Row /\ x.status = row[p].status /\ x.jifeng = row[p].jifeng
          /\ x.code = row[p].code /\ x.bound = row[p].bound /\ x.poller = NoWorker
      BY <1>2 DEF Polled, Row
    <3>3. row' = [row EXCEPT ![p] = x]
      BY <1>2, <1>3, <3>1
    <3> HIDE DEF x
    <3> QED  BY <3>2, <3>3
  <2>2. CASE RefreshFail(w)
    <3> DEFINE x == [row[p] EXCEPT !.poller = NoWorker, !.fresh = FALSE]
    <3>1. /\ x \in Row /\ x.status = row[p].status /\ x.jifeng = row[p].jifeng
          /\ x.code = row[p].code /\ x.bound = row[p].bound /\ x.poller = NoWorker
      BY <1>2 DEF Row
    <3>2. row' = [row EXCEPT ![p] = x]
      BY <1>2, <1>3, <2>2 DEF RefreshFail
    <3> HIDE DEF x
    <3> QED  BY <3>1, <3>2
  <2> QED  BY <2>1, <2>2
<1> HIDE DEF p
<1>5. row' \in [All -> Row] /\ row'[p] = x /\ \A q \in All \ {p} : row'[q] = row[q]
  BY <1>2, <1>3, <1>4
<1>6. JobOK(w)' /\ job' \in [Workers -> Job] /\ \A u \in Workers \ {w} : job'[u] = job[u]
  BY <1>1, <1>3, IdleOK
<1> QED  BY <1>1, <1>2, <1>3, <1>4, <1>5, <1>6, ClaimStepSafe

(* Leases end by themselves.                                               *)
LEMMA LeaseSafe ==
    ASSUME PackagesSafe, NEW p \in All, PollLeaseEnds(p) \/ MatchLeaseEnds(p)
    PROVE  PackagesSafe'
<1>1. /\ row \in [All -> Row] /\ event \in [All -> Event] /\ job \in [Workers -> Job]
      /\ BindingOK(p) /\ NoWorker \notin Workers
  BY FulfillmentAssumption DEF PackagesSafe, TypeOK, PackageOK
<1>2. CASE PollLeaseEnds(p)
  <2>1. /\ row[p].fresh /\ row' = [row EXCEPT ![p] = [@ EXCEPT !.fresh = FALSE]]
        /\ UNCHANGED <<parent, event, request, books, remote, job, retries>>
    BY <1>2 DEF PollLeaseEnds
  <2>2. row[p].status # "NONE"
    BY <1>1, <2>1 DEF BindingOK, NoRow
  <2> DEFINE x == [row[p] EXCEPT !.fresh = FALSE]
  <2>3. /\ x \in Row /\ x.status = row[p].status /\ x.jifeng = row[p].jifeng
        /\ x.code = row[p].code /\ x.bound = row[p].bound /\ x.poller = row[p].poller
    BY ZenonT(40), <1>1 DEF Row
  <2>4. row' = [row EXCEPT ![p] = x]
    BY <1>1, <2>1
  <2> HIDE DEF x
  <2>5. row' \in [All -> Row] /\ row'[p] = x /\ \A q \in All \ {p} : row'[q] = row[q]
    BY <1>1, <2>3, <2>4
  <2> QED  BY <1>1, <2>1, <2>2, <2>3, <2>5, ClaimStepSafe
<1>3. CASE MatchLeaseEnds(p)
  <2>1. /\ event[p].status = "PROCESSING" /\ event' = [event EXCEPT ![p].fresh = FALSE]
        /\ UNCHANGED <<parent, row, request, books, remote, job, retries>>
    BY <1>3 DEF MatchLeaseEnds
  <2>2. row[p].status # "NONE"
    BY <1>1, <2>1 DEF BindingOK, NoEvent
  <2> DEFINE e == [event[p] EXCEPT !.fresh = FALSE]
  <2>3. e \in Event /\ e.status = event[p].status /\ e.token = event[p].token /\ e.note = event[p].note
    BY <1>1 DEF Event
  <2>4. event' = [event EXCEPT ![p] = e]
    BY <1>1, <2>1
  <2> HIDE DEF e
  <2>5. event' \in [All -> Event] /\ event'[p] = e /\ \A q \in All \ {p} : event'[q] = event[q]
    BY <1>1, <2>3, <2>4
  <2> QED  BY <1>1, <2>1, <2>2, <2>3, <2>5, ClaimStepSafe
<1> QED  BY <1>2, <1>3
-----------------------------------------------------------------------------
(* Steps that write the row, the event and the request of a package, and   *)
(* leave the books alone.                                                  *)

Unbooked == UNCHANGED <<books, remote>>

Written(p, x, e) ==
    /\ x \in Row /\ row' \in [All -> Row] /\ row'[p] = x
    /\ \A q \in All \ {p} : row'[q] = row[q]
    /\ e \in Event /\ event' \in [All -> Event] /\ event'[p] = e
    /\ \A q \in All \ {p} : event'[q] = event[q]

Requested(p) ==
    /\ request' \in [Replacements -> RequestStatus]
    /\ \A r \in Replacements \ {p} : request'[r] = request[r]

LEMMA WrittenOnly ==
    ASSUME PackagesSafe, NEW p \in All, NEW x, NEW e, Written(p, x, e), Requested(p), Unbooked,
           x.status = "SHIPPED" <=> row[p].status = "SHIPPED"
    PROVE  /\ Only(p) /\ Books(p)
           /\ released' = released /\ out' = out /\ stock' = stock /\ held' = held
           /\ remote' = remote
<1>1. /\ released' = released /\ refunded' = refunded /\ out' = out /\ stock' = stock
      /\ held' = held /\ remote' = remote
  BY DEF Unbooked, books
<1>2. TypeOK /\ refunded = released \cap Packages
  BY DEF PackagesSafe
<1>3. Only(p)
  BY <1>1, <1>2 DEF Only, Written, Requested, TypeOK
<1>4. Books(p)
  BY <1>1 DEF Books, Needy, Written
<1> QED  BY <1>1, <1>3, <1>4

LEMMA EventWritten ==
    ASSUME TypeOK, NEW p \in All, NEW e \in Event, event' = [event EXCEPT ![p] = e]
    PROVE  /\ event' \in [All -> Event] /\ event'[p] = e
           /\ \A q \in All \ {p} : event'[q] = event[q]
BY DEF TypeOK

(* The state of one package, as it is before a step.                       *)
LEMMA PackageFacts ==
    ASSUME PackagesSafe, NEW p \in All
    PROVE  /\ TypeOK /\ row[p] \in Row /\ event[p] \in Event /\ out[p] \in {0, 1}
           /\ remote[p] \in {Absent} \cup Details
           /\ stock \in 0..Stock /\ Stock \in Nat
           /\ BindingOK(p) /\ GoodsOK(p) /\ CancellationOK(p)
           /\ p \in Packages <=> p \notin Replacements
           /\ p \in Replacements => ReplacementOK(p) /\ request[p] \in RequestStatus
           /\ retries \in 0..MaxRetries /\ MaxRetries \in Nat
           /\ job \in [Workers -> Job] /\ NoWorker \notin Workers
<1>1. /\ TypeOK /\ PackageOK(p) /\ (p \in Replacements => ReplacementOK(p))
  BY DEF PackagesSafe
<1>2. out[p] \in 0..Stock /\ Stock \in Nat
  BY <1>1, FulfillmentAssumption DEF TypeOK
<1>3. out[p] \in {0, 1}
  BY <1>1, <1>2 DEF PackageOK, GoodsOK
<1>4. p \in Packages <=> p \notin Replacements
  BY FulfillmentAssumption DEF All
<1> QED  BY <1>1, <1>2, <1>3, <1>4, FulfillmentAssumption DEF TypeOK, PackageOK

LEMMA ParkSafe ==
    ASSUME PackagesSafe, NEW w \in Workers, Park(w),
           NEW p \in All, p = job[w].pkg
    PROVE  PackagesSafe'
<1> DEFINE d == job[w].answer
           x == [Polled(row[p]) EXCEPT !.status = "EXCEPTION", !.jifeng = Shipped,
                                       !.code = "INVENTORY"]
<1>1. /\ job[w].task \in {"poll", "refresh"} /\ row[p].poller = w
      /\ LacksStock(p, row[p], d) /\ SetRow(p, x) /\ job' = [job EXCEPT ![w] = Idle]
      /\ event' = event /\ request' = request /\ retries' = retries /\ Unbooked
  BY DEF Park, Finish, Unbooked
<1>2. d # Absent
  BY <1>1, Codes DEF LacksStock
<1>3. /\ row[p].bound /\ row[p].status # "NONE" /\ Fits(p, row[p])
      /\ Reads(p, row[p]) /\ Timely(p, row[p], d)
  BY <1>1, <1>2, PollFacts
<1>4. /\ SoldOut /\ out[p] = 0 /\ remote[p] = Shipped /\ row[p].status # "SHIPPED"
  BY <1>1, <1>3, LacksStockIsLost
<1>5. /\ TypeOK /\ row[p] \in Row /\ event[p] \in Event /\ BindingOK(p) /\ GoodsOK(p)
      /\ (p \in Replacements => ReplacementOK(p)) /\ retries \in 0..MaxRetries
      /\ job \in [Workers -> Job]
  BY <1>3, PackageFacts
<1>6. /\ x \in Row /\ x.status = "EXCEPTION" /\ x.jifeng = Shipped /\ x.code = "INVENTORY"
      /\ x.bound = row[p].bound /\ x.poller = NoWorker
  BY <1>5 DEF Polled, Row, Details
<1> HIDE DEF x, d
<1>7. Written(p, x, event[p]) /\ Requested(p)
  BY <1>1, <1>3, <1>5, <1>6, RowReplaced DEF Written, Requested, TypeOK
<1>8. /\ Only(p) /\ Books(p) /\ released' = released /\ out' = out /\ stock' = stock
      /\ held' = held /\ remote' = remote
  BY <1>1, <1>3, <1>4, <1>6, <1>7, WrittenOnly
<1>9. Follows(p)
  BY <1>1, <1>3, <1>4, <1>5, <1>6, RowFollows
<1>10. row'[p] = x /\ event'[p] = event[p]
  BY <1>7 DEF Written
<1>11. Lost(p) /\ Lost(p)'
  BY <1>3, <1>4, <1>6, <1>8, <1>10 DEF Lost, SoldOut
<1>12. Respects(w, p)
  BY <1>3, <1>6, <1>8, <1>10, <1>11 DEF Respects
<1>13. PackageOK(p)'
  <2>1. out'[p] = 0 /\ row'[p].status = "EXCEPTION" /\ row'[p].code = "INVENTORY" /\ row'[p].bound
    BY <1>3, <1>4, <1>6, <1>8, <1>10
  <2>2. BindingOK(p)'
    BY <1>11, <2>1 DEF BindingOK
  <2>3. GoodsOK(p)'
    BY <2>1 DEF GoodsOK
  <2>4. CancellationOK(p)'
    BY <1>11, <2>1 DEF CancellationOK
  <2> QED  BY <2>2, <2>3, <2>4 DEF PackageOK
<1>14. p \in Replacements => ReplacementOK(p)'
  BY <1>1, <1>3, <1>4, <1>5, <1>6, <1>8, <1>10 DEF ReplacementOK
<1>15. JobOK(w)' /\ job' \in [Workers -> Job] /\ \A u \in Workers \ {w} : job'[u] = job[u]
  BY <1>1, <1>5, IdleOK
<1> QED  BY <1>1, <1>5, <1>8, <1>9, <1>12, <1>13, <1>14, <1>15, PackageStepSafe
-----------------------------------------------------------------------------
(* Matching.                                                               *)

(* What a worker relies on that matches a package under its own claim.     *)
LEMMA MatchFacts ==
    ASSUME PackagesSafe, NEW w \in Workers, job[w].task \in {"match", "unmatched"}, OwnsEvent(w)
    PROVE  LET p == job[w].pkg
           IN  /\ p \in All /\ event[p].status = "PROCESSING" /\ event[p].token = w
               /\ out[p] = 0 /\ row[p].status # "NONE" /\ row[p].status # "SHIPPED"
               /\ Fits(p, Bound(row[p])) /\ Reads(p, Bound(row[p]))
               /\ job[w].answer # Absent => Timely(p, Bound(row[p]), job[w].answer)
               /\ job[w].task = "match" =>
                    \/ Lost(p)
                    \/ row[p].status = IF job[w].watch THEN "CANCELLED" ELSE "SUBMITTING"
               /\ job[w].task = "unmatched" => Lost(p)
               /\ job[w].watch => p \in released
               /\ job[w] \in Job
<1> DEFINE p == job[w].pkg
<1>1. p \in All /\ event[p].status = "PROCESSING" /\ event[p].token = w
  BY DEF OwnsEvent
<1>2. JobOK(w) /\ job[w] \in Job
  BY DEF PackagesSafe, TypeOK
<1>3. /\ out[p] = 0 /\ Fits(p, Bound(row[p])) /\ Reads(p, Bound(row[p]))
  BY <1>1, RowFits
<1>4. row[p].status # "NONE" /\ row[p].status # "SHIPPED"
  BY <1>1, <1>3, PackageFacts DEF BindingOK, GoodsOK, NoEvent
<1>5. job[w].answer # Absent => Timely(p, Bound(row[p]), job[w].answer)
  BY <1>2, <1>3 DEF Timely, JobOK, AnswerOK, Job
<1> QED  BY <1>1, <1>2, <1>3, <1>4, <1>5 DEF JobOK, MatchOK

LEMMA MatchDoneSafe ==
    ASSUME PackagesSafe, NEW w \in Workers, MatchDone(w)
    PROVE  PackagesSafe'
<1> DEFINE p == job[w].pkg
           d == job[w].answer
           e == [NoEvent EXCEPT !.status = "COMPLETED"]
<1>1. /\ job[w].task = "match" /\ d # Absent /\ OwnsEvent(w)
      /\ Apply(p, Bound(row[p]), d) /\ job' = [job EXCEPT ![w] = Idle]
      /\ event' = [event EXCEPT ![p] = e] /\ remote' = remote /\ retries' = retries
  BY DEF MatchDone, Finish, Working
<1>2. /\ p \in All /\ Fits(p, Bound(row[p])) /\ Reads(p, Bound(row[p]))
      /\ Timely(p, Bound(row[p]), d)
  BY <1>1, MatchFacts
<1>3. e \in Event /\ e.status = "COMPLETED"
  BY DEF NoEvent, Event
<1>4. TypeOK
  BY DEF PackagesSafe
<1> HIDE DEF p, d, e
<1>5. /\ event' \in [All -> Event] /\ event'[p] = e
      /\ \A q \in All \ {p} : event'[q] = event[q]
  BY <1>1, <1>2, <1>3, <1>4, EventWritten
<1> QED  BY <1>1, <1>2, <1>3, <1>5, AnswerStepSafe

LEMMA MatchLacksStockSafe ==
    ASSUME PackagesSafe, NEW w \in Workers, MatchLacksStock(w),
           NEW p \in All, p = job[w].pkg
    PROVE  PackagesSafe'
<1> DEFINE d == job[w].answer
           x == Bound(row[p])
           j == [job[w] EXCEPT !.task = "unmatched"]
<1>1. /\ job[w].task = "match" /\ OwnsEvent(w)
      /\ LacksStock(p, x, d) /\ SetRowOnly(p, x) /\ job' = [job EXCEPT ![w] = j]
      /\ event' = event /\ request' = request /\ retries' = retries /\ Unbooked
  BY DEF MatchLacksStock, Working, Unbooked
<1>2. d # Absent
  BY <1>1, Codes DEF LacksStock
<1>3. /\ row[p].status # "NONE" /\ row[p].status # "SHIPPED"
      /\ Fits(p, x) /\ Reads(p, x) /\ Timely(p, x, d) /\ event[p].token = w
      /\ job[w] \in Job /\ (job[w].watch => p \in released)
  BY <1>1, <1>2, MatchFacts
<1>4. SoldOut /\ out[p] = 0 /\ remote[p] = Shipped /\ d = Shipped
  BY <1>1, <1>3, LacksStockIsLost
<1>5. /\ TypeOK /\ row[p] \in Row /\ event[p] \in Event /\ CancellationOK(p)
      /\ (p \in Replacements => ReplacementOK(p)) /\ retries \in 0..MaxRetries
      /\ job \in [Workers -> Job]
  BY <1>3, PackageFacts
<1>6. /\ x \in Row /\ x.status = row[p].status /\ x.jifeng = row[p].jifeng /\ x.code = "NONE"
      /\ x.bound /\ x.poller = row[p].poller
  BY <1>5 DEF Bound, Row
<1>7. /\ j \in Job /\ j.task = "unmatched" /\ j.pkg = p /\ j.answer = d
      /\ j.watch = job[w].watch
  BY <1>3 DEF Job
<1> HIDE DEF x, d, j
<1>8. job' \in [Workers -> Job] /\ job'[w] = j /\ \A u \in Workers \ {w} : job'[u] = job[u]
  BY <1>1, <1>5, <1>7
<1>9. Written(p, x, event[p]) /\ Requested(p)
  BY <1>1, <1>3, <1>5, <1>6, RowReplaced DEF Written, Requested, TypeOK
<1>10. /\ Only(p) /\ Books(p) /\ released' = released /\ out' = out /\ stock' = stock
       /\ held' = held /\ remote' = remote
  BY <1>1, <1>3, <1>6, <1>9, WrittenOnly
<1>11. Follows(p)
  BY <1>1, <1>3, <1>5, <1>6, RowFollows
<1>12. row'[p] = x /\ event'[p] = event[p]
  BY <1>9 DEF Written
<1>13. Lost(p)'
  BY <1>4, <1>6, <1>10, <1>12 DEF Lost, SoldOut
<1>14. Respects(w, p)
  BY <1>3, <1>4, <1>6, <1>10, <1>12 DEF Respects
<1>15. PackageOK(p)'
  BY <1>3, <1>4, <1>5, <1>6, <1>10, <1>12, <1>13
     DEF PackageOK, BindingOK, GoodsOK, CancellationOK
<1>16. p \in Replacements => ReplacementOK(p)'
  BY <1>1, <1>3, <1>5, <1>6, <1>10, <1>12 DEF ReplacementOK
<1>17. JobOK(w)'
  <2>1. AnswerOK(w)' /\ CallOK(w)' /\ MatchOK(w)'
    BY <1>3, <1>4, <1>7, <1>8, <1>10, <1>13 DEF AnswerOK, CallOK, MatchOK
  <2> QED  BY <1>3, <1>7, <1>8, <2>1 DEF JobOK
<1> QED  BY <1>1, <1>5, <1>8, <1>10, <1>11, <1>14, <1>15, <1>16, <1>17, PackageStepSafe

(* No event of an unbound package that has a row is closed while a worker  *)
(* may still match it.                                                     *)
LEMMA MatchCloseSafe ==
    ASSUME PackagesSafe, NEW p \in All, MatchClose(p)
    PROVE  PackagesSafe'
<1>1. PICK n \in {event[p].note, "OTHER"} :
        event' = [event EXCEPT ![p].status = "COMPLETED", ![p].token = NoWorker,
                               ![p].fresh = FALSE, ![p].note = n]
  <2> DEFINE n == IF row[p].status = "SHIPPED" \/ (row[p].status = "CANCELLED" /\ ~Monitored(p))
                  THEN event[p].note ELSE "OTHER"
  <2>1. event' = [event EXCEPT ![p].status = "COMPLETED", ![p].token = NoWorker,
                               ![p].fresh = FALSE, ![p].note = n]
    BY PackageFacts DEF MatchClose, TypeOK
  <2>2. n \in {event[p].note, "OTHER"}
    OBVIOUS
  <2> HIDE DEF n
  <2> QED  BY <2>1, <2>2
<1>2. /\ UNCHANGED <<parent, row, request, job, retries>> /\ Unbooked
      /\ \/ Due(p) /\ Closing(p)
         \/ Overtaken(p) /\ row[p].status \in {"CANCELLED", "SHIPPED"}
  BY DEF MatchClose, Unbooked
<1>3. /\ TypeOK /\ row[p] \in Row /\ event[p] \in Event
      /\ BindingOK(p) /\ GoodsOK(p) /\ CancellationOK(p)
      /\ (p \in Replacements => ReplacementOK(p)) /\ retries \in 0..MaxRetries
      /\ job \in [Workers -> Job] /\ (p \in Packages <=> p \notin Replacements)
      /\ NoWorker \notin Workers
  BY PackageFacts
<1> DEFINE e == [event[p] EXCEPT !.status = "COMPLETED", !.token = NoWorker,
                                 !.fresh = FALSE, !.note = n]
<1>4. e \in Event /\ e.status = "COMPLETED" /\ e.note = n
  BY <1>1, <1>3 DEF Event
<1>5. event' = [event EXCEPT ![p] = e]
  BY <1>1, <1>3 DEF TypeOK
<1> HIDE DEF e
<1>6. event[p].status # "NONE" /\ row[p].status # "NONE"
  BY <1>2, <1>3 DEF Due, Overtaken, BindingOK, NoEvent
<1>7. row[p].status = "SUBMITTING" => row[p].bound
  <2> SUFFICES ASSUME row[p].status = "SUBMITTING", ~row[p].bound
               PROVE  FALSE
    OBVIOUS
  <2>1. /\ p \in released => FALSE
    BY <1>3 DEF CancellationOK, WorkedOn, GoodsOK, Lost, Orphan
  <2>2. ~Eligible(p)
    BY <1>2 DEF Closing
  <2>3. CASE p \in Packages
    <3>1. parent \in {"SHIPPED", "CANCELLED"}
      BY <1>3, <2>2 DEF Eligible, TypeOK, OrderStatus
    <3> QED  BY <2>1, <2>3, <3>1 DEF PackagesSafe, ParentOK
  <2>4. CASE p \in Replacements
    BY <1>3, <2>2, <2>4 DEF Eligible, ReplacementOK
  <2> QED  BY <2>3, <2>4 DEF All
<1>8. Written(p, row[p], e) /\ Requested(p)
  BY <1>2, <1>3, <1>4, <1>5, EventWritten DEF Written, Requested, TypeOK
<1>9. /\ Only(p) /\ Books(p) /\ released' = released /\ out' = out /\ stock' = stock
      /\ held' = held /\ remote' = remote
  BY <1>2, <1>8, WrittenOnly
<1>10. row' = row /\ event'[p] = e /\ parent' = parent /\ request' = request
  BY <1>2, <1>8 DEF Written
<1>11. Follows(p)
  BY <1>10 DEF Follows
<1>12. Respects(NoWorker, p)
  BY <1>4, <1>9, <1>10 DEF Respects
<1>13. PackageOK(p)'
  <2>1. BindingOK(p)'
    BY <1>3, <1>4, <1>6, <1>7, <1>9, <1>10 DEF BindingOK
  <2>2. GoodsOK(p)'
    BY <1>3, <1>4, <1>9, <1>10 DEF GoodsOK
  <2>3. (WorkedOn(p) => WorkedOn(p)') /\ (Lost(p) => Lost(p)')
    BY <1>4, <1>9, <1>10 DEF WorkedOn, Lost, SoldOut
  <2>4. Orphan(p) => Orphan(p)'
    BY <1>1, <1>4, <1>10 DEF Orphan
  <2>5. CancellationOK(p)'
    BY <1>3, <1>9, <1>10, <2>3, <2>4 DEF CancellationOK
  <2> QED  BY <2>1, <2>2, <2>5 DEF PackageOK
<1>14. p \in Replacements => ReplacementOK(p)'
  BY <1>3, <1>9, <1>10 DEF ReplacementOK
<1> QED  BY <1>2, <1>3, <1>9, <1>11, <1>12, <1>13, <1>14, PackageStepSafe

(* A package that is due and may still be matched.                         *)
LEMMA DueFacts ==
    ASSUME PackagesSafe, NEW p \in All, Due(p), ~Closing(p)
    PROVE  /\ row[p].status \notin {"NONE", "SHIPPED"} /\ out[p] = 0
           /\ row[p].status = "CANCELLED" => Monitored(p)
           /\ row[p].bound => Lost(p)
           /\ p \in released => row[p].status = "CANCELLED" \/ Lost(p)
           /\ row[p].code \notin {"ACTIVE_AFTER_CANCEL", "SHIPPED_AFTER_CANCEL"}
           /\ event[p].status \in {"PENDING", "FAILED", "PROCESSING"}
<1>1. /\ out[p] \in {0, 1} /\ BindingOK(p) /\ GoodsOK(p) /\ CancellationOK(p)
      /\ (p \in Packages <=> p \notin Replacements)
  BY PackageFacts
<1>2. event[p].status \in {"PENDING", "FAILED", "PROCESSING"}
  BY DEF Due
<1>3. /\ row[p].status # "SHIPPED" /\ (row[p].status = "CANCELLED" => Monitored(p))
      /\ Eligible(p) \/ (parent = "CANCELLED" /\ Monitored(p))
  BY DEF Closing
<1>4. row[p].status # "NONE" /\ out[p] = 0
  BY <1>1, <1>2 DEF BindingOK, GoodsOK, NoEvent
<1>5. ~WorkedOn(p)
  BY <1>2 DEF WorkedOn
<1>6. ~Orphan(p)
  BY <1>1, <1>3 DEF Orphan, Eligible, Monitored
<1> QED  BY <1>1, <1>2, <1>3, <1>4, <1>5, <1>6 DEF BindingOK, GoodsOK, CancellationOK

LEMMA MatchRivalSafe ==
    ASSUME PackagesSafe, NEW p \in All, MatchRival(p)
    PROVE  PackagesSafe'
<1>1. /\ row[p].status \notin {"NONE", "SHIPPED"} /\ out[p] = 0
      /\ row[p].status = "CANCELLED" => Monitored(p)
      /\ row[p].bound => Lost(p)
      /\ p \in released => row[p].status = "CANCELLED" \/ Lost(p)
      /\ row[p].code \notin {"ACTIVE_AFTER_CANCEL", "SHIPPED_AFTER_CANCEL"}
      /\ event[p].status \in {"PENDING", "FAILED", "PROCESSING"}
  BY DueFacts DEF MatchRival
<1>2. /\ TypeOK /\ row[p] \in Row /\ event[p] \in Event
      /\ BindingOK(p) /\ CancellationOK(p)
      /\ (p \in Replacements => ReplacementOK(p)) /\ retries \in 0..MaxRetries
      /\ job \in [Workers -> Job] /\ NoWorker \notin Workers
  BY PackageFacts
<1>3. UNCHANGED <<job, retries>> /\ Unbooked
  BY DEF MatchRival, Unbooked
<1>4. CASE Monitored(p)
  <2> DEFINE e == [NoEvent EXCEPT !.status = "COMPLETED", !.note = "MONITORING"]
  <2>1. UNCHANGED <<parent, row, request>> /\ event' = [event EXCEPT ![p] = e]
    BY <1>4 DEF MatchRival
  <2>2. e \in Event /\ e.status = "COMPLETED"
    BY DEF Event, NoEvent
  <2> HIDE DEF e
  <2>3. Written(p, row[p], e) /\ Requested(p)
    BY <1>2, <2>1, <2>2, EventWritten DEF Written, Requested, TypeOK
  <2>4. /\ Only(p) /\ Books(p) /\ released' = released /\ out' = out /\ stock' = stock
        /\ held' = held /\ remote' = remote
    BY <1>3, <2>3, WrittenOnly
  <2>5. row' = row /\ event'[p] = e /\ parent' = parent /\ request' = request
    BY <2>1, <2>3 DEF Written
  <2>6. Follows(p)
    BY <2>5 DEF Follows
  <2>7. Respects(NoWorker, p)
    BY <2>2, <2>4, <2>5 DEF Respects
  <2>8. row[p].status # "SUBMITTING" \/ row[p].bound
    BY <1>2, <1>4 DEF BindingOK, Monitored
  <2>9. Lost(p) => Lost(p)'
    BY <2>4, <2>5 DEF Lost, SoldOut
  <2>10. PackageOK(p)'
    <3>1. BindingOK(p)'
      BY <1>1, <1>2, <2>2, <2>4, <2>5, <2>8 DEF BindingOK
    <3>2. GoodsOK(p)'
      BY <1>1, <2>4, <2>5 DEF GoodsOK
    <3>3. CancellationOK(p)'
      BY <1>1, <1>2, <2>4, <2>5, <2>9 DEF CancellationOK
    <3> QED  BY <3>1, <3>2, <3>3 DEF PackageOK
  <2>11. p \in Replacements => ReplacementOK(p)'
    BY <1>2, <2>4, <2>5 DEF ReplacementOK
  <2> QED  BY <1>2, <1>3, <2>4, <2>6, <2>7, <2>10, <2>11, PackageStepSafe
<1>5. CASE ~Monitored(p)
  <2> DEFINE e == [NoEvent EXCEPT !.status = "FAILED", !.note = "OTHER", !.never = TRUE]
             x == [row[p] EXCEPT !.status = "EXCEPTION", !.code = "OTHER", !.never = FALSE]
  <2>1. /\ event' = [event EXCEPT ![p] = e] /\ row' = [row EXCEPT ![p] = x]
        /\ parent' = Rolled(row') /\ SetRequest(p, "EXCEPTION")
    BY <1>2, <1>5 DEF MatchRival, TypeOK
  <2>2. e \in Event /\ e.status = "FAILED"
    BY DEF Event, NoEvent
  <2>3. /\ x \in Row /\ x.status = "EXCEPTION" /\ x.code = "OTHER" /\ x.bound = row[p].bound
        /\ x.jifeng = row[p].jifeng /\ x.poller = row[p].poller
    BY <1>2 DEF Row
  <2> HIDE DEF e, x
  <2>4. Written(p, x, e)
    BY <1>2, <2>1, <2>2, <2>3, EventWritten DEF Written, TypeOK
  <2>5. Requested(p) /\ (p \in Replacements => request'[p] = "EXCEPTION")
    BY <1>2, <2>1, RequestSet DEF Requested, RequestStatus
  <2>6. /\ Only(p) /\ Books(p) /\ released' = released /\ out' = out /\ stock' = stock
        /\ held' = held /\ remote' = remote
    BY <1>1, <1>3, <2>3, <2>4, <2>5, WrittenOnly
  <2>7. row'[p] = x /\ event'[p] = e
    BY <2>4 DEF Written
  <2>8. Follows(p)
    BY <1>1, <2>1 DEF Follows
  <2>9. Lost(p) => Lost(p)'
    BY <2>3, <2>6, <2>7 DEF Lost, SoldOut
  <2>10. row[p].status # "CANCELLED"
    BY <1>1, <1>5
  <2>11. Respects(NoWorker, p)
    BY <1>1, <2>2, <2>3, <2>6, <2>7, <2>10 DEF Respects, Lost
  <2>12. PackageOK(p)'
    <3>1. BindingOK(p)'
      BY <1>1, <1>2, <2>2, <2>3, <2>6, <2>7, <2>9 DEF BindingOK
    <3>2. GoodsOK(p)'
      BY <1>1, <2>3, <2>6, <2>7 DEF GoodsOK
    <3>3. CancellationOK(p)'
      BY <1>1, <2>3, <2>6, <2>7, <2>9, <2>10 DEF CancellationOK
    <3> QED  BY <3>1, <3>2, <3>3 DEF PackageOK
  <2>13. p \in Replacements => ReplacementOK(p)'
    BY <1>1, <1>2, <2>3, <2>5, <2>6, <2>7 DEF ReplacementOK
  <2> QED  BY <1>2, <1>3, <2>6, <2>8, <2>11, <2>12, <2>13, PackageStepSafe
<1> QED  BY <1>4, <1>5

LEMMA ClaimMatchSafe ==
    ASSUME PackagesSafe, NEW w \in Workers, NEW p \in All, ClaimMatch(w, p)
    PROVE  PackagesSafe'
<1> DEFINE e == [NoEvent EXCEPT !.status = "PROCESSING", !.token = w, !.fresh = TRUE]
           s == IF row[p].status = "CANCELLED" THEN "CANCELLED" ELSE "SUBMITTING"
           x == [row[p] EXCEPT !.status = s]
           b == row[p].status = "CANCELLED" /\ Monitored(p)
           j == [Idle EXCEPT !.task = "match", !.pkg = p, !.watch = b]
<1>1. /\ row[p].status \notin {"NONE", "SHIPPED"} /\ out[p] = 0
      /\ row[p].status = "CANCELLED" => Monitored(p)
      /\ row[p].bound => Lost(p)
      /\ p \in released => row[p].status = "CANCELLED" \/ Lost(p)
      /\ row[p].code \notin {"ACTIVE_AFTER_CANCEL", "SHIPPED_AFTER_CANCEL"}
      /\ event[p].status \in {"PENDING", "FAILED", "PROCESSING"}
  BY DueFacts DEF ClaimMatch
<1>2. /\ TypeOK /\ row[p] \in Row /\ event[p] \in Event
      /\ BindingOK(p) /\ CancellationOK(p)
      /\ (p \in Replacements => ReplacementOK(p)) /\ retries \in 0..MaxRetries
      /\ job \in [Workers -> Job]
  BY PackageFacts
<1>3. /\ event' = [event EXCEPT ![p] = e] /\ row' = [row EXCEPT ![p] = x]
      /\ job' = [job EXCEPT ![w] = j]
      /\ UNCHANGED <<parent, request, retries>> /\ Unbooked
  <2>1. row' = [row EXCEPT ![p] = x]
    BY <1>2 DEF ClaimMatch, TypeOK
  <2> QED  BY <2>1 DEF ClaimMatch, Unbooked
<1>4. e \in Event /\ e.status = "PROCESSING" /\ e.token = w
  BY DEF Event, NoEvent
<1>5. /\ x \in Row /\ x.status = s /\ x.code = row[p].code /\ x.bound = row[p].bound
      /\ x.jifeng = row[p].jifeng /\ x.poller = row[p].poller
  BY <1>2 DEF Row
<1>6. b \in BOOLEAN
  BY DEF Monitored
<1>7. b <=> row[p].status = "CANCELLED"
  BY <1>1
<1>8. s \in {"CANCELLED", "SUBMITTING"} /\ (s = "CANCELLED" <=> row[p].status = "CANCELLED")
  OBVIOUS
<1> HIDE DEF b
<1>9. /\ j \in Job /\ j.task = "match" /\ j.pkg = p /\ j.answer = Absent /\ j.watch = b
  BY <1>6 DEF Job, Idle
<1> HIDE DEF e, s, x, j
<1>10. job' \in [Workers -> Job] /\ job'[w] = j /\ \A u \in Workers \ {w} : job'[u] = job[u]
  BY <1>2, <1>3, <1>9
<1>11. Written(p, x, e) /\ Requested(p)
  BY <1>2, <1>3, <1>4, <1>5, EventWritten DEF Written, Requested, TypeOK
<1>12. /\ Only(p) /\ Books(p) /\ released' = released /\ out' = out /\ stock' = stock
       /\ held' = held /\ remote' = remote
  BY <1>1, <1>3, <1>5, <1>8, <1>11, WrittenOnly
<1>13. row'[p] = x /\ event'[p] = e /\ parent' = parent /\ request' = request
  BY <1>3, <1>11 DEF Written
<1>14. Follows(p)
  BY <1>1, <1>5, <1>8, <1>13 DEF Follows
<1>15. Lost(p) => Lost(p)'
  BY <1>5, <1>12, <1>13 DEF Lost, SoldOut
<1>16. Respects(w, p)
  BY <1>1, <1>4, <1>5, <1>12, <1>13 DEF Respects
<1>17. PackageOK(p)'
  <2>1. BindingOK(p)'
    BY <1>1, <1>2, <1>4, <1>5, <1>8, <1>12, <1>13, <1>15 DEF BindingOK
  <2>2. GoodsOK(p)'
    BY <1>1, <1>5, <1>8, <1>12, <1>13 DEF GoodsOK
  <2>3. CancellationOK(p)'
    BY <1>1, <1>2, <1>5, <1>8, <1>12, <1>13, <1>15 DEF CancellationOK
  <2> QED  BY <2>1, <2>2, <2>3 DEF PackageOK
<1>18. p \in Replacements => ReplacementOK(p)'
  BY <1>1, <1>2, <1>5, <1>8, <1>12, <1>13 DEF ReplacementOK, BindingOK
<1>19. JobOK(w)'
  <2>1. AnswerOK(w)' /\ CallOK(w)'
    BY <1>9, <1>10, Codes DEF AnswerOK, CallOK
  <2>2. row'[p].status = IF b THEN "CANCELLED" ELSE "SUBMITTING"
    BY <1>5, <1>7, <1>8, <1>13
  <2>3. b => p \in released'
    BY <1>2, <1>7, <1>12 DEF CancellationOK
  <2>4. MatchOK(w)'
    BY <1>9, <1>10, <2>2, <2>3 DEF MatchOK
  <2> QED  BY <1>9, <1>10, <2>1, <2>4 DEF JobOK
<1> QED  BY <1>2, <1>3, <1>10, <1>12, <1>14, <1>16, <1>17, <1>18, <1>19, PackageStepSafe

(* What a failed match writes: the package waits again, is left to the     *)
(* administrators, or is watched on.                                       *)
LEMMA MatchFailSafe ==
    ASSUME PackagesSafe, NEW w \in Workers, MatchFail(w),
           NEW p \in All, p = job[w].pkg
    PROVE  PackagesSafe'
<1>1. PICK retryable \in BOOLEAN, lacksStock \in BOOLEAN :
        /\ RecordFailure(w, retryable, lacksStock)
        /\ job[w].task = IF lacksStock THEN "unmatched" ELSE "match"
        /\ lacksStock => ~retryable
  BY DEF MatchFail, Working
<1>2. /\ OwnsEvent(w) /\ job' = [job EXCEPT ![w] = Idle] /\ retries' = retries /\ Unbooked
  BY DEF MatchFail, Finish, Unbooked
<1>3. /\ event[p].status = "PROCESSING" /\ event[p].token = w
      /\ out[p] = 0 /\ row[p].status # "NONE" /\ row[p].status # "SHIPPED"
      /\ ~lacksStock =>
           \/ Lost(p)
           \/ row[p].status = IF job[w].watch THEN "CANCELLED" ELSE "SUBMITTING"
      /\ lacksStock => Lost(p)
      /\ job[w].watch => p \in released
  BY <1>1, <1>2, MatchFacts
<1>4. /\ TypeOK /\ row[p] \in Row /\ event[p] \in Event
      /\ BindingOK(p) /\ CancellationOK(p)
      /\ (p \in Replacements => ReplacementOK(p)) /\ retries \in 0..MaxRetries
      /\ job \in [Workers -> Job]
  BY PackageFacts
<1> DEFINE watch == job[w].watch /\ ~lacksStock
           s == IF watch THEN "CANCELLED" ELSE IF retryable THEN "PENDING" ELSE "EXCEPTION"
           c == IF lacksStock THEN "INVENTORY" ELSE "OTHER"
           f == IF lacksStock THEN Shipped ELSE row[p].jifeng
           n == IF watch THEN "MONITORING" ELSE "OTHER"
           e == [NoEvent EXCEPT !.status = "FAILED", !.note = n, !.never = ~retryable]
           x == [row[p] EXCEPT !.jifeng = f, !.code = c, !.never = FALSE, !.status = s]
           t == IF retryable THEN "PENDING_FULFILLMENT" ELSE "EXCEPTION"
<1>5. row' = [row EXCEPT ![p] = x]
  BY <1>1, <1>4 DEF RecordFailure, TypeOK
<1>6. event' = [event EXCEPT ![p] = e]
  BY <1>1 DEF RecordFailure
<1>7. /\ IF job[w].watch THEN request' = request ELSE SetRequest(p, t)
      /\ parent' = Rolled(row') \/ parent' = parent
  BY <1>1 DEF RecordFailure
<1>8. e \in Event /\ e.status = "FAILED"
  BY DEF Event, NoEvent
<1>9. f \in {Absent} \cup Details /\ (lacksStock \/ f = row[p].jifeng)
  BY <1>4 DEF Row, Details
<1>10. /\ s \in {"CANCELLED", "PENDING", "EXCEPTION"} /\ c \in {"INVENTORY", "OTHER"}
       /\ s = "CANCELLED" => job[w].watch /\ ~lacksStock
       /\ job[w].watch /\ ~lacksStock => s = "CANCELLED"
       /\ ~lacksStock => c = "OTHER"
       /\ t \in RequestStatus /\ t \in {"PENDING_FULFILLMENT", "EXCEPTION"}
  BY DEF RequestStatus
<1> HIDE DEF watch, s, c, f, n, e, t
<1>11. /\ x \in Row /\ x.status = s /\ x.code = c /\ x.bound = row[p].bound
       /\ x.jifeng = f /\ x.poller = row[p].poller
  BY <1>4, <1>9, <1>10 DEF Row
<1> HIDE DEF x
<1>12. Written(p, x, e)
  BY <1>4, <1>5, <1>6, <1>8, <1>11, EventWritten DEF Written, TypeOK
<1>13. Requested(p) /\ (p \in Replacements => request'[p] = IF job[w].watch THEN request[p] ELSE t)
  BY <1>4, <1>7, <1>10, RequestSet DEF Requested, TypeOK
<1>14. /\ Only(p) /\ Books(p) /\ released' = released /\ out' = out /\ stock' = stock
       /\ held' = held /\ remote' = remote
  BY <1>2, <1>3, <1>10, <1>11, <1>12, <1>13, WrittenOnly
<1>15. row'[p] = x /\ event'[p] = e
  BY <1>12 DEF Written
<1>16. Follows(p)
  BY <1>3, <1>7, <1>10, <1>11, <1>15 DEF Follows
<1>17. Lost(p) => Lost(p)'
  BY <1>11, <1>14, <1>15 DEF Lost, SoldOut
<1>18. row[p].bound => Lost(p)
  BY <1>3, <1>4 DEF BindingOK
<1>19. lacksStock => row[p].bound
  BY <1>3 DEF Lost
<1>20. Respects(w, p)
  BY <1>3, <1>8, <1>11, <1>14, <1>15, <1>18 DEF Respects
<1>21. PackageOK(p)'
  <2>1. BindingOK(p)'
    BY <1>3, <1>4, <1>8, <1>9, <1>10, <1>11, <1>14, <1>15, <1>17, <1>18, <1>19 DEF BindingOK
  <2>2. GoodsOK(p)'
    BY <1>3, <1>10, <1>11, <1>14, <1>15 DEF GoodsOK
  <2>3. p \in released => Lost(p) \/ (row[p].status = "CANCELLED" /\ s = "CANCELLED")
    BY <1>3, <1>4, <1>10 DEF CancellationOK, WorkedOn, Orphan
  <2>4. CancellationOK(p)'
    BY <1>3, <1>10, <1>11, <1>14, <1>15, <1>17, <2>3 DEF CancellationOK
  <2> QED  BY <2>1, <2>2, <2>4 DEF PackageOK
<1>22. p \in Replacements => ReplacementOK(p)'
  BY <1>3, <1>4, <1>10, <1>11, <1>13, <1>14, <1>15, <1>19 DEF ReplacementOK
<1>23. JobOK(w)' /\ job' \in [Workers -> Job] /\ \A u \in Workers \ {w} : job'[u] = job[u]
  BY <1>2, <1>4, IdleOK
<1> QED  BY <1>2, <1>4, <1>14, <1>16, <1>20, <1>21, <1>22, <1>23, PackageStepSafe
-----------------------------------------------------------------------------
(* Enqueueing and creating.                                                *)

LEMMA NewRowFields ==
    /\ NewRow \in Row /\ NewRow.status = "PENDING" /\ NewRow.jifeng = Absent
    /\ NewRow.code = "NONE" /\ ~NewRow.bound /\ NewRow.poller = NoWorker
    /\ NewEvent \in Event /\ NewEvent.status = "PENDING" /\ NewEvent.note = "NONE"
    /\ NoRow \in Row /\ ~NoRow.bound /\ NoEvent \in Event /\ NoEvent.status = "NONE"
    /\ NoEvent.note = "NONE" /\ NoRow.code = "NONE" /\ NoRow.status = "NONE"
BY DEF NewRow, NoRow, Row, NewEvent, NoEvent, Event, Absent

(* A package that has no row has nothing else either, and was released     *)
(* only with its whole order.                                              *)
LEMMA NoRowFacts ==
    ASSUME PackagesSafe, NEW p \in All, row[p].status = "NONE"
    PROVE  /\ row[p] = NoRow /\ event[p] = NoEvent /\ out[p] = 0
           /\ p \in released => Orphan(p)
           /\ ~row[p].bound
BY PackageFacts, NewRowFields DEF BindingOK, CancellationOK, Lost, WorkedOn

(* The row of a normal package is inserted.                                *)
LEMMA InsertSafe ==
    ASSUME PackagesSafe, NEW p \in Packages, NEW w \in Workers, NEW e \in {NoEvent, NewEvent},
           row[p].status = "NONE", row' = [row EXCEPT ![p] = NewRow],
           event' = [event EXCEPT ![p] = e],
           UNCHANGED <<parent, request, retries>>, Unbooked,
           job' \in [Workers -> Job], \A u \in Workers \ {w} : job'[u] = job[u], JobOK(w)'
    PROVE  PackagesSafe'
<1>1. p \in All
  BY DEF All
<1>2. /\ row[p] = NoRow /\ event[p] = NoEvent /\ out[p] = 0 /\ ~row[p].bound
      /\ p \in released => Orphan(p)
  BY <1>1, NoRowFacts
<1>3. TypeOK /\ retries \in 0..MaxRetries /\ p \notin Replacements
  BY <1>1, PackageFacts
<1>4. e \in Event /\ e.status \in {"NONE", "PENDING"} /\ e.note = "NONE"
  BY NewRowFields
<1>5. Written(p, NewRow, e) /\ Requested(p)
  BY <1>1, <1>3, <1>4, NewRowFields, EventWritten DEF Written, Requested, TypeOK
<1>6. /\ Only(p) /\ Books(p) /\ released' = released /\ out' = out /\ stock' = stock
      /\ held' = held /\ remote' = remote
  BY <1>1, <1>5, NewRowFields, WrittenOnly
<1>7. row'[p] = NewRow /\ event'[p] = e /\ parent' = parent
  BY <1>5 DEF Written
<1>8. Follows(p)
  BY <1>3, <1>7, NewRowFields DEF Follows
<1>9. Respects(w, p)
  BY <1>2, <1>4, <1>6, <1>7, NewRowFields DEF Respects
<1>10. Orphan(p) => Orphan(p)'
  BY <1>4, <1>7, NewRowFields DEF Orphan
<1>11. PackageOK(p)'
  <2>1. BindingOK(p)'
    BY <1>2, <1>6, <1>7, NewRowFields DEF BindingOK
  <2>2. GoodsOK(p)'
    BY <1>2, <1>6, <1>7, NewRowFields DEF GoodsOK
  <2>3. CancellationOK(p)'
    BY <1>2, <1>6, <1>7, <1>10, NewRowFields DEF CancellationOK
  <2> QED  BY <2>1, <2>2, <2>3 DEF PackageOK
<1> QED  BY <1>1, <1>3, <1>6, <1>8, <1>9, <1>11, PackageStepSafe

LEMMA EnqueueWriteSafe ==
    ASSUME PackagesSafe, NEW w \in Workers, EnqueueWrite(w)
    PROVE  PackagesSafe'
<1> DEFINE p == job[w].pkg
<1>1. /\ job[w].task = "enqueue" /\ job' = [job EXCEPT ![w] = Idle]
      /\ UNCHANGED <<parent, request, books, remote, retries>>
      /\ IF row[p].status = "NONE"
         THEN /\ row' = [row EXCEPT ![p] = NewRow]
              /\ event' = [event EXCEPT ![p] = NewEvent]
         ELSE UNCHANGED <<row, event>>
  BY DEF EnqueueWrite, Working, Finish
<1>2. job \in [Workers -> Job] /\ p \in Packages
  BY <1>1 DEF PackagesSafe, TypeOK, JobOK
<1>3. JobOK(w)' /\ job' \in [Workers -> Job] /\ \A u \in Workers \ {w} : job'[u] = job[u]
  BY <1>1, <1>2, IdleOK
<1> HIDE DEF p
<1>4. CASE row[p].status = "NONE"
  BY <1>1, <1>2, <1>3, <1>4, InsertSafe DEF Unbooked
<1>5. CASE row[p].status # "NONE"
  BY <1>1, <1>3, <1>5, JobStepSafe
<1> QED  BY <1>4, <1>5

LEMMA MaterializeSafe ==
    ASSUME PackagesSafe, NEW w \in Workers, NEW p \in All, Materialize(w, p)
    PROVE  PackagesSafe'
<1>1. /\ p \in Packages /\ row[p].status = "NONE" /\ row' = [row EXCEPT ![p] = NewRow]
      /\ UNCHANGED <<parent, event, request, retries>> /\ Unbooked /\ Start(w, "cancel", p)
  BY DEF Materialize, Unbooked
<1>2. TypeOK /\ event[p] = NoEvent
  BY <1>1, NoRowFacts, PackageFacts
<1>3. event' = [event EXCEPT ![p] = NoEvent]
  BY <1>1, <1>2 DEF TypeOK
<1>4. /\ job' \in [Workers -> Job] /\ \A u \in Workers \ {w} : job'[u] = job[u]
      /\ job'[w].task = "cancel"
  BY <1>1, <1>2, Started
<1>5. CallOK(w)'
  BY <1>4 DEF CallOK
<1>6. JobOK(w)'
  BY <1>1, <1>2, <1>5, Started
<1> QED  BY <1>1, <1>3, <1>4, <1>6, InsertSafe

LEMMA ReservedNat == TypeOK => Reserved \in Nat
<1> SUFFICES ASSUME TypeOK
             PROVE  Reserved \in Nat
  OBVIOUS
<1> DEFINE H == {Order} \cup Replacements
           U == H \X (1..Stock)
           V == {u \in U : u[2] <= held[u[1]]}
<1>1. IsFiniteSet(H)
  <2>1. IsFiniteSet(Replacements)
    BY SetsFinite DEF All
  <2> QED  BY <2>1, FS_AddElement
<1>2. IsFiniteSet(1..Stock)
  BY FS_Interval, FulfillmentAssumption
<1>3. IsFiniteSet(U)
  BY <1>1, <1>2, FS_Product
<1>4. IsFiniteSet(V)
  <2>1. V \subseteq U
    OBVIOUS
  <2> HIDE DEF V, U
  <2> QED  BY <1>3, <2>1, FS_Subset
<1>5. Reserved = Cardinality(V)
  BY DEF Reserved
<1> HIDE DEF V
<1> QED  BY <1>4, <1>5, FS_CardinalityType

LEMMA CreateReplacementSafe ==
    ASSUME PackagesSafe, NEW p \in All, NEW r \in Replacements, CreateReplacement(p, r)
    PROVE  PackagesSafe'
<1>1. /\ row[r].status = "NONE" /\ p \in Packages /\ row[p].status = "SHIPPED"
      /\ stock > Reserved
      /\ held' = [held EXCEPT ![r] = 1] /\ row' = [row EXCEPT ![r] = NewRow]
      /\ event' = [event EXCEPT ![r] = NewEvent]
      /\ request' = [request EXCEPT ![r] = "PENDING_FULFILLMENT"]
      /\ parent' = parent /\ refunded' = refunded /\ released' = released
      /\ stock' = stock /\ out' = out /\ remote' = remote /\ job' = job /\ retries' = retries
  BY DEF CreateReplacement
<1>2. r \in All
  BY DEF All
<1>3. /\ TypeOK /\ retries \in 0..MaxRetries /\ stock \in 0..Stock /\ Stock \in Nat
      /\ r \notin Packages /\ job \in [Workers -> Job] /\ NoWorker \notin Workers
      /\ refunded = released \cap Packages
  BY <1>2, PackageFacts DEF PackagesSafe
<1>4. /\ row[r] = NoRow /\ event[r] = NoEvent /\ out[r] = 0 /\ ~row[r].bound
      /\ r \notin released
  BY <1>1, <1>2, <1>3, NoRowFacts DEF Orphan
<1>5. 1 \in 0..Stock
  BY <1>1, <1>3, ReservedNat
<1>6. /\ row' \in [All -> Row] /\ row'[r] = NewRow /\ \A q \in All \ {r} : row'[q] = row[q]
      /\ event' \in [All -> Event] /\ event'[r] = NewEvent
      /\ \A q \in All \ {r} : event'[q] = event[q]
  BY <1>1, <1>2, <1>3, NewRowFields DEF TypeOK
<1>7. /\ request' \in [Replacements -> RequestStatus] /\ request'[r] = "PENDING_FULFILLMENT"
      /\ \A q \in Replacements \ {r} : request'[q] = request[q]
  BY <1>1, <1>3 DEF TypeOK, RequestStatus
<1>8. /\ held' \in [{Order} \cup Replacements -> 0..Stock] /\ held'[r] = 1
      /\ \A q \in Replacements \ {r} : held'[q] = held[q]
      /\ held'[Order] = held[Order]
  <2>1. Order # r
    BY <1>2, FulfillmentAssumption
  <2> QED  BY <1>1, <1>3, <1>5, <2>1 DEF TypeOK
<1>9. Only(r)
  BY <1>1, <1>3, <1>6, <1>7, <1>8 DEF Only, TypeOK
<1>10. Books(r)
  BY <1>1, <1>3, <1>8 DEF Books, Needy
<1>11. parent # "PAID_PENDING_FULFILLMENT"
  BY <1>1 DEF PackagesSafe, ParentOK
<1>12. Follows(r)
  BY <1>1, <1>3, <1>6, <1>11 DEF Follows
<1>13. Respects(NoWorker, r)
  BY <1>1, <1>4, <1>6, NewRowFields DEF Respects
<1>14. PackageOK(r)'
  <2>1. BindingOK(r)'
    BY <1>1, <1>4, <1>6, NewRowFields DEF BindingOK
  <2>2. GoodsOK(r)'
    BY <1>1, <1>4, <1>6, NewRowFields DEF GoodsOK
  <2>3. CancellationOK(r)'
    BY <1>1, <1>4, <1>6, NewRowFields DEF CancellationOK
  <2> QED  BY <2>1, <2>2, <2>3 DEF PackageOK
<1>15. ReplacementOK(r)'
  BY <1>1, <1>4, <1>6, <1>7, <1>8, NewRowFields DEF ReplacementOK
<1> QED  BY <1>1, <1>2, <1>3, <1>9, <1>10, <1>12, <1>13, <1>14, <1>15, PackageStepSafe
-----------------------------------------------------------------------------
(* Retries and cancellations.                                              *)

LEMMA RetrySafe ==
    ASSUME PackagesSafe, HandsOff, NEW p \in All, Retry(p)
    PROVE  PackagesSafe'
<1>1. /\ row[p].code \notin {"ACTIVE_AFTER_CANCEL", "SHIPPED_AFTER_CANCEL"}
      /\ retries < MaxRetries /\ row[p].status = "EXCEPTION" /\ retries' = retries + 1
      /\ job' = job /\ Unbooked
  BY DEF Retry, LeftAlone, Unbooked
<1>2. /\ TypeOK /\ row[p] \in Row /\ event[p] \in Event /\ out[p] \in {0, 1}
      /\ BindingOK(p) /\ GoodsOK(p) /\ CancellationOK(p)
      /\ (p \in Replacements => ReplacementOK(p))
      /\ retries \in 0..MaxRetries /\ MaxRetries \in Nat
      /\ job \in [Workers -> Job] /\ NoWorker \notin Workers
  BY PackageFacts
<1>3. retries' \in 0..MaxRetries
  BY <1>1, <1>2
<1>4. /\ out[p] = 0 /\ (p \in released => Lost(p))
  BY <1>1, <1>2 DEF GoodsOK, CancellationOK, WorkedOn, Orphan
<1>5. CASE row[p].bound \/ row[p].jifeng # Absent
  <2> DEFINE x == [row[p] EXCEPT !.code = "NONE", !.never = FALSE]
  <2>1. row[p].bound
    BY <1>2, <1>5 DEF BindingOK
  <2>2. SetRowOnly(p, x) /\ event' = event /\ request' = request
    BY <1>5 DEF Retry
  <2>3. /\ x \in Row /\ x.status = "EXCEPTION" /\ x.code = "NONE" /\ x.bound = row[p].bound
        /\ x.jifeng = row[p].jifeng /\ x.poller = row[p].poller
    BY <1>1, <1>2 DEF Row
  <2> HIDE DEF x
  <2>4. Written(p, x, event[p]) /\ Requested(p)
    BY <1>2, <2>2, <2>3, RowReplaced DEF Written, Requested, TypeOK
  <2>5. /\ Only(p) /\ Books(p) /\ released' = released /\ out' = out /\ stock' = stock
        /\ held' = held /\ remote' = remote
    BY <1>1, <2>3, <2>4, WrittenOnly
  <2>6. row'[p] = x /\ event'[p] = event[p]
    BY <2>4 DEF Written
  <2>7. Follows(p)
    BY <1>1, <1>2, <2>2, <2>3, RowFollows
  <2>8. Lost(p) => Lost(p)'
    BY <2>3, <2>5, <2>6 DEF Lost, SoldOut
  <2>9. Respects(NoWorker, p)
    BY <1>1, <1>4, <2>3, <2>5, <2>6 DEF Respects
  <2>10. PackageOK(p)'
    <3>1. BindingOK(p)'
      BY <1>2, <2>1, <2>3, <2>5, <2>6, <2>8 DEF BindingOK
    <3>2. GoodsOK(p)'
      BY <1>4, <2>3, <2>5, <2>6 DEF GoodsOK
    <3>3. CancellationOK(p)'
      BY <1>4, <2>3, <2>5, <2>6, <2>8 DEF CancellationOK
    <3> QED  BY <3>1, <3>2, <3>3 DEF PackageOK
  <2>11. p \in Replacements => ReplacementOK(p)'
    BY <1>1, <1>2, <2>1, <2>2, <2>3, <2>5, <2>6 DEF ReplacementOK
  <2> QED  BY <1>1, <1>2, <1>3, <2>5, <2>7, <2>9, <2>10, <2>11, PackageStepSafe
<1>6. CASE ~row[p].bound /\ row[p].jifeng = Absent
  <2> DEFINE x == [row[p] EXCEPT !.status = "PENDING", !.code = "NONE", !.never = FALSE]
  <2>1. /\ SetRow(p, x) /\ event' = [event EXCEPT ![p] = NewEvent]
        /\ SetRequest(p, "PENDING_FULFILLMENT")
    BY <1>6 DEF Retry
  <2>2. /\ x \in Row /\ x.status = "PENDING" /\ x.code = "NONE" /\ x.bound = row[p].bound
        /\ x.jifeng = row[p].jifeng /\ x.poller = row[p].poller
    BY <1>2 DEF Row
  <2> HIDE DEF x
  <2>3. Written(p, x, NewEvent)
    BY <1>2, <2>1, <2>2, NewRowFields, RowReplaced, EventWritten DEF Written
  <2>4. Requested(p) /\ (p \in Replacements => request'[p] = "PENDING_FULFILLMENT")
    BY <1>2, <2>1, RequestSet DEF Requested, RequestStatus
  <2>5. /\ Only(p) /\ Books(p) /\ released' = released /\ out' = out /\ stock' = stock
        /\ held' = held /\ remote' = remote
    BY <1>1, <2>2, <2>3, <2>4, WrittenOnly
  <2>6. row'[p] = x /\ event'[p] = NewEvent
    BY <2>3 DEF Written
  <2>7. Follows(p)
    BY <1>1, <1>2, <2>1, <2>2, RowFollows
  <2>8. p \notin released
    BY <1>4, <1>6 DEF Lost
  <2>9. Respects(NoWorker, p)
    BY <1>4, <1>6, <2>2, <2>5, <2>6, NewRowFields DEF Respects
  <2>10. PackageOK(p)'
    <3>1. BindingOK(p)'
      BY <1>4, <1>6, <2>2, <2>5, <2>6 DEF BindingOK
    <3>2. GoodsOK(p)'
      BY <1>4, <2>2, <2>5, <2>6 DEF GoodsOK
    <3>3. CancellationOK(p)'
      BY <2>2, <2>5, <2>6, <2>8 DEF CancellationOK
    <3> QED  BY <3>1, <3>2, <3>3 DEF PackageOK
  <2>11. p \in Replacements => ReplacementOK(p)'
    BY <1>1, <1>2, <2>2, <2>4, <2>5, <2>6 DEF ReplacementOK
  <2> QED  BY <1>1, <1>2, <1>3, <2>5, <2>7, <2>9, <2>10, <2>11, PackageStepSafe
<1> QED  BY <1>5, <1>6

LEMMA MonitorSays ==
    ASSUME NEW e \in Event
    PROVE  /\ Monitor(e) \in Event /\ Monitor(e).status \in {"NONE", "PENDING", "COMPLETED"}
           /\ e.status \in {"NONE", "COMPLETED"} => Monitor(e) = e
           /\ e.status \in {"PENDING", "FAILED", "PROCESSING"} => Monitor(e).status = "PENDING"
BY DEF Monitor, NewEvent, NoEvent, Event

(* What a local cancellation does, whoever asks for it.                    *)
LEMMA CancelLocallySafe ==
    ASSUME PackagesSafe, NEW p \in All, NEW w, CancelLocally(p), Cancellable(p), LocalOnly(p),
           remote' = remote
    PROVE  /\ Only(p) /\ Books(p) /\ Follows(p) /\ Respects(w, p)
           /\ PackageOK(p)' /\ (p \in Replacements => ReplacementOK(p)')
<1> DEFINE x == [row[p] EXCEPT !.status = "CANCELLED", !.code = "NONE", !.never = FALSE]
           e == Monitor(event[p])
<1>1. /\ held[Holder(p)] >= 1 /\ held' = [held EXCEPT ![Holder(p)] = @ - 1]
      /\ SetRow(p, x) /\ event' = [event EXCEPT ![p] = e] /\ SetRequest(p, "CANCELLED")
      /\ refunded' = refunded \cup ({p} \cap Packages) /\ released' = released \cup {p}
      /\ stock' = stock /\ out' = out
  BY PackageFacts DEF CancelLocally, TypeOK
<1>2. /\ row[p].status \notin {"NONE", "SHIPPED", "CANCELLED"}
      /\ ~row[p].bound /\ row[p].jifeng = Absent
  BY DEF Cancellable, LocalOnly, Unknown
<1>3. /\ TypeOK /\ row[p] \in Row /\ event[p] \in Event /\ BindingOK(p) /\ CancellationOK(p)
      /\ p \in Packages <=> p \notin Replacements
      /\ p \in Replacements => ReplacementOK(p)
  BY PackageFacts
<1>4. /\ x \in Row /\ x.status = "CANCELLED" /\ x.code = "NONE" /\ x.bound = row[p].bound
      /\ x.jifeng = row[p].jifeng /\ x.poller = row[p].poller
  BY <1>3 DEF Row
<1>5. /\ e \in Event /\ e.status \in {"NONE", "PENDING", "COMPLETED"}
  BY <1>3, MonitorSays
<1> HIDE DEF x, e
<1>6. Written(p, x, e)
  BY <1>1, <1>3, <1>4, <1>5, RowReplaced, EventWritten DEF Written
<1>7. Requested(p) /\ (p \in Replacements => request'[p] = "CANCELLED")
  BY <1>1, <1>3, RequestSet DEF Requested, RequestStatus
<1>8. row'[p] = x /\ event'[p] = e
  BY <1>6 DEF Written
<1>9. out[p] = 0
  BY <1>2, <1>3 DEF BindingOK
<1>10. p \notin released
  <2> SUFFICES ASSUME p \in released
               PROVE  FALSE
    OBVIOUS
  <2>1. Orphan(p)
    BY <1>2, <1>3, <1>9 DEF CancellationOK, WorkedOn, Lost
  <2>2. Packages \subseteq released /\ p \in Packages
    BY <2>1 DEF Orphan, PackagesSafe, ParentOK
  <2>3. Needy = {}
    BY <2>2 DEF Needy
  <2>4. held[Order] = 0
    BY <2>3, FS_EmptySet DEF PackagesSafe
  <2>5. Holder(p) = Order
    BY <1>3, <2>2 DEF Holder
  <2> QED  BY <1>1, <2>4, <2>5
<1>11. /\ held' \in [{Order} \cup Replacements -> 0..Stock]
       /\ \A r \in Replacements \ {p} : held'[r] = held[r]
       /\ p \in Replacements => held'[p] = held[p] - 1 /\ held'[Order] = held[Order]
       /\ p \in Packages => held'[Order] = held[Order] - 1
  BY <1>1, <1>3, HeldReduced
<1>12. Only(p)
  <2>1. refunded' = released' \cap Packages
    BY <1>1 DEF PackagesSafe
  <2> QED  BY <1>1, <1>3, <1>6, <1>7, <1>11, <2>1 DEF Only, Written, Requested, TypeOK
<1>13. Books(p)
  <2>1. p \notin Needy'
    BY <1>1 DEF Needy
  <2>2. p \in Needy <=> p \in Packages
    BY <1>2, <1>10 DEF Needy
  <2> QED  BY <1>1, <1>3, <1>11, <2>1, <2>2 DEF Books
<1>14. Follows(p)
  BY <1>1, <1>2, <1>3, <1>4, RowFollows
<1>15. Respects(w, p)
  BY <1>1, <1>2, <1>4, <1>5, <1>8 DEF Respects
<1>16. PackageOK(p)'
  <2>1. BindingOK(p)'
    BY <1>1, <1>2, <1>4, <1>8, <1>9 DEF BindingOK
  <2>2. GoodsOK(p)'
    BY <1>1, <1>4, <1>8, <1>9 DEF GoodsOK
  <2>3. CancellationOK(p)'
    BY <1>1, <1>4, <1>8 DEF CancellationOK
  <2> QED  BY <2>1, <2>2, <2>3 DEF PackageOK
<1>17. p \in Replacements => ReplacementOK(p)'
  <2> SUFFICES ASSUME p \in Replacements
               PROVE  ReplacementOK(p)'
    OBVIOUS
  <2>1. held[p] = 1
    BY <1>2, <1>3, <1>10 DEF ReplacementOK
  <2>2. held'[p] = 0
    BY <1>11, <2>1
  <2> QED  BY <1>1, <1>4, <1>7, <1>8, <2>2 DEF ReplacementOK
<1> QED  BY <1>12, <1>13, <1>14, <1>15, <1>16, <1>17

(* A package that Jifeng knows is marked, and waits for Jifeng.            *)
LEMMA MarkSafe ==
    ASSUME PackagesSafe, NEW p \in All, NEW w \in Workers,
           row[p].bound, out[p] = 0, row[p].status \notin {"NONE", "SHIPPED", "CANCELLED"},
           p \in released => Lost(p),
           NEW x \in Row, x.status \in {"CANCEL_PENDING", "EXCEPTION"}, x.bound,
           x.code \notin {"ACTIVE_AFTER_CANCEL", "SHIPPED_AFTER_CANCEL"},
           x.poller = row[p].poller, SetRow(p, x) \/ SetRowOnly(p, x),
           NEW s \in RequestStatus \ {"NONE", "SHIPPED"}, SetRequest(p, s),
           event' = event, retries' = retries, Unbooked,
           job' \in [Workers -> Job], \A u \in Workers \ {w} : job'[u] = job[u], JobOK(w)'
    PROVE  PackagesSafe'
<1>1. /\ TypeOK /\ row[p] \in Row /\ event[p] \in Event /\ BindingOK(p)
      /\ (p \in Replacements => ReplacementOK(p)) /\ retries \in 0..MaxRetries
  BY PackageFacts
<1>2. Written(p, x, event[p])
  BY <1>1, RowReplaced DEF Written, TypeOK
<1>3. Requested(p) /\ (p \in Replacements => request'[p] = s)
  BY <1>1, RequestSet DEF Requested
<1>4. /\ Only(p) /\ Books(p) /\ released' = released /\ out' = out /\ stock' = stock
      /\ held' = held /\ remote' = remote
  BY <1>2, <1>3, WrittenOnly
<1>5. row'[p] = x /\ event'[p] = event[p]
  BY <1>2 DEF Written
<1>6. Follows(p)
  BY <1>1, RowFollows
<1>7. Lost(p) => Lost(p)'
  BY <1>4, <1>5 DEF Lost, SoldOut
<1>8. Respects(w, p)
  BY <1>1, <1>4, <1>5 DEF Respects, BindingOK
<1>9. PackageOK(p)'
  <2>1. BindingOK(p)'
    BY <1>1, <1>4, <1>5, <1>7 DEF BindingOK
  <2>2. GoodsOK(p)'
    BY <1>4, <1>5 DEF GoodsOK
  <2>3. CancellationOK(p)'
    BY <1>4, <1>5, <1>7 DEF CancellationOK
  <2> QED  BY <2>1, <2>2, <2>3 DEF PackageOK
<1>10. p \in Replacements => ReplacementOK(p)'
  BY <1>1, <1>3, <1>4, <1>5 DEF ReplacementOK
<1> QED  BY <1>1, <1>4, <1>6, <1>8, <1>9, <1>10, PackageStepSafe

LEMMA CancelPackageSafe ==
    ASSUME PackagesSafe, HandsOff, NEW w \in Workers, NEW p \in All, CancelPackage(w, p)
    PROVE  PackagesSafe'
<1>1. /\ Cancellable(p) /\ remote' = remote /\ retries' = retries
      /\ row[p].code \notin {"ACTIVE_AFTER_CANCEL", "SHIPPED_AFTER_CANCEL"}
  BY DEF CancelPackage, LeftAlone
<1>2. /\ TypeOK /\ row[p] \in Row /\ out[p] \in {0, 1}
      /\ BindingOK(p) /\ GoodsOK(p) /\ CancellationOK(p)
      /\ retries \in 0..MaxRetries /\ job \in [Workers -> Job] /\ NoWorker \notin Workers
  BY PackageFacts
<1>3. CASE LocalOnly(p)
  <2>1. CancelLocally(p) /\ job' = job
    BY <1>3 DEF CancelPackage
  <2>2. /\ Only(p) /\ Books(p) /\ Follows(p) /\ Respects(NoWorker, p)
        /\ PackageOK(p)' /\ (p \in Replacements => ReplacementOK(p)')
    BY <1>1, <1>3, <2>1, CancelLocallySafe
  <2> QED  BY <1>1, <1>2, <2>1, <2>2, PackageStepSafe
<1>4. CASE ~LocalOnly(p)
  <2> DEFINE x == [row[p] EXCEPT !.status = "CANCEL_PENDING"]
  <2>1. /\ SetRowOnly(p, x) /\ SetRequest(p, "CANCEL_PENDING") /\ Start(w, "call", p)
        /\ event' = event /\ Unbooked
    BY <1>1, <1>4 DEF CancelPackage, Unbooked
  <2>2. row[p].status \notin {"NONE", "SHIPPED", "CANCELLED"}
    BY <1>1 DEF Cancellable
  <2>3. row[p].bound
    <3> SUFFICES ASSUME ~row[p].bound
                 PROVE  FALSE
      OBVIOUS
    <3>1. row[p].jifeng = Absent /\ row[p].status \in {"PENDING", "SUBMITTING", "EXCEPTION"}
      BY <1>2, <2>2 DEF BindingOK
    <3>2. row[p].status = "SUBMITTING" => LeaseOver(p)
      BY <1>1, <1>2 DEF BindingOK, Cancellable, LeaseOver
    <3> QED  BY <1>4, <3>1, <3>2 DEF LocalOnly, Unknown
  <2>4. out[p] = 0 /\ (p \in released => Lost(p))
    BY <1>1, <1>2, <2>2, <2>3 DEF GoodsOK, CancellationOK, WorkedOn, Orphan
  <2>5. /\ x \in Row /\ x.status = "CANCEL_PENDING" /\ x.bound /\ x.code = row[p].code
        /\ x.poller = row[p].poller
    BY <1>2, <2>3 DEF Row
  <2>6. "CANCEL_PENDING" \in RequestStatus \ {"NONE", "SHIPPED"}
    BY DEF RequestStatus
  <2> HIDE DEF x
  <2>7. /\ job' \in [Workers -> Job] /\ \A u \in Workers \ {w} : job'[u] = job[u]
        /\ job'[w].pkg = p
    BY <1>2, <2>1, Started
  <2>8. row'[p] = x
    BY <1>2, <2>1, <2>5, RowReplaced
  <2>9. Lost(p) => Lost(p)'
    BY <2>1, <2>5, <2>8 DEF Lost, SoldOut, Unbooked, books
  <2>10. CallOK(w)'
    BY <2>1, <2>4, <2>5, <2>7, <2>8, <2>9 DEF CallOK, Unbooked, books
  <2>11. JobOK(w)'
    BY <1>2, <2>1, <2>10, Started
  <2> QED  BY <1>1, <2>1, <2>2, <2>3, <2>4, <2>5, <2>6, <2>7, <2>11, MarkSafe
<1> QED  BY <1>3, <1>4

(* What a worker relies on that has asked Jifeng to cancel.                *)
LEMMA CallFacts ==
    ASSUME PackagesSafe, NEW w \in Workers, job[w].task \in {"call", "accepted", "refused"}
    PROVE  LET p == job[w].pkg
           IN  /\ p \in All /\ row[p].bound /\ row[p] \in Row
               /\ row[p].status \notin {"SHIPPED", "CANCELLED"} =>
                    /\ row[p].status # "NONE" /\ out[p] = 0 /\ (p \in released => Lost(p))
<1> DEFINE p == job[w].pkg
<1>1. JobOK(w)
  BY DEF PackagesSafe
<1>2. p \in All /\ row[p].bound /\ (p \in released => Lost(p) \/ row[p].status = "CANCELLED")
  BY <1>1 DEF JobOK, CallOK
<1>3. /\ BindingOK(p) /\ GoodsOK(p) /\ out[p] \in {0, 1} /\ row[p] \in Row
  BY <1>2, PackageFacts
<1>4. row[p].status # "NONE"
  BY <1>2, <1>3, NewRowFields DEF BindingOK
<1>5. row[p].status \notin {"SHIPPED", "CANCELLED"} => out[p] = 0
  BY <1>2, <1>3 DEF GoodsOK, Lost
<1> QED  BY <1>2, <1>3, <1>4, <1>5

LEMMA CancelAnsweredSafe ==
    ASSUME PackagesSafe, NEW w \in Workers, CancelAccepted(w) \/ CancelRefused(w),
           NEW p \in All, p = job[w].pkg
    PROVE  PackagesSafe'
<1>1. /\ job[w].task \in {"accepted", "refused"} /\ job' = [job EXCEPT ![w] = Idle]
      /\ UNCHANGED <<event, books, remote, retries>>
  BY DEF CancelAccepted, CancelRefused, Working, Finish
<1>2. /\ row[p].bound /\ row[p] \in Row
      /\ row[p].status \notin {"SHIPPED", "CANCELLED"} =>
           /\ row[p].status # "NONE" /\ out[p] = 0 /\ (p \in released => Lost(p))
  BY <1>1, CallFacts
<1>3. job \in [Workers -> Job]
  BY DEF PackagesSafe, TypeOK
<1>4. JobOK(w)' /\ job' \in [Workers -> Job] /\ \A u \in Workers \ {w} : job'[u] = job[u]
  BY <1>1, <1>3, IdleOK
<1>5. CASE row[p].status \in {"SHIPPED", "CANCELLED"}
  <2>1. UNCHANGED <<parent, row, request>>
    BY <1>5 DEF CancelAccepted, CancelRefused
  <2> QED  BY <1>1, <1>4, <2>1, JobStepSafe
<1>6. CASE row[p].status \notin {"SHIPPED", "CANCELLED"}
  <2>1. CASE CancelAccepted(w)
    <3> DEFINE x == [row[p] EXCEPT !.status = "CANCEL_PENDING", !.code = "NONE", !.never = FALSE]
    <3>1. SetRowOnly(p, x) /\ SetRequest(p, "CANCEL_PENDING")
      BY <1>6, <2>1 DEF CancelAccepted
    <3>2. /\ x \in Row /\ x.status = "CANCEL_PENDING" /\ x.bound /\ x.code = "NONE"
          /\ x.poller = row[p].poller
      BY <1>2 DEF Row
    <3>3. "CANCEL_PENDING" \in RequestStatus \ {"NONE", "SHIPPED"}
      BY DEF RequestStatus
    <3> HIDE DEF x
    <3> QED  BY <1>1, <1>2, <1>4, <1>6, <3>1, <3>2, <3>3, MarkSafe DEF Unbooked
  <2>2. CASE CancelRefused(w)
    <3> DEFINE x == [row[p] EXCEPT !.status = "EXCEPTION", !.code = "OTHER"]
    <3>1. SetRow(p, x) /\ SetRequest(p, "EXCEPTION")
      BY <1>6, <2>2 DEF CancelRefused
    <3>2. /\ x \in Row /\ x.status = "EXCEPTION" /\ x.bound /\ x.code = "OTHER"
          /\ x.poller = row[p].poller
      BY <1>2 DEF Row
    <3>3. "EXCEPTION" \in RequestStatus \ {"NONE", "SHIPPED"}
      BY DEF RequestStatus
    <3> HIDE DEF x
    <3> QED  BY <1>1, <1>2, <1>4, <1>6, <3>1, <3>2, <3>3, MarkSafe DEF Unbooked
  <2> QED  BY <2>1, <2>2
<1> QED  BY <1>5, <1>6

LEMMA CancelMaterializedSafe ==
    ASSUME PackagesSafe, NEW w \in Workers, CancelMaterialized(w),
           NEW p \in All, p = job[w].pkg
    PROVE  PackagesSafe'
<1>1. job' = [job EXCEPT ![w] = Idle] /\ remote' = remote /\ retries' = retries
  BY DEF CancelMaterialized, Finish
<1>2. job \in [Workers -> Job] /\ retries \in 0..MaxRetries
  BY DEF PackagesSafe, TypeOK
<1>3. JobOK(w)' /\ job' \in [Workers -> Job] /\ \A u \in Workers \ {w} : job'[u] = job[u]
  BY <1>1, <1>2, IdleOK
<1>4. CASE Cancellable(p) /\ LocalOnly(p)
  <2>1. CancelLocally(p)
    BY <1>4 DEF CancelMaterialized
  <2>2. /\ Only(p) /\ Books(p) /\ Follows(p) /\ Respects(w, p)
        /\ PackageOK(p)' /\ (p \in Replacements => ReplacementOK(p)')
    BY <1>1, <1>4, <2>1, CancelLocallySafe
  <2> QED  BY <1>1, <1>2, <1>3, <2>2, PackageStepSafe
<1>5. CASE ~(Cancellable(p) /\ LocalOnly(p))
  <2>1. UNCHANGED <<parent, row, event, request, books>>
    BY <1>5 DEF CancelMaterialized
  <2> QED  BY <1>1, <1>3, <2>1, JobStepSafe
<1> QED  BY <1>4, <1>5

(* The whole order is cancelled: no worker has got hold of any package.    *)
LEMMA CancelOrderSafe ==
    ASSUME PackagesSafe, CancelOrder
    PROVE  PackagesSafe'
<1>1. /\ OrderCancellable
      /\ row' = [p \in All |->
           IF row[p].status \in {"PENDING", "EXCEPTION", "SUBMITTING"}
           THEN [row[p] EXCEPT !.status = "CANCELLED", !.code = "OTHER", !.never = FALSE]
           ELSE row[p]]
      /\ event' = [p \in All |-> Monitor(event[p])]
      /\ refunded' = Packages /\ released' = released \cup Packages
      /\ held' = [held EXCEPT ![Order] = 0] /\ parent' = "CANCELLED"
      /\ request' = request /\ stock' = stock /\ out' = out /\ remote' = remote /\ job' = job
      /\ retries' = retries
  BY DEF CancelOrder
<1>2. /\ TypeOK /\ ParentOK /\ Stock \in Nat /\ Packages \subseteq All /\ Replacements \subseteq All
      /\ Packages \cap Replacements = {} /\ Order \notin All
  BY FulfillmentAssumption DEF PackagesSafe, All
<1>3. \A r \in Replacements : row[r].status = "NONE"
  BY <1>1, <1>2 DEF OrderCancellable, ParentOK
<1>4. ASSUME NEW p \in All
      PROVE  /\ row[p].status \in {"NONE", "CANCELLED"} => row'[p] = row[p]
             /\ row[p].status \notin {"NONE", "CANCELLED"} =>
                  /\ p \in Packages /\ ~row[p].bound /\ row[p].jifeng = Absent
                  /\ row'[p].status = "CANCELLED" /\ row'[p].code = "OTHER"
                  /\ row'[p].poller = row[p].poller
             /\ row'[p].bound = row[p].bound /\ row'[p].jifeng = row[p].jifeng
             /\ row'[p].poller = row[p].poller
             /\ row'[p] \in Row
  <2>1. row[p] \in Row /\ (p \in Packages \/ p \in Replacements)
    BY PackageFacts DEF All
  <2>2. CASE row[p].status \in {"NONE", "CANCELLED"}
    BY <1>1, <2>1, <2>2
  <2>3. CASE row[p].status \notin {"NONE", "CANCELLED"}
    <3>1. /\ ~row[p].bound /\ row[p].jifeng = Absent
          /\ row[p].status \in {"PENDING", "EXCEPTION", "SUBMITTING"}
      BY <1>1, <2>3 DEF OrderCancellable, Unknown
    <3> DEFINE x == [row[p] EXCEPT !.status = "CANCELLED", !.code = "OTHER", !.never = FALSE]
    <3>2. row'[p] = x
      BY <1>1, <3>1
    <3>3. /\ x \in Row /\ x.status = "CANCELLED" /\ x.code = "OTHER" /\ x.bound = row[p].bound
          /\ x.jifeng = row[p].jifeng /\ x.poller = row[p].poller
      BY <2>1 DEF Row
    <3> HIDE DEF x
    <3> QED  BY <1>3, <2>1, <2>3, <3>1, <3>2, <3>3
  <2> QED  BY <2>2, <2>3
<1>5. ASSUME NEW p \in All
      PROVE  /\ event'[p] \in Event /\ event'[p].status \in {"NONE", "PENDING", "COMPLETED"}
             /\ event[p].status \in {"NONE", "COMPLETED"} => event'[p] = event[p]
  <2>1. event[p] \in Event /\ event'[p] = Monitor(event[p])
    BY <1>1, PackageFacts
  <2> QED  BY <2>1, MonitorSays
<1>6. row' \in [All -> Row] /\ event' \in [All -> Event]
  <2>1. \A p \in All : row'[p] \in Row /\ event'[p] \in Event
    BY <1>4, <1>5
  <2> QED  BY <1>1, <2>1
<1>7. held' \in [{Order} \cup Replacements -> 0..Stock] /\ held'[Order] = 0
      /\ \A r \in Replacements : held'[r] = held[r]
  <2>1. held \in [{Order} \cup Replacements -> 0..Stock] /\ 0 \in 0..Stock
    BY <1>2 DEF TypeOK
  <2>2. Order \notin Replacements
    BY <1>2
  <2> HIDE <1>2
  <2> QED  BY <1>1, <2>1, <2>2
<1>8. TypeOK'
  BY <1>1, <1>2, <1>6, <1>7 DEF TypeOK, OrderStatus
<1>9. refunded' = released' \cap Packages
  BY <1>1
<1>10. stock' = Stock - Cardinality(Booked')
  <2>1. Booked' = Booked
    BY <1>1 DEF Booked
  <2> QED  BY <1>1, <2>1 DEF PackagesSafe
<1>11. held'[Order] = Cardinality(Needy')
  <2>1. Needy' = {}
    BY <1>1 DEF Needy
  <2> QED  BY <1>7, <2>1, FS_EmptySet
<1>12. ParentOK'
  BY <1>1 DEF ParentOK
<1>13. ASSUME NEW p \in All
       PROVE  PackageOK(p)'
  <2>1. /\ BindingOK(p) /\ GoodsOK(p) /\ CancellationOK(p) /\ out[p] \in {0, 1}
    BY PackageFacts
  <2>2. Lost(p) => Lost(p)'
    BY <1>1, <1>4 DEF Lost, SoldOut
  <2>3. p \in Packages => p \in released'
    BY <1>1
  <2>4. p \notin Packages => p \in Replacements /\ (p \in released' <=> p \in released)
    BY <1>1 DEF All
  <2>5. CASE row[p].status = "NONE"
    <3>1. /\ row[p] = NoRow /\ event[p] = NoEvent /\ out[p] = 0 /\ ~row[p].bound
          /\ p \in released => Orphan(p)
      BY <2>5, NoRowFacts
    <3>2. row'[p] = NoRow /\ event'[p] = NoEvent /\ out'[p] = 0
      BY <1>1, <1>4, <1>5, <2>5, <3>1, NewRowFields
    <3>3. p \in Packages => Orphan(p)'
      BY <1>1, <3>2, NewRowFields DEF Orphan
    <3>4. p \notin Packages => p \notin released'
      BY <2>4, <3>1 DEF Orphan
    <3>5. BindingOK(p)'
      BY <3>2, NewRowFields, Codes DEF BindingOK, NoRow
    <3>6. GoodsOK(p)'
      BY <3>2, NewRowFields DEF GoodsOK
    <3>7. CancellationOK(p)'
      BY <3>2, <3>3, <3>4, NewRowFields DEF CancellationOK
    <3> QED  BY <3>5, <3>6, <3>7 DEF PackageOK
  <2>6. CASE row[p].status = "CANCELLED"
    <3>1. row'[p] = row[p] /\ out'[p] = out[p] /\ p \in released'
      BY <1>1, <1>4, <2>1, <2>6 DEF CancellationOK
    <3>2. event[p].status = "COMPLETED" => event'[p].status = "COMPLETED"
      BY <1>5
    <3>3. BindingOK(p)'
      BY <2>1, <2>2, <2>6, <3>1, <3>2 DEF BindingOK
    <3>4. out[p] = 0
      BY <2>1, <2>6 DEF GoodsOK
    <3>5. GoodsOK(p)'
      BY <2>1, <2>6, <3>1, <3>4 DEF GoodsOK
    <3>6. CancellationOK(p)'
      BY <2>1, <2>6, <3>1 DEF CancellationOK, WorkedOn
    <3> QED  BY <3>3, <3>5, <3>6 DEF PackageOK
  <2>7. CASE row[p].status \notin {"NONE", "CANCELLED"}
    <3>1. /\ p \in Packages /\ ~row[p].bound /\ row[p].jifeng = Absent
          /\ row'[p].status = "CANCELLED" /\ row'[p].code = "OTHER"
          /\ row'[p].bound = row[p].bound /\ row'[p].jifeng = row[p].jifeng
      BY <1>4, <2>7
    <3>2. out'[p] = 0
      BY <1>1, <2>1, <3>1 DEF BindingOK
    <3>3. BindingOK(p)'
      BY <3>1, <3>2 DEF BindingOK
    <3>4. GoodsOK(p)'
      BY <3>1, <3>2 DEF GoodsOK
    <3>5. CancellationOK(p)'
      BY <2>3, <3>1 DEF CancellationOK
    <3> QED  BY <3>3, <3>4, <3>5 DEF PackageOK
  <2> QED  BY <2>5, <2>6, <2>7
<1>14. ASSUME NEW r \in Replacements
       PROVE  ReplacementOK(r)'
  <2>1. r \in All /\ ReplacementOK(r) /\ row'[r] = row[r]
    BY <1>2, <1>3, <1>4 DEF PackagesSafe
  <2>2. r \in released' <=> r \in released
    BY <1>1, <1>2
  <2> QED  BY <1>1, <1>7, <2>1, <2>2 DEF ReplacementOK
<1>15. ASSUME NEW w \in Workers
       PROVE  JobOK(w)'
  <2> DEFINE q == job[w].pkg
  <2>1. JobOK(w) /\ job'[w] = job[w]
    BY <1>1 DEF PackagesSafe
  <2>2. CASE job[w].task = "idle"
    <3>1. job[w] = Idle /\ Idle.answer = Absent
      BY <2>1, <2>2 DEF JobOK, Idle
    <3>2. AnswerOK(w)' /\ CallOK(w)' /\ MatchOK(w)'
      BY <2>1, <2>2, <3>1, Codes DEF AnswerOK, CallOK, MatchOK
    <3> QED  BY <2>1, <2>2, <3>2 DEF JobOK
  <2>3. CASE job[w].task # "idle"
    <3>1. q \in All
      BY <2>1, <2>3 DEF JobOK
    <3>2. /\ row'[q].bound = row[q].bound /\ row'[q].poller = row[q].poller
          /\ event[q].status = "COMPLETED" => event'[q].status = "COMPLETED"
          /\ event'[q].status # "PROCESSING"
          /\ q \in released => q \in released'
      BY <1>1, <1>4, <1>5, <3>1
    <3>3. row[q].bound =>
            /\ row'[q] = row[q]
            /\ row[q].status = "CANCELLED" /\ q \in released
      <4>1. row[q].bound => row[q].status = "CANCELLED"
        BY <1>4, <3>1, NoRowFacts
      <4> QED  BY <1>4, <3>1, <4>1, PackageFacts DEF CancellationOK
    <3>4. Lost(q) => Lost(q)'
      <4>1. row'[q].bound = row[q].bound
        BY <3>2
      <4>2. q' = q
        BY <1>1
      <4> HIDE DEF q
      <4> QED  BY <1>1, <4>1, <4>2 DEF Lost, SoldOut
    <3> HIDE DEF q
    <3>5. AnswerOK(w)'
      BY <1>1, <2>1, <3>2 DEF AnswerOK, JobOK, q
    <3>6. CallOK(w)'
      BY <1>1, <2>1, <3>2, <3>3, <3>4 DEF CallOK, JobOK, q
    <3>7. MatchOK(w)'
      BY <1>1, <2>1, <3>2 DEF MatchOK, JobOK, OwnsEvent, q
    <3> QED  BY <2>1, <3>5, <3>6, <3>7 DEF JobOK
  <2> QED  BY <2>2, <2>3
<1> QED  BY <1>8, <1>9, <1>10, <1>11, <1>12, <1>13, <1>14, <1>15 DEF PackagesSafe
-----------------------------------------------------------------------------
(* Jifeng goes on by itself, or because a call has asked it to cancel.     *)
LEMMA RemoteStepSafe ==
    ASSUME PackagesSafe, NEW p \in All, NEW d \in Details, NEW w,
           remote[p] \notin {Shipped, Cancelled}, remote' = [remote EXCEPT ![p] = d],
           UNCHANGED <<parent, row, event, request, books, retries>>,
           job' \in [Workers -> Job],
           \A u \in Workers : \/ job'[u] = job[u]
                              \/ /\ job[u].task = "call" /\ job'[u].task \in {"accepted", "refused"}
                                 /\ job'[u].pkg = job[u].pkg /\ job'[u].answer = job[u].answer
    PROVE  PackagesSafe'
<1>1. /\ parent' = parent /\ row' = row /\ event' = event /\ request' = request
      /\ refunded' = refunded /\ released' = released /\ stock' = stock /\ held' = held
      /\ out' = out /\ retries' = retries
  BY DEF books
<1>2. /\ TypeOK /\ remote \in [All -> {Absent} \cup Details]
  BY DEF PackagesSafe, TypeOK
<1>3. /\ remote' \in [All -> {Absent} \cup Details]
      /\ \A q \in All : remote[q] \in {Shipped, Cancelled} => remote'[q] = remote[q]
  BY <1>2
<1>4. /\ TypeOK' /\ refunded' = released' \cap Packages
      /\ Booked' = Booked /\ Needy' = Needy
  BY <1>1, <1>2, <1>3 DEF PackagesSafe, TypeOK, Booked, Needy
<1>5. \A q \in All : Lost(q) => Lost(q)'
  BY <1>1, <1>3 DEF Lost, SoldOut
<1>6. ASSUME NEW q \in All
      PROVE  PackageOK(q)'
  <2>1. PackageOK(q)
    BY DEF PackagesSafe
  <2> QED  BY <1>1, <1>3, <1>5, <2>1 DEF PackageOK, BindingOK, GoodsOK, CancellationOK, Orphan,
                                         WorkedOn
<1>7. \A r \in Replacements : ReplacementOK(r)'
  BY <1>1 DEF PackagesSafe, ReplacementOK
<1>8. ParentOK'
  BY <1>1 DEF PackagesSafe, ParentOK
<1>9. ASSUME NEW u \in Workers
      PROVE  JobOK(u)'
  <2> DEFINE q == job[u].pkg
  <2>1. JobOK(u)
    BY DEF PackagesSafe
  <2>2. CASE job[u].task = "idle"
    <3>1. job'[u] = Idle /\ Idle.answer = Absent /\ Idle.task = "idle"
      BY <2>1, <2>2 DEF JobOK, Idle
    <3>2. AnswerOK(u)' /\ CallOK(u)' /\ MatchOK(u)'
      BY <3>1, Codes DEF AnswerOK, CallOK, MatchOK
    <3> QED  BY <3>1, <3>2 DEF JobOK
  <2>3. CASE job[u].task # "idle"
    <3>1. q \in All /\ job'[u].pkg = q /\ job'[u].answer = job[u].answer
      BY <2>1, <2>3 DEF JobOK
    <3>2. (Lost(q) => Lost(q)') /\ q' = q
      <4>1. q' = q
        BY <3>1
      <4>2. Lost(q) => (SoldOut /\ row[q].bound /\ remote[q] = Shipped /\ out[q] = 0)'
        <5>1. Lost(q) => SoldOut /\ row[q].bound /\ remote[q] = Shipped /\ out[q] = 0
          BY DEF Lost
        <5> QED  BY <1>1, <1>3, <3>1, <4>1, <5>1 DEF SoldOut
      <4> QED  BY <4>1, <4>2 DEF Lost
    <3>3. remote[q] \in {Shipped, Cancelled} => remote'[q] = remote[q]
      BY <1>3, <3>1
    <3> HIDE DEF q
    <3>4. AnswerOK(u)'
      BY <1>1, <2>1, <3>1, <3>2, <3>3 DEF AnswerOK, JobOK, q
    <3>5. CallOK(u)'
      BY <1>1, <2>1, <3>1, <3>2 DEF CallOK, JobOK, q
    <3>6. MatchOK(u)'
      BY <1>1, <2>1, <3>1, <3>2 DEF MatchOK, JobOK, OwnsEvent, q
    <3> QED  BY <2>1, <3>1, <3>4, <3>5, <3>6 DEF JobOK, q
  <2> QED  BY <2>2, <2>3
<1>10. stock' = Stock - Cardinality(Booked') /\ held'[Order] = Cardinality(Needy')
  BY <1>1, <1>4 DEF PackagesSafe
<1> QED  BY <1>4, <1>6, <1>7, <1>8, <1>9, <1>10 DEF PackagesSafe

LEMMA RemoteMovesSafe ==
    ASSUME PackagesSafe, NEW p \in All, RemoteMoves(p)
    PROVE  PackagesSafe'
<1>1. PICK d \in Fates[p] : remote' = [remote EXCEPT ![p] = d]
  BY Zenon DEF RemoteMoves
<1>2. d \in Details
  <2>1. Fates[p] \in SUBSET {2, 7, 8, 9}
    BY FulfillmentAssumption
  <2> QED  BY <2>1, Codes
<1>3. /\ remote[p] \notin {Shipped, Cancelled} /\ job' = job
      /\ UNCHANGED <<parent, row, event, request, books, retries>>
  BY DEF RemoteMoves
<1>4. job' \in [Workers -> Job]
  BY <1>3 DEF PackagesSafe, TypeOK
<1> QED  BY <1>1, <1>2, <1>3, <1>4, RemoteStepSafe

LEMMA CallCancelSafe ==
    ASSUME PackagesSafe, NEW w \in Workers, CallCancel(w),
           NEW p \in All, p = job[w].pkg
    PROVE  PackagesSafe'
<1>1. PICK t \in {"accepted", "refused"} : job' = [job EXCEPT ![w].task = t]
  BY Zenon DEF CallCancel
<1>2. /\ job[w].task = "call" /\ UNCHANGED <<parent, row, event, request, books, retries>>
      /\ \/ remote' = remote
         \/ remote[p] \in {Active, HeldUp} /\ remote' = [remote EXCEPT ![p] = Cancelled]
  BY DEF CallCancel, Working
<1>3. job \in [Workers -> Job] /\ JobOK(w)
  BY DEF PackagesSafe, TypeOK
<1> DEFINE j == [job[w] EXCEPT !.task = t]
<1>4. /\ j \in Job /\ j.task = t /\ j.pkg = job[w].pkg /\ j.answer = job[w].answer
  BY <1>3 DEF Job
<1>5. job' = [job EXCEPT ![w] = j]
  BY <1>1, <1>3
<1> HIDE DEF j
<1>6. job' \in [Workers -> Job] /\ job'[w] = j /\ \A u \in Workers \ {w} : job'[u] = job[u]
  BY <1>3, <1>4, <1>5
<1>7. CASE remote' = remote
  <2>1. AnswerOK(w)' /\ MatchOK(w)'
    BY <1>3, <1>4, <1>6, <1>7 DEF JobOK, AnswerOK, MatchOK
  <2>2. CallOK(w)'
    <3>1. CallOK(w)
      BY <1>3 DEF JobOK
    <3> QED  BY <1>2, <1>4, <1>6, <1>7, <3>1 DEF CallOK, Lost, SoldOut, books
  <2>3. JobOK(w)'
    BY <1>3, <1>2, <1>4, <1>6, <2>1, <2>2 DEF JobOK
  <2> QED  BY <1>2, <1>6, <1>7, <2>3, JobStepSafe
<1>8. CASE remote[p] \in {Active, HeldUp} /\ remote' = [remote EXCEPT ![p] = Cancelled]
  <2>1. remote[p] \notin {Shipped, Cancelled} /\ Cancelled \in Details
    BY <1>8, Codes
  <2>2. \A u \in Workers : \/ job'[u] = job[u]
                           \/ /\ job[u].task = "call" /\ job'[u].task \in {"accepted", "refused"}
                              /\ job'[u].pkg = job[u].pkg /\ job'[u].answer = job[u].answer
    BY <1>2, <1>4, <1>6
  <2> QED  BY <1>2, <1>6, <1>8, <2>1, <2>2, RemoteStepSafe
<1> QED  BY <1>2, <1>7, <1>8
-----------------------------------------------------------------------------
(* The invariant.                                                          *)

LEMMA InitSafe == Init => PackagesSafe
<1> SUFFICES ASSUME Init
             PROVE  PackagesSafe
  OBVIOUS
<1>1. /\ parent = "PAID_PENDING_FULFILLMENT" /\ row = [p \in All |-> NoRow]
      /\ event = [p \in All |-> NoEvent] /\ request = [r \in Replacements |-> "NONE"]
      /\ refunded = {} /\ released = {} /\ stock = Stock
      /\ held = [h \in {Order} \cup Replacements |->
                   IF h = Order THEN Cardinality(Packages) ELSE 0]
      /\ out = [p \in All |-> 0] /\ remote = [p \in All |-> Absent]
      /\ job = [w \in Workers |-> Idle] /\ retries = 0
  BY DEF Init
<1>2. /\ Stock \in Nat /\ Cardinality(Packages) \in 0..Stock /\ MaxRetries \in Nat
      /\ Order \notin Replacements /\ Packages \subseteq All /\ Replacements \subseteq All
  <2>1. Cardinality(Packages) \in Nat
    BY SetsFinite DEF All
  <2> QED  BY <2>1, FulfillmentAssumption DEF All
<1>3. Idle \in Job /\ Idle.task = "idle" /\ Idle.answer = Absent
  BY DEF Idle, Job, Absent
<1>4. TypeOK
  <2>1. held \in [{Order} \cup Replacements -> 0..Stock]
    BY <1>1, <1>2
  <2> QED  BY <1>1, <1>2, <1>3, <2>1, NewRowFields DEF TypeOK, OrderStatus, RequestStatus
<1>5. Booked = {} /\ Needy = Packages
  BY <1>1, <1>2, NewRowFields DEF Booked, Needy
<1>6. stock = Stock - Cardinality(Booked) /\ held[Order] = Cardinality(Needy)
  BY <1>1, <1>2, <1>5, FS_EmptySet
<1>7. ParentOK
  BY <1>1, <1>2, NewRowFields DEF ParentOK
<1>8. \A p \in All : PackageOK(p)
  <2> SUFFICES ASSUME NEW p \in All
               PROVE  PackageOK(p)
    OBVIOUS
  <2>1. row[p] = NoRow /\ event[p] = NoEvent /\ out[p] = 0 /\ p \notin released
    BY <1>1
  <2>2. BindingOK(p)
    BY <2>1, NewRowFields DEF BindingOK, NoRow
  <2>3. GoodsOK(p)
    BY <2>1, NewRowFields DEF GoodsOK
  <2>4. CancellationOK(p)
    BY <2>1, NewRowFields DEF CancellationOK
  <2> QED  BY <2>2, <2>3, <2>4 DEF PackageOK
<1>9. \A r \in Replacements : ReplacementOK(r)
  BY <1>1, <1>2, NewRowFields DEF ReplacementOK
<1>10. \A w \in Workers : JobOK(w)
  BY <1>1, <1>3, Codes DEF JobOK, AnswerOK, CallOK, MatchOK
<1> QED  BY <1>1, <1>4, <1>6, <1>7, <1>8, <1>9, <1>10 DEF PackagesSafe

(* A worker that is busy is busy with a package.                           *)
LEMMA WorkerPackage ==
    ASSUME PackagesSafe, NEW w \in Workers, job[w].task # "idle"
    PROVE  job[w].pkg \in All
BY DEF PackagesSafe, JobOK

LEMMA WorkerStepSafe ==
    ASSUME PackagesSafe, NEW w \in Workers, WorkerStep(w)
    PROVE  PackagesSafe'
<1>1. CASE EnqueueWrite(w)
  BY <1>1, EnqueueWriteSafe
<1>2. CASE Answer(w)
  BY <1>2, AnswerSafe
<1>3. CASE PollDone(w)
  BY <1>3, PollDoneSafe
<1>4. CASE PollFail(w) \/ RefreshFail(w)
  BY <1>4, FailSafe
<1>5. CASE Crash(w) \/ PollStale(w) \/ MatchStale(w)
  BY <1>5, EndsSafe
<1>6. CASE MatchDone(w)
  BY <1>6, MatchDoneSafe
<1>7. CASE Park(w) \/ MatchLacksStock(w) \/ MatchFail(w)
  <2>1. job[w].task # "idle"
    BY <1>7 DEF Park, MatchLacksStock, MatchFail, Working
  <2> QED  BY <1>7, <2>1, WorkerPackage, ParkSafe, MatchLacksStockSafe, MatchFailSafe
<1>8. CASE CallCancel(w) \/ CancelAccepted(w) \/ CancelRefused(w) \/ CancelMaterialized(w)
  <2>1. job[w].task # "idle"
    BY <1>8 DEF CallCancel, CancelAccepted, CancelRefused, CancelMaterialized, Working
  <2> QED  BY <1>8, <2>1, WorkerPackage, CallCancelSafe, CancelAnsweredSafe, CancelMaterializedSafe
<1> QED  BY <1>1, <1>2, <1>3, <1>4, <1>5, <1>6, <1>7, <1>8 DEF WorkerStep

LEMMA PackageStepsSafe ==
    ASSUME PackagesSafe, HandsOff, NEW p \in All, PackageStep(p)
    PROVE  PackagesSafe'
<1>1. CASE RemoteMoves(p)
  BY <1>1, RemoteMovesSafe
<1>2. CASE PollLeaseEnds(p) \/ MatchLeaseEnds(p)
  BY <1>2, LeaseSafe
<1>3. CASE MatchClose(p)
  BY <1>3, MatchCloseSafe
<1>4. CASE MatchRival(p)
  BY <1>4, MatchRivalSafe
<1>5. CASE Retry(p)
  BY <1>5, RetrySafe
<1>6. CASE \E r \in Replacements : CreateReplacement(p, r)
  BY <1>6, CreateReplacementSafe
<1>7. ASSUME NEW w \in Workers,
             \/ EnqueueRead(w, p) \/ ClaimPoll(w, p) \/ ClaimRefresh(w, p)
             \/ ClaimMatch(w, p) \/ CancelPackage(w, p) \/ Materialize(w, p)
      PROVE  PackagesSafe'
  BY <1>7, EnqueueReadSafe, ClaimSafe, ClaimMatchSafe, CancelPackageSafe, MaterializeSafe
<1> QED  BY <1>1, <1>2, <1>3, <1>4, <1>5, <1>6, <1>7 DEF PackageStep

LEMMA StutterSafe == PackagesSafe /\ UNCHANGED vars => PackagesSafe'
<1> SUFFICES ASSUME PackagesSafe, UNCHANGED vars
             PROVE  PackagesSafe'
  OBVIOUS
<1>1. UNCHANGED <<parent, row, event, request, books, remote, retries>> /\ job' = job
  BY DEF vars
<1>2. job' \in [Workers -> Job]
  BY <1>1 DEF PackagesSafe, TypeOK
<1>3. CASE Workers = {}
  <2>1. /\ parent' = parent /\ row' = row /\ event' = event /\ request' = request
        /\ refunded' = refunded /\ released' = released /\ stock' = stock /\ held' = held
        /\ out' = out /\ remote' = remote /\ retries' = retries
    BY <1>1 DEF books
  <2> QED  BY <1>1, <1>3, <2>1 DEF PackagesSafe, TypeOK, Booked, Needy, ParentOK, PackageOK, BindingOK,
              GoodsOK, CancellationOK, WorkedOn, Lost, Orphan, SoldOut, ReplacementOK
<1>4. CASE Workers # {}
  <2>1. PICK w \in Workers : TRUE
    BY <1>4
  <2>2. JobOK(w)
    BY DEF PackagesSafe
  <2>3. JobOK(w)'
    BY <1>1, <2>2 DEF JobOK, AnswerOK, CallOK, MatchOK, OwnsEvent, Lost, SoldOut, books
  <2> QED  BY <1>1, <1>2, <2>3, JobStepSafe
<1> QED  BY <1>3, <1>4

LEMMA NextSafe == HandsOff /\ PackagesSafe /\ [Next]_vars => PackagesSafe'
<1> SUFFICES ASSUME HandsOff, PackagesSafe, [Next]_vars
             PROVE  PackagesSafe'
  OBVIOUS
<1>1. CASE \E p \in All : PackageStep(p)
  BY <1>1, PackageStepsSafe
<1>2. CASE \E w \in Workers : WorkerStep(w)
  BY <1>2, WorkerStepSafe
<1>3. CASE CancelOrder
  BY <1>3, CancelOrderSafe
<1>4. CASE UNCHANGED vars
  BY <1>4, StutterSafe
<1> QED  BY <1>1, <1>2, <1>3, <1>4 DEF Next

(* However polls, matches, cancellations and retries of however many       *)
(* packages come between each other, and whatever dies in between: rows,   *)
(* events, reservations, stock and the jobs under way stay consistent      *)
(* (applyJifengOrderStatus and its callers, cancelJifengShipment,          *)
(* retryJifengShipment, createReplacementRequest).                         *)
THEOREM PackagesStaySafe == HandsOff /\ Spec => []PackagesSafe
<1> SUFFICES ASSUME HandsOff
             PROVE  Spec => []PackagesSafe
  OBVIOUS
<1>1. PackagesSafe /\ [Next]_vars => PackagesSafe'
  BY NextSafe
<1> QED  BY <1>1, InitSafe, PTL DEF Spec

(* The goods of a package leave stock once, and only what is there leaves. *)
THEOREM GoodsLeaveOnce == HandsOff /\ Spec => []DeductedOnce
<1>1. PackagesSafe => DeductedOnce
  BY DEF PackagesSafe, PackageOK, GoodsOK, DeductedOnce, Booked
<1> QED  BY <1>1, PackagesStaySafe, PTL

(* The order and its replacements keep reserved what is still to be sent.  *)
THEOREM ReservationsAlwaysMatch == HandsOff /\ Spec => []ReservationsMatch
<1>1. PackagesSafe => ReservationsMatch
  <2> SUFFICES ASSUME PackagesSafe
               PROVE  ReservationsMatch
    OBVIOUS
  <2>1. Packages \subseteq All
    BY DEF All
  <2>2. Needy = {p \in Packages : row[p].status \notin {"SHIPPED", "CANCELLED"}
                                  /\ p \notin refunded}
    BY <2>1 DEF Needy, PackagesSafe, PackageOK, CancellationOK
  <2> QED  BY <2>2 DEF PackagesSafe, ReplacementOK, ReservationsMatch
<1> QED  BY <1>1, PackagesStaySafe, PTL

(* A shipped or cancelled order has nothing left to send, and what was     *)
(* refunded and left all the same is marked.                               *)
THEOREM OrderAlwaysTellsTheTruth == HandsOff /\ Spec => []OrderTellsTheTruth
<1>1. PackagesSafe => OrderTellsTheTruth
  <2> SUFFICES ASSUME PackagesSafe
               PROVE  OrderTellsTheTruth
    OBVIOUS
  <2>1. \A p \in Packages : p \in released <=> p \in refunded
    BY DEF PackagesSafe
  <2>2. ASSUME NEW p \in refunded, out[p] > 0
        PROVE  row[p].code = "SHIPPED_AFTER_CANCEL"
    <3>1. p \in All /\ p \in released
      BY DEF PackagesSafe, TypeOK
    <3>2. out[p] \in {0, 1} /\ GoodsOK(p)
      BY <3>1, PackageFacts
    <3> QED  BY <2>2, <3>1, <3>2 DEF GoodsOK
  <2> QED  BY <2>1, <2>2 DEF PackagesSafe, ParentOK, OrderTellsTheTruth
<1> QED  BY <1>1, PackagesStaySafe, PTL
-----------------------------------------------------------------------------
(* Which steps bind an order of Jifeng.                                    *)

NoNewBinding == \A q \in All : row'[q].bound => row[q].bound

LEMMA RowKeepsUnbound ==
    ASSUME TypeOK, NEW p \in All, NEW x \in Row, x.bound => row[p].bound,
           row' = [row EXCEPT ![p] = x]
    PROVE  NoNewBinding
BY DEF TypeOK, NoNewBinding

(* Rows that are written by other steps than matches.                      *)
LEMMA PackageStepBindsNothing ==
    ASSUME PackagesSafe, NEW p \in All, PackageStep(p)
    PROVE  NoNewBinding
<1>1. TypeOK /\ row \in [All -> Row] /\ row[p] \in Row
  BY DEF PackagesSafe, TypeOK
<1>2. CASE row' = row
  BY <1>2 DEF NoNewBinding
<1>3. ASSUME PollLeaseEnds(p)
      PROVE  NoNewBinding
  <2>1. row' = [row EXCEPT ![p] = [row[p] EXCEPT !.fresh = FALSE]]
    BY <1>1, <1>3 DEF PollLeaseEnds
  <2>2. /\ [row[p] EXCEPT !.fresh = FALSE] \in Row
        /\ [row[p] EXCEPT !.fresh = FALSE].bound = row[p].bound
    BY <1>1 DEF Row
  <2> QED  BY <1>1, <2>1, <2>2, RowKeepsUnbound
<1>4. ASSUME MatchRival(p), row' # row
      PROVE  NoNewBinding
  <2> DEFINE x == [row[p] EXCEPT !.status = "EXCEPTION", !.code = "OTHER", !.never = FALSE]
  <2>1. row' = [row EXCEPT ![p] = x]
    BY <1>1, <1>4 DEF MatchRival
  <2>2. x \in Row /\ x.bound = row[p].bound
    BY <1>1 DEF Row
  <2> HIDE DEF x
  <2> QED  BY <1>1, <2>1, <2>2, RowKeepsUnbound
<1>5. ASSUME Retry(p)
      PROVE  NoNewBinding
  <2>1. PICK s \in {row[p].status, "PENDING"} :
          row' = [row EXCEPT ![p] = [row[p] EXCEPT !.status = s, !.code = "NONE", !.never = FALSE]]
    <3>1. CASE row' = [row EXCEPT ![p] = [row[p] EXCEPT !.code = "NONE", !.never = FALSE]]
      <4>1. [row[p] EXCEPT !.code = "NONE", !.never = FALSE]
              = [row[p] EXCEPT !.status = row[p].status, !.code = "NONE", !.never = FALSE]
        BY <1>1 DEF Row
      <4> QED  BY <3>1, <4>1
    <3>2. CASE row' = [row EXCEPT ![p] = [row[p] EXCEPT !.status = "PENDING", !.code = "NONE",
                                                        !.never = FALSE]]
      BY <3>2
    <3> QED  BY <1>5, <3>1, <3>2 DEF Retry, SetRow, SetRowOnly
  <2> DEFINE x == [row[p] EXCEPT !.status = s, !.code = "NONE", !.never = FALSE]
  <2>2. x \in Row /\ x.bound = row[p].bound
    BY <1>1 DEF Row
  <2>3. row' = [row EXCEPT ![p] = x]
    BY <2>1
  <2> HIDE DEF x
  <2> QED  BY <1>1, <2>2, <2>3, RowKeepsUnbound
<1>6. ASSUME NEW r \in Replacements, CreateReplacement(p, r)
      PROVE  NoNewBinding
  <2>1. r \in All /\ row' = [row EXCEPT ![r] = NewRow]
    BY <1>6 DEF CreateReplacement, All
  <2> QED  BY <1>1, <2>1, NewRowFields, RowKeepsUnbound
<1>7. ASSUME NEW w \in Workers, ClaimPoll(w, p) \/ ClaimRefresh(w, p)
      PROVE  NoNewBinding
  <2> DEFINE x == [row[p] EXCEPT !.poller = w, !.fresh = TRUE]
  <2>1. row' = [row EXCEPT ![p] = x]
    BY <1>1, <1>7 DEF ClaimPoll, ClaimRefresh, ClaimAs
  <2>2. x \in Row /\ x.bound = row[p].bound
    BY <1>1 DEF Row
  <2> HIDE DEF x
  <2> QED  BY <1>1, <2>1, <2>2, RowKeepsUnbound
<1>8. ASSUME NEW w \in Workers, ClaimMatch(w, p)
      PROVE  NoNewBinding
  <2> DEFINE s == IF row[p].status = "CANCELLED" THEN row[p].status ELSE "SUBMITTING"
             x == [row[p] EXCEPT !.status = s]
  <2>1. row' = [row EXCEPT ![p] = x]
    BY <1>1, <1>8 DEF ClaimMatch
  <2>2. x \in Row /\ x.bound = row[p].bound
    BY <1>1 DEF Row
  <2> HIDE DEF x
  <2> QED  BY <1>1, <2>1, <2>2, RowKeepsUnbound
<1>9. ASSUME NEW w \in Workers, CancelPackage(w, p)
      PROVE  NoNewBinding
  <2>1. CASE CancelLocally(p)
    <3> DEFINE x == [row[p] EXCEPT !.status = "CANCELLED", !.code = "NONE", !.never = FALSE]
    <3>1. row' = [row EXCEPT ![p] = x]
      BY <2>1 DEF CancelLocally, SetRow
    <3>2. x \in Row /\ x.bound = row[p].bound
      BY <1>1 DEF Row
    <3> HIDE DEF x
    <3> QED  BY <1>1, <3>1, <3>2, RowKeepsUnbound
  <2>2. CASE ~CancelLocally(p)
    <3> DEFINE x == [row[p] EXCEPT !.status = "CANCEL_PENDING"]
    <3>1. row' = [row EXCEPT ![p] = x]
      BY <1>9, <2>2 DEF CancelPackage, SetRowOnly
    <3>2. x \in Row /\ x.bound = row[p].bound
      BY <1>1 DEF Row
    <3> HIDE DEF x
    <3> QED  BY <1>1, <3>1, <3>2, RowKeepsUnbound
  <2> QED  BY <2>1, <2>2
<1>10. ASSUME NEW w \in Workers, Materialize(w, p)
       PROVE  NoNewBinding
  <2>1. row' = [row EXCEPT ![p] = NewRow]
    BY <1>10 DEF Materialize
  <2> QED  BY <1>1, <2>1, NewRowFields, RowKeepsUnbound
<1>11. ASSUME RemoteMoves(p) \/ MatchLeaseEnds(p) \/ MatchClose(p)
              \/ (\E w \in Workers : EnqueueRead(w, p))
       PROVE  row' = row
  BY <1>11 DEF RemoteMoves, MatchLeaseEnds, MatchClose, EnqueueRead
<1> QED
  BY <1>2, <1>3, <1>4, <1>5, <1>6, <1>7, <1>8, <1>9, <1>10, <1>11 DEF PackageStep

(* An answer is applied to a bound row; other rows stay as they are.       *)
LEMMA AnswerKeepsOthers ==
    ASSUME PackagesSafe, NEW p \in All, NEW r, NEW d, Fits(p, r), Timely(p, r, d), Reads(p, r),
           Apply(p, r, d)
    PROVE  \A q \in All \ {p} : row'[q] = row[q]
BY ApplySafe DEF Applied

LEMMA WorkerStepBindsNothing ==
    ASSUME PackagesSafe, NEW w \in Workers, WorkerStep(w), ~MatchDone(w), ~MatchLacksStock(w)
    PROVE  NoNewBinding
<1> DEFINE p == job[w].pkg
<1>1. TypeOK /\ row \in [All -> Row]
  BY DEF PackagesSafe, TypeOK
<1>2. job[w].task # "idle" => p \in All /\ row[p] \in Row
  BY <1>1, WorkerPackage
<1>3. CASE row' = row
  BY <1>3 DEF NoNewBinding
<1>4. ASSUME EnqueueWrite(w), row' # row
      PROVE  NoNewBinding
  <2>1. p \in All /\ row' = [row EXCEPT ![p] = NewRow]
    BY <1>2, <1>4 DEF EnqueueWrite, Working
  <2> HIDE DEF p
  <2> QED  BY <1>1, <2>1, NewRowFields, RowKeepsUnbound
<1>5. ASSUME PollDone(w)
      PROVE  NoNewBinding
  <2>1. /\ job[w].task \in {"poll", "refresh"} /\ row[p].poller = w
        /\ job[w].answer # Absent /\ Apply(p, row[p], job[w].answer)
    BY <1>5 DEF PollDone
  <2>2. /\ p \in All /\ row[p].bound /\ Fits(p, row[p]) /\ Reads(p, row[p])
        /\ Timely(p, row[p], job[w].answer)
    BY <2>1, PollFacts
  <2> HIDE DEF p
  <2>3. \A q \in All \ {p} : row'[q] = row[q]
    BY <2>1, <2>2, AnswerKeepsOthers
  <2> QED  BY <2>2, <2>3 DEF NoNewBinding
<1>6. ASSUME Park(w)
      PROVE  NoNewBinding
  <2> DEFINE x == [Polled(row[p]) EXCEPT !.status = "EXCEPTION", !.jifeng = Shipped,
                                         !.code = "INVENTORY"]
  <2>1. job[w].task # "idle" /\ SetRow(p, x)
    BY <1>6 DEF Park
  <2>2. Polled(row[p]) \in Row /\ Polled(row[p]).bound = row[p].bound
    BY <1>2, <2>1, PolledRow
  <2>3. x.bound = row[p].bound /\ x \in Row
    BY <2>2, Codes DEF Row
  <2>4. p \in All /\ row' = [row EXCEPT ![p] = x]
    BY <1>2, <2>1 DEF SetRow
  <2> HIDE DEF p, x
  <2> QED  BY <1>1, <2>3, <2>4, RowKeepsUnbound
<1>7. ASSUME PollFail(w)
      PROVE  NoNewBinding
  <2>1. PICK n \in BOOLEAN : row' = [row EXCEPT ![p] = [Polled(row[p]) EXCEPT !.never = n]]
    BY <1>1, <1>2, <1>7 DEF PollFail, Fails
  <2>2. job[w].task # "idle"
    BY <1>7 DEF PollFail, Fails, Working
  <2> DEFINE x == [Polled(row[p]) EXCEPT !.never = n]
  <2>3. Polled(row[p]) \in Row /\ Polled(row[p]).bound = row[p].bound
    BY <1>2, <2>2, PolledRow
  <2>4. x.bound = row[p].bound /\ x \in Row
    BY <2>3 DEF Row
  <2>5. p \in All /\ row' = [row EXCEPT ![p] = x]
    BY <1>2, <2>1, <2>2
  <2> HIDE DEF p, x
  <2> QED  BY <1>1, <2>4, <2>5, RowKeepsUnbound
<1>8. ASSUME RefreshFail(w)
      PROVE  NoNewBinding
  <2> DEFINE x == [row[p] EXCEPT !.poller = NoWorker, !.fresh = FALSE]
  <2>1. p \in All /\ row[p] \in Row
    BY <1>2, <1>8 DEF RefreshFail, Fails, Working
  <2>2. row' = [row EXCEPT ![p] = x]
    BY <1>1, <1>8, <2>1 DEF RefreshFail
  <2>3. x.bound = row[p].bound /\ x \in Row
    BY <2>1 DEF Row
  <2> HIDE DEF p, x
  <2> QED  BY <1>1, <2>1, <2>2, <2>3, RowKeepsUnbound
<1>9. ASSUME MatchFail(w)
      PROVE  NoNewBinding
  <2>1. p \in All /\ row[p] \in Row
    BY <1>2, <1>9 DEF MatchFail, Working
  <2>2. PICK retryable, lacksStock \in BOOLEAN : RecordFailure(w, retryable, lacksStock)
    BY <1>9 DEF MatchFail
  <2> DEFINE j == IF lacksStock THEN Shipped ELSE row[p].jifeng
             c == IF lacksStock THEN "INVENTORY" ELSE "OTHER"
             s == IF job[w].watch /\ ~lacksStock THEN "CANCELLED"
                  ELSE IF retryable THEN "PENDING" ELSE "EXCEPTION"
             x == [row[p] EXCEPT !.jifeng = j, !.code = c, !.never = FALSE, !.status = s]
  <2>3. row' = [row EXCEPT ![p] = x]
    BY <1>1, <2>1, <2>2 DEF RecordFailure
  <2>4. /\ j \in {Absent} \cup Details /\ c \in {"INVENTORY", "OTHER"}
        /\ s \in {"CANCELLED", "PENDING", "EXCEPTION"}
    BY <2>1, Codes DEF Row
  <2> HIDE DEF p, j, c, s
  <2>5. x.bound = row[p].bound /\ x \in Row
    BY <2>1, <2>4 DEF Row
  <2> HIDE DEF x
  <2> QED  BY <1>1, <2>1, <2>3, <2>5, RowKeepsUnbound
<1>10. ASSUME CancelAccepted(w) \/ CancelRefused(w), row' # row
       PROVE  NoNewBinding
  <2>1. p \in All /\ row[p] \in Row
    BY <1>2, <1>10 DEF CancelAccepted, CancelRefused, Working
  <2>2. CASE CancelAccepted(w)
    <3> DEFINE x == [row[p] EXCEPT !.status = "CANCEL_PENDING", !.code = "NONE", !.never = FALSE]
    <3>1. row' = [row EXCEPT ![p] = x]
      BY <1>10, <2>2 DEF CancelAccepted, SetRowOnly
    <3>2. x.bound = row[p].bound /\ x \in Row
      BY <2>1 DEF Row
    <3> HIDE DEF p, x
    <3> QED  BY <1>1, <2>1, <3>1, <3>2, RowKeepsUnbound
  <2>3. CASE CancelRefused(w)
    <3> DEFINE x == [row[p] EXCEPT !.status = "EXCEPTION", !.code = "OTHER"]
    <3>1. row' = [row EXCEPT ![p] = x]
      BY <1>10, <2>3 DEF CancelRefused, SetRow
    <3>2. x.bound = row[p].bound /\ x \in Row
      BY <2>1 DEF Row
    <3> HIDE DEF p, x
    <3> QED  BY <1>1, <2>1, <3>1, <3>2, RowKeepsUnbound
  <2> QED  BY <1>10, <2>2, <2>3
<1>11. ASSUME CancelMaterialized(w), row' # row
       PROVE  NoNewBinding
  <2> DEFINE x == [row[p] EXCEPT !.status = "CANCELLED", !.code = "NONE", !.never = FALSE]
  <2>1. p \in All /\ row[p] \in Row
    BY <1>2, <1>11 DEF CancelMaterialized, Working
  <2>2. row' = [row EXCEPT ![p] = x]
    BY <1>11 DEF CancelMaterialized, CancelLocally, SetRow
  <2>3. x.bound = row[p].bound /\ x \in Row
    BY <2>1 DEF Row
  <2> HIDE DEF p, x
  <2> QED  BY <1>1, <2>1, <2>2, <2>3, RowKeepsUnbound
<1>12. ASSUME Answer(w) \/ PollStale(w) \/ MatchStale(w) \/ CallCancel(w) \/ Crash(w)
       PROVE  row' = row
  BY <1>12 DEF Answer, PollStale, MatchStale, CallCancel, Crash
<1> QED
  BY <1>3, <1>4, <1>5, <1>6, <1>7, <1>8, <1>9, <1>10, <1>11, <1>12 DEF WorkerStep

LEMMA CancelOrderBindsNothing ==
    ASSUME PackagesSafe, CancelOrder
    PROVE  NoNewBinding
<1>1. row \in [All -> Row]
  BY DEF PackagesSafe, TypeOK
<1>2. \A q \in All : row'[q].bound = row[q].bound
  <2> SUFFICES ASSUME NEW q \in All
               PROVE  row'[q].bound = row[q].bound
    OBVIOUS
  <2>1. row[q] \in Row
    BY <1>1
  <2>2. [row[q] EXCEPT !.status = "CANCELLED", !.code = "OTHER", !.never = FALSE].bound
          = row[q].bound
    BY <2>1 DEF Row
  <2>3. row'[q] \in {row[q], [row[q] EXCEPT !.status = "CANCELLED", !.code = "OTHER",
                                            !.never = FALSE]}
    BY DEF CancelOrder
  <2> QED  BY <2>2, <2>3
<1> QED  BY <1>2 DEF NoNewBinding

(* A match binds the package of the worker's own claim and touches no      *)
(* other job; if the package is cancelled and unbound, the worker watches. *)
LEMMA MatchBindsOwn ==
    ASSUME PackagesSafe, NEW w \in Workers, MatchDone(w) \/ MatchLacksStock(w)
    PROVE  /\ \A v \in Workers \ {w} : job'[v] = job[v]
           /\ job[w].pkg \in All
           /\ \A q \in All \ {job[w].pkg} : row'[q] = row[q]
           /\ row[job[w].pkg].status = "CANCELLED" /\ ~row[job[w].pkg].bound => job[w].watch
<1> DEFINE p == job[w].pkg
<1>1. TypeOK /\ job \in [Workers -> Job] /\ job[w].task = "match" /\ OwnsEvent(w)
  BY DEF PackagesSafe, TypeOK, MatchDone, MatchLacksStock, Working
<1>2. \A v \in Workers \ {w} : job'[v] = job[v]
  BY <1>1 DEF MatchDone, MatchLacksStock, Finish
<1>3. /\ p \in All /\ row[p] \in Row /\ Fits(p, Bound(row[p])) /\ Reads(p, Bound(row[p]))
      /\ job[w].answer # Absent => Timely(p, Bound(row[p]), job[w].answer)
      /\ Lost(p) \/ row[p].status = IF job[w].watch THEN "CANCELLED" ELSE "SUBMITTING"
  BY <1>1, MatchFacts DEF TypeOK
<1>4. row[p].status = "CANCELLED" /\ ~row[p].bound => job[w].watch
  BY <1>3 DEF Lost
<1>5. CASE MatchDone(w)
  <2>1. job[w].answer # Absent /\ Apply(p, Bound(row[p]), job[w].answer)
    BY <1>5 DEF MatchDone
  <2> HIDE DEF p
  <2>2. \A q \in All \ {p} : row'[q] = row[q]
    BY <1>3, <2>1, AnswerKeepsOthers
  <2> QED  BY <1>2, <1>3, <1>4, <2>2 DEF p
<1>6. CASE MatchLacksStock(w)
  <2>1. SetRowOnly(p, Bound(row[p])) /\ Bound(row[p]) \in Row
    BY <1>3, <1>6 DEF MatchLacksStock, Fits
  <2> HIDE DEF p
  <2>2. \A q \in All \ {p} : row'[q] = row[q]
    BY <1>1, <1>3, <2>1, RowReplaced
  <2> QED  BY <1>2, <1>3, <1>4, <2>2 DEF p
<1> QED  BY <1>5, <1>6

(* A match that began before a package was cancelled never binds it        *)
(* afterwards (claimMatchEvent, finalizeExistingOrderMatch).               *)
THEOREM CancelledBoundByWatchers == HandsOff /\ Spec => OnlyWatchersBindCancelled
<1> DEFINE Binds(w, p) == job[w].pkg = p =>
             (row[p].status = "CANCELLED" /\ ~row[p].bound /\ row'[p].bound
                => job'[w] = job[w] \/ job[w].watch)
<1>1. ASSUME PackagesSafe, [Next]_vars
      PROVE  [\A w \in Workers, p \in All : Binds(w, p)]_vars
  <2> SUFFICES ASSUME Next, NEW w \in Workers, NEW p \in All
               PROVE  Binds(w, p)
    BY <1>1
  <2>1. CASE NoNewBinding
    BY <2>1 DEF NoNewBinding
  <2>2. ASSUME NEW v \in Workers, MatchDone(v) \/ MatchLacksStock(v)
        PROVE  Binds(w, p)
    <3>1. CASE v = w
      BY <1>1, <2>2, <3>1, MatchBindsOwn
    <3>2. CASE v # w
      BY <1>1, <2>2, <3>2, MatchBindsOwn
    <3> QED  BY <3>1, <3>2
  <2> HIDE DEF Binds
  <2> QED
    BY <1>1, <2>1, <2>2, PackageStepBindsNothing, WorkerStepBindsNothing,
       CancelOrderBindsNothing DEF Next
<1> QED  BY <1>1, PackagesStaySafe, PTL DEF Spec, OnlyWatchersBindCancelled
=============================================================================
