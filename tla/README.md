# Verification of kuajing-system

kuajing-system runs the order business of a drop-shipping merchant. Customers
import TEMU orders, pay for them from a prepaid wallet or offline, and the
merchant's Canadian warehouse (Jifeng WMS) ships them; stock and prices are
mirrored to and from Feishu sheets. It is a Next.js application with one
PostgreSQL database and one worker process. This directory holds TLA+ models of
the parts where several actors touch the same rows, what TLC checks about them
and what TLAPS proves.

## 1. The system

Web requests (customers, administrators) and the worker's jobs run database
transactions under READ COMMITTED. Components call each other's functions
inside one transaction (an order's submission reserves stock, debits the wallet
and adds an event to the outbox), and otherwise meet only in shared rows, so the
hard behaviour is: two transactions whose statements interleave; a value read
before a row lock was granted; a clock read before a wait; a job and a person
deciding the same thing; remote calls made between two transactions.

| component (`src/src/modules/`) | state | operations | hard behaviour | what makes it correct |
|---|---|---|---|---|
| `inventory` | a balance per SKU, reservations per reference | reserve one SKU or groups, release, adjust, count, initialize; ship is in `fulfillment` | check and insert in two statements; lock order of several SKUs | reserved units exist; no lost update; no deadlock; all or nothing |
| `wallet` | balance, transactions, holds | debit, hold, consume, release, refund, adjust | debits compete with holds | holds are covered; books balance |
| `settlement` | batch, its orders and shares, a claim | create, report, approve, reject, withdraw, expire, cancel one order | approval and expiry at the deadline | an order is paid once, in full, or gets everything back |
| `orders` | order status, lock time, claim | submit, declare, review, expire, cancel | single payment and batch payment exclude each other | the same; stock follows the status |
| `bulk-order` | drafts of stores and files, groups, submissions by key | edit, validate, submit, replay | repeated submissions, conflicts between stores and files, judgements made before locks | a group is ordered at most once, and the request that did it says so |
| `order-import` | files as batches of rows, counters, SKU aliases | upload, edit, map a code, expire, submit | two tabs, stock and catalogue that move, several paths that keep counters | counters are true, no edit is lost, no number is ordered twice |
| `ai-sku-matching` | runs and suggestions | ask, store, accept, reject | the provider is slow, rows change meanwhile | what can be accepted fits the row as it is |
| `fulfillment` | package status, match with a Jifeng order, leases | enqueue, match, poll, refresh, retry, cancel, replace | remote answers that are late, lost or contradict a local cancellation; leases; dead workers | goods leave stock once per parcel; reservations belong to packages; decisions of Jifeng arrive |
| `jifeng-connection` | connection, tokens, resources, diagnostic | authorize, refresh, discover, diagnose, enable, disable, disconnect | several processes refresh at once; answers that come after a new authorization | a refresh token is used once; only a proved connection is enabled |
| `feishu` | outbox rows and attempts; runs of the migration; pictures on disk; two sheets | claim, send, complete, fail; preflight, confirm, refresh; stage, commit, discard; parse; write the target | lease expiry against a slow worker; plans against concurrent writes; locks lost with a connection; empty cells | each attempt is decided once; one migration; no older sheet over a newer; no picture lost |
| `catalog` | products, SKUs, codes, prices, sequences | create, edit, archive, restore, delete, next to synchronisations | a lifecycle read before the lock | codes, products and marks agree |
| `accounts`, `customers` | an account, its mirror, the customer, its stores | create, block, rename, disable | the mirror is written from what was read earlier | only decisions open or close an account |
| `system` (worker health) | a heartbeat file, process ids | start, beat, stop, read | a dead worker's file, a process id used again, a file read half written | what is called healthy works |
| `notifications` | notifications with counters, one per cause | notify (also adds a row to the outbox), resolve | repeated causes | dead letters are reported, and only they |
| `identity`, `audit`, `reports`, `dashboard` | sessions of a library; read-only queries | | little | not modelled |

`PROJECT.json` lists every component with what is modelled of it, and under
`hazards` the places where this code can go wrong in ways a test hardly reaches,
with the properties that cover them, or the reason why none does.

## 2. The modules

| module | models | extends / uses |
|---|---|---|
| `StockLedger` | what the inventory promises, one step per transaction | |
| `Inventory` | the transactions on stock, one step per SQL statement, with row locks | implements `StockLedger` |
| `InventoryProofs` | the inductive invariant and `NoOversell` for all constants | `Inventory`, TLAPS |
| `InventoryLedgerProofs` | the refinement of `StockLedger`, updates that are not lost, reservations that are whole, and that sessions with sorted SKUs never form a circle | `InventoryProofs` |
| `OrderPromise` | what paying and closing an order promises about money and stock | |
| `Payments` | orders, claims, settlement batches, holds, refunds and deadlines | implements `OrderPromise` |
| `PaymentsProofs` | the inductive invariant of the payments, their safety properties and the refinement, for all constants | `Payments`, TLAPS |
| `Outbox` | the rows of the Feishu outbox, the jobs that serve them, leases and retries | |
| `OutboxProofs` | the inductive invariant and every safety property of the outbox, for all constants | `Outbox`, TLAPS |
| `Fulfillment` | the packages of an order and their replacements, the worker's cycle, administrators, Jifeng | |
| `FulfillmentProofs` | the inductive invariant of the packages and their orders, for all constants, under `HandsOff` | `Fulfillment`, TLAPS |
| `ImportBatch` | order files: rows, edits, aliases, suggestions, submission | |
| `BulkDraft` | drafts with stores and files, their groups, submission and replay | |
| `JifengConnection` | tokens and state of the connection, several processes, crashes | |
| `AssetStore` | pictures staged and published on disk under advisory locks | |
| `CargoSheet` | the two parsers of the cargo sheet, as functions of the sheet | |
| `CargoMigration` | the migration and the synchronisations as transactions | |
| `CargoTarget` | the jobs that write the stock into the target sheet | |
| `Catalog` | products and SKUs edited by administrators and synchronisations | |
| `Accounts` | accounts and their mirrors, customers and stores | |
| `WorkerHealth` | the heartbeat of the worker and its reader | |
| `MCInventory`, `MCPayments`, `MCOutbox`, `MCFulfillment` | instances for TLC | the module of that name |
| `MCIntake` | `ImportBatch` and `BulkDraft` side by side | both, by INSTANCE |
| `MCOffice` | the eight modules from `JifengConnection` to `WorkerHealth` side by side | all, by INSTANCE |
| `OfficeProofs` | invariants of the catalogue, of the pictures on disk and of the sheet that shows the stock | `MCOffice`, TLAPS |
| `IntegrationProofs` | invariants of the migration, the heartbeat, the accounts and the connection to Jifeng; how the sheet is read | `MCOffice`, TLAPS |
| `IntakeProofs` | invariants of order files and of drafts, for all constants | `MCIntake`, TLAPS |

Modules meet where the code does. Stock is what `Inventory` interleaves statement
by statement; the other modules take its transactions as single steps.
`Payments` says when an order is paid, `Fulfillment` starts there, `ImportBatch`
and `BulkDraft` end with the submission `Payments` starts from. How rows of the
outbox are served is in `Outbox`; `CargoTarget` only knows that some wait.

### Inventory

A session runs one transaction at a time: `Begin...` chooses its kind and
operands, `LockBalance` is one row of a `select ... for update`, `ReadReserved`
is the sum over ACTIVE reservations, `Write` is the check in the code followed
by the insert or update, and `Commit...` makes the writes visible and releases
the locks. `Refuse` is an error that the code throws, `Abort` any other
rollback, at any point. The kinds differ as the callers do:

* `reserve` (`orders/submission.ts`) locks, sums and inserts SKU by SKU, in
  sorted order; `replace` (`fulfillment/replacement.ts`) does the same in the
  order the items were entered.
* `groups` (`bulk-order`) locks all SKUs in one ordered statement, sums all of
  them in the next, and leaves out each group that needs a SKU that is short. A
  SKU without a balance row has no stock for it; for the others that is an error.
* `ship` and `release` first lock the order's row; that lock is what protects
  the reservation rows they change. `lateShip` is a parcel that the warehouse
  ships although it was cancelled here: the stock leaves without a reservation,
  which `late` records.
* `adjust` and `count` write an absolute total; `mirror` writes all of them;
  `create` adds a SKU.

A reservation row's type and expiry time are left out (no decision reads
them), and so are movement rows and audit entries. A reference stands for one
order or replacement. Quantities are per SKU, so lines of the same SKU are summed
as the code sums them.

### Payments

All rows belong to one customer: every transaction locks that customer's rows
only, and the wallet is per customer. An operation is one step because every
transaction locks the batch, then the orders, then the wallet, before it
decides anything. The one read without lock, whether the batch of an order is
open, cannot turn true again once it is false: orders join a batch only when
they are created and no batch reopens. `Instants` models the clock: `now` is
taken before the transaction waits, so a step may use a time up to `MaxDelay`
old. Repeating a request (same key, same decision) changes nothing and is a
stutter.

* `SubmitPaidFromWallet`/`SubmitUnpaid` are the two outcomes of
  `submitTemuImportBatch`, `SubmitBulkPaid`/`SubmitBulkUnpaid` of
  `submitBulkDraft`. A bulk submission asks for any amount from the wallet;
  `FromWallet` limits it as the code does, and `Allocations` divides it as
  `allocateWalletFen` does: `Parts` are proportional and rounded down, what is
  left goes to the dearest orders, one fen each. Which of two orders that cost
  the same comes first is left open.
* A hold's amount is the sum of the shares of its batch, so `hold` keeps only
  its status.
* An order is one package, so cancelling a paid order adjusts its only package:
  the wallet part goes back at once, the offline part is `owed` until
  `CompleteOfflineRefund`. `WalletTarget` is the rule of the code for orders of any
  number of packages: what the wallet has got back when packages of a given price are
  cancelled. A run cancels whole orders only; the theorem `PackageRefundsFit` is about
  every sequence of packages.
* `StartFulfillment` stands for the warehouse having taken the order; from then
  on it cannot be cancelled here.

### Outbox

`feishu/outbox.ts` and `feishu/catalog-mirror-outbox.ts` have the same shape, so
one module models both; `Channel` says what kind a row is. `Enqueue` is the insert
by whoever has a reason (for mirrors, `enqueueCatalogMirror`). A job claims rows
(`Claim`: `claimEvents`, `claimCatalogMirror`), calls Feishu (`Succeed`, `Err`) and
marks the rows (`MarkCompleted`, `MarkFailed`), each in a transaction of its own;
`Crash` may come between any two of them, and also stands for a `MarkFailed` whose
transaction fails. `CompletionFails` is the path where the call succeeded but the
transaction that marks rows completed threw, which the same `catch` treats as a
failure of the call. Several jobs overlap: pg-boss gives up on a handler that
takes too long while it still runs, and a deployment may run two workers.

* Each transaction is one step: it locks each row before it decides about it, and
  `for update skip locked` makes a claim pass over rows that another transaction
  holds. That is why `Batches` lets a claim take fewer rows than are due.
* The code compares differences of times only. `wait` is the time left until
  `next_attempt_at`, `lockAge` the time since `locked_at`, and a job has an age,
  because the mirror's handler takes `now` once, when it starts.
* `token` is the attempt for which `claim_token` was issued; a token is fresh for
  each attempt.
* `outcome` is the table `integration_attempts`, one entry per attempt (its unique
  index). `notified` is set by the notification of a dead letter, which is
  `IN_APP_ONLY` and therefore adds no row to the outbox.
* Left out: a mirror row with an invalid payload (the only writer checks it), and
  what Feishu does with the call. Cargo rows and mirror rows have the same target;
  that the cargo writer is disabled where the mirror runs
  (`docs/operations/feishu-cargo-migration.md:10`) is assumed.

### Fulfillment

One order, its packages and the packages that may replace them. A transaction is
one action, and so is a call to Jifeng; everything may happen between two of
them, and a worker may die (`Crash`), leaving its claims until their leases end.
`RemoteMoves` is Jifeng: it ships, holds up and cancels when it likes.

* `EnqueueRead`/`EnqueueWrite` are `enqueuePaidOrdersForFulfillment`, which reads the
  order with its snapshot and then locks the package only.
* `ClaimPoll`, `ClaimRefresh`, `Answer`, `PollDone`, `Park`, `PollFail`, `RefreshFail`
  and `PollStale` are the poll; `Apply` is `applyJifengOrderStatus` with one operator
  per branch (`ShipLate`, `WorkLate`, `Ship`, `Cancel`, ...) in the order of the code's
  early returns.
* `ClaimMatch`, `MatchClose`, `MatchRival`, `MatchDone`, `MatchLacksStock`, `MatchFail`
  and `MatchStale` are the match (`order-matching.ts`). An event whose note is
  `MONITORING` watches for an order of a package that was cancelled before Jifeng
  knew it.
* `Retry`, `CancelPackage`, `CallCancel`, `CancelAccepted`, `CancelRefused`, `CancelOrder`,
  `Materialize`, `CancelMaterialized` and `CreateReplacement` are what administrators and
  customers do. `HandsOff` says that administrators leave alone packages whose error
  message asks for that; without it the retry finding below appears.
* A package is one unit of one SKU. `Rolled` is `refreshParentFulfillmentStatus`.
* That `PaidPackagesEnqueued`, `MonitoringSurvivesSiblings` and
  `MonitoringSurvivesCrashes` fail is shown by the findings; no run checks them.

### ImportBatch and BulkDraft

`ImportBatch` has the rows of two files. Every path that changes a row ends in
`Revalidate`, as the code's paths end in `revalidateBatchInventory`, so `Judge` (what
validation makes of a row) and `Tally` (the counters) occur in all of them. A slow
browser tab is `tab`: a row as it was when the tab was opened; every edit may
come from a fresh page or from that tab. Suggestions take three transactions
(`TakeLock`, `StartRun`, and the one that stores the answer), with edits in between.
The sub-order numbers are looked up again in `Submit`, under the locks of the
numbers. The second check of the SKUs in `orders/submission.ts:384-465` cannot fail,
because the validation in the same transaction holds the SKUs FOR SHARE, and is
left out.

`BulkDraft` has drafts with a store and its files. `PageStatus` is what the page
shows of a group; a submission reads the files' statuses before it locks, judges
its groups, and stores its answer under its key; a second request with the key
waits for the first and gets that answer. `Single` orders of the same store run
in between.

### The back office

* `JifengConnection`: every call of a process is a sequence of steps (`Begin`, what it
  reads, the remote call, what it stores). Times are read at the beginning and
  compared at the end, as in the code. `good`, `issued`, `spent` are what Jifeng knows of
  tokens; `lost` are refresh tokens whose answer a crash swallowed. A process that
  cannot decrypt what is stored is in `blind`. The limit on attempts of an
  authorization is a refusal that may come at any time.
* `AssetStore`: one step per access to the disk. A lock is gone when the database
  connection is; the code looks at it before and after each access, so a caller
  that lost it makes one more access at most. `links` says whether the disk knows
  hard links; a lock is only lost where it does (see the observations).
* `CargoSheet`: a sheet grows row by row, and the invariant compares what the
  parsers read (`Strict`, `Mirror`, recursive functions of the row) with what a reader sees
  (`Heading`, `Nearest`). A value is the number of the row it was written in, so
  that inheritance from the wrong row shows.
* `CargoMigration`: the sheet is its version. The confirmation of a run and the
  synchronisations take different advisory locks; an attempt of a synchronisation is
  dated by the start of its transaction, which then waits.
* `CargoTarget`: totals are read by one statement, reservations by the next, values
  written by one call and pictures by others; a job may stop at each.
* `Catalog`, `Accounts`: transactions that read a row without a lock and write it
  later, row by row, next to others; unique keys are guards.
* `WorkerHealth`: the file, its pid, and readers that may see it torn.

### Bug variants

Next to an operation there may be a variant with a bug (`ShortOfTotal`,
`WholeBalance`, ...). No specification uses them. They replace the operation to
test that a property notices; `PROJECT.json` lists under `mutants` which
property each must violate.

## 3. The runs

| run | question | bounds |
|---|---|---|
| `InventoryOrders` | can sessions that reserve, ship, release, adjust, count or create promise stock that is not there, lose an update, or leave a group half reserved? do the interleaved statements implement the atomic ledger? who can deadlock? | 2 sessions, 2 references, 2 SKUs, stock 0..1, 1 unit per line, 1 late unit |
| `InventoryEnds` | does everybody who sorts SKU ids finish? | as above, no late units, no symmetry |
| `InventoryMirrorRace` | the mirror while SKUs are created: violated, see below | 1 reference |
| `PaymentsOrders` | are orders paid once, in time and in full, with their stock kept exactly as long as needed, holds covered and books balanced? | 2 orders of 2 fen each, 2 batches, balance 0..4, symmetric in orders and batches, submissions until 1, clock 0..3, `now` up to 1 old |
| `PaymentsEnd` | do overdue orders and open batches end? do the transactions implement the promise? | 2 orders, 1 batch, balance 0..1, clock 0..4, `now` up to 1 old |
| `OutboxCargo` | is every attempt decided once, and a row alone within its lease, when jobs die or are slow? | 2 rows claimed together or not, 2 jobs, 3 attempts, lease 2, delays up to 3 |
| `OutboxEnds` | is there one mirror at a time, and is every row completed or given up, although jobs die? | 2 mirrors, 2 jobs, 3 attempts |
| `FulfillmentPackages` | do goods leave stock once, do reservations match packages, does the order's status follow, and are refunded goods that are shipped marked? | 2 packages, 1 replacement, 2 workers, 1 retry, in the scenes `Siblings`, `Replaced`, `Rivals` |
| `FulfillmentEnds` | does what Jifeng decides arrive? | 1 package, 1 worker that may die, 1 retry |
| `FulfillmentRetry` | an administrator who does not keep hands off: violated, see below | 2 packages, 1 worker |
| `Intake` | is nothing ordered twice, no edit lost, every counter and status true? | 2 files with 3 rows, 2 SKUs, 2 codes, stock 2, 2 revisions, 1 run of the model within the limit, 2 drafts, 2 stores, 2 keys |
| `Office` | each module of the back office alone | 2 processes; clock 5 and 2 tokens; 2 runs and 1 picture; 2 versions of the sheet and 2 attempts; 2 products and 2 SKUs; 1 administrator's and 1 customer's account; 1 worker; sheets of 3 rows with 1 flaw; 2 SKUs with stock 0..1 and 1 change |

Two sessions are enough for every race between two transactions, and a circle
of waiting needs two; two SKUs are needed for lock order, two references to
compete for one unit. In `Payments` two orders make a batch with a sibling and
an order outside it, unequal prices make partial shares, and two batches let one
hold compete with another. What goes beyond these bounds is what the proofs are
for. In `Outbox` two jobs and a lease shorter than the horizon let a late job meet
its successor, three attempts let a delay double and a row be taken over and then
run out of attempts (8 in the code), and two rows let one batch hold rows with
different numbers of attempts. In `Fulfillment` two packages make a sibling whose
reservation could be taken, and two workers make a rival whose lease ran out; the
scenes bound how much of that happens together (all three of them explore two
packages or two workers, but not both with everything). In `Intake`, r1 and r2
share an order number, and r3 repeats it in another file; the second draft
is either of the other store or absent (`Drafted`). In `Office`, `Quiet` names
what is not explored further: long histories of a process with a wrong key, two
SKUs that are not offered, two account changes at a time when both kinds of
accounts exist, sheets that begin without a SKU.

Scenes. `Intake` and `Office` hold modules that share no state. A variable `scene`
that never changes says which of them moves, so a run explores the sum of their
states; in `ImportBatch` it also says which steps are explored together.

Symmetry is used for values that no definition distinguishes (SKUs, references,
batches, packages, keys, sessions, processes), never in a run with liveness.

Deadlock. `Inventory`, `Payments` and `Outbox` are checked for it; there a circle of
waiting sessions is a property of its own (`OnlyReplacementsDeadlock`), because the
model can always roll a session back. The other modules really stop, when orders
are shipped or cancelled and bounds are reached, so their runs say
`CHECK_DEADLOCK FALSE`.

Fairness. `Inventory`: a session goes on with its statements (weak), and a row
lock that becomes free again and again is granted at last (strong: PostgreSQL
queues waiters). Nothing is assumed of rollbacks. `Payments`: time passes, and
the worker's two expiry jobs, scheduled every minute by `jobs/worker.ts`, close
what is overdue. Nobody is assumed to pay, review or cancel. `Outbox`: time passes,
the worker starts a job every minute, the calls of Feishu have a timeout
(`integrations/feishu/client.ts:211`) and the transactions that mark rows end. No call
is assumed to succeed, and nothing keeps jobs from dying. `Fulfillment`: the cycle
claims again and again what is due (strong), leases end, a worker that holds
something goes on or dies (weak), and not every one of its calls fails or is cut off
by a death (strong, on the answer and on what records it). Workers may die any number
of times, and calls fail any number of times in between; no administrator has to act.

### Findings

Checked by a run:

* `InventoryMirrorRace` violates `NoOversell`. The migration mirror
  (`feishu/catalog-field-refresh.ts`) locks the balances that exist, checks that no
  reservation is ACTIVE, publishes images, and then applies its plan. A SKU that
  another transaction creates after the locks is found by
  `onConflictDoNothing` and taken over; its balance is updated to the target
  without a lock and without looking at reservations. If an order was placed on it
  in between, the new total may be less than what is reserved. The design
  (`docs/superpowers/specs/2026-08-12-tongzhouxing-fulfillment-platform-design.md:452`)
  rules out overselling by concurrent submissions. The proofs and the other runs
  therefore assume `MirrorAlone`: no SKU is created while the mirror runs.
* `FulfillmentRetry` violates `DeductedOnce`. `retryJifengShipment` clears the error
  code of a package that was cancelled here and is alive or shipped at Jifeng; the
  next status 7 books its goods, and a sibling's reservation, out a second time. The
  other runs assume `HandsOff`.

Found while modelling, each stated as a property that TLC refutes in a small
instance, and listed in `PROJECT.json` with the lines it contradicts:

* `MonitoringSurvivesSiblings`: the watch for an order of a package that was cancelled
  before Jifeng knew it ends when its siblings have shipped.
* `MonitoringSurvivesCrashes`: it also ends when a worker dies between the claim and the
  outcome, because the claim clears the mark.
* `PaidPackagesEnqueued`: with more than 100 packages waiting, the rest of an order is not
  enqueued once its first packages have been matched.
* `ImportedForGood`: a confirmation that finds the sheet changed marks its run STALE,
  although another confirmation of the same run has imported it meanwhile.

Observations, for a reviewer of the code; no property depends on them:

* `jifeng-connection/service.ts:1131-1160`: enabling does not look at the status again under
  the row lock, so it may put ENABLED over an ERROR that a process without the key
  has written.
* `jifeng-connection/service.ts`: five calls in flight at once could make ENABLED unproved. An
  authorization is stored although its own tokens have run out while it was tested;
  another process then refreshes, is slow, and enables. The proof attempt found this: TLC
  shows it with tokens that live 2 and a clock until 7, beyond the bounds of `Office`. The
  theorem names the hypothesis `Timely`, that tokens outlive the calls that fetched them.
* `AssetStore` without hard links: a caller that lost its lock and then fails removes
  the file it wrote in place, which another caller may have committed meanwhile.
* `accounts/service.ts`: `updateManagedAccount` writes the mirror with the status it read
  before its locks, and takes locks in another order than the customer's own
  operations; PostgreSQL rolls one of two such transactions back.
* Confirming a migration and refreshing fields take different advisory locks.
* Two jobs for the target sheet that overlap after the lease of 15 minutes may leave
  the older snapshot, until the next five minutes.
* Cargo rows and mirror rows of the outbox have the same target (`outbox.ts:297`); that
  the cargo writer is disabled where the mirror runs is an operating rule.
* `cargo-parser.ts`: a refresh of fields passes over a row without a SKU, so that the
  rows after it inherit from the group before it; a cell that cannot be read is
  passed over by the blank cell below it; a row that has only a picture counts as blank.
* The poll locks a package and then its order, a cancellation the order and then its
  packages; PostgreSQL breaks such a circle by rolling one back, and both are retried.
* `system/health.ts:121` takes the latest transaction by `created_at`, which all rows of
  one transaction share.

## 4. The proofs

`InventoryProofs` proves, for any sets of SKUs, references and sessions and any
bounds, under `InventoryAssumption` and `MirrorAlone`:

* `StockStaysSafe`: `StockSafe` is invariant,
* `NeverOversold`: `NoOversell` is invariant,
* `TypeCorrect`: `TypeOK` is invariant, in particular stock is never negative.

`NoOversell` is not inductive: a session that is about to commit has compared
what it wants with values it read steps ago. `StockSafe` says why that is still
right. `LocksOK`: each balance row a session has dealt with is locked by it and
still has the total it read; the reservations of the order it ships are kept by
the order's lock. `ChecksOK`: for rows it owns, what is reserved now is at most
what it read (only the owner can reserve more), and the comparison it made
stands. `PlansDisjoint`: nobody else works on a reference that is being
reserved. The proof has a lemma per action; the sums of reservations are
cardinalities, so the lemmas about them (`ReservedAdd`, `ReservedMonotone`) use
the finite set theorems and need no induction.

`OutboxProofs` proves, for any rows, channels, jobs, leases, delays and numbers of
attempts, under `OutboxAssumption`: `OutboxIsSafe` (the inductive invariant
`OutboxSafe`) and from it `OutboxTypeOK`, `LogAlwaysMatches`,
`AllDeadLettersNotified`, `AlwaysOneMirror`, `AlwaysAlone`, and the action property
`AlwaysEndsForGood`. `LogMatchesRow` is not inductive: whether a late job may
still decide an attempt depends on what it holds. `ClaimsFit` says that a claim
which the row has gone beyond is older than the lease, that any other is of a row
still locked (and then at least as old as the lock) or given up, and that no two
jobs have the same claim. `RowsFit` relates status, token, attempts and wait: a
row that may be claimed has attempts left unless its lease ran out.
`MarkSafe` treats both transactions that mark rows at once; what they end is
described by `Marked`.

`PaymentsProofs` proves, for any orders, batches, prices, deadlines and delays, under
`PaymentsAssumption`:

* `PaymentsStaySafe`: the inductive invariant `PaymentsSafe`, and from it
  `OrdersFundedOnce`, `AlwaysOneWayToPay` and `BooksAlwaysBalance`,
* `AlwaysPaidInTime` and `SiblingsAlwaysSpared`, the two action properties of the run,
* `PromiseKept`: `Payments` implements `OrderPromise`,
* `AllocationFits`: what the wallet pays of a bulk order is split to the fen, some
  allocation exists, and no order gets more than it costs,
* `PackageRefundsFit`: however the packages of a paid order are cancelled one after another,
  each refund is a wallet part and an offline part, neither negative, so the error
  that the code keeps for it never occurs; when all are cancelled the wallet has exactly what
  it had paid. It is about packages cancelled after the payment: one cancelled
  before it is refunded nothing, which is the rule only where the wallet pays nothing.

`PaymentsSafe` adds to the three properties of the run what lies between them
(`OrderFits`): an order joins a batch when it is submitted, its share is within its
amount, and in a PAID batch it was debited its share while nobody approved a payment
of its own. A step changes one order (`OneOrder`), gives a batch its orders (`Joins`),
or ends one (`ReleaseTerminalBatchSafe`, `PrepareSettlementSafe`); everything else is
kept by `OrderKept` and `SharesKept`. A sum of amounts is the number of its fen, so
`SumAdd`, `SumMonotone` and `SumZero` follow from the theorems on finite sets, without
induction. Only the allocation needs induction, over the orders that
are summed, and gets it from a least number that fails (`LeastNumber`, `UpTo`): the parts
of a set of orders miss their due by less than a fen each (`PartsSum`), so what is left
over is at most one fen per order, and an order that is given one is below its price because
its part is rounded down from less than all of it (`PartBounds`).
The refinement needs the invariant: while it holds, what is kept for an
order and whether it has stock are functions of its stage (`KeptByStage`), so a step
implements the promise as soon as the stages move like one (`SetStatus`). An approval
of a batch looks at the deadline of the batch only; that this is in time for the stock
of its orders is the invariant `LocksFit`.

`InventoryLedgerProofs` uses `StockSafe` for what the statements add up to, under the same
hypotheses:

* `LedgerImplemented`: `Inventory` implements `StockLedger`. A session moves the ledger
  once, when it commits, and then by what it has planned: `ChecksOK` says that its
  comparison still stands, so the atomic guard of `StockLedger` holds at that moment.
* `NoUpdateLost` and `ReservationsWhole`, the two action properties of the run,
* `SortedNeverDeadlock`: a circle of waiting sessions has one that replaces quantities in
  the order of the request. `LocksInOrder` says that any other session holds only rows that sort
  before the one it waits for. In a circle some session waits for the largest
  SKU that is waited for, the next one holds that SKU and waits for a larger one.

`FulfillmentProofs` proves, for any numbers of packages, replacements and workers, the
inductive invariant `PackagesSafe` and from it `GoodsLeaveOnce`, `ReservationsAlwaysMatch`,
`OrderAlwaysTellsTheTruth` and the action property `CancelledBoundByWatchers`. Each names
`HandsOff` as a hypothesis; `FulfillmentRetry` shows that it is needed.
`PackagesSafe` says what a worker may still rely on of the package it has read: it was bound
and stays so (`Respects`), a claim that is no longer the worker's own can only
find what it would have written, and a package whose goods ran out stays lost (`Lost`). The
lemmas treat a step by what it does to its one package (`Only`, `Books`, `Follows`), so that
an answer of Jifeng, a cancellation and a job are cases of one argument. A sum of
reservations is a cardinality there too (`Needy`).

`OfficeProofs` and `IntegrationProofs` prove what the modules of `MCOffice` promise, each for
its own specification and under `OfficeAssumption` (names that stand for nothing are not
among the things named, times are natural numbers, the SKUs in stock are finitely many and
numbered in the order of their codes):

* `CatalogAlwaysConsistent` from `CatalogSafe`: what a transaction has checked while it holds
  its rows (the code fits the sequence, the product exists) stays so until it
  commits, because every other writer would need one of these rows.
* `PicturesSurvive` from `AssetsSafe`: a file that a row refers to is whole, and nobody who could
  still take it away exists; a manifest that was promised is staged, or published, or its run is
  closed.
* `TargetAlwaysShowsStock` from `TargetSafe`: a job that is alone, while no change has asked for
  another, has the rows as they are in stock (`UpToDate`), first without what is reserved, then
  complete, and the sheet is these rows with the pictures up to the next one
  (`WrittenTo`). Any change of stock or other job ends the hypothesis and keeps it ended
  until another job claims. That the SKUs can be put in order is `NumbersSortable`, by a least
  set that cannot.
* `MigratedOnce` and `SheetsNeverGoBack` from `MigrationSafe`: whoever writes holds
  the lock, and nothing was imported before it; and among the attempts that may
  still be the latest, each has read a sheet at least as new as what was applied.
* `HealthyWorks` from `HealthSafe`: file and torn file tell what was true when they were
  written.
* `BansAreDecisions` from `AccountsSafe`: accounts that exist go on to exist, and only a
  decision about this account changes whether it is banned.
* `RefreshTokensOnce` and `OwnFailuresOnly` from `TokensSafe`: who refreshes or records a
  failure holds the lock, tokens that are brought are nobody else's, and a spent token
  that the row still has is lost or being refreshed.
* `SheetIsReadRight` for any sheet and any set of codes: the strict parser takes for every row
  what stands above it in its group, the mirror leaves out no row and sells none with a value from
  behind a blank row, and where the strict parser reads a sheet the mirror reads the
  same. Both parsers are recursive functions of the row, which exist because each step is
  defined by the one before (`Iterates`). What the strict parser
  remembers after n rows (`StrictSeen`), what the mirror keeps and closes (`MirrorKeeps`), and
  that both agree (`SameReading`), are carried from row to row by `UpTo`, which takes
  the least row where it fails. The writing of rows (`WriteRow`) plays no part: the theorem holds for
  every sheet.
* `EnabledWhenProved` from `ProvedOK`, which compares the times at which calls began with
  the end of the row's tokens: credentials a call goes on with were usable when it began, a
  diagnostic in the row is older than the end of its tokens. It needs `Timely`, that an
  authorization is stored before its own tokens have expired; section 3 says what happens
  without it.

`IntakeProofs` proves what both ways to submit orders promise, each for the specification of
its own module (not for the scenes of `MCIntake`) and for any files, rows, SKUs, stores, drafts
and requests, under `IntakeAssumption` and `DraftAssumption`:

* `PreviewsAlwaysAddUp`, `NumbersOrderedOnce`, `SuggestionsAlwaysFit` and the action property
  `EditsNeverLost`, from `ImportSafe`. A validation changes rows, marks and counters together, so
  the counters of a preview are the numbers of its rows by status (`FilesSafe`), and no two rows of
  a file that count as sound have the same number (`KeysApart`). What a tab shows, what was prepared for the model
  and what the model suggested are each of a row at some revision; while the row is at
  that revision it has the pieces that were seen (`Later`, `Fits`). Numbers of runs in
  preparation and runs stored are counted under one lock. Sums are cardinalities here as well.
* `NumbersAlwaysLiveOnce`, `OrdersAlwaysAnswerable` and the action property
  `OnlySubmittableAreOrdered`, from `BulkSafe`. A submission reads the files, judges its
  groups, looks up numbers, and commits; between these steps anything may happen that its
  locks allow. `AllRight` says what each of its steps may still rely on: its draft is there
  and its key has no answer, its files are those of the groups it judges, a group judged
  good is good still, and after the look-up none of its numbers is ordered. `AllApart` says why: two
  submissions that are past the loading share no draft, file or number. The order in
  which a commit writes its groups is any list of them (`ListOfGroups`).

Only model-checked. Everything that must happen at last (`EveryTransactionEnds`,
`NothingLeftOpen`, `EveryRowEnds`, `DecisionsArrive`), because the prover handles
neither fairness nor ENABLED. The theorems about the modules of `Office` and `Intake` are
about each module's own specification; the modules of one instance share no variable. Every
other property of the passing runs is stated by a theorem.

## 5. Not modelled, and what is left

Not modelled, because a model would only repeat a query or a library: sessions
and their guards (`identity`; the library better-auth), reports, the dashboard and the
audit pages (read-only queries), pages and server actions (they authorize and call
the services), signing, encryption and formats of messages and cells, workbooks,
styles and the resizing of pictures.

Not modelled, because it is arithmetic on one row at a time: the resolution of
prices. Orders of several packages with prices are not in any run: an order has one
package in `Payments` and packages have no prices in `Fulfillment`; the rule by which they
are refunded is in `Payments` and proved about.

Left out of modelled components: the counters and the resolution of
notifications; creation and renaming of further stores; the cancellation of an
order of a batch that is under review from the warehouse's side, which only
notifies; the replay of wallet adjustments by their idempotency key.

Next:

1. Several packages of one order with prices in a run, some of them cancelled before the payment.
2. `Fulfillment` with two SKUs and unequal packages.
