------------------------------- MODULE Outbox -------------------------------
(***************************************************************************)
(* The outbox of the Feishu integration.  Transactions add rows to         *)
(* integration_outbox; jobs of the worker claim due rows, call Feishu, and *)
(* mark the rows as completed or failed.  A job that dies leaves its rows  *)
(* PROCESSING until the lease has run out; a job that is only slow goes on *)
(* after others have claimed its rows.  After MaxAttempts attempts a row   *)
(* becomes a dead letter and the administrators are notified.              *)
(*                                                                         *)
(* There are three channels.  Messages to the chat ("bot") and the mirror  *)
(* of the catalog ("mirror") are claimed one by one, the rows that ask for *)
(* a new cargo sheet ("cargo") together, as one write serves them all.     *)
(* At most one mirror is under way.                                        *)
(*                                                                         *)
(* The code decides on differences of times only, so the model keeps how   *)
(* long a row has to wait and for how long it has been locked.             *)
(***************************************************************************)
EXTENDS Integers, FiniteSets

CONSTANTS
    Events,       \* the rows that may be added
    Channel,      \* the channel of each row
    Jobs,         \* runs of the worker's jobs that may overlap
    CargoLimit,   \* rows that one write of the cargo sheet serves (200)
    MaxAttempts,  \* attempts before a row becomes a dead letter (8)
    Lease,        \* time after which a locked row is claimed again
    BaseDelay,    \* wait after the first failed attempt, per channel
    MaxDelay      \* the wait doubles up to this

Channels == {"bot", "cargo", "mirror"}

ASSUME OutboxAssumption ==
    /\ IsFiniteSet(Events)
    /\ Channel \in [Events -> Channels]
    /\ CargoLimit \in Nat \ {0}
    /\ MaxAttempts \in Nat \ {0}
    /\ Lease \in Nat \ {0}
    /\ BaseDelay \in [Channels -> Nat \ {0}]
    /\ MaxDelay \in Nat

VARIABLES
    status,     \* integration_outbox.status, or NONE before the row is there
    attempts,   \* integration_outbox.attempt_count
    token,      \* the attempt that claim_token was issued for, or 0
    wait,       \* time until next_attempt_at, or NeverRetry
    lockAge,    \* time since locked_at, at most Lease
    outcome,    \* outcome of each attempt in integration_attempts
    notified,   \* rows with a dead letter notification
    job         \* what each job is doing

rows == <<status, attempts, token, wait, lockAge, outcome, notified>>
vars == <<status, attempts, token, wait, lockAge, outcome, notified, job>>

NeverRetry == -1
Numbers    == 1..MaxAttempts
Horizon    == Lease + MaxDelay    \* a job's age matters up to here

(* A job is idle or at a step, with the rows it has claimed and the        *)
(* numbers of their attempts, whether the failure it met may be retried,   *)
(* and its age.                                                            *)
IdleJob == [step |-> "idle", claims |-> {}, retryable |-> TRUE, age |-> 0]

BusyJobs ==
    [step : {"claimed", "served", "failed"}, claims : SUBSET (Events \X Numbers),
     retryable : BOOLEAN, age : 0..Horizon]

JobStates == {IdleJob} \cup BusyJobs

TypeOK ==
    /\ status \in [Events -> {"NONE", "PENDING", "PROCESSING", "COMPLETED", "FAILED"}]
    /\ attempts \in [Events -> 0..MaxAttempts]
    /\ token \in [Events -> 0..MaxAttempts]
    /\ wait \in [Events -> {NeverRetry} \cup 0..MaxDelay]
    /\ lockAge \in [Events -> 0..Lease]
    /\ outcome \in [Events -> [Numbers -> {"NONE", "SUCCESS", "RETRYABLE", "PERMANENT"}]]
    /\ notified \in SUBSET Events
    /\ job \in [Jobs -> JobStates]

Init ==
    /\ status = [e \in Events |-> "NONE"]
    /\ attempts = [e \in Events |-> 0]
    /\ token = [e \in Events |-> 0]
    /\ wait = [e \in Events |-> 0]
    /\ lockAge = [e \in Events |-> 0]
    /\ outcome = [e \in Events |-> [n \in Numbers |-> "NONE"]]
    /\ notified = {}
    /\ job = [j \in Jobs |-> IdleJob]

-----------------------------------------------------------------------------
Smaller(a, b) == IF a < b THEN a ELSE b

(* retryAt: 1, 2, 4, ... times the base, up to the maximum.                *)
RetryDelay(c, n) ==
    LET doubled == BaseDelay[c] * 2^(n - 1)
    IN IF doubled \in 0..MaxDelay THEN doubled ELSE MaxDelay

DeadLetter(e) == status[e] = "FAILED" /\ wait[e] = NeverRetry

Ended(e) == status[e] = "COMPLETED" \/ DeadLetter(e)

(* Variant with a bug, to test a property: a failed mirror that will be    *)
(* tried again does not count.                                             *)
QueuedOrRunning(e) == status[e] \in {"PENDING", "PROCESSING"}

(* What enqueueCatalogMirror looks for.                                    *)
Unfinished(e) ==
    \/ status[e] \in {"PENDING", "PROCESSING"}
    \/ status[e] = "FAILED" /\ wait[e] # NeverRetry

(* The row is inserted by the transaction that gives a reason for it, once *)
(* per idempotency key; the mirror's under an advisory lock.               *)
Enqueue(e) ==
    /\ status[e] = "NONE"
    /\ Channel[e] = "mirror" =>
         \A x \in Events : Channel[x] = "mirror" => ~Unfinished(x)
    /\ status' = [status EXCEPT ![e] = "PENDING"]
    /\ UNCHANGED <<attempts, token, wait, lockAge, outcome, notified, job>>

-----------------------------------------------------------------------------
(* Claiming.                                                               *)

(* Variants with a bug: locked rows are never, or always, claimed again.   *)
DueOnce(e) == status[e] \in {"PENDING", "FAILED"} /\ wait[e] = 0
DueWhenLocked(e) == DueOnce(e) \/ status[e] = "PROCESSING"

(* Rows a job may claim: those whose time has come, and those whose lease  *)
(* has run out.                                                            *)
Due(e) ==
    \/ status[e] \in {"PENDING", "FAILED"} /\ wait[e] = 0
    \/ status[e] = "PROCESSING" /\ lockAge[e] = Lease

(* The rows a job of channel c may take: cargo rows together, others one   *)
(* at a time.  Rows that another transaction has locked are skipped; which *)
(* of several come first does not matter here.                             *)
Batches(c) ==
    LET due   == {e \in Events : Channel[e] = c /\ Due(e)}
        limit == IF c = "cargo" THEN CargoLimit ELSE 1
    IN {S \in SUBSET due : S # {} /\ Cardinality(S) <= limit}

(* The lease of the last attempt has run out.                              *)
Exhausted(e) == status[e] = "PROCESSING" /\ attempts[e] >= MaxAttempts

(* f with one value for the rows of S.                                     *)
Assigned(f, S, value) == [e \in Events |-> IF e \in S THEN value ELSE f[e]]

(* Rows whose lease has run out on their last attempt are given up: they   *)
(* become dead letters, for which the administrators are notified.         *)
GiveUp(gone) ==
    /\ notified' = notified \cup gone
    /\ wait' = Assigned(wait, gone, NeverRetry)

(* claimEvents, claimCatalogMirror: an attempt whose lease has run out is  *)
(* recorded as failed; then a new one begins or the row is given up.       *)
ClaimRows(j, S) ==
    LET gone  == {e \in S : Exhausted(e)}
        taken == S \ gone
        stale == {e \in taken : status[e] = "PROCESSING"}
    IN /\ status' = [e \in Events |-> IF e \in gone THEN "FAILED"
                                      ELSE IF e \in taken THEN "PROCESSING" ELSE status[e]]
       /\ attempts' = [e \in Events |-> IF e \in taken THEN attempts[e] + 1 ELSE attempts[e]]
       /\ token' = [e \in Events |-> IF e \in gone THEN 0
                                     ELSE IF e \in taken THEN attempts[e] + 1 ELSE token[e]]
       /\ lockAge' = Assigned(lockAge, S, 0)
       /\ outcome' = [e \in Events |-> [n \in Numbers |->
            IF e \in gone /\ n = attempts[e] THEN "PERMANENT"
            ELSE IF e \in stale /\ n = attempts[e] THEN "RETRYABLE" ELSE outcome[e][n]]]
       /\ GiveUp(gone)
       /\ job' = [job EXCEPT ![j] =
            IF taken = {} THEN IdleJob
            ELSE [step |-> "claimed", claims |-> {<<e, attempts[e] + 1>> : e \in taken},
                  retryable |-> TRUE, age |-> 0]]

Claim(j) ==
    /\ job[j].step = "idle"
    /\ \E c \in Channels : \E S \in Batches(c) : ClaimRows(j, S)

-----------------------------------------------------------------------------
(* Serving, and what a job does with the answer.                           *)

(* The call of Feishu, or the mirror's transaction, succeeds.              *)
Succeed(j) ==
    /\ job[j].step = "claimed"
    /\ job' = [job EXCEPT ![j].step = "served"]
    /\ UNCHANGED rows

(* safeError, safeFailure: the call fails with an error that may be        *)
(* retried or not.  Feishu may have served it all the same.                *)
Err(j) ==
    /\ job[j].step = "claimed"
    /\ \E r \in BOOLEAN :
         job' = [job EXCEPT ![j].step = "failed", ![j].retryable = r]
    /\ UNCHANGED rows

(* The call succeeded, but the transaction that marks the rows completed   *)
(* fails; the handler treats this as an error of the call.                 *)
CompletionFails(j) ==
    /\ job[j].step = "served"
    /\ job' = [job EXCEPT ![j].step = "failed", ![j].retryable = TRUE]
    /\ UNCHANGED rows

(* Variant with a bug, to test properties: the token is not looked at.     *)
StillProcessing(j) == {c \in job[j].claims : status[c[1]] = "PROCESSING"}

(* The claims that are still the job's: its tokens are still in the rows.  *)
StillMine(j) ==
    {c \in job[j].claims : status[c[1]] = "PROCESSING" /\ token[c[1]] = c[2]}

(* markEventsCompleted, and the mirror's transaction after success.        *)
MarkCompleted(j) ==
    LET mine == StillMine(j)
        S    == {c[1] : c \in mine}
    IN /\ job[j].step = "served"
       /\ status' = Assigned(status, S, "COMPLETED")
       /\ token' = Assigned(token, S, 0)
       /\ lockAge' = Assigned(lockAge, S, 0)
       /\ outcome' = [e \in Events |-> [n \in Numbers |->
            IF <<e, n>> \in mine THEN "SUCCESS" ELSE outcome[e][n]]]
       /\ job' = [job EXCEPT ![j] = IdleJob]
       /\ UNCHANGED <<attempts, wait, notified>>

(* The time a failed row has to wait.  The mirror's handler counts it from *)
(* its own start.                                                          *)
NextWait(j, e) ==
    LET delay == RetryDelay(Channel[e], attempts[e])
        late  == IF Channel[e] = "mirror" THEN job[j].age ELSE 0
    IN IF late < delay THEN delay - late ELSE 0

(* markEventsFailed, and the mirror's transaction after an error.          *)
MarkFailed(j) ==
    LET mine == StillMine(j)
        S    == {c[1] : c \in mine}
        dead == {c \in mine : ~job[j].retryable \/ c[2] >= MaxAttempts}
        gone == {c[1] : c \in dead}
    IN /\ job[j].step = "failed"
       /\ status' = Assigned(status, S, "FAILED")
       /\ token' = Assigned(token, S, 0)
       /\ lockAge' = Assigned(lockAge, S, 0)
       /\ wait' = [e \in Events |-> IF e \in gone THEN NeverRetry
                                    ELSE IF e \in S THEN NextWait(j, e) ELSE wait[e]]
       /\ outcome' = [e \in Events |-> [n \in Numbers |->
            IF <<e, n>> \in dead THEN "PERMANENT"
            ELSE IF <<e, n>> \in mine THEN "RETRYABLE" ELSE outcome[e][n]]]
       /\ notified' = notified \cup gone
       /\ job' = [job EXCEPT ![j] = IdleJob]
       /\ UNCHANGED attempts

-----------------------------------------------------------------------------
(* The worker dies, or the transaction of MarkFailed fails.                *)
Crash(j) ==
    /\ job[j].step # "idle"
    /\ job' = [job EXCEPT ![j] = IdleJob]
    /\ UNCHANGED rows

Tick ==
    /\ wait' = [e \in Events |-> IF wait[e] > 0 THEN wait[e] - 1 ELSE wait[e]]
    /\ lockAge' = [e \in Events |->
         IF status[e] = "PROCESSING" THEN Smaller(Lease, lockAge[e] + 1) ELSE lockAge[e]]
    /\ job' = [j \in Jobs |->
         IF job[j].step = "idle" THEN job[j]
         ELSE [job[j] EXCEPT !.age = Smaller(Horizon, job[j].age + 1)]]
    /\ UNCHANGED <<status, attempts, token, outcome, notified>>

Next ==
    \/ \E e \in Events : Enqueue(e)
    \/ \E j \in Jobs : \/ Claim(j) \/ Succeed(j) \/ Err(j) \/ CompletionFails(j)
                       \/ MarkCompleted(j) \/ MarkFailed(j) \/ Crash(j)
    \/ Tick

Spec == Init /\ [][Next]_vars

(* Time passes; the worker runs its jobs every minute; the calls of Feishu *)
(* have a timeout; the transactions that mark rows end.  Nothing makes a   *)
(* call succeed.                                                           *)
Fairness ==
    /\ WF_vars(Tick)
    /\ \A j \in Jobs : WF_vars(Claim(j)) /\ WF_vars(Succeed(j) \/ Err(j))
                       /\ WF_vars(MarkCompleted(j) \/ CompletionFails(j)) /\ WF_vars(MarkFailed(j))

FairSpec == Spec /\ Fairness

-----------------------------------------------------------------------------
(* The log of attempts and the row agree: each attempt that is over has    *)
(* exactly one outcome, also when its job was slow and another took over;  *)
(* only the last attempt decides how the row ended, and success is final   *)
(* (markEventsCompleted, markEventsFailed and claimEvents together).       *)
LogMatchesRow ==
    \A e \in Events : \A n \in Numbers :
        /\ outcome[e][n] # "NONE" <=>
             (n < attempts[e] \/ (n = attempts[e] /\ status[e] # "PROCESSING"))
        /\ outcome[e][n] = "SUCCESS" <=> (n = attempts[e] /\ status[e] = "COMPLETED")
        /\ outcome[e][n] = "PERMANENT" <=> (n = attempts[e] /\ DeadLetter(e))

(* Whatever way a row becomes a dead letter, an administrator is told, and *)
(* nobody is told of a row that is still tried (createDeadLetterNotification *)
(* in the three places that set NEVER_RETRY_AT).                           *)
DeadLettersNotified == notified = {e \in Events : DeadLetter(e)}

(* At most one mirror of the catalog is waiting, running or to be tried    *)
(* again, from its request to its end (enqueueCatalogMirror).              *)
OneMirror ==
    \A x, y \in Events :
        Channel[x] = "mirror" /\ Channel[y] = "mirror" /\ Unfinished(x) /\ Unfinished(y) => x = y

(* Two jobs work on the same row only if the earlier one has outlived its  *)
(* lease (claimEvents: locked_at and the cutoff).                          *)
AloneWithinLease ==
    \A i, j \in Jobs : \A c \in job[i].claims : \A d \in job[j].claims :
        c[1] = d[1] /\ c[2] < d[2] => job[i].age >= Lease

(* What keeps the properties above true, step by step.  The columns of a   *)
(* row fit together;                                                       *)
RowsFit ==
    \A e \in Events :
        /\ status[e] \in {"NONE", "PENDING"} <=> attempts[e] = 0
        /\ token[e] = IF status[e] = "PROCESSING" THEN attempts[e] ELSE 0
        /\ wait[e] = NeverRetry => status[e] = "FAILED"
        /\ status[e] = "FAILED" /\ attempts[e] = MaxAttempts => wait[e] = NeverRetry

(* a claim that the row has gone beyond has outlived its lease, the others *)
(* are as old as the lock of the row (if it was not given up), and no two  *)
(* jobs have the same one.                                                 *)
ClaimsFit ==
    \A j \in Jobs : \A c \in job[j].claims :
        /\ c[2] <= attempts[c[1]]
        /\ c[2] < attempts[c[1]] => job[j].age >= Lease
        /\ c[2] = attempts[c[1]] =>
             DeadLetter(c[1]) \/ (status[c[1]] = "PROCESSING" /\ job[j].age >= lockAge[c[1]])
        /\ \A i \in Jobs : c \in job[i].claims => i = j

OutboxSafe ==
    TypeOK /\ RowsFit /\ ClaimsFit /\ LogMatchesRow /\ DeadLettersNotified /\ OneMirror

(* A row that was completed or given up stays so, whatever late jobs do    *)
(* (the conditions on claim_token and status).                             *)
EndsForGood ==
    [][\A e \in Events :
         Ended(e) => Ended(e)' /\ status'[e] = status[e] /\ outcome'[e] = outcome[e]]_vars

(* Every row is completed or becomes a dead letter, even if jobs die all   *)
(* the time (leases, retries and MaxAttempts together).                    *)
EveryRowEnds == \A e \in Events : status[e] # "NONE" ~> Ended(e)
=============================================================================
