----------------------------- MODULE WorkerHealth -----------------------------
(***************************************************************************)
(* The worker's heartbeat and what is concluded from it                    *)
(* (src/jobs/worker-health.ts, src/jobs/worker.ts). The worker writes its  *)
(* state to a file; the check of the container and the page of the system  *)
(* health read the file, at any time. A container gives its workers the    *)
(* same process ids again and again.                                       *)
(*                                                                         *)
(* Time is counted in heartbeat intervals, and ages stop at MaxAge + 1.    *)
(***************************************************************************)
EXTENDS Naturals

CONSTANTS Pids, Nothing, MaxAge

VARIABLES worker,   \* the process: its id, its state, and whether its queues are worked on
          file,     \* the snapshot on disk and its age
          torn,     \* the worker has written the temporary file and not renamed it
          quiet     \* time since queues were last known to be worked on

healthVars == <<worker, file, torn, quiet>>

Gone == [pid |-> Nothing, state |-> "GONE", active |-> FALSE]
Alive == worker # Gone
Init == worker = Gone /\ file = Nothing /\ torn = Nothing /\ quiet = MaxAge + 1

Older(n) == IF n > MaxAge THEN n ELSE n + 1
Aged(s) == IF s = Nothing THEN s ELSE [s EXCEPT !.age = Older(@)]
Snapshot(state) == [pid |-> worker.pid, state |-> state, age |-> 0]

\* writeSnapshot: a temporary file and a rename, so that nobody reads half of it.
Write(state) ==
    /\ worker' = [worker EXCEPT !.state = state]
    /\ torn' = Snapshot(state) /\ UNCHANGED file
Rename ==
    /\ Alive /\ torn # Nothing
    /\ file' = torn /\ torn' = Nothing
    /\ UNCHANGED <<worker, quiet>>

\* A worker starts: createWorkerHealthMonitor and start, before pg-boss is there.
Start(p) ==
    /\ ~Alive
    /\ worker' = [pid |-> p, state |-> "STARTING", active |-> FALSE]
    /\ torn' = [pid |-> p, state |-> "STARTING", age |-> 0]
    /\ UNCHANGED <<file, quiet>>

\* All queues are registered.
MarkReady ==
    /\ worker.state = "STARTING" /\ torn = Nothing
    /\ worker' = [worker EXCEPT !.state = "READY", !.active = TRUE]
    /\ torn' = Snapshot("READY") /\ quiet' = 0
    /\ UNCHANGED file

\* areExpectedWorkersActive asks pg-boss at every heartbeat.
ReadyForGood == IF worker.state = "READY" \/ worker.active THEN "READY" ELSE "DEGRADED"
Probed == IF worker.active THEN "READY" ELSE "DEGRADED"
Heartbeat ==
    /\ Alive /\ torn = Nothing
    /\ Write(IF worker.state \in {"READY", "DEGRADED"} THEN Probed ELSE worker.state)
    /\ quiet' = IF worker.state \in {"READY", "DEGRADED"} /\ worker.active THEN 0 ELSE quiet

MarkStopping ==
    /\ worker.state \in {"READY", "DEGRADED"} /\ torn = Nothing
    /\ Write("STOPPING") /\ UNCHANGED quiet

\* The scheduler of pg-boss stops or recovers, without an error that ends the worker.
SchedulerMoves ==
    /\ worker.state \in {"READY", "DEGRADED"}
    /\ worker' = [worker EXCEPT !.active = ~@]
    /\ UNCHANGED <<file, torn, quiet>>

\* The worker ends, or is killed: its file stays.
Exit ==
    /\ Alive /\ worker' = Gone /\ torn' = Nothing
    /\ UNCHANGED <<file, quiet>>

\* Time passes; nothing makes the heartbeat come in time, and a write may fail.
Tick ==
    /\ file' = Aged(file) /\ quiet' = Older(quiet)
    /\ torn' \in {Aged(torn), Nothing} /\ UNCHANGED worker

Next ==
    \/ \E p \in Pids : Start(p)
    \/ Rename \/ MarkReady \/ Heartbeat \/ MarkStopping \/ SchedulerMoves \/ Exit \/ Tick
Spec == Init /\ [][Next]_healthVars

-----------------------------------------------------------------------------
(* checkWorkerHealth                                                        *)

Assessment ==
    CASE file = Nothing        -> "HEARTBEAT_MISSING"
      [] file # Nothing /\ file.pid # worker.pid -> "PROCESS_MISSING"
      [] file # Nothing /\ file.pid = worker.pid /\ file.age > MaxAge -> "HEARTBEAT_STALE"
      [] OTHER -> CASE file.state = "READY"    -> "HEALTHY"
                    [] file.state = "STARTING" -> "NOT_READY"
                    [] file.state = "DEGRADED" -> "SCHEDULER_INACTIVE"
                    [] file.state = "STOPPING" -> "STOPPING"

-----------------------------------------------------------------------------
(* Properties                                                               *)

\* "Healthy" is never said for longer than the age of a heartbeat after the queues were
\* last worked on: not while the scheduler is stopped, not while the process hangs, and
\* not because a new worker has the process id of one that died.
HealthyMeansWorking == Assessment = "HEALTHY" => quiet <= MaxAge
=============================================================================
