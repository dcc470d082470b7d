---------------------------- MODULE CargoMigration ----------------------------
(***************************************************************************)
(* How the sheet of Feishu gets into the catalogue                         *)
(* (src/modules/feishu/migration-service.ts, catalog-field-refresh.ts):    *)
(* once by a migration, which is checked first and confirmed later, and    *)
(* then by synchronisations, which read the sheet at their own pace. The   *)
(* sheet may be edited at any time; its version stands for what it says.   *)
(*                                                                         *)
(* The two take different advisory locks. What they write to products and  *)
(* SKUs is one number here, the version it came from.                      *)
(***************************************************************************)
EXTENDS Naturals

CONSTANTS Runs, Staff, Nobody, MaxVersion, MaxAttempts

VARIABLES version,   \* of the sheet
          run,       \* a row of feishu_cargo_migration_runs
          confirm,   \* what an administrator's confirmation is doing
          importLock,
          refresh,   \* what a synchronisation of an administrator is doing
          started,   \* transactions that registered an attempt, in the order of their start
          attempts,  \* the attempts in the audit log
          catalog,   \* the version that was written last
          refreshed  \* and the one that a synchronisation wrote last

migrationVars == <<version, run, confirm, importLock, refresh, started, attempts, catalog, refreshed>>
confirmVars == <<run, confirm, importLock>>
refreshVars == <<refresh, started, attempts, refreshed>>

Resting == [at |-> "resting"]
Init ==
    /\ version = 1
    /\ run = [r \in Runs |-> [status |-> "NONE", version |-> 0]]
    /\ confirm = [a \in Staff |-> Resting] /\ importLock = Nobody
    /\ refresh = [a \in Staff |-> Resting] /\ started = 0 /\ attempts = {}
    /\ catalog = 0 /\ refreshed = 0

Edit ==
    /\ version < MaxVersion /\ version' = version + 1
    /\ UNCHANGED <<confirmVars, refreshVars, catalog>>

-----------------------------------------------------------------------------
(* The migration                                                            *)

\* validateAndPrepareSource: the version may have been read a while ago, and pictures that
\* cannot be had block the run as issues of the sheet do (CargoSheet).
Prepared == [status : {"PREFLIGHT_READY", "PREFLIGHT_BLOCKED"}, version : 1..version]
\* createCargoPreflight
Preflight(r) ==
    /\ run[r].status = "NONE"
    /\ \E row \in Prepared : run' = [run EXCEPT ![r] = row]
    /\ UNCHANGED <<version, confirm, importLock, refreshVars, catalog>>

GoOn(a, at) == confirm' = [confirm EXCEPT ![a].at = at]
Stop(a) == confirm' = [confirm EXCEPT ![a] = Resting]

\* confirmCargoMigration: a run that is imported already is answered at once.
Confirm(a, r) ==
    /\ confirm[a] = Resting /\ run[r].status = "PREFLIGHT_READY"
    /\ confirm' = [confirm EXCEPT ![a] = [at |-> "reading", run |-> r]]
    /\ UNCHANGED <<version, run, importLock, refreshVars, catalog>>

\* revalidateRunSource
Revalidate(a) ==
    /\ confirm[a].at = "reading"
    /\ GoOn(a, IF run[confirm[a].run].version = version THEN "valid" ELSE "stale")
    /\ UNCHANGED <<version, run, importLock, refreshVars, catalog>>

\* importedMigrationExists
Imported == {r \in Runs : run[r].status = "IMPORTED"}
MayImport(r) == run[r].status = "PREFLIGHT_READY" /\ Imported \ {r} = {}
NoLock(a) == TRUE
OwnLock(a) == importLock = Nobody
EnterImport(a) ==
    /\ confirm[a].at = "valid" /\ OwnLock(a)
    /\ IF MayImport(confirm[a].run)
       THEN GoOn(a, "writing") /\ importLock' = a
       ELSE Stop(a) /\ UNCHANGED importLock
    /\ UNCHANGED <<version, run, refreshVars, catalog>>

FinishImport(a) ==
    /\ confirm[a].at = "writing"
    /\ run' = [run EXCEPT ![confirm[a].run].status = "IMPORTED"]
    /\ catalog' = run[confirm[a].run].version
    /\ Stop(a) /\ importLock' = Nobody
    /\ UNCHANGED <<version, refreshVars>>

\* markRunStale has no condition; it waits for a transaction that has locked the run.
MarkStale(a) ==
    /\ confirm[a].at = "stale"
    /\ ~ \E b \in Staff : confirm[b].at = "writing" /\ confirm[b].run = confirm[a].run
    /\ run' = [run EXCEPT ![confirm[a].run].status = "STALE"]
    /\ Stop(a) /\ UNCHANGED <<version, importLock, refreshVars, catalog>>

\* Feishu, the disk or the process fails; a transaction is rolled back.
ConfirmFails(a) ==
    /\ confirm[a] # Resting
    /\ importLock' = IF importLock = a THEN Nobody ELSE importLock
    /\ Stop(a) /\ UNCHANGED <<version, run, refreshVars, catalog>>

-----------------------------------------------------------------------------
(* Synchronisations                                                         *)

Proceed(a, at) == refresh' = [refresh EXCEPT ![a].at = at]
End(a) == refresh' = [refresh EXCEPT ![a] = Resting]

\* registerRefreshAttempt: the row is dated by the start of its transaction, which then
\* waits for the lock.
StartAttempt(a) ==
    /\ refresh[a] = Resting /\ started < MaxAttempts
    /\ started' = started + 1
    /\ refresh' = [refresh EXCEPT ![a] = [at |-> "starting", number |-> started', version |-> 0]]
    /\ UNCHANGED <<version, confirmVars, attempts, refreshed, catalog>>
RegisterAttempt(a) ==
    /\ refresh[a].at = "starting"
    /\ attempts' = attempts \cup {refresh[a].number}
    /\ Proceed(a, "registered")
    /\ UNCHANGED <<version, confirmVars, started, refreshed, catalog>>

\* prepareSource and stageSourceAssets
ReadSource(a) ==
    /\ refresh[a].at = "registered"
    /\ refresh' = [refresh EXCEPT ![a].at = "read", ![a].version = version]
    /\ UNCHANGED <<version, confirmVars, started, attempts, refreshed, catalog>>
VerifySource(a) ==
    /\ refresh[a].at = "read"
    /\ IF refresh[a].version = version THEN Proceed(a, "verified") ELSE End(a)
    /\ UNCHANGED <<version, confirmVars, started, attempts, refreshed, catalog>>

\* assertLatestRefreshAttempt
AnyAttempt(n) == n \in attempts
Latest(n) == n \in attempts /\ \A m \in attempts : m <= n
Apply(a) ==
    /\ refresh[a].at = "verified"
    /\ IF Latest(refresh[a].number)
       THEN catalog' = refresh[a].version /\ refreshed' = refresh[a].version
       ELSE UNCHANGED <<catalog, refreshed>>
    /\ End(a) /\ UNCHANGED <<version, confirmVars, started, attempts>>

RefreshFails(a) ==
    /\ refresh[a] # Resting
    /\ End(a) /\ UNCHANGED <<version, confirmVars, started, attempts, refreshed, catalog>>

Next ==
    \/ Edit
    \/ \E r \in Runs : Preflight(r)
    \/ \E a \in Staff :
          \/ \E r \in Runs : Confirm(a, r)
          \/ Revalidate(a) \/ EnterImport(a) \/ FinishImport(a) \/ MarkStale(a) \/ ConfirmFails(a)
          \/ StartAttempt(a) \/ RegisterAttempt(a) \/ ReadSource(a) \/ VerifySource(a) \/ Apply(a) \/ RefreshFails(a)
Spec == Init /\ [][Next]_migrationVars

-----------------------------------------------------------------------------
(* Properties                                                               *)

\* Two runs that are confirmed at the same time are not both imported.
OneImported == \A r, s \in Imported : r = s
\* However long synchronisations take, none writes an older sheet over what a later one
\* has written.
NoOlderSheet == [][refreshed' >= refreshed]_migrationVars

\* What is imported stays known as imported, so that no other run can follow it. The code
\* does not keep this: a confirmation that has found the sheet changed marks its run stale
\* after another confirmation has imported it. No configuration checks it.
ImportedForGood ==
    [][\A r \in Runs : run[r].status = "IMPORTED" => run'[r].status = "IMPORTED"]_migrationVars
=============================================================================
