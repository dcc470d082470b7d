--------------------------- MODULE IntegrationProofs ---------------------------
(***************************************************************************)
(* Proofs about the parts of MCOffice that talk to other systems or are    *)
(* watched by them: the migration of the cargo sheet, the heartbeat of the *)
(* worker, the accounts of who may sign in, the connection to Jifeng, and  *)
(* how the cargo sheet is read.                                            *)
(***************************************************************************)
EXTENDS MCOffice, Sequences, FiniteSetTheorems, WellFoundedInduction, TLAPS
-----------------------------------------------------------------------------
(* The migration of the cargo sheet and its synchronisations.              *)

Attempt == [at : {"starting", "registered", "read", "verified"}, number : Nat, version : Nat]
MigrationType ==
    /\ version \in Nat /\ started \in Nat /\ refreshed \in Nat
    /\ run \in [Runs -> [status : {"NONE", "PREFLIGHT_READY", "PREFLIGHT_BLOCKED", "STALE",
                                   "IMPORTED"}, version : Nat]]
    /\ confirm \in [Procs -> {Migration!Resting}
                       \cup [at : {"reading", "valid", "stale", "writing"}, run : Runs]]
    /\ importLock \in Procs \cup {Nobody}
    /\ refresh \in [Procs -> {Migration!Resting} \cup Attempt]
    /\ attempts \in SUBSET Nat

(* Only the holder of the lock writes, and nothing was imported before it. *)
OneWriter ==
    /\ \A a \in Procs : confirm[a].at = "writing" => importLock = a /\ Migration!Imported = {}
    /\ \A r, s \in Migration!Imported : r = s

(* Attempts have numbers of their own, and whoever may still be the latest *)
(* has read the sheet after everything that was written.                   *)
Numbered(a) == refresh[a].at # "resting"
LatestIn(n, known) == n \in known /\ \A m \in known : m <= n
LatestIsNewest ==
    /\ refreshed <= version
    /\ \A a \in Procs : Numbered(a) => refresh[a].number <= started
    /\ \A a, b \in Procs : Numbered(a) /\ Numbered(b) /\ a # b => refresh[a].number # refresh[b].number
    /\ \A a \in Procs : refresh[a].at \in {"read", "verified"} =>
         /\ refresh[a].version <= version
         /\ LatestIn(refresh[a].number, attempts) => refreshed <= refresh[a].version

MigrationSafe == MigrationType /\ OneWriter /\ LatestIsNewest

LEMMA ConfirmTypes ==
    ASSUME MigrationType, NEW a \in Procs
    PROVE  /\ confirm[a].at # "resting" =>
                confirm[a] \in [at : {"reading", "valid", "stale", "writing"}, run : Runs]
           /\ confirm[a] # Migration!Resting => confirm[a].at # "resting"
           /\ Numbered(a) => /\ refresh[a] \in Attempt
                             /\ refresh[a].number \in Nat /\ refresh[a].version \in Nat
           /\ refresh[a] # Migration!Resting => Numbered(a)
BY DEF MigrationType, Migration!Resting, Numbered, Attempt

LEMMA MigrationInit == Migration!Init => MigrationSafe
BY DEF Migration!Init, MigrationSafe, MigrationType, OneWriter, LatestIsNewest, Numbered,
       Migration!Resting, Migration!Imported

(* Steps of a confirmation.                                                *)
ConfirmTo(a, c) == confirm' = [confirm EXCEPT ![a] = c]
LEMMA ConfirmStep ==
    ASSUME MigrationSafe, NEW a \in Procs, NEW c,
           c \in {Migration!Resting} \cup [at : {"reading", "valid", "stale", "writing"}, run : Runs],
           ConfirmTo(a, c),
           run' \in [Runs -> [status : {"NONE", "PREFLIGHT_READY", "PREFLIGHT_BLOCKED", "STALE",
                                        "IMPORTED"}, version : Nat]],
           importLock' \in Procs \cup {Nobody},
           \A b \in Procs \ {a} : importLock = b => importLock' = b,
           c.at = "writing" => importLock' = a /\ Migration!Imported' = {},
           Migration!Imported' \subseteq Migration!Imported
             \/ \E r \in Runs : Migration!Imported' \subseteq {r} /\ importLock = a,
           UNCHANGED <<version, refresh, started, attempts, refreshed>>
    PROVE  MigrationSafe'
<1>1. MigrationType' /\ confirm'[a] = c /\ \A b \in Procs \ {a} : confirm'[b] = confirm[b]
  BY DEF MigrationSafe, MigrationType, ConfirmTo
<1>2. LatestIsNewest'
  BY DEF MigrationSafe, LatestIsNewest, Numbered
<1>3. \A r, s \in Migration!Imported' : r = s
  BY DEF MigrationSafe, OneWriter
<1>4. ASSUME NEW b \in Procs, confirm'[b].at = "writing"
      PROVE  importLock' = b /\ Migration!Imported' = {}
  <2>1. CASE b = a
    BY <1>1, <1>4, <2>1
  <2>2. CASE b # a
    <3>1. importLock = b /\ Migration!Imported = {}
      BY <1>1, <1>4, <2>2 DEF MigrationSafe, OneWriter
    <3> QED  BY <2>2, <3>1
  <2> QED  BY <2>1, <2>2
<1> QED  BY <1>1, <1>2, <1>3, <1>4 DEF MigrationSafe, OneWriter

LEMMA ConfirmationsSafe ==
    ASSUME MigrationSafe, NEW a \in Procs,
           \/ \E r \in Runs : Migration!Confirm(a, r)
           \/ Migration!Revalidate(a) \/ Migration!EnterImport(a) \/ Migration!FinishImport(a)
           \/ Migration!MarkStale(a) \/ Migration!ConfirmFails(a)
    PROVE  MigrationSafe'
<1>1. MigrationType /\ OneWriter
  BY DEF MigrationSafe
<1>2. ASSUME NEW r \in Runs, Migration!Confirm(a, r)
      PROVE  MigrationSafe'
  <2> DEFINE c == [at |-> "reading", run |-> r]
  <2>1. /\ ConfirmTo(a, c) /\ c.at = "reading"
        /\ UNCHANGED <<version, run, importLock, refresh, started, attempts, refreshed>>
    BY <1>2 DEF Migration!Confirm, Migration!refreshVars, ConfirmTo
  <2>2. c \in [at : {"reading", "valid", "stale", "writing"}, run : Runs]
    OBVIOUS
  <2> HIDE DEF c
  <2> QED  BY <1>1, <2>1, <2>2, ConfirmStep DEF MigrationType, Migration!Imported
<1>3. ASSUME NEW at \in {"valid", "stale"}, Migration!GoOn(a, at), confirm[a].at # "resting",
             UNCHANGED <<version, run, importLock, refresh, started, attempts, refreshed>>
      PROVE  MigrationSafe'
  <2> DEFINE c == [confirm[a] EXCEPT !.at = at]
  <2>1. ConfirmTo(a, c)
    BY <1>1, <1>3 DEF Migration!GoOn, MigrationType, ConfirmTo
  <2>2. c \in [at : {"reading", "valid", "stale", "writing"}, run : Runs] /\ c.at = at
    BY <1>1, <1>3, ConfirmTypes
  <2> HIDE DEF c
  <2> QED  BY <1>1, <1>3, <2>1, <2>2, ConfirmStep DEF MigrationType, Migration!Imported
<1>4. ASSUME Migration!Revalidate(a)
      PROVE  MigrationSafe'
  <2>1. /\ confirm[a].at = "reading"
        /\ Migration!GoOn(a, "valid") \/ Migration!GoOn(a, "stale")
        /\ UNCHANGED <<version, run, importLock, refresh, started, attempts, refreshed>>
    BY <1>4 DEF Migration!Revalidate, Migration!refreshVars
  <2> QED  BY <1>3, <2>1
<1>5. ASSUME Migration!Stop(a), importLock' \in {importLock, Nobody},
             importLock' # importLock => importLock = a,
             \/ run' = run
             \/ \E r \in Runs : run' = [run EXCEPT ![r].status = "STALE"]
             \/ importLock = a /\ \E r \in Runs : /\ run' = [run EXCEPT ![r].status = "IMPORTED"]
                                                  /\ Migration!Imported = {},
             UNCHANGED <<version, refresh, started, attempts, refreshed>>
      PROVE  MigrationSafe'
  <2>1. run' \in [Runs -> [status : {"NONE", "PREFLIGHT_READY", "PREFLIGHT_BLOCKED", "STALE",
                                     "IMPORTED"}, version : Nat]]
    BY <1>1, <1>5 DEF MigrationType
  <2>2. Migration!Imported' \subseteq Migration!Imported
          \/ \E r \in Runs : Migration!Imported' \subseteq {r} /\ importLock = a
    <3>1. CASE run' = run
      BY <3>1 DEF Migration!Imported
    <3>2. CASE \E r \in Runs : run' = [run EXCEPT ![r].status = "STALE"]
      <4>1. PICK r \in Runs : run' = [run EXCEPT ![r].status = "STALE"]
        BY <3>2
      <4>2. \A s \in Runs : run'[s].status = IF s = r THEN "STALE" ELSE run[s].status
        BY <1>1, <4>1 DEF MigrationType
      <4> QED  BY <4>2 DEF Migration!Imported
    <3>3. CASE importLock = a /\ \E r \in Runs : /\ run' = [run EXCEPT ![r].status = "IMPORTED"]
                                                 /\ Migration!Imported = {}
      <4>1. PICK r \in Runs : run' = [run EXCEPT ![r].status = "IMPORTED"]
        BY <3>3
      <4>2. \A s \in Runs \ {r} : run'[s] = run[s] /\ run[s].status # "IMPORTED"
        BY <1>1, <3>3, <4>1 DEF MigrationType, Migration!Imported
      <4> QED  BY <3>3, <4>2 DEF Migration!Imported
    <3> QED  BY <1>5, <3>1, <3>2, <3>3
  <2>3. Migration!Resting.at # "writing" /\ ConfirmTo(a, Migration!Resting)
    BY <1>5 DEF Migration!Resting, Migration!Stop, ConfirmTo
  <2>4. importLock' \in Procs \cup {Nobody}
    BY <1>1, <1>5 DEF MigrationType
  <2> QED  BY <1>5, <2>1, <2>2, <2>3, <2>4, ConfirmStep
<1>6. ASSUME Migration!EnterImport(a)
      PROVE  MigrationSafe'
  <2>1. /\ confirm[a].at = "valid" /\ importLock = Nobody
        /\ UNCHANGED <<version, run, refresh, started, attempts, refreshed>>
    BY <1>6 DEF Migration!EnterImport, Migration!OwnLock, Migration!refreshVars
  <2>2. CASE Migration!MayImport(confirm[a].run)
    <3> DEFINE c == [confirm[a] EXCEPT !.at = "writing"]
    <3>1. ConfirmTo(a, c) /\ importLock' = a
      BY <1>1, <1>6, <2>2 DEF Migration!EnterImport, Migration!GoOn, MigrationType, ConfirmTo
    <3>2. c \in [at : {"reading", "valid", "stale", "writing"}, run : Runs]
      BY <1>1, <2>1, ConfirmTypes
    <3> HIDE DEF c
    <3>3. Migration!Imported = {}
      BY <2>2 DEF Migration!MayImport, Migration!Imported
    <3>4. Migration!Imported' = Migration!Imported
      BY <2>1 DEF Migration!Imported
    <3> QED  BY <1>1, <2>1, <3>1, <3>2, <3>3, <3>4, ConfirmStep, OfficeAssumption DEF MigrationType
  <2>3. CASE ~Migration!MayImport(confirm[a].run)
    BY <1>5, <1>6, <2>1, <2>3 DEF Migration!EnterImport
  <2> QED  BY <2>2, <2>3
<1>7. ASSUME Migration!FinishImport(a)
      PROVE  MigrationSafe'
  <2>1. /\ confirm[a].at = "writing" /\ importLock' = Nobody /\ Migration!Stop(a)
        /\ run' = [run EXCEPT ![confirm[a].run].status = "IMPORTED"]
        /\ UNCHANGED <<version, refresh, started, attempts, refreshed>>
    BY <1>7 DEF Migration!FinishImport, Migration!refreshVars
  <2>2. importLock = a /\ Migration!Imported = {} /\ confirm[a].run \in Runs
    BY <1>1, <2>1, ConfirmTypes DEF OneWriter
  <2> QED  BY <1>5, <2>1, <2>2
<1>8. ASSUME Migration!MarkStale(a)
      PROVE  MigrationSafe'
  <2>1. /\ confirm[a].at = "stale" /\ Migration!Stop(a)
        /\ run' = [run EXCEPT ![confirm[a].run].status = "STALE"]
        /\ UNCHANGED <<version, importLock, refresh, started, attempts, refreshed>>
    BY <1>8 DEF Migration!MarkStale, Migration!refreshVars
  <2>2. confirm[a].run \in Runs
    BY <1>1, <2>1, ConfirmTypes
  <2> QED  BY <1>5, <2>1, <2>2
<1>9. ASSUME Migration!ConfirmFails(a)
      PROVE  MigrationSafe'
  BY <1>5, <1>9 DEF Migration!ConfirmFails, Migration!refreshVars
<1> QED  BY <1>2, <1>4, <1>6, <1>7, <1>8, <1>9

(* Steps of a synchronisation.                                             *)
RefreshTo(a, c) == refresh' = [refresh EXCEPT ![a] = c]
LEMMA RefreshStep ==
    ASSUME MigrationSafe, NEW a \in Procs, NEW c,
           c \in {Migration!Resting} \cup Attempt,
           RefreshTo(a, c),
           UNCHANGED <<version, run, confirm, importLock>>,
           started' \in Nat, started' >= started, attempts' \in SUBSET Nat,
           refreshed' \in Nat, refreshed' <= version,
           c.at # "resting" => /\ c.number <= started'
                               /\ \A b \in Procs \ {a} : Numbered(b) => refresh[b].number # c.number,
           \A b \in Procs \ {a} : refresh[b].at \in {"read", "verified"} /\ LatestIn(refresh[b].number, attempts') =>
             LatestIn(refresh[b].number, attempts) /\ refreshed' = refreshed,
           c.at \in {"read", "verified"} =>
             c.version <= version /\ (LatestIn(c.number, attempts') => refreshed' <= c.version)
    PROVE  MigrationSafe'
<1>1. /\ MigrationType' /\ refresh'[a] = c /\ \A b \in Procs \ {a} : refresh'[b] = refresh[b]
      /\ LatestIsNewest /\ MigrationType
  BY DEF MigrationSafe, MigrationType, RefreshTo
<1>2. OneWriter'
  BY DEF MigrationSafe, OneWriter, Migration!Imported
<1>3. ASSUME NEW b \in Procs, Numbered(b)'
      PROVE  refresh'[b].number <= started'
  <2>1. CASE b = a
    BY <1>1, <1>3, <2>1 DEF Numbered
  <2>2. CASE b # a
    <3>1. Numbered(b) /\ refresh[b].number <= started /\ refresh'[b] = refresh[b]
      BY <1>1, <1>3, <2>2 DEF Numbered, LatestIsNewest
    <3>2. refresh[b].number \in Nat /\ started \in Nat
      BY <1>1, <3>1, ConfirmTypes DEF MigrationType
    <3> QED  BY <3>1, <3>2
  <2> QED  BY <2>1, <2>2
<1>4. ASSUME NEW b \in Procs, NEW d \in Procs, Numbered(b)', Numbered(d)', b # d
      PROVE  refresh'[b].number # refresh'[d].number
  <2>1. CASE b = a
    BY <1>1, <1>4, <2>1 DEF Numbered
  <2>2. CASE d = a
    BY <1>1, <1>4, <2>2 DEF Numbered
  <2>3. CASE b # a /\ d # a
    BY <1>1, <1>4, <2>3 DEF Numbered, LatestIsNewest
  <2> QED  BY <2>1, <2>2, <2>3
<1>5. ASSUME NEW b \in Procs, refresh'[b].at \in {"read", "verified"}
      PROVE  /\ refresh'[b].version <= version'
             /\ LatestIn(refresh'[b].number, attempts') => refreshed' <= refresh'[b].version
  <2>1. CASE b = a
    BY <1>1, <1>5, <2>1
  <2>2. CASE b # a
    BY <1>1, <1>5, <2>2 DEF LatestIsNewest
  <2> QED  BY <2>1, <2>2
<1> QED  BY <1>1, <1>2, <1>3, <1>4, <1>5 DEF MigrationSafe, LatestIsNewest

(* Steps of a synchronisation that write nothing, and those that write.    *)
LEMMA SynchronisationsSafe ==
    ASSUME MigrationSafe, NEW a \in Procs,
           \/ Migration!StartAttempt(a) \/ Migration!RegisterAttempt(a) \/ Migration!ReadSource(a)
           \/ Migration!VerifySource(a) \/ Migration!Apply(a) \/ Migration!RefreshFails(a)
    PROVE  MigrationSafe' /\ refreshed' >= refreshed
<1>1. MigrationType /\ LatestIsNewest
  BY DEF MigrationSafe
<1>2. /\ version \in Nat /\ started \in Nat /\ refreshed \in Nat /\ attempts \in SUBSET Nat
      /\ refreshed <= version
  BY <1>1 DEF MigrationType, LatestIsNewest
<1>3. refresh[a].at # "resting" =>
        /\ refresh[a] \in Attempt /\ refresh[a].number \in Nat
        /\ refresh[a].number <= started
        /\ \A b \in Procs \ {a} : Numbered(b) => refresh[b].number # refresh[a].number
  BY <1>1, ConfirmTypes DEF LatestIsNewest, Numbered
<1>4. Migration!Resting.at = "resting" /\ (Migration!End(a) => RefreshTo(a, Migration!Resting))
  BY DEF Migration!Resting, Migration!End, RefreshTo
<1>5. ASSUME Migration!End(a), UNCHANGED <<version, run, confirm, importLock, started, attempts, refreshed>>
      PROVE  MigrationSafe'
  BY <1>2, <1>4, <1>5, RefreshStep
<1>6. ASSUME Migration!StartAttempt(a)
      PROVE  MigrationSafe' /\ refreshed' >= refreshed
  <2> DEFINE c == [at |-> "starting", number |-> started + 1, version |-> 0]
  <2>1. /\ RefreshTo(a, c) /\ started' = started + 1
        /\ UNCHANGED <<version, run, confirm, importLock, attempts, refreshed>>
    BY <1>6 DEF Migration!StartAttempt, Migration!confirmVars, RefreshTo
  <2>2. c \in Attempt /\ c.number = started + 1 /\ c.at = "starting"
    BY <1>2 DEF Attempt
  <2>3. \A b \in Procs \ {a} : Numbered(b) => refresh[b].number # c.number
    <3> SUFFICES ASSUME NEW b \in Procs \ {a}, Numbered(b)
                 PROVE  refresh[b].number # c.number
      OBVIOUS
    <3>1. refresh[b].number \in Nat /\ refresh[b].number <= started
      BY <1>1, ConfirmTypes DEF LatestIsNewest
    <3> QED  BY <1>2, <2>2, <3>1
  <2> HIDE DEF c
  <2>4. started' \in Nat /\ started' >= started /\ c.number <= started'
    BY <1>2, <2>1, <2>2
  <2> QED  BY <1>2, <2>1, <2>2, <2>3, <2>4, RefreshStep
<1>7. ASSUME NEW at, Migration!Proceed(a, at), refresh[a].at # "resting",
             at = "registered" \/ (at = "verified" /\ refresh[a].at = "read"),
             \/ attempts' = attempts
             \/ attempts' = attempts \cup {refresh[a].number},
             UNCHANGED <<version, run, confirm, importLock, started, refreshed>>,
             at = "verified" => attempts' = attempts
      PROVE  MigrationSafe'
  <2> DEFINE c == [refresh[a] EXCEPT !.at = at]
  <2>1. RefreshTo(a, c)
    BY <1>1, <1>7 DEF Migration!Proceed, MigrationType, RefreshTo
  <2>2. /\ c \in Attempt
        /\ c.at = at /\ c.number = refresh[a].number /\ c.version = refresh[a].version
    BY <1>3, <1>7 DEF Attempt
  <2> HIDE DEF c
  <2>3. attempts' \in SUBSET Nat
    BY <1>2, <1>3, <1>7
  <2>4. \A b \in Procs \ {a} : Numbered(b) /\ LatestIn(refresh[b].number, attempts') =>
          LatestIn(refresh[b].number, attempts)
    BY <1>3, <1>7 DEF LatestIn
  <2>5. at = "verified" => c.version <= version /\ (LatestIn(c.number, attempts') => refreshed <= c.version)
    BY <1>1, <1>7, <2>2 DEF LatestIsNewest, LatestIn
  <2> QED  BY <1>2, <1>3, <1>7, <2>1, <2>2, <2>3, <2>4, <2>5, RefreshStep DEF Numbered
<1>8. ASSUME Migration!RegisterAttempt(a)
      PROVE  MigrationSafe' /\ refreshed' >= refreshed
  BY <1>2, <1>7, <1>8 DEF Migration!RegisterAttempt, Migration!confirmVars
<1>9. ASSUME Migration!ReadSource(a)
      PROVE  MigrationSafe' /\ refreshed' >= refreshed
  <2> DEFINE c == [refresh[a] EXCEPT !.at = "read", !.version = version]
  <2>1. /\ RefreshTo(a, c) /\ refresh[a].at = "registered"
        /\ UNCHANGED <<version, run, confirm, importLock, started, attempts, refreshed>>
    BY <1>1, <1>9 DEF Migration!ReadSource, Migration!confirmVars, MigrationType, RefreshTo
  <2>2. /\ c \in Attempt
        /\ c.at = "read" /\ c.number = refresh[a].number /\ c.version = version
    BY <1>2, <1>3, <2>1 DEF Attempt
  <2> HIDE DEF c
  <2> QED  BY <1>2, <1>3, <2>1, <2>2, RefreshStep DEF Numbered
<1>10. ASSUME Migration!VerifySource(a)
       PROVE  MigrationSafe' /\ refreshed' >= refreshed
  BY <1>2, <1>5, <1>7, <1>10 DEF Migration!VerifySource, Migration!confirmVars
<1>11. ASSUME Migration!Apply(a)
       PROVE  MigrationSafe' /\ refreshed' >= refreshed
  <2>1. /\ RefreshTo(a, Migration!Resting) /\ refresh[a].at = "verified"
        /\ UNCHANGED <<version, run, confirm, importLock, started, attempts>>
    BY <1>11 DEF Migration!Apply, Migration!confirmVars, Migration!End, RefreshTo
  <2>2. CASE ~LatestIn(refresh[a].number, attempts)
    BY <1>2, <1>5, <1>11, <2>1, <2>2 DEF Migration!Apply, Migration!End, Migration!Latest, LatestIn
  <2>3. CASE LatestIn(refresh[a].number, attempts)
    <3>0. refresh[a].version \in Nat
      BY <1>1, <2>1, ConfirmTypes DEF Numbered
    <3>1. /\ refreshed' = refresh[a].version /\ refresh[a].version \in Nat
          /\ refresh[a].version <= version /\ refreshed <= refresh[a].version
      <4>1. refresh[a].version <= version /\ refreshed <= refresh[a].version
        BY <1>1, <2>1, <2>3 DEF LatestIsNewest
      <4>2. Migration!Latest(refresh[a].number)
        BY <2>3 DEF LatestIn, Migration!Latest
      <4> QED  BY <1>11, <3>0, <4>1, <4>2 DEF Migration!Apply
    <3>2. ASSUME NEW b \in Procs \ {a}, Numbered(b), LatestIn(refresh[b].number, attempts)
          PROVE  FALSE
      <4>1. refresh[a].number \in Nat /\ refresh[b].number \in Nat
        BY <1>1, <1>3, <2>1, <3>2, ConfirmTypes
      <4>2. refresh[a].number <= refresh[b].number /\ refresh[b].number <= refresh[a].number
        BY <2>3, <3>2 DEF LatestIn
      <4> QED  BY <1>3, <2>1, <3>2, <4>1, <4>2
    <3>3. MigrationSafe'
      BY <1>2, <1>4, <2>1, <3>1, <3>2, RefreshStep DEF Numbered
    <3> QED  BY <1>2, <3>1, <3>3
  <2> QED  BY <2>2, <2>3
<1>12. ASSUME Migration!RefreshFails(a)
       PROVE  MigrationSafe' /\ refreshed' >= refreshed
  BY <1>2, <1>5, <1>12 DEF Migration!RefreshFails, Migration!confirmVars
<1> QED  BY <1>6, <1>8, <1>9, <1>10, <1>11, <1>12

LEMMA MigrationNext ==
    MigrationSafe /\ [Migration!Next]_(Migration!migrationVars) => MigrationSafe' /\ refreshed' >= refreshed
<1> SUFFICES ASSUME MigrationSafe, [Migration!Next]_(Migration!migrationVars)
             PROVE  MigrationSafe' /\ refreshed' >= refreshed
  OBVIOUS
<1>1. version \in Nat /\ refreshed \in Nat /\ refreshed <= version
  BY DEF MigrationSafe, MigrationType, LatestIsNewest
<1>2. CASE UNCHANGED Migration!migrationVars
  BY <1>1, <1>2 DEF Migration!migrationVars, MigrationSafe, MigrationType, OneWriter,
       LatestIsNewest, Numbered, Migration!Imported
<1>3. CASE Migration!Edit
  <2>1. /\ version' = version + 1
        /\ UNCHANGED <<run, confirm, importLock, refresh, started, attempts, refreshed>>
    BY <1>3 DEF Migration!Edit, Migration!confirmVars, Migration!refreshVars
  <2>2. MigrationType'
    BY <1>1, <2>1 DEF MigrationSafe, MigrationType
  <2>3. OneWriter'
    BY <2>1 DEF MigrationSafe, OneWriter, Migration!Imported
  <2>4. \A a \in Procs : refresh[a].at \in {"read", "verified"} => refresh[a].version <= version + 1
    <3> SUFFICES ASSUME NEW a \in Procs, refresh[a].at \in {"read", "verified"}
                 PROVE  refresh[a].version <= version + 1
      OBVIOUS
    <3>1. refresh[a].version \in Nat /\ refresh[a].version <= version
      BY ConfirmTypes DEF MigrationSafe, LatestIsNewest, Numbered
    <3> QED  BY <1>1, <3>1
  <2>5. LatestIsNewest'
    BY <1>1, <2>1, <2>4 DEF MigrationSafe, LatestIsNewest, Numbered
  <2> QED  BY <1>1, <2>1, <2>2, <2>3, <2>5 DEF MigrationSafe
<1>4. ASSUME NEW r \in Runs, Migration!Preflight(r)
      PROVE  MigrationSafe' /\ refreshed' >= refreshed
  <2>1. PICK row \in Migration!Prepared : run' = [run EXCEPT ![r] = row]
    BY <1>4 DEF Migration!Preflight
  <2>2. UNCHANGED <<version, confirm, importLock, refresh, started, attempts, refreshed>>
    BY <1>4 DEF Migration!Preflight, Migration!refreshVars
  <2>3. row \in [status : {"PREFLIGHT_READY", "PREFLIGHT_BLOCKED"}, version : Nat]
    BY <1>1 DEF Migration!Prepared
  <2>4. MigrationType'
    BY <2>1, <2>2, <2>3 DEF MigrationSafe, MigrationType
  <2>5. Migration!Imported' \subseteq Migration!Imported
    BY <2>1, <2>3 DEF MigrationSafe, MigrationType, Migration!Imported
  <2>6. OneWriter'
    BY <2>2, <2>5 DEF MigrationSafe, OneWriter
  <2>7. LatestIsNewest'
    BY <2>2 DEF MigrationSafe, LatestIsNewest, Numbered
  <2> QED  BY <1>1, <2>2, <2>4, <2>6, <2>7 DEF MigrationSafe
<1>5. ASSUME NEW a \in Procs,
             \/ \E r \in Runs : Migration!Confirm(a, r)
             \/ Migration!Revalidate(a) \/ Migration!EnterImport(a) \/ Migration!FinishImport(a)
             \/ Migration!MarkStale(a) \/ Migration!ConfirmFails(a)
      PROVE  MigrationSafe' /\ refreshed' >= refreshed
  <2>1. refreshed' = refreshed
    BY <1>5 DEF Migration!Confirm, Migration!Revalidate, Migration!EnterImport, Migration!FinishImport,
         Migration!MarkStale, Migration!ConfirmFails, Migration!refreshVars
  <2> QED  BY <1>1, <1>5, <2>1, ConfirmationsSafe
<1> QED  BY <1>2, <1>3, <1>4, <1>5, SynchronisationsSafe DEF Migration!Next

(* However confirmations of several administrators overlap with edits of   *)
(* the sheet, at most one migration run is imported                        *)
(* (migration-service.ts, importedMigrationExists under its lock).         *)
THEOREM MigratedOnce == Migration!Spec => []OneImported
<1>1. MigrationSafe => OneImported
  BY DEF MigrationSafe, OneWriter, OneImported, Migration!OneImported
<1> QED  BY <1>1, MigrationInit, MigrationNext, PTL DEF Migration!Spec

(* Of synchronisations that overlap, none writes a version of the sheet    *)
(* that is older than what another has written                             *)
(* (catalog-field-refresh.ts, assertLatestRefreshAttempt).                 *)
THEOREM SheetsNeverGoBack == Migration!Spec => NoOlderSheet
<1>1. MigrationSafe /\ [Migration!Next]_(Migration!migrationVars)
        => [refreshed' >= refreshed]_(Migration!migrationVars)
  BY MigrationNext
<1> QED  BY <1>1, MigrationInit, MigrationNext, PTL
         DEF Migration!Spec, NoOlderSheet, Migration!NoOlderSheet
-----------------------------------------------------------------------------
(* The heartbeat of the worker.                                            *)

States == {"STARTING", "READY", "DEGRADED", "STOPPING"}
Snapshots == [pid : Pids, state : States, age : Nat]

HealthType ==
    /\ worker \in {Health!Gone} \cup [pid : Pids, state : States, active : BOOLEAN]
    /\ file \in {Nothing} \cup Snapshots /\ torn \in {Nothing} \cup Snapshots
    /\ quiet \in Nat

(* A snapshot that says READY is no younger than the queues are quiet, the *)
(* one on disk and the one that is about to be renamed.                    *)
TellsTheTruth(s) == s # Nothing => (s.state = "READY" => quiet <= s.age)
HealthSafe == HealthType /\ TellsTheTruth(file) /\ TellsTheTruth(torn)

LEMMA HealthInit == Health!Init => HealthSafe
BY OfficeAssumption DEF Health!Init, Health!Gone, HealthSafe, HealthType, TellsTheTruth

LEMMA HealthNext == HealthSafe /\ [Health!Next]_(Health!healthVars) => HealthSafe'
<1> SUFFICES ASSUME HealthSafe, [Health!Next]_(Health!healthVars)
             PROVE  HealthSafe'
  OBVIOUS
<1> USE OfficeAssumption
<1>a. /\ HealthType /\ TellsTheTruth(file) /\ TellsTheTruth(torn)
      /\ Health!Gone.state = "GONE"
      /\ Health!Alive => worker \in [pid : Pids, state : States, active : BOOLEAN]
  BY DEF HealthSafe, Health!Alive, HealthType, Health!Gone
<1>b. ASSUME worker' \in [pid : Pids, state : States, active : BOOLEAN], NEW s \in States,
             file' = file, torn' = [pid |-> worker'.pid, state |-> s, age |-> 0],
             quiet' = quiet \/ quiet' = 0, s = "READY" => quiet' = 0
      PROVE  HealthSafe'
  <2>1. torn' \in Snapshots /\ torn'.age = 0 /\ torn'.state = s
    BY <1>b DEF Snapshots
  <2>2. quiet' \in Nat /\ (file # Nothing => file.age \in Nat)
    BY <1>a, <1>b DEF HealthType, Snapshots
  <2>3. TellsTheTruth(file)'
    BY <1>a, <1>b, <2>2 DEF TellsTheTruth
  <2>4. TellsTheTruth(torn)'
    BY <1>b, <2>1 DEF TellsTheTruth
  <2> QED  BY <1>a, <1>b, <2>1, <2>2, <2>3, <2>4 DEF HealthSafe, HealthType
<1>1. CASE UNCHANGED Health!healthVars
  BY <1>1 DEF Health!healthVars, HealthSafe, HealthType, TellsTheTruth
<1>2. ASSUME NEW p \in Pids, Health!Start(p)
      PROVE  HealthSafe'
  <2>1. /\ worker' = [pid |-> p, state |-> "STARTING", active |-> FALSE]
        /\ torn' = [pid |-> p, state |-> "STARTING", age |-> 0] /\ UNCHANGED <<file, quiet>>
    BY <1>2 DEF Health!Start
  <2> QED  BY <1>b, <2>1 DEF States
<1>3. CASE Health!Rename
  BY <1>3 DEF Health!Rename, HealthSafe, HealthType, TellsTheTruth
<1>c. ASSUME Health!Alive, NEW t \in States, NEW s \in States, NEW on \in BOOLEAN,
             worker' = [worker EXCEPT !.state = t, !.active = on], torn' = Health!Snapshot(s),
             file' = file, quiet' = quiet \/ quiet' = 0, s = "READY" => quiet' = 0
      PROVE  HealthSafe'
  <2>1. worker' \in [pid : Pids, state : States, active : BOOLEAN] /\ worker'.pid = worker.pid
    BY <1>a, <1>c
  <2> QED  BY <1>b, <1>c, <2>1 DEF Health!Snapshot
<1>d. ASSUME Health!Alive, NEW s \in States, Health!Write(s),
             quiet' = quiet \/ quiet' = 0, s = "READY" => quiet' = 0
      PROVE  HealthSafe'
  <2>1. worker' = [worker EXCEPT !.state = s, !.active = worker.active] /\ worker.active \in BOOLEAN
    BY <1>a, <1>d DEF Health!Write
  <2> QED  BY <1>c, <1>d, <2>1 DEF Health!Write
<1>4. CASE Health!MarkReady
  <2>1. Health!Alive
    BY <1>a, <1>4 DEF Health!MarkReady, Health!Alive
  <2> QED  BY <1>c, <1>4, <2>1 DEF Health!MarkReady, States
<1>5. CASE Health!Heartbeat
  <2> DEFINE known == worker.state \in {"READY", "DEGRADED"}
             s == IF known THEN Health!Probed ELSE worker.state
  <2>1. /\ Health!Alive /\ Health!Write(s)
        /\ quiet' = IF known /\ worker.active THEN 0 ELSE quiet
    BY <1>5 DEF Health!Heartbeat
  <2>2. s \in States /\ (s = "READY" => known /\ worker.active)
    BY <1>a, <2>1 DEF Health!Probed, States
  <2> QED  BY <1>d, <2>1, <2>2
<1>6. CASE Health!MarkStopping
  <2>1. Health!Alive
    BY <1>a, <1>6 DEF Health!MarkStopping, Health!Alive
  <2> QED  BY <1>d, <1>6, <2>1 DEF Health!MarkStopping, States
<1>7. CASE Health!SchedulerMoves
  <2>1. worker' \in [pid : Pids, state : States, active : BOOLEAN] /\ UNCHANGED <<file, torn, quiet>>
    BY <1>a, <1>7 DEF Health!SchedulerMoves, HealthType
  <2> QED  BY <1>a, <2>1 DEF HealthSafe, HealthType, TellsTheTruth
<1>8. CASE Health!Exit
  BY <1>8 DEF Health!Exit, Health!Gone, HealthSafe, HealthType, TellsTheTruth
<1>9. CASE Health!Tick
  <2>1. ASSUME NEW s \in Snapshots
        PROVE  /\ Health!Aged(s) = [s EXCEPT !.age = Health!Older(@)] \/ s = Nothing
               /\ Health!Older(s.age) \in Nat /\ Health!Older(quiet) \in Nat
               /\ quiet <= s.age => Health!Older(quiet) <= Health!Older(s.age)
    BY DEF Health!Aged, Health!Older, HealthSafe, HealthType, Snapshots
  <2>2. ASSUME NEW s \in {Nothing} \cup Snapshots, TellsTheTruth(s)
        PROVE  /\ Health!Aged(s) \in {Nothing} \cup Snapshots
               /\ Health!Aged(s) # Nothing =>
                    (Health!Aged(s).state = "READY" => Health!Older(quiet) <= Health!Aged(s).age)
    BY <2>1, <2>2 DEF Health!Aged, TellsTheTruth, Snapshots
  <2>3. /\ file' = Health!Aged(file) /\ quiet' = Health!Older(quiet)
        /\ torn' = Health!Aged(torn) \/ torn' = Nothing
        /\ UNCHANGED worker
    BY <1>9 DEF Health!Tick
  <2>4. quiet' \in Nat
    BY <2>3 DEF HealthSafe, HealthType, Health!Older
  <2> QED  BY <2>2, <2>3, <2>4 DEF HealthSafe, HealthType, TellsTheTruth
<1> QED  BY <1>1, <1>2, <1>3, <1>4, <1>5, <1>6, <1>7, <1>8, <1>9 DEF Health!Next

(* The check of the container calls the worker healthy only while its      *)
(* queues were worked on within the age of a heartbeat (worker-health.ts). *)
THEOREM HealthyWorks == Health!Spec => []HealthyMeansWorking
<1>1. ASSUME HealthSafe, Health!Assessment = "HEALTHY"
      PROVE  quiet <= MaxAge
  <2>1. file # Nothing /\ file.pid = worker.pid /\ ~(file.age > MaxAge)
    BY <1>1 DEF Health!Assessment
  <2>2. file \in Snapshots /\ file.age \in Nat /\ file.state \in States
    BY <1>1, <2>1 DEF HealthSafe, HealthType, Snapshots
  <2>3. file.state = "READY"
    BY <1>1, <2>1, <2>2 DEF Health!Assessment, States
  <2> QED  BY <1>1, <2>1, <2>2, <2>3, OfficeAssumption DEF HealthSafe, HealthType, TellsTheTruth
<1>2. HealthSafe => HealthyMeansWorking
  BY <1>1 DEF HealthyMeansWorking, Health!HealthyMeansWorking
<1> QED  BY <1>2, HealthInit, HealthNext, PTL DEF Health!Spec
-----------------------------------------------------------------------------
(* Who may sign in.                                                        *)

Everybody == Accounts \cup Customers
Account == [banned : BOOLEAN, address : Addresses]
Change == [op : {"rename", "status", "customer", "matching"}, account : Everybody,
           to : Addresses \cup BOOLEAN, read : {Missing} \cup Account, todo : Seq(People!Rows)]

AccountsType ==
    /\ auth \in [Everybody -> {Missing} \cup Account]
    /\ customer \in [Customers -> {Missing} \cup BOOLEAN]
    /\ change \in [Procs -> {People!NoTxn} \cup Change]

(* A change is about an account that exists, and writes what somebody      *)
(* decided.                                                                *)
ChangeOK(t) ==
    /\ auth[t.account] # Missing
    /\ t.op \in {"status", "customer"} => t.to \in BOOLEAN
    /\ t.op = "rename" => t.to \in Addresses
    /\ t.op = "customer" => t.account \in Customers

AccountsSafe ==
    /\ AccountsType
    /\ \A c \in Customers : customer[c] = Missing => auth[c] = Missing
    /\ \A a \in Procs : change[a] # People!NoTxn => ChangeOK(change[a])

(* Accounts that exist go on to exist, and only decisions ban.             *)
BansDecided ==
    \A u \in People!Present : auth'[u].banned # auth[u].banned =>
       \E a \in Procs : /\ change[a].op \in {"status", "customer"} /\ change[a].account = u
                        /\ change[a].to = auth'[u].banned /\ change'[a] = People!NoTxn

LEMMA ChangeTypes ==
    ASSUME AccountsSafe, NEW a \in Procs, change[a] # People!NoTxn
    PROVE  /\ change[a] \in Change /\ ChangeOK(change[a]) /\ change[a].account \in Everybody
           /\ auth[change[a].account] \in Account
BY DEF AccountsSafe, AccountsType, Change, ChangeOK

LEMMA NoTxnIsNone == People!NoTxn.op = "none" /\ People!NoTxn \notin Change
<1>1. People!NoTxn.op = "none"
  BY DEF People!NoTxn
<1>2. \A t \in Change : t.op # "none"
  BY DEF Change
<1> QED  BY <1>1, <1>2

LEMMA AccountsInit == People!Init => AccountsSafe
BY DEF People!Init, AccountsSafe, AccountsType, Everybody

(* A step that adds accounts, and one that leaves them all as they are.    *)
LEMMA AccountAdded ==
    ASSUME AccountsSafe, NEW u \in Everybody, auth[u] = Missing, NEW r \in Account,
           auth' = [auth EXCEPT ![u] = r], UNCHANGED change,
           customer' \in [Customers -> {Missing} \cup BOOLEAN],
           \A c \in Customers : customer'[c] = Missing => customer[c] = Missing /\ c # u
    PROVE  AccountsSafe' /\ BansDecided
<1>1. AccountsType /\ auth' \in [Everybody -> {Missing} \cup Account]
      /\ \A v \in Everybody \ {u} : auth'[v] = auth[v]
  BY DEF AccountsSafe, AccountsType
<1>2. ASSUME NEW a \in Procs, change[a] # People!NoTxn
      PROVE  ChangeOK(change[a])'
  BY <1>1, <1>2, ChangeTypes DEF ChangeOK
<1>3. BansDecided
  BY <1>1 DEF BansDecided, People!Present, AccountsType
<1>4. \A c \in Customers : customer'[c] = Missing => auth'[c] = Missing
  BY <1>1 DEF AccountsSafe, Everybody
<1> QED  BY <1>1, <1>2, <1>3, <1>4 DEF AccountsSafe, AccountsType

LEMMA ChangeGoesOn ==
    ASSUME AccountsSafe, NEW a \in Procs, UNCHANGED <<auth, customer>>,
           NEW t, t = People!NoTxn \/ (t \in Change /\ ChangeOK(t)),
           change' = [change EXCEPT ![a] = t]
    PROVE  AccountsSafe' /\ BansDecided
<1>1. AccountsType' /\ \A b \in Procs : change'[b] = IF b = a THEN t ELSE change[b]
  BY DEF AccountsSafe, AccountsType
<1>2. ASSUME NEW b \in Procs, change'[b] # People!NoTxn
      PROVE  ChangeOK(change[b])'
  <2>1. ChangeOK(change'[b])
    BY <1>1, <1>2 DEF AccountsSafe
  <2> QED  BY <2>1 DEF ChangeOK
<1>3. BansDecided
  BY DEF BansDecided
<1> QED  BY <1>1, <1>2, <1>3 DEF AccountsSafe

LEMMA BeginSafe ==
    ASSUME AccountsSafe, NEW a \in Procs, NEW op \in {"rename", "status", "customer", "matching"},
           NEW u \in Everybody, NEW to, People!Begin(a, op, u, to),
           IF op = "rename" THEN to \in Addresses ELSE to \in BOOLEAN,
           op = "customer" => u \in Customers
    PROVE  AccountsSafe' /\ BansDecided
<1> DEFINE t == [op |-> op, account |-> u, to |-> to, read |-> auth[u], todo |-> People!RowsOf(op, u)]
<1>1. change' = [change EXCEPT ![a] = t] /\ UNCHANGED <<auth, customer>> /\ auth[u] # Missing
  BY DEF People!Begin
<1>2. People!RowsOf(op, u) \in Seq(People!Rows)
  <2>1. /\ <<"auth", u>> \in People!Rows /\ <<"mirror", u>> \in People!Rows
        /\ op \in {"customer", "matching"} => <<"customer", u>> \in People!Rows
    BY DEF People!Begin, People!Rows, Everybody
  <2>2. op \in {"customer", "matching"} \/ op \in {"rename", "status"}
    OBVIOUS
  <2> QED  BY <2>1, <2>2 DEF People!RowsOf
<1>3. auth[u] \in {Missing} \cup Account
  BY DEF AccountsSafe, AccountsType
<1>4. t \in Change /\ t.account = u /\ t.op = op /\ t.to = to
  BY <1>2, <1>3 DEF Change
<1> HIDE DEF t
<1>5. ChangeOK(t)
  BY <1>1, <1>4 DEF ChangeOK
<1> QED  BY <1>1, <1>4, <1>5, ChangeGoesOn

LEMMA CommitSafe ==
    ASSUME AccountsSafe, NEW a \in Procs, People!Commit(a)
    PROVE  AccountsSafe' /\ BansDecided
<1> DEFINE t == change[a]
           u == change[a].account
<1>1. /\ t # People!NoTxn /\ change' = [change EXCEPT ![a] = People!NoTxn]
      /\ t.op = "matching" => UNCHANGED <<auth, customer>>
      /\ t.op # "matching" => auth' = People!WriteAuth(t) /\ customer' = People!WriteCustomer(t)
  BY DEF People!Commit, People!Leave
<1>2. /\ t \in Change /\ ChangeOK(t) /\ u \in Everybody /\ auth[u] \in Account
      /\ auth[u] # Missing /\ AccountsType
  BY <1>1, ChangeTypes DEF AccountsSafe, ChangeOK
<1>3. t.op \in {"rename", "status", "customer", "matching"} /\ u = t.account
  BY <1>2 DEF Change
<1>4. CASE t.op = "matching"
  BY <1>1, <1>4, ChangeGoesOn
<1>5. CASE t.op # "matching"
  <2>1. PICK r \in Account : /\ auth' = [auth EXCEPT ![u] = r]
                             /\ r.banned = auth[u].banned
                                  \/ (t.op \in {"status", "customer"} /\ r.banned = t.to)
    <3>1. CASE t.op = "rename"
      <4>1. /\ auth' = [auth EXCEPT ![u] = [auth[u] EXCEPT !.address = t.to]]
            /\ t.to \in Addresses
        BY <1>1, <1>2, <3>1 DEF People!WriteAuth, ChangeOK, AccountsType
      <4>2. /\ [auth[u] EXCEPT !.address = t.to] \in Account
            /\ [auth[u] EXCEPT !.address = t.to].banned = auth[u].banned
        BY <1>2, <4>1 DEF Account
      <4> QED  BY <4>1, <4>2
    <3>2. CASE t.op \in {"status", "customer"}
      <4>1. /\ auth' = [auth EXCEPT ![u] = [auth[u] EXCEPT !.banned = t.to]]
            /\ t.to \in BOOLEAN
        BY <1>1, <1>2, <3>2 DEF People!WriteAuth, ChangeOK, AccountsType
      <4>2. /\ [auth[u] EXCEPT !.banned = t.to] \in Account
            /\ [auth[u] EXCEPT !.banned = t.to].banned = t.to
        BY <1>2, <4>1 DEF Account
      <4> QED  BY <3>2, <4>1, <4>2
    <3> QED  BY <1>3, <1>5, <3>1, <3>2
  <2>2. /\ customer' \in [Customers -> {Missing} \cup BOOLEAN]
        /\ \A c \in Customers : customer'[c] = Missing => customer[c] = Missing
    BY <1>1, <1>2, <1>3, <1>5, OfficeAssumption DEF People!WriteCustomer, AccountsType, ChangeOK
  <2> HIDE DEF t, u
  <2>3. /\ auth' \in [Everybody -> {Missing} \cup Account] /\ auth'[u] = r /\ r # Missing
        /\ \A v \in Everybody \ {u} : auth'[v] = auth[v]
    BY <1>2, <2>1, OfficeAssumption DEF AccountsType, Account
  <2>4. BansDecided
    <3>1. change'[a] = People!NoTxn /\ change[a] = t
      BY <1>1, <1>2 DEF AccountsType, t
    <3> QED  BY <1>2, <1>3, <2>1, <2>3, <3>1 DEF BansDecided, People!Present, AccountsType
  <2>5. AccountsType' /\ \A b \in Procs : change'[b] = change[b] \/ change'[b] = People!NoTxn
    BY <1>1, <1>2, <2>2, <2>3 DEF AccountsType
  <2>6. ASSUME NEW b \in Procs, change'[b] # People!NoTxn
        PROVE  ChangeOK(change[b])'
    <3>1. /\ change'[b] = change[b] /\ ChangeOK(change[b]) /\ change[b].account \in Everybody
          /\ auth[change[b].account] # Missing
      BY <2>5, <2>6, ChangeTypes DEF ChangeOK
    <3>2. auth'[change[b].account] # Missing
      BY <2>3, <3>1
    <3> QED  BY <3>1, <3>2 DEF ChangeOK
  <2>7. \A c \in Customers : customer'[c] = Missing => auth'[c] = Missing
    BY <1>2, <2>2, <2>3 DEF AccountsSafe, Everybody
  <2> QED  BY <2>4, <2>5, <2>6, <2>7 DEF AccountsSafe
<1> QED  BY <1>4, <1>5

LEMMA AccountsNext ==
    AccountsSafe /\ [People!Next]_(People!accountVars) => AccountsSafe' /\ (BansDecided \/ UNCHANGED People!accountVars)
<1> SUFFICES ASSUME AccountsSafe, [People!Next]_(People!accountVars)
             PROVE  AccountsSafe' /\ (BansDecided \/ UNCHANGED People!accountVars)
  OBVIOUS
<1>1. AccountsType
  BY DEF AccountsSafe
<1>2. CASE UNCHANGED People!accountVars
  BY <1>2 DEF People!accountVars, AccountsSafe, AccountsType, ChangeOK
<1>3. ASSUME NEW u \in Accounts, NEW x \in Addresses, People!CreateAdmin(u, x)
      PROVE  AccountsSafe' /\ BansDecided
  <2>1. /\ auth[u] = Missing /\ auth' = [auth EXCEPT ![u] = [banned |-> FALSE, address |-> x]]
        /\ UNCHANGED <<customer, change>>
    BY <1>3 DEF People!CreateAdmin
  <2>2. [banned |-> FALSE, address |-> x] \in Account /\ u \in Everybody /\ u \notin Customers
    BY OfficeAssumption DEF Account, Everybody
  <2> QED  BY <1>1, <2>1, <2>2, AccountAdded DEF AccountsType
<1>4. ASSUME NEW c \in Customers, NEW x \in Addresses, People!Provision(c, x)
      PROVE  AccountsSafe' /\ BansDecided
  <2>1. /\ customer[c] = Missing /\ auth' = [auth EXCEPT ![c] = [banned |-> FALSE, address |-> x]]
        /\ customer' = [customer EXCEPT ![c] = FALSE] /\ UNCHANGED change
    BY <1>4 DEF People!Provision
  <2>2. [banned |-> FALSE, address |-> x] \in Account /\ c \in Everybody /\ auth[c] = Missing
    BY <2>1 DEF Account, Everybody, AccountsSafe
  <2>3. /\ customer' \in [Customers -> {Missing} \cup BOOLEAN]
        /\ \A d \in Customers : customer'[d] = Missing => customer[d] = Missing /\ d # c
    BY <1>1, <2>1, OfficeAssumption DEF AccountsType
  <2> QED  BY <2>1, <2>2, <2>3, AccountAdded
<1>5. ASSUME NEW s \in shops, NEW on \in BOOLEAN, People!SetShop(s, on)
      PROVE  AccountsSafe' /\ BansDecided
  BY <1>1, <1>5 DEF People!SetShop, AccountsSafe, AccountsType, ChangeOK, BansDecided
<1>6. ASSUME NEW a \in Procs, NEW u \in Everybody,
             \/ \E x \in Addresses : People!BeginRename(a, u, x)
             \/ \E off \in BOOLEAN : People!BeginStatus(a, u, off)
      PROVE  AccountsSafe' /\ BansDecided
  BY <1>6, BeginSafe DEF People!BeginRename, People!BeginStatus
<1>7. ASSUME NEW a \in Procs, NEW c \in Customers, NEW on \in BOOLEAN,
             People!BeginCustomer(a, c, on) \/ People!BeginMatching(a, c, on)
      PROVE  AccountsSafe' /\ BansDecided
  BY <1>7, BeginSafe DEF People!BeginCustomer, People!BeginMatching, Everybody
<1>8. ASSUME NEW a \in Procs, People!Statement(a)
      PROVE  AccountsSafe' /\ BansDecided
  <2> DEFINE t == [change[a] EXCEPT !.todo = Tail(change[a].todo)]
  <2>1. /\ change[a] # People!NoTxn /\ change[a].todo # <<>> /\ UNCHANGED <<auth, customer>>
        /\ change' = [change EXCEPT ![a] = t]
    BY <1>1, <1>8 DEF People!Statement, AccountsType
  <2>2. change[a] \in Change /\ ChangeOK(change[a])
    BY <2>1, ChangeTypes
  <2>3. Tail(change[a].todo) \in Seq(People!Rows)
    <3>1. change[a].todo \in Seq(People!Rows)
      BY <2>2 DEF Change
    <3> QED  BY <2>1, <3>1
  <2>4. /\ t \in Change /\ t.op = change[a].op /\ t.account = change[a].account
        /\ t.to = change[a].to
    BY <2>2, <2>3 DEF Change
  <2> HIDE DEF t
  <2>5. ChangeOK(t)
    BY <2>2, <2>4 DEF ChangeOK
  <2> QED  BY <2>1, <2>4, <2>5, ChangeGoesOn
<1>9. ASSUME NEW a \in Procs, People!RollBack(a)
      PROVE  AccountsSafe' /\ BansDecided
  BY <1>9, ChangeGoesOn DEF People!RollBack, People!Leave
<1> QED  BY <1>2, <1>3, <1>4, <1>5, <1>6, <1>7, <1>8, <1>9, CommitSafe DEF People!Next, Everybody

(* Who may sign in changes only by a decision about that account, not      *)
(* because a rename that read the account before is written after          *)
(* (accounts/service.ts, customers/service.ts).                            *)
THEOREM BansAreDecisions == People!Spec => OnlyDecisionsBan
<1>1. AccountsSafe /\ [People!Next]_(People!accountVars) => [BansDecided]_(People!accountVars)
  BY AccountsNext
<1> QED  BY <1>1, AccountsInit, AccountsNext, PTL
         DEF People!Spec, OnlyDecisionsBan, People!OnlyDecisionsBan, BansDecided
-----------------------------------------------------------------------------
(* The connection to Jifeng: its tokens.                                   *)

Statuses == {"DISCONNECTED", "RESOURCE_SELECTION_REQUIRED", "READY_DISABLED", "ENABLED",
             "REFRESH_REQUIRED", "ERROR"}
Row == [status : Statuses, token : Nat, expires : Nat, updated : Nat, diagnostic : Nat,
        resource : Resources \cup {Nothing}]

Begun == [at : {"begun"}, kind : Connection!Kinds, now : Nat]
Sourced == [at : {"ready", "unreadable", "failed"}, kind : Connection!Kinds, now : Nat, source : Row]
Exchanged == [at : {"refreshed"}, kind : Connection!Kinds, now : Nat, source : Row, new : Nat]
Authorized == [at : {"authorized"}, now : Nat, new : Nat]
Asking == [at : {"asking"}, kind : Connection!Kinds, now : Nat, token : Nat, expected : Nat]
ConnectionCalls ==
    {Connection!Resting} \cup Begun \cup Sourced \cup Exchanged \cup Authorized \cup Asking

(* A call that works with credentials it has read, one that holds the lock *)
(* around refreshes, and one that has new tokens nobody else has.          *)
Sources(c) == c.at \in {"ready", "failed", "unreadable", "refreshed"}
Locks(c) == c.at \in {"failed", "unreadable", "refreshed"}
Brings(c) == c.at \in {"authorized", "refreshed"}

ConnectionType ==
    /\ conn \in Row /\ call \in [Procs -> ConnectionCalls] /\ refreshLock \in Procs \cup {Nothing}
    /\ clock \in Nat /\ issued \in Nat /\ good \in SUBSET (1..issued) /\ spent \in SUBSET (1..issued)
    /\ conn.token \in 0..issued

RowOK(row) == /\ row.status = "DISCONNECTED" <=> row.token = 0
              /\ row.token = 0 => row.diagnostic = 0
SourceOK(c) ==
    /\ Sources(c) => c.source.token \in 1..issued
    /\ Locks(c) => c.source.status \notin Connection!Unusable

(* New tokens are not spent, and nobody has them yet.                      *)
NewOK(p) ==
    Brings(call[p]) =>
      /\ call[p].new \in 1..issued /\ call[p].new \notin spent /\ call[p].new # conn.token
      /\ \A q \in Procs : /\ Sources(call[q]) => call[q].source.token # call[p].new
                          /\ Brings(call[q]) /\ q # p => call[q].new # call[p].new

Refreshes(t) == \E p \in Procs : call[p].at = "refreshed" /\ call[p].source.token = t

TokensSafe ==
    /\ ConnectionType
    /\ RowOK(conn)
    /\ \A p \in Procs : Locks(call[p]) => refreshLock = p
    /\ \A p \in Procs : SourceOK(call[p])
    /\ \A p \in Procs : NewOK(p)
    /\ conn.token \in spent => conn.token \in lost \/ Refreshes(conn.token)
    /\ resent \subseteq lost

LEMMA CallFields ==
    ASSUME NEW c \in ConnectionCalls
    PROVE  /\ c.at \in {"resting", "begun", "ready", "unreadable", "failed", "refreshed",
                        "authorized", "asking"}
           /\ c # Connection!Resting <=> c.at # "resting"
           /\ c.at # "resting" => c.now \in Nat
           /\ Sources(c) => c.source \in Row /\ c.kind \in Connection!Kinds
           /\ Locks(c) => Sources(c)
           /\ Brings(c) => c.new \in Nat
           /\ c.at \in {"begun", "asking"} => c.kind \in Connection!Kinds
           /\ c.at = "asking" => c.token \in Nat /\ c.expected \in Nat
<1> USE DEF Sources, Locks, Brings
<1>1. CASE c = Connection!Resting
  BY <1>1 DEF Connection!Resting
<1>2. CASE c \in Begun
  BY <1>2 DEF Connection!Resting, Begun
<1>3. CASE c \in Sourced
  BY <1>3 DEF Connection!Resting, Sourced
<1>4. CASE c \in Exchanged
  BY <1>4 DEF Connection!Resting, Exchanged
<1>5. CASE c \in Authorized
  BY <1>5 DEF Connection!Resting, Authorized
<1>6. CASE c \in Asking
  BY <1>6 DEF Connection!Resting, Asking
<1> QED  BY <1>1, <1>2, <1>3, <1>4, <1>5, <1>6 DEF ConnectionCalls

LEMMA RowFields ==
    ASSUME NEW row \in Row
    PROVE  /\ row.status \in Statuses /\ row.token \in Nat /\ row.expires \in Nat
           /\ row.updated \in Nat /\ row.diagnostic \in Nat
           /\ row.resource \in Resources \cup {Nothing}
BY DEF Row

CallTo(p, c) == call' = [call EXCEPT ![p] = c]

LEMMA CallChanges ==
    ASSUME ConnectionType, NEW p \in Procs, NEW c \in ConnectionCalls, CallTo(p, c)
    PROVE  /\ call' \in [Procs -> ConnectionCalls]
           /\ \A q \in Procs : call'[q] = IF q = p THEN c ELSE call[q]
BY DEF ConnectionType, CallTo

(* A step that exchanges no tokens.                                        *)
LEMMA TokensKept ==
    ASSUME TokensSafe, NEW p \in Procs, NEW c \in ConnectionCalls, CallTo(p, c),
           UNCHANGED <<good, issued, spent, lost>>, resent' \subseteq lost, clock' \in Nat,
           conn' \in Row, conn'.token = conn.token, RowOK(conn'),
           call[p].at # "refreshed", ~Brings(c),
           Sources(c) => c.source.token = conn.token /\ conn.token # 0,
           Locks(c) => c.source.status \notin Connection!Unusable /\ refreshLock' = p,
           refreshLock' \in Procs \cup {Nothing},
           \A q \in Procs \ {p} : refreshLock = q => refreshLock' = q
    PROVE  TokensSafe'
<1>1. /\ ConnectionType /\ call' \in [Procs -> ConnectionCalls]
      /\ \A q \in Procs : call'[q] = IF q = p THEN c ELSE call[q]
  BY CallChanges DEF TokensSafe
<1>2. ConnectionType'
  BY <1>1 DEF ConnectionType
<1>3. conn.token \in 0..issued /\ (conn.token # 0 => conn.token \in 1..issued)
  BY DEF TokensSafe, ConnectionType
<1>4. \A q \in Procs : Locks(call'[q]) => refreshLock' = q
  BY <1>1 DEF TokensSafe
<1>5. \A q \in Procs : SourceOK(call[q])'
  <2> SUFFICES ASSUME NEW q \in Procs
               PROVE  SourceOK(call[q])'
    OBVIOUS
  <2>1. CASE q = p
    BY <1>1, <1>3, <2>1 DEF SourceOK, Sources, Locks
  <2>2. CASE q # p
    BY <1>1, <2>2 DEF TokensSafe, SourceOK, Sources, Locks
  <2> QED  BY <2>1, <2>2
<1>6. \A q \in Procs : NewOK(q)'
  <2> SUFFICES ASSUME NEW q \in Procs, Brings(call'[q])
               PROVE  NewOK(q)'
    BY DEF NewOK, Brings
  <2>1. q # p /\ call'[q] = call[q] /\ Brings(call[q]) /\ NewOK(q)
    BY <1>1 DEF TokensSafe
  <2>2. /\ call[q].new \in 1..issued /\ call[q].new \notin spent /\ call[q].new # conn.token
        /\ \A r \in Procs : /\ Sources(call[r]) => call[r].source.token # call[q].new
                            /\ Brings(call[r]) /\ r # q => call[r].new # call[q].new
    BY <2>1 DEF NewOK
  <2>3. ASSUME NEW r \in Procs
        PROVE  /\ Sources(call'[r]) => call'[r].source.token # call[q].new
               /\ Brings(call'[r]) /\ r # q => call'[r].new # call[q].new
    BY <1>1, <2>2
  <2> QED  BY <2>1, <2>2, <2>3 DEF NewOK, Sources, Brings
<1>7. conn'.token \in spent' => conn'.token \in lost' \/ Refreshes(conn.token)'
  <2>1. ASSUME NEW q \in Procs, call[q].at = "refreshed", call[q].source.token = conn.token
        PROVE  call'[q] = call[q]
    BY <1>1, <2>1
  <2> QED  BY <2>1 DEF TokensSafe, Refreshes
<1> QED  BY <1>2, <1>4, <1>5, <1>6, <1>7 DEF TokensSafe, Locks, RowOK

(* The same for a step that only ends its call or begins another.          *)
LEMMA CallMoves ==
    ASSUME TokensSafe, NEW p \in Procs, NEW c \in ConnectionCalls, CallTo(p, c),
           UNCHANGED <<good, issued, spent, lost, resent, conn, refreshLock>>, clock' \in Nat,
           c.at \in {"resting", "begun", "asking"}, call[p].at # "refreshed"
    PROVE  TokensSafe'
<1>1. conn \in Row /\ refreshLock \in Procs \cup {Nothing} /\ RowOK(conn) /\ resent \subseteq lost
  BY DEF TokensSafe, ConnectionType
<1>2. ~Brings(c) /\ ~Sources(c) /\ ~Locks(c)
  BY DEF Brings, Sources, Locks
<1> QED  BY <1>1, <1>2, TokensKept

LEMMA RestTo == ASSUME NEW p, Connection!Rest(p)
                PROVE  CallTo(p, Connection!Resting) /\ Connection!Resting \in ConnectionCalls
                       /\ Connection!Resting.at = "resting"
BY DEF Connection!Rest, Connection!Resting, CallTo, ConnectionCalls

LEMMA CallMovesSafe ==
    ASSUME TokensSafe, NEW p \in Procs,
           \/ \E kind \in Connection!Kinds : Connection!Begin(p, kind)
           \/ Connection!LoadRefused(p) \/ Connection!CycleEnds(p)
           \/ Connection!AuthorizationFails(p) \/ Connection!ReadRevision(p)
    PROVE  TokensSafe'
<1>1. ConnectionType
  BY DEF TokensSafe
<1>2. ASSUME NEW kind \in Connection!Kinds, Connection!Begin(p, kind)
      PROVE  TokensSafe'
  <2> DEFINE c == [at |-> "begun", kind |-> kind, now |-> clock]
  <2>1. /\ CallTo(p, c) /\ clock' = clock + 1 /\ call[p].at = "resting"
        /\ UNCHANGED <<good, issued, spent, lost, resent, conn, refreshLock>>
    BY <1>2 DEF Connection!Begin, Connection!remote, Connection!tokens, CallTo, Connection!Resting
  <2>2. c \in ConnectionCalls /\ c.at = "begun" /\ clock + 1 \in Nat
    BY <1>1 DEF ConnectionType, ConnectionCalls, Begun
  <2> HIDE DEF c
  <2> QED  BY <2>1, <2>2, CallMoves
<1>3. ASSUME Connection!Rest(p), call[p].at # "refreshed",
             UNCHANGED <<good, issued, spent, lost, resent, conn, refreshLock, clock>>
      PROVE  TokensSafe'
  BY <1>1, <1>3, RestTo, CallMoves DEF ConnectionType
<1>4. ASSUME Connection!LoadRefused(p) \/ Connection!CycleEnds(p) \/ Connection!AuthorizationFails(p)
      PROVE  TokensSafe'
  BY <1>3, <1>4 DEF Connection!LoadRefused, Connection!CycleEnds, Connection!AuthorizationFails,
       Connection!CanLoad, Connection!WaitsForLock, Connection!remote, Connection!tokens
<1>5. ASSUME Connection!ReadRevision(p)
      PROVE  TokensSafe'
  <2>1. /\ call[p].at = "ready"
        /\ UNCHANGED <<good, issued, spent, lost, resent, conn, refreshLock, clock>>
    BY <1>5 DEF Connection!ReadRevision, Connection!remote, Connection!tokens
  <2>2. CASE conn.status \in Connection!Unusable
    BY <1>3, <1>5, <2>1, <2>2 DEF Connection!ReadRevision
  <2>3. CASE conn.status \notin Connection!Unusable
    <3> DEFINE c == [at |-> "asking", kind |-> call[p].kind, now |-> call[p].now,
                     token |-> call[p].source.token, expected |-> conn.updated]
    <3>1. CallTo(p, c)
      BY <1>1, <1>5, <2>3 DEF Connection!ReadRevision, CallTo, ConnectionType
    <3>2. c \in ConnectionCalls /\ c.at = "asking"
      <4>1. /\ call[p].kind \in Connection!Kinds /\ call[p].now \in Nat
            /\ call[p].source.token \in Nat /\ conn.updated \in Nat
        BY <1>1, <2>1, CallFields, RowFields DEF ConnectionType, Sources
      <4> QED  BY <4>1 DEF ConnectionCalls, Asking
    <3> HIDE DEF c
    <3> QED  BY <1>1, <2>1, <3>1, <3>2, CallMoves DEF ConnectionType
  <2> QED  BY <2>2, <2>3
<1> QED  BY <1>2, <1>4, <1>5

(* A call that loads the credentials, and holds the lock if need be.       *)
LEMMA LoadsSafe ==
    ASSUME TokensSafe, NEW p \in Procs,
           NEW at \in {"ready", "unreadable", "failed"}, Connection!Holding(p, at, conn),
           Connection!CanLoad(p), conn.status \notin Connection!Unusable,
           refreshLock' = IF at = "ready" THEN refreshLock ELSE p,
           UNCHANGED <<good, issued, spent, lost, conn, clock>>, resent' \subseteq lost
    PROVE  TokensSafe'
<1>1. /\ ConnectionType /\ RowOK(conn) /\ conn \in Row /\ conn.token \in Nat
      /\ call[p].at = "begun" /\ refreshLock = Nothing
  BY DEF TokensSafe, ConnectionType, Connection!CanLoad, Connection!WaitsForLock
<1> DEFINE c == [at |-> at, kind |-> call[p].kind, now |-> call[p].now, source |-> conn]
<1>2. CallTo(p, c)
  BY <1>1 DEF Connection!Holding, CallTo, ConnectionType
<1>3. call[p].kind \in Connection!Kinds /\ call[p].now \in Nat
  BY <1>1, CallFields DEF ConnectionType
<1>4. c \in ConnectionCalls /\ c.at = at /\ c.source = conn
  BY <1>1, <1>3 DEF ConnectionCalls, Sourced
<1> HIDE DEF c
<1>5. conn.token # 0
  BY <1>1 DEF RowOK, Connection!Unusable
<1>6. refreshLock' \in Procs \cup {Nothing} /\ ~Brings(c) /\ (Locks(c) => refreshLock' = p)
  BY <1>1, <1>4 DEF Brings, Locks
<1>7. \A q \in Procs \ {p} : refreshLock # q
  BY <1>1, OfficeAssumption
<1> QED  BY <1>1, <1>2, <1>4, <1>5, <1>6, <1>7, TokensKept DEF ConnectionType

(* A call that ends with a change of the row, and leaves its tokens.       *)
LEMMA RowChanges ==
    ASSUME TokensSafe, NEW p \in Procs, Connection!Rest(p), call[p].at # "refreshed",
           UNCHANGED <<good, issued, spent, lost, resent, clock>>,
           refreshLock' = refreshLock \/ (refreshLock' = Nothing /\ refreshLock = p),
           conn' \in Row, conn'.token = conn.token, RowOK(conn')
    PROVE  TokensSafe'
<1>1. /\ ConnectionType /\ resent \subseteq lost /\ ~Brings(Connection!Resting)
      /\ ~Sources(Connection!Resting) /\ ~Locks(Connection!Resting)
  BY DEF TokensSafe, Brings, Sources, Locks, Connection!Resting
<1> QED  BY <1>1, RestTo, TokensKept DEF ConnectionType

(* A new row that keeps its tokens.                                        *)
RowTo(status, updated, diagnostic, resource) ==
    conn' = [conn EXCEPT !.status = status, !.updated = updated,
                         !.diagnostic = diagnostic, !.resource = resource]

LEMMA RowToOK ==
    ASSUME conn \in Row, conn.token # 0, NEW status \in Statuses \ {"DISCONNECTED"}, NEW updated \in Nat,
           NEW diagnostic \in Nat, NEW resource \in Resources \cup {Nothing},
           RowTo(status, updated, diagnostic, resource)
    PROVE  /\ conn' \in Row /\ conn'.token = conn.token /\ conn'.expires = conn.expires
           /\ conn'.status = status /\ conn'.updated = updated
           /\ conn'.diagnostic = diagnostic /\ conn'.resource = resource
           /\ RowOK(conn')
BY DEF Row, RowOK, RowTo

LEMMA RowChangesSafe ==
    ASSUME TokensSafe, NEW p \in Procs,
           Connection!RecordFailure(p) \/ Connection!CycleRejected(p) \/ Connection!StoreDiscovery(p)
           \/ Connection!StoreDiagnostic(p) \/ Connection!Select(p) \/ Connection!Enable(p)
           \/ Connection!Disable(p)
    PROVE  TokensSafe'
<1>1. ConnectionType /\ RowOK(conn) /\ conn \in Row /\ clock \in Nat /\ call[p] \in ConnectionCalls
  BY DEF TokensSafe, ConnectionType
<1>4. /\ conn.status \in Statuses /\ conn.updated \in Nat /\ conn.diagnostic \in Nat
      /\ conn.resource \in Resources \cup {Nothing} /\ (call[p].at # "resting" => call[p].now \in Nat)
  BY <1>1, RowFields, CallFields
<1>2. Connection!Unusable = {"DISCONNECTED", "ERROR", "REFRESH_REQUIRED"}
  BY DEF Connection!Unusable
<1>3. \A r : Connection!StatusWith(r) \in {"RESOURCE_SELECTION_REQUIRED", "READY_DISABLED"}
  BY DEF Connection!StatusWith
<1>5. RowOK(conn) /\ (conn.token # 0 <=> conn.status # "DISCONNECTED")
  BY <1>1 DEF RowOK
<1>6. ASSUME Connection!RecordFailure(p)
      PROVE  TokensSafe'
  <2>1. /\ call[p].at \in {"failed", "unreadable"} /\ Connection!Rest(p) /\ refreshLock' = Nothing
        /\ UNCHANGED <<good, issued, spent, lost, resent, clock>>
    BY <1>6 DEF Connection!RecordFailure, Connection!remote, Connection!tokens
  <2>2. refreshLock = p /\ SourceOK(call[p]) /\ call[p].now \in Nat /\ Locks(call[p])
    BY <1>1, <2>1, CallFields DEF TokensSafe, Locks
  <2>3. CASE ~Connection!SameRevision(call[p].source)
    BY <1>1, <1>6, <2>1, <2>2, <2>3, RowChanges DEF Connection!RecordFailure
  <2>4. CASE Connection!SameRevision(call[p].source)
    <3> DEFINE to == IF call[p].at = "failed" THEN "REFRESH_REQUIRED" ELSE "ERROR"
    <3>1. conn.token # 0 /\ to \in Statuses \ {"DISCONNECTED"}
      BY <1>2, <1>5, <2>2, <2>4 DEF Connection!SameRevision, SourceOK, Statuses
    <3>2. RowTo(to, call[p].now, conn.diagnostic, conn.resource)
      BY <1>1, <1>6, <2>4 DEF Connection!RecordFailure, Row, RowTo
    <3> HIDE DEF to
    <3>3. conn' \in Row /\ conn'.token = conn.token /\ RowOK(conn')
      BY <1>1, <1>3, <1>4, <2>1, <3>1, <3>2, RowToOK DEF Statuses
    <3> QED  BY <2>1, <2>2, <3>3, RowChanges
  <2> QED  BY <2>3, <2>4
<1>7. ASSUME Connection!CycleRejected(p)
      PROVE  TokensSafe'
  <2>1. /\ call[p].at = "ready" /\ Connection!Rest(p)
        /\ UNCHANGED <<good, issued, spent, lost, resent, clock, refreshLock>>
    BY <1>7 DEF Connection!CycleRejected, Connection!remote, Connection!tokens
  <2>2. CASE ~Connection!SameRevision(call[p].source)
    BY <1>1, <1>7, <2>1, <2>2, RowChanges DEF Connection!CycleRejected
  <2>3. CASE Connection!SameRevision(call[p].source)
    <3>1. conn.token # 0 /\ Connection!Later(clock, conn) \in Nat
      BY <1>1, <2>1, <2>3, RowFields DEF Connection!SameRevision, Connection!Later, TokensSafe,
           SourceOK, Sources
    <3>2. RowTo("REFRESH_REQUIRED", Connection!Later(clock, conn), conn.diagnostic, conn.resource)
      BY <1>1, <1>7, <2>3 DEF Connection!CycleRejected, Row, RowTo
    <3>3. conn' \in Row /\ conn'.token = conn.token /\ RowOK(conn')
      BY <1>1, <1>3, <1>4, <2>1, <3>1, <3>2, RowToOK DEF Statuses
    <3> QED  BY <2>1, <3>3, RowChanges
  <2> QED  BY <2>2, <2>3
<1>8. ASSUME Connection!StoreDiscovery(p)
      PROVE  TokensSafe'
  <2>1. /\ call[p].at = "asking" /\ Connection!Rest(p)
        /\ UNCHANGED <<good, issued, spent, lost, resent, clock, refreshLock>>
    BY <1>8 DEF Connection!StoreDiscovery, Connection!remote, Connection!tokens
  <2>2. CASE ~Connection!Expected(p)
    BY <1>1, <1>8, <2>1, <2>2, RowChanges DEF Connection!StoreDiscovery
  <2>3. CASE Connection!Expected(p)
    <3>1. PICK r \in Connection!Discovered :
            conn' = [conn EXCEPT !.status = Connection!StatusWith(r), !.resource = r,
                                 !.diagnostic = 0, !.updated = call[p].now]
      BY <1>8, <2>3 DEF Connection!StoreDiscovery
    <3>2. /\ RowTo(Connection!StatusWith(r), call[p].now, 0, r)
          /\ r \in Resources \cup {Nothing} /\ call[p].now \in Nat /\ conn.token # 0
      BY <1>1, <1>2, <1>4, <1>5, <2>1, <2>3, <3>1 DEF Row, RowTo, Connection!Expected, Connection!Discovered
    <3>3. conn' \in Row /\ conn'.token = conn.token /\ RowOK(conn')
      BY <1>1, <1>3, <1>4, <2>1, <3>1, <3>2, RowToOK DEF Statuses
    <3> QED  BY <2>1, <3>3, RowChanges
  <2> QED  BY <2>2, <2>3
<1>9. ASSUME Connection!StoreDiagnostic(p)
      PROVE  TokensSafe'
  <2>1. /\ call[p].at = "asking" /\ Connection!Rest(p)
        /\ UNCHANGED <<good, issued, spent, lost, resent, clock, refreshLock>>
    BY <1>9 DEF Connection!StoreDiagnostic, Connection!remote, Connection!tokens
  <2>2. CASE ~Connection!Expected(p)
    BY <1>1, <1>9, <2>1, <2>2, RowChanges DEF Connection!StoreDiagnostic
  <2>3. CASE Connection!Expected(p)
    <3>1. PICK d \in {0, call[p].now} : conn' = [conn EXCEPT !.diagnostic = d]
      BY <1>9, <2>3 DEF Connection!StoreDiagnostic
    <3>2. RowTo(conn.status, conn.updated, d, conn.resource)
      BY <1>1, <3>1 DEF Row, RowTo
    <3>3. d \in Nat
      BY <1>4, <2>1
    <3>4. conn.token # 0 /\ conn.status \in Statuses \ {"DISCONNECTED"}
      BY <1>2, <1>4, <1>5, <2>3 DEF Connection!Expected
    <3>5. conn' \in Row /\ conn'.token = conn.token /\ RowOK(conn')
      BY <1>1, <1>4, <3>2, <3>3, <3>4, RowToOK
    <3> QED  BY <2>1, <3>5, RowChanges
  <2> QED  BY <2>2, <2>3
<1>10. ASSUME Connection!Select(p)
       PROVE  TokensSafe'
  <2>1. /\ call[p].at = "begun" /\ Connection!Rest(p)
        /\ UNCHANGED <<good, issued, spent, lost, resent, clock, refreshLock>>
    BY <1>10 DEF Connection!Select, Connection!remote, Connection!tokens
  <2>2. CASE conn.status \in Connection!Unusable
    BY <1>1, <1>10, <2>1, <2>2, RowChanges DEF Connection!Select
  <2>3. CASE conn.status \notin Connection!Unusable
    <3>1. PICK r \in Resources :
            conn' = [conn EXCEPT !.status = "READY_DISABLED", !.resource = r,
                                 !.diagnostic = 0, !.updated = call[p].now]
      BY <1>10, <2>3 DEF Connection!Select
    <3>2. /\ RowTo("READY_DISABLED", call[p].now, 0, r)
          /\ call[p].now \in Nat /\ conn.token # 0
      BY <1>1, <1>2, <1>4, <1>5, <2>1, <2>3, <3>1 DEF Row, RowTo
    <3>3. conn' \in Row /\ conn'.token = conn.token /\ RowOK(conn')
      BY <1>1, <1>3, <1>4, <2>1, <3>1, <3>2, RowToOK DEF Statuses
    <3> QED  BY <2>1, <3>3, RowChanges
  <2> QED  BY <2>2, <2>3
<1>11. ASSUME Connection!Enable(p) \/ Connection!Disable(p)
       PROVE  TokensSafe'
  <2>1. /\ call[p].at \in {"ready", "begun"} /\ Connection!Rest(p)
        /\ UNCHANGED <<good, issued, spent, lost, resent, clock, refreshLock>>
    BY <1>11 DEF Connection!Enable, Connection!Disable, Connection!remote, Connection!tokens
  <2>2. CASE conn' = conn
    BY <1>1, <2>1, <2>2, RowChanges
  <2>3. CASE conn' # conn
    <3>1. PICK to \in Statuses \ {"DISCONNECTED"} : conn' = [conn EXCEPT !.status = to] /\ conn.token # 0
      <4>1. CASE Connection!Enable(p)
        BY <1>1, <2>3, <4>1 DEF Connection!Enable, Connection!Diagnosed, RowOK, Statuses
      <4>2. CASE Connection!Disable(p)
        <5>1. /\ conn.status # "DISCONNECTED"
              /\ conn' = [conn EXCEPT !.status = Connection!StatusWith(conn.resource)]
          BY <2>3, <4>2 DEF Connection!Disable
        <5>2. Connection!StatusWith(conn.resource) \in Statuses \ {"DISCONNECTED"}
          BY <1>3 DEF Statuses
        <5> QED  BY <1>5, <5>1, <5>2
      <4> QED  BY <1>11, <4>1, <4>2
    <3>2. RowTo(to, conn.updated, conn.diagnostic, conn.resource)
      BY <1>1, <3>1 DEF Row, RowTo
    <3>3. conn' \in Row /\ conn'.token = conn.token /\ RowOK(conn')
      BY <1>1, <1>3, <1>4, <2>1, <3>1, <3>2, RowToOK DEF Statuses
    <3> QED  BY <2>1, <3>3, RowChanges
  <2> QED  BY <2>2, <2>3
<1> QED  BY <1>6, <1>7, <1>8, <1>9, <1>10, <1>11

(* A step that exchanges tokens, or leaves them, told by what it must      *)
(* respect: the tokens that other calls bring stay theirs.                 *)
LEMMA TokensMove ==
    ASSUME TokensSafe, NEW p \in Procs, NEW c \in ConnectionCalls, CallTo(p, c),
           conn' \in Row, RowOK(conn'), clock' \in Nat, issued' \in Nat, issued <= issued',
           good' \in SUBSET (1..issued'), spent' \in SUBSET (1..issued'), conn'.token \in 0..issued',
           refreshLock' \in Procs \cup {Nothing}, Locks(c) => refreshLock' = p,
           \A q \in Procs \ {p} : refreshLock = q => refreshLock' = q,
           Sources(c) => c.source.token \in 1..issued',
           Locks(c) => c.source.status \notin Connection!Unusable,
           \A q \in Procs \ {p} : Brings(call[q]) =>
              /\ call[q].new \notin spent' /\ call[q].new # conn'.token
              /\ Sources(c) => c.source.token # call[q].new
              /\ Brings(c) => c.new # call[q].new,
           Brings(c) => /\ c.new \in 1..issued' /\ c.new \notin spent' /\ c.new # conn'.token
                        /\ Sources(c) => c.source.token # c.new
                        /\ \A q \in Procs \ {p} : Sources(call[q]) => call[q].source.token # c.new,
           conn'.token \in spent' =>
              \/ conn'.token \in lost'
              \/ c.at = "refreshed" /\ c.source.token = conn'.token
              \/ \E q \in Procs \ {p} : call[q].at = "refreshed" /\ call[q].source.token = conn'.token,
           resent' \subseteq lost'
    PROVE  TokensSafe'
<1>1. /\ ConnectionType /\ issued \in Nat /\ call' \in [Procs -> ConnectionCalls]
      /\ \A q \in Procs : call'[q] = IF q = p THEN c ELSE call[q]
  BY CallChanges DEF TokensSafe, ConnectionType
<1>2. ConnectionType'
  BY <1>1 DEF ConnectionType
<1>3. \A t \in 1..issued : t \in 1..issued'
  BY <1>1
<1>4. \A q \in Procs : Locks(call'[q]) => refreshLock' = q
  BY <1>1 DEF TokensSafe
<1>5. \A q \in Procs : SourceOK(call[q])'
  <2> SUFFICES ASSUME NEW q \in Procs
               PROVE  SourceOK(call[q])'
    OBVIOUS
  <2>1. CASE q = p
    BY <1>1, <2>1 DEF SourceOK, Sources, Locks
  <2>2. CASE q # p
    BY <1>1, <1>3, <2>2 DEF TokensSafe, SourceOK, Sources, Locks
  <2> QED  BY <2>1, <2>2
<1>6. \A q \in Procs : NewOK(q)'
  <2> SUFFICES ASSUME NEW q \in Procs, Brings(call'[q])
               PROVE  NewOK(q)'
    BY DEF NewOK, Brings
  <2>1. CASE q = p
    <3>1. call'[q] = c /\ Brings(c)
      BY <1>1, <2>1
    <3>2. /\ c.new \in 1..issued' /\ c.new \notin spent' /\ c.new # conn'.token
          /\ Sources(c) => c.source.token # c.new
          /\ \A r \in Procs \ {p} : Sources(call[r]) => call[r].source.token # c.new
          /\ \A r \in Procs \ {p} : Brings(call[r]) => c.new # call[r].new
      BY <3>1
    <3>3. ASSUME NEW r \in Procs
          PROVE  /\ Sources(call'[r]) => call'[r].source.token # c.new
                 /\ Brings(call'[r]) /\ r # q => call'[r].new # c.new
      BY <1>1, <2>1, <3>2
    <3> QED  BY <3>1, <3>2, <3>3 DEF NewOK, Sources, Brings
  <2>2. CASE q # p
    <3>1. call'[q] = call[q] /\ Brings(call[q]) /\ NewOK(q)
      BY <1>1, <2>2 DEF TokensSafe
    <3>2. /\ call[q].new \in 1..issued
          /\ \A r \in Procs : /\ Sources(call[r]) => call[r].source.token # call[q].new
                              /\ Brings(call[r]) /\ r # q => call[r].new # call[q].new
      BY <3>1 DEF NewOK
    <3>3. /\ call[q].new \notin spent' /\ call[q].new # conn'.token
          /\ Sources(c) => c.source.token # call[q].new
          /\ Brings(c) => c.new # call[q].new
      BY <2>2, <3>1
    <3>4. ASSUME NEW r \in Procs
          PROVE  /\ Sources(call'[r]) => call'[r].source.token # call[q].new
                 /\ Brings(call'[r]) /\ r # q => call'[r].new # call[q].new
      BY <1>1, <3>2, <3>3
    <3> QED  BY <1>3, <3>1, <3>2, <3>3, <3>4 DEF NewOK, Sources, Brings
  <2> QED  BY <2>1, <2>2
<1>7. conn'.token \in spent' => conn'.token \in lost' \/ Refreshes(conn.token)'
  <2>1. \A q \in Procs \ {p} : call'[q] = call[q]
    BY <1>1
  <2> QED  BY <1>1, <2>1 DEF Refreshes
<1> QED  BY <1>2, <1>4, <1>5, <1>6, <1>7 DEF TokensSafe, Locks, RowOK

(* What the tokens of the connection and of the calls have to do with each *)
(* other, for the steps that exchange them.                                *)
LEMMA TokenFacts ==
    ASSUME TokensSafe
    PROVE  /\ ConnectionType /\ RowOK(conn) /\ conn \in Row /\ clock \in Nat /\ issued \in Nat
           /\ good \in SUBSET (1..issued) /\ spent \in SUBSET (1..issued)
           /\ conn.token \in 0..issued /\ (conn.token # 0 => conn.token \in 1..issued)
           /\ refreshLock \in Procs \cup {Nothing} /\ resent \subseteq lost
           /\ \A q \in Procs : call[q] \in ConnectionCalls
           /\ \A q \in Procs : Sources(call[q]) => call[q].source.token \in 1..issued
           /\ \A q \in Procs : Brings(call[q]) =>
                /\ call[q].new \in 1..issued /\ call[q].new \notin spent /\ call[q].new # conn.token
                /\ \A r \in Procs : /\ Sources(call[r]) => call[r].source.token # call[q].new
                                    /\ Brings(call[r]) /\ r # q => call[r].new # call[q].new
BY DEF TokensSafe, ConnectionType, SourceOK, NewOK

(* Loading the credentials, with the ways in which no refresh is answered. *)
LEMMA LoadingSafe ==
    ASSUME TokensSafe, NEW p \in Procs,
           Connection!LoadUsable(p) \/ Connection!LoadUnreadable(p) \/ Connection!RefreshTokenExpired(p)
    PROVE  TokensSafe'
<1>1. resent \subseteq lost
  BY TokenFacts
<1>2. ASSUME Connection!LoadUsable(p)
      PROVE  TokensSafe'
  <2>1. /\ Connection!Holding(p, "ready", conn) /\ Connection!CanLoad(p) /\ refreshLock' = refreshLock
        /\ conn.status \notin Connection!Unusable
        /\ UNCHANGED <<good, issued, spent, lost, resent, conn, clock>>
    BY <1>2 DEF Connection!LoadUsable, Connection!Proceed, Connection!Holding, Connection!remote,
         Connection!tokens
  <2> QED  BY <1>1, <2>1, LoadsSafe
<1>3. ASSUME Connection!LoadUnreadable(p)
      PROVE  TokensSafe'
  <2>1. /\ Connection!Holding(p, "unreadable", conn) /\ Connection!CanLoad(p) /\ refreshLock' = p
        /\ conn.status \notin Connection!Unusable
        /\ UNCHANGED <<good, issued, spent, lost, resent, conn, clock>>
    BY <1>3 DEF Connection!LoadUnreadable, Connection!remote, Connection!tokens
  <2> QED  BY <1>1, <2>1, LoadsSafe
<1>4. ASSUME Connection!RefreshTokenExpired(p)
      PROVE  TokensSafe'
  <2>1. /\ Connection!Holding(p, "failed", conn) /\ Connection!CanLoad(p) /\ refreshLock' = p
        /\ conn.status \notin Connection!Unusable
        /\ UNCHANGED <<good, issued, spent, lost, resent, conn, clock>>
    BY <1>4 DEF Connection!RefreshTokenExpired, Connection!remote, Connection!tokens
  <2> QED  BY <1>1, <2>1, LoadsSafe
<1> QED  BY <1>2, <1>3, <1>4

(* While the lock is free, a spent token of the connection was lost.       *)
LEMMA FreeLockLost ==
    ASSUME TokensSafe, refreshLock = Nothing, conn.token \in spent
    PROVE  conn.token \in lost
BY OfficeAssumption DEF TokensSafe, Refreshes, Locks

(* Sending the refresh token, answered or not.                             *)
LEMMA CallRefreshSafe ==
    ASSUME TokensSafe, NEW p \in Procs, Connection!CallRefresh(p)
    PROVE  TokensSafe'
<1>1. /\ Connection!CanLoad(p) /\ conn.status \notin Connection!Unusable /\ refreshLock' = p
      /\ resent' = resent \cup ({conn.token} \cap spent) /\ UNCHANGED <<conn, clock>>
      /\ call[p].at = "begun" /\ refreshLock = Nothing
  BY DEF Connection!CallRefresh, Connection!CanLoad, Connection!WaitsForLock
<1>2. \A q \in Procs \ {p} : refreshLock # q
  BY <1>1, OfficeAssumption
<1>3. resent' \subseteq lost
  BY <1>1, FreeLockLost, TokenFacts
<1>4. conn.token \in 1..issued /\ conn.status \notin Connection!Unusable
  BY <1>1, TokenFacts DEF RowOK, Connection!Unusable
<1>5. call[p].kind \in Connection!Kinds /\ call[p].now \in Nat /\ conn \in Row
  BY <1>1, CallFields, TokenFacts
<1>6. CASE Connection!Holding(p, "failed", conn) /\ UNCHANGED <<good, issued, spent, lost>>
  BY <1>1, <1>3, <1>6, LoadsSafe
<1>7. ASSUME NEW c \in ConnectionCalls, CallTo(p, c), c.at \in {"refreshed", "failed"},
             c.source = conn, c.at = "refreshed" => c.new = issued + 1,
             issued' = issued + 1, spent' = spent \cup {conn.token},
             good' = (good \ {conn.token}) \cup {issued'}, lost \subseteq lost',
             c.at = "failed" => conn.token \in lost'
      PROVE  TokensSafe'
  <2>1. /\ issued' \in Nat /\ issued <= issued' /\ good' \in SUBSET (1..issued')
        /\ spent' \in SUBSET (1..issued') /\ conn.token \in 0..issued' /\ conn.token \in 1..issued'
        /\ issued + 1 \in 1..issued' /\ issued + 1 \notin 1..issued
    BY <1>4, <1>7, TokenFacts
  <2>2. ASSUME NEW q \in Procs \ {p}, Brings(call[q])
        PROVE  /\ call[q].new \notin spent' /\ call[q].new # conn.token /\ c.source.token # call[q].new
               /\ Brings(c) => c.new # call[q].new
    BY <1>7, <2>1, <2>2, TokenFacts DEF Brings
  <2>3. Brings(c) => /\ c.new \in 1..issued' /\ c.new \notin spent' /\ c.new # conn.token
                     /\ c.source.token # c.new
                     /\ \A q \in Procs \ {p} : Sources(call[q]) => call[q].source.token # c.new
    BY <1>4, <1>7, <2>1, TokenFacts DEF Brings
  <2>4. Sources(c) /\ Locks(c) /\ refreshLock' \in Procs \cup {Nothing} /\ resent' \subseteq lost'
    BY <1>1, <1>3, <1>7 DEF Sources, Locks
  <2>5. RowOK(conn') /\ conn' \in Row /\ clock' \in Nat /\ conn' = conn
    BY <1>1, TokenFacts
  <2>6. conn.token \in lost' \/ (c.at = "refreshed" /\ c.source.token = conn.token)
    BY <1>7
  <2> QED  BY <1>1, <1>2, <1>4, <1>7, <2>1, <2>2, <2>3, <2>4, <2>5, <2>6, TokensMove
<1>8. ASSUME issued' = issued + 1, spent' = spent \cup {conn.token},
             good' = (good \ {conn.token}) \cup {issued'}, UNCHANGED lost,
             call' = [call EXCEPT ![p] = [at |-> "refreshed", kind |-> @.kind, now |-> @.now,
                                          source |-> conn, new |-> issued']]
      PROVE  TokensSafe'
  <2> DEFINE c == [at |-> "refreshed", kind |-> call[p].kind, now |-> call[p].now,
                   source |-> conn, new |-> issued + 1]
  <2>1. CallTo(p, c)
    BY <1>8, TokenFacts DEF CallTo, ConnectionType
  <2>2. c \in ConnectionCalls /\ c.at = "refreshed" /\ c.source = conn /\ c.new = issued + 1
    BY <1>5, TokenFacts DEF ConnectionCalls, Exchanged
  <2> HIDE DEF c
  <2> QED  BY <1>7, <1>8, <2>1, <2>2
<1>9. ASSUME issued' = issued + 1, spent' = spent \cup {conn.token},
             good' = (good \ {conn.token}) \cup {issued'}, lost' = lost \cup {conn.token},
             Connection!Holding(p, "failed", conn)
      PROVE  TokensSafe'
  <2> DEFINE c == [at |-> "failed", kind |-> call[p].kind, now |-> call[p].now, source |-> conn]
  <2>1. CallTo(p, c)
    BY <1>9, TokenFacts DEF CallTo, ConnectionType, Connection!Holding
  <2>2. c \in ConnectionCalls /\ c.at = "failed" /\ c.source = conn
    BY <1>5 DEF ConnectionCalls, Sourced
  <2> HIDE DEF c
  <2> QED  BY <1>7, <1>9, <2>1, <2>2
<1> QED  BY <1>6, <1>8, <1>9 DEF Connection!CallRefresh

(* The answer to a refresh is stored, or found to be too late.             *)
LEMMA StoreRefreshedSafe ==
    ASSUME TokensSafe, NEW p \in Procs, Connection!StoreRefreshed(p)
    PROVE  TokensSafe'
<1>1. /\ call[p].at = "refreshed" /\ refreshLock' = Nothing
      /\ UNCHANGED <<clock, good, issued, spent, lost, resent>>
      /\ conn' = IF conn.token = call[p].source.token
                 THEN [conn EXCEPT !.token = call[p].new, !.expires = call[p].now + Life]
                 ELSE conn
      /\ IF conn'.token = 0 THEN Connection!Rest(p) ELSE Connection!Proceed(p, conn')
  BY DEF Connection!StoreRefreshed, Connection!remote, Connection!tokens
<1>2. /\ call[p].kind \in Connection!Kinds /\ call[p].now \in Nat /\ call[p].new \in Nat
      /\ Sources(call[p]) /\ Locks(call[p]) /\ Brings(call[p])
  BY <1>1, CallFields, TokenFacts DEF Sources, Locks, Brings
<1>3. /\ refreshLock = p /\ call[p].source.token \in 1..issued
      /\ call[p].new \in 1..issued /\ call[p].new \notin spent
      /\ \A q \in Procs \ {p} : Brings(call[q]) => call[q].new # call[p].new
  BY <1>2, TokenFacts DEF TokensSafe
<1>4. /\ conn' \in Row /\ RowOK(conn') /\ conn'.token \in 0..issued
      /\ conn'.token = conn.token \/ (conn'.token = call[p].new /\ conn.token = call[p].source.token)
      /\ conn.token # call[p].source.token => conn'.token = conn.token
      /\ conn.token = call[p].source.token => conn'.token = call[p].new
  <2>1. CASE conn.token = call[p].source.token
    <3>1. conn' = [conn EXCEPT !.token = call[p].new, !.expires = call[p].now + Life]
      BY <1>1, <2>1
    <3>2. conn.token # 0 /\ call[p].new # 0 /\ call[p].now + Life \in Nat
      BY <1>2, <1>3, <2>1, OfficeAssumption, TokenFacts
    <3>3. conn' \in Row /\ conn'.token = call[p].new /\ conn'.status = conn.status
      BY <1>2, <3>1, <3>2, TokenFacts DEF Row
    <3> QED  BY <1>3, <2>1, <3>2, <3>3, TokenFacts DEF RowOK
  <2>2. CASE conn.token # call[p].source.token
    BY <1>1, <2>2, TokenFacts
  <2> QED  BY <2>1, <2>2
<1>5. \A q \in Procs \ {p} : refreshLock # q
  BY <1>3
<1>6. ASSUME conn'.token \in spent
      PROVE  conn'.token \in lost
  <2>1. conn'.token = conn.token /\ conn.token # call[p].source.token
    BY <1>3, <1>4, <1>6
  <2>2. \A q \in Procs : call[q].at = "refreshed" => q = p
    BY <1>5 DEF TokensSafe, Locks
  <2> QED  BY <1>6, <2>1, <2>2 DEF TokensSafe, Refreshes
<1>7. \A q \in Procs \ {p} : Brings(call[q]) =>
         call[q].new \notin spent /\ call[q].new # conn'.token
  BY <1>3, <1>4, TokenFacts
<1>8. ASSUME NEW c \in ConnectionCalls, CallTo(p, c), c.at \in {"resting", "ready"},
             c.at = "ready" => c.source = conn' /\ conn'.token # 0
      PROVE  TokensSafe'
  <2>1. ~Locks(c) /\ ~Brings(c) /\ (Sources(c) => c.at = "ready")
    BY <1>8 DEF Sources, Locks, Brings
  <2>2. Sources(c) => c.source.token = conn'.token /\ c.source.token \in 1..issued
    BY <1>3, <1>4, <1>8, <2>1, TokenFacts
  <2>3. issued <= issued' /\ refreshLock' \in Procs \cup {Nothing}
    BY <1>1, TokenFacts
  <2>4. /\ conn' \in Row /\ RowOK(conn') /\ clock' \in Nat /\ issued' \in Nat
        /\ good' \in SUBSET (1..issued') /\ spent' \in SUBSET (1..issued') /\ conn'.token \in 0..issued'
        /\ resent' \subseteq lost'
    BY <1>1, <1>4, TokenFacts
  <2>5. \A q \in Procs \ {p} : Brings(call[q]) =>
              /\ call[q].new \notin spent' /\ call[q].new # conn'.token
              /\ Sources(c) => c.source.token # call[q].new
              /\ Brings(c) => c.new # call[q].new
    BY <1>1, <1>7, <2>1, <2>2
  <2> QED  BY <1>1, <1>5, <1>6, <1>8, <2>1, <2>2, <2>3, <2>4, <2>5, TokensMove
<1>9. CASE conn'.token = 0
  BY <1>1, <1>8, <1>9, RestTo
<1>10. CASE conn'.token # 0
  <2> DEFINE c == [at |-> "ready", kind |-> call[p].kind, now |-> call[p].now, source |-> conn']
  <2>1. CallTo(p, c)
    BY <1>1, <1>10, TokenFacts DEF CallTo, ConnectionType, Connection!Proceed
  <2>2. c \in ConnectionCalls /\ c.at = "ready" /\ c.source = conn'
    BY <1>2, <1>4 DEF ConnectionCalls, Sourced
  <2> HIDE DEF c
  <2> QED  BY <1>8, <1>10, <2>1, <2>2
<1> QED  BY <1>9, <1>10

(* An administrator's code is exchanged for tokens.                        *)
LEMMA AuthorizeSafe ==
    ASSUME TokensSafe, NEW p \in Procs, Connection!Authorize(p)
    PROVE  TokensSafe'
<1> DEFINE c == [at |-> "authorized", now |-> call[p].now, new |-> issued + 1]
<1>1. /\ call[p].at = "begun" /\ issued' = issued + 1 /\ good' = good \cup {issued'}
      /\ UNCHANGED <<conn, refreshLock, clock, spent, resent, lost>> /\ CallTo(p, c)
  BY TokenFacts DEF Connection!Authorize, CallTo, ConnectionType
<1>2. c \in ConnectionCalls /\ c.at = "authorized" /\ c.new = issued + 1
  <2>1. call[p].now \in Nat
    BY <1>1, CallFields, TokenFacts
  <2> QED  BY <2>1, TokenFacts DEF ConnectionCalls, Authorized
<1> HIDE DEF c
<1>3. /\ issued' \in Nat /\ issued <= issued' /\ good' \in SUBSET (1..issued')
      /\ spent' \in SUBSET (1..issued') /\ conn.token \in 0..issued'
      /\ issued + 1 \in 1..issued' /\ issued + 1 \notin 1..issued /\ issued + 1 # 0
  BY <1>1, TokenFacts
<1>4. Brings(c) /\ ~Sources(c) /\ ~Locks(c)
  BY <1>2 DEF Brings, Sources, Locks
<1>5. \A q \in Procs \ {p} : Brings(call[q]) =>
              /\ call[q].new \notin spent' /\ call[q].new # conn'.token
              /\ c.new # call[q].new
  BY <1>1, <1>2, <1>3, TokenFacts
<1>6. /\ c.new \in 1..issued' /\ c.new \notin spent' /\ c.new # conn'.token
      /\ \A q \in Procs \ {p} : Sources(call[q]) => call[q].source.token # c.new
  BY <1>1, <1>2, <1>3, TokenFacts
<1>7. conn'.token \in spent' =>
         conn'.token \in lost'
         \/ \E q \in Procs \ {p} : call[q].at = "refreshed" /\ call[q].source.token = conn'.token
  BY <1>1 DEF TokensSafe, Refreshes
<1>8. /\ conn' \in Row /\ RowOK(conn') /\ clock' \in Nat /\ resent' \subseteq lost'
      /\ refreshLock' \in Procs \cup {Nothing} /\ conn'.token \in 0..issued'
      /\ \A q \in Procs \ {p} : refreshLock = q => refreshLock' = q
  BY <1>1, <1>3, TokenFacts
<1> QED  BY <1>1, <1>2, <1>3, <1>4, <1>5, <1>6, <1>7, <1>8, TokensMove

(* A call ends and leaves a row with its own tokens, or with none.         *)
LEMMA EndsWithRow ==
    ASSUME TokensSafe, NEW p \in Procs, Connection!Rest(p),
           conn' \in Row, RowOK(conn'), conn'.token = 0 \/ (Brings(call[p]) /\ conn'.token = call[p].new),
           UNCHANGED <<good, issued, spent, lost, resent, clock, refreshLock>>
    PROVE  TokensSafe'
<1> DEFINE c == Connection!Resting
<1>1. /\ CallTo(p, c) /\ c \in ConnectionCalls /\ ~Brings(c) /\ ~Sources(c) /\ ~Locks(c)
  BY RestTo DEF Brings, Sources, Locks, Connection!Resting
<1> HIDE DEF c
<1>2. conn'.token \in 0..issued' /\ conn'.token \notin spent' /\ issued <= issued'
  BY TokenFacts
<1>3. \A q \in Procs \ {p} : Brings(call[q]) => call[q].new \notin spent' /\ call[q].new # conn'.token
  BY TokenFacts
<1>4. /\ clock' \in Nat /\ issued' \in Nat /\ resent' \subseteq lost'
      /\ good' \in SUBSET (1..issued') /\ spent' \in SUBSET (1..issued')
      /\ refreshLock' \in Procs \cup {Nothing} /\ \A q \in Procs \ {p} : refreshLock = q => refreshLock' = q
  BY TokenFacts
<1> QED  BY <1>1, <1>2, <1>3, <1>4, TokensMove

LEMMA EndsSafe ==
    ASSUME TokensSafe, NEW p \in Procs, Connection!StoreAuthorization(p) \/ Connection!Disconnect(p)
    PROVE  TokensSafe'
<1>1. \A r : Connection!StatusWith(r) \in Statuses \ {"DISCONNECTED"}
  BY DEF Connection!StatusWith, Statuses
<1>2. ASSUME Connection!StoreAuthorization(p)
      PROVE  TokensSafe'
  <2>1. PICK r \in Resources \cup {Nothing} :
          conn' = [status |-> Connection!StatusWith(r), token |-> call[p].new,
                   expires |-> call[p].now + Life, updated |-> call[p].now, diagnostic |-> 0, resource |-> r]
    BY <1>2 DEF Connection!StoreAuthorization, Connection!Discovered
  <2>2. /\ call[p].at = "authorized" /\ Connection!Rest(p)
        /\ UNCHANGED <<good, issued, spent, lost, resent, clock, refreshLock>>
    BY <1>2 DEF Connection!StoreAuthorization, Connection!remote, Connection!tokens
  <2>3. Brings(call[p]) /\ call[p].new \in 1..issued /\ call[p].now \in Nat
    BY <2>2, TokenFacts, CallFields DEF Brings
  <2>4. call[p].new \in Nat /\ call[p].new # 0 /\ call[p].now + Life \in Nat
    BY <2>3, OfficeAssumption, TokenFacts
  <2>5. conn' \in Row /\ RowOK(conn') /\ conn'.token = call[p].new
    BY <1>1, <2>1, <2>3, <2>4 DEF Row, RowOK
  <2> QED  BY <2>2, <2>3, <2>5, EndsWithRow
<1>3. ASSUME Connection!Disconnect(p)
      PROVE  TokensSafe'
  <2>1. /\ call[p].at = "begun" /\ Connection!Rest(p)
        /\ UNCHANGED <<good, issued, spent, lost, resent, clock, refreshLock>>
    BY <1>3 DEF Connection!Disconnect, Connection!remote, Connection!tokens
  <2>2. CASE conn.status = "DISCONNECTED"
    BY <1>3, <2>1, <2>2, RowChanges, TokenFacts DEF Connection!Disconnect
  <2>3. CASE conn.status # "DISCONNECTED"
    <3>1. conn' = [status |-> "DISCONNECTED", token |-> 0, expires |-> 0, updated |-> call[p].now,
                   diagnostic |-> 0, resource |-> Nothing]
      BY <1>3, <2>3 DEF Connection!Disconnect, Connection!Disconnected
    <3>2. call[p].now \in Nat
      BY <2>1, TokenFacts, CallFields
    <3>3. conn' \in Row /\ RowOK(conn') /\ conn'.token = 0
      BY <3>1, <3>2 DEF Row, RowOK, Statuses
    <3> QED  BY <2>1, <3>3, EndsWithRow
  <2> QED  BY <2>2, <2>3
<1> QED  BY <1>2, <1>3

(* A crash forgets tokens that were exchanged and not stored.              *)
LEMMA CrashSafe ==
    ASSUME TokensSafe, NEW p \in Procs, Connection!Crash(p)
    PROVE  TokensSafe'
<1> DEFINE c == Connection!Resting
<1>1. /\ Connection!Rest(p) /\ UNCHANGED <<conn, clock, good, issued, spent, resent>>
      /\ lost' = IF call[p].at = "refreshed" THEN lost \cup {call[p].source.token} ELSE lost
      /\ refreshLock' = IF refreshLock = p THEN Nothing ELSE refreshLock
  BY DEF Connection!Crash
<1>2. /\ CallTo(p, c) /\ c \in ConnectionCalls /\ ~Brings(c) /\ ~Sources(c) /\ ~Locks(c)
  BY <1>1, RestTo DEF Brings, Sources, Locks, Connection!Resting
<1> HIDE DEF c
<1>3. conn'.token \in spent' =>
         \/ conn'.token \in lost'
         \/ \E q \in Procs \ {p} : call[q].at = "refreshed" /\ call[q].source.token = conn'.token
  BY <1>1 DEF TokensSafe, Refreshes
<1>4. \A q \in Procs \ {p} : Brings(call[q]) => call[q].new \notin spent' /\ call[q].new # conn'.token
  BY <1>1, TokenFacts
<1>5. /\ clock' \in Nat /\ issued' \in Nat /\ resent' \subseteq lost' /\ issued <= issued'
      /\ good' \in SUBSET (1..issued') /\ spent' \in SUBSET (1..issued')
      /\ refreshLock' \in Procs \cup {Nothing} /\ \A q \in Procs \ {p} : refreshLock = q => refreshLock' = q
      /\ conn' \in Row /\ RowOK(conn') /\ conn'.token \in 0..issued'
  BY <1>1, TokenFacts
<1> QED  BY <1>2, <1>3, <1>4, <1>5, TokensMove

LEMMA TokensInit == Connection!Init => TokensSafe
<1> SUFFICES ASSUME Connection!Init PROVE TokensSafe
  OBVIOUS
<1>1. /\ conn = [status |-> "DISCONNECTED", token |-> 0, expires |-> 0, updated |-> 0,
                 diagnostic |-> 0, resource |-> Nothing]
      /\ call = [q \in Procs |-> [at |-> "resting"]]
      /\ refreshLock = Nothing /\ clock = 1 /\ good = {} /\ issued = 0 /\ spent = {} /\ resent = {}
  BY DEF Connection!Init, Connection!Disconnected, Connection!Resting
<1>2. conn \in Row /\ RowOK(conn) /\ conn.token \in 0..issued
  BY <1>1 DEF Row, RowOK, Statuses
<1>3. ConnectionType
  BY <1>1, <1>2 DEF ConnectionType, ConnectionCalls, Connection!Resting
<1>4. \A q \in Procs : ~Brings(call[q]) /\ ~Sources(call[q]) /\ ~Locks(call[q])
  BY <1>1 DEF Brings, Sources, Locks
<1> QED  BY <1>1, <1>2, <1>3, <1>4 DEF TokensSafe, SourceOK, NewOK

LEMMA TokensNext == TokensSafe /\ [Connection!Next]_(Connection!connVars) => TokensSafe'
<1> SUFFICES ASSUME TokensSafe, [Connection!Next]_(Connection!connVars)
             PROVE  TokensSafe'
  OBVIOUS
<1>1. CASE UNCHANGED Connection!connVars
  BY <1>1 DEF Connection!connVars, Connection!remote, Connection!tokens, TokensSafe, ConnectionType,
       RowOK, SourceOK, NewOK, Refreshes, Sources, Locks, Brings
<1>2. ASSUME NEW t \in good, Connection!Revoke(t)
      PROVE  TokensSafe'
  <2>1. good' \in SUBSET (1..issued) /\ UNCHANGED <<conn, call, refreshLock, clock, issued, spent, resent, lost>>
    BY <1>2, TokenFacts DEF Connection!Revoke
  <2> QED  BY <2>1 DEF TokensSafe, ConnectionType, RowOK, SourceOK, NewOK, Refreshes, Sources, Locks, Brings
<1>3. ASSUME NEW p \in Procs, (\E kind \in Connection!Kinds : Connection!Begin(p, kind))
                              \/ Connection!Works(p) \/ Connection!Crash(p)
      PROVE  TokensSafe'
  BY <1>3, CallMovesSafe, LoadingSafe, CallRefreshSafe, StoreRefreshedSafe, RowChangesSafe, AuthorizeSafe,
     EndsSafe, CrashSafe DEF Connection!Works
<1> QED  BY <1>1, <1>2, <1>3 DEF Connection!Next

(* No refresh token is sent after another process has used it up, unless   *)
(* the answer to that one was lost (jifeng-connection/service.ts).         *)
THEOREM RefreshTokensOnce == Connection!Spec => []RefreshTokensSentOnce
<1>1. TokensSafe => RefreshTokensSentOnce
  BY DEF TokensSafe, RefreshTokensSentOnce, Connection!RefreshTokensSentOnce
<1> QED  BY <1>1, TokensInit, TokensNext, PTL DEF Connection!Spec

(* A step that locks out the connection is the end of a call that failed   *)
(* with the connection's own token.                                        *)
OwnFailure ==
    conn'.status \in {"REFRESH_REQUIRED", "ERROR"} /\ conn'.status # conn.status =>
       \E p \in Procs : /\ call[p].at \in {"failed", "unreadable", "ready"}
                        /\ call[p].source.token = conn.token /\ call'[p] = Connection!Resting

LEMMA RowKeepsStatus ==
    ASSUME ConnectionType, NEW p \in Procs, Connection!Works(p),
           ~Connection!RecordFailure(p), ~Connection!CycleRejected(p)
    PROVE  conn'.status = conn.status \/ conn'.status \notin {"REFRESH_REQUIRED", "ERROR"}
<1>1. conn \in Row /\ \A r : Connection!StatusWith(r) \notin {"REFRESH_REQUIRED", "ERROR"}
  BY DEF ConnectionType, Connection!StatusWith
<1>2. CASE conn' = conn
  BY <1>2
<1>3. ASSUME Connection!StoreRefreshed(p)
      PROVE  conn'.status = conn.status
  BY <1>1, <1>3 DEF Connection!StoreRefreshed, Row
<1>4. ASSUME Connection!StoreAuthorization(p)
      PROVE  conn'.status \notin {"REFRESH_REQUIRED", "ERROR"}
  <2>1. PICK r : conn'.status = Connection!StatusWith(r)
    BY <1>4 DEF Connection!StoreAuthorization
  <2> QED  BY <1>1, <2>1
<1>5. ASSUME Connection!StoreDiscovery(p) \/ Connection!Select(p)
      PROVE  conn' = conn \/ conn'.status \notin {"REFRESH_REQUIRED", "ERROR"}
  <2>1. CASE Connection!StoreDiscovery(p)
    <3>1. conn' = conn \/ \E r : conn'.status = Connection!StatusWith(r)
      BY <1>1, <2>1 DEF Connection!StoreDiscovery, Row
    <3> QED  BY <1>1, <3>1
  <2>2. CASE Connection!Select(p)
    BY <1>1, <2>2 DEF Connection!Select, Row
  <2> QED  BY <1>5, <2>1, <2>2
<1>6. ASSUME Connection!StoreDiagnostic(p)
      PROVE  conn'.status = conn.status
  BY <1>1, <1>6 DEF Connection!StoreDiagnostic, Row
<1>7. ASSUME Connection!Enable(p) \/ Connection!Disable(p)
      PROVE  conn' = conn \/ conn'.status \notin {"REFRESH_REQUIRED", "ERROR"}
  BY <1>1, <1>7 DEF Connection!Enable, Connection!Disable, Row
<1>8. ASSUME Connection!Disconnect(p)
      PROVE  conn' = conn \/ conn'.status \notin {"REFRESH_REQUIRED", "ERROR"}
  BY <1>8 DEF Connection!Disconnect, Connection!Disconnected
<1>9. ASSUME Connection!LoadRefused(p) \/ Connection!LoadUsable(p) \/ Connection!LoadUnreadable(p)
             \/ Connection!CallRefresh(p) \/ Connection!RefreshTokenExpired(p) \/ Connection!CycleEnds(p)
             \/ Connection!Authorize(p) \/ Connection!AuthorizationFails(p) \/ Connection!ReadRevision(p)
      PROVE  conn' = conn
  BY <1>9 DEF Connection!LoadRefused, Connection!LoadUsable, Connection!LoadUnreadable, Connection!CallRefresh,
     Connection!RefreshTokenExpired, Connection!CycleEnds, Connection!Authorize,
     Connection!AuthorizationFails, Connection!ReadRevision
<1> QED  BY <1>2, <1>3, <1>4, <1>5, <1>6, <1>7, <1>8, <1>9 DEF Connection!Works

LEMMA FailuresOwned ==
    ConnectionType /\ [Connection!Next]_(Connection!connVars) => OwnFailure \/ UNCHANGED Connection!connVars
<1> SUFFICES ASSUME ConnectionType, Connection!Next
             PROVE  OwnFailure
  OBVIOUS
<1>1. ASSUME NEW p \in Procs, Connection!RecordFailure(p) \/ Connection!CycleRejected(p)
      PROVE  OwnFailure
  <2>1. call'[p] = Connection!Resting /\ call[p].at \in {"failed", "unreadable", "ready"}
    BY <1>1 DEF ConnectionType, Connection!RecordFailure, Connection!CycleRejected, Connection!Rest
  <2>2. conn' = conn \/ call[p].source.token = conn.token
    BY <1>1 DEF Connection!RecordFailure, Connection!CycleRejected, Connection!SameRevision
  <2> QED  BY <2>1, <2>2 DEF OwnFailure
<1>2. ASSUME NEW p \in Procs, NEW kind \in Connection!Kinds, Connection!Begin(p, kind)
      PROVE  OwnFailure
  BY <1>2 DEF OwnFailure, Connection!Begin
<1>3. ASSUME NEW p \in Procs, Connection!Works(p)
      PROVE  OwnFailure
  BY <1>1, <1>3, RowKeepsStatus DEF OwnFailure
<1>4. ASSUME NEW p \in Procs, Connection!Crash(p)
      PROVE  OwnFailure
  BY <1>4 DEF OwnFailure, Connection!Crash
<1>5. ASSUME NEW t \in good, Connection!Revoke(t)
      PROVE  OwnFailure
  BY <1>5 DEF OwnFailure, Connection!Revoke
<1> QED  BY <1>2, <1>3, <1>4, <1>5 DEF Connection!Next

(* A late answer does not lock out a connection that has been authorized   *)
(* anew meanwhile (jifeng-connection/service.ts, markRefreshFailure and    *)
(* markRuntimeAuthenticationRejected).                                     *)
THEOREM OwnFailuresOnly == Connection!Spec => OnlyOwnFailure
<1>1. TokensSafe => ConnectionType
  BY DEF TokensSafe
<1>2. ConnectionType /\ [Connection!Next]_(Connection!connVars) => [OwnFailure]_(Connection!connVars)
  BY FailuresOwned
<1> QED  BY <1>1, <1>2, TokensInit, TokensNext, PTL
         DEF Connection!Spec, OnlyOwnFailure, Connection!OnlyOwnFailure, OwnFailure

-----------------------------------------------------------------------------
(* The connection to Jifeng: what it was enabled for.                      *)

(* The times of a call: it began before now; credentials it goes on with   *)
(* were usable then, and credentials it could not refresh were not.        *)
TimesOK(c, row, now) ==
    /\ c.at # "resting" => c.now < now
    /\ row.token # 0 =>
         /\ c.at \in {"ready", "asking"} => c.now < row.expires
         /\ c.at = "refreshed" /\ c.source.token # row.token => c.now < row.expires
         /\ c.at \in {"failed", "refreshed"} /\ c.source.token = row.token => row.expires <= c.now

(* A diagnostic in the row is of before now and of before the tokens'      *)
(* end; unless a failure has been recorded after it, it proves the row.    *)
RowProved(row, now, isProved) ==
    /\ row.diagnostic < now
    /\ row.diagnostic = 0 \/ row.diagnostic < row.expires
    /\ row.status # "REFRESH_REQUIRED" /\ row.diagnostic # 0 => isProved
    /\ row.status = "REFRESH_REQUIRED" /\ row.diagnostic # 0 => row.diagnostic < row.updated
    /\ row.status = "ENABLED" => isProved /\ row.resource # Nothing

ProvedOK == /\ \A p \in Procs : TimesOK(call[p], conn, clock)
            /\ RowProved(conn, clock, proved)
            /\ proved \in BOOLEAN

(* An authorization is stored before the tokens it brings have expired:    *)
(* they last for hours, the call for seconds. Nothing in the code enforces *)
(* it. Without it, a cycle, a diagnostic and a request to enable that were *)
(* begun around two slow authorizations can outdate each other.            *)
Timely == \A p \in Procs : call[p].at = "authorized" => clock <= call[p].now + Life

LEMMA TimesKept ==
    ASSUME NEW c \in ConnectionCalls, NEW row, NEW to, NEW now \in Nat, NEW later \in Nat, now <= later,
           to.token = row.token, to.expires = row.expires, TimesOK(c, row, now)
    PROVE  TimesOK(c, to, later)
BY CallFields DEF TimesOK

LEMMA RowProvedLater ==
    ASSUME NEW row \in Row, NEW now \in Nat, NEW later \in Nat, now <= later, NEW is, RowProved(row, now, is)
    PROVE  RowProved(row, later, is)
BY RowFields DEF RowProved

(* A step that leaves the tokens of the row.                               *)
LEMMA ProvedKept ==
    ASSUME TokensSafe, ProvedOK, NEW p \in Procs, \A q \in Procs \ {p} : call'[q] = call[q],
           conn'.token = conn.token, conn'.expires = conn.expires, clock' \in {clock, clock + 1},
           TimesOK(call'[p], conn', clock'), RowProved(conn', clock', proved'), proved' \in BOOLEAN
    PROVE  ProvedOK'
<1>1. clock \in Nat /\ clock' \in Nat /\ clock <= clock'
  BY TokenFacts
<1>2. ASSUME NEW q \in Procs
      PROVE  TimesOK(call'[q], conn', clock')
  <2>1. CASE q = p
    BY <2>1
  <2>2. CASE q # p
    <3>1. call'[q] = call[q] /\ call[q] \in ConnectionCalls /\ TimesOK(call[q], conn, clock)
      BY <2>2, TokenFacts DEF ProvedOK
    <3> QED  BY <1>1, <3>1, TimesKept
  <2> QED  BY <2>1, <2>2
<1> QED  BY <1>2 DEF ProvedOK

(* A step that leaves the row.                                             *)
LEMMA ProvedSame ==
    ASSUME TokensSafe, ProvedOK, NEW p \in Procs, \A q \in Procs \ {p} : call'[q] = call[q],
           UNCHANGED <<conn, proved>>, clock' \in {clock, clock + 1}, TimesOK(call'[p], conn, clock')
    PROVE  ProvedOK'
<1>1. clock \in Nat /\ clock' \in Nat /\ clock <= clock' /\ conn \in Row
  BY TokenFacts
<1>2. RowProved(conn, clock', proved) /\ proved \in BOOLEAN
  BY <1>1, RowProvedLater DEF ProvedOK
<1> QED  BY <1>2, ProvedKept

LEMMA CallNow ==
    ASSUME TokensSafe, NEW p \in Procs, NEW c, call' = [call EXCEPT ![p] = c]
    PROVE  call'[p] = c /\ \A q \in Procs \ {p} : call'[q] = call[q]
BY DEF TokensSafe, ConnectionType

(* A call that has ended leaves no time behind.                            *)
LEMMA RestNow ==
    ASSUME TokensSafe, NEW p \in Procs, Connection!Rest(p), NEW row, NEW now
    PROVE  TimesOK(call'[p], row, now) /\ \A q \in Procs \ {p} : call'[q] = call[q]
<1>1. call'[p] = [at |-> "resting"] /\ \A q \in Procs \ {p} : call'[q] = call[q]
  BY CallNow DEF Connection!Rest, Connection!Resting
<1>2. call'[p].at = "resting"
  BY <1>1
<1> QED  BY <1>1, <1>2 DEF TimesOK

LEMMA LoadedNow ==
    ASSUME TokensSafe, ProvedOK, NEW p \in Procs, call[p].at = "begun",
           NEW at \in {"ready", "unreadable", "failed"}, Connection!Holding(p, at, conn),
           at = "ready" => Connection!Usable(conn, call[p].now),
           at = "failed" => ~Connection!Usable(conn, call[p].now)
    PROVE  TimesOK(call'[p], conn, clock) /\ \A q \in Procs \ {p} : call'[q] = call[q]
<1>1. call[p].now \in Nat /\ conn.expires \in Nat /\ call[p].now < clock
  BY TokenFacts, CallFields, RowFields DEF ProvedOK, TimesOK
<1>2. call'[p] = [at |-> at, kind |-> call[p].kind, now |-> call[p].now, source |-> conn]
      /\ \A q \in Procs \ {p} : call'[q] = call[q]
  BY CallNow DEF Connection!Holding
<1>3. call'[p].at = at /\ call'[p].now = call[p].now /\ call'[p].source = conn
  BY <1>2
<1>4. at = "ready" => call[p].now < conn.expires
  BY <1>1 DEF Connection!Usable
<1>5. at = "failed" => conn.expires <= call[p].now
  BY <1>1 DEF Connection!Usable
<1> QED  BY <1>1, <1>2, <1>3, <1>4, <1>5 DEF TimesOK

(* Calls begin, load their credentials, and end without a change.          *)
LEMMA CallsProved ==
    ASSUME TokensSafe, ProvedOK, NEW p \in Procs,
           \/ \E kind \in Connection!Kinds : Connection!Begin(p, kind)
           \/ Connection!LoadRefused(p) \/ Connection!CycleEnds(p)
           \/ Connection!AuthorizationFails(p) \/ Connection!Crash(p)
           \/ Connection!LoadUsable(p) \/ Connection!LoadUnreadable(p) \/ Connection!RefreshTokenExpired(p)
    PROVE  ProvedOK'
<1>1. ASSUME NEW kind \in Connection!Kinds, Connection!Begin(p, kind)
      PROVE  ProvedOK'
  <2>1. /\ call'[p] = [at |-> "begun", kind |-> kind, now |-> clock]
        /\ \A q \in Procs \ {p} : call'[q] = call[q]
        /\ clock' = clock + 1 /\ UNCHANGED <<conn, proved>>
    BY <1>1, CallNow DEF Connection!Begin
  <2>2. call'[p].at = "begun" /\ call'[p].now < clock'
    BY <2>1, TokenFacts
  <2>3. TimesOK(call'[p], conn, clock')
    BY <2>2 DEF TimesOK
  <2> QED  BY <2>1, <2>3, ProvedSame
<1>2. ASSUME Connection!LoadRefused(p) \/ Connection!CycleEnds(p) \/ Connection!AuthorizationFails(p)
             \/ Connection!Crash(p)
      PROVE  ProvedOK'
  <2>1. Connection!Rest(p) /\ UNCHANGED <<conn, proved, clock>>
    BY <1>2 DEF Connection!LoadRefused, Connection!CycleEnds, Connection!AuthorizationFails, Connection!Crash
  <2> QED  BY <2>1, RestNow, ProvedSame
<1>3. ASSUME NEW at \in {"ready", "unreadable", "failed"}, Connection!Holding(p, at, conn),
             call[p].at = "begun", UNCHANGED <<conn, proved, clock>>,
             at = "ready" => Connection!Usable(conn, call[p].now),
             at = "failed" => ~Connection!Usable(conn, call[p].now)
      PROVE  ProvedOK'
  BY <1>3, LoadedNow, ProvedSame
<1>4. ASSUME Connection!LoadUsable(p)
      PROVE  ProvedOK'
  <2>1. /\ Connection!Holding(p, "ready", conn) /\ call[p].at = "begun" /\ UNCHANGED <<conn, proved, clock>>
        /\ Connection!Usable(conn, call[p].now)
    BY <1>4 DEF Connection!LoadUsable, Connection!Proceed, Connection!Holding, Connection!CanLoad,
         Connection!WaitsForLock
  <2> QED  BY <1>3, <2>1
<1>5. ASSUME Connection!LoadUnreadable(p)
      PROVE  ProvedOK'
  <2>1. Connection!Holding(p, "unreadable", conn) /\ call[p].at = "begun" /\ UNCHANGED <<conn, proved, clock>>
    BY <1>5 DEF Connection!LoadUnreadable, Connection!CanLoad, Connection!WaitsForLock
  <2> QED  BY <1>3, <2>1
<1>6. ASSUME Connection!RefreshTokenExpired(p)
      PROVE  ProvedOK'
  <2>1. /\ Connection!Holding(p, "failed", conn) /\ call[p].at = "begun" /\ UNCHANGED <<conn, proved, clock>>
        /\ ~Connection!Usable(conn, call[p].now)
    BY <1>6 DEF Connection!RefreshTokenExpired, Connection!CanLoad, Connection!WaitsForLock
  <2> QED  BY <1>3, <2>1
<1> QED  BY <1>1, <1>2, <1>4, <1>5, <1>6

(* The refresh token is sent, a code is exchanged, a revision is read.     *)
LEMMA AsksProved ==
    ASSUME TokensSafe, ProvedOK, NEW p \in Procs,
           Connection!CallRefresh(p) \/ Connection!Authorize(p) \/ Connection!ReadRevision(p)
    PROVE  ProvedOK'
<1>1. /\ conn.expires \in Nat /\ clock \in Nat
      /\ (call[p].at # "resting" => call[p].now \in Nat /\ call[p].now < clock)
  BY TokenFacts, CallFields, RowFields DEF ProvedOK, TimesOK
<1>2. ASSUME Connection!CallRefresh(p)
      PROVE  ProvedOK'
  <2>1. /\ call[p].at = "begun" /\ ~Connection!Usable(conn, call[p].now) /\ UNCHANGED <<conn, proved, clock>>
        /\ \/ Connection!Holding(p, "failed", conn)
           \/ call' = [call EXCEPT ![p] = [at |-> "refreshed", kind |-> @.kind, now |-> @.now,
                                           source |-> conn, new |-> issued']]
    BY <1>2 DEF Connection!CallRefresh, Connection!CanLoad, Connection!WaitsForLock
  <2>2. CASE Connection!Holding(p, "failed", conn)
    BY <2>1, <2>2, LoadedNow, ProvedSame
  <2>3. CASE call' = [call EXCEPT ![p] = [at |-> "refreshed", kind |-> @.kind, now |-> @.now,
                                          source |-> conn, new |-> issued']]
    <3>1. /\ call'[p] = [at |-> "refreshed", kind |-> call[p].kind, now |-> call[p].now,
                         source |-> conn, new |-> issued']
          /\ \A q \in Procs \ {p} : call'[q] = call[q]
      BY <2>3, CallNow
    <3>2. call'[p].at = "refreshed" /\ call'[p].now = call[p].now /\ call'[p].source = conn
      BY <3>1
    <3>3. conn.expires <= call[p].now
      BY <1>1, <2>1 DEF Connection!Usable
    <3>4. TimesOK(call'[p], conn, clock)
      BY <1>1, <2>1, <3>2, <3>3 DEF TimesOK
    <3> QED  BY <2>1, <3>1, <3>4, ProvedSame
  <2> QED  BY <2>1, <2>2, <2>3
<1>3. ASSUME Connection!Authorize(p)
      PROVE  ProvedOK'
  <2>1. /\ call[p].at = "begun" /\ UNCHANGED <<conn, proved, clock>>
        /\ call'[p] = [at |-> "authorized", now |-> call[p].now, new |-> issued']
        /\ \A q \in Procs \ {p} : call'[q] = call[q]
    BY <1>3, CallNow DEF Connection!Authorize
  <2>2. call'[p].at = "authorized" /\ call'[p].now = call[p].now
    BY <2>1
  <2>3. TimesOK(call'[p], conn, clock)
    BY <1>1, <2>1, <2>2 DEF TimesOK
  <2> QED  BY <2>1, <2>3, ProvedSame
<1>4. ASSUME Connection!ReadRevision(p)
      PROVE  ProvedOK'
  <2>1. call[p].at = "ready" /\ UNCHANGED <<conn, proved, clock>>
    BY <1>4 DEF Connection!ReadRevision
  <2>2. CASE conn.status \in Connection!Unusable
    <3>1. Connection!Rest(p)
      BY <1>4, <2>2 DEF Connection!ReadRevision
    <3> QED  BY <2>1, <3>1, RestNow, ProvedSame
  <2>3. CASE conn.status \notin Connection!Unusable
    <3>1. /\ call'[p] = [at |-> "asking", kind |-> call[p].kind, now |-> call[p].now,
                         token |-> call[p].source.token, expected |-> conn.updated]
          /\ \A q \in Procs \ {p} : call'[q] = call[q]
      BY <1>4, <2>3, CallNow DEF Connection!ReadRevision
    <3>2. call'[p].at = "asking" /\ call'[p].now = call[p].now
      BY <3>1
    <3>3. TimesOK(call[p], conn, clock)
      BY DEF ProvedOK
    <3>4. TimesOK(call'[p], conn, clock)
      BY <2>1, <3>2, <3>3 DEF TimesOK
    <3> QED  BY <2>1, <3>1, <3>4, ProvedSame
  <2> QED  BY <2>2, <2>3
<1> QED  BY <1>2, <1>3, <1>4

(* A change of the row that leaves its tokens.                             *)
LEMMA RowProvedKept ==
    ASSUME TokensSafe, ProvedOK, NEW p \in Procs, Connection!Rest(p), UNCHANGED clock,
           conn'.token = conn.token, conn'.expires = conn.expires,
           RowProved(conn', clock, proved'), proved' \in BOOLEAN
    PROVE  ProvedOK'
BY RestNow, ProvedKept

LEMMA RowsProved ==
    ASSUME TokensSafe, ProvedOK, NEW p \in Procs,
           Connection!RecordFailure(p) \/ Connection!CycleRejected(p) \/ Connection!StoreDiscovery(p)
           \/ Connection!StoreDiagnostic(p) \/ Connection!Select(p) \/ Connection!Enable(p)
           \/ Connection!Disable(p)
    PROVE  ProvedOK'
<1>1. /\ conn \in Row /\ RowOK(conn) /\ clock \in Nat /\ call[p] \in ConnectionCalls
      /\ conn.status \in Statuses /\ conn.updated \in Nat /\ conn.diagnostic \in Nat /\ conn.expires \in Nat
      /\ conn.resource \in Resources \cup {Nothing}
      /\ (call[p].at # "resting" => call[p].now \in Nat /\ call[p].now < clock)
  BY TokenFacts, RowFields, CallFields DEF ProvedOK, TimesOK
<1>2. Connection!Unusable = {"DISCONNECTED", "ERROR", "REFRESH_REQUIRED"}
  BY DEF Connection!Unusable
<1>3. \A r : /\ Connection!StatusWith(r) \in Statuses \ {"DISCONNECTED", "REFRESH_REQUIRED", "ENABLED"}
  BY DEF Connection!StatusWith, Statuses
<1>4. /\ conn.diagnostic < clock /\ (conn.diagnostic = 0 \/ conn.diagnostic < conn.expires)
      /\ (conn.status # "REFRESH_REQUIRED" /\ conn.diagnostic # 0 => proved)
      /\ (conn.status = "REFRESH_REQUIRED" /\ conn.diagnostic # 0 => conn.diagnostic < conn.updated)
      /\ (conn.status = "ENABLED" => proved /\ conn.resource # Nothing)
      /\ proved \in BOOLEAN /\ RowProved(conn, clock, proved) /\ TimesOK(call[p], conn, clock)
  BY DEF ProvedOK, RowProved
<1>5. (conn.token # 0 <=> conn.status # "DISCONNECTED") /\ conn.token \in Nat
  BY <1>1, RowFields DEF RowOK
<1>6. ASSUME Connection!Rest(p), UNCHANGED <<clock, conn, proved>>
      PROVE  ProvedOK'
  BY <1>4, <1>6, RowProvedKept
<1>7. ASSUME Connection!RecordFailure(p)
      PROVE  ProvedOK'
  <2>1. call[p].at \in {"failed", "unreadable"} /\ Connection!Rest(p) /\ UNCHANGED clock
    BY <1>7 DEF Connection!RecordFailure
  <2>2. CASE ~Connection!SameRevision(call[p].source)
    BY <1>6, <1>7, <2>1, <2>2 DEF Connection!RecordFailure
  <2>3. CASE Connection!SameRevision(call[p].source)
    <3> DEFINE to == IF call[p].at = "failed" THEN "REFRESH_REQUIRED" ELSE "ERROR"
    <3>1. conn.status \notin Connection!Unusable /\ conn.token = call[p].source.token
      <4>1. SourceOK(call[p]) /\ Locks(call[p])
        BY <2>1 DEF TokensSafe, Locks
      <4> QED  BY <2>3, <4>1 DEF SourceOK, Connection!SameRevision
    <3>2. RowTo(to, call[p].now, conn.diagnostic, conn.resource)
      BY <1>1, <1>7, <2>3 DEF Connection!RecordFailure, Row, RowTo
    <3>3. to \in Statuses \ {"DISCONNECTED"} /\ to # "ENABLED" /\ (to = "REFRESH_REQUIRED" <=> call[p].at = "failed")
      BY <2>1 DEF Statuses
    <3>4. proved' = (proved /\ call[p].at = "unreadable")
      BY <1>7, <2>3 DEF Connection!RecordFailure
    <3> HIDE DEF to
    <3>5. conn.token # 0 /\ call[p].now \in Nat
      BY <1>1, <1>2, <1>5, <2>1, <3>1
    <3>6. /\ conn'.token = conn.token /\ conn'.expires = conn.expires /\ conn'.status = to
          /\ conn'.updated = call[p].now /\ conn'.diagnostic = conn.diagnostic
      BY <1>1, <3>2, <3>3, <3>5, RowToOK
    <3>7. call[p].at = "failed" => conn.expires <= call[p].now
      BY <1>4, <3>1, <3>5 DEF TimesOK
    <3>8. call[p].at = "failed" /\ conn.diagnostic # 0 => conn.diagnostic < call[p].now
      BY <1>1, <1>4, <3>5, <3>7
    <3>9. proved' \in BOOLEAN /\ (conn.diagnostic # 0 /\ call[p].at # "failed" => proved')
      BY <1>2, <1>4, <2>1, <3>1, <3>4
    <3>10. RowProved(conn', clock, proved')
      BY <1>4, <3>3, <3>6, <3>8, <3>9 DEF RowProved
    <3> QED  BY <2>1, <3>6, <3>9, <3>10, RowProvedKept
  <2> QED  BY <2>2, <2>3
<1>8. ASSUME Connection!CycleRejected(p)
      PROVE  ProvedOK'
  <2>1. call[p].at = "ready" /\ Connection!Rest(p) /\ UNCHANGED clock
    BY <1>8 DEF Connection!CycleRejected
  <2>2. CASE ~Connection!SameRevision(call[p].source)
    BY <1>6, <1>8, <2>1, <2>2 DEF Connection!CycleRejected
  <2>3. CASE Connection!SameRevision(call[p].source)
    <3>1. /\ conn.token # 0 /\ Connection!Later(clock, conn) \in Nat
          /\ conn.diagnostic < Connection!Later(clock, conn)
      <4>1. conn.token # 0
        BY <2>1, <2>3, TokenFacts DEF Connection!SameRevision, Sources
      <4> QED  BY <1>1, <1>4, <4>1 DEF Connection!Later
    <3>2. RowTo("REFRESH_REQUIRED", Connection!Later(clock, conn), conn.diagnostic, conn.resource)
          /\ proved' = FALSE
      BY <1>1, <1>8, <2>3 DEF Connection!CycleRejected, Row, RowTo
    <3>3. "REFRESH_REQUIRED" \in Statuses \ {"DISCONNECTED"}
      BY DEF Statuses
    <3>4. /\ conn'.token = conn.token /\ conn'.expires = conn.expires /\ conn'.status = "REFRESH_REQUIRED"
          /\ conn'.updated = Connection!Later(clock, conn) /\ conn'.diagnostic = conn.diagnostic
      BY <1>1, <3>1, <3>2, <3>3, RowToOK
    <3>5. RowProved(conn', clock, proved')
      BY <1>4, <3>1, <3>4 DEF RowProved
    <3> QED  BY <2>1, <3>2, <3>4, <3>5, RowProvedKept
  <2> QED  BY <2>2, <2>3
<1>9. ASSUME NEW r \in Resources \cup {Nothing}, NEW to \in Statuses \ {"DISCONNECTED", "REFRESH_REQUIRED", "ENABLED"},
             conn.token # 0, call[p].at # "resting", RowTo(to, call[p].now, 0, r), proved' = FALSE,
             Connection!Rest(p), UNCHANGED clock
      PROVE  ProvedOK'
  <2>1. /\ conn'.token = conn.token /\ conn'.expires = conn.expires /\ conn'.status = to
        /\ conn'.diagnostic = 0
    BY <1>1, <1>9, RowToOK
  <2>2. RowProved(conn', clock, proved')
    BY <1>1, <1>4, <1>9, <2>1 DEF RowProved
  <2> QED  BY <1>9, <2>1, <2>2, RowProvedKept
<1>10. ASSUME Connection!StoreDiscovery(p)
       PROVE  ProvedOK'
  <2>1. call[p].at = "asking" /\ Connection!Rest(p) /\ UNCHANGED clock
    BY <1>10 DEF Connection!StoreDiscovery
  <2>2. CASE ~Connection!Expected(p)
    BY <1>6, <1>10, <2>1, <2>2 DEF Connection!StoreDiscovery
  <2>3. CASE Connection!Expected(p)
    <3>1. PICK r \in Resources \cup {Nothing} :
            conn' = [conn EXCEPT !.status = Connection!StatusWith(r), !.resource = r,
                                 !.diagnostic = 0, !.updated = call[p].now]
      BY <1>10, <2>3 DEF Connection!StoreDiscovery, Connection!Discovered
    <3>2. RowTo(Connection!StatusWith(r), call[p].now, 0, r) /\ proved' = FALSE
      BY <1>1, <1>10, <2>3, <3>1 DEF Connection!StoreDiscovery, Row, RowTo
    <3>3. conn.token # 0
      BY <1>2, <1>5, <2>3 DEF Connection!Expected
    <3> QED  BY <1>3, <1>9, <2>1, <3>2, <3>3
  <2> QED  BY <2>2, <2>3
<1>11. ASSUME Connection!Select(p)
       PROVE  ProvedOK'
  <2>1. call[p].at = "begun" /\ Connection!Rest(p) /\ UNCHANGED clock
    BY <1>11 DEF Connection!Select
  <2>2. CASE conn.status \in Connection!Unusable
    BY <1>6, <1>11, <2>1, <2>2 DEF Connection!Select
  <2>3. CASE conn.status \notin Connection!Unusable
    <3>1. PICK r \in Resources :
            conn' = [conn EXCEPT !.status = "READY_DISABLED", !.resource = r,
                                 !.diagnostic = 0, !.updated = call[p].now]
      BY <1>11, <2>3 DEF Connection!Select
    <3>2. RowTo("READY_DISABLED", call[p].now, 0, r) /\ proved' = FALSE
      BY <1>1, <1>11, <2>3, <3>1 DEF Connection!Select, Row, RowTo
    <3>3. conn.token # 0 /\ "READY_DISABLED" \in Statuses \ {"DISCONNECTED", "REFRESH_REQUIRED", "ENABLED"}
      BY <1>2, <1>5, <2>3 DEF Statuses
    <3> QED  BY <1>9, <2>1, <3>2, <3>3
  <2> QED  BY <2>2, <2>3
<1>12. ASSUME Connection!StoreDiagnostic(p)
       PROVE  ProvedOK'
  <2>1. call[p].at = "asking" /\ Connection!Rest(p) /\ UNCHANGED clock
    BY <1>12 DEF Connection!StoreDiagnostic
  <2>2. CASE ~Connection!Expected(p)
    BY <1>6, <1>12, <2>1, <2>2 DEF Connection!StoreDiagnostic
  <2>3. CASE Connection!Expected(p)
    <3>1. PICK ok \in BOOLEAN : /\ conn' = [conn EXCEPT !.diagnostic = IF ok THEN call[p].now ELSE 0]
                                /\ proved' = (proved \/ ok)
      BY <1>12, <2>3 DEF Connection!StoreDiagnostic
    <3> DEFINE d == IF ok THEN call[p].now ELSE 0
    <3>2. RowTo(conn.status, conn.updated, d, conn.resource)
      BY <1>1, <3>1 DEF Row, RowTo
    <3>3. d \in Nat /\ d < clock /\ (d # 0 => ok /\ d = call[p].now)
      BY <1>1, <2>1
    <3> HIDE DEF d
    <3>4. /\ conn.token # 0 /\ conn.status \in Statuses \ {"DISCONNECTED"}
          /\ conn.status # "REFRESH_REQUIRED"
      BY <1>1, <1>2, <1>5, <2>3 DEF Connection!Expected
    <3>5. /\ conn'.token = conn.token /\ conn'.expires = conn.expires /\ conn'.status = conn.status
          /\ conn'.updated = conn.updated /\ conn'.diagnostic = d /\ conn'.resource = conn.resource
      BY <1>1, <3>2, <3>3, <3>4, RowToOK
    <3>6. call[p].now < conn.expires
      BY <1>4, <2>1, <3>4 DEF TimesOK
    <3>7. proved' \in BOOLEAN /\ (proved \/ ok => proved')
      BY <3>1
    <3>8. RowProved(conn', clock, proved')
      BY <1>4, <3>3, <3>4, <3>5, <3>6, <3>7 DEF RowProved
    <3> QED  BY <2>1, <3>5, <3>7, <3>8, RowProvedKept
  <2> QED  BY <2>2, <2>3
<1>13. ASSUME NEW to \in Statuses \ {"DISCONNECTED", "REFRESH_REQUIRED"}, conn.token # 0, RowTo(to, conn.updated, conn.diagnostic, conn.resource),
              conn.status # "REFRESH_REQUIRED", to = "ENABLED" => proved /\ conn.resource # Nothing,
              Connection!Rest(p), UNCHANGED <<clock, proved>>
       PROVE  ProvedOK'
  <2>1. /\ conn'.token = conn.token /\ conn'.expires = conn.expires /\ conn'.status = to
        /\ conn'.diagnostic = conn.diagnostic /\ conn'.resource = conn.resource
    BY <1>1, <1>13, RowToOK
  <2>2. RowProved(conn', clock, proved')
    BY <1>4, <1>13, <2>1 DEF RowProved
  <2> QED  BY <1>4, <1>13, <2>1, <2>2, RowProvedKept
<1>14. ASSUME Connection!Enable(p)
       PROVE  ProvedOK'
  <2>1. Connection!Rest(p) /\ UNCHANGED <<clock, proved>>
    BY <1>14 DEF Connection!Enable
  <2>2. CASE ~(conn.resource # Nothing /\ Connection!Diagnosed)
    BY <1>6, <1>14, <2>1, <2>2 DEF Connection!Enable
  <2>3. CASE conn.resource # Nothing /\ Connection!Diagnosed
    <3>1. RowTo("ENABLED", conn.updated, conn.diagnostic, conn.resource)
      BY <1>1, <1>14, <2>3 DEF Connection!Enable, Row, RowTo
    <3>2. conn.diagnostic # 0 /\ conn.updated <= conn.diagnostic
      BY <1>1, <2>3 DEF Connection!Diagnosed
    <3>3. conn.status # "REFRESH_REQUIRED" /\ proved
      BY <1>1, <1>4, <3>2
    <3>4. conn.token # 0
      BY <1>1, <3>2 DEF RowOK
    <3>5. "ENABLED" \in Statuses \ {"DISCONNECTED", "REFRESH_REQUIRED"}
      BY DEF Statuses
    <3> QED  BY <1>13, <2>1, <2>3, <3>1, <3>3, <3>4, <3>5
  <2> QED  BY <2>2, <2>3
<1>15. ASSUME Connection!Disable(p)
       PROVE  ProvedOK'
  <2>1. Connection!Rest(p) /\ UNCHANGED <<clock, proved>>
    BY <1>15 DEF Connection!Disable
  <2>2. CASE conn.status \in {"DISCONNECTED", "REFRESH_REQUIRED"}
    BY <1>6, <1>15, <2>1, <2>2 DEF Connection!Disable
  <2>3. CASE conn.status \notin {"DISCONNECTED", "REFRESH_REQUIRED"}
    <3>1. RowTo(Connection!StatusWith(conn.resource), conn.updated, conn.diagnostic, conn.resource)
      BY <1>1, <1>15, <2>3 DEF Connection!Disable, Row, RowTo
    <3>2. conn.token # 0 /\ conn.status # "REFRESH_REQUIRED"
      BY <1>5, <2>3
    <3> QED  BY <1>3, <1>13, <2>1, <3>1, <3>2
  <2> QED  BY <2>2, <2>3
<1> QED  BY <1>7, <1>8, <1>10, <1>11, <1>12, <1>14, <1>15

(* The tokens of the row are replaced: by a refresh, an authorization or   *)
(* by none.                                                                *)
LEMMA RefreshProved ==
    ASSUME TokensSafe, ProvedOK, NEW p \in Procs, Connection!StoreRefreshed(p)
    PROVE  ProvedOK'
<1>1. /\ call[p].at = "refreshed" /\ UNCHANGED <<clock, proved>>
      /\ conn' = IF conn.token = call[p].source.token
                 THEN [conn EXCEPT !.token = call[p].new, !.expires = call[p].now + Life]
                 ELSE conn
      /\ IF conn'.token = 0 THEN Connection!Rest(p) ELSE Connection!Proceed(p, conn')
  BY DEF Connection!StoreRefreshed
<1>2. /\ conn \in Row /\ clock \in Nat /\ conn.expires \in Nat /\ conn.diagnostic \in Nat
      /\ call[p].now \in Nat /\ call[p].now < clock /\ Sources(call[p]) /\ Locks(call[p]) /\ Brings(call[p])
      /\ Life \in Nat \ {0} /\ TimesOK(call[p], conn, clock)
  BY <1>1, TokenFacts, RowFields, CallFields, OfficeAssumption DEF ProvedOK, TimesOK, Sources, Locks, Brings
<1>3. \A q \in Procs \ {p} : ~Locks(call[q])
  BY <1>2 DEF TokensSafe
<1>4. ASSUME \A q \in Procs \ {p} : call'[q] = call[q] /\ TimesOK(call[q], conn', clock),
             RowProved(conn', clock, proved), conn'.token # 0 => call[p].now < conn'.expires
      PROVE  ProvedOK'
  <2>1. TimesOK(call'[p], conn', clock)
    <3>1. CASE conn'.token = 0
      BY <1>1, <3>1, RestNow
    <3>2. CASE conn'.token # 0
      <4>1. call'[p] = [at |-> "ready", kind |-> call[p].kind, now |-> call[p].now, source |-> conn']
        BY <1>1, <3>2, CallNow DEF Connection!Proceed
      <4>2. call'[p].at = "ready" /\ call'[p].now = call[p].now
        BY <4>1
      <4> QED  BY <1>2, <1>4, <3>2, <4>2 DEF TimesOK
    <3> QED  BY <3>1, <3>2
  <2>2. \A q \in Procs : TimesOK(call'[q], conn', clock)
    BY <1>4, <2>1
  <2> QED  BY <1>1, <1>4, <2>2 DEF ProvedOK
<1>5. \A q \in Procs \ {p} : call'[q] = call[q]
  BY <1>1, CallNow DEF Connection!Rest, Connection!Proceed
<1>6. CASE conn.token # call[p].source.token
  <2>1. conn' = conn
    BY <1>1, <1>6
  <2>2. conn.token # 0 => call[p].now < conn.expires
    BY <1>1, <1>2, <1>6 DEF TimesOK
  <2>3. RowProved(conn, clock, proved) /\ \A q \in Procs : TimesOK(call[q], conn, clock)
    BY DEF ProvedOK
  <2> QED  BY <1>4, <1>5, <2>1, <2>2, <2>3
<1>7. CASE conn.token = call[p].source.token
  <2>1. conn' = [conn EXCEPT !.token = call[p].new, !.expires = call[p].now + Life]
    BY <1>1, <1>7
  <2>2. conn.token # 0 /\ call[p].new \in 1..issued
    BY <1>2, <1>7, TokenFacts
  <2>3. conn.expires <= call[p].now
    BY <1>1, <1>2, <1>7, <2>2 DEF TimesOK
  <2>4. /\ conn'.expires = call[p].now + Life /\ conn'.token = call[p].new
        /\ conn'.status = conn.status /\ conn'.updated = conn.updated
        /\ conn'.diagnostic = conn.diagnostic /\ conn'.resource = conn.resource
    BY <1>2, <2>1 DEF Row
  <2>5. RowProved(conn', clock, proved)
    <3>1. RowProved(conn, clock, proved)
      BY DEF ProvedOK
    <3>2. conn.diagnostic < conn.expires => conn.diagnostic < call[p].now + Life
      BY <1>2, <2>3
    <3> QED  BY <2>4, <3>1, <3>2 DEF RowProved
  <2>6. ASSUME NEW q \in Procs \ {p}
        PROVE  TimesOK(call[q], conn', clock)
    <3>1. TimesOK(call[q], conn, clock) /\ ~Locks(call[q]) /\ call[q] \in ConnectionCalls
      BY <1>3, TokenFacts DEF ProvedOK
    <3>2. call[q].at \in {"ready", "asking"} => call[q].now < conn'.expires
      <4>1. call[q].at \in {"ready", "asking"} => call[q].now < conn.expires /\ call[q].now \in Nat
        BY <2>2, <3>1, CallFields DEF TimesOK
      <4> QED  BY <1>2, <2>3, <2>4, <4>1
    <3> QED  BY <3>1, <3>2 DEF TimesOK, Locks
  <2>7. call[p].now < conn'.expires
    BY <1>2, <2>4
  <2> QED  BY <1>4, <1>5, <2>5, <2>6, <2>7
<1> QED  BY <1>6, <1>7

LEMMA NewRowProved ==
    ASSUME TokensSafe, ProvedOK, Timely, NEW p \in Procs,
           Connection!StoreAuthorization(p) \/ Connection!Disconnect(p)
    PROVE  ProvedOK'
<1>1. /\ conn \in Row /\ clock \in Nat /\ call[p] \in ConnectionCalls
      /\ (call[p].at # "resting" => call[p].now \in Nat /\ call[p].now < clock)
      /\ Life \in Nat \ {0} /\ conn.diagnostic \in Nat /\ conn.diagnostic < clock
      /\ RowProved(conn, clock, proved) /\ proved \in BOOLEAN
  BY TokenFacts, CallFields, RowFields, OfficeAssumption DEF ProvedOK, TimesOK, RowProved
<1>2. ASSUME Connection!Rest(p), UNCHANGED clock, RowProved(conn', clock, proved'), proved' \in BOOLEAN,
             \A q \in Procs \ {p} : TimesOK(call[q], conn', clock)
      PROVE  ProvedOK'
  <2>1. \A q \in Procs : TimesOK(call'[q], conn', clock)
    BY <1>2, RestNow
  <2> QED  BY <1>2, <2>1 DEF ProvedOK
<1>3. ASSUME Connection!StoreAuthorization(p)
      PROVE  ProvedOK'
  <2>1. PICK r \in Resources \cup {Nothing} :
          conn' = [status |-> Connection!StatusWith(r), token |-> call[p].new,
                   expires |-> call[p].now + Life, updated |-> call[p].now, diagnostic |-> 0, resource |-> r]
    BY <1>3 DEF Connection!StoreAuthorization, Connection!Discovered
  <2>2. /\ call[p].at = "authorized" /\ Connection!Rest(p) /\ UNCHANGED clock /\ proved' = FALSE
        /\ Connection!StatusWith(r) \notin {"ENABLED", "REFRESH_REQUIRED"}
    BY <1>3 DEF Connection!StoreAuthorization, Connection!StatusWith
  <2>3. /\ conn'.status = Connection!StatusWith(r) /\ conn'.token = call[p].new
        /\ conn'.expires = call[p].now + Life /\ conn'.diagnostic = 0
    BY <2>1
  <2>4. RowProved(conn', clock, proved')
    BY <1>1, <2>2, <2>3 DEF RowProved
  <2>5. clock <= call[p].now + Life /\ Brings(call[p])
    BY <2>2 DEF Timely, Brings
  <2>6. ASSUME NEW q \in Procs \ {p}
        PROVE  TimesOK(call[q], conn', clock)
    <3>1. TimesOK(call[q], conn, clock) /\ call[q] \in ConnectionCalls
      BY TokenFacts DEF ProvedOK
    <3>2. call[q].at # "resting" => call[q].now < clock /\ call[q].now \in Nat
      BY <3>1, CallFields DEF TimesOK
    <3>3. Sources(call[q]) => call[q].source.token # conn'.token
      BY <2>3, <2>5, TokenFacts
    <3>4. call[q].at # "resting" => call[q].now < conn'.expires
      BY <1>1, <2>2, <2>3, <2>5, <3>2
    <3> QED  BY <3>2, <3>3, <3>4 DEF TimesOK, Sources
  <2> QED  BY <1>2, <2>2, <2>4, <2>6
<1>4. ASSUME Connection!Disconnect(p)
      PROVE  ProvedOK'
  <2>1. Connection!Rest(p) /\ UNCHANGED clock
    BY <1>4 DEF Connection!Disconnect
  <2>2. CASE conn.status = "DISCONNECTED"
    <3>1. UNCHANGED <<conn, proved>>
      BY <1>4, <2>2 DEF Connection!Disconnect
    <3> QED  BY <1>1, <2>1, <3>1, RowProvedKept
  <2>3. CASE conn.status # "DISCONNECTED"
    <3>1. /\ conn' = [status |-> "DISCONNECTED", token |-> 0, expires |-> 0, updated |-> call[p].now,
                      diagnostic |-> 0, resource |-> Nothing]
          /\ proved' = FALSE
      BY <1>4, <2>3 DEF Connection!Disconnect, Connection!Disconnected
    <3>2. conn'.status = "DISCONNECTED" /\ conn'.token = 0 /\ conn'.diagnostic = 0
      BY <3>1
    <3>3. RowProved(conn', clock, proved')
      BY <1>1, <3>2 DEF RowProved
    <3>4. ASSUME NEW q \in Procs \ {p}
          PROVE  TimesOK(call[q], conn', clock)
      BY <3>2 DEF TimesOK, ProvedOK
    <3> QED  BY <1>2, <2>1, <3>1, <3>3, <3>4
  <2> QED  BY <2>2, <2>3
<1> QED  BY <1>3, <1>4

LEMMA ProvedInit == Connection!Init => ProvedOK
<1> SUFFICES ASSUME Connection!Init PROVE ProvedOK
  OBVIOUS
<1>1. /\ conn = [status |-> "DISCONNECTED", token |-> 0, expires |-> 0, updated |-> 0,
                 diagnostic |-> 0, resource |-> Nothing]
      /\ call = [q \in Procs |-> [at |-> "resting"]] /\ clock = 1 /\ proved = FALSE
  BY DEF Connection!Init, Connection!Disconnected, Connection!Resting
<1>2. conn.token = 0 /\ conn.diagnostic = 0 /\ conn.status = "DISCONNECTED"
  BY <1>1
<1>3. \A q \in Procs : call[q].at = "resting"
  BY <1>1
<1>4. \A q \in Procs : TimesOK(call[q], conn, clock)
  BY <1>2, <1>3 DEF TimesOK
<1>5. conn.diagnostic < clock /\ conn.diagnostic = 0 /\ conn.status \notin {"REFRESH_REQUIRED", "ENABLED"}
  BY <1>1, <1>2
<1>6. RowProved(conn, clock, proved)
  BY <1>5, Zenon DEF RowProved
<1>7. proved \in BOOLEAN
  BY <1>1
<1> QED  BY <1>4, <1>6, <1>7 DEF ProvedOK

LEMMA ProvedNext ==
    TokensSafe /\ ProvedOK /\ Timely /\ [Connection!Next]_(Connection!connVars) => ProvedOK'
<1> SUFFICES ASSUME TokensSafe, ProvedOK, Timely, [Connection!Next]_(Connection!connVars)
             PROVE  ProvedOK'
  OBVIOUS
<1>1. CASE UNCHANGED Connection!connVars
  BY <1>1 DEF Connection!connVars, ProvedOK
<1>2. ASSUME NEW t \in good, Connection!Revoke(t)
      PROVE  ProvedOK'
  BY <1>2 DEF Connection!Revoke, ProvedOK
<1>3. ASSUME NEW p \in Procs, (\E kind \in Connection!Kinds : Connection!Begin(p, kind))
                              \/ Connection!Works(p) \/ Connection!Crash(p)
      PROVE  ProvedOK'
  BY <1>3, CallsProved, AsksProved, RowsProved, RefreshProved, NewRowProved DEF Connection!Works
<1> QED  BY <1>1, <1>2, <1>3 DEF Connection!Next

(* Orders are only looked up over a connection for which a diagnostic has  *)
(* passed since it was last changed, as long as every authorization is     *)
(* stored before its own tokens have expired (jifeng-connection/service.ts,*)
(* setJifengFulfillmentEnabled compares times that were read early).        *)
THEOREM EnabledWhenProved == Connection!Spec /\ []Timely => []EnabledIsProved
<1>1. TokensSafe /\ ProvedOK => EnabledIsProved
  BY DEF TokensSafe, RowOK, ProvedOK, RowProved, EnabledIsProved, Connection!EnabledIsProved
<1> QED  BY <1>1, TokensInit, TokensNext, ProvedInit, ProvedNext, PTL DEF Connection!Spec

-----------------------------------------------------------------------------
(* How the cargo sheet is read. A recursive function over the rows is what *)
(* it says it is because every step stays among the states; what it does   *)
(* is then shown row by row.                                               *)

(* Counting from 0 to L, without an operator for what is counted.          *)
LEMMA UpTo ==
    ASSUME NEW L \in Nat, NEW T, 0 \in T, \A n \in 0..L : n < L /\ n \in T => n + 1 \in T
    PROVE  \A n \in 0..L : n \in T
<1> DEFINE Bad == {n \in 0..L : n \notin T}
<1>1. ASSUME Bad # {}
      PROVE  FALSE
  <2>1. Bad \subseteq Nat
    OBVIOUS
  <2>2. PICK n \in Bad : \A m \in Bad : <<m, n>> \notin OpToRel(<, Nat)
    BY <1>1, <2>1, WFMin, NatLessThanWellFounded, Zenon
  <2>3. n \in 0..L /\ n \notin T /\ n \in Nat /\ n # 0
    BY <2>1
  <2>4. n - 1 \in 0..L /\ n - 1 < L /\ (n - 1) + 1 = n /\ n - 1 < n /\ n - 1 \in Nat
    BY <2>3
  <2>5. n - 1 \notin T
    BY <2>3, <2>4
  <2>6. <<n - 1, n>> \notin OpToRel(<, Nat)
    BY <2>2, <2>4, <2>5
  <2>7. <<n - 1, n>> \in {x \in Nat \X Nat : x[1] < x[2]}
    BY <2>3, <2>4
  <2> QED  BY <2>6, <2>7, Zenon DEF OpToRel
<1> QED  BY <1>1

(* A step that stays among the states can be taken L times.                *)
Iterated(L, S, start, step) ==
    \E f \in [0..L -> S] : f[0] = start /\ \A n \in 1..L : f[n] = step[<<f[n - 1], n>>]
LEMMA Iterates ==
    ASSUME NEW L \in Nat, NEW S, NEW start \in S, NEW step \in [S \X (1..L) -> S]
    PROVE  Iterated(L, S, start, step)
<1> DEFINE Follows(k, f) == f[0] = start /\ \A n \in 1..k : f[n] = step[<<f[n - 1], n>>]
           T == {k \in 0..L : \E f \in [0..k -> S] : Follows(k, f)}
<1>1. 0 \in T
  <2> DEFINE f == [k \in 0..0 |-> start]
  <2>1. f \in [0..0 -> S] /\ f[0] = start /\ 1..0 = {}
    OBVIOUS
  <2>2. Follows(0, f)
    BY <2>1
  <2> HIDE DEF f, Follows
  <2> QED  BY <2>1, <2>2
<1>2. ASSUME NEW k \in 0..L, k < L, k \in T
      PROVE  k + 1 \in T
  <2>1. PICK f \in [0..k -> S] : Follows(k, f)
    BY <1>2
  <2> DEFINE g == [n \in 0..k + 1 |-> IF n = k + 1 THEN step[<<f[k], k + 1>>] ELSE f[n]]
  <2>2. k \in Nat /\ k + 1 \in 1..L /\ k \in 0..k /\ f[k] \in S
    BY <1>2
  <2>3. step[<<f[k], k + 1>>] \in S
    BY <2>2
  <2>4. g \in [0..k + 1 -> S] /\ g[0] = f[0] /\ g[k + 1] = step[<<f[k], k + 1>>]
    BY <2>2, <2>3
  <2>5. \A n \in 0..k : g[n] = f[n]
    BY <2>2
  <2>6. ASSUME NEW n \in 1..k + 1
        PROVE  g[n] = step[<<g[n - 1], n>>]
    <3>1. n - 1 \in 0..k /\ g[n - 1] = f[n - 1]
      BY <2>5, <2>2
    <3>2. CASE n = k + 1
      <4>1. n - 1 = k /\ g[n - 1] = f[k] /\ g[n] = step[<<f[k], k + 1>>]
        BY <3>1, <3>2, <2>4, <2>2
      <4> QED  BY <4>1, <3>2
    <3>3. CASE n # k + 1
      <4>1. n \in 1..k /\ g[n] = f[n]
        BY <3>3, <2>5, <2>2
      <4> QED  BY <4>1, <3>1, <2>1
    <3> QED  BY <3>2, <3>3
  <2>7. Follows(k + 1, g)
    BY <2>4, <2>6, <2>1
  <2> HIDE DEF g, Follows
  <2>8. k + 1 \in 0..L
    BY <2>2
  <2> QED  BY <2>4, <2>7, <2>8
<1>3. L \in T
  <2> HIDE DEF T
  <2>1. \A n \in 0..L : n < L /\ n \in T => n + 1 \in T
    BY <1>2
  <2> QED  BY <1>1, <2>1, UpTo
<1> QED  BY <1>3 DEF Iterated

(* What is known of a sheet, and what the two readings know of its rows.   *)
SheetType == sheet \in Seq(Sheet!RowsSeen) /\ column \in {"price", "image"}
Headings == Sequences \cup {None}
StrictStates ==
    [above : [key : Headings, sequence : Headings, from : Nat],
     rows : Seq([sku : SkuCodes \cup {None}, sequence : Headings, from : Nat]), blocked : BOOLEAN]
Readable == Headings \cup {x[1] : x \in SkuCodes}
MirrorStates ==
    [above : [key : {None} \cup SkuCodes \cup {<<q>> : q \in Readable}, sequence : Readable, from : Nat],
     rows : Seq([sku : SkuCodes \cup {None}, sequence : Readable, from : Nat, complete : BOOLEAN]),
     blocked : BOOLEAN]

LEMMA SheetRows ==
    ASSUME SheetType
    PROVE  /\ Len(sheet) \in Nat
           /\ \A n \in 1..Len(sheet) :
                /\ sheet[n] \in Sheet!RowsSeen
                /\ sheet[n].sku \in SkuCodes \cup {None} /\ sheet[n].sequence \in Headings
                /\ sheet[n].cell \in {"blank", "bad", "given"} /\ sheet[n].counted \in BOOLEAN
<1>1. Len(sheet) \in Nat /\ \A n \in 1..Len(sheet) : sheet[n] \in Sheet!RowsSeen
  BY DEF SheetType
<1>2. \A r \in Sheet!RowsSeen :
         /\ r.sku \in SkuCodes \cup {None} /\ r.sequence \in Headings
         /\ r.cell \in {"blank", "bad", "given"} /\ r.counted \in BOOLEAN
  BY DEF Sheet!RowsSeen, Sheet!Cells, Headings
<1> QED  BY <1>1, <1>2

LEMMA StartTypes == Sheet!Start \in StrictStates /\ Sheet!Start \in MirrorStates
<1>1. <<>> \in Seq([sku : SkuCodes \cup {None}, sequence : Headings, from : Nat])
  OBVIOUS
<1>2. <<>> \in Seq([sku : SkuCodes \cup {None}, sequence : Readable, from : Nat, complete : BOOLEAN])
  OBVIOUS
<1> QED  BY <1>1, <1>2 DEF Sheet!Start, Sheet!NoGroup, StrictStates, MirrorStates, Headings, Readable

LEMMA StrictStep ==
    ASSUME SheetType, NEW s \in StrictStates, NEW n \in 1..Len(sheet)
    PROVE  Sheet!Read(s, n, Sheet!StrictRow(s, n)) \in StrictStates
<1> DEFINE q == Sheet!StrictSequence(s, n)
           from == Sheet!StrictFrom(s, n)
           row == [sku |-> sheet[n].sku, sequence |-> q, from |-> from]
<1>1. n \in Nat /\ sheet[n].sku \in SkuCodes \cup {None} /\ sheet[n].sequence \in Headings
  BY SheetRows
<1>2. /\ s.above \in [key : Headings, sequence : Headings, from : Nat]
      /\ s.rows \in Seq([sku : SkuCodes \cup {None}, sequence : Headings, from : Nat])
      /\ s.blocked \in BOOLEAN
  BY DEF StrictStates
<1>3. q \in Headings
  BY <1>1, <1>2 DEF Sheet!StrictSequence
<1>4. from \in Nat
  BY <1>1, <1>2 DEF Sheet!StrictFrom, Sheet!SameGroup
<1>5. Append(s.rows, row) \in Seq([sku : SkuCodes \cup {None}, sequence : Headings, from : Nat])
  BY <1>1, <1>2, <1>3, <1>4
<1>6. [s EXCEPT !.rows = Append(@, row), !.above = [key |-> q, sequence |-> q, from |-> from]]
        \in StrictStates
  BY <1>2, <1>3, <1>4, <1>5 DEF StrictStates
<1>7. Sheet!Block(s) \in StrictStates /\ Sheet!Reset(s) \in StrictStates
  BY <1>2 DEF StrictStates, Sheet!Block, Sheet!Reset, Sheet!NoGroup, Headings
<1>8. Sheet!StrictRow(s, n) \in StrictStates
  BY <1>6, <1>7 DEF Sheet!StrictRow
<1> QED  BY <1>7, <1>8 DEF Sheet!Read

LEMMA MirrorStep ==
    ASSUME SheetType, NEW s \in MirrorStates, NEW n \in 1..Len(sheet)
    PROVE  Sheet!Read(s, n, Sheet!MirrorRow(s, n)) \in MirrorStates
<1> DEFINE q == Sheet!SyncSequence(s, n)
           key == Sheet!SyncKey(s, n)
           from == Sheet!SyncFrom(s, n)
           row == [sku |-> sheet[n].sku, sequence |-> q, from |-> from, complete |-> Sheet!Complete(s, n)]
<1>1. /\ n \in Nat /\ sheet[n].sku \in SkuCodes \cup {None} /\ sheet[n].sequence \in Headings
      /\ sheet[n].counted \in BOOLEAN
  BY SheetRows
<1>2. /\ s.above \in [key : {None} \cup SkuCodes \cup {<<x>> : x \in Readable}, sequence : Readable, from : Nat]
      /\ s.rows \in Seq([sku : SkuCodes \cup {None}, sequence : Readable, from : Nat, complete : BOOLEAN])
      /\ s.blocked \in BOOLEAN
  BY DEF MirrorStates
<1>3. Sheet!Block(s) \in MirrorStates /\ Sheet!Reset(s) \in MirrorStates
  BY <1>2 DEF MirrorStates, Sheet!Block, Sheet!Reset, Sheet!NoGroup, Headings, Readable
<1>4. ASSUME sheet[n].sku # None
      PROVE  [s EXCEPT !.rows = Append(@, row), !.above = Sheet!SyncAbove(s, n)] \in MirrorStates
  <2>1. q \in Readable
    BY <1>1, <1>2, <1>4 DEF Sheet!SyncSequence, Sheet!Derived, Readable, Headings
  <2>2. key \in {None} \cup SkuCodes \cup {<<x>> : x \in Readable}
    BY <1>1, <1>4, <2>1 DEF Sheet!SyncKey
  <2>3. from \in Nat /\ Sheet!SameGroup(key, s.above) \in Nat
    BY <1>1, <1>2 DEF Sheet!SyncFrom, Sheet!SameGroup
  <2>4. Sheet!Complete(s, n) \in BOOLEAN
    BY <1>1 DEF Sheet!Complete
  <2> DEFINE R == [sku : SkuCodes \cup {None}, sequence : Readable, from : Nat, complete : BOOLEAN]
  <2>5. row \in R
    BY <1>1, <2>1, <2>3, <2>4
  <2>6. Append(s.rows, row) \in Seq(R)
    <3> HIDE DEF row, R
    <3> QED  BY <1>2, <2>5 DEF R
  <2>7. Sheet!SyncAbove(s, n)
          \in [key : {None} \cup SkuCodes \cup {<<x>> : x \in Readable}, sequence : Readable, from : Nat]
    BY <1>1, <2>1, <2>2, <2>3 DEF Sheet!SyncAbove
  <2> HIDE DEF row
  <2> QED  BY <1>2, <2>6, <2>7 DEF MirrorStates
<1>5. Sheet!MirrorRow(s, n) \in MirrorStates
  BY <1>3, <1>4 DEF Sheet!MirrorRow
<1> QED  BY <1>3, <1>5 DEF Sheet!Read

(* The functions exist: the rows are read one after the other.             *)
LEMMA StrictDefined ==
    ASSUME SheetType
    PROVE  /\ Sheet!StrictTo \in [0..Len(sheet) -> StrictStates]
           /\ Sheet!StrictTo[0] = Sheet!Start
           /\ \A n \in 1..Len(sheet) :
                Sheet!StrictTo[n]
                  = Sheet!Read(Sheet!StrictTo[n - 1], n, Sheet!StrictRow(Sheet!StrictTo[n - 1], n))
<1> DEFINE L == Len(sheet)
           Next1(s, n) == Sheet!Read(s, n, Sheet!StrictRow(s, n))
           step == [p \in StrictStates \X (1..L) |-> Next1(p[1], p[2])]
           Read(f) == [n \in 0..L |-> IF n = 0 THEN Sheet!Start ELSE Next1(f[n - 1], n)]
<1>1. L \in Nat
  BY SheetRows
<1>2. \A s \in StrictStates, n \in 1..L : Next1(s, n) \in StrictStates
  BY StrictStep
<1>3. step \in [StrictStates \X (1..L) -> StrictStates]
  <2> HIDE DEF Next1
  <2> QED  BY <1>2
<1>4. Sheet!Start \in StrictStates
  BY StartTypes
<1>5. PICK f \in [0..L -> StrictStates] :
         f[0] = Sheet!Start /\ \A n \in 1..L : f[n] = step[<<f[n - 1], n>>]
  <2>1. Iterated(L, StrictStates, Sheet!Start, step)
    <3> HIDE DEF step, L
    <3> QED  BY <1>1, <1>3, <1>4, Iterates
  <2> HIDE DEF step, L
  <2> QED  BY <2>1 DEF Iterated
<1>6. \A n \in 1..L : n - 1 \in 0..L /\ f[n - 1] \in StrictStates /\ f[n] = Next1(f[n - 1], n)
  <2> HIDE DEF Next1, L
  <2>1. ASSUME NEW n \in 1..L
        PROVE  n - 1 \in 0..L /\ f[n - 1] \in StrictStates /\ f[n] = Next1(f[n - 1], n)
    <3>1. n - 1 \in 0..L /\ f[n - 1] \in StrictStates
      BY <1>1, <1>5
    <3>2. <<f[n - 1], n>> \in StrictStates \X (1..L)
      BY <3>1
    <3>3. step[<<f[n - 1], n>>] = Next1(f[n - 1], n)
      BY <3>2
    <3> HIDE DEF step
    <3> QED  BY <1>5, <3>1, <3>3
  <2> QED  BY <2>1
<1>7. f = Read(f)
  <2> HIDE DEF Next1
  <2> QED  BY <1>5, <1>6
<1>8. Sheet!StrictTo = CHOOSE g : g = Read(g)
  BY Zenon DEF Sheet!StrictTo
<1>9. Sheet!StrictTo = Read(Sheet!StrictTo)
  <2> HIDE DEF Read
  <2> QED  BY <1>7, <1>8
<1>10. Sheet!StrictTo[0] = Sheet!Start
  <2> HIDE DEF Next1
  <2> QED  BY <1>9, <1>1
<1>11. \A n \in 1..L : Sheet!StrictTo[n] = Next1(Sheet!StrictTo[n - 1], n)
  <2> HIDE DEF Next1
  <2> QED  BY <1>9, <1>1
<1> DEFINE T == {n \in 0..L : Sheet!StrictTo[n] \in StrictStates}
<1>12. \A n \in 0..L : n \in T
  <2>1. 0 \in T
    BY <1>10, <1>4, <1>1
  <2>2. ASSUME NEW n \in 0..L, n < L, n \in T
        PROVE  n + 1 \in T
    <3>1. n + 1 \in 1..L /\ (n + 1) - 1 = n
      BY <2>2, <1>1
    <3> HIDE DEF Next1
    <3> QED  BY <3>1, <2>2, <1>11, <1>2
  <2> HIDE DEF T
  <2> QED  BY <2>1, <2>2, <1>1, UpTo
<1>13. Sheet!StrictTo \in [0..L -> StrictStates]
  <2>1. DOMAIN Sheet!StrictTo = 0..L /\ Sheet!StrictTo = [n \in 0..L |-> Sheet!StrictTo[n]]
    <3> HIDE DEF Next1
    <3> QED  BY <1>9
  <2> QED  BY <2>1, <1>12
<1> QED  BY <1>10, <1>11, <1>13

LEMMA MirrorDefined ==
    ASSUME SheetType
    PROVE  /\ Sheet!MirrorTo \in [0..Len(sheet) -> MirrorStates]
           /\ Sheet!MirrorTo[0] = Sheet!Start
           /\ \A n \in 1..Len(sheet) :
                Sheet!MirrorTo[n]
                  = Sheet!Read(Sheet!MirrorTo[n - 1], n, Sheet!MirrorRow(Sheet!MirrorTo[n - 1], n))
<1> DEFINE L == Len(sheet)
           Next1(s, n) == Sheet!Read(s, n, Sheet!MirrorRow(s, n))
           step == [p \in MirrorStates \X (1..L) |-> Next1(p[1], p[2])]
           Read(f) == [n \in 0..L |-> IF n = 0 THEN Sheet!Start ELSE Next1(f[n - 1], n)]
<1>1. L \in Nat
  BY SheetRows
<1>2. \A s \in MirrorStates, n \in 1..L : Next1(s, n) \in MirrorStates
  BY MirrorStep
<1>3. step \in [MirrorStates \X (1..L) -> MirrorStates]
  <2> HIDE DEF Next1
  <2> QED  BY <1>2
<1>4. Sheet!Start \in MirrorStates
  BY StartTypes
<1>5. PICK f \in [0..L -> MirrorStates] :
         f[0] = Sheet!Start /\ \A n \in 1..L : f[n] = step[<<f[n - 1], n>>]
  <2>1. Iterated(L, MirrorStates, Sheet!Start, step)
    <3> HIDE DEF step, L
    <3> QED  BY <1>1, <1>3, <1>4, Iterates
  <2> HIDE DEF step, L
  <2> QED  BY <2>1 DEF Iterated
<1>6. \A n \in 1..L : n - 1 \in 0..L /\ f[n - 1] \in MirrorStates /\ f[n] = Next1(f[n - 1], n)
  <2> HIDE DEF Next1, L
  <2>1. ASSUME NEW n \in 1..L
        PROVE  n - 1 \in 0..L /\ f[n - 1] \in MirrorStates /\ f[n] = Next1(f[n - 1], n)
    <3>1. n - 1 \in 0..L /\ f[n - 1] \in MirrorStates
      BY <1>1, <1>5
    <3>2. <<f[n - 1], n>> \in MirrorStates \X (1..L)
      BY <3>1
    <3>3. step[<<f[n - 1], n>>] = Next1(f[n - 1], n)
      BY <3>2
    <3> HIDE DEF step
    <3> QED  BY <1>5, <3>1, <3>3
  <2> QED  BY <2>1
<1>7. f = Read(f)
  <2> HIDE DEF Next1
  <2> QED  BY <1>5, <1>6
<1>8. Sheet!MirrorTo = CHOOSE g : g = Read(g)
  BY Zenon DEF Sheet!MirrorTo
<1>9. Sheet!MirrorTo = Read(Sheet!MirrorTo)
  <2> HIDE DEF Read
  <2> QED  BY <1>7, <1>8
<1>10. Sheet!MirrorTo[0] = Sheet!Start
  <2> HIDE DEF Next1
  <2> QED  BY <1>9, <1>1
<1>11. \A n \in 1..L : Sheet!MirrorTo[n] = Next1(Sheet!MirrorTo[n - 1], n)
  <2> HIDE DEF Next1
  <2> QED  BY <1>9, <1>1
<1> DEFINE T == {n \in 0..L : Sheet!MirrorTo[n] \in MirrorStates}
<1>12. \A n \in 0..L : n \in T
  <2>1. 0 \in T
    BY <1>10, <1>4, <1>1
  <2>2. ASSUME NEW n \in 0..L, n < L, n \in T
        PROVE  n + 1 \in T
    <3>1. n + 1 \in 1..L /\ (n + 1) - 1 = n
      BY <2>2, <1>1
    <3> HIDE DEF Next1
    <3> QED  BY <3>1, <2>2, <1>11, <1>2
  <2> HIDE DEF T
  <2> QED  BY <2>1, <2>2, <1>1, UpTo
<1>13. Sheet!MirrorTo \in [0..L -> MirrorStates]
  <2>1. DOMAIN Sheet!MirrorTo = 0..L /\ Sheet!MirrorTo = [n \in 0..L |-> Sheet!MirrorTo[n]]
    <3> HIDE DEF Next1
    <3> QED  BY <1>9
  <2> QED  BY <2>1, <1>12
<1> QED  BY <1>10, <1>11, <1>13

-----------------------------------------------------------------------------
(* What a reader sees: a row and the one above it.                         *)
LEMMA Latest ==
    ASSUME NEW S \in SUBSET Nat, NEW m \in S, \A x \in S : x <= m
    PROVE  Sheet!Max(S) = m
<1> DEFINE z == Sheet!Max(S)
<1>1. \A y \in S : m >= y
  OBVIOUS
<1>2. z \in S /\ \A y \in S : z >= y
  BY <1>1, Zenon DEF Sheet!Max
<1>3. z = m
  <2> HIDE DEF z
  <2>1. z >= m /\ z <= m /\ z \in Nat /\ m \in Nat
    BY <1>2
  <2> QED  BY <2>1
<1> QED  BY <1>3

Filled(n) == ~Sheet!BlankRow(sheet[n])
Joined(n) == n > 1 /\ Filled(n - 1)

LEMMA TogetherRows ==
    ASSUME SheetType, NEW n \in 1..Len(sheet), Filled(n)
    PROVE  /\ n \in Sheet!Together(n) /\ Sheet!Together(n) \subseteq 1..n
           /\ ~Joined(n) => Sheet!Together(n) = {n}
           /\ Joined(n) => Sheet!Together(n) = Sheet!Together(n - 1) \cup {n}
<1>1. n \in Nat /\ Len(sheet) \in Nat
  BY SheetRows
<1>2. n \in Sheet!Together(n) /\ Sheet!Together(n) \subseteq 1..n
  BY <1>1 DEF Sheet!Together, Filled
<1>3. ASSUME ~Joined(n), NEW m \in Sheet!Together(n)
      PROVE  m = n
  BY <1>1, <1>3 DEF Sheet!Together, Filled, Joined
<1>4. ASSUME Joined(n), NEW m
      PROVE  m \in Sheet!Together(n) <=> m \in Sheet!Together(n - 1) \cup {n}
  <2>1. n - 1 \in Nat /\ n - 1 >= 1
    BY <1>1, <1>4 DEF Joined
  <2>2. CASE m = n
    BY <1>2, <2>2
  <2>3. CASE m # n
    <3>1. m \in 1..n <=> m \in 1..n - 1
      BY <1>1, <2>1, <2>3
    <3>2. ASSUME m \in 1..n - 1
          PROVE  (\A k \in m..n : Filled(k)) <=> (\A k \in m..n - 1 : Filled(k))
      <4>1. m..n = (m..n - 1) \cup {n}
        BY <1>1, <2>1, <3>2
      <4> HIDE DEF Filled
      <4> QED  BY <4>1
    <3> QED  BY <3>1, <3>2, <2>3 DEF Sheet!Together, Filled
  <2> QED  BY <2>2, <2>3
<1> QED  BY <1>2, <1>3, <1>4

LEMMA HeadingRows ==
    ASSUME SheetType, NEW n \in 1..Len(sheet), Filled(n)
    PROVE  /\ sheet[n].sequence # None => Sheet!Heading(n) = sheet[n].sequence
           /\ sheet[n].sequence = None =>
                Sheet!Heading(n) = IF Joined(n) THEN Sheet!Heading(n - 1) ELSE None
<1>1. n \in Nat /\ Sheet!Headed(n) \in SUBSET Nat
  BY SheetRows, TogetherRows DEF Sheet!Headed
<1>2. ASSUME sheet[n].sequence # None
      PROVE  Sheet!Heading(n) = sheet[n].sequence
  <2>1. n \in Sheet!Headed(n) /\ \A x \in Sheet!Headed(n) : x <= n
    BY <1>1, <1>2, TogetherRows DEF Sheet!Headed
  <2>2. Sheet!Max(Sheet!Headed(n)) = n
    BY <1>1, <2>1, Latest
  <2> QED  BY <2>1, <2>2, Zenon DEF Sheet!Heading
<1>3. ASSUME sheet[n].sequence = None
      PROVE  Sheet!Headed(n) = IF Joined(n) THEN Sheet!Headed(n - 1) ELSE {}
  BY <1>3, TogetherRows DEF Sheet!Headed
<1>4. ASSUME sheet[n].sequence = None
      PROVE  Sheet!Heading(n) = IF Joined(n) THEN Sheet!Heading(n - 1) ELSE None
  BY <1>3, <1>4, Zenon DEF Sheet!Heading
<1> QED  BY <1>2, <1>4

LEMMA GroupRows ==
    ASSUME SheetType, NEW n \in 1..Len(sheet), Filled(n)
    PROVE  /\ n \in Sheet!Group(n) /\ Sheet!Group(n) \subseteq 1..n
           /\ ~(Joined(n) /\ Sheet!Heading(n - 1) = Sheet!Heading(n)) => Sheet!Group(n) = {n}
           /\ Joined(n) /\ Sheet!Heading(n - 1) = Sheet!Heading(n) =>
                Sheet!Group(n) = Sheet!Group(n - 1) \cup {n}
<1>1. n \in Nat
  BY SheetRows
<1>2. n..n = {n}
  BY <1>1
<1>3. n \in Sheet!Group(n)
  BY <1>2, TogetherRows DEF Sheet!Group
<1>4. Sheet!Group(n) \subseteq 1..n
  BY TogetherRows DEF Sheet!Group
<1>5. ASSUME NEW m \in Sheet!Group(n), m # n
      PROVE  Joined(n) /\ Sheet!Heading(n - 1) = Sheet!Heading(n)
  <2>1. Joined(n)
    BY <1>5, TogetherRows DEF Sheet!Group
  <2>2. n - 1 \in m..n
    BY <1>1, <1>4, <1>5
  <2> QED  BY <2>1, <2>2 DEF Sheet!Group
<1>6. ASSUME Joined(n), Sheet!Heading(n - 1) = Sheet!Heading(n), NEW m
      PROVE  m \in Sheet!Group(n) <=> m \in Sheet!Group(n - 1) \cup {n}
  <2>1. CASE m = n
    BY <1>3, <2>1
  <2>2. CASE m # n /\ m \in Sheet!Together(n - 1)
    <3>1. m \in 1..n - 1
      BY <2>2 DEF Sheet!Together
    <3>2. m..n = (m..n - 1) \cup {n}
      BY <1>1, <3>1
    <3>3. m \in Sheet!Together(n)
      BY <1>6, <2>2, TogetherRows
    <3> QED  BY <1>6, <2>2, <3>2, <3>3 DEF Sheet!Group
  <2>3. CASE m # n /\ m \notin Sheet!Together(n - 1)
    <3>1. m \notin Sheet!Together(n)
      BY <1>6, <2>3, TogetherRows
    <3> QED  BY <2>3, <3>1 DEF Sheet!Group
  <2> QED  BY <2>1, <2>2, <2>3
<1>7. Joined(n) /\ Sheet!Heading(n - 1) = Sheet!Heading(n) =>
        Sheet!Group(n) = Sheet!Group(n - 1) \cup {n}
  BY <1>6
<1>8. ~(Joined(n) /\ Sheet!Heading(n - 1) = Sheet!Heading(n)) => Sheet!Group(n) = {n}
  BY <1>3, <1>5
<1> QED  BY <1>3, <1>4, <1>7, <1>8

LEMMA NearestRows ==
    ASSUME SheetType, NEW n \in 1..Len(sheet), Filled(n)
    PROVE  Sheet!Nearest(n) =
             IF sheet[n].cell = "given" THEN n
             ELSE IF Joined(n) /\ Sheet!Heading(n - 1) = Sheet!Heading(n) THEN Sheet!Nearest(n - 1)
             ELSE 0
<1>1. n \in Nat /\ Sheet!Given(n) \in SUBSET Nat
  BY SheetRows, GroupRows DEF Sheet!Given
<1>2. ASSUME sheet[n].cell = "given"
      PROVE  Sheet!Nearest(n) = n
  <2>1. n \in Sheet!Given(n) /\ \A x \in Sheet!Given(n) : x <= n
    BY <1>1, <1>2, GroupRows DEF Sheet!Given
  <2>2. Sheet!Max(Sheet!Given(n)) = n
    BY <1>1, <2>1, Latest
  <2> QED  BY <2>1, <2>2, Zenon DEF Sheet!Nearest
<1>3. ASSUME sheet[n].cell # "given"
      PROVE  Sheet!Given(n) = IF Joined(n) /\ Sheet!Heading(n - 1) = Sheet!Heading(n)
                              THEN Sheet!Given(n - 1) ELSE {}
  BY <1>3, GroupRows DEF Sheet!Given
<1>4. ASSUME sheet[n].cell # "given"
      PROVE  Sheet!Nearest(n) = IF Joined(n) /\ Sheet!Heading(n - 1) = Sheet!Heading(n)
                                THEN Sheet!Nearest(n - 1) ELSE 0
  BY <1>3, <1>4, Zenon DEF Sheet!Nearest
<1> QED  BY <1>2, <1>4

-----------------------------------------------------------------------------
(* Invariants of the two readings, after n rows.                           *)

(* The rows that the strict reading has are the entries up to there, in    *)
(* their places, and what it knows of the group is what stands above.      *)
EntriesTo(n) == {m \in Sheet!Entries : m <= n}
RowSeen(m) == [sku |-> sheet[m].sku, sequence |-> Sheet!Heading(m), from |-> Sheet!Nearest(m)]
AboveSeen(n, above) ==
    IF n = 0 \/ ~Filled(n) THEN above = Sheet!NoGroup
    ELSE \/ Sheet!Draft(n)
         \/ /\ above = [key |-> Sheet!Heading(n), sequence |-> Sheet!Heading(n), from |-> Sheet!Nearest(n)]
            /\ Sheet!Heading(n) # None /\ Sheet!Nearest(n) # 0
StrictSeen(n) ==
    ~Sheet!StrictTo[n].blocked =>
        /\ Len(Sheet!StrictTo[n].rows) = Cardinality(EntriesTo(n))
        /\ \A m \in EntriesTo(n) : Sheet!StrictTo[n].rows[Sheet!Place(m)] = RowSeen(m)
        /\ AboveSeen(n, Sheet!StrictTo[n].above)

(* The mirror has every row that is not blank, and inherits only values    *)
(* from rows above without a gap.                                          *)
Written(n, r) ==
    /\ sheet[r.from].cell = "given" /\ r.sequence # None /\ Sheet!Matches(r.sku, r.sequence)
    /\ \E k \in 1..n : sheet[k].sku = r.sku /\ r.from \in Sheet!Together(k)
ValueAbove(n, from) ==
    from # 0 => n > 0 /\ Filled(n) /\ from \in Sheet!Together(n) /\ sheet[from].cell = "given"
MirrorKeeps(n) ==
    ~Sheet!MirrorTo[n].blocked =>
        /\ Len(Sheet!MirrorTo[n].rows) = Cardinality({m \in 1..n : Filled(m)})
        /\ \A i \in 1..Len(Sheet!MirrorTo[n].rows) :
              Sheet!MirrorTo[n].rows[i].complete => Written(n, Sheet!MirrorTo[n].rows[i])
        /\ ValueAbove(n, Sheet!MirrorTo[n].above.from)

(* On a sheet without drafts and bad pictures both know the same.          *)
Clean == \A n \in 1..Len(sheet) : ~Sheet!Draft(n) /\ (column = "price" \/ sheet[n].cell # "bad")
SameRow(s, m, i) ==
    m.rows[i] = [sku |-> s.rows[i].sku, sequence |-> s.rows[i].sequence, from |-> s.rows[i].from,
                 complete |-> TRUE]
SameAbove(s, m) ==
    /\ m.above.sequence = s.above.sequence /\ m.above.from = s.above.from
    /\ s.above.key = s.above.sequence
    /\ IF s.above.sequence = None THEN s.above.from = 0 ELSE m.above.key = <<s.above.sequence>>
SameReading(s, m) ==
    ~s.blocked =>
        /\ ~m.blocked /\ Len(m.rows) = Len(s.rows) /\ SameAbove(s, m)
        /\ \A i \in 1..Len(s.rows) : SameRow(s, m, i)

(* One row, read strictly, and as the mirror reads it.                    *)
LEMMA SameSheetCardinality == \A S : Sheet!Cardinality(S) = Cardinality(S)
BY DEF Sheet!Cardinality, Cardinality

LEMMA StrictRead ==
    ASSUME SheetType, NEW s \in StrictStates, NEW n \in 1..Len(sheet), NEW t,
           t = Sheet!Read(s, n, Sheet!StrictRow(s, n)), ~t.blocked
    PROVE  /\ ~s.blocked
           /\ \/ ~Filled(n) /\ t.rows = s.rows /\ t.above = Sheet!NoGroup
              \/ Filled(n) /\ Sheet!Draft(n) /\ t = s
              \/ /\ Filled(n) /\ ~Sheet!Draft(n) /\ sheet[n].sku # None /\ sheet[n].counted
                 /\ Sheet!StrictSequence(s, n) # None /\ Sheet!StrictFrom(s, n) # 0
                 /\ Sheet!Matches(sheet[n].sku, Sheet!StrictSequence(s, n))
                 /\ t.rows = Append(s.rows, [sku |-> sheet[n].sku, sequence |-> Sheet!StrictSequence(s, n),
                                             from |-> Sheet!StrictFrom(s, n)])
                 /\ t.above = [key |-> Sheet!StrictSequence(s, n), sequence |-> Sheet!StrictSequence(s, n),
                               from |-> Sheet!StrictFrom(s, n)]
<1>1. /\ s = [above |-> s.above, rows |-> s.rows, blocked |-> s.blocked]
      /\ s.blocked \in BOOLEAN
  BY DEF StrictStates
<1>2. Sheet!Block(s).blocked = TRUE
  BY <1>1 DEF Sheet!Block
<1>3. CASE ~Filled(n)
  <2>1. t = Sheet!Reset(s)
    BY <1>3 DEF Sheet!Read, Filled
  <2>2. t.rows = s.rows /\ t.above = Sheet!NoGroup /\ t.blocked = s.blocked
    BY <1>1, <2>1 DEF Sheet!Reset
  <2> QED  BY <1>3, <2>2
<1>4. CASE Filled(n)
  <2>1. t = Sheet!StrictRow(s, n)
    BY <1>4 DEF Sheet!Read, Filled
  <2>2. sheet[n].sku # None
    <3>1. ASSUME sheet[n].sku = None
          PROVE  Sheet!StrictRow(s, n) = Sheet!Block(s)
      BY <3>1, Zenon DEF Sheet!StrictRow, Sheet!Draft
    <3> QED  BY <3>1, <2>1, <1>2
  <2>3. CASE Sheet!Draft(n)
    BY <1>4, <2>1, <2>2, <2>3 DEF Sheet!StrictRow
  <2>4. CASE ~Sheet!Draft(n)
    <3> DEFINE q == Sheet!StrictSequence(s, n)
               from == Sheet!StrictFrom(s, n)
               row == [sku |-> sheet[n].sku, sequence |-> q, from |-> from]
    <3>0. t = IF q = None \/ ~Sheet!Matches(sheet[n].sku, q) \/ from = 0
                  \/ ~sheet[n].counted \/ Sheet!Repeated(n)
              THEN Sheet!Block(s)
              ELSE [s EXCEPT !.rows = Append(@, row),
                             !.above = [key |-> row.sequence, sequence |-> row.sequence, from |-> row.from]]
      BY <2>1, <2>2, <2>4 DEF Sheet!StrictRow
    <3>1. /\ q # None /\ Sheet!Matches(sheet[n].sku, q) /\ from # 0 /\ sheet[n].counted
          /\ t = [s EXCEPT !.rows = Append(@, row),
                           !.above = [key |-> row.sequence, sequence |-> row.sequence, from |-> row.from]]
      <4> HIDE DEF q, from, row
      <4> QED  BY <3>0, <1>2
    <3> HIDE DEF q, from
    <3>2. /\ t.rows = Append(s.rows, row) /\ t.blocked = s.blocked
          /\ t.above = [key |-> q, sequence |-> q, from |-> from]
      BY <1>1, <3>1
    <3> QED  BY <1>4, <2>2, <2>4, <3>1, <3>2 DEF q, from
  <2> QED  BY <2>3, <2>4
<1> QED  BY <1>3, <1>4

(* After a draft there is nothing in the sheet.                            *)
LEMMA DraftIsLast ==
    ASSUME SheetType, NEW n \in 1..Len(sheet), n > 1, Sheet!Draft(n - 1)
    PROVE  sheet[n].sku = None
<1>1. n \in (n - 1) + 1..Len(sheet)
  BY SheetRows
<1> QED  BY <1>1 DEF Sheet!Draft, Sheet!Empty

(* The strict reading of a row under a group that is known as it is seen.  *)
LEMMA StrictIsSeen ==
    ASSUME SheetType, NEW s \in StrictStates, NEW n \in 1..Len(sheet), Filled(n), sheet[n].sku # None,
           AboveSeen(n - 1, s.above),
           Sheet!StrictSequence(s, n) # None, Sheet!StrictFrom(s, n) # 0
    PROVE  Sheet!StrictSequence(s, n) = Sheet!Heading(n) /\ Sheet!StrictFrom(s, n) = Sheet!Nearest(n)
<1>1. /\ n \in Nat /\ n - 1 \in Nat /\ (n > 1 <=> n - 1 # 0)
      /\ n > 1 => n - 1 \in 1..Len(sheet)
  BY SheetRows
<1>2. CASE Joined(n)
  <2>1. /\ s.above.key = Sheet!Heading(n - 1) /\ s.above.sequence = Sheet!Heading(n - 1)
        /\ s.above.from = Sheet!Nearest(n - 1)
    <3>1. ~Sheet!Draft(n - 1) /\ n - 1 # 0 /\ Filled(n - 1)
      BY <1>1, <1>2, DraftIsLast DEF Joined
    <3> QED  BY <3>1 DEF AboveSeen
  <2>2. Sheet!StrictSequence(s, n) = Sheet!Heading(n)
    BY <1>2, <2>1, HeadingRows DEF Sheet!StrictSequence
  <2>3. Sheet!StrictFrom(s, n) = Sheet!Nearest(n)
    BY <1>2, <2>1, <2>2, NearestRows DEF Sheet!StrictFrom, Sheet!SameGroup
  <2> QED  BY <2>2, <2>3
<1>3. CASE ~Joined(n)
  <2>1. s.above.sequence = None /\ s.above.from = 0
    BY <1>1, <1>3 DEF AboveSeen, Joined, Sheet!NoGroup
  <2>2. Sheet!StrictSequence(s, n) = Sheet!Heading(n)
    BY <1>3, <2>1, HeadingRows DEF Sheet!StrictSequence
  <2>3. Sheet!StrictFrom(s, n) = Sheet!Nearest(n)
    BY <1>3, <2>1, NearestRows DEF Sheet!StrictFrom, Sheet!SameGroup
  <2> QED  BY <2>2, <2>3
<1> QED  BY <1>2, <1>3

LEMMA EntriesUpTo ==
    ASSUME SheetType, NEW n \in 1..Len(sheet)
    PROVE  /\ IsFiniteSet(EntriesTo(n)) /\ IsFiniteSet(EntriesTo(n - 1))
           /\ n \in Sheet!Entries => /\ EntriesTo(n) = EntriesTo(n - 1) \cup {n}
                                     /\ Cardinality(EntriesTo(n)) = Cardinality(EntriesTo(n - 1)) + 1
           /\ n \notin Sheet!Entries => EntriesTo(n) = EntriesTo(n - 1)
<1>1. Len(sheet) \in Nat /\ n \in Nat /\ Sheet!Entries \subseteq 1..Len(sheet)
  BY SheetRows DEF Sheet!Entries
<1>2. IsFiniteSet(1..Len(sheet))
  BY <1>1, FS_Interval
<1>3. EntriesTo(n) \subseteq 1..Len(sheet) /\ EntriesTo(n - 1) \subseteq 1..Len(sheet)
  BY <1>1 DEF EntriesTo
<1>4. IsFiniteSet(EntriesTo(n)) /\ IsFiniteSet(EntriesTo(n - 1))
  BY <1>2, <1>3, FS_Subset
<1>5. n \in Sheet!Entries => EntriesTo(n) = EntriesTo(n - 1) \cup {n}
  <2>1. \A m \in 1..Len(sheet) : m <= n <=> m <= n - 1 \/ m = n
    BY <1>1
  <2> QED  BY <2>1, <1>1, Zenon DEF EntriesTo
<1>6. n \notin EntriesTo(n - 1)
  BY <1>1 DEF EntriesTo
<1>7. n \in Sheet!Entries => Cardinality(EntriesTo(n)) = Cardinality(EntriesTo(n - 1)) + 1
  BY <1>4, <1>5, <1>6, FS_AddElement
<1>8. n \notin Sheet!Entries => EntriesTo(n) = EntriesTo(n - 1)
  <2>1. \A m \in 1..Len(sheet) : m # n => (m <= n <=> m <= n - 1)
    BY <1>1
  <2> QED  BY <2>1, <1>1, Zenon DEF EntriesTo
<1> QED  BY <1>4, <1>5, <1>7, <1>8

LEMMA PlaceBounds ==
    ASSUME SheetType, NEW n \in 0..Len(sheet), NEW m \in EntriesTo(n)
    PROVE  /\ m \in 1..Len(sheet) /\ Sheet!Place(m) = Cardinality(EntriesTo(m))
           /\ Sheet!Place(m) \in 1..Cardinality(EntriesTo(n))
<1>1. Len(sheet) \in Nat /\ n \in Nat /\ m \in 1..Len(sheet) /\ m <= n /\ m \in Sheet!Entries
  BY SheetRows DEF EntriesTo, Sheet!Entries
<1>2. Sheet!Place(m) = Cardinality(EntriesTo(m))
  BY SameSheetCardinality DEF Sheet!Place, EntriesTo
<1>3. n \in 1..Len(sheet)
  BY <1>1
<1>4. IsFiniteSet(EntriesTo(n)) /\ IsFiniteSet(EntriesTo(m))
  BY <1>1, <1>3, EntriesUpTo
<1>5. EntriesTo(m) \subseteq EntriesTo(n) /\ m \in EntriesTo(m)
  BY <1>1 DEF EntriesTo, Sheet!Entries
<1>6. /\ Cardinality(EntriesTo(m)) <= Cardinality(EntriesTo(n))
      /\ Cardinality(EntriesTo(m)) \in Nat /\ Cardinality(EntriesTo(n)) \in Nat
  BY <1>4, <1>5, FS_Subset, FS_CardinalityType
<1>7. Cardinality(EntriesTo(m)) # 0
  BY <1>4, <1>5, FS_EmptySet
<1> QED  BY <1>1, <1>2, <1>6, <1>7

LEMMA Appended ==
    ASSUME NEW R, NEW rows \in Seq(R), NEW e
    PROVE  /\ Len(Append(rows, e)) = Len(rows) + 1 /\ Append(rows, e)[Len(rows) + 1] = e
           /\ \A i \in 1..Len(rows) : Append(rows, e)[i] = rows[i]
<1> DEFINE S == R \cup {e}
<1>1. rows \in Seq(S) /\ e \in S
  <2>1. rows \in Seq(R) /\ R \subseteq S /\ e \in S
    OBVIOUS
  <2> HIDE DEF S
  <2>2. Len(rows) \in Nat /\ rows = [i \in 1..Len(rows) |-> rows[i]]
    BY <2>1
  <2>3. \A i \in 1..Len(rows) : rows[i] \in S
    BY <2>1
  <2> QED  BY <2>1, <2>2, <2>3
<1> HIDE DEF S
<1> QED  BY <1>1

LEMMA StrictSeenStart == ASSUME SheetType PROVE StrictSeen(0)
<1>1. Len(sheet) \in Nat /\ EntriesTo(0) = {}
  BY SheetRows DEF EntriesTo, Sheet!Entries
<1>2. Cardinality(EntriesTo(0)) = 0
  BY <1>1, FS_EmptySet
<1>3. Sheet!StrictTo[0].rows = <<>> /\ Sheet!StrictTo[0].above = Sheet!NoGroup
  BY StrictDefined DEF Sheet!Start
<1> QED  BY <1>1, <1>2, <1>3 DEF StrictSeen, AboveSeen

LEMMA StrictSeenStep ==
    ASSUME SheetType, NEW n \in 1..Len(sheet), StrictSeen(n - 1)
    PROVE  StrictSeen(n)
<1> DEFINE s == Sheet!StrictTo[n - 1]
           t == Sheet!StrictTo[n]
<1> SUFFICES ASSUME ~t.blocked
             PROVE  /\ Len(t.rows) = Cardinality(EntriesTo(n))
                    /\ \A m \in EntriesTo(n) : t.rows[Sheet!Place(m)] = RowSeen(m)
                    /\ AboveSeen(n, t.above)
  BY DEF StrictSeen
<1>1. Len(sheet) \in Nat /\ n \in Nat /\ n # 0 /\ n - 1 \in 0..Len(sheet)
  BY SheetRows
<1>2. s \in StrictStates /\ t = Sheet!Read(s, n, Sheet!StrictRow(s, n))
  BY <1>1, StrictDefined
<1> HIDE DEF s, t
<1>3. ~s.blocked
  BY <1>2, StrictRead
<1>4. /\ Len(s.rows) = Cardinality(EntriesTo(n - 1))
      /\ \A m \in EntriesTo(n - 1) : s.rows[Sheet!Place(m)] = RowSeen(m)
      /\ AboveSeen(n - 1, s.above)
  BY <1>3 DEF StrictSeen, s
<1>5. CASE ~Filled(n) /\ t.rows = s.rows /\ t.above = Sheet!NoGroup
  <2>1. EntriesTo(n) = EntriesTo(n - 1)
    BY <1>5, EntriesUpTo DEF Sheet!Entries, Filled
  <2> QED  BY <1>4, <1>5, <2>1 DEF AboveSeen
<1>6. CASE Filled(n) /\ Sheet!Draft(n) /\ t = s
  <2>1. EntriesTo(n) = EntriesTo(n - 1)
    BY <1>6, EntriesUpTo DEF Sheet!Entries
  <2> QED  BY <1>1, <1>4, <1>6, <2>1 DEF AboveSeen
<1>7. CASE /\ Filled(n) /\ ~Sheet!Draft(n) /\ sheet[n].sku # None
           /\ Sheet!StrictSequence(s, n) # None /\ Sheet!StrictFrom(s, n) # 0
           /\ t.rows = Append(s.rows, [sku |-> sheet[n].sku, sequence |-> Sheet!StrictSequence(s, n),
                                       from |-> Sheet!StrictFrom(s, n)])
           /\ t.above = [key |-> Sheet!StrictSequence(s, n), sequence |-> Sheet!StrictSequence(s, n),
                         from |-> Sheet!StrictFrom(s, n)]
  <2>1. Sheet!StrictSequence(s, n) = Sheet!Heading(n) /\ Sheet!StrictFrom(s, n) = Sheet!Nearest(n)
    BY <1>2, <1>4, <1>7, StrictIsSeen
  <2>2. n \in Sheet!Entries
    BY <1>7 DEF Sheet!Entries, Filled
  <2>3. /\ EntriesTo(n) = EntriesTo(n - 1) \cup {n}
        /\ Cardinality(EntriesTo(n)) = Cardinality(EntriesTo(n - 1)) + 1
    BY <2>2, EntriesUpTo
  <2>4. t.rows = Append(s.rows, RowSeen(n))
    BY <1>7, <2>1 DEF RowSeen
  <2> DEFINE e == RowSeen(n)
             c == Cardinality(EntriesTo(n - 1))
  <2>5. s.rows \in Seq([sku : SkuCodes \cup {None}, sequence : Headings, from : Nat])
    BY <1>2 DEF StrictStates
  <2>6. /\ Len(t.rows) = c + 1 /\ t.rows[c + 1] = e
        /\ \A i \in 1..c : t.rows[i] = s.rows[i]
    <3> HIDE DEF e
    <3> QED  BY <1>4, <2>4, <2>5, Appended DEF e
  <2>7. ASSUME NEW m \in EntriesTo(n)
        PROVE  t.rows[Sheet!Place(m)] = RowSeen(m)
    <3>1. CASE m = n
      <4>1. Sheet!Place(m) = Cardinality(EntriesTo(m))
        BY <1>1, PlaceBounds
      <4>2. Sheet!Place(m) = c + 1
        BY <2>3, <3>1, <4>1
      <4> HIDE DEF c
      <4> QED  BY <2>6, <3>1, <4>2
    <3>2. CASE m # n
      <4>1. m \in EntriesTo(n - 1)
        BY <2>3, <3>2
      <4>2. Sheet!Place(m) \in 1..c
        BY <1>1, <4>1, PlaceBounds
      <4> QED  BY <1>4, <2>6, <4>1, <4>2
    <3> QED  BY <3>1, <3>2
  <2>8. AboveSeen(n, t.above)
    BY <1>1, <1>7, <2>1 DEF AboveSeen
  <2> QED  BY <2>3, <2>6, <2>7, <2>8
<1> QED  BY <1>2, <1>5, <1>6, <1>7, StrictRead

LEMMA StrictReading ==
    ASSUME SheetType
    PROVE  Sheet!ReadsWhatIsSeen(Sheet!Strict)
<1> DEFINE L == Len(sheet)
           T == {n \in 0..L : StrictSeen(n)}
<1>1. L \in Nat
  BY SheetRows
<1>2. \A n \in 0..L : n \in T
  <2>1. 0 \in T
    BY <1>1, StrictSeenStart
  <2>2. ASSUME NEW n \in 0..L, n < L, n \in T
        PROVE  n + 1 \in T
    <3>1. n + 1 \in 1..L /\ n + 1 \in 0..L /\ (n + 1) - 1 = n /\ StrictSeen(n)
      BY <1>1, <2>2
    <3>2. StrictSeen((n + 1) - 1)
      BY <3>1
    <3>3. StrictSeen(n + 1)
      BY <3>1, <3>2, StrictSeenStep
    <3> QED  BY <3>1, <3>3
  <2> HIDE DEF T, L
  <2> QED  BY <1>1, <2>1, <2>2, UpTo
<1>3. StrictSeen(L) /\ L \in 0..L
  BY <1>1, <1>2
<1>4. Sheet!StrictTo[L] \in StrictStates
  BY <1>3, StrictDefined
<1>5. /\ Sheet!Strict.rows = Sheet!StrictTo[L].rows
      /\ ~Sheet!Strict.blocked => ~Sheet!StrictTo[L].blocked
  <2> DEFINE s == Sheet!StrictTo[L]
  <2>1. Sheet!Strict = [s EXCEPT !.blocked = @ \/ \E n \in 1..L : Sheet!Repeated(n)]
    BY DEF Sheet!Strict, Sheet!Finish
  <2> HIDE DEF s, L
  <2>2. s = [above |-> s.above, rows |-> s.rows, blocked |-> s.blocked] /\ s.blocked \in BOOLEAN
    BY <1>4 DEF StrictStates, s
  <2> QED  BY <2>1, <2>2 DEF s
<1>6. EntriesTo(L) = Sheet!Entries
  BY <1>1 DEF EntriesTo, Sheet!Entries
<1> HIDE DEF L
<1> QED  BY <1>3, <1>5, <1>6, SameSheetCardinality DEF Sheet!ReadsWhatIsSeen, StrictSeen, RowSeen

LEMMA MirrorForward ==
    ASSUME SheetType, NEW s \in MirrorStates, NEW n \in 1..Len(sheet), NEW t,
           t = Sheet!Read(s, n, Sheet!MirrorRow(s, n))
    PROVE  /\ ~Filled(n) => t.rows = s.rows /\ t.above = Sheet!NoGroup /\ t.blocked = s.blocked
           /\ /\ Filled(n) /\ sheet[n].sku # None
              /\ sheet[n].sequence # None => Sheet!Matches(sheet[n].sku, sheet[n].sequence)
              => /\ t.rows = Append(s.rows, [sku |-> sheet[n].sku, sequence |-> Sheet!SyncSequence(s, n),
                                             from |-> Sheet!SyncFrom(s, n), complete |-> Sheet!Complete(s, n)])
                 /\ t.above = Sheet!SyncAbove(s, n) /\ t.blocked = s.blocked
<1>1. /\ s = [above |-> s.above, rows |-> s.rows, blocked |-> s.blocked]
      /\ s.blocked \in BOOLEAN
  BY DEF MirrorStates
<1>2. ASSUME ~Filled(n)
      PROVE  t.rows = s.rows /\ t.above = Sheet!NoGroup /\ t.blocked = s.blocked
  <2>1. t = Sheet!Reset(s)
    BY <1>2 DEF Sheet!Read, Filled
  <2> QED  BY <1>1, <2>1 DEF Sheet!Reset
<1> DEFINE row == [sku |-> sheet[n].sku, sequence |-> Sheet!SyncSequence(s, n),
                   from |-> Sheet!SyncFrom(s, n), complete |-> Sheet!Complete(s, n)]
           above == Sheet!SyncAbove(s, n)
<1>3. ASSUME Filled(n), sheet[n].sku # None,
             sheet[n].sequence # None => Sheet!Matches(sheet[n].sku, sheet[n].sequence)
      PROVE  t.rows = Append(s.rows, row) /\ t.above = above /\ t.blocked = s.blocked
  <2>1. t = Sheet!MirrorRow(s, n)
    BY <1>3 DEF Sheet!Read, Filled
  <2>2. t = [s EXCEPT !.rows = Append(@, row), !.above = above]
    BY <1>3, <2>1 DEF Sheet!MirrorRow
  <2> HIDE DEF row, above
  <2> QED  BY <1>1, <2>2
<1> QED  BY <1>2, <1>3

LEMMA MirrorRead ==
    ASSUME SheetType, NEW s \in MirrorStates, NEW n \in 1..Len(sheet), NEW t,
           t = Sheet!Read(s, n, Sheet!MirrorRow(s, n)), ~t.blocked
    PROVE  /\ ~s.blocked
           /\ \/ ~Filled(n) /\ t.rows = s.rows /\ t.above = Sheet!NoGroup
              \/ /\ Filled(n) /\ sheet[n].sku # None
                 /\ sheet[n].sequence # None => Sheet!Matches(sheet[n].sku, sheet[n].sequence)
                 /\ t.rows = Append(s.rows, [sku |-> sheet[n].sku, sequence |-> Sheet!SyncSequence(s, n),
                                             from |-> Sheet!SyncFrom(s, n), complete |-> Sheet!Complete(s, n)])
                 /\ t.above = Sheet!SyncAbove(s, n)
<1>1. /\ s = [above |-> s.above, rows |-> s.rows, blocked |-> s.blocked]
      /\ s.blocked \in BOOLEAN
  BY DEF MirrorStates
<1>2. Sheet!Block(s).blocked = TRUE
  BY <1>1 DEF Sheet!Block
<1>3. CASE ~Filled(n)
  BY <1>3, MirrorForward
<1>4. CASE Filled(n)
  <2> DEFINE wrong == sheet[n].sequence # None /\ ~Sheet!Matches(sheet[n].sku, sheet[n].sequence)
  <2>1. t = Sheet!MirrorRow(s, n)
    BY <1>4 DEF Sheet!Read, Filled
  <2>2. sheet[n].sku # None
    <3>1. ASSUME sheet[n].sku = None
          PROVE  Sheet!MirrorRow(s, n) = Sheet!Block(s)
      BY <3>1, Zenon DEF Sheet!MirrorRow
    <3> QED  BY <3>1, <2>1, <1>2
  <2>3. ~wrong
    <3>1. ASSUME wrong
          PROVE  Sheet!MirrorRow(s, n) = Sheet!Block(s)
      BY <3>1, <2>2, Zenon DEF Sheet!MirrorRow
    <3> QED  BY <3>1, <2>1, <1>2
  <2> QED  BY <1>4, <2>2, <2>3, MirrorForward
<1> QED  BY <1>3, <1>4

FilledTo(n) == {m \in 1..n : Filled(m)}
LEMMA FilledUpTo ==
    ASSUME SheetType, NEW n \in 1..Len(sheet)
    PROVE  /\ Filled(n) => Cardinality(FilledTo(n)) = Cardinality(FilledTo(n - 1)) + 1
           /\ ~Filled(n) => FilledTo(n) = FilledTo(n - 1)
<1>1. n \in Nat
  BY SheetRows
<1>2. \A m : m \in 1..n <=> m = n \/ m \in 1..n - 1
  BY <1>1
<1>3. IsFiniteSet(1..n - 1) /\ FilledTo(n - 1) \subseteq 1..n - 1
  BY <1>1, FS_Interval DEF FilledTo
<1>4. IsFiniteSet(FilledTo(n - 1)) /\ n \notin FilledTo(n - 1)
  BY <1>1, <1>3, FS_Subset
<1>5. Filled(n) => FilledTo(n) = FilledTo(n - 1) \cup {n}
  BY <1>2, Zenon DEF FilledTo
<1>6. ~Filled(n) => FilledTo(n) = FilledTo(n - 1)
  BY <1>2, Zenon DEF FilledTo
<1> QED  BY <1>4, <1>5, <1>6, FS_AddElement

LEMMA ValueInherited ==
    ASSUME SheetType, NEW n \in 1..Len(sheet), Filled(n), NEW above, NEW key,
           ValueAbove(n - 1, above.from)
    PROVE  ValueAbove(n, Sheet!SameGroup(key, above))
<1>1. n \in Nat /\ (n - 1 > 0 => n > 1)
  BY SheetRows
<1>2. ASSUME above.from # 0
      PROVE  above.from \in Sheet!Together(n) /\ sheet[above.from].cell = "given"
  BY <1>1, <1>2, TogetherRows DEF ValueAbove, Joined
<1>3. Sheet!SameGroup(key, above) \in {0, above.from} /\ n > 0
  BY <1>1 DEF Sheet!SameGroup
<1> QED  BY <1>2, <1>3 DEF ValueAbove

LEMMA MirrorKeepsStep ==
    ASSUME SheetType, NEW n \in 1..Len(sheet), MirrorKeeps(n - 1)
    PROVE  MirrorKeeps(n)
<1> DEFINE s == Sheet!MirrorTo[n - 1]
           t == Sheet!MirrorTo[n]
<1> SUFFICES ASSUME ~t.blocked
             PROVE  /\ Len(t.rows) = Cardinality(FilledTo(n))
                    /\ \A i \in 1..Len(t.rows) : t.rows[i].complete => Written(n, t.rows[i])
                    /\ ValueAbove(n, t.above.from)
  BY DEF MirrorKeeps, FilledTo
<1>1. n \in Nat /\ n > 0 /\ n - 1 \in 0..Len(sheet)
  BY SheetRows
<1>2. s \in MirrorStates /\ t = Sheet!Read(s, n, Sheet!MirrorRow(s, n))
  BY <1>1, MirrorDefined
<1> HIDE DEF s, t
<1>3. ~s.blocked
  BY <1>2, MirrorRead
<1>4. /\ Len(s.rows) = Cardinality(FilledTo(n - 1))
      /\ \A i \in 1..Len(s.rows) : s.rows[i].complete => Written(n - 1, s.rows[i])
      /\ ValueAbove(n - 1, s.above.from)
  BY <1>3 DEF MirrorKeeps, FilledTo, s
<1>5. \A r : Written(n - 1, r) => Written(n, r)
  BY <1>1 DEF Written
<1>6. CASE ~Filled(n) /\ t.rows = s.rows /\ t.above = Sheet!NoGroup
  BY <1>4, <1>5, <1>6, FilledUpTo DEF ValueAbove, Sheet!NoGroup
<1> DEFINE row == [sku |-> sheet[n].sku, sequence |-> Sheet!SyncSequence(s, n),
                   from |-> Sheet!SyncFrom(s, n), complete |-> Sheet!Complete(s, n)]
<1>7. CASE /\ Filled(n) /\ sheet[n].sku # None
           /\ sheet[n].sequence # None => Sheet!Matches(sheet[n].sku, sheet[n].sequence)
           /\ t.rows = Append(s.rows, row) /\ t.above = Sheet!SyncAbove(s, n)
  <2>1. \A key : ValueAbove(n, Sheet!SameGroup(key, s.above))
    BY <1>4, <1>7, ValueInherited
  <2>2. sheet[n].cell = "given" => ValueAbove(n, n)
    BY <1>1, <1>7, TogetherRows DEF ValueAbove
  <2>3. ValueAbove(n, Sheet!SyncFrom(s, n))
    <3>1. ValueAbove(n, 0)
      BY DEF ValueAbove
    <3> QED  BY <2>1, <2>2, <3>1 DEF Sheet!SyncFrom
  <2>4. ValueAbove(n, t.above.from)
    BY <1>7, <2>1, <2>2 DEF Sheet!SyncAbove
  <2>5. ASSUME row.complete
        PROVE  Written(n, row)
    <3>1. /\ Sheet!SyncFrom(s, n) # 0
          /\ sheet[n].sequence # None \/ Sheet!Inherited(s, n)
      BY <2>5 DEF Sheet!Complete
    <3>2. row.sequence # None /\ Sheet!Matches(row.sku, row.sequence)
      BY <1>7, <3>1 DEF Sheet!SyncSequence, Sheet!Inherited
    <3>3. row.from \in Sheet!Together(n) /\ sheet[row.from].cell = "given"
      BY <2>3, <3>1 DEF ValueAbove
    <3>4. n \in 1..n /\ sheet[n].sku = row.sku
      BY <1>1
    <3> QED  BY <3>2, <3>3, <3>4 DEF Written
  <2>6. s.rows \in Seq([sku : SkuCodes \cup {None}, sequence : Readable, from : Nat, complete : BOOLEAN])
    BY <1>2 DEF MirrorStates
  <2>7. /\ Len(t.rows) = Len(s.rows) + 1 /\ t.rows[Len(s.rows) + 1] = row /\ Len(s.rows) \in Nat
        /\ \A i \in 1..Len(s.rows) : t.rows[i] = s.rows[i]
    <3> HIDE DEF row
    <3> QED  BY <1>7, <2>6, Appended
  <2>8. ASSUME NEW i \in 1..Len(t.rows), t.rows[i].complete
        PROVE  Written(n, t.rows[i])
    <3> HIDE DEF row
    <3>1. CASE i = Len(s.rows) + 1
      BY <2>5, <2>7, <2>8, <3>1
    <3>2. CASE i # Len(s.rows) + 1
      <4>1. i \in 1..Len(s.rows)
        BY <2>7, <3>2
      <4> QED  BY <1>4, <1>5, <2>7, <2>8, <4>1
    <3> QED  BY <3>1, <3>2
  <2>9. Len(t.rows) = Cardinality(FilledTo(n))
    BY <1>4, <1>7, <2>7, FilledUpTo
  <2> QED  BY <2>4, <2>8, <2>9
<1> QED  BY <1>2, <1>6, <1>7, MirrorRead

LEMMA MirrorReading ==
    ASSUME SheetType
    PROVE  Sheet!KeepsAll(Sheet!Mirror)
<1> DEFINE L == Len(sheet)
           T == {n \in 0..L : MirrorKeeps(n)}
<1>1. L \in Nat
  BY SheetRows
<1>2. \A n \in 0..L : n \in T
  <2>1. 0 \in T
    <3>1. FilledTo(0) = {} /\ Cardinality({}) = 0
      BY FS_EmptySet DEF FilledTo
    <3>2. Sheet!MirrorTo[0].rows = <<>> /\ Sheet!MirrorTo[0].above.from = 0
      BY MirrorDefined DEF Sheet!Start, Sheet!NoGroup
    <3> QED  BY <1>1, <3>1, <3>2 DEF MirrorKeeps, FilledTo, ValueAbove
  <2>2. ASSUME NEW n \in 0..L, n < L, n \in T
        PROVE  n + 1 \in T
    <3>1. n + 1 \in 1..L /\ n + 1 \in 0..L /\ (n + 1) - 1 = n /\ MirrorKeeps(n)
      BY <1>1, <2>2
    <3>2. MirrorKeeps((n + 1) - 1)
      BY <3>1
    <3>3. MirrorKeeps(n + 1)
      BY <3>1, <3>2, MirrorKeepsStep
    <3> QED  BY <3>1, <3>3
  <2> HIDE DEF T, L
  <2> QED  BY <1>1, <2>1, <2>2, UpTo
<1>3. MirrorKeeps(L) /\ L \in 0..L
  BY <1>1, <1>2
<1>4. Sheet!MirrorTo[L] \in MirrorStates
  BY <1>3, MirrorDefined
<1>5. /\ Sheet!Mirror.rows = Sheet!MirrorTo[L].rows
      /\ ~Sheet!Mirror.blocked => ~Sheet!MirrorTo[L].blocked
  <2> DEFINE s == Sheet!MirrorTo[L]
  <2>1. Sheet!Mirror = [s EXCEPT !.blocked = @ \/ \E n \in 1..L : Sheet!Repeated(n)]
    BY DEF Sheet!Mirror, Sheet!Finish
  <2> HIDE DEF s, L
  <2>2. s = [above |-> s.above, rows |-> s.rows, blocked |-> s.blocked] /\ s.blocked \in BOOLEAN
    BY <1>4 DEF MirrorStates, s
  <2> QED  BY <2>1, <2>2 DEF s
<1> DEFINE rows == Sheet!MirrorTo[L].rows
<1>6. rows \in Seq([sku : SkuCodes \cup {None}, sequence : Readable, from : Nat, complete : BOOLEAN])
  BY <1>4 DEF MirrorStates
<1>7. ASSUME ~Sheet!Mirror.blocked
      PROVE  /\ Len(rows) = Cardinality(FilledTo(L))
             /\ \A i \in 1..Len(rows) : rows[i].complete => Written(L, rows[i])
  BY <1>3, <1>5, <1>7 DEF MirrorKeeps, FilledTo
<1>8. \A r \in Sheet!ToSet(rows) : \E i \in 1..Len(rows) : r = rows[i]
  <2> HIDE DEF rows
  <2>1. DOMAIN rows = 1..Len(rows)
    BY <1>6
  <2> QED  BY <2>1 DEF Sheet!ToSet
<1> HIDE DEF L, rows
<1>9. ASSUME ~Sheet!Mirror.blocked
      PROVE  /\ Len(rows) = Sheet!Cardinality({n \in 1..L : ~Sheet!BlankRow(sheet[n])})
             /\ \A r \in Sheet!ToSet(rows) : r.complete => Written(L, r)
  BY <1>7, <1>8, <1>9, SameSheetCardinality DEF FilledTo, Filled
<1> QED  BY <1>5, <1>9, Zenon DEF Sheet!KeepsAll, Written, L, rows

(* A row that the strict reading accepts, under the same group.            *)
LEMMA SyncIsStrict ==
    ASSUME SheetType, Clean, NEW s \in StrictStates, NEW m \in MirrorStates, NEW n \in 1..Len(sheet),
           SameAbove(s, m), Sheet!StrictSequence(s, n) # None, Sheet!StrictFrom(s, n) # 0,
           Sheet!Matches(sheet[n].sku, Sheet!StrictSequence(s, n)), sheet[n].counted
    PROVE  /\ sheet[n].sequence # None => Sheet!Matches(sheet[n].sku, sheet[n].sequence)
           /\ Sheet!SyncSequence(m, n) = Sheet!StrictSequence(s, n)
           /\ Sheet!SyncFrom(m, n) = Sheet!StrictFrom(s, n) /\ Sheet!Complete(m, n)
           /\ Sheet!SyncAbove(m, n) = [key |-> <<Sheet!StrictSequence(s, n)>>,
                                       sequence |-> Sheet!StrictSequence(s, n), from |-> Sheet!StrictFrom(s, n)]
<1> DEFINE q == Sheet!StrictSequence(s, n)
<1>1. sheet[n].cell \in {"blank", "bad", "given"} /\ column \in {"price", "image"}
  BY SheetRows DEF SheetType
<1>2. sheet[n].sequence # None => Sheet!Matches(sheet[n].sku, sheet[n].sequence)
  BY DEF Sheet!StrictSequence
<1>3. sheet[n].sequence # None \/ Sheet!Inherited(m, n)
  BY DEF Sheet!StrictSequence, Sheet!Inherited, SameAbove
<1>4. Sheet!SyncSequence(m, n) = q
  BY <1>3 DEF Sheet!StrictSequence, Sheet!SyncSequence, Sheet!Inherited, SameAbove
<1>5. Sheet!SyncKey(m, n) = <<q>>
  BY <1>4, Zenon DEF Sheet!SyncKey
<1>6. Sheet!SameGroup(<<q>>, m.above) = Sheet!SameGroup(q, s.above)
  <2> HIDE DEF q
  <2>1. CASE s.above.sequence = None
    BY <2>1 DEF SameAbove, Sheet!SameGroup
  <2>2. CASE s.above.sequence # None
    <3>1. m.above.key = <<s.above.sequence>> /\ s.above.key = s.above.sequence
      BY <2>2 DEF SameAbove
    <3>2. m.above.key = <<q>> <=> s.above.key = q
      BY <3>1
    <3> QED  BY <3>2 DEF SameAbove, Sheet!SameGroup
  <2> QED  BY <2>1, <2>2
<1>7. sheet[n].cell # "bad"
  BY <1>1 DEF Clean, Sheet!StrictFrom
<1>8. Sheet!StrictFrom(s, n) = IF sheet[n].cell = "given" THEN n ELSE Sheet!SameGroup(q, s.above)
  BY <1>1, <1>7 DEF Sheet!StrictFrom
<1>9. Sheet!SyncFrom(m, n) = Sheet!StrictFrom(s, n)
  BY <1>5, <1>6, <1>7, <1>8 DEF Sheet!SyncFrom
<1>10. Sheet!Complete(m, n)
  BY <1>3, <1>9 DEF Sheet!Complete
<1>11. Sheet!SyncAbove(m, n) = [key |-> <<q>>, sequence |-> q, from |-> Sheet!StrictFrom(s, n)]
  BY <1>4, <1>5, <1>6, <1>8 DEF Sheet!SyncAbove
<1> QED  BY <1>2, <1>4, <1>9, <1>10, <1>11

LEMMA SameReadingStep ==
    ASSUME SheetType, Clean, NEW n \in 1..Len(sheet),
           SameReading(Sheet!StrictTo[n - 1], Sheet!MirrorTo[n - 1])
    PROVE  SameReading(Sheet!StrictTo[n], Sheet!MirrorTo[n])
<1> DEFINE s == Sheet!StrictTo[n - 1]
           t == Sheet!StrictTo[n]
           m == Sheet!MirrorTo[n - 1]
           u == Sheet!MirrorTo[n]
<1> SUFFICES ASSUME ~t.blocked
             PROVE  /\ ~u.blocked /\ Len(u.rows) = Len(t.rows) /\ SameAbove(t, u)
                    /\ \A i \in 1..Len(t.rows) : SameRow(t, u, i)
  BY DEF SameReading
<1>1. n - 1 \in 0..Len(sheet)
  BY SheetRows
<1>2. /\ s \in StrictStates /\ t = Sheet!Read(s, n, Sheet!StrictRow(s, n))
      /\ m \in MirrorStates /\ u = Sheet!Read(m, n, Sheet!MirrorRow(m, n))
  BY <1>1, StrictDefined, MirrorDefined
<1>3. SameReading(s, m)
  OBVIOUS
<1> HIDE DEF s, t, m, u
<1>4. ~s.blocked
  BY <1>2, StrictRead
<1>5. /\ ~m.blocked /\ Len(m.rows) = Len(s.rows) /\ SameAbove(s, m)
      /\ \A i \in 1..Len(s.rows) : SameRow(s, m, i)
  BY <1>3, <1>4 DEF SameReading
<1>6. CASE ~Filled(n) /\ t.rows = s.rows /\ t.above = Sheet!NoGroup
  <2>1. u.rows = m.rows /\ u.above = Sheet!NoGroup /\ u.blocked = m.blocked
    BY <1>2, <1>6, MirrorForward
  <2>2. SameAbove(t, u)
    BY <1>6, <2>1 DEF SameAbove, Sheet!NoGroup
  <2> QED  BY <1>5, <1>6, <2>1, <2>2 DEF SameRow
<1> DEFINE q == Sheet!StrictSequence(s, n)
           from == Sheet!StrictFrom(s, n)
           row == [sku |-> sheet[n].sku, sequence |-> q, from |-> from]
           kept == [sku |-> sheet[n].sku, sequence |-> q, from |-> from, complete |-> TRUE]
<1>7. CASE /\ Filled(n) /\ ~Sheet!Draft(n) /\ sheet[n].sku # None /\ sheet[n].counted
           /\ q # None /\ from # 0 /\ Sheet!Matches(sheet[n].sku, q)
           /\ t.rows = Append(s.rows, row)
           /\ t.above = [key |-> q, sequence |-> q, from |-> from]
  <2>1. /\ sheet[n].sequence # None => Sheet!Matches(sheet[n].sku, sheet[n].sequence)
        /\ Sheet!SyncSequence(m, n) = q /\ Sheet!SyncFrom(m, n) = from /\ Sheet!Complete(m, n)
        /\ Sheet!SyncAbove(m, n) = [key |-> <<q>>, sequence |-> q, from |-> from]
    BY <1>2, <1>5, <1>7, SyncIsStrict
  <2>2. Sheet!Complete(m, n) = TRUE
    BY <2>1 DEF Sheet!Complete
  <2> HIDE DEF q, from
  <2>3. u.rows = Append(m.rows, kept) /\ u.above = [key |-> <<q>>, sequence |-> q, from |-> from]
        /\ u.blocked = m.blocked
    <3>1. /\ u.rows = Append(m.rows, [sku |-> sheet[n].sku, sequence |-> Sheet!SyncSequence(m, n),
                                      from |-> Sheet!SyncFrom(m, n), complete |-> Sheet!Complete(m, n)])
          /\ u.above = Sheet!SyncAbove(m, n) /\ u.blocked = m.blocked
      BY <1>2, <1>7, <2>1, MirrorForward
    <3> QED  BY <2>1, <2>2, <3>1
  <2>4. SameAbove(t, u)
    BY <1>7, <2>3 DEF SameAbove
  <2>5. /\ s.rows \in Seq([sku : SkuCodes \cup {None}, sequence : Headings, from : Nat])
        /\ m.rows \in Seq([sku : SkuCodes \cup {None}, sequence : Readable, from : Nat, complete : BOOLEAN])
    BY <1>2 DEF StrictStates, MirrorStates
  <2> DEFINE c == Len(s.rows)
  <2>6. /\ Len(t.rows) = c + 1 /\ t.rows[c + 1] = row /\ c \in Nat
        /\ \A i \in 1..c : t.rows[i] = s.rows[i]
    <3> HIDE DEF row
    <3> QED  BY <1>7, <2>5, Appended
  <2>7. /\ Len(u.rows) = c + 1 /\ u.rows[c + 1] = kept
        /\ \A i \in 1..c : u.rows[i] = m.rows[i]
    <3> HIDE DEF kept
    <3> QED  BY <1>5, <2>3, <2>5, Appended
  <2> HIDE DEF c
  <2>8. ASSUME NEW i \in 1..Len(t.rows)
        PROVE  SameRow(t, u, i)
    <3>1. CASE i = c + 1
      <4>1. t.rows[i] = row /\ u.rows[i] = kept
        <5> HIDE DEF row, kept
        <5> QED  BY <2>6, <2>7, <3>1
      <4>2. kept = [sku |-> row.sku, sequence |-> row.sequence, from |-> row.from, complete |-> TRUE]
        OBVIOUS
      <4> HIDE DEF row, kept
      <4> QED  BY <4>1, <4>2 DEF SameRow
    <3>2. CASE i # c + 1
      <4>1. i \in 1..c
        BY <2>6, <3>2
      <4> QED  BY <1>5, <2>6, <2>7, <4>1 DEF SameRow, c
    <3> QED  BY <3>1, <3>2
  <2> QED  BY <1>5, <2>3, <2>4, <2>6, <2>7, <2>8
<1>8. ~Sheet!Draft(n)
  BY DEF Clean
<1> QED  BY <1>2, <1>6, <1>7, <1>8, StrictRead

LEMMA BothReadings ==
    ASSUME SheetType
    PROVE  Sheet!Agree(Sheet!Strict, Sheet!Mirror)
<1> DEFINE L == Len(sheet)
           s == Sheet!StrictTo[L]
           m == Sheet!MirrorTo[L]
<1> SUFFICES ASSUME ~Sheet!Strict.blocked, Clean
             PROVE  /\ ~Sheet!Mirror.blocked
                    /\ \A i \in 1..Len(Sheet!Strict.rows) : SameRow(Sheet!Strict, Sheet!Mirror, i)
  BY Zenon DEF Sheet!Agree, Clean, SameRow
<1>1. L \in Nat
  BY SheetRows
<1> DEFINE T == {n \in 0..L : SameReading(Sheet!StrictTo[n], Sheet!MirrorTo[n])}
<1>2. \A n \in 0..L : n \in T
  <2>1. 0 \in T
    BY <1>1, StrictDefined, MirrorDefined DEF SameReading, SameAbove, Sheet!Start, Sheet!NoGroup
  <2>2. ASSUME NEW n \in 0..L, n < L, n \in T
        PROVE  n + 1 \in T
    <3>1. n + 1 \in 1..L /\ n + 1 \in 0..L /\ (n + 1) - 1 = n
      BY <1>1, <2>2
    <3>2. SameReading(Sheet!StrictTo[(n + 1) - 1], Sheet!MirrorTo[(n + 1) - 1])
      BY <2>2, <3>1
    <3>3. SameReading(Sheet!StrictTo[n + 1], Sheet!MirrorTo[n + 1])
      BY <3>1, <3>2, SameReadingStep
    <3> QED  BY <3>1, <3>3
  <2> HIDE DEF T, L
  <2> QED  BY <1>1, <2>1, <2>2, UpTo
<1>3. SameReading(s, m) /\ L \in 0..L
  BY <1>1, <1>2
<1>4. s \in StrictStates /\ m \in MirrorStates
  BY <1>3, StrictDefined, MirrorDefined
<1> DEFINE repeated == \E n \in 1..L : Sheet!Repeated(n)
<1>5. Sheet!Strict = [s EXCEPT !.blocked = @ \/ repeated]
  BY DEF Sheet!Strict, Sheet!Finish
<1>6. Sheet!Mirror = [m EXCEPT !.blocked = @ \/ repeated]
  BY DEF Sheet!Mirror, Sheet!Finish
<1> HIDE DEF s, m, L, repeated
<1>7. /\ s = [above |-> s.above, rows |-> s.rows, blocked |-> s.blocked] /\ s.blocked \in BOOLEAN
      /\ m = [above |-> m.above, rows |-> m.rows, blocked |-> m.blocked] /\ m.blocked \in BOOLEAN
  BY <1>4 DEF StrictStates, MirrorStates
<1>8. Sheet!Strict.rows = s.rows /\ Sheet!Strict.blocked = (s.blocked \/ repeated)
  BY <1>5, <1>7
<1>9. Sheet!Mirror.rows = m.rows /\ Sheet!Mirror.blocked = (m.blocked \/ repeated)
  BY <1>6, <1>7
<1>10. ~s.blocked /\ ~repeated
  BY <1>8
<1>11. ~m.blocked /\ \A i \in 1..Len(s.rows) : SameRow(s, m, i)
  BY <1>3, <1>10 DEF SameReading
<1> QED  BY <1>8, <1>9, <1>10, <1>11, Zenon DEF SameRow

(* Rows are only added at the end.                                         *)
LEMMA SheetSafe == Sheet!Spec => []SheetType
<1>1. Sheet!Init => SheetType
  <2>1. <<>> \in Seq(Sheet!RowsSeen)
    OBVIOUS
  <2> QED  BY <2>1 DEF Sheet!Init, SheetType
<1>2. SheetType /\ [Sheet!Next]_(Sheet!sheetVars) => SheetType'
  <2> SUFFICES ASSUME SheetType, [Sheet!Next]_(Sheet!sheetVars)
               PROVE  SheetType'
    OBVIOUS
  <2>1. CASE Sheet!Next
    <3>1. PICK row \in Sheet!RowsSeen : sheet' = Append(sheet, row) /\ column' = column
      BY <2>1 DEF Sheet!Next, Sheet!WriteRow
    <3>2. sheet' \in Seq(Sheet!RowsSeen)
      BY <3>1 DEF SheetType
    <3> QED  BY <3>1, <3>2 DEF SheetType
  <2>2. CASE UNCHANGED Sheet!sheetVars
    BY <2>2 DEF SheetType, Sheet!sheetVars
  <2> QED  BY <2>1, <2>2
<1> QED  BY <1>1, <1>2, PTL DEF Sheet!Spec

(* However cells are left empty, merged, or cannot be read: the migration  *)
(* takes for every row what stands above it in its group, the mirror       *)
(* leaves out no row and sells none with a value from another group, and   *)
(* where the migration reads a sheet the mirror reads the same in it       *)
(* (cargo-parser.ts).                                                      *)
THEOREM SheetIsReadRight == Sheet!Spec => []SheetReadRight
<1>1. SheetType => SheetReadRight
  BY StrictReading, MirrorReading, BothReadings DEF SheetReadRight, Sheet!SheetReadRight
<1> QED  BY <1>1, SheetSafe, PTL
=============================================================================
