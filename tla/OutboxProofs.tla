---------------------------- MODULE OutboxProofs ----------------------------
(***************************************************************************)
(* Safety of the outbox for any number of rows, jobs and attempts.  The    *)
(* invariant is OutboxSafe: that the log of attempts matches the rows      *)
(* rests on the fit of the columns of a row and on what is known of claims *)
(* that are late.                                                          *)
(***************************************************************************)
EXTENDS Outbox, TLAPS

LEMMA NumbersFact == \A n \in Numbers : n \in Nat /\ n >= 1 /\ n <= MaxAttempts
  BY OutboxAssumption DEF Numbers

(* A time to wait is between zero and the maximum.                         *)
LEMMA RetryDelayBounded ==
    ASSUME NEW c \in Channels, NEW n
    PROVE  RetryDelay(c, n) \in 0..MaxDelay
  BY OutboxAssumption DEF RetryDelay

LEMMA NextWaitBounded ==
    ASSUME TypeOK, NEW j \in Jobs, NEW e \in Events
    PROVE  NextWait(j, e) \in 0..MaxDelay
  <1>1. Channel[e] \in Channels
    BY OutboxAssumption
  <1>2. RetryDelay(Channel[e], attempts[e]) \in 0..MaxDelay
    BY <1>1, RetryDelayBounded
  <1>3. job[j].age \in Nat
    BY OutboxAssumption DEF TypeOK, JobStates, BusyJobs, IdleJob, Horizon
  <1>4. QED
    BY <1>2, <1>3, OutboxAssumption DEF NextWait

(* What a claim knows of a row it may take.                                *)
LEMMA DueRow ==
    ASSUME OutboxSafe, NEW e \in Events, Due(e)
    PROVE  /\ Unfinished(e)
           /\ ~Exhausted(e) => attempts[e] + 1 \in Numbers
           /\ Exhausted(e) => attempts[e] = MaxAttempts
  <1>1. attempts[e] \in 0..MaxAttempts
    BY DEF OutboxSafe, TypeOK
  <1>2. ASSUME ~Exhausted(e) PROVE attempts[e] < MaxAttempts
    <2>1. CASE status[e] = "PENDING"
      BY <2>1, OutboxAssumption DEF OutboxSafe, RowsFit
    <2>2. CASE status[e] = "FAILED"
      BY <1>1, <2>2, OutboxAssumption DEF OutboxSafe, RowsFit, Due, NeverRetry
    <2>3. CASE status[e] = "PROCESSING"
      BY <1>1, <1>2, <2>3, OutboxAssumption DEF Exhausted
    <2>4. QED
      BY <2>1, <2>2, <2>3 DEF Due
  <1>3. Unfinished(e)
    BY DEF Due, Unfinished, NeverRetry
  <1>4. QED
    BY <1>1, <1>2, <1>3, OutboxAssumption DEF Exhausted, Numbers

LEMMA InitSafe == Init => OutboxSafe
  <1> SUFFICES ASSUME Init PROVE OutboxSafe
    OBVIOUS
  <1>1. TypeOK
    BY OutboxAssumption DEF Init, TypeOK, JobStates, BusyJobs, IdleJob, Horizon
  <1>2. RowsFit
    BY OutboxAssumption DEF Init, RowsFit, NeverRetry
  <1>3. ClaimsFit
    BY DEF Init, ClaimsFit, IdleJob
  <1>4. LogMatchesRow
    BY NumbersFact, OutboxAssumption DEF Init, LogMatchesRow, DeadLetter
  <1>5. DeadLettersNotified
    BY DEF Init, DeadLettersNotified, DeadLetter
  <1>6. OneMirror
    BY DEF Init, OneMirror, Unfinished
  <1>7. QED
    BY <1>1, <1>2, <1>3, <1>4, <1>5, <1>6 DEF OutboxSafe

LEMMA EnqueueSafe == ASSUME OutboxSafe, NEW r \in Events, Enqueue(r) PROVE OutboxSafe'
  <1> USE DEF OutboxSafe
  <1>1. TypeOK'
    BY DEF Enqueue, TypeOK
  <1>2. RowsFit'
    BY DEF Enqueue, TypeOK, RowsFit
  <1>3. ClaimsFit'
    <2> SUFFICES ASSUME NEW j \in Jobs, NEW c \in job[j].claims PROVE c[1] = r => c[2] # attempts[r]
      BY DEF Enqueue, TypeOK, ClaimsFit, DeadLetter
    <2>1. c[1] \in Events /\ c[2] \in Numbers
      BY DEF TypeOK, JobStates, BusyJobs, IdleJob
    <2>2. QED
      BY <2>1, NumbersFact DEF Enqueue, RowsFit
  <1>4. LogMatchesRow'
    <2>1. attempts[r] = 0 /\ \A n \in Numbers : n # 0
      BY NumbersFact DEF Enqueue, RowsFit
    <2>2. QED
      BY <2>1, NumbersFact DEF Enqueue, TypeOK, LogMatchesRow, DeadLetter
  <1>5. DeadLettersNotified'
    BY DEF Enqueue, TypeOK, DeadLettersNotified, DeadLetter
  <1>6. OneMirror'
    BY DEF Enqueue, TypeOK, OneMirror, Unfinished
  <1>7. QED
    BY <1>1, <1>2, <1>3, <1>4, <1>5, <1>6

(* Claims by job j of the rows S.                                          *)
LEMMA ClaimSafe ==
    ASSUME OutboxSafe, NEW j \in Jobs, NEW S \in SUBSET Events,
           \A e \in S : Due(e), ClaimRows(j, S)
    PROVE  OutboxSafe'
  <1> DEFINE gone  == {e \in S : Exhausted(e)}
             taken == S \ gone
             stale == {e \in taken : status[e] = "PROCESSING"}
  <1>a. /\ \A e \in S : Due(e) /\ Unfinished(e)
        /\ \A e \in taken : attempts[e] + 1 \in Numbers
        /\ \A e \in gone : attempts[e] = MaxAttempts /\ status[e] = "PROCESSING"
    BY DueRow DEF Exhausted
  <1>b. /\ status' = [e \in Events |-> IF e \in gone THEN "FAILED"
                                      ELSE IF e \in taken THEN "PROCESSING" ELSE status[e]]
        /\ attempts' = [e \in Events |-> IF e \in taken THEN attempts[e] + 1 ELSE attempts[e]]
        /\ token' = [e \in Events |-> IF e \in gone THEN 0
                                      ELSE IF e \in taken THEN attempts[e] + 1 ELSE token[e]]
        /\ lockAge' = [e \in Events |-> IF e \in S THEN 0 ELSE lockAge[e]]
        /\ outcome' = [e \in Events |-> [n \in Numbers |->
              IF e \in gone /\ n = attempts[e] THEN "PERMANENT"
              ELSE IF e \in stale /\ n = attempts[e] THEN "RETRYABLE" ELSE outcome[e][n]]]
        /\ notified' = notified \cup gone
        /\ wait' = [e \in Events |-> IF e \in gone THEN NeverRetry ELSE wait[e]]
    BY DEF ClaimRows, GiveUp, Assigned
  <1>c. job' = [job EXCEPT ![j] =
            IF taken = {} THEN IdleJob
            ELSE [step |-> "claimed", claims |-> {<<e, attempts[e] + 1>> : e \in taken},
                  retryable |-> TRUE, age |-> 0]]
    BY DEF ClaimRows
  <1>d. /\ job' \in [Jobs -> JobStates]
        /\ \A i \in Jobs \ {j} : job'[i] = job[i]
        /\ \A c \in job'[j].claims : c[1] \in taken /\ c[2] = attempts[c[1]] + 1
    <2>1. {<<e, attempts[e] + 1>> : e \in taken} \subseteq Events \X Numbers
      BY <1>a
    <2>2. 0 \in 0..Horizon
      BY OutboxAssumption DEF Horizon
    <2> DEFINE claiming == [step |-> "claimed", claims |-> {<<e, attempts[e] + 1>> : e \in taken},
                            retryable |-> TRUE, age |-> 0]
    <2>3. IdleJob \in JobStates /\ claiming \in JobStates
      BY <2>1, <2>2 DEF JobStates, BusyJobs, IdleJob
    <2>4. job'[j] \in {IdleJob, claiming}
      BY <1>c DEF OutboxSafe, TypeOK
    <2>5. QED
      BY <1>c, <2>3, <2>4 DEF OutboxSafe, TypeOK, IdleJob
  <1>e. \A i \in Jobs : \A c \in job[i].claims :
            c[1] \in Events /\ c[2] \in Numbers /\ job[i].age \in 0..Horizon
    BY DEF OutboxSafe, TypeOK, JobStates, BusyJobs, IdleJob
  <1> HIDE DEF gone, taken, stale
  <1>f. /\ gone \subseteq S /\ taken = S \ gone
        /\ \A e \in taken : e \in stale <=> status[e] = "PROCESSING"
        /\ stale \subseteq taken
    BY DEF gone, taken, stale
  <1>1. TypeOK'
    <2>1. \A e \in Events : attempts'[e] \in 0..MaxAttempts /\ token'[e] \in 0..MaxAttempts
      BY <1>a, <1>b, OutboxAssumption DEF OutboxSafe, TypeOK, Numbers
    <2>2. QED
      BY <1>b, <1>d, <1>f, <2>1, OutboxAssumption DEF OutboxSafe, TypeOK, NeverRetry
  <1>2. RowsFit'
    <2> SUFFICES ASSUME NEW e \in Events
                 PROVE  /\ (status'[e] \in {"NONE", "PENDING"}) <=> (attempts'[e] = 0)
                        /\ token'[e] = IF status'[e] = "PROCESSING" THEN attempts'[e] ELSE 0
                        /\ wait'[e] = NeverRetry => status'[e] = "FAILED"
                        /\ status'[e] = "FAILED" /\ attempts'[e] = MaxAttempts => wait'[e] = NeverRetry
      BY DEF RowsFit, NeverRetry
    <2>1. CASE e \in gone
      BY <1>a, <1>b, <1>f, <2>1, OutboxAssumption
    <2>2. CASE e \in taken
      <3>1. wait[e] # NeverRetry
        BY <1>a, <1>f, <2>2 DEF OutboxSafe, RowsFit, Due, NeverRetry
      <3>2. attempts[e] + 1 # 0
        BY <1>a, <2>2, NumbersFact
      <3>3. QED
        BY <1>b, <1>f, <2>2, <3>1, <3>2
    <2>3. CASE e \notin S
      BY <1>b, <1>f, <2>3 DEF OutboxSafe, RowsFit
    <2>4. QED
      BY <1>f, <2>1, <2>2, <2>3
  <1>3. ClaimsFit'
    <2> SUFFICES ASSUME NEW i \in Jobs, NEW c \in job'[i].claims
                 PROVE  /\ c[2] <= attempts'[c[1]]
                        /\ c[2] < attempts'[c[1]] => job'[i].age >= Lease
                        /\ c[2] = attempts'[c[1]] =>
                             DeadLetter(c[1])' \/ (status'[c[1]] = "PROCESSING" /\ job'[i].age >= lockAge'[c[1]])
                        /\ \A k \in Jobs : c \in job'[k].claims => k = i
      BY DEF ClaimsFit
    <2>1. CASE i = j
      <3>1. c[1] \in taken /\ c[1] \in Events /\ c[2] = attempts[c[1]] + 1 /\ attempts[c[1]] + 1 \in Nat
        BY <1>a, <1>d, <1>f, <2>1, NumbersFact
      <3>2. c[2] = attempts'[c[1]] /\ status'[c[1]] = "PROCESSING" /\ lockAge'[c[1]] = 0
        BY <1>b, <1>f, <3>1
      <3>3. job'[j].age \in Nat
        BY <1>d, OutboxAssumption DEF JobStates, BusyJobs, IdleJob, Horizon
      <3>4. ASSUME NEW k \in Jobs \ {j}, c \in job[k].claims PROVE FALSE
        BY <3>1, <3>4, <1>e DEF OutboxSafe, ClaimsFit, TypeOK
      <3>5. QED
        BY <1>d, <2>1, <3>1, <3>2, <3>3, <3>4
    <2>2. CASE i # j
      <3>1. c \in job[i].claims /\ job'[i] = job[i] /\ c[1] \in Events /\ c[2] \in Numbers
        BY <1>d, <1>e, <2>2
      <3>2. /\ c[2] <= attempts[c[1]]
            /\ c[2] < attempts[c[1]] => job[i].age >= Lease
            /\ c[2] = attempts[c[1]] =>
                 DeadLetter(c[1]) \/ (status[c[1]] = "PROCESSING" /\ job[i].age >= lockAge[c[1]])
            /\ \A k \in Jobs : c \in job[k].claims => k = i
        BY <3>1 DEF OutboxSafe, ClaimsFit
      <3>3. attempts[c[1]] \in Nat /\ c[2] \in Nat /\ c[2] >= 1
        <4>1. attempts[c[1]] \in 0..MaxAttempts
          BY <3>1 DEF OutboxSafe, TypeOK
        <4>2. attempts[c[1]] \in Nat
          BY <4>1, OutboxAssumption
        <4>3. c[2] \in Nat /\ c[2] >= 1
          BY <3>1, NumbersFact
        <4>4. QED
          BY <4>2, <4>3
      <3>7. \A k \in Jobs : c \in job'[k].claims => k = i
        <4>1. c \notin job'[j].claims
          BY <1>d, <3>2, <3>3
        <4>2. QED
          BY <1>d, <3>2, <4>1
      <3>4. CASE c[1] \in gone
        <4>1. attempts'[c[1]] = attempts[c[1]] /\ DeadLetter(c[1])'
          BY <1>b, <1>f, <3>1, <3>4 DEF DeadLetter
        <4>2. QED
          BY <3>1, <3>2, <3>7, <4>1
      <3>5. CASE c[1] \in taken
        <4>1. job[i].age >= Lease
          <5>1. CASE c[2] = attempts[c[1]]
            <6>1. attempts[c[1]] # 0
              BY <3>3, <5>1
            <6>2. status[c[1]] # "PENDING"
              BY <3>1, <6>1 DEF OutboxSafe, RowsFit
            <6>3. ~DeadLetter(c[1])
              BY <1>a, <1>f, <3>5 DEF Unfinished, DeadLetter
            <6>4. status[c[1]] = "PROCESSING" /\ lockAge[c[1]] = Lease
              BY <1>a, <1>f, <3>2, <3>5, <5>1, <6>3 DEF Due
            <6>5. QED
              BY <3>2, <5>1, <6>3, <6>4
          <5>2. QED
            BY <3>2, <3>3, <5>1
        <4>2. attempts'[c[1]] = attempts[c[1]] + 1
          BY <1>b, <3>1, <3>5
        <4>3. QED
          BY <3>1, <3>2, <3>3, <3>7, <4>1, <4>2
      <3>6. CASE c[1] \notin S
        BY <1>b, <1>f, <3>1, <3>2, <3>6, <3>7 DEF DeadLetter
      <3>8. QED
        BY <1>f, <3>4, <3>5, <3>6
    <2>3. QED
      BY <2>1, <2>2
  <1>4. LogMatchesRow'
    <2> SUFFICES ASSUME NEW e \in Events, NEW n \in Numbers
                 PROVE  /\ (outcome'[e][n] # "NONE") <=>
                             (n < attempts'[e] \/ (n = attempts'[e] /\ status'[e] # "PROCESSING"))
                        /\ (outcome'[e][n] = "SUCCESS") <=> (n = attempts'[e] /\ status'[e] = "COMPLETED")
                        /\ (outcome'[e][n] = "PERMANENT") <=> (n = attempts'[e] /\ DeadLetter(e)')
      BY DEF LogMatchesRow
    <2>1. /\ (outcome[e][n] # "NONE") <=>
               (n < attempts[e] \/ (n = attempts[e] /\ status[e] # "PROCESSING"))
          /\ (outcome[e][n] = "SUCCESS") <=> (n = attempts[e] /\ status[e] = "COMPLETED")
          /\ (outcome[e][n] = "PERMANENT") <=> (n = attempts[e] /\ DeadLetter(e))
      BY DEF OutboxSafe, LogMatchesRow
    <2>2. attempts[e] \in Nat /\ n \in Nat
      BY NumbersFact, OutboxAssumption DEF OutboxSafe, TypeOK
    <2>3. CASE e \in gone
      BY <1>a, <1>b, <1>f, <2>1, <2>2, <2>3 DEF DeadLetter
    <2>4. CASE e \in taken
      <3>1. ~DeadLetter(e) /\ status[e] # "COMPLETED"
        BY <1>a, <1>f, <2>4 DEF Unfinished, DeadLetter
      <3>2. /\ attempts'[e] = attempts[e] + 1 /\ status'[e] = "PROCESSING" /\ ~DeadLetter(e)'
            /\ outcome'[e][n] = IF status[e] = "PROCESSING" /\ n = attempts[e]
                                THEN "RETRYABLE" ELSE outcome[e][n]
        BY <1>b, <1>f, <2>4 DEF DeadLetter
      <3>3. QED
        BY <2>1, <2>2, <3>1, <3>2
    <2>5. CASE e \notin S
      BY <1>b, <1>f, <2>1, <2>5 DEF DeadLetter
    <2>6. QED
      BY <1>f, <2>3, <2>4, <2>5
  <1>5. DeadLettersNotified'
    <2>1. \A e \in taken : ~DeadLetter(e)
      BY <1>a, <1>f DEF Unfinished, DeadLetter
    <2>2. \A e \in Events : DeadLetter(e)' <=> e \in gone \/ DeadLetter(e)
      BY <1>b, <1>f, <2>1 DEF DeadLetter
    <2>3. QED
      BY <1>b, <1>f, <2>2 DEF OutboxSafe, DeadLettersNotified
  <1>6. OneMirror'
    <2>1. \A e \in Events : Unfinished(e)' => Unfinished(e)
      BY <1>a, <1>b, <1>f DEF Unfinished
    <2>2. QED
      BY <2>1 DEF OutboxSafe, OneMirror
  <1>7. QED
    BY <1>1, <1>2, <1>3, <1>4, <1>5, <1>6 DEF OutboxSafe

(* A step that changes a job but no row, and gives no job new claims or a  *)
(* smaller age while it has claims.                                        *)
LEMMA JobStepSafe ==
    ASSUME OutboxSafe, UNCHANGED rows, NEW j \in Jobs, NEW new \in JobStates,
           job' = [job EXCEPT ![j] = new],
           new.claims = {} \/ (new.claims = job[j].claims /\ new.age = job[j].age)
    PROVE  OutboxSafe'
  <1>1. TypeOK'
    BY DEF OutboxSafe, TypeOK, rows
  <1>2. \A i \in Jobs : job'[i].claims = {} \/ (job'[i].claims = job[i].claims /\ job'[i].age = job[i].age)
    BY DEF OutboxSafe, TypeOK
  <1>3. ClaimsFit'
    BY <1>2 DEF OutboxSafe, ClaimsFit, DeadLetter, rows
  <1>4. RowsFit' /\ LogMatchesRow' /\ DeadLettersNotified' /\ OneMirror'
    BY DEF OutboxSafe, RowsFit, LogMatchesRow, DeadLettersNotified, OneMirror, Unfinished, DeadLetter, rows
  <1>5. QED
    BY <1>1, <1>3, <1>4 DEF OutboxSafe

(* The claims a job still has are those of the current attempts of some    *)
(* rows in processing; another job has none of them.                       *)
LEMMA MineFact ==
    ASSUME OutboxSafe, NEW j \in Jobs
    PROVE  LET S == {c[1] : c \in StillMine(j)} IN
           /\ S \subseteq Events
           /\ \A e \in S : status[e] = "PROCESSING" /\ attempts[e] \in Numbers
                           /\ <<e, attempts[e]>> \in job[j].claims
           /\ \A e \in Events : \A n \in Numbers :
                <<e, n>> \in StillMine(j) <=> (e \in S /\ n = attempts[e])
           /\ \A i \in Jobs \ {j} : \A c \in job[i].claims : c[1] \in S => c[2] < attempts[c[1]]
  <1> DEFINE S == {c[1] : c \in StillMine(j)}
  <1>1. ASSUME NEW c \in StillMine(j)
        PROVE  /\ c \in job[j].claims /\ c = <<c[1], c[2]>> /\ c[1] \in Events /\ c[2] \in Numbers
               /\ status[c[1]] = "PROCESSING" /\ c[2] = attempts[c[1]]
    BY DEF StillMine, OutboxSafe, TypeOK, JobStates, BusyJobs, IdleJob, RowsFit
  <1>2. S \subseteq Events
    BY <1>1
  <1>3. ASSUME NEW e \in S
        PROVE  /\ status[e] = "PROCESSING" /\ attempts[e] \in Numbers
               /\ <<e, attempts[e]>> \in job[j].claims
    <2>1. PICK c \in StillMine(j) : c[1] = e
      OBVIOUS
    <2>2. QED
      BY <1>1, <2>1
  <1>4. ASSUME NEW e \in Events, NEW n \in Numbers
        PROVE  <<e, n>> \in StillMine(j) <=> (e \in S /\ n = attempts[e])
    <2>1. ASSUME <<e, n>> \in StillMine(j) PROVE e \in S /\ n = attempts[e]
      <3>1. <<e, n>>[1] \in S /\ <<e, n>>[2] = attempts[<<e, n>>[1]]
        BY <1>1, <2>1
      <3>2. QED
        BY <3>1
    <2>2. ASSUME e \in S, n = attempts[e] PROVE <<e, n>> \in StillMine(j)
      BY <1>3, <2>2 DEF StillMine, OutboxSafe, RowsFit
    <2>3. QED
      BY <2>1, <2>2
  <1>5. ASSUME NEW i \in Jobs \ {j}, NEW c \in job[i].claims, c[1] \in S
        PROVE  c[2] < attempts[c[1]]
    <2>1. c[1] \in Events /\ c[2] \in Numbers /\ c = <<c[1], c[2]>>
      BY DEF OutboxSafe, TypeOK, JobStates, BusyJobs, IdleJob
    <2>2. c \notin job[j].claims /\ c[2] <= attempts[c[1]]
      BY DEF OutboxSafe, ClaimsFit
    <2>3. c[2] # attempts[c[1]]
      BY <1>3, <1>5, <2>1, <2>2
    <2>4. attempts[c[1]] \in Numbers
      BY <1>3, <1>5
    <2>5. QED
      BY <2>1, <2>2, <2>3, <2>4, NumbersFact
  <1>6. QED
    BY <1>2, <1>3, <1>4, <1>5

(* The transactions that mark rows: they end the attempts of job j that    *)
(* are still its own, each in one of three ways, and leave the job idle.   *)
Marked(j, dead, again, done, pause) ==
    /\ {c[1] : c \in StillMine(j)} = dead \cup again \cup done
    /\ dead \cap again = {} /\ dead \cap done = {} /\ again \cap done = {}
    /\ \A e \in again : attempts[e] # MaxAttempts
    /\ status' = [e \in Events |-> IF e \in done THEN "COMPLETED"
                                   ELSE IF e \in dead \cup again THEN "FAILED" ELSE status[e]]
    /\ token' = [e \in Events |-> IF e \in dead \cup again \cup done THEN 0 ELSE token[e]]
    /\ lockAge' = [e \in Events |-> IF e \in dead \cup again \cup done THEN 0 ELSE lockAge[e]]
    /\ wait' = [e \in Events |-> IF e \in dead THEN NeverRetry
                                 ELSE IF e \in again THEN pause[e] ELSE wait[e]]
    /\ outcome' = [e \in Events |-> [n \in Numbers |->
          IF e \in dead \cup again \cup done /\ n = attempts[e]
          THEN IF e \in done THEN "SUCCESS" ELSE IF e \in dead THEN "PERMANENT" ELSE "RETRYABLE"
          ELSE outcome[e][n]]]
    /\ notified' = notified \cup dead
    /\ job' = [job EXCEPT ![j] = IdleJob]
    /\ attempts' = attempts

LEMMA MarkSafe ==
    ASSUME OutboxSafe, NEW j \in Jobs, NEW dead \in SUBSET Events,
           NEW again \in SUBSET Events, NEW done \in SUBSET Events,
           NEW pause \in [Events -> 0..MaxDelay], Marked(j, dead, again, done, pause)
    PROVE  OutboxSafe'
  <1> USE DEF Marked
  <1> DEFINE S == dead \cup again \cup done
  <1>a. /\ \A e \in S : status[e] = "PROCESSING" /\ attempts[e] \in Numbers
        /\ \A i \in Jobs \ {j} : \A c \in job[i].claims : c[1] \in S => c[2] < attempts[c[1]]
    BY MineFact
  <1>b. /\ job' \in [Jobs -> JobStates]
        /\ job'[j].claims = {} /\ \A i \in Jobs \ {j} : job'[i] = job[i]
    BY OutboxAssumption DEF OutboxSafe, TypeOK, JobStates, BusyJobs, IdleJob, Horizon
  <1>c. \A e \in S : wait[e] # NeverRetry
    BY <1>a DEF OutboxSafe, RowsFit
  <1>d. \A e \in again : pause[e] # NeverRetry
    BY OutboxAssumption DEF NeverRetry
  <1>1. TypeOK'
    BY <1>b, OutboxAssumption DEF OutboxSafe, TypeOK, NeverRetry
  <1>2. RowsFit'
    <2> SUFFICES ASSUME NEW e \in Events
                 PROVE  /\ (status'[e] \in {"NONE", "PENDING"}) <=> (attempts'[e] = 0)
                        /\ token'[e] = IF status'[e] = "PROCESSING" THEN attempts'[e] ELSE 0
                        /\ wait'[e] = NeverRetry => status'[e] = "FAILED"
                        /\ status'[e] = "FAILED" /\ attempts'[e] = MaxAttempts => wait'[e] = NeverRetry
      BY DEF RowsFit, NeverRetry
    <2>1. CASE e \in S
      BY <1>a, <1>c, <1>d, <2>1, NumbersFact
    <2>2. CASE e \notin S
      BY <2>2 DEF OutboxSafe, RowsFit
    <2>3. QED
      BY <2>1, <2>2
  <1>3. ClaimsFit'
    <2> SUFFICES ASSUME NEW i \in Jobs, NEW c \in job'[i].claims
                 PROVE  /\ c[2] <= attempts'[c[1]]
                        /\ c[2] < attempts'[c[1]] => job'[i].age >= Lease
                        /\ c[2] = attempts'[c[1]] =>
                             DeadLetter(c[1])' \/ (status'[c[1]] = "PROCESSING" /\ job'[i].age >= lockAge'[c[1]])
                        /\ \A k \in Jobs : c \in job'[k].claims => k = i
      BY DEF ClaimsFit
    <2>1. i # j /\ c \in job[i].claims /\ job'[i] = job[i]
      BY <1>b
    <2>2. c[1] \in Events /\ c[2] \in Numbers
      BY <2>1 DEF OutboxSafe, TypeOK, JobStates, BusyJobs, IdleJob
    <2>3. /\ c[2] <= attempts[c[1]]
          /\ c[2] < attempts[c[1]] => job[i].age >= Lease
          /\ c[2] = attempts[c[1]] =>
               DeadLetter(c[1]) \/ (status[c[1]] = "PROCESSING" /\ job[i].age >= lockAge[c[1]])
          /\ \A k \in Jobs : c \in job[k].claims => k = i
      BY <2>1 DEF OutboxSafe, ClaimsFit
    <2>4. \A k \in Jobs : c \in job'[k].claims => k = i
      BY <1>b, <2>3
    <2>5. CASE c[1] \in S
      <3>1. c[2] < attempts[c[1]] /\ attempts[c[1]] \in Numbers
        BY <1>a, <2>1, <2>5
      <3>2. c[2] \in Nat /\ attempts[c[1]] \in Nat
        BY <2>2, <3>1, NumbersFact
      <3>3. c[2] # attempts[c[1]]
        BY <3>1, <3>2
      <3>4. QED
        BY <2>1, <2>3, <2>4, <3>1, <3>3
    <2>6. CASE c[1] \notin S
      BY <2>1, <2>2, <2>3, <2>4, <2>6 DEF DeadLetter
    <2>7. QED
      BY <2>5, <2>6
  <1>4. LogMatchesRow'
    <2> SUFFICES ASSUME NEW e \in Events, NEW n \in Numbers
                 PROVE  /\ (outcome'[e][n] # "NONE") <=>
                             (n < attempts'[e] \/ (n = attempts'[e] /\ status'[e] # "PROCESSING"))
                        /\ (outcome'[e][n] = "SUCCESS") <=> (n = attempts'[e] /\ status'[e] = "COMPLETED")
                        /\ (outcome'[e][n] = "PERMANENT") <=> (n = attempts'[e] /\ DeadLetter(e)')
      BY DEF LogMatchesRow
    <2>1. /\ (outcome[e][n] # "NONE") <=>
               (n < attempts[e] \/ (n = attempts[e] /\ status[e] # "PROCESSING"))
          /\ (outcome[e][n] = "SUCCESS") <=> (n = attempts[e] /\ status[e] = "COMPLETED")
          /\ (outcome[e][n] = "PERMANENT") <=> (n = attempts[e] /\ DeadLetter(e))
      BY DEF OutboxSafe, LogMatchesRow
    <2>2. CASE e \in S
      <3>1. ~DeadLetter(e) /\ status[e] = "PROCESSING"
        BY <1>a, <2>2 DEF DeadLetter
      <3>2. DeadLetter(e)' <=> e \in dead
        BY <1>d, <2>2 DEF DeadLetter
      <3>3. status'[e] = "COMPLETED" <=> e \in done
        BY <2>2
      <3>4. status'[e] # "PROCESSING"
        BY <2>2
      <3>5. QED
        BY <2>1, <2>2, <3>1, <3>2, <3>3, <3>4
    <2>3. CASE e \notin S
      BY <2>1, <2>3 DEF DeadLetter
    <2>4. QED
      BY <2>2, <2>3
  <1>5. DeadLettersNotified'
    <2>1. \A e \in Events : DeadLetter(e)' <=> e \in dead \/ DeadLetter(e)
      BY <1>a, <1>d DEF DeadLetter
    <2>2. QED
      BY <2>1 DEF OutboxSafe, DeadLettersNotified
  <1>6. OneMirror'
    <2>1. \A e \in Events : Unfinished(e)' => Unfinished(e)
      BY <1>a DEF Unfinished
    <2>2. QED
      BY <2>1 DEF OutboxSafe, OneMirror
  <1>7. QED
    BY <1>1, <1>2, <1>3, <1>4, <1>5, <1>6 DEF OutboxSafe

LEMMA MarkCompletedSafe ==
    ASSUME OutboxSafe, NEW j \in Jobs, MarkCompleted(j)
    PROVE  OutboxSafe'
  <1> DEFINE S == {c[1] : c \in StillMine(j)}
  <1>1. S \subseteq Events
    BY MineFact
  <1>2. outcome' = [e \in Events |-> [n \in Numbers |->
            IF e \in S /\ n = attempts[e] THEN "SUCCESS" ELSE outcome[e][n]]]
    <2>1. outcome' = [e \in Events |-> [n \in Numbers |->
            IF <<e, n>> \in StillMine(j) THEN "SUCCESS" ELSE outcome[e][n]]]
      BY DEF MarkCompleted
    <2>2. \A e \in Events : \A n \in Numbers : <<e, n>> \in StillMine(j) <=> (e \in S /\ n = attempts[e])
      BY MineFact
    <2> HIDE DEF S
    <2>3. QED
      BY <2>1, <2>2
  <1>3. /\ status' = [e \in Events |-> IF e \in S THEN "COMPLETED" ELSE status[e]]
        /\ token' = [e \in Events |-> IF e \in S THEN 0 ELSE token[e]]
        /\ lockAge' = [e \in Events |-> IF e \in S THEN 0 ELSE lockAge[e]]
        /\ job' = [job EXCEPT ![j] = IdleJob]
        /\ attempts' = attempts /\ wait' = wait /\ notified' = notified
    BY DEF MarkCompleted, Assigned
  <1> DEFINE dead == {}  again == {}  pause == [e \in Events |-> 0]
  <1>4. /\ S = dead \cup again \cup S
        /\ dead \in SUBSET Events /\ again \in SUBSET Events
        /\ pause \in [Events -> 0..MaxDelay]
    BY OutboxAssumption
  <1>5. wait = [e \in Events |-> wait[e]] /\ notified = notified \cup dead
    BY DEF OutboxSafe, TypeOK
  <1> HIDE DEF S
  <1>6. /\ status' = [e \in Events |-> IF e \in S THEN "COMPLETED"
                                       ELSE IF e \in dead \cup again THEN "FAILED" ELSE status[e]]
        /\ token' = [e \in Events |-> IF e \in dead \cup again \cup S THEN 0 ELSE token[e]]
        /\ lockAge' = [e \in Events |-> IF e \in dead \cup again \cup S THEN 0 ELSE lockAge[e]]
        /\ wait' = [e \in Events |-> IF e \in dead THEN NeverRetry
                                     ELSE IF e \in again THEN pause[e] ELSE wait[e]]
        /\ outcome' = [e \in Events |-> [n \in Numbers |->
              IF e \in dead \cup again \cup S /\ n = attempts[e]
              THEN IF e \in S THEN "SUCCESS" ELSE IF e \in dead THEN "PERMANENT" ELSE "RETRYABLE"
              ELSE outcome[e][n]]]
        /\ notified' = notified \cup dead
    BY <1>2, <1>3, <1>5
  <1>7. {c[1] : c \in StillMine(j)} = dead \cup again \cup S
    BY DEF S
  <1>8. Marked(j, dead, again, S, pause)
    BY <1>3, <1>6, <1>7 DEF Marked
  <1> HIDE DEF dead, again, pause
  <1>9. QED
    BY <1>1, <1>4, <1>8, MarkSafe

LEMMA MarkFailedSafe ==
    ASSUME OutboxSafe, NEW j \in Jobs, MarkFailed(j)
    PROVE  OutboxSafe'
  <1> DEFINE mine  == StillMine(j)
             S     == {c[1] : c \in mine}
             dead  == {c[1] : c \in {c \in mine : ~job[j].retryable \/ c[2] >= MaxAttempts}}
             again == S \ dead
             done  == {}
             pause == [e \in Events |-> NextWait(j, e)]
  <1>1. /\ S \subseteq Events
        /\ \A e \in S : attempts[e] \in Numbers
        /\ \A e \in Events : \A n \in Numbers : <<e, n>> \in mine <=> (e \in S /\ n = attempts[e])
    BY MineFact
  <1>2. /\ dead \subseteq S /\ S = dead \cup again \cup done
        /\ dead \cap again = {}
    OBVIOUS
  <1>3. \A e \in S : <<e, attempts[e]>> \in mine
    BY <1>1
  <1>4. \A e \in Events : \A n \in Numbers :
          <<e, n>> \in {c \in mine : ~job[j].retryable \/ c[2] >= MaxAttempts}
            <=> (e \in dead /\ n = attempts[e])
    <2> SUFFICES ASSUME NEW e \in Events, NEW n \in Numbers
                 PROVE  <<e, n>> \in {c \in mine : ~job[j].retryable \/ c[2] >= MaxAttempts}
                          <=> (e \in dead /\ n = attempts[e])
      OBVIOUS
    <2>1. ASSUME <<e, n>> \in {c \in mine : ~job[j].retryable \/ c[2] >= MaxAttempts}
          PROVE  e \in dead /\ n = attempts[e]
      BY <1>1, <2>1
    <2>2. ASSUME e \in dead, n = attempts[e]
          PROVE  <<e, n>> \in {c \in mine : ~job[j].retryable \/ c[2] >= MaxAttempts}
      <3>1. PICK c \in mine : c[1] = e /\ (~job[j].retryable \/ c[2] >= MaxAttempts)
        BY <2>2
      <3>2. c \in Events \X Numbers
        BY DEF StillMine, OutboxSafe, TypeOK, JobStates, BusyJobs, IdleJob
      <3>3. c[2] = attempts[e]
        BY <1>1, <3>1, <3>2
      <3>4. QED
        BY <2>2, <3>1, <3>2, <3>3
    <2>3. QED
      BY <2>1, <2>2
  <1>5. \A e \in again : attempts[e] # MaxAttempts
    <2> SUFFICES ASSUME NEW e \in again, attempts[e] = MaxAttempts PROVE FALSE
      OBVIOUS
    <2>1. <<e, attempts[e]>> \in mine /\ attempts[e] >= MaxAttempts /\ e \in Events
      BY <1>1, <1>3, OutboxAssumption
    <2>2. e \in dead
      BY <1>1, <1>4, <2>1
    <2>3. QED
      BY <2>2
  <1>6. pause \in [Events -> 0..MaxDelay]
    BY NextWaitBounded DEF OutboxSafe
  <1>7. /\ status' = [e \in Events |-> IF e \in S THEN "FAILED" ELSE status[e]]
        /\ token' = [e \in Events |-> IF e \in S THEN 0 ELSE token[e]]
        /\ lockAge' = [e \in Events |-> IF e \in S THEN 0 ELSE lockAge[e]]
        /\ wait' = [e \in Events |-> IF e \in dead THEN NeverRetry
                                     ELSE IF e \in S THEN NextWait(j, e) ELSE wait[e]]
        /\ outcome' = [e \in Events |-> [n \in Numbers |->
              IF <<e, n>> \in {c \in mine : ~job[j].retryable \/ c[2] >= MaxAttempts} THEN "PERMANENT"
              ELSE IF <<e, n>> \in mine THEN "RETRYABLE" ELSE outcome[e][n]]]
        /\ notified' = notified \cup dead
        /\ job' = [job EXCEPT ![j] = IdleJob]
        /\ attempts' = attempts
    BY DEF MarkFailed, Assigned
  <1>8. outcome' = [e \in Events |-> [n \in Numbers |->
              IF e \in dead \cup again \cup done /\ n = attempts[e]
              THEN IF e \in done THEN "SUCCESS" ELSE IF e \in dead THEN "PERMANENT" ELSE "RETRYABLE"
              ELSE outcome[e][n]]]
    <2> DEFINE deadClaims == {c \in mine : ~job[j].retryable \/ c[2] >= MaxAttempts}
    <2>1. outcome' = [e \in Events |-> [n \in Numbers |->
              IF <<e, n>> \in deadClaims THEN "PERMANENT"
              ELSE IF <<e, n>> \in mine THEN "RETRYABLE" ELSE outcome[e][n]]]
      BY <1>7
    <2>2. \A e \in Events : \A n \in Numbers : <<e, n>> \in deadClaims <=> (e \in dead /\ n = attempts[e])
      BY <1>4
    <2>3. \A e \in Events : \A n \in Numbers : <<e, n>> \in mine <=> (e \in S /\ n = attempts[e])
      BY <1>1
    <2>4. dead \subseteq S /\ S = dead \cup again \cup done /\ done = {}
      BY <1>2
    <2> HIDE DEF deadClaims, mine, S, dead, again, done
    <2>5. QED
      BY <2>1, <2>2, <2>3, <2>4
  <1> HIDE DEF mine, dead
  <1>9. /\ status' = [e \in Events |-> IF e \in done THEN "COMPLETED"
                                       ELSE IF e \in dead \cup again THEN "FAILED" ELSE status[e]]
        /\ token' = [e \in Events |-> IF e \in dead \cup again \cup done THEN 0 ELSE token[e]]
        /\ lockAge' = [e \in Events |-> IF e \in dead \cup again \cup done THEN 0 ELSE lockAge[e]]
        /\ wait' = [e \in Events |-> IF e \in dead THEN NeverRetry
                                     ELSE IF e \in again THEN pause[e] ELSE wait[e]]
    BY <1>1, <1>2, <1>7
  <1>10. {c[1] : c \in StillMine(j)} = dead \cup again \cup done
    BY <1>2 DEF mine
  <1>11. /\ dead \in SUBSET Events /\ again \in SUBSET Events /\ done \in SUBSET Events
         /\ dead \cap again = {} /\ dead \cap done = {} /\ again \cap done = {}
    BY <1>1, <1>2
  <1>12. Marked(j, dead, again, done, pause)
    BY <1>5, <1>7, <1>8, <1>9, <1>10, <1>11 DEF Marked
  <1> HIDE DEF again, done, pause
  <1>13. QED
    BY <1>6, <1>11, <1>12, MarkSafe

LEMMA TickSafe == ASSUME OutboxSafe, Tick PROVE OutboxSafe'
  <1>a. \A e \in Events :
          /\ wait'[e] \in {NeverRetry} \cup 0..MaxDelay
          /\ wait'[e] = NeverRetry <=> wait[e] = NeverRetry
    BY OutboxAssumption DEF Tick, OutboxSafe, TypeOK, NeverRetry
  <1>b. \A e \in Events :
          /\ lockAge'[e] \in 0..Lease
          /\ lockAge'[e] = lockAge[e] \/ lockAge'[e] = Smaller(Lease, lockAge[e] + 1)
    BY OutboxAssumption DEF Tick, OutboxSafe, TypeOK, Smaller
  <1>c. ASSUME NEW j \in Jobs
        PROVE  /\ job'[j] \in JobStates /\ job'[j].claims = job[j].claims
               /\ job[j].claims # {} => job'[j].age = Smaller(Horizon, job[j].age + 1)
    <2>1. CASE job[j] = IdleJob
      BY <2>1 DEF Tick, JobStates, IdleJob
    <2>2. CASE job[j] \in BusyJobs
      <3>1. job[j].step # "idle" /\ job[j].age \in 0..Horizon
        BY <2>2 DEF BusyJobs
      <3>2. Smaller(Horizon, job[j].age + 1) \in 0..Horizon
        BY <3>1, OutboxAssumption DEF Horizon, Smaller
      <3>3. job'[j] = [job[j] EXCEPT !.age = Smaller(Horizon, job[j].age + 1)]
        BY <3>1 DEF Tick
      <3>4. QED
        BY <2>2, <3>2, <3>3 DEF JobStates, BusyJobs
    <2>3. QED
      BY <2>1, <2>2 DEF OutboxSafe, TypeOK, JobStates
  <1>1. TypeOK'
    <2>1. wait' \in [Events -> {NeverRetry} \cup 0..MaxDelay] /\ lockAge' \in [Events -> 0..Lease]
      BY <1>a, <1>b DEF Tick
    <2>2. job' \in [Jobs -> JobStates]
      BY <1>c DEF Tick
    <2>3. QED
      BY <2>1, <2>2 DEF Tick, OutboxSafe, TypeOK
  <1>2. RowsFit'
    BY <1>a DEF Tick, OutboxSafe, RowsFit
  <1>3. ClaimsFit'
    <2> SUFFICES ASSUME NEW j \in Jobs, NEW c \in job'[j].claims
                 PROVE  /\ c[2] <= attempts[c[1]]
                        /\ c[2] < attempts[c[1]] => job'[j].age >= Lease
                        /\ c[2] = attempts[c[1]] =>
                             DeadLetter(c[1])' \/ (status[c[1]] = "PROCESSING" /\ job'[j].age >= lockAge'[c[1]])
                        /\ \A i \in Jobs : c \in job'[i].claims => i = j
      BY DEF ClaimsFit, Tick
    <2>1. c \in job[j].claims /\ c[1] \in Events /\ job[j].age \in 0..Horizon
      BY <1>c DEF OutboxSafe, TypeOK, JobStates, BusyJobs, IdleJob
    <2>2. /\ c[2] <= attempts[c[1]]
          /\ c[2] < attempts[c[1]] => job[j].age >= Lease
          /\ c[2] = attempts[c[1]] =>
               DeadLetter(c[1]) \/ (status[c[1]] = "PROCESSING" /\ job[j].age >= lockAge[c[1]])
          /\ \A i \in Jobs : c \in job[i].claims => i = j
      BY <2>1 DEF OutboxSafe, ClaimsFit
    <2>3. job'[j].age = Smaller(Horizon, job[j].age + 1)
      BY <1>c, <2>1
    <2>4. /\ job[j].age >= Lease => job'[j].age >= Lease
          /\ \A l \in 0..Lease : job[j].age >= l => job'[j].age >= l /\ job'[j].age >= Smaller(Lease, l + 1)
      BY <2>1, <2>3, OutboxAssumption DEF Horizon, Smaller
    <2>5. job[j].age >= lockAge[c[1]] => job'[j].age >= lockAge'[c[1]]
      <3>1. lockAge[c[1]] \in 0..Lease
        BY <2>1 DEF OutboxSafe, TypeOK
      <3>2. QED
        BY <1>b, <2>1, <2>4, <3>1
    <2>6. DeadLetter(c[1])' <=> DeadLetter(c[1])
      BY <1>a, <2>1 DEF DeadLetter, Tick
    <2>7. \A i \in Jobs : c \in job'[i].claims => i = j
      BY <1>c, <2>2
    <2>8. QED
      BY <2>2, <2>4, <2>5, <2>6, <2>7
  <1>4. LogMatchesRow'
    BY <1>a DEF Tick, OutboxSafe, LogMatchesRow, DeadLetter
  <1>5. DeadLettersNotified'
    BY <1>a DEF Tick, OutboxSafe, DeadLettersNotified, DeadLetter
  <1>6. OneMirror'
    BY <1>a DEF Tick, OutboxSafe, OneMirror, Unfinished
  <1>7. QED
    BY <1>1, <1>2, <1>3, <1>4, <1>5, <1>6 DEF OutboxSafe

LEMMA NextSafe == OutboxSafe /\ [Next]_vars => OutboxSafe'
  <1> SUFFICES ASSUME OutboxSafe, [Next]_vars PROVE OutboxSafe'
    OBVIOUS
  <1>a. ASSUME NEW j \in Jobs, job[j].step # "idle"
        PROVE  /\ \A s \in {"claimed", "served", "failed"} : \A r \in BOOLEAN :
                    LET new == [job[j] EXCEPT !.step = s, !.retryable = r]
                    IN new \in JobStates /\ new.claims = job[j].claims /\ new.age = job[j].age
               /\ [job[j] EXCEPT !.step = "served"] \in JobStates
    <2>1. job[j] \in BusyJobs
      BY <1>a DEF OutboxSafe, TypeOK, JobStates, IdleJob
    <2>2. QED
      BY <2>1 DEF JobStates, BusyJobs
  <1>1. ASSUME NEW e \in Events, Enqueue(e) PROVE OutboxSafe'
    BY <1>1, EnqueueSafe
  <1>2. ASSUME NEW j \in Jobs, Claim(j) PROVE OutboxSafe'
    <2>1. PICK c \in Channels : \E S \in Batches(c) : ClaimRows(j, S)
      BY <1>2 DEF Claim
    <2>2. PICK S \in Batches(c) : ClaimRows(j, S)
      BY <2>1
    <2>3. S \in SUBSET Events /\ \A e \in S : Due(e)
      BY DEF Batches
    <2>4. QED
      BY <2>2, <2>3, ClaimSafe
  <1>3. ASSUME NEW j \in Jobs, Succeed(j) PROVE OutboxSafe'
    <2> DEFINE new == [job[j] EXCEPT !.step = "served"]
    <2>1. job' = [job EXCEPT ![j] = new] /\ UNCHANGED rows /\ new \in JobStates
      BY <1>a, <1>3 DEF Succeed
    <2>2. new.claims = job[j].claims /\ new.age = job[j].age
      BY <1>3 DEF Succeed, OutboxSafe, TypeOK, JobStates, BusyJobs, IdleJob
    <2> HIDE DEF new
    <2>3. QED
      BY <2>1, <2>2, JobStepSafe
  <1>4. ASSUME NEW j \in Jobs, Err(j) \/ CompletionFails(j) PROVE OutboxSafe'
    <2>1. PICK r \in BOOLEAN :
            /\ job' = [job EXCEPT ![j].step = "failed", ![j].retryable = r]
            /\ UNCHANGED rows /\ job[j].step # "idle"
      BY <1>4 DEF Err, CompletionFails
    <2> DEFINE new == [job[j] EXCEPT !.step = "failed", !.retryable = r]
    <2>2. job' = [job EXCEPT ![j] = new]
      BY <2>1 DEF OutboxSafe, TypeOK
    <2>3. new \in JobStates /\ new.claims = job[j].claims /\ new.age = job[j].age
      BY <1>a, <2>1
    <2> HIDE DEF new
    <2>4. QED
      BY <2>1, <2>2, <2>3, JobStepSafe
  <1>5. ASSUME NEW j \in Jobs, MarkCompleted(j) PROVE OutboxSafe'
    BY <1>5, MarkCompletedSafe
  <1>6. ASSUME NEW j \in Jobs, MarkFailed(j) PROVE OutboxSafe'
    BY <1>6, MarkFailedSafe
  <1>7. ASSUME NEW j \in Jobs, Crash(j) PROVE OutboxSafe'
    <2>1. IdleJob \in JobStates /\ IdleJob.claims = {}
      BY DEF JobStates, IdleJob
    <2>2. job' = [job EXCEPT ![j] = IdleJob] /\ UNCHANGED rows
      BY <1>7 DEF Crash
    <2>3. QED
      BY <2>1, <2>2, JobStepSafe
  <1>8. CASE Tick
    BY <1>8, TickSafe
  <1>9. CASE UNCHANGED vars
    BY <1>9 DEF vars, OutboxSafe, TypeOK, RowsFit, ClaimsFit, LogMatchesRow, DeadLettersNotified,
                OneMirror, Unfinished, DeadLetter
  <1>10. QED
    BY <1>1, <1>2, <1>3, <1>4, <1>5, <1>6, <1>7, <1>8, <1>9 DEF Next

(* The outbox is safe: the log of attempts agrees with the rows, every     *)
(* dead letter was reported, and at most one mirror is under way.          *)
THEOREM OutboxIsSafe == Spec => []OutboxSafe
  BY InitSafe, NextSafe, PTL DEF Spec

THEOREM OutboxTypeOK == Spec => []TypeOK
  BY OutboxIsSafe, PTL DEF OutboxSafe

(* Each attempt that is over has one outcome, and the last one decides how *)
(* the row ended.                                                          *)
THEOREM LogAlwaysMatches == Spec => []LogMatchesRow
  BY OutboxIsSafe, PTL DEF OutboxSafe

(* Exactly the dead letters were reported to the administrators.           *)
THEOREM AllDeadLettersNotified == Spec => []DeadLettersNotified
  BY OutboxIsSafe, PTL DEF OutboxSafe

(* There is never a second mirror of the catalog under way.                *)
THEOREM AlwaysOneMirror == Spec => []OneMirror
  BY OutboxIsSafe, PTL DEF OutboxSafe

(* Within its lease a job has its rows for itself.                         *)
THEOREM AlwaysAlone == Spec => []AloneWithinLease
  <1>1. OutboxSafe => AloneWithinLease
    <2> SUFFICES ASSUME OutboxSafe, NEW i \in Jobs, NEW j \in Jobs,
                        NEW c \in job[i].claims, NEW d \in job[j].claims, c[1] = d[1], c[2] < d[2]
                 PROVE  job[i].age >= Lease
      BY DEF AloneWithinLease
    <2>1. c[1] \in Events /\ c[2] \in Numbers /\ d[2] \in Numbers
      BY DEF OutboxSafe, TypeOK, JobStates, BusyJobs, IdleJob
    <2>2. d[2] <= attempts[c[1]] /\ attempts[c[1]] \in 0..MaxAttempts
      BY <2>1 DEF OutboxSafe, TypeOK, ClaimsFit
    <2>3. c[2] \in Nat /\ d[2] \in Nat /\ attempts[c[1]] \in Nat
      BY <2>1, <2>2, NumbersFact, OutboxAssumption
    <2>4. c[2] < attempts[c[1]]
      BY <2>2, <2>3
    <2>5. QED
      BY <2>4 DEF OutboxSafe, ClaimsFit
  <1>2. QED
    BY <1>1, OutboxIsSafe, PTL

(* No step touches a row that was completed or given up.                   *)
LEMMA EndedStays ==
    ASSUME OutboxSafe, [Next]_vars, NEW e \in Events, Ended(e)
    PROVE  Ended(e)' /\ status'[e] = status[e] /\ outcome'[e] = outcome[e]
  <1> USE DEF OutboxSafe, TypeOK
  <1>a. status[e] \in {"COMPLETED", "FAILED"} /\ ~Due(e)
    BY DEF Ended, DeadLetter, Due, NeverRetry
  <1>1. ASSUME NEW r \in Events, Enqueue(r) PROVE status'[e] = status[e] /\ UNCHANGED <<wait, outcome>>
    BY <1>1, <1>a DEF Enqueue
  <1>2. ASSUME NEW j \in Jobs, Claim(j)
        PROVE  status'[e] = status[e] /\ wait'[e] = wait[e] /\ outcome'[e] = outcome[e]
    <2>1. PICK c \in Channels : \E S \in Batches(c) : ClaimRows(j, S)
      BY <1>2 DEF Claim
    <2>2. PICK S \in Batches(c) : ClaimRows(j, S)
      BY <2>1
    <2>3. e \notin S
      BY <1>a DEF Batches
    <2> DEFINE gone  == {x \in S : Exhausted(x)}
               stale == {x \in S \ gone : status[x] = "PROCESSING"}
    <2>4. e \notin gone /\ e \notin S \ gone /\ e \notin stale
      BY <2>3
    <2>5. /\ status' = [x \in Events |-> IF x \in gone THEN "FAILED"
                                         ELSE IF x \in S \ gone THEN "PROCESSING" ELSE status[x]]
          /\ wait' = [x \in Events |-> IF x \in gone THEN NeverRetry ELSE wait[x]]
          /\ outcome' = [x \in Events |-> [n \in Numbers |->
                IF x \in gone /\ n = attempts[x] THEN "PERMANENT"
                ELSE IF x \in stale /\ n = attempts[x] THEN "RETRYABLE" ELSE outcome[x][n]]]
      BY <2>2 DEF ClaimRows, GiveUp, Assigned
    <2> HIDE DEF gone, stale
    <2>6. QED
      BY <2>4, <2>5
  <1>3. ASSUME NEW j \in Jobs, MarkCompleted(j) \/ MarkFailed(j)
        PROVE  status'[e] = status[e] /\ wait'[e] = wait[e] /\ outcome'[e] = outcome[e]
    <2> DEFINE S == {c[1] : c \in StillMine(j)}
               dead == {c \in StillMine(j) : ~job[j].retryable \/ c[2] >= MaxAttempts}
               gone == {c[1] : c \in dead}
    <2>1. e \notin S /\ e \notin gone /\ \A n \in Numbers : <<e, n>> \notin StillMine(j) /\ <<e, n>> \notin dead
      BY <1>a DEF StillMine
    <2>2. CASE MarkCompleted(j)
      <3>1. /\ status' = [x \in Events |-> IF x \in S THEN "COMPLETED" ELSE status[x]]
            /\ outcome' = [x \in Events |-> [n \in Numbers |->
                  IF <<x, n>> \in StillMine(j) THEN "SUCCESS" ELSE outcome[x][n]]]
            /\ wait' = wait
        BY <2>2 DEF MarkCompleted, Assigned
      <3> HIDE DEF S
      <3>2. QED
        BY <2>1, <3>1
    <2>3. CASE MarkFailed(j)
      <3>1. /\ status' = [x \in Events |-> IF x \in S THEN "FAILED" ELSE status[x]]
            /\ wait' = [x \in Events |-> IF x \in gone THEN NeverRetry
                                         ELSE IF x \in S THEN NextWait(j, x) ELSE wait[x]]
            /\ outcome' = [x \in Events |-> [n \in Numbers |->
                  IF <<x, n>> \in dead THEN "PERMANENT"
                  ELSE IF <<x, n>> \in StillMine(j) THEN "RETRYABLE" ELSE outcome[x][n]]]
        BY <2>3 DEF MarkFailed, Assigned
      <3> HIDE DEF S, dead, gone
      <3>2. QED
        BY <2>1, <3>1
    <2>4. QED
      BY <1>3, <2>2, <2>3
  <1>4. ASSUME NEW j \in Jobs, Succeed(j) \/ Err(j) \/ CompletionFails(j) \/ Crash(j)
        PROVE  UNCHANGED <<status, wait, outcome>>
    BY <1>4 DEF Succeed, Err, CompletionFails, Crash, rows
  <1>5. CASE Tick
    BY <1>5 DEF Tick, Ended, DeadLetter, NeverRetry
  <1>6. CASE UNCHANGED vars
    BY <1>6 DEF vars, Ended, DeadLetter
  <1>7. QED
    BY <1>1, <1>2, <1>3, <1>4, <1>5, <1>6 DEF Next, Ended, DeadLetter

(* A row that has ended stays as it is, whatever late jobs do.             *)
THEOREM AlwaysEndsForGood == Spec => EndsForGood
  <1>1. OutboxSafe /\ [Next]_vars =>
          [\A e \in Events :
             Ended(e) => Ended(e)' /\ status'[e] = status[e] /\ outcome'[e] = outcome[e]]_vars
    BY EndedStays
  <1>2. QED
    BY <1>1, OutboxIsSafe, PTL DEF Spec, EndsForGood
=============================================================================
