--------------------------- MODULE JobQueueProofs ---------------------------
(***************************************************************************)
(* What TLC checks of JobQueue on three rows and two workers, proved for    *)
(* every number of workers, rows, list lengths and crashes.                *)
(***************************************************************************)
EXTENDS JobQueue, TLAPS

\* A list a worker reads from a table holds ids of that table.
LEMMA FirstOfTable ==
  ASSUME NEW n, NEW S \in SUBSET Jobs
  PROVE  First(n, S) \in SUBSET Jobs
  BY DEF First

\* A row number is never 0, the "no job" of cur.
LEMMA JobsArePositive == \A j \in Jobs : j \in Nat /\ j # 0
  BY QueueAssumption DEF Jobs

\* The table starts well typed, with no worker holding a row.
LEMMA TypeInit == JobInit => JobTypeOK
  BY JobsArePositive DEF JobInit, JobTypeOK, JobStatuses, Phases

\* Every step of the queue keeps every column and every local variable in range.
\* CloseJob needs to know that a worker at work holds a row; the refinement, that
\* no other worker does.
HoldsRow ==
  \A w \in Workers :
    IF phase[w] \in {"marking", "working"} THEN cur[w] \in Jobs ELSE cur[w] = 0

LEMMA TypeStep == JobTypeOK /\ HoldsRow /\ [JobNext]_jobVars => JobTypeOK' /\ HoldsRow'
<1> SUFFICES ASSUME JobTypeOK, HoldsRow, [JobNext]_jobVars
             PROVE  JobTypeOK' /\ HoldsRow'
  OBVIOUS
<1> USE DEF JobTypeOK, HoldsRow, JobStatuses, Phases, tableVars, loopVars
<1>1. ASSUME NEW j \in Jobs, NEW t \in Targets, Enqueue(j, t)
      PROVE  JobTypeOK' /\ HoldsRow'
  BY <1>1 DEF Enqueue
<1>2. ASSUME NEW j \in Jobs, Timeout(j)
      PROVE  JobTypeOK' /\ HoldsRow'
  BY <1>2 DEF Timeout
<1>3. ASSUME NEW w \in Workers, SweepList(w)
      PROVE  JobTypeOK' /\ HoldsRow'
  <2>1. First(SweepBatch, WithStatus("running") \cap overdue) \in SUBSET Jobs
    BY FirstOfTable DEF WithStatus
  <2> QED BY <1>3, <2>1 DEF SweepList
<1>4. ASSUME NEW w \in Workers, PollList(w)
      PROVE  JobTypeOK' /\ HoldsRow'
  <2>1. First(ClaimBatch, WithStatus("pending")) \in SUBSET Jobs
    BY FirstOfTable DEF WithStatus
  <2> QED BY <1>4, <2>1 DEF PollList
<1>5. ASSUME NEW w \in Workers, NEW j \in Jobs, SweepFail(w, j)
      PROVE  JobTypeOK' /\ HoldsRow'
  BY <1>5 DEF SweepFail, Expired
<1>6. ASSUME NEW w \in Workers, NEW j \in Jobs, SweepSkip(w, j) \/ SkipJob(w, j)
      PROVE  JobTypeOK' /\ HoldsRow'
  BY <1>6 DEF SweepSkip, SkipJob
<1>7. ASSUME NEW w \in Workers, SweepResume(w) \/ PollEmpty(w)
      PROVE  JobTypeOK' /\ HoldsRow'
  BY <1>7 DEF SweepResume, PollEmpty
<1>8. ASSUME NEW w \in Workers, NEW j \in Jobs, TakeJob(w, j)
      PROVE  JobTypeOK' /\ HoldsRow'
  BY <1>8 DEF TakeJob
<1>9. ASSUME NEW w \in Workers, NEW outcome \in Settled, CloseJob(w, outcome)
      PROVE  JobTypeOK' /\ HoldsRow'
  BY <1>9 DEF CloseJob, Settled
<1>10. ASSUME NEW w \in Workers, Die(w) \/ Crash(w)
       PROVE  JobTypeOK' /\ HoldsRow'
  BY <1>10 DEF Die, Crash, Restart
<1>11. CASE UNCHANGED jobVars
  BY <1>11 DEF jobVars
<1> QED
  BY <1>1, <1>2, <1>3, <1>4, <1>5, <1>6, <1>7, <1>8, <1>9, <1>10, <1>11
     DEF JobNext, WorkerStep, Loop

\* The columns and the workers' local variables stay in their types.
THEOREM TypeCorrect == JobSafety => []JobTypeOK
<1>1. JobInit => JobTypeOK /\ HoldsRow
  BY TypeInit DEF JobInit, HoldsRow
<1>2. JobTypeOK /\ HoldsRow /\ [JobNext]_jobVars => (JobTypeOK /\ HoldsRow)'
  BY TypeStep
<1> QED
  BY <1>1, <1>2, PTL DEF JobSafety

-----------------------------------------------------------------------------
(***************************************************************************)
(* The inductive invariant.  ExclusiveWork does not mention marking and     *)
(* ExclusiveMark does not mention working, but neither is inductive without *)
(* the status a held row must have: a row can be claimed only from pending  *)
(* and failed only from running, which is what keeps a second worker out.   *)
(* ListedIsDue is what a sweep remembers of the moment it read its list.    *)
(***************************************************************************)
ListedIsDue ==
  \A w \in Workers : phase[w] \in {"sweeping", "marking"} => batch[w] \subseteq overdue

QueueInv ==
  /\ JobTypeOK
  /\ HoldsRow
  /\ ListedIsDue
  /\ ExclusiveWork
  /\ ExclusiveMark
  /\ ClaimedOnce

LEMMA InvInit == JobInit => QueueInv
  BY TypeInit DEF JobInit, QueueInv, HoldsRow, ListedIsDue, ExclusiveWork, ExclusiveMark,
                  ClaimedOnce

LEMMA InvStep == QueueInv /\ [JobNext]_jobVars => QueueInv'
<1> SUFFICES ASSUME QueueInv, [JobNext]_jobVars
             PROVE  ListedIsDue' /\ ExclusiveWork' /\ ExclusiveMark' /\ ClaimedOnce'
  BY TypeStep DEF QueueInv
<1>0. ListedIsDue'
  <2> SUFFICES ASSUME NEW w \in Workers, phase'[w] \in {"sweeping", "marking"}
               PROVE  batch'[w] \subseteq overdue'
    BY DEF ListedIsDue
  <2> USE DEF QueueInv, JobTypeOK, ListedIsDue, tableVars, loopVars
  <2>1. overdue \subseteq overdue'
    BY DEF JobNext, WorkerStep, Loop, Enqueue, Timeout, SweepList, SweepSkip, SweepFail,
           SweepResume, PollList, SkipJob, PollEmpty, TakeJob, CloseJob, Die, Crash,
           Restart, jobVars
  <2>2. CASE phase[w] = "idle" /\ SweepList(w)
    BY <2>1, <2>2 DEF SweepList, First
  <2>3. CASE phase[w] \in {"sweeping", "marking"} /\ batch'[w] \subseteq batch[w]
    BY <2>1, <2>3
  <2>4. \/ phase[w] = "idle" /\ SweepList(w)
        \/ phase[w] \in {"sweeping", "marking"} /\ batch'[w] \subseteq batch[w]
    <3>1. ASSUME NEW v \in Workers, WorkerStep(v) \/ Die(v) \/ Crash(v)
          PROVE  <2>4!1 \/ <2>4!2
      <4>1. CASE v = w
        BY <3>1, <4>1
           DEF WorkerStep, Loop, SweepList, SweepSkip, SweepFail, SweepResume, PollList,
               SkipJob, PollEmpty, TakeJob, CloseJob, Die, Crash, Restart
      <4>2. CASE v # w
        BY <3>1, <4>2
           DEF WorkerStep, Loop, SweepList, SweepSkip, SweepFail, SweepResume, PollList,
               SkipJob, PollEmpty, TakeJob, CloseJob, Die, Crash, Restart
      <4> QED BY <4>1, <4>2
    <3> QED BY <3>1 DEF JobNext, Enqueue, Timeout, jobVars
  <2> QED BY <2>2, <2>3, <2>4
<1> USE JobsArePositive
    DEF QueueInv, JobTypeOK, HoldsRow, JobStatuses, Settled, Phases, tableVars, loopVars,
        ExclusiveWork, ExclusiveMark, ClaimedOnce
<1>1. ASSUME NEW j \in Jobs, NEW t \in Targets, Enqueue(j, t)
      PROVE  ExclusiveWork' /\ ExclusiveMark' /\ ClaimedOnce'
  BY <1>1 DEF Enqueue
<1>2. ASSUME NEW j \in Jobs, Timeout(j)
      PROVE  ExclusiveWork' /\ ExclusiveMark' /\ ClaimedOnce'
  BY <1>2 DEF Timeout
<1>3. ASSUME NEW w \in Workers,
             Loop(w) \/ SweepResume(w) \/ Die(w) \/ Crash(w)
      PROVE  ExclusiveWork' /\ ExclusiveMark' /\ ClaimedOnce'
  BY <1>3 DEF Loop, SweepList, SweepSkip, PollList, SkipJob, PollEmpty, SweepResume,
              Die, Crash, Restart
<1>4. ASSUME NEW w \in Workers, NEW j \in Jobs, SweepFail(w, j)
      PROVE  ExclusiveWork' /\ ExclusiveMark' /\ ClaimedOnce'
  <2>1. ExclusiveWork'
    BY <1>4 DEF SweepFail, Open, Expired
  <2>2. ExclusiveMark'
    BY <1>4 DEF SweepFail, Open, Expired
  <2>3. ClaimedOnce'
    BY <1>4 DEF SweepFail, Open, Expired
  <2> QED BY <2>1, <2>2, <2>3
<1>5. ASSUME NEW w \in Workers, NEW j \in Jobs, TakeJob(w, j)
      PROVE  ExclusiveWork' /\ ExclusiveMark' /\ ClaimedOnce'
  <2>1. ExclusiveWork'
    BY <1>5 DEF TakeJob, Claimable
  <2>2. ExclusiveMark'
    BY <1>5 DEF TakeJob, Claimable
  <2>3. ClaimedOnce'
    BY <1>5 DEF TakeJob, Claimable
  <2> QED BY <2>1, <2>2, <2>3
<1>6. ASSUME NEW w \in Workers, NEW outcome \in Settled, CloseJob(w, outcome)
      PROVE  ExclusiveWork' /\ ExclusiveMark' /\ ClaimedOnce'
  <2>1. ExclusiveWork'
    BY <1>6 DEF CloseJob, Open
  <2>2. ExclusiveMark'
    BY <1>6 DEF CloseJob, Open
  <2>3. ClaimedOnce'
    BY <1>6 DEF CloseJob, Open
  <2> QED BY <2>1, <2>2, <2>3
<1>7. CASE UNCHANGED jobVars
  BY <1>0, <1>7 DEF jobVars
<1> QED
  BY <1>0, <1>1, <1>2, <1>3, <1>4, <1>5, <1>6, <1>7 DEF JobNext, WorkerStep

\* The inductive invariant holds in every state of the queue.
THEOREM QueueInvariant == JobSafety => []QueueInv
  BY InvInit, InvStep, PTL DEF JobSafety

\* No two workers ever work on the same row, however many race for it.
THEOREM WorkIsExclusive == JobSafety => []ExclusiveWork
  BY QueueInvariant, PTL DEF QueueInv

\* No two sweeps ever mark the target of the same expired row.
THEOREM MarkIsExclusive == JobSafety => []ExclusiveMark
  BY QueueInvariant, PTL DEF QueueInv

\* A row is handed to at most one worker in its life: nothing is replayed.
THEOREM NothingReplayed == JobSafety => []ClaimedOnce
  BY QueueInvariant, PTL DEF QueueInv

-----------------------------------------------------------------------------
\* A settled row keeps the status it settled with.
THEOREM SettlementIsFinal == JobSafety => SettledForGood
<1>1. QueueInv /\ [JobNext]_jobVars
        => [\A j \in Jobs : jobStatus[j] \in Settled => jobStatus'[j] = jobStatus[j]]_jobVars
  <2> SUFFICES ASSUME QueueInv, [JobNext]_jobVars, NEW j \in Jobs, jobStatus[j] \in Settled
               PROVE  jobStatus'[j] = jobStatus[j]
    OBVIOUS
  <2> USE DEF QueueInv, JobTypeOK, JobStatuses, Settled, tableVars, loopVars
  <2>1. ASSUME NEW k \in Jobs, NEW t \in Targets, Enqueue(k, t)
        PROVE  jobStatus'[j] = jobStatus[j]
    BY <2>1 DEF Enqueue
  <2>2. ASSUME NEW w \in Workers, NEW k \in Jobs, SweepFail(w, k) \/ TakeJob(w, k)
        PROVE  jobStatus'[j] = jobStatus[j]
    BY <2>2 DEF SweepFail, TakeJob, Open, Claimable
  <2>3. ASSUME NEW w \in Workers, NEW outcome \in Settled, CloseJob(w, outcome)
        PROVE  jobStatus'[j] = jobStatus[j]
    BY <2>3 DEF CloseJob, Open, HoldsRow
  <2>4. ASSUME UNCHANGED jobStatus
        PROVE  jobStatus'[j] = jobStatus[j]
    BY <2>4
  <2> QED
    BY <2>1, <2>2, <2>3, <2>4
       DEF JobNext, WorkerStep, Loop, Timeout, SweepList, SweepSkip, PollList, SkipJob,
           PollEmpty, SweepResume, Die, Crash, Restart, jobVars
<1> QED
  BY <1>1, QueueInvariant, PTL DEF JobSafety, SettledForGood

\* Every step of the loop is a step of the queue the program relies on, or invisible
\* to it.  (That every row settles in the end is model-checked.)
THEOREM LoopImplementsQueue == JobSafety => Promise!JobSafety
<1>1. JobInit => Promise!JobInit
  BY DEF JobInit, Promise!JobInit, Duty, Jobs, Promise!Jobs
<1>2. QueueInv /\ [JobNext]_jobVars => [Promise!JobNext]_(Promise!jobVars)
  <2> SUFFICES ASSUME QueueInv, [JobNext]_jobVars
               PROVE  [Promise!JobNext]_(Promise!jobVars)
    OBVIOUS
  <2> USE DEF QueueInv, JobTypeOK, HoldsRow, Phases, tableVars, loopVars, Duty
  <2>1. ASSUME NEW j \in Jobs, NEW t \in Targets, Enqueue(j, t)
        PROVE  Promise!Enqueue(j, t)
    BY <2>1 DEF Enqueue, Promise!Enqueue, Jobs, Promise!Jobs
  <2>2. ASSUME NEW j \in Jobs, Timeout(j)
        PROVE  Promise!Timeout(j)
    BY <2>2 DEF Timeout, Promise!Timeout
  <2>3. ASSUME NEW w \in Workers, Loop(w)
        PROVE  UNCHANGED Promise!jobVars
    <3>1. UNCHANGED <<jobStatus, jobTarget, overdue, cur>>
      BY <2>3 DEF Loop, SweepList, SweepSkip, PollList, SkipJob, PollEmpty
    <3>2. UNCHANGED Duty
      BY <2>3 DEF Loop, SweepList, SweepSkip, PollList, SkipJob, PollEmpty
    <3> QED BY <3>1, <3>2 DEF Promise!jobVars
  <2>4. ASSUME NEW w \in Workers, NEW j \in Jobs, SweepFail(w, j)
        PROVE  Promise!ExpireJob(w, j)
    <3>1. j \in overdue
      BY <2>4 DEF SweepFail, Least, ListedIsDue
    <3> QED BY <2>4, <3>1 DEF SweepFail, Open, Expired, Promise!ExpireJob
  <2>5. ASSUME NEW w \in Workers, NEW j \in Jobs, TakeJob(w, j)
        PROVE  Promise!TakeJob(w, j)
    BY <2>5 DEF TakeJob, Claimable, Promise!TakeJob
  <2>6. ASSUME NEW w \in Workers, SweepResume(w)
        PROVE  Promise!EndMarking(w)
    BY <2>6 DEF SweepResume, Promise!EndMarking, Promise!Release
  <2>7. ASSUME NEW w \in Workers, NEW outcome \in Settled, CloseJob(w, outcome)
        PROVE  Promise!CloseJob(w, outcome)
    BY <2>7 DEF CloseJob, Open, Promise!CloseJob, Promise!Release
  <2>8. ASSUME NEW w \in Workers, Die(w) \/ Crash(w)
        PROVE  Promise!Die(w) \/ UNCHANGED Promise!jobVars
    <3>1. CASE phase[w] \in {"marking", "working"}
      BY <2>8, <3>1 DEF Die, Crash, Restart, Promise!Die, Promise!Release
    <3>2. CASE phase[w] \notin {"marking", "working"}
      <4>1. UNCHANGED <<jobStatus, jobTarget, overdue, cur>>
        BY <2>8, <3>2 DEF Die, Crash, Restart
      <4>2. UNCHANGED Duty
        BY <2>8, <3>2 DEF Die, Crash, Restart
      <4> QED BY <4>1, <4>2 DEF Promise!jobVars
    <3> QED BY <3>1, <3>2
  <2>9. CASE UNCHANGED jobVars
    BY <2>9 DEF jobVars, Promise!jobVars
  <2> QED
    BY <2>1, <2>2, <2>3, <2>4, <2>5, <2>6, <2>7, <2>8, <2>9
       DEF JobNext, WorkerStep, Promise!JobNext, Promise!Serve, Jobs, Promise!Jobs,
           Settled, Promise!Settled
<1> QED
  BY <1>1, <1>2, QueueInvariant, PTL DEF JobSafety, Promise!JobSafety
=============================================================================
