------------------------ MODULE CommandOutcomeProofs ------------------------
(***************************************************************************)
(* What becomes of a command, for any number of workers, requests and jobs: *)
(* built on the invariant of CommandWorkProofs, three more layers that tie  *)
(* a row's outcome to the jobs that were taken for it, and a proposed       *)
(* rollback to the evidence behind it.                                      *)
(***************************************************************************)
EXTENDS CommandWorkProofs, FiniteSetTheorems

\* A worker with a row of the queue in hand holds its target, nobody else works
\* on that row, and a row that is marked has expired.
InHand ==
  /\ \A w \in Workers : duty[w] # "free" =>
       /\ held[w] = jobTarget[cur[w]]
       /\ jobStatus[cur[w]] \in {"running", "success", "failed"}
       /\ duty[w] = "marking" => cur[w] \in overdue /\ step[w] \notin {"claim"} \cup Executing
  /\ \A w, v \in Workers :
       w # v /\ duty[w] = "working" /\ duty[v] = "working" => cur[w] # cur[v]

\* A row of the queue not inserted yet has no target.
NewJobs == \A j \in Jobs : jobStatus[j] = "none" => jobTarget[j] = NoTarget

\* While a row is executed it is running, or marked or saved as failed.
UnderExecution ==
  \A a \in Actors :
    /\ step[a] \in Executing => record[held[a]] \in {"running", "failed"}
    /\ step[a] = "retry" => seen[a] = "failed"

Unclaimed == {"absent", "pending"}
Concluding == {"final", "finalize", "verify", "existing", "insert", "done"}

\* A worker past the claim leaves no unclaimed row behind, and a claimed row
\* belongs to a job some worker took.
PastClaim ==
  \A w \in Workers : step[w] \in Concluding => record[held[w]] \notin Unclaimed
TakenRows ==
  \A r \in Targets : record[r] \notin Unclaimed =>
    \E j \in JobsOf(r) : jobStatus[j] \in {"running", "success", "failed"}

\* A worker that comes too late to claim, or failed to, has an expired job or is
\* not the only one with a job for the row; else its row is unclaimed, or it is
\* its own and not yet a success.
Accounted(w) ==
  \/ cur[w] \in overdue
  \/ \E j \in JobsOf(held[w]) : j # cur[w]
  \/ record[held[w]] \in Unclaimed
  \/ /\ step[w] = "fault" /\ record[held[w]] \in {"running", "failed"}
     /\ \A a \in Actors : step[a] \in Executing => held[a] # held[w]
Late == \A w \in Workers : step[w] \in {"claim", "fault"} => Accounted(w)

\* A request that concludes a runbook descends from its approval.
TracedConclusions ==
  \A a \in Admins : step[a] \in Concluding => held[a] \in granted

\* What a step may do to claimed rows, and what EvidenceIsFinal and OutcomeStands
\* say of one step.
ClaimsKept == \A r \in Records : record[r] \notin Unclaimed => record'[r] \notin Unclaimed

EvidenceKept ==
  \A r \in Runbook :
    health[r] # "none" =>
      /\ health'[r] = health[r]
      /\ RollbackOf[r] # NoTarget /\ health[r] = "unhealthy" =>
           record'[RollbackOf[r]] # "pending" \/ record[RollbackOf[r]] = "pending"

OutcomeKept ==
  \A r \in Targets :
    /\ record[r] \in {"success", "blocked"}
    /\ JobsOf(r) \cap overdue = {}
    /\ Cardinality(JobsOf(r)) = 1
    => record'[r] = record[r]

-----------------------------------------------------------------------------
\* A row with one job has no other.
LEMMA OnlyJob ==
  ASSUME NEW r, Cardinality(JobsOf(r)) = 1, NEW i \in JobsOf(r), NEW j \in JobsOf(r)
  PROVE  i = j
<1>1. IsFiniteSet(Jobs)
  BY FS_Interval, QueueAssumption DEF Jobs
<1>2. IsFiniteSet(JobsOf(r))
  <2>1. JobsOf(r) \in SUBSET Jobs
    BY DEF JobsOf
  <2> QED BY <1>1, <2>1, FS_Subset
<1>3. PICK k : JobsOf(r) = {k}
  BY <1>2, FS_Singleton
<1> QED BY <1>3

\* The evidence, and with it the rollback it proposes.
LEMMA InsertWrites ==
  ASSUME NEW a \in Actors, InsertHealth(a)
  PROVE  \E h \in {"healthy", "unhealthy"} :
           /\ health' = [health EXCEPT ![held[a]] = h]
           /\ IF Proposes(held[a], h)
              THEN record' = [record EXCEPT ![RollbackOf[held[a]]] = "pending"]
              ELSE record' = record
  BY DEF InsertHealth

\* A step of the conclusion leaves rows, jobs and everybody else alone.
LEMMA ConclusionEffect ==
  ASSUME ActorTypeOK, NEW a \in Actors, Finalize(a) \/ Verify(a) \/ FindHealth(a)
  PROVE  /\ UNCHANGED <<jobVars, record>>
         /\ step'[a] \in Concluding \cup {"rest"}
         /\ \A b \in Actors \ {a} :
              step'[b] = step[b] /\ held'[b] = held[b] /\ seen'[b] = seen[b]
<1> USE DEF ActorTypeOK, Concluding, rowVars, Return, Drop
<1>1. CASE Finalize(a)
  BY <1>1 DEF Finalize
<1>2. CASE Verify(a)
  BY <1>2 DEF Verify
<1>3. CASE FindHealth(a)
  BY <1>3 DEF FindHealth
<1> QED BY <1>1, <1>2, <1>3

\* The row of a denied command is no target of the queue.
LEMMA AdhocIsNoTarget ==
  ASSUME Shape, NEW a \in Admins, step[a] \in {"claim", "settle"} \cup Executing
  PROVE  held[a] \notin Targets
<1>1. PICK p \in Adhoc : held[a] = <<p, a>>
  BY DEF Shape, AdminShape
<1>2. <<p, a>> \in Adhoc \X Admins
  OBVIOUS
<1> QED BY <1>1, <1>2, CommandAssumption

\* A job in hand stays its worker's, whatever the others do.
LEMMA InHandStep ==
  TypeOK /\ Shape /\ InHand /\ [Next]_vars => InHand'
<1> SUFFICES ASSUME TypeOK, Shape, InHand, [Next]_vars PROVE InHand'
  OBVIOUS
<1> USE CommandAssumption, QueueAssumption, JobsArePositive DEF JobTypeOK, TypeOK, Shape, JobShape, WorkerShape, AdminShape, ActorShape, Actors, Records, Approvals, JobStatuses, Duties, Settled, RecordStatuses, Terminal, Decided, ApprovalStatuses, HealthStatuses, Executing, Steps, jobVars, rowVars, actorVars, history, InHand
<1>1. ASSUME NEW r \in Direct, SubmitCommand(r) PROVE InHand'
  BY <1>1 DEF SubmitCommand
<1>2. ASSUME NEW r \in Direct, EnqueueCommand(r) PROVE InHand'
  BY <1>2 DEF EnqueueCommand, Enqueue, commandVars
<1>3. ASSUME NEW p \in Adhoc, RequestApproval(p) PROVE InHand'
  BY <1>3 DEF RequestApproval
<1>4. ASSUME NEW r \in Runbook, InitiateRunbook(r) PROVE InHand'
  BY <1>4 DEF InitiateRunbook, RollbackRecords
<1>5. ASSUME NEW a \in Admins, NEW p \in Approvals, ReadApproval(a, p) PROVE InHand'
  BY <1>5 DEF ReadApproval, Decidable
<1>6. ASSUME NEW a \in Admins, Reject(a) PROVE InHand'
  BY <1>6 DEF Reject, Drop
<1>7. ASSUME NEW a \in Admins, Approve(a) PROVE InHand'
  BY <1>7 DEF Approve, Go
<1>8. ASSUME NEW a \in Admins, LoadRecord(a) PROVE InHand'
  BY <1>8 DEF LoadRecord, Go, See
<1>9. ASSUME NEW a \in Admins, EnqueueApproved(a) PROVE InHand'
  BY <1>9 DEF EnqueueApproved, Go, Enqueue
<1>10. ASSUME NEW a \in Admins, CreateAdhoc(a) PROVE InHand'
  BY <1>10 DEF CreateAdhoc, Go
<1>11. ASSUME NEW a \in Admins, SettleAdhoc(a) PROVE InHand'
  BY <1>11 DEF SettleAdhoc, Drop
<1>12. ASSUME NEW w \in Workers, NEW j \in Jobs, BeginJob(w, j) PROVE InHand'
  BY <1>12 DEF BeginJob, TakeJob
<1>13. ASSUME NEW w \in Workers, NEW j \in Jobs, SweepJob(w, j) PROVE InHand'
  BY <1>13 DEF SweepJob, ExpireJob
<1>14. ASSUME NEW a \in Actors, ClaimRecord(a) PROVE InHand'
  BY <1>14 DEF ClaimRecord, Go, Write, PendingRow
<1>15. ASSUME NEW a \in Actors, ClaimLost(a) PROVE InHand'
  BY <1>15 DEF ClaimLost, Go, See, AfterCommand, PendingRow
<1>16. ASSUME NEW a \in Actors, EvaluatePolicy(a) PROVE InHand'
  BY <1>16 DEF EvaluatePolicy, Go, See
<1>17. ASSUME NEW a \in Actors, Attempt(a) PROVE InHand'
  BY <1>17 DEF Attempt, Go, See, MoreAttempts
<1>18. ASSUME NEW a \in Actors, SaveRetry(a) PROVE InHand'
  BY <1>18 DEF SaveRetry, Go, Write
<1>19. ASSUME NEW a \in Actors, SaveRecord(a) PROVE InHand'
  BY <1>19 DEF SaveRecord, Go, Write, AfterCommand
<1>20. ASSUME NEW a \in Actors, Fault(a) PROVE InHand'
  BY <1>20 DEF Fault, Unguarded, AfterFault, Drop
<1>21. ASSUME NEW w \in Workers, MarkFailure(w) PROVE InHand'
  BY <1>21 DEF MarkFailure, Go, See, Write
<1>22. ASSUME NEW a \in Actors, Finalize(a) PROVE InHand'
  BY <1>22 DEF Finalize, Finalizable, Return, Drop
<1>23. ASSUME NEW a \in Actors, SaveApproval(a) PROVE InHand'
  BY <1>23 DEF SaveApproval, ClosedAs, Go
<1>24. ASSUME NEW a \in Actors, Verify(a) PROVE InHand'
  BY <1>24 DEF Verify, Return, Drop
<1>25. ASSUME NEW a \in Actors, FindHealth(a) PROVE InHand'
  BY <1>25 DEF FindHealth, NoHealthYet, Return, Drop
<1>26. ASSUME NEW a \in Actors, InsertHealth(a) PROVE InHand'
  BY <1>26 DEF InsertHealth, NoHealthYet, Proposes, Return, Drop
<1>27. ASSUME NEW a \in Actors, InsertRefused(a) PROVE InHand'
  BY <1>27 DEF InsertRefused, NoHealthYet, Drop, Die, Release
<1>28. ASSUME NEW w \in Workers, EndJob(w) PROVE InHand'
  BY <1>28 DEF EndJob, CloseJob, Release, Drop
<1>29. ASSUME NEW w \in Workers, EndMark(w) PROVE InHand'
  BY <1>29 DEF EndMark, EndMarking, Release, Drop
<1>30. ASSUME NEW w \in Workers, CrashWorker(w) PROVE InHand'
  BY <1>30 DEF CrashWorker, Die, Release, Drop
<1>31. ASSUME NEW j \in Jobs, Timeout(j), UNCHANGED commandVars PROVE InHand'
  BY <1>31 DEF Timeout, commandVars
<1>32. CASE UNCHANGED vars
  BY <1>32 DEF vars, commandVars
<1> QED
  BY <1>1, <1>2, <1>3, <1>4, <1>5, <1>6, <1>7, <1>8, <1>9, <1>10, <1>11, <1>12, <1>13, <1>14, <1>15, <1>16, <1>17, <1>18, <1>19, <1>20, <1>21, <1>22, <1>23, <1>24, <1>25, <1>26, <1>27, <1>28, <1>29, <1>30, <1>31, <1>32 DEF Next, Decide, Execute, Conclude, WorkerNext, Actors

\* A target comes with its row.
LEMMA NewJobsStep ==
  TypeOK /\ Shape /\ NewJobs /\ [Next]_vars => NewJobs'
<1> SUFFICES ASSUME TypeOK, Shape, NewJobs, [Next]_vars PROVE NewJobs'
  OBVIOUS
<1> USE CommandAssumption, QueueAssumption, JobsArePositive DEF JobTypeOK, TypeOK, Shape, JobShape, WorkerShape, AdminShape, ActorShape, Actors, Records, Approvals, JobStatuses, Duties, Settled, RecordStatuses, Terminal, Decided, ApprovalStatuses, HealthStatuses, Executing, Steps, jobVars, rowVars, actorVars, history, NewJobs
<1>1. ASSUME NEW r \in Direct, SubmitCommand(r) PROVE NewJobs'
  BY <1>1 DEF SubmitCommand
<1>2. ASSUME NEW r \in Direct, EnqueueCommand(r) PROVE NewJobs'
  BY <1>2 DEF EnqueueCommand, Enqueue, commandVars
<1>3. ASSUME NEW p \in Adhoc, RequestApproval(p) PROVE NewJobs'
  BY <1>3 DEF RequestApproval
<1>4. ASSUME NEW r \in Runbook, InitiateRunbook(r) PROVE NewJobs'
  BY <1>4 DEF InitiateRunbook, RollbackRecords
<1>5. ASSUME NEW a \in Admins, NEW p \in Approvals, ReadApproval(a, p) PROVE NewJobs'
  BY <1>5 DEF ReadApproval, Decidable
<1>6. ASSUME NEW a \in Admins, Reject(a) PROVE NewJobs'
  BY <1>6 DEF Reject, Drop
<1>7. ASSUME NEW a \in Admins, Approve(a) PROVE NewJobs'
  BY <1>7 DEF Approve, Go
<1>8. ASSUME NEW a \in Admins, LoadRecord(a) PROVE NewJobs'
  BY <1>8 DEF LoadRecord, Go, See
<1>9. ASSUME NEW a \in Admins, EnqueueApproved(a) PROVE NewJobs'
  BY <1>9 DEF EnqueueApproved, Go, Enqueue
<1>10. ASSUME NEW a \in Admins, CreateAdhoc(a) PROVE NewJobs'
  BY <1>10 DEF CreateAdhoc, Go
<1>11. ASSUME NEW a \in Admins, SettleAdhoc(a) PROVE NewJobs'
  BY <1>11 DEF SettleAdhoc, Drop
<1>12. ASSUME NEW w \in Workers, NEW j \in Jobs, BeginJob(w, j) PROVE NewJobs'
  BY <1>12 DEF BeginJob, TakeJob
<1>13. ASSUME NEW w \in Workers, NEW j \in Jobs, SweepJob(w, j) PROVE NewJobs'
  BY <1>13 DEF SweepJob, ExpireJob
<1>14. ASSUME NEW a \in Actors, ClaimRecord(a) PROVE NewJobs'
  BY <1>14 DEF ClaimRecord, Go, Write, PendingRow
<1>15. ASSUME NEW a \in Actors, ClaimLost(a) PROVE NewJobs'
  BY <1>15 DEF ClaimLost, Go, See, AfterCommand, PendingRow
<1>16. ASSUME NEW a \in Actors, EvaluatePolicy(a) PROVE NewJobs'
  BY <1>16 DEF EvaluatePolicy, Go, See
<1>17. ASSUME NEW a \in Actors, Attempt(a) PROVE NewJobs'
  BY <1>17 DEF Attempt, Go, See, MoreAttempts
<1>18. ASSUME NEW a \in Actors, SaveRetry(a) PROVE NewJobs'
  BY <1>18 DEF SaveRetry, Go, Write
<1>19. ASSUME NEW a \in Actors, SaveRecord(a) PROVE NewJobs'
  BY <1>19 DEF SaveRecord, Go, Write, AfterCommand
<1>20. ASSUME NEW a \in Actors, Fault(a) PROVE NewJobs'
  BY <1>20 DEF Fault, Unguarded, AfterFault, Drop
<1>21. ASSUME NEW w \in Workers, MarkFailure(w) PROVE NewJobs'
  BY <1>21 DEF MarkFailure, Go, See, Write
<1>22. ASSUME NEW a \in Actors, Finalize(a) PROVE NewJobs'
  BY <1>22 DEF Finalize, Finalizable, Return, Drop
<1>23. ASSUME NEW a \in Actors, SaveApproval(a) PROVE NewJobs'
  BY <1>23 DEF SaveApproval, ClosedAs, Go
<1>24. ASSUME NEW a \in Actors, Verify(a) PROVE NewJobs'
  BY <1>24 DEF Verify, Return, Drop
<1>25. ASSUME NEW a \in Actors, FindHealth(a) PROVE NewJobs'
  BY <1>25 DEF FindHealth, NoHealthYet, Return, Drop
<1>26. ASSUME NEW a \in Actors, InsertHealth(a) PROVE NewJobs'
  BY <1>26 DEF InsertHealth, NoHealthYet, Proposes, Return, Drop
<1>27. ASSUME NEW a \in Actors, InsertRefused(a) PROVE NewJobs'
  BY <1>27 DEF InsertRefused, NoHealthYet, Drop, Die, Release
<1>28. ASSUME NEW w \in Workers, EndJob(w) PROVE NewJobs'
  BY <1>28 DEF EndJob, CloseJob, Release, Drop
<1>29. ASSUME NEW w \in Workers, EndMark(w) PROVE NewJobs'
  BY <1>29 DEF EndMark, EndMarking, Release, Drop
<1>30. ASSUME NEW w \in Workers, CrashWorker(w) PROVE NewJobs'
  BY <1>30 DEF CrashWorker, Die, Release, Drop
<1>31. ASSUME NEW j \in Jobs, Timeout(j), UNCHANGED commandVars PROVE NewJobs'
  BY <1>31 DEF Timeout, commandVars
<1>32. CASE UNCHANGED vars
  BY <1>32 DEF vars, commandVars
<1> QED
  BY <1>1, <1>2, <1>3, <1>4, <1>5, <1>6, <1>7, <1>8, <1>9, <1>10, <1>11, <1>12, <1>13, <1>14, <1>15, <1>16, <1>17, <1>18, <1>19, <1>20, <1>21, <1>22, <1>23, <1>24, <1>25, <1>26, <1>27, <1>28, <1>29, <1>30, <1>31, <1>32 DEF Next, Decide, Execute, Conclude, WorkerNext, Actors

\* An executed row is changed by its executor and by failure marks only.
LEMMA UnderExecutionStep ==
  TypeOK /\ Shape /\ Fresh /\ Once /\ UnderExecution /\ [Next]_vars => UnderExecution'
<1> SUFFICES ASSUME TypeOK, Shape, Fresh, Once, UnderExecution, [Next]_vars PROVE UnderExecution'
  OBVIOUS
<1> USE CommandAssumption, QueueAssumption, JobsArePositive DEF JobTypeOK, TypeOK, Shape, JobShape, WorkerShape, AdminShape, ActorShape, Actors, Records, Approvals, JobStatuses, Duties, Settled, RecordStatuses, Terminal, Decided, ApprovalStatuses, HealthStatuses, Executing, Steps, jobVars, rowVars, actorVars, history, Once, SoleExecutor, UnderExecution, Fresh, HeldRows
<1>1. ASSUME NEW r \in Direct, SubmitCommand(r) PROVE UnderExecution'
  BY <1>1 DEF SubmitCommand
<1>2. ASSUME NEW r \in Direct, EnqueueCommand(r) PROVE UnderExecution'
  BY <1>2 DEF EnqueueCommand, Enqueue, commandVars
<1>3. ASSUME NEW p \in Adhoc, RequestApproval(p) PROVE UnderExecution'
  BY <1>3 DEF RequestApproval
<1>4. ASSUME NEW r \in Runbook, InitiateRunbook(r) PROVE UnderExecution'
  BY <1>4 DEF InitiateRunbook, RollbackRecords
<1>5. ASSUME NEW a \in Admins, NEW p \in Approvals, ReadApproval(a, p) PROVE UnderExecution'
  BY <1>5 DEF ReadApproval, Decidable
<1>6. ASSUME NEW a \in Admins, Reject(a) PROVE UnderExecution'
  BY <1>6 DEF Reject, Drop
<1>7. ASSUME NEW a \in Admins, Approve(a) PROVE UnderExecution'
  BY <1>7 DEF Approve, Go
<1>8. ASSUME NEW a \in Admins, LoadRecord(a) PROVE UnderExecution'
  BY <1>8 DEF LoadRecord, Go, See
<1>9. ASSUME NEW a \in Admins, EnqueueApproved(a) PROVE UnderExecution'
  BY <1>9 DEF EnqueueApproved, Go, Enqueue
<1>10. ASSUME NEW a \in Admins, CreateAdhoc(a) PROVE UnderExecution'
  <2>1. /\ held[a] \in Adhoc /\ <<held[a], a>> \in Records /\ <<held[a], a>> \notin Targets
        /\ record[<<held[a], a>>] = "absent"
    BY <1>10 DEF CreateAdhoc, Go, Fresh, AdhocRows
  <2>2. \A r \in Records : r # <<held[a], a>> => record'[r] = record[r]
    BY <1>10, <2>1 DEF CreateAdhoc
  <2>3. \A b \in Actors : step'[b] \in Executing => step[b] \in Executing /\ held'[b] = held[b]
    BY <1>10 DEF CreateAdhoc, Go
  <2>4. \A b \in Actors : step[b] \in Executing => held[b] \in Records
    BY HeldRecord
  <2>5. \A b \in Actors : step[b] \in Executing => record[held[b]] # "absent"
    OBVIOUS
  <2>6. \A b \in Actors : step'[b] \in Executing => record'[held'[b]] \in {"running", "failed"}
    <3> SUFFICES ASSUME NEW b \in Actors, step'[b] \in Executing
                 PROVE  record'[held'[b]] \in {"running", "failed"}
      OBVIOUS
    <3>1. step[b] \in Executing /\ held'[b] = held[b]
      BY <2>3
    <3>2. held[b] \in Records /\ record[held[b]] # "absent"
      BY <2>4, <2>5, <3>1
    <3>3. record'[held[b]] = record[held[b]]
      BY <2>1, <2>2, <3>2
    <3> QED BY <3>1, <3>3
  <2>7. \A b \in Actors : step'[b] = "retry" => seen'[b] = "failed"
    BY <1>10 DEF CreateAdhoc, Go
  <2> QED BY <2>6, <2>7
<1>11. ASSUME NEW a \in Admins, SettleAdhoc(a) PROVE UnderExecution'
  BY <1>11 DEF SettleAdhoc, Drop
<1>12. ASSUME NEW w \in Workers, NEW j \in Jobs, BeginJob(w, j) PROVE UnderExecution'
  BY <1>12 DEF BeginJob, TakeJob
<1>13. ASSUME NEW w \in Workers, NEW j \in Jobs, SweepJob(w, j) PROVE UnderExecution'
  BY <1>13 DEF SweepJob, ExpireJob
<1>14. ASSUME NEW a \in Actors, ClaimRecord(a) PROVE UnderExecution'
  <2>1. held[a] \in Records
    BY <1>14, HeldRecord DEF ClaimRecord, Go
  <2>2. \A b \in Actors : step'[b] \in Executing => record'[held'[b]] \in {"running", "failed"}
    <3> SUFFICES ASSUME NEW b \in Actors, step'[b] \in Executing
                 PROVE  record'[held'[b]] \in {"running", "failed"}
      OBVIOUS
    <3>1. CASE b = a
      BY <1>14, <2>1, <3>1 DEF ClaimRecord, Go, Write
    <3>2. CASE b # a
      <4>1. step[b] \in Executing /\ held'[b] = held[b]
        BY <1>14, <3>2 DEF ClaimRecord, Go
      <4>2. held[b] # held[a]
        BY <1>14, <4>1 DEF ClaimRecord, PendingRow
      <4> QED BY <1>14, <2>1, <4>1, <4>2 DEF ClaimRecord, Write
    <3> QED BY <3>1, <3>2
  <2>3. \A b \in Actors : step'[b] = "retry" => seen'[b] = "failed"
    BY <1>14 DEF ClaimRecord, Go
  <2> QED BY <2>2, <2>3
<1>15. ASSUME NEW a \in Actors, ClaimLost(a) PROVE UnderExecution'
  BY <1>15 DEF ClaimLost, Go, See, AfterCommand, PendingRow
<1>16. ASSUME NEW a \in Actors, EvaluatePolicy(a) PROVE UnderExecution'
  BY <1>16 DEF EvaluatePolicy, Go, See
<1>17. ASSUME NEW a \in Actors, Attempt(a) PROVE UnderExecution'
  BY <1>17 DEF Attempt, Go, See, MoreAttempts
<1>18. ASSUME NEW a \in Actors, SaveRetry(a) PROVE UnderExecution'
  BY <1>18 DEF SaveRetry, Go, Write
<1>19. ASSUME NEW a \in Actors, SaveRecord(a) PROVE UnderExecution'
  BY <1>19 DEF SaveRecord, Go, Write, AfterCommand
<1>20. ASSUME NEW a \in Actors, Fault(a) PROVE UnderExecution'
  BY <1>20 DEF Fault, Unguarded, AfterFault, Drop
<1>21. ASSUME NEW w \in Workers, MarkFailure(w) PROVE UnderExecution'
  BY <1>21 DEF MarkFailure, Go, See, Write
<1>22. ASSUME NEW a \in Actors, Finalize(a) PROVE UnderExecution'
  <2> HIDE DEF Actors, Records
  <2>1. /\ UNCHANGED <<jobVars, record>>
        /\ step'[a] \in Concluding \cup {"rest"}
        /\ \A b \in Actors \ {a} :
             step'[b] = step[b] /\ held'[b] = held[b] /\ seen'[b] = seen[b]
    BY <1>22, ConclusionEffect DEF ActorTypeOK
  <2> QED BY <2>1 DEF Concluding
<1>23. ASSUME NEW a \in Actors, SaveApproval(a) PROVE UnderExecution'
  BY <1>23 DEF SaveApproval, ClosedAs, Go
<1>24. ASSUME NEW a \in Actors, Verify(a) PROVE UnderExecution'
  <2> HIDE DEF Actors, Records
  <2>1. /\ UNCHANGED <<jobVars, record>>
        /\ step'[a] \in Concluding \cup {"rest"}
        /\ \A b \in Actors \ {a} :
             step'[b] = step[b] /\ held'[b] = held[b] /\ seen'[b] = seen[b]
    BY <1>24, ConclusionEffect DEF ActorTypeOK
  <2> QED BY <2>1 DEF Concluding
<1>25. ASSUME NEW a \in Actors, FindHealth(a) PROVE UnderExecution'
  <2> HIDE DEF Actors, Records
  <2>1. /\ UNCHANGED <<jobVars, record>>
        /\ step'[a] \in Concluding \cup {"rest"}
        /\ \A b \in Actors \ {a} :
             step'[b] = step[b] /\ held'[b] = held[b] /\ seen'[b] = seen[b]
    BY <1>25, ConclusionEffect DEF ActorTypeOK
  <2> QED BY <2>1 DEF Concluding
<1>26. ASSUME NEW a \in Actors, InsertHealth(a) PROVE UnderExecution'
  <2>1. held[a] \in Runbook
    BY <1>26 DEF InsertHealth
  <2>2. \A r \in Records : record[r] # "absent" => record'[r] = record[r]
    BY <1>26, InsertEffect
  <2>3. /\ \A b \in Actors \ {a} :
             step'[b] = step[b] /\ held'[b] = held[b] /\ tries'[b] = tries[b]
        /\ \/ step'[a] = "rest" /\ held'[a] = NoTarget /\ tries'[a] = 0
           \/ step'[a] = "done" /\ held'[a] = held[a]
    BY <1>26, ReturnEffect DEF InsertHealth, ActorTypeOK
  <2>4. \A b \in Actors : step[b] \notin {"rest", "decide", "create"} => held[b] \in Records
    BY HeldRecord
  <2>5. \A b \in Actors : step'[b] \in Executing => record'[held'[b]] \in {"running", "failed"}
    BY <2>2, <2>3, <2>4
  <2>6. \A b \in Actors : step'[b] = "retry" => seen'[b] = "failed"
    <3>1. CASE a \in Workers
      BY <1>26, <2>3, <3>1 DEF InsertHealth, Return
    <3>2. CASE a \notin Workers
      BY <1>26, <2>3, <3>2 DEF InsertHealth, Return, Drop
    <3> QED BY <3>1, <3>2
  <2> QED BY <2>5, <2>6
<1>27. ASSUME NEW a \in Actors, InsertRefused(a) PROVE UnderExecution'
  BY <1>27 DEF InsertRefused, NoHealthYet, Drop, Die, Release
<1>28. ASSUME NEW w \in Workers, EndJob(w) PROVE UnderExecution'
  BY <1>28 DEF EndJob, CloseJob, Release, Drop
<1>29. ASSUME NEW w \in Workers, EndMark(w) PROVE UnderExecution'
  BY <1>29 DEF EndMark, EndMarking, Release, Drop
<1>30. ASSUME NEW w \in Workers, CrashWorker(w) PROVE UnderExecution'
  BY <1>30 DEF CrashWorker, Die, Release, Drop
<1>31. ASSUME NEW j \in Jobs, Timeout(j), UNCHANGED commandVars PROVE UnderExecution'
  BY <1>31 DEF Timeout, commandVars
<1>32. CASE UNCHANGED vars
  BY <1>32 DEF vars, commandVars
<1> QED
  BY <1>1, <1>2, <1>3, <1>4, <1>5, <1>6, <1>7, <1>8, <1>9, <1>10, <1>11, <1>12, <1>13, <1>14, <1>15, <1>16, <1>17, <1>18, <1>19, <1>20, <1>21, <1>22, <1>23, <1>24, <1>25, <1>26, <1>27, <1>28, <1>29, <1>30, <1>31, <1>32 DEF Next, Decide, Execute, Conclude, WorkerNext, Actors

\* A claimed row is never pending again.
LEMMA ClaimedStays ==
  TypeOK /\ Shape /\ Fresh /\ [Next]_vars => ClaimsKept
<1> SUFFICES ASSUME TypeOK, Shape, Fresh, [Next]_vars PROVE ClaimsKept
  OBVIOUS
<1> USE CommandAssumption, QueueAssumption, JobsArePositive DEF JobTypeOK, TypeOK, Shape, JobShape, WorkerShape, AdminShape, ActorShape, Actors, Records, Approvals, JobStatuses, Duties, Settled, RecordStatuses, Terminal, Decided, ApprovalStatuses, HealthStatuses, Executing, Steps, jobVars, rowVars, actorVars, history, ClaimsKept, Fresh, HeldRows, AdhocRows, RollbackRows, Unclaimed
<1>1. ASSUME NEW r \in Direct, SubmitCommand(r) PROVE ClaimsKept
  BY <1>1 DEF SubmitCommand
<1>2. ASSUME NEW r \in Direct, EnqueueCommand(r) PROVE ClaimsKept
  BY <1>2 DEF EnqueueCommand, Enqueue, commandVars
<1>3. ASSUME NEW p \in Adhoc, RequestApproval(p) PROVE ClaimsKept
  BY <1>3 DEF RequestApproval
<1>4. ASSUME NEW r \in Runbook, InitiateRunbook(r) PROVE ClaimsKept
  BY <1>4 DEF InitiateRunbook, RollbackRecords
<1>5. ASSUME NEW a \in Admins, NEW p \in Approvals, ReadApproval(a, p) PROVE ClaimsKept
  BY <1>5 DEF ReadApproval, Decidable
<1>6. ASSUME NEW a \in Admins, Reject(a) PROVE ClaimsKept
  BY <1>6 DEF Reject, Drop
<1>7. ASSUME NEW a \in Admins, Approve(a) PROVE ClaimsKept
  BY <1>7 DEF Approve, Go
<1>8. ASSUME NEW a \in Admins, LoadRecord(a) PROVE ClaimsKept
  BY <1>8 DEF LoadRecord, Go, See
<1>9. ASSUME NEW a \in Admins, EnqueueApproved(a) PROVE ClaimsKept
  BY <1>9 DEF EnqueueApproved, Go, Enqueue
<1>10. ASSUME NEW a \in Admins, CreateAdhoc(a) PROVE ClaimsKept
  BY <1>10 DEF CreateAdhoc, Go
<1>11. ASSUME NEW a \in Admins, SettleAdhoc(a) PROVE ClaimsKept
  BY <1>11 DEF SettleAdhoc, Drop
<1>12. ASSUME NEW w \in Workers, NEW j \in Jobs, BeginJob(w, j) PROVE ClaimsKept
  BY <1>12 DEF BeginJob, TakeJob
<1>13. ASSUME NEW w \in Workers, NEW j \in Jobs, SweepJob(w, j) PROVE ClaimsKept
  BY <1>13 DEF SweepJob, ExpireJob
<1>14. ASSUME NEW a \in Actors, ClaimRecord(a) PROVE ClaimsKept
  BY <1>14 DEF ClaimRecord, Go, Write, PendingRow
<1>15. ASSUME NEW a \in Actors, ClaimLost(a) PROVE ClaimsKept
  BY <1>15 DEF ClaimLost, Go, See, AfterCommand, PendingRow
<1>16. ASSUME NEW a \in Actors, EvaluatePolicy(a) PROVE ClaimsKept
  BY <1>16 DEF EvaluatePolicy, Go, See
<1>17. ASSUME NEW a \in Actors, Attempt(a) PROVE ClaimsKept
  BY <1>17 DEF Attempt, Go, See, MoreAttempts
<1>18. ASSUME NEW a \in Actors, SaveRetry(a) PROVE ClaimsKept
  BY <1>18 DEF SaveRetry, Go, Write
<1>19. ASSUME NEW a \in Actors, SaveRecord(a) PROVE ClaimsKept
  BY <1>19 DEF SaveRecord, Go, Write, AfterCommand
<1>20. ASSUME NEW a \in Actors, Fault(a) PROVE ClaimsKept
  BY <1>20 DEF Fault, Unguarded, AfterFault, Drop
<1>21. ASSUME NEW w \in Workers, MarkFailure(w) PROVE ClaimsKept
  BY <1>21 DEF MarkFailure, Go, See, Write
<1>22. ASSUME NEW a \in Actors, Finalize(a) PROVE ClaimsKept
  BY <1>22 DEF Finalize, Finalizable, Return, Drop
<1>23. ASSUME NEW a \in Actors, SaveApproval(a) PROVE ClaimsKept
  BY <1>23 DEF SaveApproval, ClosedAs, Go
<1>24. ASSUME NEW a \in Actors, Verify(a) PROVE ClaimsKept
  BY <1>24 DEF Verify, Return, Drop
<1>25. ASSUME NEW a \in Actors, FindHealth(a) PROVE ClaimsKept
  BY <1>25 DEF FindHealth, NoHealthYet, Return, Drop
<1>26. ASSUME NEW a \in Actors, InsertHealth(a) PROVE ClaimsKept
  BY <1>26 DEF InsertHealth, NoHealthYet, Proposes, Return, Drop
<1>27. ASSUME NEW a \in Actors, InsertRefused(a) PROVE ClaimsKept
  BY <1>27 DEF InsertRefused, NoHealthYet, Drop, Die, Release
<1>28. ASSUME NEW w \in Workers, EndJob(w) PROVE ClaimsKept
  BY <1>28 DEF EndJob, CloseJob, Release, Drop
<1>29. ASSUME NEW w \in Workers, EndMark(w) PROVE ClaimsKept
  BY <1>29 DEF EndMark, EndMarking, Release, Drop
<1>30. ASSUME NEW w \in Workers, CrashWorker(w) PROVE ClaimsKept
  BY <1>30 DEF CrashWorker, Die, Release, Drop
<1>31. ASSUME NEW j \in Jobs, Timeout(j), UNCHANGED commandVars PROVE ClaimsKept
  BY <1>31 DEF Timeout, commandVars
<1>32. CASE UNCHANGED vars
  BY <1>32 DEF vars, commandVars
<1> QED
  BY <1>1, <1>2, <1>3, <1>4, <1>5, <1>6, <1>7, <1>8, <1>9, <1>10, <1>11, <1>12, <1>13, <1>14, <1>15, <1>16, <1>17, <1>18, <1>19, <1>20, <1>21, <1>22, <1>23, <1>24, <1>25, <1>26, <1>27, <1>28, <1>29, <1>30, <1>31, <1>32 DEF Next, Decide, Execute, Conclude, WorkerNext, Actors

\* Whoever concludes has seen its row claimed.
LEMMA PastClaimStep ==
  TypeOK /\ Shape /\ Fresh /\ Once /\ PastClaim /\ [Next]_vars => PastClaim'
<1> SUFFICES ASSUME TypeOK, Shape, Fresh, Once, PastClaim, [Next]_vars PROVE PastClaim'
  OBVIOUS
<1>0. \A r \in Records : record[r] \notin Unclaimed => record'[r] \notin Unclaimed
  BY ClaimedStays DEF ClaimsKept
<1> USE CommandAssumption, QueueAssumption, JobsArePositive DEF JobTypeOK, TypeOK, Shape, JobShape, WorkerShape, AdminShape, ActorShape, Actors, Records, Approvals, JobStatuses, Duties, Settled, RecordStatuses, Terminal, Decided, ApprovalStatuses, HealthStatuses, Executing, Steps, jobVars, rowVars, actorVars, history, Once, SoleExecutor, Fresh, HeldRows, PastClaim, Unclaimed, Concluding
<1>1. ASSUME NEW r \in Direct, SubmitCommand(r) PROVE PastClaim'
  BY <1>0, <1>1 DEF SubmitCommand
<1>2. ASSUME NEW r \in Direct, EnqueueCommand(r) PROVE PastClaim'
  BY <1>0, <1>2 DEF EnqueueCommand, Enqueue, commandVars
<1>3. ASSUME NEW p \in Adhoc, RequestApproval(p) PROVE PastClaim'
  BY <1>0, <1>3 DEF RequestApproval
<1>4. ASSUME NEW r \in Runbook, InitiateRunbook(r) PROVE PastClaim'
  BY <1>0, <1>4 DEF InitiateRunbook, RollbackRecords
<1>5. ASSUME NEW a \in Admins, NEW p \in Approvals, ReadApproval(a, p) PROVE PastClaim'
  BY <1>0, <1>5 DEF ReadApproval, Decidable
<1>6. ASSUME NEW a \in Admins, Reject(a) PROVE PastClaim'
  BY <1>0, <1>6 DEF Reject, Drop
<1>7. ASSUME NEW a \in Admins, Approve(a) PROVE PastClaim'
  BY <1>0, <1>7 DEF Approve, Go
<1>8. ASSUME NEW a \in Admins, LoadRecord(a) PROVE PastClaim'
  BY <1>0, <1>8 DEF LoadRecord, Go, See
<1>9. ASSUME NEW a \in Admins, EnqueueApproved(a) PROVE PastClaim'
  BY <1>0, <1>9 DEF EnqueueApproved, Go, Enqueue
<1>10. ASSUME NEW a \in Admins, CreateAdhoc(a) PROVE PastClaim'
  <2> SUFFICES ASSUME NEW w \in Workers, step'[w] \in Concluding
               PROVE  record'[held'[w]] \notin Unclaimed
    OBVIOUS
  <2>1. step[w] \in Concluding /\ held'[w] = held[w]
    BY <1>10 DEF CreateAdhoc, Go
  <2>2. held[w] \in Records /\ record[held[w]] \notin Unclaimed
    BY <2>1
  <2> QED BY <1>0, <2>1, <2>2
<1>11. ASSUME NEW a \in Admins, SettleAdhoc(a) PROVE PastClaim'
  BY <1>0, <1>11 DEF SettleAdhoc, Drop
<1>12. ASSUME NEW w \in Workers, NEW j \in Jobs, BeginJob(w, j) PROVE PastClaim'
  BY <1>0, <1>12 DEF BeginJob, TakeJob
<1>13. ASSUME NEW w \in Workers, NEW j \in Jobs, SweepJob(w, j) PROVE PastClaim'
  BY <1>0, <1>13 DEF SweepJob, ExpireJob
<1>14. ASSUME NEW a \in Actors, ClaimRecord(a) PROVE PastClaim'
  BY <1>0, <1>14 DEF ClaimRecord, Go, Write, PendingRow
<1>15. ASSUME NEW a \in Actors, ClaimLost(a) PROVE PastClaim'
  BY <1>0, <1>15 DEF ClaimLost, Go, See, AfterCommand, PendingRow
<1>16. ASSUME NEW a \in Actors, EvaluatePolicy(a) PROVE PastClaim'
  BY <1>0, <1>16 DEF EvaluatePolicy, Go, See
<1>17. ASSUME NEW a \in Actors, Attempt(a) PROVE PastClaim'
  BY <1>0, <1>17 DEF Attempt, Go, See, MoreAttempts
<1>18. ASSUME NEW a \in Actors, SaveRetry(a) PROVE PastClaim'
  BY <1>0, <1>18 DEF SaveRetry, Go, Write
<1>19. ASSUME NEW a \in Actors, SaveRecord(a) PROVE PastClaim'
  BY <1>0, <1>19 DEF SaveRecord, Go, Write, AfterCommand
<1>20. ASSUME NEW a \in Actors, Fault(a) PROVE PastClaim'
  BY <1>0, <1>20 DEF Fault, Unguarded, AfterFault, Drop
<1>21. ASSUME NEW w \in Workers, MarkFailure(w) PROVE PastClaim'
  BY <1>0, <1>21 DEF MarkFailure, Go, See, Write
<1>22. ASSUME NEW a \in Actors, Finalize(a) PROVE PastClaim'
  BY <1>0, <1>22 DEF Finalize, Finalizable, Return, Drop
<1>23. ASSUME NEW a \in Actors, SaveApproval(a) PROVE PastClaim'
  BY <1>0, <1>23 DEF SaveApproval, ClosedAs, Go
<1>24. ASSUME NEW a \in Actors, Verify(a) PROVE PastClaim'
  BY <1>0, <1>24 DEF Verify, Return, Drop
<1>25. ASSUME NEW a \in Actors, FindHealth(a) PROVE PastClaim'
  BY <1>0, <1>25 DEF FindHealth, NoHealthYet, Return, Drop
<1>26. ASSUME NEW a \in Actors, InsertHealth(a) PROVE PastClaim'
  BY <1>0, <1>26 DEF InsertHealth, NoHealthYet, Proposes, Return, Drop
<1>27. ASSUME NEW a \in Actors, InsertRefused(a) PROVE PastClaim'
  BY <1>0, <1>27 DEF InsertRefused, NoHealthYet, Drop, Die, Release
<1>28. ASSUME NEW w \in Workers, EndJob(w) PROVE PastClaim'
  BY <1>0, <1>28 DEF EndJob, CloseJob, Release, Drop
<1>29. ASSUME NEW w \in Workers, EndMark(w) PROVE PastClaim'
  BY <1>0, <1>29 DEF EndMark, EndMarking, Release, Drop
<1>30. ASSUME NEW w \in Workers, CrashWorker(w) PROVE PastClaim'
  BY <1>0, <1>30 DEF CrashWorker, Die, Release, Drop
<1>31. ASSUME NEW j \in Jobs, Timeout(j), UNCHANGED commandVars PROVE PastClaim'
  BY <1>0, <1>31 DEF Timeout, commandVars
<1>32. CASE UNCHANGED vars
  BY <1>32 DEF vars, commandVars
<1> QED
  BY <1>1, <1>2, <1>3, <1>4, <1>5, <1>6, <1>7, <1>8, <1>9, <1>10, <1>11, <1>12, <1>13, <1>14, <1>15, <1>16, <1>17, <1>18, <1>19, <1>20, <1>21, <1>22, <1>23, <1>24, <1>25, <1>26, <1>27, <1>28, <1>29, <1>30, <1>31, <1>32 DEF Next, Decide, Execute, Conclude, WorkerNext, Actors

\* A row is claimed through a job.
LEMMA TakenRowsStep ==
  TypeOK /\ Shape /\ Fresh /\ Once /\ InHand /\ TakenRows /\ [Next]_vars => TakenRows'
<1> SUFFICES ASSUME TypeOK, Shape, Fresh, Once, InHand, TakenRows, [Next]_vars PROVE TakenRows'
  OBVIOUS
<1>0. \A r \in Records : record[r] \notin Unclaimed => record'[r] \notin Unclaimed
  BY ClaimedStays DEF ClaimsKept
<1> USE CommandAssumption, QueueAssumption, JobsArePositive DEF JobTypeOK, TypeOK, Shape, JobShape, WorkerShape, AdminShape, ActorShape, Actors, Records, Approvals, JobStatuses, Duties, Settled, RecordStatuses, Terminal, Decided, ApprovalStatuses, HealthStatuses, Executing, Steps, jobVars, rowVars, actorVars, history, Once, SoleExecutor, TakenRows, InHand, Unclaimed, JobsOf
<1>1. ASSUME NEW r \in Direct, SubmitCommand(r) PROVE TakenRows'
  BY <1>1 DEF SubmitCommand
<1>2. ASSUME NEW r \in Direct, EnqueueCommand(r) PROVE TakenRows'
  BY <1>2 DEF EnqueueCommand, Enqueue, commandVars
<1>3. ASSUME NEW p \in Adhoc, RequestApproval(p) PROVE TakenRows'
  BY <1>3 DEF RequestApproval
<1>4. ASSUME NEW r \in Runbook, InitiateRunbook(r) PROVE TakenRows'
  BY <1>4 DEF InitiateRunbook, RollbackRecords
<1>5. ASSUME NEW a \in Admins, NEW p \in Approvals, ReadApproval(a, p) PROVE TakenRows'
  BY <1>5 DEF ReadApproval, Decidable
<1>6. ASSUME NEW a \in Admins, Reject(a) PROVE TakenRows'
  BY <1>6 DEF Reject, Drop
<1>7. ASSUME NEW a \in Admins, Approve(a) PROVE TakenRows'
  BY <1>7 DEF Approve, Go
<1>8. ASSUME NEW a \in Admins, LoadRecord(a) PROVE TakenRows'
  BY <1>8 DEF LoadRecord, Go, See
<1>9. ASSUME NEW a \in Admins, EnqueueApproved(a) PROVE TakenRows'
  BY <1>9 DEF EnqueueApproved, Go, Enqueue
<1>10. ASSUME NEW a \in Admins, CreateAdhoc(a) PROVE TakenRows'
  BY <1>10 DEF CreateAdhoc, Go
<1>11. ASSUME NEW a \in Admins, SettleAdhoc(a) PROVE TakenRows'
  BY <1>11 DEF SettleAdhoc, Drop
<1>12. ASSUME NEW w \in Workers, NEW j \in Jobs, BeginJob(w, j) PROVE TakenRows'
  BY <1>12 DEF BeginJob, TakeJob
<1>13. ASSUME NEW w \in Workers, NEW j \in Jobs, SweepJob(w, j) PROVE TakenRows'
  BY <1>13 DEF SweepJob, ExpireJob
<1>14. ASSUME NEW a \in Actors, ClaimRecord(a) PROVE TakenRows'
  <2> SUFFICES ASSUME NEW r \in Targets, record'[r] \notin Unclaimed
               PROVE  \E j \in Jobs : jobTarget'[j] = r /\ jobStatus'[j] \in {"running", "success", "failed"}
    OBVIOUS
  <2>1. CASE r = held[a]
    <3>1. a \in Workers
      BY <1>14, <2>1, AdhocIsNoTarget DEF ClaimRecord, Go
    <3>2. cur[a] \in Jobs /\ jobTarget[cur[a]] = r /\ jobStatus[cur[a]] \in {"running", "success", "failed"}
      BY <1>14, <2>1, <3>1 DEF ClaimRecord, Go
    <3> QED BY <1>14, <3>2 DEF ClaimRecord, Go
  <2>2. CASE r # held[a]
    <3>1. record[r] \notin Unclaimed
      BY <1>14, <2>2 DEF ClaimRecord, Write
    <3> QED BY <1>14, <3>1 DEF ClaimRecord
  <2> QED BY <2>1, <2>2
<1>15. ASSUME NEW a \in Actors, ClaimLost(a) PROVE TakenRows'
  BY <1>15 DEF ClaimLost, Go, See, AfterCommand, PendingRow
<1>16. ASSUME NEW a \in Actors, EvaluatePolicy(a) PROVE TakenRows'
  BY <1>16 DEF EvaluatePolicy, Go, See
<1>17. ASSUME NEW a \in Actors, Attempt(a) PROVE TakenRows'
  BY <1>17 DEF Attempt, Go, See, MoreAttempts
<1>18. ASSUME NEW a \in Actors, SaveRetry(a) PROVE TakenRows'
  <2> SUFFICES ASSUME NEW r \in Targets, record'[r] \notin Unclaimed
               PROVE  \E j \in Jobs : jobTarget'[j] = r /\ jobStatus'[j] \in {"running", "success", "failed"}
    OBVIOUS
  <2>1. held[a] \in Records /\ record[held[a]] \notin Unclaimed
    BY <1>18, HeldRecord DEF SaveRetry, Go, Write
  <2>2. record[r] \notin Unclaimed
    BY <1>18, <2>1 DEF SaveRetry, Go, Write
  <2> QED BY <1>18, <2>2 DEF SaveRetry, Go, Write
<1>19. ASSUME NEW a \in Actors, SaveRecord(a) PROVE TakenRows'
  <2> SUFFICES ASSUME NEW r \in Targets, record'[r] \notin Unclaimed
               PROVE  \E j \in Jobs : jobTarget'[j] = r /\ jobStatus'[j] \in {"running", "success", "failed"}
    OBVIOUS
  <2>1. held[a] \in Records /\ record[held[a]] \notin Unclaimed
    BY <1>19, HeldRecord DEF SaveRecord, Go, Write, AfterCommand
  <2>2. record[r] \notin Unclaimed
    BY <1>19, <2>1 DEF SaveRecord, Go, Write, AfterCommand
  <2> QED BY <1>19, <2>2 DEF SaveRecord, Go, Write, AfterCommand
<1>20. ASSUME NEW a \in Actors, Fault(a) PROVE TakenRows'
  BY <1>20 DEF Fault, Unguarded, AfterFault, Drop
<1>21. ASSUME NEW w \in Workers, MarkFailure(w) PROVE TakenRows'
  BY <1>21 DEF MarkFailure, Go, See, Write
<1>22. ASSUME NEW a \in Actors, Finalize(a) PROVE TakenRows'
  BY <1>22 DEF Finalize, Finalizable, Return, Drop
<1>23. ASSUME NEW a \in Actors, SaveApproval(a) PROVE TakenRows'
  BY <1>23 DEF SaveApproval, ClosedAs, Go
<1>24. ASSUME NEW a \in Actors, Verify(a) PROVE TakenRows'
  BY <1>24 DEF Verify, Return, Drop
<1>25. ASSUME NEW a \in Actors, FindHealth(a) PROVE TakenRows'
  BY <1>25 DEF FindHealth, NoHealthYet, Return, Drop
<1>26. ASSUME NEW a \in Actors, InsertHealth(a) PROVE TakenRows'
  BY <1>26 DEF InsertHealth, NoHealthYet, Proposes, Return, Drop
<1>27. ASSUME NEW a \in Actors, InsertRefused(a) PROVE TakenRows'
  BY <1>27 DEF InsertRefused, NoHealthYet, Drop, Die, Release
<1>28. ASSUME NEW w \in Workers, EndJob(w) PROVE TakenRows'
  BY <1>28 DEF EndJob, CloseJob, Release, Drop
<1>29. ASSUME NEW w \in Workers, EndMark(w) PROVE TakenRows'
  BY <1>29 DEF EndMark, EndMarking, Release, Drop
<1>30. ASSUME NEW w \in Workers, CrashWorker(w) PROVE TakenRows'
  BY <1>30 DEF CrashWorker, Die, Release, Drop
<1>31. ASSUME NEW j \in Jobs, Timeout(j), UNCHANGED commandVars PROVE TakenRows'
  BY <1>31 DEF Timeout, commandVars
<1>32. CASE UNCHANGED vars
  BY <1>32 DEF vars, commandVars
<1> QED
  BY <1>1, <1>2, <1>3, <1>4, <1>5, <1>6, <1>7, <1>8, <1>9, <1>10, <1>11, <1>12, <1>13, <1>14, <1>15, <1>16, <1>17, <1>18, <1>19, <1>20, <1>21, <1>22, <1>23, <1>24, <1>25, <1>26, <1>27, <1>28, <1>29, <1>30, <1>31, <1>32 DEF Next, Decide, Execute, Conclude, WorkerNext, Actors

\* A job that succeeds leaves a claimed row.
LEMMA SuccessStep ==
  TypeOK /\ Shape /\ Fresh /\ InHand /\ PastClaim /\ SuccessWasClaimed /\ [Next]_vars => SuccessWasClaimed'
<1> SUFFICES ASSUME TypeOK, Shape, Fresh, InHand, PastClaim, SuccessWasClaimed, [Next]_vars PROVE SuccessWasClaimed'
  OBVIOUS
<1>0. \A r \in Records : record[r] \notin Unclaimed => record'[r] \notin Unclaimed
  BY ClaimedStays DEF ClaimsKept
<1> USE CommandAssumption, QueueAssumption, JobsArePositive DEF JobTypeOK, TypeOK, Shape, JobShape, WorkerShape, AdminShape, ActorShape, Actors, Records, Approvals, JobStatuses, Duties, Settled, RecordStatuses, Terminal, Decided, ApprovalStatuses, HealthStatuses, Executing, Steps, jobVars, rowVars, actorVars, history, InHand, PastClaim, Fresh, JobRows, Unclaimed, Concluding, SuccessWasClaimed
<1>1. ASSUME NEW r \in Direct, SubmitCommand(r) PROVE SuccessWasClaimed'
  BY <1>0, <1>1 DEF SubmitCommand
<1>2. ASSUME NEW r \in Direct, EnqueueCommand(r) PROVE SuccessWasClaimed'
  BY <1>0, <1>2 DEF EnqueueCommand, Enqueue, commandVars
<1>3. ASSUME NEW p \in Adhoc, RequestApproval(p) PROVE SuccessWasClaimed'
  BY <1>0, <1>3 DEF RequestApproval
<1>4. ASSUME NEW r \in Runbook, InitiateRunbook(r) PROVE SuccessWasClaimed'
  BY <1>0, <1>4 DEF InitiateRunbook, RollbackRecords
<1>5. ASSUME NEW a \in Admins, NEW p \in Approvals, ReadApproval(a, p) PROVE SuccessWasClaimed'
  BY <1>0, <1>5 DEF ReadApproval, Decidable
<1>6. ASSUME NEW a \in Admins, Reject(a) PROVE SuccessWasClaimed'
  BY <1>0, <1>6 DEF Reject, Drop
<1>7. ASSUME NEW a \in Admins, Approve(a) PROVE SuccessWasClaimed'
  BY <1>0, <1>7 DEF Approve, Go
<1>8. ASSUME NEW a \in Admins, LoadRecord(a) PROVE SuccessWasClaimed'
  BY <1>0, <1>8 DEF LoadRecord, Go, See
<1>9. ASSUME NEW a \in Admins, EnqueueApproved(a) PROVE SuccessWasClaimed'
  BY <1>0, <1>9 DEF EnqueueApproved, Go, Enqueue
<1>10. ASSUME NEW a \in Admins, CreateAdhoc(a) PROVE SuccessWasClaimed'
  BY <1>0, <1>10 DEF CreateAdhoc, Go
<1>11. ASSUME NEW a \in Admins, SettleAdhoc(a) PROVE SuccessWasClaimed'
  BY <1>0, <1>11 DEF SettleAdhoc, Drop
<1>12. ASSUME NEW w \in Workers, NEW j \in Jobs, BeginJob(w, j) PROVE SuccessWasClaimed'
  BY <1>0, <1>12 DEF BeginJob, TakeJob
<1>13. ASSUME NEW w \in Workers, NEW j \in Jobs, SweepJob(w, j) PROVE SuccessWasClaimed'
  BY <1>0, <1>13 DEF SweepJob, ExpireJob
<1>14. ASSUME NEW a \in Actors, ClaimRecord(a) PROVE SuccessWasClaimed'
  BY <1>0, <1>14 DEF ClaimRecord, Go, Write, PendingRow
<1>15. ASSUME NEW a \in Actors, ClaimLost(a) PROVE SuccessWasClaimed'
  BY <1>0, <1>15 DEF ClaimLost, Go, See, AfterCommand, PendingRow
<1>16. ASSUME NEW a \in Actors, EvaluatePolicy(a) PROVE SuccessWasClaimed'
  BY <1>0, <1>16 DEF EvaluatePolicy, Go, See
<1>17. ASSUME NEW a \in Actors, Attempt(a) PROVE SuccessWasClaimed'
  BY <1>0, <1>17 DEF Attempt, Go, See, MoreAttempts
<1>18. ASSUME NEW a \in Actors, SaveRetry(a) PROVE SuccessWasClaimed'
  BY <1>0, <1>18 DEF SaveRetry, Go, Write
<1>19. ASSUME NEW a \in Actors, SaveRecord(a) PROVE SuccessWasClaimed'
  BY <1>0, <1>19 DEF SaveRecord, Go, Write, AfterCommand
<1>20. ASSUME NEW a \in Actors, Fault(a) PROVE SuccessWasClaimed'
  BY <1>0, <1>20 DEF Fault, Unguarded, AfterFault, Drop
<1>21. ASSUME NEW w \in Workers, MarkFailure(w) PROVE SuccessWasClaimed'
  BY <1>0, <1>21 DEF MarkFailure, Go, See, Write
<1>22. ASSUME NEW a \in Actors, Finalize(a) PROVE SuccessWasClaimed'
  BY <1>0, <1>22 DEF Finalize, Finalizable, Return, Drop
<1>23. ASSUME NEW a \in Actors, SaveApproval(a) PROVE SuccessWasClaimed'
  BY <1>0, <1>23 DEF SaveApproval, ClosedAs, Go
<1>24. ASSUME NEW a \in Actors, Verify(a) PROVE SuccessWasClaimed'
  BY <1>0, <1>24 DEF Verify, Return, Drop
<1>25. ASSUME NEW a \in Actors, FindHealth(a) PROVE SuccessWasClaimed'
  BY <1>0, <1>25 DEF FindHealth, NoHealthYet, Return, Drop
<1>26. ASSUME NEW a \in Actors, InsertHealth(a) PROVE SuccessWasClaimed'
  BY <1>0, <1>26 DEF InsertHealth, NoHealthYet, Proposes, Return, Drop
<1>27. ASSUME NEW a \in Actors, InsertRefused(a) PROVE SuccessWasClaimed'
  BY <1>0, <1>27 DEF InsertRefused, NoHealthYet, Drop, Die, Release
<1>28. ASSUME NEW w \in Workers, EndJob(w) PROVE SuccessWasClaimed'
  BY <1>0, <1>28 DEF EndJob, CloseJob, Release, Drop
<1>29. ASSUME NEW w \in Workers, EndMark(w) PROVE SuccessWasClaimed'
  BY <1>0, <1>29 DEF EndMark, EndMarking, Release, Drop
<1>30. ASSUME NEW w \in Workers, CrashWorker(w) PROVE SuccessWasClaimed'
  BY <1>0, <1>30 DEF CrashWorker, Die, Release, Drop
<1>31. ASSUME NEW j \in Jobs, Timeout(j), UNCHANGED commandVars PROVE SuccessWasClaimed'
  BY <1>0, <1>31 DEF Timeout, commandVars
<1>32. CASE UNCHANGED vars
  BY <1>32 DEF vars, commandVars
<1> QED
  BY <1>1, <1>2, <1>3, <1>4, <1>5, <1>6, <1>7, <1>8, <1>9, <1>10, <1>11, <1>12, <1>13, <1>14, <1>15, <1>16, <1>17, <1>18, <1>19, <1>20, <1>21, <1>22, <1>23, <1>24, <1>25, <1>26, <1>27, <1>28, <1>29, <1>30, <1>31, <1>32 DEF Next, Decide, Execute, Conclude, WorkerNext, Actors

\* A late worker stays accounted for.
LEMMA LateStep ==
  TypeOK /\ Shape /\ Fresh /\ Once /\ InHand /\ UnderExecution /\ TakenRows /\ NewJobs /\ Late /\ [Next]_vars => Late'
<1> SUFFICES ASSUME TypeOK, Shape, Fresh, Once, InHand, UnderExecution, TakenRows, NewJobs, Late, [Next]_vars PROVE Late'
  OBVIOUS
<1>0. \A r \in Records : record[r] \notin Unclaimed => record'[r] \notin Unclaimed
  BY ClaimedStays DEF ClaimsKept
<1> USE CommandAssumption, QueueAssumption, JobsArePositive DEF JobTypeOK, TypeOK, Shape, JobShape, WorkerShape, AdminShape, ActorShape, Actors, Records, Approvals, JobStatuses, Duties, Settled, RecordStatuses, Terminal, Decided, ApprovalStatuses, HealthStatuses, Executing, Steps, jobVars, rowVars, actorVars, history, Once, SoleExecutor, Fresh, HeldRows, InHand, UnderExecution, TakenRows, NewJobs, Late, Unclaimed, JobsOf
<1>1. ASSUME NEW r \in Direct, SubmitCommand(r) PROVE Late'
  BY <1>0, <1>1 DEF Accounted, SubmitCommand
<1>2. ASSUME NEW r \in Direct, EnqueueCommand(r) PROVE Late'
  <2> SUFFICES ASSUME NEW w \in Workers, step'[w] \in {"claim", "fault"} PROVE Accounted(w)'
    BY DEF Late
  <2>1. PICK k \in Jobs : Enqueue(k, r)
    BY <1>2 DEF EnqueueCommand, Enqueue, commandVars
  <2>2. \A j \in Jobs : jobTarget[j] = held[w] => jobTarget'[j] = held[w]
    <3> SUFFICES ASSUME NEW j \in Jobs, jobTarget[j] = held[w] PROVE jobTarget'[j] = held[w]
      OBVIOUS
    <3>1. held[w] \in Targets
      BY <1>2 DEF EnqueueCommand, Enqueue, commandVars
    <3>2. j # k
      BY <2>1, <3>1 DEF Enqueue
    <3> QED BY <2>1, <3>2 DEF Enqueue
  <2>3. /\ UNCHANGED <<cur, overdue, record, held>>
        /\ step[w] = step'[w]
        /\ \A b \in Actors : step'[b] \in Executing => step[b] \in Executing
    BY <1>2, <2>1 DEF EnqueueCommand, Enqueue, commandVars
  <2>4. Accounted(w)
    BY <2>3
  <2> QED BY <2>2, <2>3, <2>4 DEF Accounted
<1>3. ASSUME NEW p \in Adhoc, RequestApproval(p) PROVE Late'
  BY <1>0, <1>3 DEF Accounted, RequestApproval
<1>4. ASSUME NEW r \in Runbook, InitiateRunbook(r) PROVE Late'
  BY <1>0, <1>4 DEF Accounted, InitiateRunbook, RollbackRecords
<1>5. ASSUME NEW a \in Admins, NEW p \in Approvals, ReadApproval(a, p) PROVE Late'
  BY <1>0, <1>5 DEF Accounted, ReadApproval, Decidable
<1>6. ASSUME NEW a \in Admins, Reject(a) PROVE Late'
  BY <1>0, <1>6 DEF Accounted, Reject, Drop
<1>7. ASSUME NEW a \in Admins, Approve(a) PROVE Late'
  BY <1>0, <1>7 DEF Accounted, Approve, Go
<1>8. ASSUME NEW a \in Admins, LoadRecord(a) PROVE Late'
  BY <1>0, <1>8 DEF Accounted, LoadRecord, Go, See
<1>9. ASSUME NEW a \in Admins, EnqueueApproved(a) PROVE Late'
  <2> SUFFICES ASSUME NEW w \in Workers, step'[w] \in {"claim", "fault"} PROVE Accounted(w)'
    BY DEF Late
  <2>1. PICK k \in Jobs : Enqueue(k, held[a])
    BY <1>9 DEF EnqueueApproved, Go, Enqueue
  <2>2. \A j \in Jobs : jobTarget[j] = held[w] => jobTarget'[j] = held[w]
    <3> SUFFICES ASSUME NEW j \in Jobs, jobTarget[j] = held[w] PROVE jobTarget'[j] = held[w]
      OBVIOUS
    <3>1. held[w] \in Targets
      BY <1>9 DEF EnqueueApproved, Go, Enqueue
    <3>2. j # k
      BY <2>1, <3>1 DEF Enqueue
    <3> QED BY <2>1, <3>2 DEF Enqueue
  <2>3. /\ UNCHANGED <<cur, overdue, record, held>>
        /\ step[w] = step'[w]
        /\ \A b \in Actors : step'[b] \in Executing => step[b] \in Executing
    BY <1>9, <2>1 DEF EnqueueApproved, Go, Enqueue
  <2>4. Accounted(w)
    BY <2>3
  <2> QED BY <2>2, <2>3, <2>4 DEF Accounted
<1>10. ASSUME NEW a \in Admins, CreateAdhoc(a) PROVE Late'
  BY <1>0, <1>10 DEF Accounted, CreateAdhoc, Go
<1>11. ASSUME NEW a \in Admins, SettleAdhoc(a) PROVE Late'
  BY <1>0, <1>11 DEF Accounted, SettleAdhoc, Drop
<1>12. ASSUME NEW w \in Workers, NEW j \in Jobs, BeginJob(w, j) PROVE Late'
  <2> SUFFICES ASSUME NEW v \in Workers, step'[v] \in {"claim", "fault"} PROVE Accounted(v)'
    BY DEF Late
  <2>1. UNCHANGED <<record, overdue, jobTarget>>
    BY <1>12 DEF BeginJob, TakeJob
  <2>2. CASE v = w
    <3>1. held'[w] = jobTarget[j] /\ cur'[w] = j /\ jobTarget[j] \in Targets /\ jobStatus[j] = "pending"
      BY <1>12 DEF BeginJob, TakeJob
    <3>2. CASE record[jobTarget[j]] \in Unclaimed
      BY <2>1, <2>2, <3>1, <3>2 DEF Accounted
    <3>3. CASE record[jobTarget[j]] \notin Unclaimed
      <4>1. PICK k \in Jobs : jobTarget[k] = jobTarget[j] /\ jobStatus[k] # "pending"
        BY <3>1, <3>3
      <4>2. k \in Jobs /\ jobTarget'[k] = held'[v] /\ k # cur'[v]
        BY <2>1, <2>2, <3>1, <4>1
      <4> QED BY <4>2 DEF Accounted
    <3> QED BY <3>2, <3>3
  <2>3. CASE v # w
    <3>1. /\ step'[v] = step[v] /\ held'[v] = held[v] /\ cur'[v] = cur[v]
          /\ \A b \in Actors : step'[b] \in Executing => step[b] \in Executing /\ held'[b] = held[b]
      BY <1>12, <2>3 DEF BeginJob, TakeJob
    <3>2. Accounted(v)
      BY <3>1
    <3> QED BY <2>1, <3>1, <3>2 DEF Accounted
  <2> QED BY <2>2, <2>3
<1>13. ASSUME NEW w \in Workers, NEW j \in Jobs, SweepJob(w, j) PROVE Late'
  BY <1>0, <1>13 DEF Accounted, SweepJob, ExpireJob
<1>14. ASSUME NEW a \in Actors, ClaimRecord(a) PROVE Late'
  <2> SUFFICES ASSUME NEW w \in Workers, step'[w] \in {"claim", "fault"} PROVE Accounted(w)'
    BY DEF Late
  <2>1. w # a /\ step[w] = step'[w] /\ UNCHANGED <<held, cur, overdue, jobTarget>>
    BY <1>14 DEF ClaimRecord, Go
  <2>2. CASE held[w] = held[a]
    <3>1. a \in Workers
      BY <1>14, <2>2, AdhocIsNoTarget DEF ClaimRecord, Go
    <3>0. duty[a] = "working"
      BY <1>14, <3>1 DEF ClaimRecord, Go
    <3>2. cur[a] \in Jobs /\ jobTarget[cur[a]] = held[w]
      BY <2>2, <3>0, <3>1
    <3>3. CASE duty[w] = "working"
      BY <2>1, <2>2, <3>0, <3>1, <3>2, <3>3 DEF Accounted
    <3>4. CASE duty[w] # "working"
      BY <2>1, <3>4 DEF Accounted
    <3> QED BY <3>3, <3>4
  <2>3. CASE held[w] # held[a]
    <3>1. record'[held[w]] = record[held[w]]
      BY <1>14, <2>3 DEF ClaimRecord, Write
    <3>2. \A b \in Actors : step'[b] \in Executing => b = a \/ step[b] \in Executing
      BY <1>14 DEF ClaimRecord, Go
    <3>3. Accounted(w)
      BY <2>1
    <3> QED BY <2>1, <2>3, <3>1, <3>2, <3>3 DEF Accounted
  <2> QED BY <2>2, <2>3
<1>15. ASSUME NEW a \in Actors, ClaimLost(a) PROVE Late'
  BY <1>0, <1>15 DEF Accounted, ClaimLost, Go, See, AfterCommand, PendingRow
<1>16. ASSUME NEW a \in Actors, EvaluatePolicy(a) PROVE Late'
  BY <1>0, <1>16 DEF Accounted, EvaluatePolicy, Go, See
<1>17. ASSUME NEW a \in Actors, Attempt(a) PROVE Late'
  BY <1>0, <1>17 DEF Accounted, Attempt, Go, See, MoreAttempts
<1>18. ASSUME NEW a \in Actors, SaveRetry(a) PROVE Late'
  BY <1>0, <1>18 DEF Accounted, SaveRetry, Go, Write
<1>19. ASSUME NEW a \in Actors, SaveRecord(a) PROVE Late'
  BY <1>0, <1>19 DEF Accounted, SaveRecord, Go, Write, AfterCommand
<1>20. ASSUME NEW a \in Actors, Fault(a) PROVE Late'
  <2> SUFFICES ASSUME NEW w \in Workers, step'[w] \in {"claim", "fault"} PROVE Accounted(w)'
    BY DEF Late
  <2>1. UNCHANGED <<jobVars, record>>
    BY <1>20 DEF Fault
  <2>2. /\ \A b \in Actors \ {a} : step'[b] = step[b] /\ held'[b] = held[b]
        /\ step[a] \in {"claim"} \cup Executing
        /\ \/ step'[a] = "rest"
           \/ a \in Workers /\ step'[a] = "fault" /\ held'[a] = held[a]
    <3>1. CASE a \in Workers
      BY <1>20, <3>1 DEF Fault, Unguarded, AfterFault
    <3>2. CASE a \notin Workers
      BY <1>20, <3>2 DEF Fault, Unguarded, Drop
    <3> QED BY <3>1, <3>2
  <2>3. \A b \in Actors : step'[b] \in Executing => b # a /\ step[b] \in Executing /\ held'[b] = held[b]
    BY <2>2
  <2>4. held'[w] = held[w]
    BY <2>2
  <2>5. CASE w = a /\ step[w] \in Executing
    <3>1. record[held[w]] \in {"running", "failed"}
      BY <2>5
    <3>2. \A b \in Actors : step'[b] \in Executing => held'[b] # held[w]
      BY <2>3, <2>5
    <3>3. step'[w] = "fault"
      BY <2>2, <2>5
    <3> QED BY <2>1, <2>4, <3>1, <3>2, <3>3 DEF Accounted
  <2>6. CASE w = a /\ step[w] = "claim"
    <3>1. Accounted(w)
      BY <2>6
    <3> QED BY <2>1, <2>3, <2>4, <2>6, <3>1 DEF Accounted
  <2>7. CASE w # a
    <3>1. Accounted(w) /\ step'[w] = step[w]
      BY <2>2, <2>7
    <3> QED BY <2>1, <2>3, <2>4, <3>1 DEF Accounted
  <2> QED BY <2>2, <2>5, <2>6, <2>7
<1>21. ASSUME NEW w \in Workers, MarkFailure(w) PROVE Late'
  BY <1>0, <1>21 DEF Accounted, MarkFailure, Go, See, Write
<1>22. ASSUME NEW a \in Actors, Finalize(a) PROVE Late'
  <2> SUFFICES ASSUME NEW w \in Workers, step'[w] \in {"claim", "fault"} PROVE Accounted(w)'
    BY DEF Late
  <2>0. w \in Actors
    OBVIOUS
  <2> HIDE DEF Actors, Records
  <2>1. /\ UNCHANGED <<jobVars, record>>
        /\ step'[a] \in Concluding \cup {"rest"}
        /\ \A b \in Actors \ {a} :
             step'[b] = step[b] /\ held'[b] = held[b] /\ seen'[b] = seen[b]
    BY <1>22, ConclusionEffect DEF ActorTypeOK
  <2>2. w # a /\ Accounted(w)
    BY <2>0, <2>1 DEF Concluding
  <2>3. \A b \in Actors : step'[b] \in Executing => step[b] \in Executing /\ held'[b] = held[b]
    BY <2>1 DEF Concluding
  <2> QED BY <2>0, <2>1, <2>2, <2>3 DEF Accounted
<1>23. ASSUME NEW a \in Actors, SaveApproval(a) PROVE Late'
  BY <1>0, <1>23 DEF Accounted, SaveApproval, ClosedAs, Go
<1>24. ASSUME NEW a \in Actors, Verify(a) PROVE Late'
  <2> SUFFICES ASSUME NEW w \in Workers, step'[w] \in {"claim", "fault"} PROVE Accounted(w)'
    BY DEF Late
  <2>0. w \in Actors
    OBVIOUS
  <2> HIDE DEF Actors, Records
  <2>1. /\ UNCHANGED <<jobVars, record>>
        /\ step'[a] \in Concluding \cup {"rest"}
        /\ \A b \in Actors \ {a} :
             step'[b] = step[b] /\ held'[b] = held[b] /\ seen'[b] = seen[b]
    BY <1>24, ConclusionEffect DEF ActorTypeOK
  <2>2. w # a /\ Accounted(w)
    BY <2>0, <2>1 DEF Concluding
  <2>3. \A b \in Actors : step'[b] \in Executing => step[b] \in Executing /\ held'[b] = held[b]
    BY <2>1 DEF Concluding
  <2> QED BY <2>0, <2>1, <2>2, <2>3 DEF Accounted
<1>25. ASSUME NEW a \in Actors, FindHealth(a) PROVE Late'
  <2> SUFFICES ASSUME NEW w \in Workers, step'[w] \in {"claim", "fault"} PROVE Accounted(w)'
    BY DEF Late
  <2>0. w \in Actors
    OBVIOUS
  <2> HIDE DEF Actors, Records
  <2>1. /\ UNCHANGED <<jobVars, record>>
        /\ step'[a] \in Concluding \cup {"rest"}
        /\ \A b \in Actors \ {a} :
             step'[b] = step[b] /\ held'[b] = held[b] /\ seen'[b] = seen[b]
    BY <1>25, ConclusionEffect DEF ActorTypeOK
  <2>2. w # a /\ Accounted(w)
    BY <2>0, <2>1 DEF Concluding
  <2>3. \A b \in Actors : step'[b] \in Executing => step[b] \in Executing /\ held'[b] = held[b]
    BY <2>1 DEF Concluding
  <2> QED BY <2>0, <2>1, <2>2, <2>3 DEF Accounted
<1>26. ASSUME NEW a \in Actors, InsertHealth(a) PROVE Late'
  <2> SUFFICES ASSUME NEW w \in Workers, step'[w] \in {"claim", "fault"} PROVE Accounted(w)'
    BY DEF Late
  <2>1. UNCHANGED <<jobVars, held>> \/ (UNCHANGED jobVars /\ a \notin Workers)
    BY <1>26 DEF InsertHealth, Return
  <2>2. /\ \A b \in Actors \ {a} :
             step'[b] = step[b] /\ held'[b] = held[b] /\ tries'[b] = tries[b]
        /\ \/ step'[a] = "rest" /\ held'[a] = NoTarget /\ tries'[a] = 0
           \/ step'[a] = "done" /\ held'[a] = held[a]
    BY <1>26, ReturnEffect DEF InsertHealth, ActorTypeOK
  <2>3. w # a /\ Accounted(w) /\ UNCHANGED jobVars
    BY <2>1, <2>2
  <2>4. record'[held[w]] = record[held[w]]
    BY <1>26, <2>2, <2>3, InsertEffect
  <2>5. \A b \in Actors : step'[b] \in Executing => step[b] \in Executing /\ held'[b] = held[b]
    BY <2>2
  <2> QED BY <2>2, <2>3, <2>4, <2>5 DEF Accounted
<1>27. ASSUME NEW a \in Actors, InsertRefused(a) PROVE Late'
  BY <1>0, <1>27 DEF Accounted, InsertRefused, NoHealthYet, Drop, Die, Release
<1>28. ASSUME NEW w \in Workers, EndJob(w) PROVE Late'
  BY <1>0, <1>28 DEF Accounted, EndJob, CloseJob, Release, Drop
<1>29. ASSUME NEW w \in Workers, EndMark(w) PROVE Late'
  BY <1>0, <1>29 DEF Accounted, EndMark, EndMarking, Release, Drop
<1>30. ASSUME NEW w \in Workers, CrashWorker(w) PROVE Late'
  BY <1>0, <1>30 DEF Accounted, CrashWorker, Die, Release, Drop
<1>31. ASSUME NEW j \in Jobs, Timeout(j), UNCHANGED commandVars PROVE Late'
  BY <1>0, <1>31 DEF Accounted, Timeout, commandVars
<1>32. CASE UNCHANGED vars
  BY <1>32 DEF Accounted, vars, commandVars
<1> QED
  BY <1>1, <1>2, <1>3, <1>4, <1>5, <1>6, <1>7, <1>8, <1>9, <1>10, <1>11, <1>12, <1>13, <1>14, <1>15, <1>16, <1>17, <1>18, <1>19, <1>20, <1>21, <1>22, <1>23, <1>24, <1>25, <1>26, <1>27, <1>28, <1>29, <1>30, <1>31, <1>32 DEF Next, Decide, Execute, Conclude, WorkerNext, Actors

\* A request concludes what it approved.
LEMMA ConclusionsStep ==
  TypeOK /\ Shape /\ Traced /\ TracedConclusions /\ [Next]_vars => TracedConclusions'
<1> SUFFICES ASSUME TypeOK, Shape, Traced, TracedConclusions, [Next]_vars PROVE TracedConclusions'
  OBVIOUS
<1> USE CommandAssumption, QueueAssumption, JobsArePositive DEF JobTypeOK, TypeOK, Shape, JobShape, WorkerShape, AdminShape, ActorShape, Actors, Records, Approvals, JobStatuses, Duties, Settled, RecordStatuses, Terminal, Decided, ApprovalStatuses, HealthStatuses, Executing, Steps, jobVars, rowVars, actorVars, history, Traced, TracedAdmins, TracedConclusions, Concluding
<1>1. ASSUME NEW r \in Direct, SubmitCommand(r) PROVE TracedConclusions'
  BY <1>1 DEF SubmitCommand
<1>2. ASSUME NEW r \in Direct, EnqueueCommand(r) PROVE TracedConclusions'
  BY <1>2 DEF EnqueueCommand, Enqueue, commandVars
<1>3. ASSUME NEW p \in Adhoc, RequestApproval(p) PROVE TracedConclusions'
  BY <1>3 DEF RequestApproval
<1>4. ASSUME NEW r \in Runbook, InitiateRunbook(r) PROVE TracedConclusions'
  BY <1>4 DEF InitiateRunbook, RollbackRecords
<1>5. ASSUME NEW a \in Admins, NEW p \in Approvals, ReadApproval(a, p) PROVE TracedConclusions'
  BY <1>5 DEF ReadApproval, Decidable
<1>6. ASSUME NEW a \in Admins, Reject(a) PROVE TracedConclusions'
  BY <1>6 DEF Reject, Drop
<1>7. ASSUME NEW a \in Admins, Approve(a) PROVE TracedConclusions'
  BY <1>7 DEF Approve, Go
<1>8. ASSUME NEW a \in Admins, LoadRecord(a) PROVE TracedConclusions'
  BY <1>8 DEF LoadRecord, Go, See
<1>9. ASSUME NEW a \in Admins, EnqueueApproved(a) PROVE TracedConclusions'
  BY <1>9 DEF EnqueueApproved, Go, Enqueue
<1>10. ASSUME NEW a \in Admins, CreateAdhoc(a) PROVE TracedConclusions'
  BY <1>10 DEF CreateAdhoc, Go
<1>11. ASSUME NEW a \in Admins, SettleAdhoc(a) PROVE TracedConclusions'
  BY <1>11 DEF SettleAdhoc, Drop
<1>12. ASSUME NEW w \in Workers, NEW j \in Jobs, BeginJob(w, j) PROVE TracedConclusions'
  BY <1>12 DEF BeginJob, TakeJob
<1>13. ASSUME NEW w \in Workers, NEW j \in Jobs, SweepJob(w, j) PROVE TracedConclusions'
  BY <1>13 DEF SweepJob, ExpireJob
<1>14. ASSUME NEW a \in Actors, ClaimRecord(a) PROVE TracedConclusions'
  BY <1>14 DEF ClaimRecord, Go, Write, PendingRow
<1>15. ASSUME NEW a \in Actors, ClaimLost(a) PROVE TracedConclusions'
  BY <1>15 DEF ClaimLost, Go, See, AfterCommand, PendingRow
<1>16. ASSUME NEW a \in Actors, EvaluatePolicy(a) PROVE TracedConclusions'
  BY <1>16 DEF EvaluatePolicy, Go, See
<1>17. ASSUME NEW a \in Actors, Attempt(a) PROVE TracedConclusions'
  BY <1>17 DEF Attempt, Go, See, MoreAttempts
<1>18. ASSUME NEW a \in Actors, SaveRetry(a) PROVE TracedConclusions'
  BY <1>18 DEF SaveRetry, Go, Write
<1>19. ASSUME NEW a \in Actors, SaveRecord(a) PROVE TracedConclusions'
  BY <1>19 DEF SaveRecord, Go, Write, AfterCommand
<1>20. ASSUME NEW a \in Actors, Fault(a) PROVE TracedConclusions'
  BY <1>20 DEF Fault, Unguarded, AfterFault, Drop
<1>21. ASSUME NEW w \in Workers, MarkFailure(w) PROVE TracedConclusions'
  BY <1>21 DEF MarkFailure, Go, See, Write
<1>22. ASSUME NEW a \in Actors, Finalize(a) PROVE TracedConclusions'
  BY <1>22 DEF Finalize, Finalizable, Return, Drop
<1>23. ASSUME NEW a \in Actors, SaveApproval(a) PROVE TracedConclusions'
  BY <1>23 DEF SaveApproval, ClosedAs, Go
<1>24. ASSUME NEW a \in Actors, Verify(a) PROVE TracedConclusions'
  BY <1>24 DEF Verify, Return, Drop
<1>25. ASSUME NEW a \in Actors, FindHealth(a) PROVE TracedConclusions'
  BY <1>25 DEF FindHealth, NoHealthYet, Return, Drop
<1>26. ASSUME NEW a \in Actors, InsertHealth(a) PROVE TracedConclusions'
  BY <1>26 DEF InsertHealth, NoHealthYet, Proposes, Return, Drop
<1>27. ASSUME NEW a \in Actors, InsertRefused(a) PROVE TracedConclusions'
  BY <1>27 DEF InsertRefused, NoHealthYet, Drop, Die, Release
<1>28. ASSUME NEW w \in Workers, EndJob(w) PROVE TracedConclusions'
  BY <1>28 DEF EndJob, CloseJob, Release, Drop
<1>29. ASSUME NEW w \in Workers, EndMark(w) PROVE TracedConclusions'
  BY <1>29 DEF EndMark, EndMarking, Release, Drop
<1>30. ASSUME NEW w \in Workers, CrashWorker(w) PROVE TracedConclusions'
  BY <1>30 DEF CrashWorker, Die, Release, Drop
<1>31. ASSUME NEW j \in Jobs, Timeout(j), UNCHANGED commandVars PROVE TracedConclusions'
  BY <1>31 DEF Timeout, commandVars
<1>32. CASE UNCHANGED vars
  BY <1>32 DEF vars, commandVars
<1> QED
  BY <1>1, <1>2, <1>3, <1>4, <1>5, <1>6, <1>7, <1>8, <1>9, <1>10, <1>11, <1>12, <1>13, <1>14, <1>15, <1>16, <1>17, <1>18, <1>19, <1>20, <1>21, <1>22, <1>23, <1>24, <1>25, <1>26, <1>27, <1>28, <1>29, <1>30, <1>31, <1>32 DEF Next, Decide, Execute, Conclude, WorkerNext, Actors

\* A rollback follows its evidence.
LEMMA EvidenceStep ==
  TypeOK /\ Shape /\ Fresh /\ Traced /\ TracedConclusions /\ RollbackOnEvidence /\ [Next]_vars => RollbackOnEvidence'
<1> SUFFICES ASSUME TypeOK, Shape, Fresh, Traced, TracedConclusions, RollbackOnEvidence, [Next]_vars PROVE RollbackOnEvidence'
  OBVIOUS
<1> USE CommandAssumption, QueueAssumption, JobsArePositive DEF JobTypeOK, TypeOK, Shape, JobShape, WorkerShape, AdminShape, ActorShape, Actors, Records, Approvals, JobStatuses, Duties, Settled, RecordStatuses, Terminal, Decided, ApprovalStatuses, HealthStatuses, Executing, Steps, jobVars, rowVars, actorVars, history, Fresh, HeldRows, RollbackRows, RollbackRecords, Traced, TracedWorkers, TracedConclusions, Concluding, RollbackOnEvidence
<1>1. ASSUME NEW r \in Direct, SubmitCommand(r) PROVE RollbackOnEvidence'
  BY <1>1 DEF SubmitCommand
<1>2. ASSUME NEW r \in Direct, EnqueueCommand(r) PROVE RollbackOnEvidence'
  BY <1>2 DEF EnqueueCommand, Enqueue, commandVars
<1>3. ASSUME NEW p \in Adhoc, RequestApproval(p) PROVE RollbackOnEvidence'
  BY <1>3 DEF RequestApproval
<1>4. ASSUME NEW r \in Runbook, InitiateRunbook(r) PROVE RollbackOnEvidence'
  BY <1>4 DEF InitiateRunbook, RollbackRecords
<1>5. ASSUME NEW a \in Admins, NEW p \in Approvals, ReadApproval(a, p) PROVE RollbackOnEvidence'
  BY <1>5 DEF ReadApproval, Decidable
<1>6. ASSUME NEW a \in Admins, Reject(a) PROVE RollbackOnEvidence'
  BY <1>6 DEF Reject, Drop
<1>7. ASSUME NEW a \in Admins, Approve(a) PROVE RollbackOnEvidence'
  BY <1>7 DEF Approve, Go
<1>8. ASSUME NEW a \in Admins, LoadRecord(a) PROVE RollbackOnEvidence'
  BY <1>8 DEF LoadRecord, Go, See
<1>9. ASSUME NEW a \in Admins, EnqueueApproved(a) PROVE RollbackOnEvidence'
  BY <1>9 DEF EnqueueApproved, Go, Enqueue
<1>10. ASSUME NEW a \in Admins, CreateAdhoc(a) PROVE RollbackOnEvidence'
  BY <1>10 DEF CreateAdhoc, Go
<1>11. ASSUME NEW a \in Admins, SettleAdhoc(a) PROVE RollbackOnEvidence'
  BY <1>11 DEF SettleAdhoc, Drop
<1>12. ASSUME NEW w \in Workers, NEW j \in Jobs, BeginJob(w, j) PROVE RollbackOnEvidence'
  BY <1>12 DEF BeginJob, TakeJob
<1>13. ASSUME NEW w \in Workers, NEW j \in Jobs, SweepJob(w, j) PROVE RollbackOnEvidence'
  BY <1>13 DEF SweepJob, ExpireJob
<1>14. ASSUME NEW a \in Actors, ClaimRecord(a) PROVE RollbackOnEvidence'
  BY <1>14 DEF ClaimRecord, Go, Write, PendingRow
<1>15. ASSUME NEW a \in Actors, ClaimLost(a) PROVE RollbackOnEvidence'
  BY <1>15 DEF ClaimLost, Go, See, AfterCommand, PendingRow
<1>16. ASSUME NEW a \in Actors, EvaluatePolicy(a) PROVE RollbackOnEvidence'
  BY <1>16 DEF EvaluatePolicy, Go, See
<1>17. ASSUME NEW a \in Actors, Attempt(a) PROVE RollbackOnEvidence'
  BY <1>17 DEF Attempt, Go, See, MoreAttempts
<1>18. ASSUME NEW a \in Actors, SaveRetry(a) PROVE RollbackOnEvidence'
  BY <1>18 DEF SaveRetry, Go, Write
<1>19. ASSUME NEW a \in Actors, SaveRecord(a) PROVE RollbackOnEvidence'
  BY <1>19 DEF SaveRecord, Go, Write, AfterCommand
<1>20. ASSUME NEW a \in Actors, Fault(a) PROVE RollbackOnEvidence'
  BY <1>20 DEF Fault, Unguarded, AfterFault, Drop
<1>21. ASSUME NEW w \in Workers, MarkFailure(w) PROVE RollbackOnEvidence'
  BY <1>21 DEF MarkFailure, Go, See, Write
<1>22. ASSUME NEW a \in Actors, Finalize(a) PROVE RollbackOnEvidence'
  BY <1>22 DEF Finalize, Finalizable, Return, Drop
<1>23. ASSUME NEW a \in Actors, SaveApproval(a) PROVE RollbackOnEvidence'
  BY <1>23 DEF SaveApproval, ClosedAs, Go
<1>24. ASSUME NEW a \in Actors, Verify(a) PROVE RollbackOnEvidence'
  BY <1>24 DEF Verify, Return, Drop
<1>25. ASSUME NEW a \in Actors, FindHealth(a) PROVE RollbackOnEvidence'
  BY <1>25 DEF FindHealth, NoHealthYet, Return, Drop
<1>26. ASSUME NEW a \in Actors, InsertHealth(a) PROVE RollbackOnEvidence'
  <2>1. held[a] \in Runbook /\ health[held[a]] = "none" /\ held[a] \in granted
    BY <1>26 DEF InsertHealth, NoHealthYet
  <2>2. PICK h \in {"healthy", "unhealthy"} :
          /\ health' = [health EXCEPT ![held[a]] = h]
          /\ IF Proposes(held[a], h)
             THEN record' = [record EXCEPT ![RollbackOf[held[a]]] = "pending"]
             ELSE record' = record
    BY <1>26, InsertWrites
  <2> SUFFICES ASSUME NEW r \in Runbook, RollbackOf[r] # NoTarget, record'[RollbackOf[r]] # "absent"
               PROVE  health'[r] = "unhealthy" /\ r \in granted
    BY <1>26 DEF InsertHealth
  <2>3. RollbackOf[r] \in Runbook
    BY RollbackIsRunbook
  <2>4. CASE r = held[a]
    <3>1. record[RollbackOf[r]] = "absent"
      BY <2>1, <2>4 DEF RollbackRows
    <3>2. Proposes(held[a], h)
      BY <2>2, <3>1
    <3> QED BY <2>1, <2>2, <2>4, <3>2 DEF Proposes
  <2>5. CASE r # held[a]
    <3>1. Proposes(held[a], h) => RollbackOf[held[a]] # RollbackOf[r]
      BY <2>1, <2>5
    <3>2. record[RollbackOf[r]] # "absent"
      BY <2>2, <2>3, <3>1
    <3>3. health'[r] = health[r]
      BY <2>2, <2>5
    <3> QED BY <3>2, <3>3
  <2> QED BY <2>4, <2>5
<1>27. ASSUME NEW a \in Actors, InsertRefused(a) PROVE RollbackOnEvidence'
  BY <1>27 DEF InsertRefused, NoHealthYet, Drop, Die, Release
<1>28. ASSUME NEW w \in Workers, EndJob(w) PROVE RollbackOnEvidence'
  BY <1>28 DEF EndJob, CloseJob, Release, Drop
<1>29. ASSUME NEW w \in Workers, EndMark(w) PROVE RollbackOnEvidence'
  BY <1>29 DEF EndMark, EndMarking, Release, Drop
<1>30. ASSUME NEW w \in Workers, CrashWorker(w) PROVE RollbackOnEvidence'
  BY <1>30 DEF CrashWorker, Die, Release, Drop
<1>31. ASSUME NEW j \in Jobs, Timeout(j), UNCHANGED commandVars PROVE RollbackOnEvidence'
  BY <1>31 DEF Timeout, commandVars
<1>32. CASE UNCHANGED vars
  BY <1>32 DEF vars, commandVars
<1> QED
  BY <1>1, <1>2, <1>3, <1>4, <1>5, <1>6, <1>7, <1>8, <1>9, <1>10, <1>11, <1>12, <1>13, <1>14, <1>15, <1>16, <1>17, <1>18, <1>19, <1>20, <1>21, <1>22, <1>23, <1>24, <1>25, <1>26, <1>27, <1>28, <1>29, <1>30, <1>31, <1>32 DEF Next, Decide, Execute, Conclude, WorkerNext, Actors

\* A piece of evidence is written once, and its rollback proposed once.
LEMMA EvidenceStands ==
  TypeOK /\ Shape /\ Fresh /\ [Next]_vars => EvidenceKept
<1> SUFFICES ASSUME TypeOK, Shape, Fresh, [Next]_vars PROVE EvidenceKept
  OBVIOUS
<1> USE CommandAssumption, QueueAssumption, JobsArePositive DEF JobTypeOK, TypeOK, Shape, JobShape, WorkerShape, AdminShape, ActorShape, Actors, Records, Approvals, JobStatuses, Duties, Settled, RecordStatuses, Terminal, Decided, ApprovalStatuses, HealthStatuses, Executing, Steps, jobVars, rowVars, actorVars, history, EvidenceKept, Fresh, HeldRows, RollbackRecords
<1>1. ASSUME NEW r \in Direct, SubmitCommand(r) PROVE EvidenceKept
  BY <1>1 DEF SubmitCommand
<1>2. ASSUME NEW r \in Direct, EnqueueCommand(r) PROVE EvidenceKept
  BY <1>2 DEF EnqueueCommand, Enqueue, commandVars
<1>3. ASSUME NEW p \in Adhoc, RequestApproval(p) PROVE EvidenceKept
  BY <1>3 DEF RequestApproval
<1>4. ASSUME NEW r \in Runbook, InitiateRunbook(r) PROVE EvidenceKept
  BY <1>4 DEF InitiateRunbook, RollbackRecords
<1>5. ASSUME NEW a \in Admins, NEW p \in Approvals, ReadApproval(a, p) PROVE EvidenceKept
  BY <1>5 DEF ReadApproval, Decidable
<1>6. ASSUME NEW a \in Admins, Reject(a) PROVE EvidenceKept
  BY <1>6 DEF Reject, Drop
<1>7. ASSUME NEW a \in Admins, Approve(a) PROVE EvidenceKept
  BY <1>7 DEF Approve, Go
<1>8. ASSUME NEW a \in Admins, LoadRecord(a) PROVE EvidenceKept
  BY <1>8 DEF LoadRecord, Go, See
<1>9. ASSUME NEW a \in Admins, EnqueueApproved(a) PROVE EvidenceKept
  BY <1>9 DEF EnqueueApproved, Go, Enqueue
<1>10. ASSUME NEW a \in Admins, CreateAdhoc(a) PROVE EvidenceKept
  BY <1>10 DEF CreateAdhoc, Go
<1>11. ASSUME NEW a \in Admins, SettleAdhoc(a) PROVE EvidenceKept
  BY <1>11 DEF SettleAdhoc, Drop
<1>12. ASSUME NEW w \in Workers, NEW j \in Jobs, BeginJob(w, j) PROVE EvidenceKept
  BY <1>12 DEF BeginJob, TakeJob
<1>13. ASSUME NEW w \in Workers, NEW j \in Jobs, SweepJob(w, j) PROVE EvidenceKept
  BY <1>13 DEF SweepJob, ExpireJob
<1>14. ASSUME NEW a \in Actors, ClaimRecord(a) PROVE EvidenceKept
  BY <1>14 DEF ClaimRecord, Go, Write, PendingRow
<1>15. ASSUME NEW a \in Actors, ClaimLost(a) PROVE EvidenceKept
  BY <1>15 DEF ClaimLost, Go, See, AfterCommand, PendingRow
<1>16. ASSUME NEW a \in Actors, EvaluatePolicy(a) PROVE EvidenceKept
  BY <1>16 DEF EvaluatePolicy, Go, See
<1>17. ASSUME NEW a \in Actors, Attempt(a) PROVE EvidenceKept
  BY <1>17 DEF Attempt, Go, See, MoreAttempts
<1>18. ASSUME NEW a \in Actors, SaveRetry(a) PROVE EvidenceKept
  BY <1>18 DEF SaveRetry, Go, Write
<1>19. ASSUME NEW a \in Actors, SaveRecord(a) PROVE EvidenceKept
  BY <1>19 DEF SaveRecord, Go, Write, AfterCommand
<1>20. ASSUME NEW a \in Actors, Fault(a) PROVE EvidenceKept
  BY <1>20 DEF Fault, Unguarded, AfterFault, Drop
<1>21. ASSUME NEW w \in Workers, MarkFailure(w) PROVE EvidenceKept
  BY <1>21 DEF MarkFailure, Go, See, Write
<1>22. ASSUME NEW a \in Actors, Finalize(a) PROVE EvidenceKept
  BY <1>22 DEF Finalize, Finalizable, Return, Drop
<1>23. ASSUME NEW a \in Actors, SaveApproval(a) PROVE EvidenceKept
  BY <1>23 DEF SaveApproval, ClosedAs, Go
<1>24. ASSUME NEW a \in Actors, Verify(a) PROVE EvidenceKept
  BY <1>24 DEF Verify, Return, Drop
<1>25. ASSUME NEW a \in Actors, FindHealth(a) PROVE EvidenceKept
  BY <1>25 DEF FindHealth, NoHealthYet, Return, Drop
<1>26. ASSUME NEW a \in Actors, InsertHealth(a) PROVE EvidenceKept
  BY <1>26 DEF InsertHealth, NoHealthYet, Proposes, Return, Drop
<1>27. ASSUME NEW a \in Actors, InsertRefused(a) PROVE EvidenceKept
  BY <1>27 DEF InsertRefused, NoHealthYet, Drop, Die, Release
<1>28. ASSUME NEW w \in Workers, EndJob(w) PROVE EvidenceKept
  BY <1>28 DEF EndJob, CloseJob, Release, Drop
<1>29. ASSUME NEW w \in Workers, EndMark(w) PROVE EvidenceKept
  BY <1>29 DEF EndMark, EndMarking, Release, Drop
<1>30. ASSUME NEW w \in Workers, CrashWorker(w) PROVE EvidenceKept
  BY <1>30 DEF CrashWorker, Die, Release, Drop
<1>31. ASSUME NEW j \in Jobs, Timeout(j), UNCHANGED commandVars PROVE EvidenceKept
  BY <1>31 DEF Timeout, commandVars
<1>32. CASE UNCHANGED vars
  BY <1>32 DEF vars, commandVars
<1> QED
  BY <1>1, <1>2, <1>3, <1>4, <1>5, <1>6, <1>7, <1>8, <1>9, <1>10, <1>11, <1>12, <1>13, <1>14, <1>15, <1>16, <1>17, <1>18, <1>19, <1>20, <1>21, <1>22, <1>23, <1>24, <1>25, <1>26, <1>27, <1>28, <1>29, <1>30, <1>31, <1>32 DEF Next, Decide, Execute, Conclude, WorkerNext, Actors

\* An outcome that no expiry and no second job disturbs stays.
LEMMA OutcomeStep ==
  TypeOK /\ Shape /\ Fresh /\ InHand /\ UnderExecution /\ Late /\ [Next]_vars => OutcomeKept
<1> SUFFICES ASSUME TypeOK, Shape, Fresh, InHand, UnderExecution, Late, [Next]_vars PROVE OutcomeKept
  OBVIOUS
<1> USE CommandAssumption, QueueAssumption, JobsArePositive DEF JobTypeOK, TypeOK, Shape, JobShape, WorkerShape, AdminShape, ActorShape, Actors, Records, Approvals, JobStatuses, Duties, Settled, RecordStatuses, Terminal, Decided, ApprovalStatuses, HealthStatuses, Executing, Steps, jobVars, rowVars, actorVars, history, Fresh, HeldRows, InHand, UnderExecution, Late, Unclaimed
<1>1. ASSUME NEW r \in Direct, SubmitCommand(r) PROVE OutcomeKept
  BY <1>1 DEF OutcomeKept, SubmitCommand
<1>2. ASSUME NEW r \in Direct, EnqueueCommand(r) PROVE OutcomeKept
  BY <1>2 DEF OutcomeKept, EnqueueCommand, Enqueue, commandVars
<1>3. ASSUME NEW p \in Adhoc, RequestApproval(p) PROVE OutcomeKept
  BY <1>3 DEF OutcomeKept, RequestApproval
<1>4. ASSUME NEW r \in Runbook, InitiateRunbook(r) PROVE OutcomeKept
  BY <1>4 DEF OutcomeKept, InitiateRunbook, RollbackRecords
<1>5. ASSUME NEW a \in Admins, NEW p \in Approvals, ReadApproval(a, p) PROVE OutcomeKept
  BY <1>5 DEF OutcomeKept, ReadApproval, Decidable
<1>6. ASSUME NEW a \in Admins, Reject(a) PROVE OutcomeKept
  BY <1>6 DEF OutcomeKept, Reject, Drop
<1>7. ASSUME NEW a \in Admins, Approve(a) PROVE OutcomeKept
  BY <1>7 DEF OutcomeKept, Approve, Go
<1>8. ASSUME NEW a \in Admins, LoadRecord(a) PROVE OutcomeKept
  BY <1>8 DEF OutcomeKept, LoadRecord, Go, See
<1>9. ASSUME NEW a \in Admins, EnqueueApproved(a) PROVE OutcomeKept
  BY <1>9 DEF OutcomeKept, EnqueueApproved, Go, Enqueue
<1>10. ASSUME NEW a \in Admins, CreateAdhoc(a) PROVE OutcomeKept
  <2>1. held[a] \in Adhoc /\ record' = [record EXCEPT ![<<held[a], a>>] = "pending"]
    BY <1>10 DEF CreateAdhoc, Go
  <2>2. <<held[a], a>> \notin Targets
    BY <2>1
  <2> QED BY <2>1, <2>2 DEF OutcomeKept
<1>11. ASSUME NEW a \in Admins, SettleAdhoc(a) PROVE OutcomeKept
  BY <1>11 DEF OutcomeKept, SettleAdhoc, Drop
<1>12. ASSUME NEW w \in Workers, NEW j \in Jobs, BeginJob(w, j) PROVE OutcomeKept
  BY <1>12 DEF OutcomeKept, BeginJob, TakeJob
<1>13. ASSUME NEW w \in Workers, NEW j \in Jobs, SweepJob(w, j) PROVE OutcomeKept
  BY <1>13 DEF OutcomeKept, SweepJob, ExpireJob
<1>14. ASSUME NEW a \in Actors, ClaimRecord(a) PROVE OutcomeKept
  BY <1>14 DEF OutcomeKept, ClaimRecord, Go, Write, PendingRow
<1>15. ASSUME NEW a \in Actors, ClaimLost(a) PROVE OutcomeKept
  BY <1>15 DEF OutcomeKept, ClaimLost, Go, See, AfterCommand, PendingRow
<1>16. ASSUME NEW a \in Actors, EvaluatePolicy(a) PROVE OutcomeKept
  BY <1>16 DEF OutcomeKept, EvaluatePolicy, Go, See
<1>17. ASSUME NEW a \in Actors, Attempt(a) PROVE OutcomeKept
  BY <1>17 DEF OutcomeKept, Attempt, Go, See, MoreAttempts
<1>18. ASSUME NEW a \in Actors, SaveRetry(a) PROVE OutcomeKept
  BY <1>18 DEF OutcomeKept, SaveRetry, Go, Write
<1>19. ASSUME NEW a \in Actors, SaveRecord(a) PROVE OutcomeKept
  BY <1>19 DEF OutcomeKept, SaveRecord, Go, Write, AfterCommand
<1>20. ASSUME NEW a \in Actors, Fault(a) PROVE OutcomeKept
  BY <1>20 DEF OutcomeKept, Fault, Unguarded, AfterFault, Drop
<1>21. ASSUME NEW w \in Workers, MarkFailure(w) PROVE OutcomeKept
  <2> SUFFICES ASSUME NEW r \in Targets, record[r] \in {"success", "blocked"},
                      JobsOf(r) \cap overdue = {}, Cardinality(JobsOf(r)) = 1
               PROVE  record'[r] = record[r]
    BY DEF OutcomeKept
  <2>1. step[w] = "fault" /\ held[w] \in Targets /\ record' = [record EXCEPT ![held[w]] = "failed"]
    BY <1>21 DEF MarkFailure, Go, Write
  <2>2. SUFFICES ASSUME held[w] = r PROVE FALSE
    BY <2>1
  <2>3. cur[w] \in JobsOf(r)
    BY <2>1, <2>2 DEF JobsOf
  <2>4. \A j \in JobsOf(r) : j = cur[w]
    BY <2>3, OnlyJob
  <2>5. Accounted(w)
    BY <2>1
  <2> QED BY <2>2, <2>3, <2>4, <2>5 DEF Accounted
<1>22. ASSUME NEW a \in Actors, Finalize(a) PROVE OutcomeKept
  BY <1>22 DEF OutcomeKept, Finalize, Finalizable, Return, Drop
<1>23. ASSUME NEW a \in Actors, SaveApproval(a) PROVE OutcomeKept
  BY <1>23 DEF OutcomeKept, SaveApproval, ClosedAs, Go
<1>24. ASSUME NEW a \in Actors, Verify(a) PROVE OutcomeKept
  BY <1>24 DEF OutcomeKept, Verify, Return, Drop
<1>25. ASSUME NEW a \in Actors, FindHealth(a) PROVE OutcomeKept
  BY <1>25 DEF OutcomeKept, FindHealth, NoHealthYet, Return, Drop
<1>26. ASSUME NEW a \in Actors, InsertHealth(a) PROVE OutcomeKept
  <2>1. \A r \in Records : record[r] # "absent" => record'[r] = record[r]
    BY <1>26, InsertEffect
  <2> QED BY <2>1 DEF OutcomeKept
<1>27. ASSUME NEW a \in Actors, InsertRefused(a) PROVE OutcomeKept
  BY <1>27 DEF OutcomeKept, InsertRefused, NoHealthYet, Drop, Die, Release
<1>28. ASSUME NEW w \in Workers, EndJob(w) PROVE OutcomeKept
  BY <1>28 DEF OutcomeKept, EndJob, CloseJob, Release, Drop
<1>29. ASSUME NEW w \in Workers, EndMark(w) PROVE OutcomeKept
  BY <1>29 DEF OutcomeKept, EndMark, EndMarking, Release, Drop
<1>30. ASSUME NEW w \in Workers, CrashWorker(w) PROVE OutcomeKept
  BY <1>30 DEF OutcomeKept, CrashWorker, Die, Release, Drop
<1>31. ASSUME NEW j \in Jobs, Timeout(j), UNCHANGED commandVars PROVE OutcomeKept
  BY <1>31 DEF OutcomeKept, Timeout, commandVars
<1>32. CASE UNCHANGED vars
  BY <1>32 DEF OutcomeKept, vars, commandVars
<1> QED
  BY <1>1, <1>2, <1>3, <1>4, <1>5, <1>6, <1>7, <1>8, <1>9, <1>10, <1>11, <1>12, <1>13, <1>14, <1>15, <1>16, <1>17, <1>18, <1>19, <1>20, <1>21, <1>22, <1>23, <1>24, <1>25, <1>26, <1>27, <1>28, <1>29, <1>30, <1>31, <1>32 DEF Next, Decide, Execute, Conclude, WorkerNext, Actors
-----------------------------------------------------------------------------
\* The layers above Inv, as one inductive invariant.
OutcomeInv ==
  /\ Inv
  /\ InHand /\ NewJobs /\ UnderExecution /\ PastClaim /\ TakenRows /\ Late
  /\ SuccessWasClaimed /\ TracedConclusions /\ RollbackOnEvidence

\* Before anything is submitted it holds.
LEMMA OutcomeInit == Init => OutcomeInv
<1> SUFFICES ASSUME Init PROVE OutcomeInv
  OBVIOUS
<1> USE CommandAssumption, JobsArePositive DEF Init, JobInit, CommandInit, Actors, Records, Approvals
<1>1. Inv
  BY InvInit
<1>2. InHand /\ NewJobs
  BY DEF InHand, NewJobs
<1>3. UnderExecution /\ PastClaim /\ Late /\ TracedConclusions
  BY DEF UnderExecution, PastClaim, Late, TracedConclusions, Executing, Concluding
<1>4. TakenRows /\ SuccessWasClaimed
  BY DEF TakenRows, SuccessWasClaimed, Unclaimed
<1>5. RollbackOnEvidence
  BY RollbackIsRunbook DEF RollbackOnEvidence
<1> QED BY <1>1, <1>2, <1>3, <1>4, <1>5 DEF OutcomeInv

\* The layers are inductive, each on the ones before it.
LEMMA OutcomeInductive == OutcomeInv /\ [Next]_vars => OutcomeInv'
<1> SUFFICES ASSUME OutcomeInv, [Next]_vars PROVE OutcomeInv'
  OBVIOUS
<1>1. /\ Inv /\ TypeOK /\ Shape /\ Fresh /\ Once /\ Traced
      /\ InHand /\ NewJobs /\ UnderExecution /\ PastClaim /\ TakenRows /\ Late
      /\ SuccessWasClaimed /\ TracedConclusions /\ RollbackOnEvidence
  BY DEF OutcomeInv, Inv
<1>2. Inv'
  BY <1>1, TypeStep, ShapeStep, FreshStep, OnceStep, TracedStep DEF Inv
<1>3. InHand' /\ NewJobs' /\ UnderExecution'
  BY <1>1, InHandStep, NewJobsStep, UnderExecutionStep
<1>4. PastClaim' /\ TakenRows' /\ Late'
  BY <1>1, PastClaimStep, TakenRowsStep, LateStep
<1>5. SuccessWasClaimed' /\ TracedConclusions' /\ RollbackOnEvidence'
  BY <1>1, SuccessStep, ConclusionsStep, EvidenceStep
<1> QED BY <1>2, <1>3, <1>4, <1>5 DEF OutcomeInv

\* Every reachable state satisfies all the layers.
LEMMA OutcomeInvariant == Safety => []OutcomeInv
  BY OutcomeInit, OutcomeInductive, PTL DEF Safety

\* A job that closed as a success handed its command to somebody: no row of the queue
\* succeeds over a command left pending (process_background_job, execute_command_record).
THEOREM SuccessHandsOver == Safety => []SuccessWasClaimed
<1>1. OutcomeInv => SuccessWasClaimed
  BY DEF OutcomeInv
<1> QED BY OutcomeInvariant, <1>1, PTL

\* A rollback runbook exists only where the command it undoes left its host unhealthy
\* after an administrator approved it (verify_runbook_execution_health).
THEOREM RollbackHasEvidence == Safety => []RollbackOnEvidence
<1>1. OutcomeInv => RollbackOnEvidence
  BY DEF OutcomeInv
<1> QED BY OutcomeInvariant, <1>1, PTL

\* Workers and sweeps that finalise one command never rewrite its health evidence,
\* nor reopen the rollback it proposed (the one_to_one of RunbookHealthVerification).
THEOREM EvidenceStaysFinal == Safety => EvidenceIsFinal
<1>1. OutcomeInv /\ [Next]_vars => EvidenceKept
  BY EvidenceStands DEF OutcomeInv, Inv
<1>2. OutcomeInv /\ [Next]_vars => [EvidenceKept]_vars
  BY <1>1
<1>3. Safety => [][EvidenceKept]_vars
  BY <1>2, OutcomeInvariant, PTL DEF Safety
<1> QED BY <1>3 DEF EvidenceIsFinal, EvidenceKept

\* A success or a block that neither an expiry nor a second job disturbs is never
\* rewritten, by the worker that saved it, by a late one or by the sweep.
THEOREM OutcomeIsFinal == Safety => OutcomeStands
<1>1. OutcomeInv /\ [Next]_vars => OutcomeKept
  BY OutcomeStep DEF OutcomeInv, Inv
<1>2. OutcomeInv /\ [Next]_vars => [OutcomeKept]_vars
  BY <1>1
<1>3. Safety => [][OutcomeKept]_vars
  BY <1>2, OutcomeInvariant, PTL DEF Safety
<1> QED BY <1>3 DEF OutcomeStands, OutcomeKept

=============================================================================
