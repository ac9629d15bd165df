------------------------- MODULE CommandWorkProofs -------------------------
(***************************************************************************)
(* What TLC checks of CommandWork on two workers and two administrators,    *)
(* proved for any number of workers, requests, commands and jobs.  The      *)
(* inductive invariant has four parts, each proved with the parts before    *)
(* it: Shape (what an actor holds at each step), Fresh (which rows exist),  *)
(* Once (how attempts are counted) and Traced (who approved).               *)
(***************************************************************************)
EXTENDS CommandWork, TLAPS

\* What an actor holds at each of its steps.
JobShape ==
  /\ \A j \in Jobs : jobStatus[j] # "none" => jobTarget[j] \in Targets
  /\ \A w \in Workers : duty[w] # "free" => cur[w] \in Jobs

WorkerShape ==
  \A w \in Workers :
    /\ step[w] = "rest" <=> duty[w] = "free"
    /\ step[w] # "rest" => held[w] \in Targets
    /\ step[w] \notin {"decide", "load", "enqueue", "create", "settle"}

AdminShape ==
  \A a \in Admins :
    /\ step[a] \notin {"done", "fault"}
    /\ step[a] = "decide" => held[a] \in Approvals
    /\ step[a] \in {"load", "enqueue", "final"} => held[a] \in Runbook
    /\ step[a] = "create" => held[a] \in Adhoc
    /\ step[a] \in {"claim", "settle"} \cup Executing =>
         \E p \in Adhoc : held[a] = <<p, a>>

ActorShape ==
  \A a \in Actors :
    /\ step[a] \in {"finalize", "verify", "existing", "insert"} => held[a] \in Runbook
    /\ step[a] \in {"retry", "store", "finalize"} => seen[a] \in Terminal

Shape == JobShape /\ WorkerShape /\ AdminShape /\ ActorShape

\* Whatever is worked on exists, and what does not exist yet is new to everybody.
JobRows == \A j \in Jobs : jobStatus[j] # "none" => record[jobTarget[j]] # "absent"
RunbookRows == \A r \in Runbook : approval[r] # "none" => record[r] # "absent"

RollbackRows ==
  \A r \in Runbook :
    health[r] = "none" /\ RollbackOf[r] # NoTarget => record[RollbackOf[r]] = "absent"

HeldRows ==
  \A a \in Actors :
    /\ step[a] \notin {"rest", "decide", "create"} => record[held[a]] # "absent"
    /\ step[a] = "decide" /\ held[a] \in Runbook => record[held[a]] # "absent"

AdhocRows ==
  \A p \in Adhoc, a \in Admins :
    \/ approval[p] \in {"none", "pending"}
    \/ step[a] \in {"decide", "create"} /\ held[a] = p
    => record[<<p, a>>] = "absent"
DecidedAdhoc == \A a \in Admins : step[a] = "create" => approval[held[a]] \in Decided

Fresh == JobRows /\ RunbookRows /\ RollbackRows /\ HeldRows /\ AdhocRows /\ DecidedAdhoc

\* Attempts are counted where a claimed row is executed, by its one executor.
CountedRows ==
  \A r \in Records :
    /\ sessions[r] <= Retries + 1
    /\ record[r] \in {"absent", "pending"} => sessions[r] = 0

CountedTries ==
  \A a \in Actors :
    /\ step[a] \in {"rest", "claim", "decide", "load", "enqueue", "create"} => tries[a] = 0
    /\ step[a] \in Executing => sessions[held[a]] = tries[a]
    /\ step[a] \in {"policy", "attempt", "retry"} => tries[a] <= Retries

Once == CountedRows /\ CountedTries /\ SoleExecutor

\* What runs was approved.
TracedJobs == \A j \in Jobs : jobTarget[j] \in Runbook => jobTarget[j] \in granted
TracedWorkers == \A w \in Workers : held[w] \in Runbook => held[w] \in granted

TracedAdmins ==
  \A a \in Admins :
    /\ step[a] \in {"load", "enqueue", "create"} => held[a] \in granted
    /\ step[a] \in {"claim"} \cup Executing =>
         \A p \in Adhoc : held[a] = <<p, a>> => p \in granted

Traced == TracedJobs /\ TracedWorkers /\ TracedAdmins /\ OnlyGranted

Inv == TypeOK /\ Shape /\ Fresh /\ Once /\ Traced

-----------------------------------------------------------------------------
\* A row number is never 0, the "no job" of cur.
LEMMA JobsArePositive == \A j \in Jobs : j \in Nat /\ j # 0
  BY QueueAssumption DEF Jobs

\* An actor past its decision has a row of the command table in hand.
LEMMA HeldRecord ==
  ASSUME TypeOK, Shape, NEW a \in Actors, step[a] \notin {"rest", "decide", "create"}
  PROVE  held[a] \in Records
<1> USE CommandAssumption DEF Records
<1>1. CASE a \in Workers
  BY <1>1 DEF Shape, WorkerShape
<1>2. CASE a \in Admins
  <2>1. step[a] \in Steps
    BY DEF TypeOK
  <2>2. CASE step[a] \in {"claim", "settle"} \cup Executing
    <3>1. PICK p \in Adhoc : held[a] = <<p, a>>
      BY <1>2, <2>2 DEF Shape, AdminShape
    <3> QED BY <1>2, <3>1
  <2>3. CASE step[a] \notin {"claim", "settle"} \cup Executing
    <3>1. held[a] \in Runbook
      BY <1>2, <2>1, <2>3 DEF Shape, AdminShape, ActorShape, Steps, Executing, Actors
    <3> QED BY <3>1
  <2> QED BY <2>2, <2>3
<1> QED BY <1>1, <1>2 DEF Actors

\* A rollback runbook is a runbook.
LEMMA RollbackIsRunbook ==
  ASSUME NEW r \in Runbook, RollbackOf[r] # NoTarget
  PROVE  RollbackOf[r] \in Runbook
  BY CommandAssumption

\* The variables of the actors stay in range.
ActorTypeOK ==
  /\ step \in [Actors -> Steps]
  /\ held \in [Actors -> Records \cup Approvals \cup {NoTarget}]
  /\ seen \in [Actors -> RecordStatuses]
  /\ tries \in [Actors -> Nat]
  /\ faulted \in [Workers -> BOOLEAN]

LEMMA DropType ==
  ASSUME ActorTypeOK, NEW a \in Actors, Drop(a)
  PROVE  ActorTypeOK'
<1>1. CASE a \in Workers
  BY <1>1 DEF ActorTypeOK, Drop, Steps, RecordStatuses
<1>2. CASE a \notin Workers
  BY <1>2 DEF ActorTypeOK, Drop, Steps, RecordStatuses
<1> QED BY <1>1, <1>2

LEMMA ReturnType ==
  ASSUME ActorTypeOK, NEW a \in Actors, Return(a)
  PROVE  ActorTypeOK'
<1>1. CASE a \in Workers
  BY <1>1 DEF ActorTypeOK, Return, Steps
<1>2. CASE a \notin Workers
  BY <1>2, DropType DEF Return
<1> QED BY <1>1, <1>2

\* Who returns is at rest or goes on with the same row; nobody else moves.
LEMMA ReturnEffect ==
  ASSUME ActorTypeOK, NEW a \in Actors, Return(a)
  PROVE  /\ \A b \in Actors \ {a} :
              step'[b] = step[b] /\ held'[b] = held[b] /\ tries'[b] = tries[b]
         /\ \/ step'[a] = "rest" /\ held'[a] = NoTarget /\ tries'[a] = 0
            \/ step'[a] = "done" /\ held'[a] = held[a]
<1>1. CASE a \in Workers
  BY <1>1 DEF ActorTypeOK, Return
<1>2. CASE a \notin Workers
  BY <1>2 DEF ActorTypeOK, Return, Drop
<1> QED BY <1>1, <1>2

\* Who meets an error drops everything, or a worker turns to marking the same row.
LEMMA FaultEffect ==
  ASSUME ActorTypeOK, NEW a \in Actors, Fault(a)
  PROVE  /\ step[a] \in Unguarded
         /\ \A b \in Actors \ {a} :
              step'[b] = step[b] /\ held'[b] = held[b] /\ seen'[b] = seen[b]
         /\ \/ step'[a] = "rest" /\ held'[a] = NoTarget /\ a \notin Workers
            \/ step'[a] = "fault" /\ held'[a] = held[a] /\ a \in Workers
         /\ UNCHANGED <<jobVars, rowVars, history>>
<1>1. CASE a \in Workers
  BY <1>1 DEF ActorTypeOK, Fault, AfterFault
<1>2. CASE a \notin Workers
  BY <1>2 DEF ActorTypeOK, Fault, Drop
<1> QED BY <1>1, <1>2

\* Inserting the evidence changes no row that is there: a rollback runbook is new.
LEMMA InsertEffect ==
  ASSUME TypeOK, Shape, Fresh, NEW a \in Actors, InsertHealth(a)
  PROVE  \A r \in Records : record[r] # "absent" => record'[r] = record[r]
<1>1. held[a] \in Runbook
  BY DEF InsertHealth, Shape, ActorShape
<1>2. PICK h \in {"healthy", "unhealthy"} :
        IF Proposes(held[a], h)
        THEN record' = [record EXCEPT ![RollbackOf[held[a]]] = "pending"]
        ELSE record' = record
  BY DEF InsertHealth
<1>3. RollbackOf[held[a]] # NoTarget => record[RollbackOf[held[a]]] = "absent"
  BY <1>1 DEF InsertHealth, NoHealthYet, Fresh, RollbackRows
<1>4. CASE Proposes(held[a], h)
  BY <1>2, <1>3, <1>4 DEF Proposes, TypeOK
<1>5. CASE ~Proposes(held[a], h)
  BY <1>2, <1>5
<1> QED BY <1>4, <1>5

\* Every step keeps every column and every variable of an actor in range.
LEMMA TypeStep ==
  TypeOK /\ Shape /\ [Next]_vars => TypeOK'
<1> SUFFICES ASSUME TypeOK, Shape, [Next]_vars PROVE TypeOK'
  OBVIOUS
<1> USE CommandAssumption, QueueAssumption, JobsArePositive DEF JobTypeOK, TypeOK, Shape, JobShape, WorkerShape, AdminShape, ActorShape, Actors, Records, Approvals, JobStatuses, Duties, Settled, RecordStatuses, Terminal, Decided, ApprovalStatuses, HealthStatuses, Executing, Steps, jobVars, rowVars, actorVars, history
<1>1. ASSUME NEW r \in Direct, SubmitCommand(r) PROVE TypeOK'
  BY <1>1 DEF SubmitCommand
<1>2. ASSUME NEW r \in Direct, EnqueueCommand(r) PROVE TypeOK'
  BY <1>2 DEF EnqueueCommand, Enqueue, commandVars
<1>3. ASSUME NEW p \in Adhoc, RequestApproval(p) PROVE TypeOK'
  BY <1>3 DEF RequestApproval
<1>4. ASSUME NEW r \in Runbook, InitiateRunbook(r) PROVE TypeOK'
  BY <1>4 DEF InitiateRunbook, RollbackRecords
<1>5. ASSUME NEW a \in Admins, NEW p \in Approvals, ReadApproval(a, p) PROVE TypeOK'
  BY <1>5 DEF ReadApproval, Decidable
<1>6. ASSUME NEW a \in Admins, Reject(a) PROVE TypeOK'
  BY <1>6 DEF Reject, Drop
<1>7. ASSUME NEW a \in Admins, Approve(a) PROVE TypeOK'
  BY <1>7 DEF Approve, Go
<1>8. ASSUME NEW a \in Admins, LoadRecord(a) PROVE TypeOK'
  BY <1>8 DEF LoadRecord, Go, See
<1>9. ASSUME NEW a \in Admins, EnqueueApproved(a) PROVE TypeOK'
  BY <1>9 DEF EnqueueApproved, Go, Enqueue
<1>10. ASSUME NEW a \in Admins, CreateAdhoc(a) PROVE TypeOK'
  BY <1>10 DEF CreateAdhoc, Go
<1>11. ASSUME NEW a \in Admins, SettleAdhoc(a) PROVE TypeOK'
  BY <1>11 DEF SettleAdhoc, Drop
<1>12. ASSUME NEW w \in Workers, NEW j \in Jobs, BeginJob(w, j) PROVE TypeOK'
  BY <1>12 DEF BeginJob, TakeJob
<1>13. ASSUME NEW w \in Workers, NEW j \in Jobs, SweepJob(w, j) PROVE TypeOK'
  BY <1>13 DEF SweepJob, ExpireJob
<1>14. ASSUME NEW a \in Actors, ClaimRecord(a) PROVE TypeOK'
  BY <1>14 DEF ClaimRecord, Go, Write, PendingRow
<1>15. ASSUME NEW a \in Actors, ClaimLost(a) PROVE TypeOK'
  <2>1. held[a] \in Records
    BY <1>15, HeldRecord DEF ClaimLost, Go
  <2> QED BY <1>15, <2>1 DEF ClaimLost, Go, See, AfterCommand, PendingRow
<1>16. ASSUME NEW a \in Actors, EvaluatePolicy(a) PROVE TypeOK'
  BY <1>16 DEF EvaluatePolicy, Go, See
<1>17. ASSUME NEW a \in Actors, Attempt(a) PROVE TypeOK'
  <2>1. held[a] \in Records
    BY <1>17, HeldRecord DEF Attempt
  <2>2. tries' \in [Actors -> Nat] /\ sessions' \in [Records -> Nat]
    BY <1>17, <2>1 DEF Attempt
  <2> HIDE DEF Records, Approvals, Actors
  <2>3. step' \in [Actors -> Steps] /\ seen' \in [Actors -> RecordStatuses]
    BY <1>17 DEF Attempt, Go, See
  <2> QED BY <1>17, <2>2, <2>3 DEF Attempt
<1>18. ASSUME NEW a \in Actors, SaveRetry(a) PROVE TypeOK'
  BY <1>18 DEF SaveRetry, Go, Write
<1>19. ASSUME NEW a \in Actors, SaveRecord(a) PROVE TypeOK'
  BY <1>19 DEF SaveRecord, Go, Write, AfterCommand
<1>20. ASSUME NEW a \in Actors, Fault(a) PROVE TypeOK'
  <2> HIDE DEF Records, Approvals, Actors
  <2>1. ActorTypeOK
    BY DEF ActorTypeOK
  <2>2. CASE a \in Workers
    <3>1. /\ step' = [step EXCEPT ![a] = "fault"]
          /\ faulted' = [faulted EXCEPT ![a] = TRUE]
          /\ UNCHANGED <<jobVars, rowVars, held, seen, tries, crashes, history>>
      BY <1>20, <2>2 DEF Fault, AfterFault
    <3>2. faulted' \in [Workers -> BOOLEAN]
      BY <3>1
    <3>3. step' \in [Actors -> Steps]
      BY <3>1
    <3> QED BY <3>1, <3>2, <3>3
  <2>3. CASE a \notin Workers
    <3>1. ActorTypeOK'
      BY <1>20, <2>1, <2>3, DropType DEF Fault
    <3> QED BY <1>20, <2>3, <3>1 DEF Fault, ActorTypeOK
  <2> QED BY <2>2, <2>3
<1>21. ASSUME NEW w \in Workers, MarkFailure(w) PROVE TypeOK'
  BY <1>21 DEF MarkFailure, Go, See, Write
<1>22. ASSUME NEW a \in Actors, Finalize(a) PROVE TypeOK'
  <2> HIDE DEF Records, Approvals, Actors
  <2>1. ActorTypeOK
    BY DEF ActorTypeOK
  <2>2. ActorTypeOK'
    BY <1>22, <2>1, ReturnType DEF Finalize, ActorTypeOK
  <2> QED BY <1>22, <2>2 DEF Finalize, ActorTypeOK
<1>23. ASSUME NEW a \in Actors, SaveApproval(a) PROVE TypeOK'
  BY <1>23 DEF SaveApproval, ClosedAs, Go
<1>24. ASSUME NEW a \in Actors, Verify(a) PROVE TypeOK'
  <2> HIDE DEF Records, Approvals, Actors
  <2>1. ActorTypeOK
    BY DEF ActorTypeOK
  <2>2. ActorTypeOK'
    BY <1>24, <2>1, ReturnType DEF Verify, ActorTypeOK
  <2> QED BY <1>24, <2>2 DEF Verify, ActorTypeOK
<1>25. ASSUME NEW a \in Actors, FindHealth(a) PROVE TypeOK'
  <2> HIDE DEF Records, Approvals, Actors
  <2>1. ActorTypeOK
    BY DEF ActorTypeOK
  <2>2. ActorTypeOK'
    BY <1>25, <2>1, ReturnType DEF FindHealth, ActorTypeOK
  <2> QED BY <1>25, <2>2 DEF FindHealth, ActorTypeOK
<1>26. ASSUME NEW a \in Actors, InsertHealth(a) PROVE TypeOK'
  <2>1. ActorTypeOK
    BY DEF ActorTypeOK
  <2>2. ActorTypeOK'
    BY <1>26, <2>1, ReturnType DEF InsertHealth
  <2>3. PICK h \in {"healthy", "unhealthy"} :
          /\ health' = [health EXCEPT ![held[a]] = h]
          /\ IF Proposes(held[a], h)
             THEN /\ record' = [record EXCEPT ![RollbackOf[held[a]]] = "pending"]
                  /\ approval' = [approval EXCEPT ![RollbackOf[held[a]]] = "pending"]
             ELSE UNCHANGED <<record, approval>>
    BY <1>26 DEF InsertHealth
  <2>4. record' \in [Records -> RecordStatuses] /\ approval' \in [Approvals -> ApprovalStatuses]
    BY <2>3
  <2>5. health' \in [Runbook -> HealthStatuses]
    BY <2>3
  <2> QED BY <1>26, <2>2, <2>4, <2>5 DEF InsertHealth, ActorTypeOK
<1>27. ASSUME NEW a \in Actors, InsertRefused(a) PROVE TypeOK'
  BY <1>27 DEF InsertRefused, NoHealthYet, Drop, Die, Release
<1>28. ASSUME NEW w \in Workers, EndJob(w) PROVE TypeOK'
  BY <1>28 DEF EndJob, CloseJob, Release, Drop
<1>29. ASSUME NEW w \in Workers, EndMark(w) PROVE TypeOK'
  BY <1>29 DEF EndMark, EndMarking, Release, Drop
<1>30. ASSUME NEW w \in Workers, CrashWorker(w) PROVE TypeOK'
  BY <1>30 DEF CrashWorker, Die, Release, Drop
<1>31. ASSUME NEW j \in Jobs, Timeout(j), UNCHANGED commandVars PROVE TypeOK'
  BY <1>31 DEF Timeout, commandVars
<1>32. CASE UNCHANGED vars
  BY <1>32 DEF vars, commandVars
<1> QED
  BY <1>1, <1>2, <1>3, <1>4, <1>5, <1>6, <1>7, <1>8, <1>9, <1>10, <1>11, <1>12, <1>13, <1>14, <1>15, <1>16, <1>17, <1>18, <1>19, <1>20, <1>21, <1>22, <1>23, <1>24, <1>25, <1>26, <1>27, <1>28, <1>29, <1>30, <1>31, <1>32 DEF Next, Decide, Execute, Conclude, WorkerNext, Actors

\* Every step leaves each actor with the row its next step needs.
LEMMA ShapeStep ==
  TypeOK /\ Shape /\ [Next]_vars => Shape'
<1> SUFFICES ASSUME TypeOK, Shape, [Next]_vars PROVE Shape'
  OBVIOUS
<1> USE CommandAssumption, QueueAssumption, JobsArePositive DEF JobTypeOK, TypeOK, Shape, JobShape, WorkerShape, AdminShape, ActorShape, Actors, Records, Approvals, JobStatuses, Duties, Settled, RecordStatuses, Terminal, Decided, ApprovalStatuses, HealthStatuses, Executing, Steps, jobVars, rowVars, actorVars, history
<1>1. ASSUME NEW r \in Direct, SubmitCommand(r) PROVE Shape'
  BY <1>1 DEF SubmitCommand
<1>2. ASSUME NEW r \in Direct, EnqueueCommand(r) PROVE Shape'
  BY <1>2 DEF EnqueueCommand, Enqueue, commandVars
<1>3. ASSUME NEW p \in Adhoc, RequestApproval(p) PROVE Shape'
  BY <1>3 DEF RequestApproval
<1>4. ASSUME NEW r \in Runbook, InitiateRunbook(r) PROVE Shape'
  BY <1>4 DEF InitiateRunbook, RollbackRecords
<1>5. ASSUME NEW a \in Admins, NEW p \in Approvals, ReadApproval(a, p) PROVE Shape'
  BY <1>5 DEF ReadApproval, Decidable
<1>6. ASSUME NEW a \in Admins, Reject(a) PROVE Shape'
  BY <1>6 DEF Reject, Drop
<1>7. ASSUME NEW a \in Admins, Approve(a) PROVE Shape'
  BY <1>7 DEF Approve, Go
<1>8. ASSUME NEW a \in Admins, LoadRecord(a) PROVE Shape'
  BY <1>8 DEF LoadRecord, Go, See
<1>9. ASSUME NEW a \in Admins, EnqueueApproved(a) PROVE Shape'
  BY <1>9 DEF EnqueueApproved, Go, Enqueue
<1>10. ASSUME NEW a \in Admins, CreateAdhoc(a) PROVE Shape'
  BY <1>10 DEF CreateAdhoc, Go
<1>11. ASSUME NEW a \in Admins, SettleAdhoc(a) PROVE Shape'
  BY <1>11 DEF SettleAdhoc, Drop
<1>12. ASSUME NEW w \in Workers, NEW j \in Jobs, BeginJob(w, j) PROVE Shape'
  BY <1>12 DEF BeginJob, TakeJob
<1>13. ASSUME NEW w \in Workers, NEW j \in Jobs, SweepJob(w, j) PROVE Shape'
  BY <1>13 DEF SweepJob, ExpireJob
<1>14. ASSUME NEW a \in Actors, ClaimRecord(a) PROVE Shape'
  BY <1>14 DEF ClaimRecord, Go, Write, PendingRow
<1>15. ASSUME NEW a \in Actors, ClaimLost(a) PROVE Shape'
  BY <1>15 DEF ClaimLost, Go, See, AfterCommand, PendingRow
<1>16. ASSUME NEW a \in Actors, EvaluatePolicy(a) PROVE Shape'
  BY <1>16 DEF EvaluatePolicy, Go, See
<1>17. ASSUME NEW a \in Actors, Attempt(a) PROVE Shape'
  BY <1>17 DEF Attempt, Go, See, MoreAttempts
<1>18. ASSUME NEW a \in Actors, SaveRetry(a) PROVE Shape'
  BY <1>18 DEF SaveRetry, Go, Write
<1>19. ASSUME NEW a \in Actors, SaveRecord(a) PROVE Shape'
  BY <1>19 DEF SaveRecord, Go, Write, AfterCommand
<1>20. ASSUME NEW a \in Actors, Fault(a) PROVE Shape'
  <2>1. /\ step[a] \in Unguarded
        /\ \A b \in Actors \ {a} :
             step'[b] = step[b] /\ held'[b] = held[b] /\ seen'[b] = seen[b]
        /\ \/ step'[a] = "rest" /\ held'[a] = NoTarget /\ a \notin Workers
           \/ step'[a] = "fault" /\ held'[a] = held[a] /\ a \in Workers
        /\ UNCHANGED <<jobVars, rowVars, history>>
    BY <1>20, FaultEffect DEF ActorTypeOK
  <2>2. JobShape'
    BY <2>1
  <2>3. WorkerShape'
    BY <2>1 DEF Unguarded
  <2>4. AdminShape'
    BY <2>1 DEF Unguarded
  <2>5. ActorShape'
    BY <2>1 DEF Unguarded
  <2> QED BY <2>2, <2>3, <2>4, <2>5
<1>21. ASSUME NEW w \in Workers, MarkFailure(w) PROVE Shape'
  BY <1>21 DEF MarkFailure, Go, See, Write
<1>22. ASSUME NEW a \in Actors, Finalize(a) PROVE Shape'
  BY <1>22 DEF Finalize, Finalizable, Return, Drop
<1>23. ASSUME NEW a \in Actors, SaveApproval(a) PROVE Shape'
  BY <1>23 DEF SaveApproval, ClosedAs, Go
<1>24. ASSUME NEW a \in Actors, Verify(a) PROVE Shape'
  BY <1>24 DEF Verify, Return, Drop
<1>25. ASSUME NEW a \in Actors, FindHealth(a) PROVE Shape'
  BY <1>25 DEF FindHealth, NoHealthYet, Return, Drop
<1>26. ASSUME NEW a \in Actors, InsertHealth(a) PROVE Shape'
  BY <1>26 DEF InsertHealth, NoHealthYet, Proposes, Return, Drop
<1>27. ASSUME NEW a \in Actors, InsertRefused(a) PROVE Shape'
  BY <1>27 DEF InsertRefused, NoHealthYet, Drop, Die, Release
<1>28. ASSUME NEW w \in Workers, EndJob(w) PROVE Shape'
  BY <1>28 DEF EndJob, CloseJob, Release, Drop
<1>29. ASSUME NEW w \in Workers, EndMark(w) PROVE Shape'
  BY <1>29 DEF EndMark, EndMarking, Release, Drop
<1>30. ASSUME NEW w \in Workers, CrashWorker(w) PROVE Shape'
  BY <1>30 DEF CrashWorker, Die, Release, Drop
<1>31. ASSUME NEW j \in Jobs, Timeout(j), UNCHANGED commandVars PROVE Shape'
  BY <1>31 DEF Timeout, commandVars
<1>32. CASE UNCHANGED vars
  BY <1>32 DEF vars, commandVars
<1> QED
  BY <1>1, <1>2, <1>3, <1>4, <1>5, <1>6, <1>7, <1>8, <1>9, <1>10, <1>11, <1>12, <1>13, <1>14, <1>15, <1>16, <1>17, <1>18, <1>19, <1>20, <1>21, <1>22, <1>23, <1>24, <1>25, <1>26, <1>27, <1>28, <1>29, <1>30, <1>31, <1>32 DEF Next, Decide, Execute, Conclude, WorkerNext, Actors

\* Every step works on rows that exist, and makes only rows that do not.
LEMMA FreshStep ==
  TypeOK /\ Shape /\ Fresh /\ [Next]_vars => Fresh'
<1> SUFFICES ASSUME TypeOK, Shape, Fresh, [Next]_vars PROVE Fresh'
  OBVIOUS
<1> USE CommandAssumption, QueueAssumption, JobsArePositive DEF JobTypeOK, TypeOK, Shape, JobShape, WorkerShape, AdminShape, ActorShape, Actors, Records, Approvals, JobStatuses, Duties, Settled, RecordStatuses, Terminal, Decided, ApprovalStatuses, HealthStatuses, Executing, Steps, jobVars, rowVars, actorVars, history, Fresh, JobRows, RunbookRows, RollbackRows, HeldRows, AdhocRows, DecidedAdhoc
<1>1. ASSUME NEW r \in Direct, SubmitCommand(r) PROVE Fresh'
  BY <1>1 DEF SubmitCommand
<1>2. ASSUME NEW r \in Direct, EnqueueCommand(r) PROVE Fresh'
  BY <1>2 DEF EnqueueCommand, Enqueue, commandVars
<1>3. ASSUME NEW p \in Adhoc, RequestApproval(p) PROVE Fresh'
  BY <1>3 DEF RequestApproval
<1>4. ASSUME NEW r \in Runbook, InitiateRunbook(r) PROVE Fresh'
  BY <1>4 DEF InitiateRunbook, RollbackRecords
<1>5. ASSUME NEW a \in Admins, NEW p \in Approvals, ReadApproval(a, p) PROVE Fresh'
  BY <1>5 DEF ReadApproval, Decidable
<1>6. ASSUME NEW a \in Admins, Reject(a) PROVE Fresh'
  BY <1>6 DEF Reject, Drop
<1>7. ASSUME NEW a \in Admins, Approve(a) PROVE Fresh'
  BY <1>7 DEF Approve, Go
<1>8. ASSUME NEW a \in Admins, LoadRecord(a) PROVE Fresh'
  BY <1>8 DEF LoadRecord, Go, See
<1>9. ASSUME NEW a \in Admins, EnqueueApproved(a) PROVE Fresh'
  BY <1>9 DEF EnqueueApproved, Go, Enqueue
<1>10. ASSUME NEW a \in Admins, CreateAdhoc(a) PROVE Fresh'
  <2>1. held[a] \in Adhoc /\ <<held[a], a>> \in Records /\ <<held[a], a>> \notin Targets
    BY <1>10 DEF CreateAdhoc, Go
  <2>5. JobRows'
    BY <1>10, <2>1 DEF CreateAdhoc, Go
  <2>6. RunbookRows'
    BY <1>10, <2>1 DEF CreateAdhoc, Go
  <2>7. RollbackRows'
    BY <1>10, <2>1 DEF CreateAdhoc, Go
  <2>8. HeldRows'
    <3>1. \A b \in Actors \ {a} : step'[b] = step[b] /\ held'[b] = held[b]
      BY <1>10 DEF CreateAdhoc, Go
    <3>2. step'[a] = "claim" /\ held'[a] = <<held[a], a>> /\ record'[held'[a]] = "pending"
      BY <1>10, <2>1 DEF CreateAdhoc, Go
    <3>3. \A r \in Records : record[r] # "absent" => record'[r] # "absent"
      BY <1>10, <2>1 DEF CreateAdhoc
    <3>4. \A b \in Actors : step[b] \notin {"rest", "decide", "create"} => held[b] \in Records
      BY HeldRecord
    <3>5. ASSUME NEW b \in Actors \ {a}
          PROVE  /\ step[b] \notin {"rest", "decide", "create"} => record'[held[b]] # "absent"
                 /\ step[b] = "decide" /\ held[b] \in Runbook => record'[held[b]] # "absent"
      BY <3>3, <3>4
    <3>6. ASSUME NEW b \in Actors
          PROVE  /\ step'[b] \notin {"rest", "decide", "create"} => record'[held'[b]] # "absent"
                 /\ step'[b] = "decide" /\ held'[b] \in Runbook => record'[held'[b]] # "absent"
      <4>1. CASE b = a
        BY <3>2, <4>1
      <4>2. CASE b # a
        BY <3>1, <3>5, <4>2
      <4> QED BY <4>1, <4>2
    <3> HIDE DEF Actors, Records
    <3> QED BY <3>6
  <2>9. AdhocRows'
    BY <1>10, <2>1 DEF CreateAdhoc, Go
  <2>10. DecidedAdhoc'
    BY <1>10, <2>1 DEF CreateAdhoc, Go
  <2> QED BY <2>5, <2>6, <2>7, <2>8, <2>9, <2>10
<1>11. ASSUME NEW a \in Admins, SettleAdhoc(a) PROVE Fresh'
  BY <1>11 DEF SettleAdhoc, Drop
<1>12. ASSUME NEW w \in Workers, NEW j \in Jobs, BeginJob(w, j) PROVE Fresh'
  BY <1>12 DEF BeginJob, TakeJob
<1>13. ASSUME NEW w \in Workers, NEW j \in Jobs, SweepJob(w, j) PROVE Fresh'
  BY <1>13 DEF SweepJob, ExpireJob
<1>14. ASSUME NEW a \in Actors, ClaimRecord(a) PROVE Fresh'
  BY <1>14 DEF ClaimRecord, Go, Write, PendingRow
<1>15. ASSUME NEW a \in Actors, ClaimLost(a) PROVE Fresh'
  BY <1>15 DEF ClaimLost, Go, See, AfterCommand, PendingRow
<1>16. ASSUME NEW a \in Actors, EvaluatePolicy(a) PROVE Fresh'
  BY <1>16 DEF EvaluatePolicy, Go, See
<1>17. ASSUME NEW a \in Actors, Attempt(a) PROVE Fresh'
  BY <1>17 DEF Attempt, Go, See, MoreAttempts
<1>18. ASSUME NEW a \in Actors, SaveRetry(a) PROVE Fresh'
  BY <1>18 DEF SaveRetry, Go, Write
<1>19. ASSUME NEW a \in Actors, SaveRecord(a) PROVE Fresh'
  BY <1>19 DEF SaveRecord, Go, Write, AfterCommand
<1>20. ASSUME NEW a \in Actors, Fault(a) PROVE Fresh'
  <2>1. /\ step[a] \in Unguarded
        /\ \A b \in Actors \ {a} :
             step'[b] = step[b] /\ held'[b] = held[b] /\ seen'[b] = seen[b]
        /\ \/ step'[a] = "rest" /\ held'[a] = NoTarget /\ a \notin Workers
           \/ step'[a] = "fault" /\ held'[a] = held[a] /\ a \in Workers
        /\ UNCHANGED <<jobVars, rowVars, history>>
    BY <1>20, FaultEffect DEF ActorTypeOK
  <2>2. JobRows' /\ RunbookRows' /\ RollbackRows'
    BY <2>1
  <2>3. HeldRows'
    BY <2>1 DEF Unguarded
  <2>4. AdhocRows'
    BY <2>1 DEF Unguarded
  <2>5. DecidedAdhoc'
    BY <2>1 DEF Unguarded
  <2> QED BY <2>2, <2>3, <2>4, <2>5
<1>21. ASSUME NEW w \in Workers, MarkFailure(w) PROVE Fresh'
  BY <1>21 DEF MarkFailure, Go, See, Write
<1>22. ASSUME NEW a \in Actors, Finalize(a) PROVE Fresh'
  BY <1>22 DEF Finalize, Finalizable, Return, Drop
<1>23. ASSUME NEW a \in Actors, SaveApproval(a) PROVE Fresh'
  BY <1>23 DEF SaveApproval, ClosedAs, Go
<1>24. ASSUME NEW a \in Actors, Verify(a) PROVE Fresh'
  BY <1>24 DEF Verify, Return, Drop
<1>25. ASSUME NEW a \in Actors, FindHealth(a) PROVE Fresh'
  BY <1>25 DEF FindHealth, NoHealthYet, Return, Drop
<1>26. ASSUME NEW a \in Actors, InsertHealth(a) PROVE Fresh'
  <2>1. held[a] \in Runbook /\ (RollbackOf[held[a]] # NoTarget => RollbackOf[held[a]] \in Runbook)
    BY <1>26, RollbackIsRunbook DEF InsertHealth
  <2>2. \A r \in Records : record[r] # "absent" => record'[r] = record[r]
    BY <1>26, InsertEffect
  <2>3. /\ \A b \in Actors \ {a} :
             step'[b] = step[b] /\ held'[b] = held[b] /\ tries'[b] = tries[b]
        /\ \/ step'[a] = "rest" /\ held'[a] = NoTarget /\ tries'[a] = 0
           \/ step'[a] = "done" /\ held'[a] = held[a]
    BY <1>26, ReturnEffect DEF InsertHealth, ActorTypeOK
  <2>4. \A b \in Actors : step[b] \notin {"rest", "decide", "create"} => held[b] \in Records
    BY HeldRecord
  <2>11. step[a] = "insert" /\ sessions' = sessions /\ granted' = granted
         /\ UNCHANGED jobVars
    BY <1>26 DEF InsertHealth
  <2>5. JobRows'
    BY <1>26, <2>1 DEF InsertHealth, NoHealthYet, Proposes, Return, Drop
  <2>6. RunbookRows'
    BY <1>26, <2>1 DEF InsertHealth, NoHealthYet, Proposes, Return, Drop
  <2>7. RollbackRows'
    BY <1>26, <2>1 DEF InsertHealth, NoHealthYet, Proposes, Return, Drop
  <2>8. HeldRows'
    BY <2>1, <2>2, <2>3, <2>4, <2>11
  <2>9. AdhocRows'
    BY <1>26, <2>1 DEF InsertHealth, NoHealthYet, Proposes, Return, Drop
  <2>10. DecidedAdhoc'
    BY <1>26, <2>1 DEF InsertHealth, NoHealthYet, Proposes, Return, Drop
  <2> QED BY <2>5, <2>6, <2>7, <2>8, <2>9, <2>10
<1>27. ASSUME NEW a \in Actors, InsertRefused(a) PROVE Fresh'
  BY <1>27 DEF InsertRefused, NoHealthYet, Drop, Die, Release
<1>28. ASSUME NEW w \in Workers, EndJob(w) PROVE Fresh'
  BY <1>28 DEF EndJob, CloseJob, Release, Drop
<1>29. ASSUME NEW w \in Workers, EndMark(w) PROVE Fresh'
  BY <1>29 DEF EndMark, EndMarking, Release, Drop
<1>30. ASSUME NEW w \in Workers, CrashWorker(w) PROVE Fresh'
  BY <1>30 DEF CrashWorker, Die, Release, Drop
<1>31. ASSUME NEW j \in Jobs, Timeout(j), UNCHANGED commandVars PROVE Fresh'
  BY <1>31 DEF Timeout, commandVars
<1>32. CASE UNCHANGED vars
  BY <1>32 DEF vars, commandVars
<1> QED
  BY <1>1, <1>2, <1>3, <1>4, <1>5, <1>6, <1>7, <1>8, <1>9, <1>10, <1>11, <1>12, <1>13, <1>14, <1>15, <1>16, <1>17, <1>18, <1>19, <1>20, <1>21, <1>22, <1>23, <1>24, <1>25, <1>26, <1>27, <1>28, <1>29, <1>30, <1>31, <1>32 DEF Next, Decide, Execute, Conclude, WorkerNext, Actors

\* A row is claimed by one executor, before any attempt was made for it.
LEMMA OnceStep ==
  TypeOK /\ Shape /\ Fresh /\ Once /\ [Next]_vars => Once'
<1> SUFFICES ASSUME TypeOK, Shape, Fresh, Once, [Next]_vars PROVE Once'
  OBVIOUS
<1> USE CommandAssumption, QueueAssumption, JobsArePositive DEF JobTypeOK, TypeOK, Shape, JobShape, WorkerShape, AdminShape, ActorShape, Actors, Records, Approvals, JobStatuses, Duties, Settled, RecordStatuses, Terminal, Decided, ApprovalStatuses, HealthStatuses, Executing, Steps, jobVars, rowVars, actorVars, history, Fresh, JobRows, RunbookRows, RollbackRows, HeldRows, AdhocRows, DecidedAdhoc, Once, CountedRows, CountedTries, SoleExecutor
<1>1. ASSUME NEW r \in Direct, SubmitCommand(r) PROVE Once'
  BY <1>1 DEF SubmitCommand
<1>2. ASSUME NEW r \in Direct, EnqueueCommand(r) PROVE Once'
  BY <1>2 DEF EnqueueCommand, Enqueue, commandVars
<1>3. ASSUME NEW p \in Adhoc, RequestApproval(p) PROVE Once'
  BY <1>3 DEF RequestApproval
<1>4. ASSUME NEW r \in Runbook, InitiateRunbook(r) PROVE Once'
  BY <1>4 DEF InitiateRunbook, RollbackRecords
<1>5. ASSUME NEW a \in Admins, NEW p \in Approvals, ReadApproval(a, p) PROVE Once'
  BY <1>5 DEF ReadApproval, Decidable
<1>6. ASSUME NEW a \in Admins, Reject(a) PROVE Once'
  BY <1>6 DEF Reject, Drop
<1>7. ASSUME NEW a \in Admins, Approve(a) PROVE Once'
  BY <1>7 DEF Approve, Go
<1>8. ASSUME NEW a \in Admins, LoadRecord(a) PROVE Once'
  BY <1>8 DEF LoadRecord, Go, See
<1>9. ASSUME NEW a \in Admins, EnqueueApproved(a) PROVE Once'
  BY <1>9 DEF EnqueueApproved, Go, Enqueue
<1>10. ASSUME NEW a \in Admins, CreateAdhoc(a) PROVE Once'
  <2>1. held[a] \in Adhoc /\ <<held[a], a>> \in Records /\ <<held[a], a>> \notin Targets
    BY <1>10 DEF CreateAdhoc, Go
  <2>5. CountedRows'
    BY <1>10, <2>1 DEF CreateAdhoc, Go
  <2>6. CountedTries'
    BY <1>10, <2>1 DEF CreateAdhoc, Go
  <2>7. SoleExecutor'
    BY <1>10, <2>1 DEF CreateAdhoc, Go
  <2> QED BY <2>5, <2>6, <2>7
<1>11. ASSUME NEW a \in Admins, SettleAdhoc(a) PROVE Once'
  BY <1>11 DEF SettleAdhoc, Drop
<1>12. ASSUME NEW w \in Workers, NEW j \in Jobs, BeginJob(w, j) PROVE Once'
  BY <1>12 DEF BeginJob, TakeJob
<1>13. ASSUME NEW w \in Workers, NEW j \in Jobs, SweepJob(w, j) PROVE Once'
  BY <1>13 DEF SweepJob, ExpireJob
<1>14. ASSUME NEW a \in Actors, ClaimRecord(a) PROVE Once'
  <2>1. held[a] \in Records
    BY <1>14, HeldRecord DEF ClaimRecord, Go
  <2>5. CountedRows'
    BY <1>14, <2>1 DEF ClaimRecord, Go, Write, PendingRow
  <2>6. CountedTries'
    BY <1>14, <2>1 DEF ClaimRecord, Go, Write, PendingRow
  <2>7. SoleExecutor'
    BY <1>14, <2>1 DEF ClaimRecord, Go, Write, PendingRow
  <2> QED BY <2>5, <2>6, <2>7
<1>15. ASSUME NEW a \in Actors, ClaimLost(a) PROVE Once'
  BY <1>15 DEF ClaimLost, Go, See, AfterCommand, PendingRow
<1>16. ASSUME NEW a \in Actors, EvaluatePolicy(a) PROVE Once'
  BY <1>16 DEF EvaluatePolicy, Go, See
<1>17. ASSUME NEW a \in Actors, Attempt(a) PROVE Once'
  <2>1. held[a] \in Records
    BY <1>17, HeldRecord DEF Attempt, Go
  <2>5. CountedRows'
    BY <1>17, <2>1 DEF Attempt, Go, See, MoreAttempts
  <2>6. CountedTries'
    BY <1>17, <2>1 DEF Attempt, Go, See, MoreAttempts
  <2>7. SoleExecutor'
    BY <1>17, <2>1 DEF Attempt, Go, See, MoreAttempts
  <2> QED BY <2>5, <2>6, <2>7
<1>18. ASSUME NEW a \in Actors, SaveRetry(a) PROVE Once'
  BY <1>18 DEF SaveRetry, Go, Write
<1>19. ASSUME NEW a \in Actors, SaveRecord(a) PROVE Once'
  BY <1>19 DEF SaveRecord, Go, Write, AfterCommand
<1>20. ASSUME NEW a \in Actors, Fault(a) PROVE Once'
  BY <1>20 DEF Fault, Unguarded, AfterFault, Drop
<1>21. ASSUME NEW w \in Workers, MarkFailure(w) PROVE Once'
  BY <1>21 DEF MarkFailure, Go, See, Write
<1>22. ASSUME NEW a \in Actors, Finalize(a) PROVE Once'
  BY <1>22 DEF Finalize, Finalizable, Return, Drop
<1>23. ASSUME NEW a \in Actors, SaveApproval(a) PROVE Once'
  BY <1>23 DEF SaveApproval, ClosedAs, Go
<1>24. ASSUME NEW a \in Actors, Verify(a) PROVE Once'
  BY <1>24 DEF Verify, Return, Drop
<1>25. ASSUME NEW a \in Actors, FindHealth(a) PROVE Once'
  BY <1>25 DEF FindHealth, NoHealthYet, Return, Drop
<1>26. ASSUME NEW a \in Actors, InsertHealth(a) PROVE Once'
  <2>1. held[a] \in Runbook /\ (RollbackOf[held[a]] # NoTarget => RollbackOf[held[a]] \in Runbook)
    BY <1>26, RollbackIsRunbook DEF InsertHealth
  <2>2. \A r \in Records : record[r] # "absent" => record'[r] = record[r]
    BY <1>26, InsertEffect
  <2>3. /\ \A b \in Actors \ {a} :
             step'[b] = step[b] /\ held'[b] = held[b] /\ tries'[b] = tries[b]
        /\ \/ step'[a] = "rest" /\ held'[a] = NoTarget /\ tries'[a] = 0
           \/ step'[a] = "done" /\ held'[a] = held[a]
    BY <1>26, ReturnEffect DEF InsertHealth, ActorTypeOK
  <2>4. \A b \in Actors : step[b] \notin {"rest", "decide", "create"} => held[b] \in Records
    BY HeldRecord
  <2>11. step[a] = "insert" /\ sessions' = sessions /\ granted' = granted
         /\ UNCHANGED jobVars
    BY <1>26 DEF InsertHealth
  <2>5. CountedRows'
    BY <2>2, <2>3, <2>4, <2>11
  <2>6. CountedTries'
    BY <2>2, <2>3, <2>4, <2>11
  <2>7. SoleExecutor'
    <3>1. \A b \in Actors : step'[b] \in Executing =>
            b # a /\ step[b] = step'[b] /\ held[b] = held'[b] /\ held[b] \in Records
      BY <2>3, <2>4
    <3>2. \A b \in Actors : step'[b] \in Executing =>
            record[held[b]] \notin {"absent", "pending"}
      BY <3>1
    <3>3. \A b \in Actors : step'[b] \in Executing =>
            record'[held'[b]] \notin {"absent", "pending"}
      BY <3>1, <3>2, <2>2
    <3>4. \A b, c \in Actors :
            step'[b] \in Executing /\ step'[c] \in Executing /\ b # c =>
              held'[b] # held'[c]
      BY <3>1
    <3> QED BY <3>3, <3>4
  <2> QED BY <2>5, <2>6, <2>7
<1>27. ASSUME NEW a \in Actors, InsertRefused(a) PROVE Once'
  BY <1>27 DEF InsertRefused, NoHealthYet, Drop, Die, Release
<1>28. ASSUME NEW w \in Workers, EndJob(w) PROVE Once'
  BY <1>28 DEF EndJob, CloseJob, Release, Drop
<1>29. ASSUME NEW w \in Workers, EndMark(w) PROVE Once'
  BY <1>29 DEF EndMark, EndMarking, Release, Drop
<1>30. ASSUME NEW w \in Workers, CrashWorker(w) PROVE Once'
  BY <1>30 DEF CrashWorker, Die, Release, Drop
<1>31. ASSUME NEW j \in Jobs, Timeout(j), UNCHANGED commandVars PROVE Once'
  BY <1>31 DEF Timeout, commandVars
<1>32. CASE UNCHANGED vars
  BY <1>32 DEF vars, commandVars
<1> QED
  BY <1>1, <1>2, <1>3, <1>4, <1>5, <1>6, <1>7, <1>8, <1>9, <1>10, <1>11, <1>12, <1>13, <1>14, <1>15, <1>16, <1>17, <1>18, <1>19, <1>20, <1>21, <1>22, <1>23, <1>24, <1>25, <1>26, <1>27, <1>28, <1>29, <1>30, <1>31, <1>32 DEF Next, Decide, Execute, Conclude, WorkerNext, Actors

\* What is enqueued or executed was approved before.
LEMMA TracedStep ==
  TypeOK /\ Shape /\ Fresh /\ Traced /\ [Next]_vars => Traced'
<1> SUFFICES ASSUME TypeOK, Shape, Fresh, Traced, [Next]_vars PROVE Traced'
  OBVIOUS
<1> USE CommandAssumption, QueueAssumption, JobsArePositive DEF JobTypeOK, TypeOK, Shape, JobShape, WorkerShape, AdminShape, ActorShape, Actors, Records, Approvals, JobStatuses, Duties, Settled, RecordStatuses, Terminal, Decided, ApprovalStatuses, HealthStatuses, Executing, Steps, jobVars, rowVars, actorVars, history, Traced, TracedJobs, TracedWorkers, TracedAdmins, OnlyGranted
<1>1. ASSUME NEW r \in Direct, SubmitCommand(r) PROVE Traced'
  BY <1>1 DEF SubmitCommand
<1>2. ASSUME NEW r \in Direct, EnqueueCommand(r) PROVE Traced'
  BY <1>2 DEF EnqueueCommand, Enqueue, commandVars
<1>3. ASSUME NEW p \in Adhoc, RequestApproval(p) PROVE Traced'
  BY <1>3 DEF RequestApproval
<1>4. ASSUME NEW r \in Runbook, InitiateRunbook(r) PROVE Traced'
  BY <1>4 DEF InitiateRunbook, RollbackRecords
<1>5. ASSUME NEW a \in Admins, NEW p \in Approvals, ReadApproval(a, p) PROVE Traced'
  BY <1>5 DEF ReadApproval, Decidable
<1>6. ASSUME NEW a \in Admins, Reject(a) PROVE Traced'
  BY <1>6 DEF Reject, Drop
<1>7. ASSUME NEW a \in Admins, Approve(a) PROVE Traced'
  BY <1>7 DEF Approve, Go
<1>8. ASSUME NEW a \in Admins, LoadRecord(a) PROVE Traced'
  BY <1>8 DEF LoadRecord, Go, See
<1>9. ASSUME NEW a \in Admins, EnqueueApproved(a) PROVE Traced'
  BY <1>9 DEF EnqueueApproved, Go, Enqueue
<1>10. ASSUME NEW a \in Admins, CreateAdhoc(a) PROVE Traced'
  BY <1>10 DEF CreateAdhoc, Go
<1>11. ASSUME NEW a \in Admins, SettleAdhoc(a) PROVE Traced'
  BY <1>11 DEF SettleAdhoc, Drop
<1>12. ASSUME NEW w \in Workers, NEW j \in Jobs, BeginJob(w, j) PROVE Traced'
  BY <1>12 DEF BeginJob, TakeJob
<1>13. ASSUME NEW w \in Workers, NEW j \in Jobs, SweepJob(w, j) PROVE Traced'
  BY <1>13 DEF SweepJob, ExpireJob
<1>14. ASSUME NEW a \in Actors, ClaimRecord(a) PROVE Traced'
  BY <1>14 DEF ClaimRecord, Go, Write, PendingRow
<1>15. ASSUME NEW a \in Actors, ClaimLost(a) PROVE Traced'
  BY <1>15 DEF ClaimLost, Go, See, AfterCommand, PendingRow
<1>16. ASSUME NEW a \in Actors, EvaluatePolicy(a) PROVE Traced'
  BY <1>16 DEF EvaluatePolicy, Go, See
<1>17. ASSUME NEW a \in Actors, Attempt(a) PROVE Traced'
  <2>1. held[a] \in Records
    BY <1>17, HeldRecord DEF Attempt, Go
  <2>5. TracedJobs'
    BY <1>17, <2>1 DEF Attempt, Go, See, MoreAttempts
  <2>6. TracedWorkers'
    BY <1>17, <2>1 DEF Attempt, Go, See, MoreAttempts
  <2>7. TracedAdmins'
    BY <1>17, <2>1 DEF Attempt, Go, See, MoreAttempts
  <2>8. OnlyGranted'
    <3>1. /\ UNCHANGED granted
          /\ \A r \in Records : r # held[a] => sessions'[r] = sessions[r]
      BY <1>17, <2>1 DEF Attempt
    <3>2. step[a] \in Executing
      BY <1>17 DEF Attempt
    <3>3. ASSUME NEW r \in Runbook, sessions'[r] > 0 PROVE r \in granted
      <4>1. CASE r = held[a]
        <5>1. CASE a \in Workers
          BY <3>2, <4>1, <5>1
        <5>2. CASE a \in Admins
          <6>1. PICK q \in Adhoc : held[a] = <<q, a>>
            BY <3>2, <5>2
          <6> QED BY <4>1, <5>2, <6>1
        <5> QED BY <5>1, <5>2
      <4>2. CASE r # held[a]
        BY <3>1, <3>3, <4>2
      <4> QED BY <4>1, <4>2
    <3>4. ASSUME NEW p \in Adhoc, NEW b \in Admins, sessions'[<<p, b>>] > 0
          PROVE  p \in granted
      <4>1. <<p, b>> \in Adhoc \X Admins
        OBVIOUS
      <4>2. CASE <<p, b>> = held[a]
        <5>1. a \in Admins
          BY <3>2, <4>1, <4>2
        <5>2. PICK q \in Adhoc : held[a] = <<q, a>>
          BY <3>2, <5>1
        <5> QED BY <3>2, <4>2, <5>1, <5>2
      <4>3. CASE <<p, b>> # held[a]
        BY <3>1, <3>4, <4>1, <4>3
      <4> QED BY <4>2, <4>3
    <3> QED BY <3>1, <3>3, <3>4
  <2> QED BY <2>5, <2>6, <2>7, <2>8
<1>18. ASSUME NEW a \in Actors, SaveRetry(a) PROVE Traced'
  BY <1>18 DEF SaveRetry, Go, Write
<1>19. ASSUME NEW a \in Actors, SaveRecord(a) PROVE Traced'
  BY <1>19 DEF SaveRecord, Go, Write, AfterCommand
<1>20. ASSUME NEW a \in Actors, Fault(a) PROVE Traced'
  <2>1. /\ step[a] \in Unguarded
        /\ \A b \in Actors \ {a} :
             step'[b] = step[b] /\ held'[b] = held[b] /\ seen'[b] = seen[b]
        /\ \/ step'[a] = "rest" /\ held'[a] = NoTarget /\ a \notin Workers
           \/ step'[a] = "fault" /\ held'[a] = held[a] /\ a \in Workers
        /\ UNCHANGED <<jobVars, rowVars, history>>
    BY <1>20, FaultEffect DEF ActorTypeOK
  <2>5. TracedJobs'
    BY <2>1
  <2>6. TracedWorkers'
    BY <2>1
  <2>7. TracedAdmins'
    BY <2>1
  <2>8. OnlyGranted'
    BY <2>1
  <2> QED BY <2>5, <2>6, <2>7, <2>8
<1>21. ASSUME NEW w \in Workers, MarkFailure(w) PROVE Traced'
  BY <1>21 DEF MarkFailure, Go, See, Write
<1>22. ASSUME NEW a \in Actors, Finalize(a) PROVE Traced'
  <2>1. /\ \A b \in Actors \ {a} : step'[b] = step[b] /\ held'[b] = held[b]
        /\ \/ step'[a] = "rest" /\ held'[a] = NoTarget
           \/ step'[a] \in {"done", "finalize", "verify"} /\ held'[a] = held[a]
    BY <1>22, ReturnEffect DEF Finalize, ActorTypeOK
  <2>2. /\ UNCHANGED jobTarget /\ sessions' = sessions /\ granted' = granted
        /\ step[a] = "final"
    BY <1>22 DEF Finalize
  <2>5. TracedJobs'
    BY <2>2
  <2>6. TracedWorkers'
    BY <2>1, <2>2
  <2>7. TracedAdmins'
    BY <2>1, <2>2
  <2>8. OnlyGranted'
    BY <2>2
  <2> QED BY <2>5, <2>6, <2>7, <2>8
<1>23. ASSUME NEW a \in Actors, SaveApproval(a) PROVE Traced'
  BY <1>23 DEF SaveApproval, ClosedAs, Go
<1>24. ASSUME NEW a \in Actors, Verify(a) PROVE Traced'
  <2>1. /\ \A b \in Actors \ {a} : step'[b] = step[b] /\ held'[b] = held[b]
        /\ \/ step'[a] = "rest" /\ held'[a] = NoTarget
           \/ step'[a] \in {"done", "existing"} /\ held'[a] = held[a]
    BY <1>24, ReturnEffect DEF Verify, ActorTypeOK
  <2>2. /\ UNCHANGED jobTarget /\ sessions' = sessions /\ granted' = granted
        /\ step[a] = "verify"
    BY <1>24 DEF Verify
  <2>5. TracedJobs'
    BY <2>2
  <2>6. TracedWorkers'
    BY <2>1, <2>2
  <2>7. TracedAdmins'
    BY <2>1, <2>2
  <2>8. OnlyGranted'
    BY <2>2
  <2> QED BY <2>5, <2>6, <2>7, <2>8
<1>25. ASSUME NEW a \in Actors, FindHealth(a) PROVE Traced'
  <2>5. TracedJobs'
    BY <1>25 DEF FindHealth, NoHealthYet, Return, Drop
  <2>6. TracedWorkers'
    BY <1>25 DEF FindHealth, NoHealthYet, Return, Drop
  <2>7. TracedAdmins'
    BY <1>25 DEF FindHealth, NoHealthYet, Return, Drop
  <2>8. OnlyGranted'
    BY <1>25 DEF FindHealth, NoHealthYet, Return, Drop
  <2> QED BY <2>5, <2>6, <2>7, <2>8
<1>26. ASSUME NEW a \in Actors, InsertHealth(a) PROVE Traced'
  <2>1. held[a] \in Runbook /\ (RollbackOf[held[a]] # NoTarget => RollbackOf[held[a]] \in Runbook)
    BY <1>26, RollbackIsRunbook DEF InsertHealth
  <2>2. \A r \in Records : record[r] # "absent" => record'[r] = record[r]
    BY <1>26, InsertEffect
  <2>3. /\ \A b \in Actors \ {a} :
             step'[b] = step[b] /\ held'[b] = held[b] /\ tries'[b] = tries[b]
        /\ \/ step'[a] = "rest" /\ held'[a] = NoTarget /\ tries'[a] = 0
           \/ step'[a] = "done" /\ held'[a] = held[a]
    BY <1>26, ReturnEffect DEF InsertHealth, ActorTypeOK
  <2>4. \A b \in Actors : step[b] \notin {"rest", "decide", "create"} => held[b] \in Records
    BY HeldRecord
  <2>11. step[a] = "insert" /\ sessions' = sessions /\ granted' = granted
         /\ UNCHANGED jobVars
    BY <1>26 DEF InsertHealth
  <2>5. TracedJobs'
    BY <2>11
  <2>6. TracedWorkers'
    <3>1. \A b \in Actors : held'[b] = held[b] \/ held'[b] = NoTarget
      BY <2>3
    <3>2. NoTarget \notin Runbook
      OBVIOUS
    <3> QED BY <2>11, <3>1, <3>2
  <2>7. TracedAdmins'
    BY <2>1, <2>3, <2>11
  <2>8. OnlyGranted'
    BY <2>1, <2>3, <2>11
  <2> QED BY <2>5, <2>6, <2>7, <2>8
<1>27. ASSUME NEW a \in Actors, InsertRefused(a) PROVE Traced'
  BY <1>27 DEF InsertRefused, NoHealthYet, Drop, Die, Release
<1>28. ASSUME NEW w \in Workers, EndJob(w) PROVE Traced'
  BY <1>28 DEF EndJob, CloseJob, Release, Drop
<1>29. ASSUME NEW w \in Workers, EndMark(w) PROVE Traced'
  BY <1>29 DEF EndMark, EndMarking, Release, Drop
<1>30. ASSUME NEW w \in Workers, CrashWorker(w) PROVE Traced'
  BY <1>30 DEF CrashWorker, Die, Release, Drop
<1>31. ASSUME NEW j \in Jobs, Timeout(j), UNCHANGED commandVars PROVE Traced'
  BY <1>31 DEF Timeout, commandVars
<1>32. CASE UNCHANGED vars
  BY <1>32 DEF vars, commandVars
<1> QED
  BY <1>1, <1>2, <1>3, <1>4, <1>5, <1>6, <1>7, <1>8, <1>9, <1>10, <1>11, <1>12, <1>13, <1>14, <1>15, <1>16, <1>17, <1>18, <1>19, <1>20, <1>21, <1>22, <1>23, <1>24, <1>25, <1>26, <1>27, <1>28, <1>29, <1>30, <1>31, <1>32 DEF Next, Decide, Execute, Conclude, WorkerNext, Actors

-----------------------------------------------------------------------------
\* Before anything is submitted the invariant holds.
LEMMA InvInit == Init => Inv
<1> SUFFICES ASSUME Init PROVE Inv
  OBVIOUS
<1> USE CommandAssumption, JobsArePositive DEF Init, JobInit, CommandInit, Actors, Records, Approvals
<1>1. TypeOK
  BY DEF TypeOK, JobTypeOK, JobStatuses, Duties, RecordStatuses, ApprovalStatuses,
         HealthStatuses, Steps
<1>2. Shape
  BY DEF Shape, JobShape, WorkerShape, AdminShape, ActorShape, Executing
<1>3. Fresh
  BY DEF Fresh, JobRows, RunbookRows, RollbackRows, HeldRows, AdhocRows, DecidedAdhoc
<1>4. Once
  BY DEF Once, CountedRows, CountedTries, SoleExecutor, Executing
<1>5. Traced
  BY QueueAssumption DEF Traced, TracedJobs, TracedWorkers, TracedAdmins, OnlyGranted, Executing
<1> QED BY <1>1, <1>2, <1>3, <1>4, <1>5 DEF Inv

\* The invariant is inductive.
THEOREM CommandInvariant == Safety => []Inv
<1>1. Inv /\ [Next]_vars => Inv'
  BY TypeStep, ShapeStep, FreshStep, OnceStep, TracedStep DEF Inv
<1> QED BY InvInit, <1>1, PTL DEF Safety

\* Every row and every actor stays within its statuses (CommandExecution and
\* ApprovalRequest choices, the steps of the service functions).
THEOREM TypeCorrect == Safety => []TypeOK
<1>1. Inv => TypeOK
  BY DEF Inv
<1> QED BY CommandInvariant, <1>1, PTL

\* However often a command is enqueued, swept, or crashed on, it is attempted at most
\* Retries + 1 times: claim_pending_work lets one execution through for a row.
THEOREM NothingReplayed == Safety => []NoReplay
<1>1. Inv => NoReplay
  BY DEF Inv, Once, CountedRows, NoReplay
<1> QED BY CommandInvariant, <1>1, PTL

\* Two actors never execute the same row, and a row being executed is never pending.
THEOREM ExecutorIsSole == Safety => []SoleExecutor
<1>1. Inv => SoleExecutor
  BY DEF Inv, Once
<1> QED BY CommandInvariant, <1>1, PTL

\* No runbook and no denied command reaches a host that no administrator approved.
THEOREM ExecutionIsGranted == Safety => []OnlyGranted
<1>1. Inv => OnlyGranted
  BY DEF Inv, Traced
<1> QED BY CommandInvariant, <1>1, PTL
-----------------------------------------------------------------------------
\* What a command asks of the queue is what the queue promises: the queue's part of every
\* step is a step of WorkQueue, or none.
LEMMA QueueStep ==
  ASSUME Shape, [Next]_vars
  PROVE  JobNext \/ UNCHANGED jobVars
<1> USE DEF commandVars
<1>1. ASSUME NEW r \in Direct, SubmitCommand(r) PROVE JobNext \/ UNCHANGED jobVars
  BY <1>1 DEF SubmitCommand
<1>2. ASSUME NEW r \in Direct, EnqueueCommand(r) PROVE JobNext \/ UNCHANGED jobVars
  BY <1>2, CommandAssumption DEF EnqueueCommand, JobNext
<1>3. ASSUME NEW p \in Adhoc, RequestApproval(p) PROVE JobNext \/ UNCHANGED jobVars
  BY <1>3 DEF RequestApproval
<1>4. ASSUME NEW r \in Runbook, InitiateRunbook(r) PROVE JobNext \/ UNCHANGED jobVars
  BY <1>4 DEF InitiateRunbook
<1>5. ASSUME NEW a \in Admins, NEW p \in Approvals, ReadApproval(a, p) PROVE JobNext \/ UNCHANGED
     jobVars
  BY <1>5 DEF ReadApproval
<1>6. ASSUME NEW a \in Admins, Reject(a) PROVE JobNext \/ UNCHANGED jobVars
  BY <1>6 DEF Reject
<1>7. ASSUME NEW a \in Admins, Approve(a) PROVE JobNext \/ UNCHANGED jobVars
  BY <1>7 DEF Approve
<1>8. ASSUME NEW a \in Admins, LoadRecord(a) PROVE JobNext \/ UNCHANGED jobVars
  BY <1>8 DEF LoadRecord
<1>9. ASSUME NEW a \in Admins, EnqueueApproved(a) PROVE JobNext \/ UNCHANGED jobVars
  <2>1. held[a] \in Targets
    BY <1>9, CommandAssumption DEF EnqueueApproved, Go, Shape, AdminShape
  <2> QED BY <1>9, <2>1 DEF EnqueueApproved, JobNext
<1>10. ASSUME NEW a \in Admins, CreateAdhoc(a) PROVE JobNext \/ UNCHANGED jobVars
  BY <1>10 DEF CreateAdhoc
<1>11. ASSUME NEW a \in Admins, SettleAdhoc(a) PROVE JobNext \/ UNCHANGED jobVars
  BY <1>11 DEF SettleAdhoc
<1>12. ASSUME NEW w \in Workers, NEW j \in Jobs, BeginJob(w, j) PROVE JobNext \/ UNCHANGED jobVars
  BY <1>12 DEF BeginJob, JobNext, Serve
<1>13. ASSUME NEW w \in Workers, NEW j \in Jobs, SweepJob(w, j) PROVE JobNext \/ UNCHANGED jobVars
  BY <1>13 DEF SweepJob, JobNext, Serve
<1>14. ASSUME NEW a \in Actors, ClaimRecord(a) PROVE JobNext \/ UNCHANGED jobVars
  BY <1>14 DEF ClaimRecord
<1>15. ASSUME NEW a \in Actors, ClaimLost(a) PROVE JobNext \/ UNCHANGED jobVars
  BY <1>15 DEF ClaimLost
<1>16. ASSUME NEW a \in Actors, EvaluatePolicy(a) PROVE JobNext \/ UNCHANGED jobVars
  BY <1>16 DEF EvaluatePolicy
<1>17. ASSUME NEW a \in Actors, Attempt(a) PROVE JobNext \/ UNCHANGED jobVars
  BY <1>17 DEF Attempt
<1>18. ASSUME NEW a \in Actors, SaveRetry(a) PROVE JobNext \/ UNCHANGED jobVars
  BY <1>18 DEF SaveRetry
<1>19. ASSUME NEW a \in Actors, SaveRecord(a) PROVE JobNext \/ UNCHANGED jobVars
  BY <1>19 DEF SaveRecord
<1>20. ASSUME NEW a \in Actors, Fault(a) PROVE JobNext \/ UNCHANGED jobVars
  BY <1>20 DEF Fault
<1>21. ASSUME NEW w \in Workers, MarkFailure(w) PROVE JobNext \/ UNCHANGED jobVars
  BY <1>21 DEF MarkFailure
<1>22. ASSUME NEW a \in Actors, Finalize(a) PROVE JobNext \/ UNCHANGED jobVars
  BY <1>22 DEF Finalize
<1>23. ASSUME NEW a \in Actors, SaveApproval(a) PROVE JobNext \/ UNCHANGED jobVars
  BY <1>23 DEF SaveApproval
<1>24. ASSUME NEW a \in Actors, Verify(a) PROVE JobNext \/ UNCHANGED jobVars
  BY <1>24 DEF Verify
<1>25. ASSUME NEW a \in Actors, FindHealth(a) PROVE JobNext \/ UNCHANGED jobVars
  BY <1>25 DEF FindHealth
<1>26. ASSUME NEW a \in Actors, InsertHealth(a) PROVE JobNext \/ UNCHANGED jobVars
  BY <1>26 DEF InsertHealth
<1>27. ASSUME NEW a \in Actors, InsertRefused(a) PROVE JobNext \/ UNCHANGED jobVars
  BY <1>27 DEF InsertRefused, JobNext
<1>28. ASSUME NEW w \in Workers, EndJob(w) PROVE JobNext \/ UNCHANGED jobVars
  BY <1>28 DEF EndJob, JobNext, Serve, Settled
<1>29. ASSUME NEW w \in Workers, EndMark(w) PROVE JobNext \/ UNCHANGED jobVars
  BY <1>29 DEF EndMark, JobNext, Serve
<1>30. ASSUME NEW w \in Workers, CrashWorker(w) PROVE JobNext \/ UNCHANGED jobVars
  BY <1>30 DEF CrashWorker, JobNext
<1>31. ASSUME NEW j \in Jobs, Timeout(j) PROVE JobNext \/ UNCHANGED jobVars
  BY <1>31 DEF JobNext
<1>32. CASE UNCHANGED vars
  BY <1>32 DEF vars
<1> QED
  BY <1>1, <1>2, <1>3, <1>4, <1>5, <1>6, <1>7, <1>8, <1>9, <1>10, <1>11, <1>12, <1>13, <1>14, <1>15,
     <1>16, <1>17, <1>18, <1>19, <1>20, <1>21, <1>22, <1>23, <1>24, <1>25, <1>26, <1>27, <1>28,
     <1>29, <1>30, <1>31, <1>32
  DEF Next, Decide, Execute, Conclude, WorkerNext, Actors

\* Commands use the background queue as WorkQueue promises it, which JobQueue implements:
\* the queue's part of every behaviour is a behaviour of WorkQueue.
THEOREM CommandsUseTheQueue == Safety => JobSafety
<1>1. Init => JobInit
  BY DEF Init
<1>2. Inv /\ [Next]_vars => [JobNext]_jobVars
  BY QueueStep DEF Inv
<1> QED BY <1>1, <1>2, CommandInvariant, PTL DEF Safety, JobSafety
=============================================================================
