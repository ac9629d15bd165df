---------------------------- MODULE CommandWork ----------------------------
(***************************************************************************)
(* Remote commands: the CommandExecution rows, the workers that execute     *)
(* them for the queue, the sweep that fails expired ones, the approvals of  *)
(* runbooks and of denied commands, and the health check that may propose a *)
(* rollback runbook.                                                        *)
(*                                                                         *)
(* A worker and an administrator's request run the same service functions,  *)
(* so both are actors with a program counter (step), a row in hand (held),  *)
(* and the status of the Python object they hold (seen), which goes stale.  *)
(***************************************************************************)
EXTENDS WorkQueue

CONSTANTS
  Admins,        \* requests that decide approvals
  Direct,        \* commands submitted and enqueued without approval
  Runbook,       \* runbook commands, each with its approval
  Adhoc,         \* approvals of denied commands, which have no row yet
  Requester,     \* who asked for each approval
  RollbackOf,    \* the eligible rollback runbook of a runbook, or NoTarget
  Retries,       \* DEVOPS_TASK_RETRY_COUNT
  MaxCrashes     \* bound: worker crashes

ASSUME CommandAssumption ==
  /\ Targets = Direct \cup Runbook
  /\ Retries \in Nat
  /\ MaxCrashes \in Nat
  /\ RollbackOf \in [Runbook -> Runbook \cup {NoTarget}]
  /\ \A r, s \in Runbook : RollbackOf[r] = RollbackOf[s] /\ RollbackOf[r] # NoTarget => r = s
  /\ Workers \cap Admins = {}
  /\ Targets \cap (Adhoc \X Admins) = {}
  /\ Targets \cap Adhoc = {} /\ Direct \cap Runbook = {}
  /\ NoTarget \notin Adhoc \cup (Adhoc \X Admins)

Actors == Workers \cup Admins
Approvals == Runbook \cup Adhoc
\* Approving a command that has no row makes one for the request that approves it.
Records == Targets \cup (Adhoc \X Admins)
RollbackRecords == {RollbackOf[r] : r \in Runbook} \ {NoTarget}

VARIABLES
  record,        \* CommandExecution.status, "absent" before the INSERT
  approval,      \* ApprovalRequest.status, "none" before the INSERT
  health,        \* RunbookHealthVerification.status of a runbook command
  step,          \* what each actor does next
  held,          \* the row each actor has in hand
  seen,          \* the status of that row in the actor's memory
  tries,         \* SSH attempts of the loop the actor is in
  faulted,       \* workers whose job ended with an exception
  crashes,
  sessions,      \* history: SSH attempts made for each row, by anyone
  granted        \* history: approvals some administrator approved

rowVars == <<record, approval, health>>
actorVars == <<step, held, seen, tries, faulted>>
history == <<sessions, granted>>
commandVars == <<rowVars, actorVars, crashes, history>>
vars == <<jobVars, commandVars>>

Terminal == {"success", "failed", "blocked"}
RecordStatuses == {"absent", "pending", "running"} \cup Terminal
Decided == {"approved", "rejected", "executed", "failed"}
ApprovalStatuses == {"none", "pending"} \cup Decided
HealthStatuses == {"none", "healthy", "unhealthy"}
Executing == {"policy", "attempt", "retry", "store"}
Steps == {"rest", "claim", "fault", "final", "finalize", "verify", "existing", "insert", "done",
          "decide", "load", "enqueue", "create", "settle"} \cup Executing

TypeOK ==
  /\ JobTypeOK
  /\ record \in [Records -> RecordStatuses]
  /\ approval \in [Approvals -> ApprovalStatuses]
  /\ health \in [Runbook -> HealthStatuses]
  /\ step \in [Actors -> Steps]
  /\ held \in [Actors -> Records \cup Approvals \cup {NoTarget}]
  /\ seen \in [Actors -> RecordStatuses]
  /\ tries \in [Actors -> Nat]
  /\ faulted \in [Workers -> BOOLEAN]
  /\ crashes \in Nat
  /\ sessions \in [Records -> Nat]
  /\ granted \subseteq Approvals

CommandInit ==
  /\ record = [r \in Records |-> "absent"]
  /\ approval = [p \in Approvals |-> "none"]
  /\ health = [r \in Runbook |-> "none"]
  /\ step = [a \in Actors |-> "rest"]
  /\ held = [a \in Actors |-> NoTarget]
  /\ seen = [a \in Actors |-> "absent"]
  /\ tries = [a \in Actors |-> 0]
  /\ faulted = [w \in Workers |-> FALSE]
  /\ crashes = 0
  /\ sessions = [r \in Records |-> 0]
  /\ granted = {}

Init == JobInit /\ CommandInit

-----------------------------------------------------------------------------
(* Moves of one actor. *)
Go(a, from, to) == step[a] = from /\ step' = [step EXCEPT ![a] = to]
See(a, s) == seen' = [seen EXCEPT ![a] = s]
Write(a, s) == record' = [record EXCEPT ![held[a]] = s]

\* The actor forgets what it held.
Drop(a) ==
  /\ step' = [step EXCEPT ![a] = "rest"]
  /\ held' = [held EXCEPT ![a] = NoTarget]
  /\ seen' = [seen EXCEPT ![a] = "absent"]
  /\ tries' = [tries EXCEPT ![a] = 0]
  /\ faulted' = IF a \in Workers THEN [faulted EXCEPT ![a] = FALSE] ELSE faulted

\* A service function returns to its caller: the worker goes on with its job or
\* its sweep, the request is answered.
Return(a) ==
  IF a \in Workers
  THEN step' = [step EXCEPT ![a] = "done"] /\ UNCHANGED <<held, seen, tries, faulted>>
  ELSE Drop(a)

-----------------------------------------------------------------------------
(* Requests that create work. *)

\* command_center: the command is allowed; its row is created, and only then enqueued.
SubmitCommand(r) ==
  /\ r \in Direct
  /\ record[r] = "absent"
  /\ record' = [record EXCEPT ![r] = "pending"]
  /\ UNCHANGED <<jobVars, approval, health, actorVars, crashes, history>>

EnqueueCommand(r) ==
  /\ r \in Direct
  /\ record[r] # "absent"
  /\ \A j \in Jobs : jobTarget[j] # r
  /\ \E j \in Jobs : Enqueue(j, r)
  /\ UNCHANGED commandVars

\* The command is denied by policy: an approval without a row.
RequestApproval(p) ==
  /\ p \in Adhoc
  /\ approval[p] = "none"
  /\ approval' = [approval EXCEPT ![p] = "pending"]
  /\ UNCHANGED <<jobVars, record, health, actorVars, crashes, history>>

\* A runbook is initiated: its row, and the approval that points at it.
MutInitiateRunbook(r) ==
  /\ r \in Runbook \ RollbackRecords
  /\ record[r] = "absent"
  /\ record' = [record EXCEPT ![r] = "pending"]
  /\ approval' = [approval EXCEPT ![r] = "pending"]
  /\ \E j \in Jobs : Enqueue(j, r)
  /\ UNCHANGED <<health, actorVars, crashes, history>>

InitiateRunbook(r) ==
  /\ r \in Runbook \ RollbackRecords
  /\ record[r] = "absent"
  /\ record' = [record EXCEPT ![r] = "pending"]
  /\ approval' = [approval EXCEPT ![r] = "pending"]
  /\ UNCHANGED <<jobVars, health, actorVars, crashes, history>>

-----------------------------------------------------------------------------
(* approval_decide: read the approval, check it, save the decision.  Nothing  *)
(* locks the row between the read and the save.                               *)

Decidable(a, p) == approval[p] = "pending" /\ a # Requester[p]

ReadApproval(a, p) ==
  /\ step[a] = "rest"
  /\ Decidable(a, p)
  /\ step' = [step EXCEPT ![a] = "decide"]
  /\ held' = [held EXCEPT ![a] = p]
  /\ UNCHANGED <<jobVars, rowVars, seen, tries, faulted, crashes, history>>

Reject(a) ==
  /\ step[a] = "decide"
  /\ approval' = [approval EXCEPT ![held[a]] = "rejected"]
  /\ Drop(a)
  /\ UNCHANGED <<jobVars, record, health, crashes, history>>

Approve(a) ==
  /\ Go(a, "decide", IF held[a] \in Runbook THEN "load" ELSE "create")
  /\ approval' = [approval EXCEPT ![held[a]] = "approved"]
  /\ granted' = granted \cup {held[a]}
  /\ UNCHANGED <<jobVars, record, health, held, seen, tries, faulted, crashes, sessions>>

\* execute_approval_request for a runbook: fetch the row, enqueue it, and finalise
\* with the status it had when it was fetched.
LoadRecord(a) ==
  /\ Go(a, "load", "enqueue")
  /\ See(a, record[held[a]])
  /\ UNCHANGED <<jobVars, rowVars, held, tries, faulted, crashes, history>>

EnqueueApproved(a) ==
  /\ Go(a, "enqueue", "final")
  /\ \E j \in Jobs : Enqueue(j, held[a])
  /\ UNCHANGED <<rowVars, held, seen, tries, faulted, crashes, history>>

\* execute_approval_request for a denied command: create a row and execute it in
\* the request itself.
CreateAdhoc(a) ==
  LET r == <<held[a], a>> IN
  /\ Go(a, "create", "claim")
  /\ record' = [record EXCEPT ![r] = "pending"]
  /\ held' = [held EXCEPT ![a] = r]
  /\ UNCHANGED <<jobVars, approval, health, seen, tries, faulted, crashes, history>>

SettleAdhoc(a) ==
  /\ step[a] = "settle"
  /\ approval' = [approval EXCEPT ![held[a][1]] =
                    IF seen[a] = "failed" THEN "failed" ELSE "executed"]
  /\ Drop(a)
  /\ UNCHANGED <<jobVars, record, health, crashes, history>>

-----------------------------------------------------------------------------
(* execute_command_record, by a worker or by the request of a denied command. *)

\* process_background_job hands the claimed job's row to execute_command_record.
BeginJob(w, j) ==
  /\ TakeJob(w, j)
  /\ step' = [step EXCEPT ![w] = "claim"]
  /\ held' = [held EXCEPT ![w] = jobTarget[j]]
  /\ UNCHANGED <<rowVars, seen, tries, faulted, crashes, history>>

MutPendingRow(r) == record[r] \in {"pending", "running"}
PendingRow(r) == record[r] = "pending"

ClaimRecord(a) ==
  /\ Go(a, "claim", "policy")
  /\ PendingRow(held[a])
  /\ Write(a, "running")
  /\ UNCHANGED <<jobVars, approval, health, held, seen, tries, faulted, crashes, history>>

\* Where execute_command_record returns to: the worker's job, or the request.
AfterCommand(a) == IF a \in Workers THEN "final" ELSE "settle"

\* Somebody else claimed it: return with the refreshed status.
ClaimLost(a) ==
  /\ Go(a, "claim", AfterCommand(a))
  /\ ~PendingRow(held[a])
  /\ See(a, record[held[a]])
  /\ UNCHANGED <<jobVars, rowVars, held, tries, faulted, crashes, history>>

EvaluatePolicy(a) ==
  /\ step[a] = "policy"
  /\ \/ Go(a, "policy", "attempt") /\ UNCHANGED seen
     \/ Go(a, "policy", "store") /\ See(a, "blocked")
  /\ UNCHANGED <<jobVars, rowVars, held, tries, faulted, crashes, history>>

MoreAttempts(n) == n < Retries + 1

\* One SSH attempt: the command runs, or the connection fails.
Attempt(a) ==
  LET n == tries[a] + 1 IN
  /\ step[a] = "attempt"
  /\ tries' = [tries EXCEPT ![a] = n]
  /\ sessions' = [sessions EXCEPT ![held[a]] = @ + 1]
  /\ \/ Go(a, "attempt", "store") /\ See(a, "success")
     \/ Go(a, "attempt", IF MoreAttempts(n) THEN "retry" ELSE "store") /\ See(a, "failed")
  /\ UNCHANGED <<jobVars, rowVars, held, faulted, crashes, granted>>

\* Between attempts the failure is saved, status included.
SaveRetry(a) ==
  /\ Go(a, "retry", "attempt")
  /\ Write(a, seen[a])
  /\ UNCHANGED <<jobVars, approval, health, held, seen, tries, faulted, crashes, history>>

\* record.save(): the whole object, whatever the row holds by now.
SaveRecord(a) ==
  /\ Go(a, "store", AfterCommand(a))
  /\ Write(a, seen[a])
  /\ UNCHANGED <<jobVars, approval, health, held, seen, tries, faulted, crashes, history>>

\* The statements of execute_command_record outside its SSH try block.
MutUnguarded == {"claim", "final"} \cup (Executing \ {"attempt"})
Unguarded == {"claim"} \cup (Executing \ {"attempt"})

\* What the except clause of process_background_job does first.
MutAfterFault == "done"
AfterFault == "fault"

\* A statement raises (the database is locked or gone): a worker marks the failure,
\* a request answers 500 and leaves everything as it is.
Fault(a) ==
  /\ step[a] \in Unguarded
  /\ IF a \in Workers
     THEN /\ step' = [step EXCEPT ![a] = AfterFault]
          /\ faulted' = [faulted EXCEPT ![a] = TRUE]
          /\ UNCHANGED <<held, seen, tries>>
     ELSE Drop(a)
  /\ UNCHANGED <<jobVars, rowVars, crashes, history>>

-----------------------------------------------------------------------------
(* The sweep, and what follows a job. *)

SweepJob(w, j) ==
  /\ ExpireJob(w, j)
  /\ step' = [step EXCEPT ![w] = "fault"]
  /\ held' = [held EXCEPT ![w] = jobTarget[j]]
  /\ UNCHANGED <<rowVars, seen, tries, faulted, crashes, history>>

\* mark_background_failure: the row fails, whatever it was.
MutMarkFailure(w) ==
  /\ Go(w, "fault", "final")
  /\ See(w, "failed")
  /\ UNCHANGED <<jobVars, rowVars, held, tries, faulted, crashes, history>>

MarkFailure(w) ==
  /\ Go(w, "fault", "final")
  /\ Write(w, "failed")
  /\ See(w, "failed")
  /\ UNCHANGED <<jobVars, approval, health, held, tries, faulted, crashes, history>>

\* finalize_command_approval with the object in hand.
Finalizable(r, s) == r \in Runbook /\ s \in Terminal

Finalize(a) ==
  /\ step[a] = "final"
  /\ IF Finalizable(held[a], seen[a])
     THEN /\ step' = [step EXCEPT ![a] = IF approval[held[a]] = "approved"
                                         THEN "finalize" ELSE "verify"]
          /\ UNCHANGED <<held, seen, tries, faulted>>
     ELSE Return(a)
  /\ UNCHANGED <<jobVars, rowVars, crashes, history>>

ClosedAs(s) == IF s = "success" THEN "executed" ELSE "failed"

SaveApproval(a) ==
  /\ Go(a, "finalize", "verify")
  /\ approval' = [approval EXCEPT ![held[a]] = ClosedAs(seen[a])]
  /\ UNCHANGED <<jobVars, record, health, held, seen, tries, faulted, crashes, history>>

\* verify_runbook_execution_health: not before an approval of the row is closed.
Verify(a) ==
  /\ step[a] = "verify"
  /\ IF approval[held[a]] \in {"executed", "failed"}
     THEN step' = [step EXCEPT ![a] = "existing"] /\ UNCHANGED <<held, seen, tries, faulted>>
     ELSE Return(a)
  /\ UNCHANGED <<jobVars, rowVars, crashes, history>>

\* Its transaction first looks for evidence already there.
MutNoHealthYet(r) == r \in Runbook
NoHealthYet(r) == health[r] = "none"

FindHealth(a) ==
  /\ step[a] = "existing"
  /\ IF NoHealthYet(held[a])
     THEN step' = [step EXCEPT ![a] = "insert"] /\ UNCHANGED <<held, seen, tries, faulted>>
     ELSE Return(a)
  /\ UNCHANGED <<jobVars, rowVars, crashes, history>>

MutProposes(r, h) == RollbackOf[r] # NoTarget
Proposes(r, h) == RollbackOf[r] # NoTarget /\ h = "unhealthy"

\* The rest of its transaction: the evidence and, when unhealthy, a rollback runbook
\* that waits for an approval of its own.
InsertHealth(a) ==
  LET r == held[a]  rollback == RollbackOf[r] IN
  /\ step[a] = "insert"
  /\ NoHealthYet(r)
  /\ \E h \in {"healthy", "unhealthy"} :
       /\ health' = [health EXCEPT ![r] = h]
       /\ IF Proposes(r, h)
          THEN /\ record' = [record EXCEPT ![rollback] = "pending"]
               /\ approval' = [approval EXCEPT ![rollback] = "pending"]
          ELSE UNCHANGED <<record, approval>>
  /\ Return(a)
  /\ UNCHANGED <<jobVars, crashes, history>>

\* Another actor inserted the evidence first: the unique key refuses, nothing
\* catches it, and the process (or the request) ends here.
InsertRefused(a) ==
  /\ step[a] = "insert"
  /\ ~NoHealthYet(held[a])
  /\ Drop(a)
  /\ IF a \in Workers THEN Die(a) ELSE UNCHANGED jobVars
  /\ UNCHANGED <<rowVars, crashes, history>>

EndJob(w) ==
  /\ step[w] = "done"
  /\ CloseJob(w, IF faulted[w] THEN "failed" ELSE "success")
  /\ Drop(w)
  /\ UNCHANGED <<rowVars, crashes, history>>

EndMark(w) ==
  /\ step[w] = "done"
  /\ EndMarking(w)
  /\ Drop(w)
  /\ UNCHANGED <<rowVars, crashes, history>>

CrashWorker(w) ==
  /\ crashes < MaxCrashes
  /\ crashes' = crashes + 1
  /\ Die(w)
  /\ Drop(w)
  /\ UNCHANGED <<rowVars, history>>

-----------------------------------------------------------------------------
Execute(a) ==
  \/ ClaimRecord(a)
  \/ ClaimLost(a)
  \/ EvaluatePolicy(a)
  \/ Attempt(a)
  \/ SaveRetry(a)
  \/ SaveRecord(a)
  \/ Fault(a)

Conclude(a) ==
  \/ Finalize(a)
  \/ SaveApproval(a)
  \/ Verify(a)
  \/ FindHealth(a)
  \/ InsertHealth(a)
  \/ InsertRefused(a)

WorkerNext(w) ==
  \/ \E j \in Jobs : BeginJob(w, j) \/ SweepJob(w, j)
  \/ Execute(w)
  \/ MarkFailure(w)
  \/ Conclude(w)
  \/ EndJob(w)
  \/ EndMark(w)

Decide(a) ==
  \/ \E p \in Approvals : ReadApproval(a, p)
  \/ Reject(a)
  \/ Approve(a)
  \/ LoadRecord(a)
  \/ EnqueueApproved(a)
  \/ CreateAdhoc(a)
  \/ SettleAdhoc(a)

Next ==
  \/ \E r \in Direct : SubmitCommand(r) \/ EnqueueCommand(r)
  \/ \E p \in Adhoc : RequestApproval(p)
  \/ \E r \in Runbook : InitiateRunbook(r)
  \/ \E a \in Admins : Decide(a) \/ Execute(a) \/ Conclude(a)
  \/ \E w \in Workers : WorkerNext(w) \/ CrashWorker(w)
  \/ \E j \in Jobs : Timeout(j) /\ UNCHANGED commandVars

\* Workers keep running and time passes.  Nothing is assumed of requests: one that
\* stops between two statements is a web process that died there.
Fairness ==
  /\ \A w \in Workers : WF_vars(WorkerNext(w))
  /\ \A j \in Jobs : WF_vars(Timeout(j) /\ UNCHANGED commandVars)

Safety == Init /\ [][Next]_vars
Spec == Safety /\ Fairness

-----------------------------------------------------------------------------
\* However often a command is enqueued, and whatever expires, crashes or faults,
\* its remote attempts are those of one execution: repeated triggers of a claimed
\* command open no further session.
NoReplay == \A r \in Records : sessions[r] <= Retries + 1

\* Two actors are never inside execute_command_record with the same claimed row,
\* and nothing puts a claimed row back to pending under the actor executing it.
SoleExecutor ==
  \A a, b \in Actors :
    step[a] \in Executing =>
      /\ record[held[a]] \notin {"absent", "pending"}
      /\ a # b /\ step[b] \in Executing => held[a] # held[b]

\* No runbook, no rollback runbook proposed by a worker, and no denied command reaches
\* a host unless an administrator approved it, even when another one rejects it later.
OnlyGranted ==
  /\ \A r \in Runbook : sessions[r] > 0 => r \in granted
  /\ \A p \in Adhoc, a \in Admins : sessions[<<p, a>>] > 0 => p \in granted

\* A job that closed as a success did hand its command to somebody.
SuccessWasClaimed ==
  \A j \in Jobs : jobStatus[j] = "success" => record[jobTarget[j]] \notin {"absent", "pending"}

\* A rollback runbook is proposed only on evidence that the command it undoes left
\* its host unhealthy, and that command's own approval was decided before.
RollbackOnEvidence ==
  \A r \in Runbook :
    RollbackOf[r] # NoTarget /\ record[RollbackOf[r]] # "absent" =>
      health[r] = "unhealthy" /\ r \in granted

\* Workers and sweeps that finalise the same command leave one piece of evidence,
\* and a proposed rollback is not proposed again.
EvidenceIsFinal ==
  [][\A r \in Runbook :
       health[r] # "none" =>
         /\ health'[r] = health[r]
         /\ RollbackOf[r] # NoTarget /\ health[r] = "unhealthy" =>
              record'[RollbackOf[r]] # "pending" \/ record[RollbackOf[r]] = "pending"]_vars

\* The outcome of a command with one job stands as long as that job never expired:
\* only an expiry (or a second job) lets a sweep rewrite it.
JobsOf(r) == {j \in Jobs : jobTarget[j] = r}
OutcomeStands ==
  [][\A r \in Targets :
       /\ record[r] \in {"success", "blocked"}
       /\ JobsOf(r) \cap overdue = {}
       /\ Cardinality(JobsOf(r)) = 1
       => record'[r] = record[r]]_vars

\* While no worker crashes, a queued command that was claimed reaches an outcome,
\* through its worker or through the sweep.
CommandsConclude ==
  \A r \in Targets : record[r] = "running" ~> (record[r] \in Terminal \/ crashes > 0)

\* An expired job's command does not stay open either.
ExpiryConcludes ==
  \A j \in Jobs, r \in Targets :
    (jobStatus[j] = "failed" /\ jobTarget[j] = r) ~> (record[r] \in Terminal \/ crashes > 0)

-----------------------------------------------------------------------------
Quiet == \A a \in Actors : step[a] = "rest"
NoOpenJob(r) == \A j \in JobsOf(r) : jobStatus[j] \in Settled

\* "Execution status should reflect downstream command/deployment result"
\* (devops-state-models.md): once nothing is left to happen to a command, its
\* approval says what became of it.
ApprovalReflectsResult ==
  \A r \in Runbook :
    Quiet /\ NoOpenJob(r) =>
      /\ approval[r] = "executed" => record[r] = "success"
      /\ approval[r] = "failed" => record[r] \in {"failed", "blocked"}

\* Triggering again what was already claimed produces no further remote execution
\* (README): one approved command is executed for one administrator.
ApprovalExecutesOnce ==
  \A p \in Adhoc, a, b \in Admins :
    sessions[<<p, a>>] > 0 /\ sessions[<<p, b>>] > 0 => a = b
=============================================================================
