------------------------------ MODULE JobQueue ------------------------------
(***************************************************************************)
(* The BackgroundJob table and the loop of the devops_worker processes that *)
(* share it.  Every ORM call commits on its own, so a step here is one     *)
(* statement: a worker first lists candidate rows and then tries a         *)
(* conditional UPDATE on each, and other workers act in between.           *)
(*                                                                         *)
(* What a job does while it is "working", and what the sweep writes to the *)
(* target while it is "marking", is left to the modules that build on the    *)
(* queue; here a worker may leave either phase at any time.                  *)
(***************************************************************************)
EXTENDS Integers, FiniteSets

CONSTANTS
  Workers,       \* devops_worker processes
  Targets,       \* rows a job can point at
  NoTarget,      \* the target of a row not yet inserted
  MaxJobs,       \* bound: rows ever inserted
  ClaimBatch,    \* candidates read per poll (20 in the code)
  SweepBatch,    \* expired rows read per sweep (100 in the code)
  MaxCrashes     \* bound: worker crashes

ASSUME QueueAssumption ==
  /\ MaxJobs \in Nat \ {0}
  /\ ClaimBatch \in Nat \ {0}
  /\ SweepBatch \in Nat \ {0}
  /\ MaxCrashes \in Nat
  /\ NoTarget \notin Targets

Jobs == 1..MaxJobs

VARIABLES
  jobStatus,     \* BackgroundJob.status, or "none" before the INSERT
  jobTarget,     \* BackgroundJob.target_id (with job_type)
  attempts,      \* BackgroundJob.attempts
  overdue,       \* rows whose started_at is older than the job timeout
  phase,         \* where each worker is in its loop
  batch,         \* ids a worker has listed and not yet tried
  cur,           \* the job a worker holds, 0 for none
  crashes

tableVars == <<jobStatus, jobTarget, attempts, overdue>>
loopVars == <<phase, batch, cur>>
jobVars == <<tableVars, loopVars, crashes>>

JobStatuses == {"none", "pending", "running", "success", "failed"}
Settled == {"success", "failed"}
Phases == {"idle", "sweeping", "marking", "claiming", "working"}

JobTypeOK ==
  /\ jobStatus \in [Jobs -> JobStatuses]
  /\ jobTarget \in [Jobs -> Targets \cup {NoTarget}]
  /\ attempts \in [Jobs -> Nat]
  /\ overdue \subseteq Jobs
  /\ phase \in [Workers -> Phases]
  /\ batch \in [Workers -> SUBSET Jobs]
  /\ cur \in [Workers -> Jobs \cup {0}]
  /\ crashes \in Nat

JobInit ==
  /\ jobStatus = [j \in Jobs |-> "none"]
  /\ jobTarget = [j \in Jobs |-> NoTarget]
  /\ attempts = [j \in Jobs |-> 0]
  /\ overdue = {}
  /\ phase = [w \in Workers |-> "idle"]
  /\ batch = [w \in Workers |-> {}]
  /\ cur = [w \in Workers |-> 0]
  /\ crashes = 0

-----------------------------------------------------------------------------
\* The first n of a set of ids, in id order: order_by('id')[:n].
First(n, S) == {j \in S : Cardinality({k \in S : k < j}) < n}

\* The id a loop over the worker's list tries next.
Least(w, j) == j \in batch[w] /\ \A k \in batch[w] : j <= k

WithStatus(s) == {j \in Jobs : jobStatus[j] = s}

\* The conditions of the conditional UPDATEs that claim, expire and close a row.
MutClaimable(j) == jobStatus[j] \in {"pending", "running"}
Claimable(j) == jobStatus[j] = "pending"
MutOpen(j) == jobStatus[j] # "none"
Open(j) == jobStatus[j] = "running"

\* What the timeout does to an expired row: it fails, it is not put back.
Expired == "failed"

\* BackgroundJob.objects.create: the row gets the next id.
Enqueue(j, t) ==
  /\ jobStatus[j] = "none"
  /\ \A k \in Jobs : k < j => jobStatus[k] # "none"
  /\ jobStatus' = [jobStatus EXCEPT ![j] = "pending"]
  /\ jobTarget' = [jobTarget EXCEPT ![j] = t]
  /\ UNCHANGED <<attempts, overdue, loopVars, crashes>>

\* Time passes: started_at of a running row falls behind now - timeout.  The
\* code bounds a job's work by nothing tied to that timeout, so this may happen
\* while a live worker is still executing.
Timeout(j) ==
  /\ jobStatus[j] = "running"
  /\ overdue' = overdue \cup {j}
  /\ UNCHANGED <<jobStatus, jobTarget, attempts, loopVars, crashes>>

\* Top of the loop: list the running rows that have expired.
MutSweepList(w) ==
  /\ phase[w] = "idle"
  /\ phase' = [phase EXCEPT ![w] = "sweeping"]
  /\ batch' = [batch EXCEPT ![w] = First(SweepBatch, WithStatus("pending") \cap overdue)]
  /\ UNCHANGED <<tableVars, cur, crashes>>

SweepList(w) ==
  /\ phase[w] = "idle"
  /\ phase' = [phase EXCEPT ![w] = "sweeping"]
  /\ batch' = [batch EXCEPT ![w] = First(SweepBatch, WithStatus("running") \cap overdue)]
  /\ UNCHANGED <<tableVars, cur, crashes>>

\* The conditional UPDATE found the row still running: fail it, then mark its target.
SweepFail(w, j) ==
  /\ phase[w] = "sweeping"
  /\ Least(w, j)
  /\ Open(j)
  /\ jobStatus' = [jobStatus EXCEPT ![j] = Expired]
  /\ phase' = [phase EXCEPT ![w] = "marking"]
  /\ batch' = [batch EXCEPT ![w] = @ \ {j}]
  /\ cur' = [cur EXCEPT ![w] = j]
  /\ UNCHANGED <<jobTarget, attempts, overdue, crashes>>

SweepSkip(w, j) ==
  /\ phase[w] = "sweeping"
  /\ Least(w, j)
  /\ ~Open(j)
  /\ batch' = [batch EXCEPT ![w] = @ \ {j}]
  /\ UNCHANGED <<tableVars, phase, cur, crashes>>

\* The target of the failed row is marked and its approval finalised.
SweepResume(w) ==
  /\ phase[w] = "marking"
  /\ phase' = [phase EXCEPT ![w] = "sweeping"]
  /\ cur' = [cur EXCEPT ![w] = 0]
  /\ UNCHANGED <<tableVars, batch, crashes>>

\* The sweep is over: list the pending rows to claim from.
PollList(w) ==
  /\ phase[w] = "sweeping"
  /\ batch[w] = {}
  /\ phase' = [phase EXCEPT ![w] = "claiming"]
  /\ batch' = [batch EXCEPT ![w] = First(ClaimBatch, WithStatus("pending"))]
  /\ UNCHANGED <<tableVars, cur, crashes>>

\* The conditional UPDATE claimed the row.  The branch for attempts beyond
\* max_attempts is never taken: see ClaimedOnce.
TakeJob(w, j) ==
  /\ phase[w] = "claiming"
  /\ Least(w, j)
  /\ Claimable(j)
  /\ jobStatus' = [jobStatus EXCEPT ![j] = "running"]
  /\ attempts' = [attempts EXCEPT ![j] = @ + 1]
  /\ phase' = [phase EXCEPT ![w] = "working"]
  /\ batch' = [batch EXCEPT ![w] = {}]
  /\ cur' = [cur EXCEPT ![w] = j]
  /\ UNCHANGED <<jobTarget, overdue, crashes>>

SkipJob(w, j) ==
  /\ phase[w] = "claiming"
  /\ Least(w, j)
  /\ ~Claimable(j)
  /\ batch' = [batch EXCEPT ![w] = @ \ {j}]
  /\ UNCHANGED <<tableVars, phase, cur, crashes>>

\* Nothing was claimed: sleep and start the loop again.
PollEmpty(w) ==
  /\ phase[w] = "claiming"
  /\ batch[w] = {}
  /\ phase' = [phase EXCEPT ![w] = "idle"]
  /\ UNCHANGED <<tableVars, batch, cur, crashes>>

\* The work is over: settle the row unless a sweep has settled it meanwhile.
CloseJob(w, outcome) ==
  /\ phase[w] = "working"
  /\ jobStatus' = IF Open(cur[w]) THEN [jobStatus EXCEPT ![cur[w]] = outcome]
                                  ELSE jobStatus
  /\ phase' = [phase EXCEPT ![w] = "idle"]
  /\ cur' = [cur EXCEPT ![w] = 0]
  /\ UNCHANGED <<jobTarget, attempts, overdue, batch, crashes>>

\* The process dies with everything it held and is started again.
Restart(w) ==
  /\ phase' = [phase EXCEPT ![w] = "idle"]
  /\ batch' = [batch EXCEPT ![w] = {}]
  /\ cur' = [cur EXCEPT ![w] = 0]
  /\ UNCHANGED tableVars

Crash(w) ==
  /\ phase[w] # "idle"
  /\ crashes < MaxCrashes
  /\ crashes' = crashes + 1
  /\ Restart(w)

\* An exception that nothing on the way to the loop catches ends the process
\* and leaves the row as it is.
Die(w) ==
  /\ phase[w] \in {"marking", "working"}
  /\ Restart(w)
  /\ UNCHANGED crashes

-----------------------------------------------------------------------------
\* The steps of the loop that do not depend on what the target is.
Loop(w) ==
  \/ SweepList(w)
  \/ \E j \in Jobs : SweepSkip(w, j)
  \/ PollList(w)
  \/ \E j \in Jobs : SkipJob(w, j)
  \/ PollEmpty(w)

WorkerStep(w) ==
  \/ Loop(w)
  \/ \E j \in Jobs : SweepFail(w, j) \/ TakeJob(w, j)
  \/ SweepResume(w)
  \/ \E outcome \in Settled : CloseJob(w, outcome)

JobNext ==
  \/ \E j \in Jobs, t \in Targets : Enqueue(j, t)
  \/ \E j \in Jobs : Timeout(j)
  \/ \E w \in Workers : WorkerStep(w) \/ Die(w) \/ Crash(w)

JobFairness ==
  /\ \A w \in Workers : WF_jobVars(WorkerStep(w))
  /\ \A j \in Jobs : WF_jobVars(Timeout(j))

JobSafety == JobInit /\ [][JobNext]_jobVars
JobSpec == JobSafety /\ JobFairness

-----------------------------------------------------------------------------
\* No two workers hold the same claimed row, and a row a worker holds is one it
\* took from "pending": it is running, or a sweep has settled it under the worker.
ExclusiveWork ==
  \A v, w \in Workers :
    /\ phase[v] = "working" => jobStatus[cur[v]] \in {"running"} \cup Settled
    /\ v # w /\ phase[v] = "working" /\ phase[w] = "working" => cur[v] # cur[w]

\* One sweep alone marks the target of an expired row, however many workers
\* listed it, and only after the row has failed.
ExclusiveMark ==
  \A v, w \in Workers :
    /\ phase[v] = "marking" => jobStatus[cur[v]] = "failed"
    /\ v # w /\ phase[v] = "marking" /\ phase[w] = "marking" => cur[v] # cur[w]

\* A row is handed out at most once in its life, whatever crashes or expires, so
\* the attempts > max_attempts branch of process_next_background_job is dead code
\* for every max_attempts: a failed remote operation is never replayed.
ClaimedOnce ==
  \A j \in Jobs : attempts[j] = IF jobStatus[j] \in {"none", "pending"} THEN 0 ELSE 1

\* Two workers that race a close against a sweep cannot overwrite each other: the
\* first settlement of a row is final.
SettledForGood ==
  [][\A j \in Jobs : jobStatus[j] \in Settled => jobStatus'[j] = jobStatus[j]]_jobVars

\* The table with its polling workers, stale candidate lists, sweeps and crashes
\* implements the queue the rest of the program relies on: a free worker is
\* somewhere in its loop without a row, and every row a worker is owed is served.
Duty == [w \in Workers |-> IF phase[w] \in {"marking", "working"} THEN phase[w] ELSE "free"]

Promise == INSTANCE WorkQueue WITH duty <- Duty
ImplementsWorkQueue == Promise!JobSpec

\* Every row put in the queue settles in the end, after at most MaxCrashes crashes.
RowsSettle == \A j \in Jobs : jobStatus[j] = "pending" ~> jobStatus[j] \in Settled
=============================================================================
