----------------------------- MODULE WorkQueue -----------------------------
(***************************************************************************)
(* What the durable background queue promises the code that uses it: rows   *)
(* are handed to workers one at a time, an expired row is failed by one     *)
(* worker, and a settled row stays settled.  How workers find rows (lists   *)
(* read earlier, conditional UPDATEs, polling) is the business of JobQueue, *)
(* which implements this specification.  The modules of the operations the  *)
(* queue runs extend this one.                                              *)
(***************************************************************************)
EXTENDS Integers, FiniteSets

CONSTANTS
  Workers,       \* devops_worker processes
  Targets,       \* rows a job can point at
  NoTarget,      \* the target of a row not yet inserted
  MaxJobs        \* bound: rows ever inserted

ASSUME QueueAssumption ==
  /\ MaxJobs \in Nat \ {0}
  /\ NoTarget \notin Targets

Jobs == 1..MaxJobs

VARIABLES
  jobStatus,     \* BackgroundJob.status, or "none" before the INSERT
  jobTarget,     \* BackgroundJob.target_id (with job_type)
  overdue,       \* rows whose started_at is older than the job timeout
  duty,          \* whether a worker works on a row, marks an expired one, or is free
  cur            \* the row it works on or marks, 0 for none

jobVars == <<jobStatus, jobTarget, overdue, duty, cur>>

JobStatuses == {"none", "pending", "running", "success", "failed"}
Settled == {"success", "failed"}
Duties == {"free", "marking", "working"}

JobTypeOK ==
  /\ jobStatus \in [Jobs -> JobStatuses]
  /\ jobTarget \in [Jobs -> Targets \cup {NoTarget}]
  /\ overdue \subseteq Jobs
  /\ duty \in [Workers -> Duties]
  /\ cur \in [Workers -> Jobs \cup {0}]

JobInit ==
  /\ jobStatus = [j \in Jobs |-> "none"]
  /\ jobTarget = [j \in Jobs |-> NoTarget]
  /\ overdue = {}
  /\ duty = [w \in Workers |-> "free"]
  /\ cur = [w \in Workers |-> 0]

-----------------------------------------------------------------------------
\* enqueue_background_job: one INSERT, which takes the next id.
Enqueue(j, t) ==
  /\ jobStatus[j] = "none"
  /\ \A k \in Jobs : k < j => jobStatus[k] # "none"
  /\ jobStatus' = [jobStatus EXCEPT ![j] = "pending"]
  /\ jobTarget' = [jobTarget EXCEPT ![j] = t]
  /\ UNCHANGED <<overdue, duty, cur>>

\* Time passes: started_at of a running row falls behind now - timeout.  Nothing
\* ties that timeout to the work of the row, so its worker may still be at it.
Timeout(j) ==
  /\ jobStatus[j] = "running"
  /\ overdue' = overdue \cup {j}
  /\ UNCHANGED <<jobStatus, jobTarget, duty, cur>>

\* A row is claimed and handed to a worker.
TakeJob(w, j) ==
  /\ duty[w] = "free"
  /\ jobStatus[j] = "pending"
  /\ jobStatus' = [jobStatus EXCEPT ![j] = "running"]
  /\ duty' = [duty EXCEPT ![w] = "working"]
  /\ cur' = [cur EXCEPT ![w] = j]
  /\ UNCHANGED <<jobTarget, overdue>>

\* An expired row is failed, and the worker that failed it marks its target.
ExpireJob(w, j) ==
  /\ duty[w] = "free"
  /\ jobStatus[j] = "running"
  /\ j \in overdue
  /\ jobStatus' = [jobStatus EXCEPT ![j] = "failed"]
  /\ duty' = [duty EXCEPT ![w] = "marking"]
  /\ cur' = [cur EXCEPT ![w] = j]
  /\ UNCHANGED <<jobTarget, overdue>>

Release(w) ==
  /\ duty' = [duty EXCEPT ![w] = "free"]
  /\ cur' = [cur EXCEPT ![w] = 0]
  /\ UNCHANGED <<jobTarget, overdue>>

EndMarking(w) ==
  /\ duty[w] = "marking"
  /\ Release(w)
  /\ UNCHANGED jobStatus

\* The work is over: the row settles unless its expiry settled it meanwhile.
CloseJob(w, outcome) ==
  /\ duty[w] = "working"
  /\ jobStatus' = IF jobStatus[cur[w]] = "running"
                  THEN [jobStatus EXCEPT ![cur[w]] = outcome] ELSE jobStatus
  /\ Release(w)

\* The process ends with the row in hand, which stays as it is.
Die(w) ==
  /\ duty[w] # "free"
  /\ Release(w)
  /\ UNCHANGED jobStatus

-----------------------------------------------------------------------------
Serve(w) ==
  \/ \E j \in Jobs : TakeJob(w, j) \/ ExpireJob(w, j)
  \/ EndMarking(w)
  \/ \E outcome \in Settled : CloseJob(w, outcome)

JobNext ==
  \/ \E j \in Jobs, t \in Targets : Enqueue(j, t)
  \/ \E j \in Jobs : Timeout(j)
  \/ \E w \in Workers : Serve(w) \/ Die(w)

JobFairness ==
  /\ \A w \in Workers : WF_jobVars(Serve(w))
  /\ \A j \in Jobs : WF_jobVars(Timeout(j))

JobSafety == JobInit /\ [][JobNext]_jobVars
JobSpec == JobSafety /\ JobFairness
=============================================================================
