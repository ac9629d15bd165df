----------------------------- MODULE Deployment -----------------------------
(***************************************************************************)
(* Releases: their submission, the CI deliveries that gate them, the GitHub *)
(* webhook that queues them, the approvals that hold or start them, their   *)
(* execution on hosts batch by batch under the health guard, and rollback.  *)
(*                                                                         *)
(* A deployment or rollback runs in a worker (from the queue) or in the     *)
(* request of the administrator who approves it; both are actors.  What the *)
(* command of one host does is abstracted to its outcome (see CommandWork). *)
(***************************************************************************)
EXTENDS WorkQueue

CONSTANTS
  Admins,        \* requests that decide approvals
  Releases,
  Gated,         \* releases of applications with a repository, bound to CI
  Deliveries,    \* GitHub delivery ids
  Hosts,         \* hosts of a release, in order
  BatchSize,     \* rollout_batch_size, 0 for one batch without health checks
  MaxApprovals,  \* bound: approval rows ever inserted
  MaxCI,         \* bound: CI deliveries
  MaxTimeouts,   \* bound: jobs that expire
  MaxCrashes     \* bound: worker crashes and failing statements

Deploys == {"deploy"} \X Releases
Rollbacks == {"rollback"} \X Releases

ASSUME DeploymentAssumption ==
  /\ Targets = Deploys \cup Rollbacks
  /\ Gated \subseteq Releases
  /\ NoTarget \notin Releases
  /\ Hosts \in Nat \ {0}
  /\ BatchSize \in Nat
  /\ MaxApprovals \in Nat
  /\ MaxCI \in Nat
  /\ MaxTimeouts \in Nat
  /\ MaxCrashes \in Nat
  /\ Workers \cap Admins = {}

Actors == Workers \cup Admins
Approvals == 1..MaxApprovals

VARIABLES
  release,       \* DeploymentRelease.status, "absent" before the INSERT
  ci,            \* status of the latest CI delivery for the release's revision
  forced,        \* DevOpsSetting: deployments and rollbacks need an approval
  approval,      \* ApprovalRequest.status, "none" before the INSERT
  approvalFor,   \* what each approval starts
  results,       \* targets with DeploymentResult rows
  submission,    \* where the request that submits each release is
  delivered,     \* GitHub deliveries with an audit row
  claims,        \* the release each delivery marked as queued, or NoTarget
  queued,        \* deliveries whose job has been inserted
  step,          \* what each actor does next
  held,          \* the target each actor has in hand
  slot,          \* the approval each administrator decides, 0 for none
  seen,          \* the release's status in the actor's memory
  at,            \* the host an actor has reached
  tally,         \* host outcomes an actor has counted
  faulted,       \* workers whose job ended with an exception
  ciCount,       \* CI deliveries so far
  crashes,       \* crashes and failing statements so far
  touched,       \* history: hosts on which a target's script was run
  granted,       \* history: targets some administrator approved
  green,         \* history: releases whose latest CI delivery was once a success
  guarded        \* history: releases a health check stopped

rowVars == <<release, approval, approvalFor, results>>
ciVars == <<ci, ciCount>>
intakeVars == <<submission, delivered, claims, queued>>
actorVars == <<step, held, slot, seen, at, tally, faulted>>
history == <<touched, granted, green, guarded>>
deployVars == <<rowVars, ciVars, forced, intakeVars, actorVars, crashes, history>>
vars == <<jobVars, deployVars>>

ReleaseStatuses ==
  {"absent", "pending", "running", "success", "partial", "failed", "blocked", "rolled_back"}
Rollbackable == {"success", "partial", "failed"}
Undecided == {"pending", "approved"}
ApprovalStatuses == {"none", "rejected", "executed", "failed"} \cup Undecided
Running == {"policy", "deny", "refuse", "host", "result", "health", "guard", "propose", "store"}
Entering == {"load", "check", "checkred", "gate", "gatered", "claim", "results", "refresh"}
Steps == {"rest", "decide", "fault", "settle", "done"} \cup Entering \cup Running

TypeOK ==
  /\ JobTypeOK
  /\ release \in [Releases -> ReleaseStatuses]
  /\ ci \in [Releases -> {"none", "running", "success", "failed"}]
  /\ forced \in BOOLEAN
  /\ approval \in [Approvals -> ApprovalStatuses]
  /\ approvalFor \in [Approvals -> Targets \cup {NoTarget}]
  /\ results \subseteq Targets
  /\ submission \in [Releases -> {"none", "gate", "red", "route", "done"}]
  /\ delivered \subseteq Deliveries
  /\ claims \in [Deliveries -> Releases \cup {NoTarget}]
  /\ queued \subseteq Deliveries
  /\ step \in [Actors -> Steps]
  /\ held \in [Actors -> Targets \cup {NoTarget}]
  /\ slot \in [Actors -> Approvals \cup {0}]
  /\ seen \in [Actors -> ReleaseStatuses]
  /\ at \in [Actors -> 0..Hosts]
  /\ tally \in [Actors -> SUBSET {"success", "failed"}]
  /\ faulted \in [Workers -> BOOLEAN]
  /\ crashes \in Nat
  /\ touched \subseteq Targets \X (1..Hosts)
  /\ granted \subseteq Targets
  /\ green \subseteq Releases
  /\ guarded \subseteq Releases
  /\ ciCount \in Nat

DeploymentInit ==
  /\ release = [r \in Releases |-> "absent"]
  /\ ci = [r \in Releases |-> "none"]
  /\ forced \in BOOLEAN
  /\ approval = [p \in Approvals |-> "none"]
  /\ approvalFor = [p \in Approvals |-> NoTarget]
  /\ results = {}
  /\ submission = [r \in Releases |-> "none"]
  /\ delivered = {}
  /\ claims = [d \in Deliveries |-> NoTarget]
  /\ queued = {}
  /\ step = [a \in Actors |-> "rest"]
  /\ held = [a \in Actors |-> NoTarget]
  /\ slot = [a \in Actors |-> 0]
  /\ seen = [a \in Actors |-> "absent"]
  /\ at = [a \in Actors |-> 0]
  /\ tally = [a \in Actors |-> {}]
  /\ faulted = [w \in Workers |-> FALSE]
  /\ crashes = 0
  /\ touched = {}
  /\ granted = {}
  /\ green = {}
  /\ guarded = {}
  /\ ciCount = 0

Init == JobInit /\ DeploymentInit

-----------------------------------------------------------------------------
ReleaseOf(t) == t[2]
IsDeploy(t) == t \in Deploys

\* ci_quality_gate_allows_release: the latest delivery allows, refuses, or neither.
Green(r) == r \notin Gated \/ ci[r] = "success"
Red(r) == r \in Gated /\ ci[r] = "failed"

\* An approval of the target that the code would reuse.
HasApproval(t) == \E p \in Approvals : approvalFor[p] = t /\ approval[p] \in Undecided

CreateApproval(t) ==
  \E p \in Approvals :
    /\ approval[p] = "none"
    /\ \A q \in Approvals : q < p => approval[q] # "none"
    /\ approval' = [approval EXCEPT ![p] = "pending"]
    /\ approvalFor' = [approvalFor EXCEPT ![p] = t]

\* The three gates on a release (maintenance window, SLO, risk) lock the release and
\* reuse an approval before they create one.
ReuseOrCreateApproval(t) ==
  IF HasApproval(t) THEN UNCHANGED <<approval, approvalFor>> ELSE CreateApproval(t)

-----------------------------------------------------------------------------
(* Submission of a release, in one request. *)

Submit(r) ==
  /\ submission[r] = "none"
  /\ submission' = [submission EXCEPT ![r] = "gate"]
  /\ release' = [release EXCEPT ![r] = "pending"]
  /\ UNCHANGED <<jobVars, approval, approvalFor, results, ciVars, forced, delivered, claims, queued,
                 actorVars, crashes, history>>

\* The gate before the release is routed: a release still waiting for CI stays
\* pending and its request ends here.
SubmitGate(r) ==
  /\ submission[r] = "gate"
  /\ submission' = [submission EXCEPT ![r] =
                      IF Green(r) THEN "route" ELSE IF Red(r) THEN "red" ELSE "done"]
  /\ UNCHANGED <<jobVars, rowVars, ciVars, forced, delivered, claims, queued, actorVars, crashes,
                 history>>

SubmitBlock(r) ==
  /\ submission[r] = "red"
  /\ submission' = [submission EXCEPT ![r] = "done"]
  /\ release' = [release EXCEPT ![r] = "blocked"]
  /\ UNCHANGED <<jobVars, approval, approvalFor, results, ciVars, forced, delivered, claims, queued,
                 actorVars, crashes, history>>

\* A gate asks for an approval; or nothing does but the user or the setting; or the
\* deployment is queued at once.
MutRoute(r) ==
  /\ submission[r] = "route"
  /\ submission' = [submission EXCEPT ![r] = "done"]
  /\ \/ ReuseOrCreateApproval(<<"deploy", r>>) /\ UNCHANGED jobVars
     \/ CreateApproval(<<"deploy", r>>) /\ UNCHANGED jobVars
     \/ /\ \E j \in Jobs : Enqueue(j, <<"deploy", r>>)
        /\ UNCHANGED <<approval, approvalFor>>
  /\ UNCHANGED <<release, results, ciVars, forced, delivered, claims, queued, actorVars, crashes,
                 history>>

Route(r) ==
  /\ submission[r] = "route"
  /\ submission' = [submission EXCEPT ![r] = "done"]
  /\ \/ ReuseOrCreateApproval(<<"deploy", r>>) /\ UNCHANGED jobVars
     \/ CreateApproval(<<"deploy", r>>) /\ UNCHANGED jobVars
     \/ /\ ~forced
        /\ \E j \in Jobs : Enqueue(j, <<"deploy", r>>)
        /\ UNCHANGED <<approval, approvalFor>>
  /\ UNCHANGED <<release, results, ciVars, forced, delivered, claims, queued, actorVars, crashes,
                 history>>

\* deployment_rollback asks nothing of the release's status.
RequestRollback(r) ==
  /\ release[r] # "absent"
  /\ IF forced
     THEN CreateApproval(<<"rollback", r>>) /\ UNCHANGED jobVars
     ELSE /\ \E j \in Jobs : Enqueue(j, <<"rollback", r>>)
          /\ UNCHANGED <<approval, approvalFor>>
  /\ UNCHANGED <<release, results, ciVars, forced, intakeVars, actorVars, crashes, history>>

-----------------------------------------------------------------------------
(* CI status deliveries, and the GitHub webhook. *)

\* record_ci_delivery: the delivery and its effect on the pending release it names
\* commit together.
DeliverCI(r, s) ==
  /\ r \in Gated
  /\ ciCount < MaxCI
  /\ ciCount' = ciCount + 1
  /\ ci' = [ci EXCEPT ![r] = s]
  /\ release' = IF release[r] = "pending" /\ s = "failed"
                THEN [release EXCEPT ![r] = "blocked"] ELSE release
  /\ green' = IF s = "success" THEN green \cup {r} ELSE green
  /\ UNCHANGED <<jobVars, approval, approvalFor, results, forced, intakeVars, actorVars, crashes,
                 touched, granted, guarded>>

\* The releases some delivery has already marked as queued.
MutMarked == {}
Marked == {claims[d] : d \in delivered} \ {NoTarget}

\* A delivery names a repository and a revision.  Its transaction locks the pending
\* release, audits the delivery and, unless an approval is called for, marks the
\* release as queued.
AcceptDelivery(d, r) ==
  /\ r \in Gated
  /\ d \notin delivered
  /\ release[r] = "pending"
  /\ delivered' = delivered \cup {d}
  /\ \/ /\ ReuseOrCreateApproval(<<"deploy", r>>)
        /\ UNCHANGED claims
     \/ /\ UNCHANGED <<approval, approvalFor>>
        /\ IF \/ forced
              \/ \E p \in Approvals : approvalFor[p] = <<"deploy", r>> /\ approval[p] = "pending"
              \/ r \in Marked
           THEN UNCHANGED claims
           ELSE claims' = [claims EXCEPT ![d] = r]
  /\ UNCHANGED <<jobVars, release, results, ciVars, forced, submission, queued, actorVars, crashes,
                 history>>

\* The job is inserted after that transaction has committed.
QueueDelivery(d) ==
  /\ claims[d] # NoTarget
  /\ d \notin queued
  /\ queued' = queued \cup {d}
  /\ \E j \in Jobs : Enqueue(j, <<"deploy", claims[d]>>)
  /\ UNCHANGED <<rowVars, ciVars, forced, submission, delivered, claims, actorVars, crashes, history>>

-----------------------------------------------------------------------------
(* Moves of one actor. *)
Go(a, from, to) == step[a] = from /\ step' = [step EXCEPT ![a] = to]
See(a, s) == seen' = [seen EXCEPT ![a] = s]
Write(a, s) == release' = [release EXCEPT ![ReleaseOf(held[a])] = s]

Drop(a) ==
  /\ step' = [step EXCEPT ![a] = "rest"]
  /\ held' = [held EXCEPT ![a] = NoTarget]
  /\ slot' = [slot EXCEPT ![a] = 0]
  /\ seen' = [seen EXCEPT ![a] = "absent"]
  /\ at' = [at EXCEPT ![a] = 0]
  /\ tally' = [tally EXCEPT ![a] = {}]
  /\ faulted' = IF a \in Workers THEN [faulted EXCEPT ![a] = FALSE] ELSE faulted

\* Where execute_deployment_release and _rollback return to.
Returned(a) == IF a \in Workers THEN "done" ELSE "settle"

-----------------------------------------------------------------------------
(* approval_decide, and what execute_approval_request does around an execution. *)

ReadApproval(a, p) ==
  /\ step[a] = "rest"
  /\ approval[p] = "pending"
  /\ step' = [step EXCEPT ![a] = "decide"]
  /\ held' = [held EXCEPT ![a] = approvalFor[p]]
  /\ slot' = [slot EXCEPT ![a] = p]
  /\ See(a, release[ReleaseOf(approvalFor[p])])
  /\ UNCHANGED <<jobVars, rowVars, ciVars, forced, intakeVars, at, tally, faulted, crashes, history>>

Reject(a) ==
  /\ step[a] = "decide"
  /\ approval' = [approval EXCEPT ![slot[a]] = "rejected"]
  /\ Drop(a)
  /\ UNCHANGED <<jobVars, release, approvalFor, results, ciVars, forced, intakeVars, crashes, history>>

Approve(a) ==
  /\ Go(a, "decide", IF IsDeploy(held[a]) THEN "check" ELSE "claim")
  /\ approval' = [approval EXCEPT ![slot[a]] = "approved"]
  /\ granted' = granted \cup {held[a]}
  /\ UNCHANGED <<jobVars, release, approvalFor, results, ciVars, forced, intakeVars, held, slot, seen,
                 at, tally, faulted, crashes, touched, green, guarded>>

\* The gate of execute_approval_request, which leaves the approval approved when CI
\* holds the release back, and blocks the release whatever its status.
CheckApproved(a) ==
  LET r == ReleaseOf(held[a]) IN
  /\ step[a] = "check"
  /\ \/ Green(r) /\ Go(a, "check", "gate") /\ UNCHANGED <<held, slot, seen, at, tally, faulted>>
     \/ Red(r) /\ Go(a, "check", "checkred") /\ UNCHANGED <<held, slot, seen, at, tally, faulted>>
     \/ ~Green(r) /\ ~Red(r) /\ Drop(a)
  /\ UNCHANGED <<jobVars, rowVars, ciVars, forced, intakeVars, crashes, history>>

BlockApproved(a) ==
  /\ step[a] = "checkred"
  /\ Write(a, "blocked")
  /\ Drop(a)
  /\ UNCHANGED <<jobVars, approval, approvalFor, results, ciVars, forced, intakeVars, crashes, history>>

\* The approval is closed with what the request's own release object says.
Settle(a) ==
  /\ step[a] = "settle"
  /\ approval' = [approval EXCEPT ![slot[a]] = IF seen[a] = "failed" THEN "failed" ELSE "executed"]
  /\ Drop(a)
  /\ UNCHANGED <<jobVars, release, approvalFor, results, ciVars, forced, intakeVars, crashes, history>>

-----------------------------------------------------------------------------
(* Entering an execution. *)

BeginJob(w, j) ==
  /\ TakeJob(w, j)
  /\ step' = [step EXCEPT ![w] = "load"]
  /\ held' = [held EXCEPT ![w] = jobTarget[j]]
  /\ UNCHANGED <<rowVars, ciVars, forced, intakeVars, slot, seen, at, tally, faulted, crashes, history>>

Load(a) ==
  /\ Go(a, "load", IF IsDeploy(held[a]) THEN "gate" ELSE "claim")
  /\ See(a, release[ReleaseOf(held[a])])
  /\ UNCHANGED <<jobVars, rowVars, ciVars, forced, intakeVars, held, slot, at, tally, faulted, crashes,
                 history>>

\* The gate of execute_deployment_release, asked only for a release seen pending.
MutGate(a) ==
  /\ Go(a, "gate", "claim")
  /\ UNCHANGED <<jobVars, rowVars, ciVars, forced, intakeVars, held, slot, seen, at, tally, faulted,
                 crashes, history>>

Gate(a) ==
  LET r == ReleaseOf(held[a]) IN
  /\ step[a] = "gate"
  /\ \/ (seen[a] # "pending" \/ Green(r)) /\ Go(a, "gate", "claim")
     \/ seen[a] = "pending" /\ Red(r) /\ Go(a, "gate", "gatered")
     \/ seen[a] = "pending" /\ ~Green(r) /\ ~Red(r) /\ Go(a, "gate", Returned(a))
  /\ UNCHANGED <<jobVars, rowVars, ciVars, forced, intakeVars, held, slot, seen, at, tally, faulted,
                 crashes, history>>

GateBlock(a) ==
  /\ Go(a, "gatered", Returned(a))
  /\ Write(a, "blocked")
  /\ See(a, "blocked")
  /\ UNCHANGED <<jobVars, approval, approvalFor, results, ciVars, forced, intakeVars, held, slot, at,
                 tally, faulted, crashes, history>>

\* claim_pending_work and claim_deployment_rollback: the conditional UPDATE.
MutClaimable(t) == release[ReleaseOf(t)] \in Rollbackable \cup {"pending", "blocked"}
Claimable(t) ==
  release[ReleaseOf(t)] \in IF IsDeploy(t) THEN {"pending"} ELSE Rollbackable

Claim(a) ==
  /\ Go(a, "claim", "policy")
  /\ Claimable(held[a])
  /\ Write(a, "running")
  /\ See(a, "running")
  /\ UNCHANGED <<jobVars, approval, approvalFor, results, ciVars, forced, intakeVars, held, slot, at,
                 tally, faulted, crashes, history>>

\* claim_running_deployment_if_empty: a release that is already running is taken over
\* as long as the action has no results yet.
ClaimLost(a) ==
  LET s == release[ReleaseOf(held[a])] IN
  /\ Go(a, "claim", IF s = "running" THEN "results" ELSE Returned(a))
  /\ ~Claimable(held[a])
  /\ See(a, s)
  /\ UNCHANGED <<jobVars, rowVars, ciVars, forced, intakeVars, held, slot, at, tally, faulted, crashes,
                 history>>

FindResults(a) ==
  /\ Go(a, "results", IF held[a] \in results THEN Returned(a) ELSE "refresh")
  /\ UNCHANGED <<jobVars, rowVars, ciVars, forced, intakeVars, held, slot, seen, at, tally, faulted,
                 crashes, history>>

TakeOver(a) ==
  LET s == release[ReleaseOf(held[a])] IN
  /\ Go(a, "refresh", IF s = "running" THEN "policy" ELSE Returned(a))
  /\ See(a, s)
  /\ UNCHANGED <<jobVars, rowVars, ciVars, forced, intakeVars, held, slot, at, tally, faulted, crashes,
                 history>>

-----------------------------------------------------------------------------
(* The execution itself. *)

\* The script is allowed, denied, or (rollback only) missing.
Policy(a) ==
  /\ \/ Go(a, "policy", "host") /\ at' = [at EXCEPT ![a] = 1] /\ UNCHANGED seen
     \/ /\ Go(a, "policy", "deny")
        /\ See(a, IF IsDeploy(held[a]) THEN "blocked" ELSE "failed")
        /\ UNCHANGED at
     \/ ~IsDeploy(held[a]) /\ Go(a, "policy", "store") /\ See(a, "failed") /\ UNCHANGED at
  /\ UNCHANGED <<jobVars, rowVars, ciVars, forced, intakeVars, held, slot, tally, faulted, crashes,
                 history>>

Deny(a) ==
  /\ Go(a, "deny", "refuse")
  /\ Write(a, seen[a])
  /\ UNCHANGED <<jobVars, approval, approvalFor, results, ciVars, forced, intakeVars, held, slot, seen,
                 at, tally, faulted, crashes, history>>

Refuse(a) ==
  /\ Go(a, "refuse", Returned(a))
  /\ results' = results \cup {held[a]}
  /\ UNCHANGED <<jobVars, release, approval, approvalFor, ciVars, forced, intakeVars, held, slot, seen,
                 at, tally, faulted, crashes, history>>

\* The script runs on one host, as a command of its own.
RunHost(a) ==
  /\ Go(a, "host", "result")
  /\ touched' = touched \cup {<<held[a], at[a]>>}
  /\ \E outcome \in {"success", "failed"} : tally' = [tally EXCEPT ![a] = @ \cup {outcome}]
  /\ UNCHANGED <<jobVars, rowVars, ciVars, forced, intakeVars, held, slot, seen, at, faulted, crashes,
                 granted, green, guarded>>

\* What the counters of succeeded and failed hosts make of the release.
Outcome(t, s) ==
  IF IsDeploy(t)
  THEN CASE s = {"success"} -> "success"
         [] s = {"success", "failed"} -> "partial"
         [] OTHER -> "failed"
  ELSE IF "success" \in s THEN "rolled_back" ELSE "failed"

MutLastHost(n) == n >= Hosts - 1
MutPastLastHost(n) == n > Hosts
LastHost(n) == n = Hosts

\* On to the next host, or out of the loop.
Continue(a) ==
  IF LastHost(at[a])
  THEN /\ step' = [step EXCEPT ![a] = "store"]
       /\ See(a, Outcome(held[a], tally[a]))
       /\ UNCHANGED at
  ELSE /\ step' = [step EXCEPT ![a] = "host"]
       /\ at' = [at EXCEPT ![a] = @ + 1]
       /\ UNCHANGED seen

EndOfBatch(a) ==
  IsDeploy(held[a]) /\ BatchSize > 0 /\ (at[a] % BatchSize = 0 \/ LastHost(at[a]))

SaveResult(a) ==
  /\ step[a] = "result"
  /\ results' = results \cup {held[a]}
  /\ IF EndOfBatch(a) THEN Go(a, "result", "health") /\ UNCHANGED <<seen, at>> ELSE Continue(a)
  /\ UNCHANGED <<jobVars, release, approval, approvalFor, ciVars, forced, intakeVars, held, slot, tally,
                 faulted, crashes, history>>

\* evaluate_deployment_health: what is counted is the state of the world.
EvaluateHealth(a) ==
  /\ step[a] = "health"
  /\ \/ Continue(a)
     \/ Go(a, "health", "guard") /\ See(a, "blocked") /\ UNCHANGED at
  /\ UNCHANGED <<jobVars, rowVars, ciVars, forced, intakeVars, held, slot, tally, faulted, crashes,
                 history>>

Guard(a) ==
  /\ Go(a, "guard", "propose")
  /\ Write(a, "blocked")
  /\ guarded' = guarded \cup {ReleaseOf(held[a])}
  /\ UNCHANGED <<jobVars, approval, approvalFor, results, ciVars, forced, intakeVars, held, slot, seen,
                 at, tally, faulted, crashes, touched, granted, green>>

\* The guard proposes a rollback unless one is already proposed.
MutPropose(a) ==
  LET t == <<"rollback", ReleaseOf(held[a])>> IN
  /\ Go(a, "propose", Returned(a))
  /\ IF \E p \in Approvals : approval[p] \in Undecided
     THEN UNCHANGED <<approval, approvalFor>> ELSE CreateApproval(t)
  /\ UNCHANGED <<jobVars, release, results, ciVars, forced, intakeVars, held, slot, seen, at, tally,
                 faulted, crashes, history>>

Propose(a) ==
  /\ Go(a, "propose", Returned(a))
  /\ ReuseOrCreateApproval(<<"rollback", ReleaseOf(held[a])>>)
  /\ UNCHANGED <<jobVars, release, results, ciVars, forced, intakeVars, held, slot, seen, at, tally,
                 faulted, crashes, history>>

\* release.save(): the whole object, whatever the row holds by now.
Store(a) ==
  /\ Go(a, "store", Returned(a))
  /\ Write(a, seen[a])
  /\ UNCHANGED <<jobVars, approval, approvalFor, results, ciVars, forced, intakeVars, held, slot, seen,
                 at, tally, faulted, crashes, history>>

\* A statement raises: a worker goes on to mark the failure, a request ends.
Fault(a) ==
  /\ step[a] \in Entering \cup Running
  /\ crashes < MaxCrashes
  /\ crashes' = crashes + 1
  /\ IF a \in Workers
     THEN /\ step' = [step EXCEPT ![a] = "fault"]
          /\ faulted' = [faulted EXCEPT ![a] = TRUE]
          /\ UNCHANGED <<held, slot, seen, at, tally>>
     ELSE Drop(a)
  /\ UNCHANGED <<jobVars, rowVars, ciVars, forced, intakeVars, history>>

-----------------------------------------------------------------------------
(* The sweep, the end of a job, and crashes. *)

SweepJob(w, j) ==
  /\ ExpireJob(w, j)
  /\ step' = [step EXCEPT ![w] = "fault"]
  /\ held' = [held EXCEPT ![w] = jobTarget[j]]
  /\ UNCHANGED <<rowVars, ciVars, forced, intakeVars, slot, seen, at, tally, faulted, crashes, history>>

\* mark_background_failure: the release fails, whatever it was.
MarkFailure(w) ==
  /\ Go(w, "fault", "done")
  /\ Write(w, "failed")
  /\ UNCHANGED <<jobVars, approval, approvalFor, results, ciVars, forced, intakeVars, held, slot, seen,
                 at, tally, faulted, crashes, history>>

EndJob(w) ==
  /\ step[w] = "done"
  /\ CloseJob(w, IF faulted[w] THEN "failed" ELSE "success")
  /\ Drop(w)
  /\ UNCHANGED <<rowVars, ciVars, forced, intakeVars, crashes, history>>

EndMark(w) ==
  /\ step[w] = "done"
  /\ EndMarking(w)
  /\ Drop(w)
  /\ UNCHANGED <<rowVars, ciVars, forced, intakeVars, crashes, history>>

CrashWorker(w) ==
  /\ crashes < MaxCrashes
  /\ crashes' = crashes + 1
  /\ Die(w)
  /\ Drop(w)
  /\ UNCHANGED <<rowVars, ciVars, forced, intakeVars, history>>

-----------------------------------------------------------------------------
ExpireInTime(j) ==
  /\ Cardinality(overdue) < MaxTimeouts
  /\ Timeout(j)
  /\ UNCHANGED deployVars

Execute(a) ==
  \/ Gate(a)
  \/ GateBlock(a)
  \/ Claim(a)
  \/ ClaimLost(a)
  \/ FindResults(a)
  \/ TakeOver(a)
  \/ Policy(a)
  \/ Deny(a)
  \/ Refuse(a)
  \/ RunHost(a)
  \/ SaveResult(a)
  \/ EvaluateHealth(a)
  \/ Guard(a)
  \/ Propose(a)
  \/ Store(a)
  \/ Fault(a)

Decide(a) ==
  \/ \E p \in Approvals : ReadApproval(a, p)
  \/ Reject(a)
  \/ Approve(a)
  \/ CheckApproved(a)
  \/ BlockApproved(a)
  \/ Settle(a)

WorkerNext(w) ==
  \/ \E j \in Jobs : BeginJob(w, j) \/ SweepJob(w, j)
  \/ Load(w)
  \/ Execute(w)
  \/ MarkFailure(w)
  \/ EndJob(w)
  \/ EndMark(w)

Intake(r) ==
  \/ Submit(r)
  \/ SubmitGate(r)
  \/ SubmitBlock(r)
  \/ Route(r)
  \/ RequestRollback(r)
  \/ \E s \in {"running", "success", "failed"} : DeliverCI(r, s)
  \/ \E d \in Deliveries : AcceptDelivery(d, r)

Next ==
  \/ \E r \in Releases : Intake(r)
  \/ \E d \in Deliveries : QueueDelivery(d)
  \/ \E a \in Admins : Decide(a) \/ Execute(a)
  \/ \E w \in Workers : WorkerNext(w) \/ CrashWorker(w)
  \/ \E j \in Jobs : ExpireInTime(j)

Safety == Init /\ [][Next]_vars

-----------------------------------------------------------------------------
Executing(a, t) == step[a] \in Running /\ held[a] = t

\* "Forced deploy/rollback approval settings must be respected" (devops-state-models.md):
\* with the setting on, no script runs on a host before an administrator approved that
\* target, whichever of submission, webhook, rollback request and guard asked for it.
ForcedApprovalRespected == forced => \A x \in touched : x[1] \in granted

\* A release bound to CI reaches no host before a delivery for its revision succeeded,
\* also when it is approved with a stale status or taken over by a second job.  Only a
\* failure mark undermines it: a pending release marked failed can be claimed by a
\* rollback, and while that runs a deployment takes it over without asking CI.
GateRespected ==
  \/ overdue # {} \/ crashes > 0
  \/ \A x \in touched : IsDeploy(x[1]) /\ ReleaseOf(x[1]) \in Gated => ReleaseOf(x[1]) \in green

\* A release that says success was deployed on every host, and one that says
\* rolled back was rolled back somewhere, however many actors wrote that status.
StatusTellsHosts ==
  \A r \in Releases :
    /\ release[r] = "success" => \A h \in 1..Hosts : <<<<"deploy", r>>, h>> \in touched
    /\ release[r] = "rolled_back" => \E h \in 1..Hosts : <<<<"rollback", r>>, h>> \in touched

\* Of all GitHub deliveries for a release, one queues it.
QueuedByOneDelivery ==
  \A d, e \in Deliveries : claims[d] = claims[e] /\ claims[d] # NoTarget => d = e

\* A release the health guard stopped has its rollback proposed, unless the process
\* that stopped it failed before it could.
GuardProposes ==
  \A r \in guarded :
    \/ crashes > 0
    \/ \E a \in Actors : step[a] = "propose" /\ held[a] = <<"deploy", r>>
    \/ \E p \in Approvals : approvalFor[p] = <<"rollback", r>>

\* Blocked is a dead end: unless an actor was past its claim or is marking a failure,
\* no queued job, no approval and no rollback request starts a blocked release.
BlockedStands ==
  [][\A r \in Releases :
       /\ release[r] = "blocked"
       /\ \A a \in Actors :
            held[a] \in {<<"deploy", r>>, <<"rollback", r>>} => step[a] \notin Running \cup {"fault"}
       => release'[r] = "blocked"]_vars

-----------------------------------------------------------------------------
\* Triggering again a deployment that is claimed produces no second remote execution
\* (README).
DeployedByOne ==
  \A a, b \in Actors, r \in Releases :
    Executing(a, <<"deploy", r>>) /\ Executing(b, <<"deploy", r>>) => a = b
=============================================================================
