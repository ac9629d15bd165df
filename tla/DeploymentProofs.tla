--------------------------- MODULE DeploymentProofs ---------------------------
(***************************************************************************)
(* The safety of releases, proved for any number of releases, hosts,        *)
(* batches, workers, administrators, jobs, approvals and deliveries.  The   *)
(* inductive invariant has six parts: Shape (what an actor has in hand),    *)
(* Known (what is referred to was submitted), Consent (the forced           *)
(* approval), Cleared (the CI gate), Covered (the hosts behind a status)    *)
(* and Proposed (one queue marker, and the rollbacks of the health guard).  *)
(* What a part says of an actor is preserved for the actors that rest by    *)
(* Stay, what no step undoes, and case by case for the actor that moves.    *)
(***************************************************************************)
EXTENDS Deployment, TLAPS

\* What an actor has in hand at its step.
ShapeOf(a) ==
  /\ step[a] # "rest" => held[a] \in Targets
  /\ step[a] \in {"check", "checkred", "gate", "gatered", "health", "guard", "propose"} =>
       IsDeploy(held[a])
  /\ step[a] = "store" =>
       seen[a] \in IF IsDeploy(held[a]) THEN Rollbackable ELSE {"rolled_back", "failed"}
  /\ step[a] = "deny" => seen[a] \in {"blocked", "failed"}
  /\ step[a] \in {"host", "result", "health"} => at[a] \in 1..Hosts
  /\ step[a] = "fault" => overdue # {} \/ crashes > 0
  /\ a \in Workers /\ step[a] # "rest" => duty[a] # "free"
Shape == \A a \in Actors : ShapeOf(a)

\* A release has a row from its submission on, and so has whatever a job, an approval,
\* a delivery or an actor refers to.
SubmittedRows == \A r \in Releases : submission[r] = "none" <=> release[r] = "absent"
JobRows ==
  \A j \in Jobs : jobStatus[j] # "none" =>
    jobTarget[j] \in Targets /\ release[ReleaseOf(jobTarget[j])] # "absent"
ApprovalRows ==
  \A p \in Approvals :
    IF approval[p] = "none" THEN approvalFor[p] = NoTarget
    ELSE approvalFor[p] \in Targets /\ release[ReleaseOf(approvalFor[p])] # "absent"
DeliveryRows ==
  \A d \in Deliveries : claims[d] # NoTarget => d \in delivered /\ release[claims[d]] # "absent"
HeldRow(a) ==
  /\ held[a] # NoTarget => release[ReleaseOf(held[a])] # "absent"
  /\ slot[a] # 0 => approval[slot[a]] # "none"
HeldRows == \A a \in Actors : HeldRow(a)
Known == SubmittedRows /\ JobRows /\ ApprovalRows /\ DeliveryRows /\ HeldRows

\* With the setting on nothing is queued, and who is past a decision was approved.
NothingQueued == forced => \A j \in Jobs : jobStatus[j] = "none"
NothingMarked == forced => \A d \in Deliveries : claims[d] = NoTarget
ConsentOf(a) == forced /\ step[a] \notin {"rest", "decide"} => held[a] \in granted
Consent ==
  /\ NothingQueued
  /\ NothingMarked
  /\ \A a \in Actors : ConsentOf(a)
  /\ ForcedApprovalRespected

\* A release was cleared by CI when it may have been started: it is past the gate, says
\* so itself, or is about to be claimed.  Whoever passes the gate without asking CI
\* meets a release that is not pending any more, and never will be again.
Clear(r) == r \notin Gated \/ r \in green
Undisturbed == overdue = {} /\ crashes = 0
GreenRows == \A r \in Releases : ci[r] = "success" => r \in green
ClearRows ==
  Undisturbed => \A r \in Releases :
    release[r] \in {"running", "success", "partial", "failed", "rolled_back"} => Clear(r)
ClearOf(a) ==
  LET r == ReleaseOf(held[a]) IN
  Undisturbed =>
    /\ step[a] \in Running => Clear(r)
    /\ step[a] = "claim" /\ IsDeploy(held[a]) => Clear(r) \/ release[r] # "pending"
    /\ step[a] = "gate" /\ seen[a] # "pending" => Clear(r) \/ release[r] # "pending"
Cleared == GreenRows /\ ClearRows /\ (\A a \in Actors : ClearOf(a)) /\ GateRespected

\* An actor has run the script on every host it has gone past.
Ran(t, n) == \A h \in 1..n : <<t, h>> \in touched
CoveredOf(a) ==
  /\ step[a] = "host" => Ran(held[a], at[a] - 1)
  /\ step[a] \in {"result", "health"} => Ran(held[a], at[a])
  /\ step[a] = "store" /\ seen[a] \in {"success", "rolled_back"} => Ran(held[a], Hosts)
Covered == (\A a \in Actors : CoveredOf(a)) /\ StatusTellsHosts

Proposed == QueuedByOneDelivery /\ GuardProposes

Inv == TypeOK /\ Shape /\ Known /\ Consent /\ Cleared /\ Covered /\ Proposed

-----------------------------------------------------------------------------
\* A target is the deployment or the rollback of a release, and NoTarget is neither.
LEMMA TargetForm ==
  ASSUME NEW t \in Targets
  PROVE  /\ ReleaseOf(t) \in Releases /\ t # NoTarget
         /\ IsDeploy(t) => t = <<"deploy", ReleaseOf(t)>>
         /\ ~IsDeploy(t) => t = <<"rollback", ReleaseOf(t)>>
  BY DeploymentAssumption, QueueAssumption DEF ReleaseOf, IsDeploy, Deploys, Rollbacks

\* Both targets of a release, and what they say of it.
LEMMA TargetOf ==
  ASSUME NEW r \in Releases
  PROVE  /\ <<"deploy", r>> \in Targets /\ IsDeploy(<<"deploy", r>>)
         /\ ReleaseOf(<<"deploy", r>>) = r
         /\ <<"rollback", r>> \in Targets /\ ~IsDeploy(<<"rollback", r>>)
         /\ ReleaseOf(<<"rollback", r>>) = r
         /\ <<"deploy", r>> # NoTarget /\ <<"rollback", r>> # NoTarget
         /\ r # NoTarget
  BY DeploymentAssumption, QueueAssumption DEF ReleaseOf, IsDeploy, Deploys, Rollbacks

\* An actor not at rest has a target in hand.
LEMMA HeldTarget ==
  ASSUME Shape, NEW a \in Actors, step[a] # "rest"
  PROVE  held[a] \in Targets /\ ReleaseOf(held[a]) \in Releases
  BY TargetForm DEF Shape, ShapeOf

\* What the counters make of the release: rolled back is said of rollbacks only, and no
\* rollback ends in success or partial.
LEMMA OutcomeValues ==
  ASSUME NEW t, NEW s
  PROVE  Outcome(t, s) \in IF IsDeploy(t) THEN Rollbackable ELSE {"rolled_back", "failed"}
  BY DEF Outcome, Rollbackable

\* A job's or an approval's number is never 0.
LEMMA NumbersArePositive ==
  /\ \A j \in Jobs : j \in Nat /\ j # 0
  /\ \A p \in Approvals : p \in Nat /\ p # 0
  BY QueueAssumption, DeploymentAssumption DEF Jobs, Approvals

\* The actors' steps; one that is Quiet writes nothing any part of the invariant tells
\* of the tables.
Acts(a) ==
  \/ a \in Admins /\ Decide(a)
  \/ Execute(a)
  \/ a \in Workers /\ (WorkerNext(a) \/ CrashWorker(a))
Quiet(a) ==
  \/ \E p \in Approvals : ReadApproval(a, p)
  \/ CheckApproved(a) \/ Load(a) \/ Gate(a) \/ ClaimLost(a) \/ FindResults(a) \/ TakeOver(a)
  \/ Policy(a) \/ Refuse(a) \/ SaveResult(a) \/ EvaluateHealth(a) \/ EndMark(a)
Calm ==
  UNCHANGED <<jobStatus, jobTarget, overdue, release, approval, approvalFor, ciVars, forced,
              submission, delivered, claims, crashes, touched, granted, green, guarded>>

\* A step is one of the intake's, of an actor's, or time passing.
LEMMA NextCases ==
  ASSUME Next
  PROVE  \/ \E r \in Releases : Intake(r)
         \/ \E d \in Deliveries : QueueDelivery(d)
         \/ \E a \in Actors : Acts(a)
         \/ \E j \in Jobs : ExpireInTime(j)
<1>1. ASSUME NEW a \in Admins, Decide(a) \/ Execute(a) PROVE a \in Actors /\ Acts(a)
  BY <1>1 DEF Acts, Actors
<1>2. ASSUME NEW w \in Workers, WorkerNext(w) \/ CrashWorker(w) PROVE w \in Actors /\ Acts(w)
  BY <1>2 DEF Acts, Actors
<1> QED BY <1>1, <1>2 DEF Next

\* Quiet steps leave the tables alone.
LEMMA CalmSteps ==
  ASSUME NEW a \in Actors, Quiet(a)
  PROVE  Calm
<1> USE DEF Calm, jobVars, rowVars, ciVars, intakeVars, history
<1>1. ASSUME NEW p \in Approvals, ReadApproval(a, p) PROVE Calm
  BY <1>1 DEF ReadApproval, See
<1>2. ASSUME CheckApproved(a) PROVE Calm
  BY <1>2 DEF CheckApproved, Go, Drop
<1>3. ASSUME Load(a) PROVE Calm
  BY <1>3 DEF Load, Go, See
<1>4. ASSUME Gate(a) PROVE Calm
  BY <1>4 DEF Gate, Go, Returned
<1>5. ASSUME ClaimLost(a) PROVE Calm
  BY <1>5 DEF ClaimLost, Go, See, Returned
<1>6. ASSUME FindResults(a) PROVE Calm
  BY <1>6 DEF FindResults, Go, Returned
<1>7. ASSUME TakeOver(a) PROVE Calm
  BY <1>7 DEF TakeOver, Go, See, Returned
<1>8. ASSUME Policy(a) PROVE Calm
  BY <1>8 DEF Policy, Go, See
<1>9. ASSUME Refuse(a) PROVE Calm
  BY <1>9 DEF Refuse, Go, Returned
<1>10. ASSUME SaveResult(a) PROVE Calm
  BY <1>10 DEF SaveResult, Continue, Go, See
<1>11. ASSUME EvaluateHealth(a) PROVE Calm
  BY <1>11 DEF EvaluateHealth, Continue, Go, See
<1>12. ASSUME EndMark(a) PROVE Calm
  BY <1>12 DEF EndMark, EndMarking, Release, Drop
<1> QED BY <1>1, <1>2, <1>3, <1>4, <1>5, <1>6, <1>7, <1>8, <1>9, <1>10, <1>11, <1>12 DEF Quiet

\* Whoever does not move keeps its place.
Same(a) ==
  /\ step'[a] = step[a] /\ held'[a] = held[a] /\ slot'[a] = slot[a]
  /\ seen'[a] = seen[a] /\ at'[a] = at[a]
  /\ a \in Workers => duty'[a] = duty[a]

\* An actor's step moves nobody else.
LEMMA Alone ==
  ASSUME TypeOK, NEW b \in Actors, Acts(b), NEW a \in Actors, a # b
  PROVE  Same(a)
<1> USE DEF TypeOK, JobTypeOK, Same, jobVars
<1>1. ASSUME NEW p \in Approvals, ReadApproval(b, p) PROVE Same(a)
  BY <1>1 DEF ReadApproval, See
<1>2. ASSUME Reject(b) PROVE Same(a)
  BY <1>2 DEF Reject, Drop
<1>3. ASSUME Approve(b) PROVE Same(a)
  BY <1>3 DEF Approve, Go
<1>4. ASSUME CheckApproved(b) PROVE Same(a)
  BY <1>4 DEF CheckApproved, Go, Drop
<1>5. ASSUME BlockApproved(b) PROVE Same(a)
  BY <1>5 DEF BlockApproved, Write, Drop
<1>6. ASSUME Settle(b) PROVE Same(a)
  BY <1>6 DEF Settle, Drop
<1>7. ASSUME NEW j \in Jobs, BeginJob(b, j) PROVE Same(a)
  BY <1>7 DEF BeginJob, TakeJob
<1>8. ASSUME Load(b) PROVE Same(a)
  BY <1>8 DEF Load, Go, See
<1>9. ASSUME Gate(b) PROVE Same(a)
  BY <1>9 DEF Gate, Go, Returned
<1>10. ASSUME GateBlock(b) PROVE Same(a)
  BY <1>10 DEF GateBlock, Go, Write, See, Returned
<1>11. ASSUME Claim(b) PROVE Same(a)
  BY <1>11 DEF Claim, Go, Write, See
<1>12. ASSUME ClaimLost(b) PROVE Same(a)
  BY <1>12 DEF ClaimLost, Go, See, Returned
<1>13. ASSUME FindResults(b) PROVE Same(a)
  BY <1>13 DEF FindResults, Go, Returned
<1>14. ASSUME TakeOver(b) PROVE Same(a)
  BY <1>14 DEF TakeOver, Go, See, Returned
<1>15. ASSUME Policy(b) PROVE Same(a)
  BY <1>15 DEF Policy, Go, See
<1>16. ASSUME Deny(b) PROVE Same(a)
  BY <1>16 DEF Deny, Go, Write
<1>17. ASSUME Refuse(b) PROVE Same(a)
  BY <1>17 DEF Refuse, Go, Returned
<1>18. ASSUME RunHost(b) PROVE Same(a)
  BY <1>18 DEF RunHost, Go
<1>19. ASSUME SaveResult(b) PROVE Same(a)
  BY <1>19 DEF SaveResult, Continue, Go, See
<1>20. ASSUME EvaluateHealth(b) PROVE Same(a)
  BY <1>20 DEF EvaluateHealth, Continue, Go, See
<1>21. ASSUME Guard(b) PROVE Same(a)
  BY <1>21 DEF Guard, Go, Write
<1>22. ASSUME Propose(b) PROVE Same(a)
  BY <1>22 DEF Propose, Go, Returned, ReuseOrCreateApproval, CreateApproval
<1>23. ASSUME Store(b) PROVE Same(a)
  BY <1>23 DEF Store, Go, Write, Returned
<1>24. ASSUME Fault(b) PROVE Same(a)
  BY <1>24 DEF Fault, Drop
<1>25. ASSUME NEW j \in Jobs, SweepJob(b, j) PROVE Same(a)
  BY <1>25 DEF SweepJob, ExpireJob
<1>26. ASSUME MarkFailure(b) PROVE Same(a)
  BY <1>26 DEF MarkFailure, Go, Write
<1>27. ASSUME EndJob(b) PROVE Same(a)
  BY <1>27 DEF EndJob, CloseJob, Release, Drop
<1>28. ASSUME EndMark(b) PROVE Same(a)
  BY <1>28 DEF EndMark, EndMarking, Release, Drop
<1>29. ASSUME CrashWorker(b) PROVE Same(a)
  BY <1>29 DEF CrashWorker, Die, Release, Drop
<1> QED BY <1>1, <1>2, <1>3, <1>4, <1>5, <1>6, <1>7, <1>8, <1>9, <1>10, <1>11, <1>12, <1>13, <1>14,
     <1>15, <1>16, <1>17, <1>18, <1>19, <1>20, <1>21, <1>22, <1>23, <1>24, <1>25, <1>26, <1>27,
     <1>28, <1>29 DEF Acts, Decide, Execute, WorkerNext

\* In any step an actor keeps its place or the step is its own.
LEMMA Mover ==
  ASSUME TypeOK, [Next]_vars, NEW a \in Actors
  PROVE  Same(a) \/ Acts(a)
<1>1. ASSUME NEW r \in Releases, Intake(r) PROVE Same(a)
  BY <1>1 DEF Intake, Submit, SubmitGate, SubmitBlock, Route, RequestRollback, DeliverCI,
              AcceptDelivery, Enqueue, jobVars, actorVars, Same
<1>2. ASSUME NEW d \in Deliveries, QueueDelivery(d) PROVE Same(a)
  BY <1>2 DEF QueueDelivery, Enqueue, jobVars, actorVars, Same
<1>3. ASSUME NEW b \in Actors, Acts(b) PROVE Same(a) \/ Acts(a)
  BY <1>3, Alone
<1>4. ASSUME NEW j \in Jobs, ExpireInTime(j) PROVE Same(a)
  BY <1>4 DEF ExpireInTime, Timeout, deployVars, jobVars, actorVars, Same
<1>5. CASE UNCHANGED vars
  BY <1>5 DEF vars, deployVars, jobVars, actorVars, Same
<1> QED BY <1>1, <1>2, <1>3, <1>4, <1>5, NextCases

\* The types, by the tables they are about; a step keeps those of what it leaves alone.
RowTypes ==
  /\ release \in [Releases -> ReleaseStatuses]
  /\ approval \in [Approvals -> ApprovalStatuses]
  /\ approvalFor \in [Approvals -> Targets \cup {NoTarget}]
  /\ results \subseteq Targets
IntakeTypes ==
  /\ ci \in [Releases -> {"none", "running", "success", "failed"}]
  /\ ciCount \in Nat
  /\ forced \in BOOLEAN
  /\ submission \in [Releases -> {"none", "gate", "red", "route", "done"}]
  /\ delivered \subseteq Deliveries
  /\ claims \in [Deliveries -> Releases \cup {NoTarget}]
  /\ queued \subseteq Deliveries
ActorTypes ==
  /\ step \in [Actors -> Steps]
  /\ held \in [Actors -> Targets \cup {NoTarget}]
  /\ slot \in [Actors -> Approvals \cup {0}]
  /\ seen \in [Actors -> ReleaseStatuses]
  /\ at \in [Actors -> 0..Hosts]
  /\ tally \in [Actors -> SUBSET {"success", "failed"}]
  /\ faulted \in [Workers -> BOOLEAN]
HistoryTypes ==
  /\ crashes \in Nat
  /\ touched \subseteq Targets \X (1..Hosts)
  /\ granted \subseteq Targets
  /\ green \subseteq Releases
  /\ guarded \subseteq Releases

\* The five parts are the type invariant.
LEMMA TypeParts ==
  TypeOK <=> JobTypeOK /\ RowTypes /\ IntakeTypes /\ ActorTypes /\ HistoryTypes
  BY DEF TypeOK, RowTypes, IntakeTypes, ActorTypes, HistoryTypes

\* A part of the types that is kept or untouched, for each part, is all of them.
LEMMA TypeFrame ==
  ASSUME TypeOK,
         UNCHANGED jobVars \/ JobTypeOK',
         UNCHANGED rowVars \/ RowTypes',
         UNCHANGED <<ciVars, forced, intakeVars>> \/ IntakeTypes',
         UNCHANGED actorVars \/ ActorTypes',
         UNCHANGED <<crashes, history>> \/ HistoryTypes'
  PROVE  TypeOK'
<1>0. JobTypeOK /\ RowTypes /\ IntakeTypes /\ ActorTypes /\ HistoryTypes
  BY TypeParts
<1>1. JobTypeOK'
  BY <1>0 DEF JobTypeOK, jobVars
<1>2. RowTypes'
  BY <1>0 DEF RowTypes, rowVars
<1>3. IntakeTypes'
  BY <1>0 DEF IntakeTypes, ciVars, intakeVars
<1>4. ActorTypes'
  BY <1>0 DEF ActorTypes, actorVars
<1>5. HistoryTypes'
  BY <1>0 DEF HistoryTypes, history
<1> QED BY <1>1, <1>2, <1>3, <1>4, <1>5 DEF TypeOK, JobTypeOK, RowTypes, IntakeTypes, ActorTypes,
     HistoryTypes

\* Dropping what one has in hand keeps the actors' types.
LEMMA DropTypes ==
  ASSUME ActorTypes, NEW a \in Actors, Drop(a)
  PROVE  ActorTypes'
<1> USE DeploymentAssumption DEF ActorTypes, Drop, Steps, ReleaseStatuses
<1>1. CASE a \in Workers
  BY <1>1
<1>2. CASE a \notin Workers
  BY <1>2
<1> QED BY <1>1, <1>2

\* Inserting a job keeps the queue's types.
LEMMA EnqueueTypes ==
  ASSUME JobTypeOK, NEW j \in Jobs, NEW t \in Targets, Enqueue(j, t)
  PROVE  JobTypeOK'
  BY DEF JobTypeOK, Enqueue, JobStatuses

\* Asking for an approval keeps the types of the rows.
LEMMA CreateTypes ==
  ASSUME RowTypes, NEW t \in Targets, CreateApproval(t) \/ ReuseOrCreateApproval(t),
         UNCHANGED <<release, results>>
  PROVE  RowTypes'
  BY DEF RowTypes, CreateApproval, ReuseOrCreateApproval, ApprovalStatuses, Undecided

\* Every step keeps every column and every variable in range.
LEMMA TypeStep ==
  ASSUME TypeOK, Shape, Known, [Next]_vars
  PROVE  TypeOK'
<1> USE TargetOf, TargetForm, NumbersArePositive, DeploymentAssumption
<1> USE DEF ReleaseStatuses, Undecided, ApprovalStatuses, Running, Entering, Steps, JobStatuses,
     Duties, Settled
<1>0. JobTypeOK /\ RowTypes /\ IntakeTypes /\ ActorTypes /\ HistoryTypes
  BY TypeParts
<1>1. ASSUME NEW r \in Releases, Submit(r) PROVE TypeOK'
  <2>1. RowTypes'
    BY <1>1, <1>0 DEF Submit, RowTypes, rowVars
  <2>2. IntakeTypes'
    BY <1>1, <1>0 DEF Submit, IntakeTypes, ciVars, intakeVars
  <2> QED BY <1>1, <1>0, <2>1, <2>2, TypeFrame DEF Submit
<1>2. ASSUME NEW r \in Releases, SubmitGate(r) PROVE TypeOK'
  <2>1. IntakeTypes'
    BY <1>2, <1>0 DEF SubmitGate, IntakeTypes, ciVars, intakeVars
  <2> QED BY <1>2, <1>0, <2>1, TypeFrame DEF SubmitGate
<1>3. ASSUME NEW r \in Releases, SubmitBlock(r) PROVE TypeOK'
  <2>1. RowTypes'
    BY <1>3, <1>0 DEF SubmitBlock, RowTypes, rowVars
  <2>2. IntakeTypes'
    BY <1>3, <1>0 DEF SubmitBlock, IntakeTypes, ciVars, intakeVars
  <2> QED BY <1>3, <1>0, <2>1, <2>2, TypeFrame DEF SubmitBlock
<1>4. ASSUME NEW r \in Releases, Route(r) PROVE TypeOK'
  <2>1. UNCHANGED jobVars \/ JobTypeOK'
    BY <1>4, <1>0, TargetOf, EnqueueTypes DEF Route
  <2>2. UNCHANGED rowVars \/ RowTypes'
    BY <1>4, <1>0, TargetOf, CreateTypes DEF Route, rowVars
  <2>3. IntakeTypes'
    BY <1>4, <1>0 DEF Route, ReuseOrCreateApproval, CreateApproval, Enqueue, IntakeTypes, ciVars,
       intakeVars
  <2> QED BY <1>4, <1>0, <2>1, <2>2, <2>3, TypeFrame DEF Route
<1>5. ASSUME NEW r \in Releases, RequestRollback(r) PROVE TypeOK'
  <2>1. UNCHANGED jobVars \/ JobTypeOK'
    BY <1>5, <1>0, TargetOf, EnqueueTypes DEF RequestRollback
  <2>2. UNCHANGED rowVars \/ RowTypes'
    BY <1>5, <1>0, TargetOf, CreateTypes DEF RequestRollback, rowVars
  <2> QED BY <1>5, <1>0, <2>1, <2>2, TypeFrame DEF RequestRollback
<1>6. ASSUME NEW r \in Releases, NEW s \in {"running", "success", "failed"}, DeliverCI(r, s)
      PROVE  TypeOK'
  <2>1. RowTypes'
    BY <1>6, <1>0 DEF DeliverCI, RowTypes, rowVars
  <2>2. IntakeTypes'
    BY <1>6, <1>0 DEF DeliverCI, IntakeTypes, ciVars, intakeVars
  <2>3. HistoryTypes'
    BY <1>6, <1>0 DEF DeliverCI, HistoryTypes, history
  <2> QED BY <1>6, <1>0, <2>1, <2>2, <2>3, TypeFrame DEF DeliverCI
<1>7. ASSUME NEW r \in Releases, NEW d \in Deliveries, AcceptDelivery(d, r) PROVE TypeOK'
  <2>1. UNCHANGED rowVars \/ RowTypes'
    BY <1>7, <1>0, TargetOf, CreateTypes DEF AcceptDelivery, rowVars
  <2>2. IntakeTypes'
    BY <1>7, <1>0 DEF AcceptDelivery, ReuseOrCreateApproval, CreateApproval, IntakeTypes, ciVars,
       intakeVars
  <2> QED BY <1>7, <1>0, <2>1, <2>2, TypeFrame DEF AcceptDelivery
<1>8. ASSUME NEW d \in Deliveries, QueueDelivery(d) PROVE TypeOK'
  <2>1. JobTypeOK'
    BY <1>8, <1>0, TargetOf, EnqueueTypes DEF QueueDelivery, IntakeTypes
  <2>2. IntakeTypes'
    BY <1>8, <1>0 DEF QueueDelivery, Enqueue, IntakeTypes, ciVars, intakeVars
  <2> QED BY <1>8, <1>0, <2>1, <2>2, TypeFrame DEF QueueDelivery
<1>9. ASSUME NEW a \in Actors, NEW p \in Approvals, ReadApproval(a, p) PROVE TypeOK'
  <2>1. ActorTypes'
    BY <1>9, <1>0, Known, TargetForm DEF ReadApproval, See, ActorTypes, actorVars, Known,
       ApprovalRows, RowTypes
  <2> QED BY <1>9, <1>0, <2>1, TypeFrame DEF ReadApproval
<1>10. ASSUME NEW a \in Actors, Reject(a) PROVE TypeOK'
  <2>1. RowTypes'
    BY <1>10, <1>0 DEF Reject, Drop, RowTypes, rowVars
  <2>2. ActorTypes'
    BY <1>10, <1>0, DropTypes DEF Reject, ActorTypes, actorVars
  <2> QED BY <1>10, <1>0, <2>1, <2>2, TypeFrame DEF Reject
<1>11. ASSUME NEW a \in Actors, Approve(a) PROVE TypeOK'
  <2>1. RowTypes'
    BY <1>11, <1>0, HeldTarget DEF Approve, Go, RowTypes, rowVars, RowTypes
  <2>2. ActorTypes'
    BY <1>11, <1>0, HeldTarget DEF Approve, Go, ActorTypes, actorVars, RowTypes
  <2>3. HistoryTypes'
    BY <1>11, <1>0, HeldTarget DEF Approve, Go, HistoryTypes, history, RowTypes
  <2> QED BY <1>11, <1>0, <2>1, <2>2, <2>3, TypeFrame DEF Approve
<1>12. ASSUME NEW a \in Actors, CheckApproved(a) PROVE TypeOK'
  <2>1. ActorTypes'
    BY <1>12, <1>0, DropTypes DEF CheckApproved, Go, ActorTypes, actorVars
  <2> QED BY <1>12, <1>0, <2>1, TypeFrame DEF CheckApproved
<1>13. ASSUME NEW a \in Actors, BlockApproved(a) PROVE TypeOK'
  <2>1. RowTypes'
    BY <1>13, <1>0 DEF BlockApproved, Write, Drop, RowTypes, rowVars
  <2>2. ActorTypes'
    BY <1>13, <1>0, DropTypes DEF BlockApproved, Write, ActorTypes, actorVars
  <2> QED BY <1>13, <1>0, <2>1, <2>2, TypeFrame DEF BlockApproved
<1>14. ASSUME NEW a \in Actors, Settle(a) PROVE TypeOK'
  <2>1. RowTypes'
    BY <1>14, <1>0 DEF Settle, Drop, RowTypes, rowVars
  <2>2. ActorTypes'
    BY <1>14, <1>0, DropTypes DEF Settle, ActorTypes, actorVars
  <2> QED BY <1>14, <1>0, <2>1, <2>2, TypeFrame DEF Settle
<1>15. ASSUME NEW a \in Actors, NEW j \in Jobs, BeginJob(a, j) PROVE TypeOK'
  <2>1. JobTypeOK'
    BY <1>15, <1>0 DEF BeginJob, TakeJob, JobTypeOK, jobVars
  <2>2. ActorTypes'
    BY <1>15, <1>0 DEF BeginJob, TakeJob, ActorTypes, actorVars, JobTypeOK
  <2> QED BY <1>15, <1>0, <2>1, <2>2, TypeFrame DEF BeginJob
<1>16. ASSUME NEW a \in Actors, Load(a) PROVE TypeOK'
  <2>1. ActorTypes'
    BY <1>16, <1>0, HeldTarget DEF Load, Go, See, ActorTypes, actorVars, RowTypes
  <2> QED BY <1>16, <1>0, <2>1, TypeFrame DEF Load
<1>17. ASSUME NEW a \in Actors, Gate(a) PROVE TypeOK'
  <2>1. ActorTypes'
    BY <1>17, <1>0 DEF Gate, Go, Returned, ActorTypes, actorVars
  <2> QED BY <1>17, <1>0, <2>1, TypeFrame DEF Gate
<1>18. ASSUME NEW a \in Actors, GateBlock(a) PROVE TypeOK'
  <2>1. RowTypes'
    BY <1>18, <1>0 DEF GateBlock, Go, Write, See, Returned, RowTypes, rowVars
  <2>2. ActorTypes'
    BY <1>18, <1>0 DEF GateBlock, Go, Write, See, Returned, ActorTypes, actorVars
  <2> QED BY <1>18, <1>0, <2>1, <2>2, TypeFrame DEF GateBlock
<1>19. ASSUME NEW a \in Actors, Claim(a) PROVE TypeOK'
  <2>1. RowTypes'
    BY <1>19, <1>0 DEF Claim, Go, Write, See, RowTypes, rowVars
  <2>2. ActorTypes'
    BY <1>19, <1>0 DEF Claim, Go, Write, See, ActorTypes, actorVars
  <2> QED BY <1>19, <1>0, <2>1, <2>2, TypeFrame DEF Claim
<1>20. ASSUME NEW a \in Actors, ClaimLost(a) PROVE TypeOK'
  <2>1. ActorTypes'
    BY <1>20, <1>0, HeldTarget DEF ClaimLost, Go, See, Returned, ActorTypes, actorVars, RowTypes
  <2> QED BY <1>20, <1>0, <2>1, TypeFrame DEF ClaimLost
<1>21. ASSUME NEW a \in Actors, FindResults(a) PROVE TypeOK'
  <2>1. ActorTypes'
    BY <1>21, <1>0 DEF FindResults, Go, Returned, ActorTypes, actorVars
  <2> QED BY <1>21, <1>0, <2>1, TypeFrame DEF FindResults
<1>22. ASSUME NEW a \in Actors, TakeOver(a) PROVE TypeOK'
  <2>1. ActorTypes'
    BY <1>22, <1>0, HeldTarget DEF TakeOver, Go, See, Returned, ActorTypes, actorVars, RowTypes
  <2> QED BY <1>22, <1>0, <2>1, TypeFrame DEF TakeOver
<1>23. ASSUME NEW a \in Actors, Policy(a) PROVE TypeOK'
  <2>1. ActorTypes'
    BY <1>23, <1>0 DEF Policy, Go, See, ActorTypes, actorVars
  <2> QED BY <1>23, <1>0, <2>1, TypeFrame DEF Policy
<1>24. ASSUME NEW a \in Actors, Deny(a) PROVE TypeOK'
  <2>1. RowTypes'
    BY <1>24, <1>0, HeldTarget DEF Deny, Go, Write, RowTypes, rowVars, ActorTypes
  <2>2. ActorTypes'
    BY <1>24, <1>0 DEF Deny, Go, Write, ActorTypes, actorVars
  <2> QED BY <1>24, <1>0, <2>1, <2>2, TypeFrame DEF Deny
<1>25. ASSUME NEW a \in Actors, Refuse(a) PROVE TypeOK'
  <2>1. RowTypes'
    BY <1>25, <1>0, HeldTarget DEF Refuse, Go, Returned, RowTypes, rowVars, RowTypes
  <2>2. ActorTypes'
    BY <1>25, <1>0, HeldTarget DEF Refuse, Go, Returned, ActorTypes, actorVars, RowTypes
  <2> QED BY <1>25, <1>0, <2>1, <2>2, TypeFrame DEF Refuse
<1>26. ASSUME NEW a \in Actors, RunHost(a) PROVE TypeOK'
  <2>1. ActorTypes'
    BY <1>26, <1>0, HeldTarget DEF RunHost, Go, ActorTypes, actorVars, RowTypes
  <2>2. HistoryTypes'
    BY <1>26, <1>0, HeldTarget, Shape DEF RunHost, Go, HistoryTypes, history, Shape, ShapeOf
  <2> QED BY <1>26, <1>0, <2>1, <2>2, TypeFrame DEF RunHost
<1>27. ASSUME NEW a \in Actors, SaveResult(a) PROVE TypeOK'
  <2>1. RowTypes'
    BY <1>27, <1>0, HeldTarget DEF SaveResult, Continue, Go, See, RowTypes, rowVars, RowTypes
  <2>2. ActorTypes'
    BY <1>27, <1>0, OutcomeValues DEF SaveResult, Continue, Go, See, ActorTypes, actorVars,
       LastHost, Rollbackable
  <2> QED BY <1>27, <1>0, <2>1, <2>2, TypeFrame DEF SaveResult
<1>28. ASSUME NEW a \in Actors, EvaluateHealth(a) PROVE TypeOK'
  <2>1. ActorTypes'
    BY <1>28, <1>0, OutcomeValues DEF EvaluateHealth, Continue, Go, See, ActorTypes, actorVars,
       LastHost, Rollbackable
  <2> QED BY <1>28, <1>0, <2>1, TypeFrame DEF EvaluateHealth
<1>29. ASSUME NEW a \in Actors, Guard(a) PROVE TypeOK'
  <2>1. RowTypes'
    BY <1>29, <1>0, HeldTarget DEF Guard, Go, Write, RowTypes, rowVars, RowTypes
  <2>2. ActorTypes'
    BY <1>29, <1>0, HeldTarget DEF Guard, Go, Write, ActorTypes, actorVars, RowTypes
  <2>3. HistoryTypes'
    BY <1>29, <1>0, HeldTarget DEF Guard, Go, Write, HistoryTypes, history, RowTypes
  <2> QED BY <1>29, <1>0, <2>1, <2>2, <2>3, TypeFrame DEF Guard
<1>30. ASSUME NEW a \in Actors, Propose(a) PROVE TypeOK'
  <2>1. RowTypes'
    BY <1>30, <1>0, HeldTarget, TargetOf, CreateTypes DEF Propose, Go
  <2>2. ActorTypes'
    BY <1>30, <1>0 DEF Propose, Go, Returned, ReuseOrCreateApproval, CreateApproval, ActorTypes,
       actorVars
  <2> QED BY <1>30, <1>0, <2>1, <2>2, TypeFrame DEF Propose
<1>31. ASSUME NEW a \in Actors, Store(a) PROVE TypeOK'
  <2>1. RowTypes'
    BY <1>31, <1>0, HeldTarget DEF Store, Go, Write, Returned, RowTypes, rowVars, ActorTypes
  <2>2. ActorTypes'
    BY <1>31, <1>0 DEF Store, Go, Write, Returned, ActorTypes, actorVars
  <2> QED BY <1>31, <1>0, <2>1, <2>2, TypeFrame DEF Store
<1>32. ASSUME NEW a \in Actors, Fault(a) PROVE TypeOK'
  <2>1. ActorTypes'
    BY <1>32, <1>0, DropTypes DEF Fault, ActorTypes, actorVars
  <2>2. HistoryTypes'
    BY <1>32, <1>0 DEF Fault, Drop, HistoryTypes, history
  <2> QED BY <1>32, <1>0, <2>1, <2>2, TypeFrame DEF Fault
<1>33. ASSUME NEW a \in Actors, NEW j \in Jobs, SweepJob(a, j) PROVE TypeOK'
  <2>1. JobTypeOK'
    BY <1>33, <1>0 DEF SweepJob, ExpireJob, JobTypeOK, jobVars
  <2>2. ActorTypes'
    BY <1>33, <1>0 DEF SweepJob, ExpireJob, ActorTypes, actorVars, JobTypeOK
  <2> QED BY <1>33, <1>0, <2>1, <2>2, TypeFrame DEF SweepJob
<1>34. ASSUME NEW a \in Actors, MarkFailure(a) PROVE TypeOK'
  <2>1. RowTypes'
    BY <1>34, <1>0 DEF MarkFailure, Go, Write, RowTypes, rowVars
  <2>2. ActorTypes'
    BY <1>34, <1>0 DEF MarkFailure, Go, Write, ActorTypes, actorVars
  <2> QED BY <1>34, <1>0, <2>1, <2>2, TypeFrame DEF MarkFailure
<1>35. ASSUME NEW a \in Actors, EndJob(a) PROVE TypeOK'
  <2>1. JobTypeOK'
    BY <1>35, <1>0 DEF EndJob, CloseJob, Release, Drop, JobTypeOK, jobVars
  <2>2. ActorTypes'
    BY <1>35, <1>0, DropTypes DEF EndJob, CloseJob, Release, ActorTypes, actorVars
  <2> QED BY <1>35, <1>0, <2>1, <2>2, TypeFrame DEF EndJob
<1>36. ASSUME NEW a \in Actors, EndMark(a) PROVE TypeOK'
  <2>1. JobTypeOK'
    BY <1>36, <1>0 DEF EndMark, EndMarking, Release, Drop, JobTypeOK, jobVars
  <2>2. ActorTypes'
    BY <1>36, <1>0, DropTypes DEF EndMark, EndMarking, Release, ActorTypes, actorVars
  <2> QED BY <1>36, <1>0, <2>1, <2>2, TypeFrame DEF EndMark
<1>37. ASSUME NEW a \in Actors, CrashWorker(a) PROVE TypeOK'
  <2>1. JobTypeOK'
    BY <1>37, <1>0 DEF CrashWorker, Die, Release, Drop, JobTypeOK, jobVars
  <2>2. ActorTypes'
    BY <1>37, <1>0, DropTypes DEF CrashWorker, Die, Release, ActorTypes, actorVars
  <2>3. HistoryTypes'
    BY <1>37, <1>0 DEF CrashWorker, Die, Release, Drop, HistoryTypes, history
  <2> QED BY <1>37, <1>0, <2>1, <2>2, <2>3, TypeFrame DEF CrashWorker
<1>38. ASSUME NEW j \in Jobs, ExpireInTime(j) PROVE TypeOK'
  <2>1. JobTypeOK'
    BY <1>38, <1>0 DEF ExpireInTime, Timeout, JobTypeOK, jobVars
  <2> QED BY <1>38, <1>0, <2>1, TypeFrame DEF ExpireInTime, deployVars, Timeout
<1>39. CASE UNCHANGED vars
  BY <1>39, TypeFrame DEF vars, deployVars
<1> QED
  BY <1>1, <1>2, <1>3, <1>4, <1>5, <1>6, <1>7, <1>8, <1>9, <1>10, <1>11, <1>12, <1>13, <1>14, <1>15,
     <1>16, <1>17, <1>18, <1>19, <1>20, <1>21, <1>22, <1>23, <1>24, <1>25, <1>26, <1>27, <1>28,
     <1>29, <1>30, <1>31, <1>32, <1>33, <1>34, <1>35, <1>36, <1>37, <1>38, <1>39, NextCases DEF
     Intake, Acts, Decide, Execute, WorkerNext

\* What no step undoes (a row stays, a release that was decided on is never pending
\* again, history grows), and who writes what.
Stay ==
  /\ \A r \in Releases : release[r] # "absent" => release'[r] # "absent"
  /\ \A r \in Releases : release[r] \notin {"absent", "pending"} => release'[r] # "pending"
  /\ \A p \in Approvals :
       approval[p] # "none" => approval'[p] # "none" /\ approvalFor'[p] = approvalFor[p]
  /\ green \subseteq green' /\ touched \subseteq touched' /\ granted \subseteq granted'
  /\ overdue \subseteq overdue' /\ crashes' \in {crashes, crashes + 1} /\ forced' = forced
Writers ==
  /\ \A r \in Releases :
       \/ release'[r] = release[r]
       \/ release'[r] = "blocked" /\ release[r] # "absent"
       \/ Submit(r)
       \/ \E a \in Actors :
            r = ReleaseOf(held[a]) /\ (Claim(a) \/ Deny(a) \/ Store(a) \/ MarkFailure(a))
  /\ touched' = touched \/ \E a \in Actors : RunHost(a)
  /\ guarded' = guarded \/ \E a \in Actors : Guard(a)
  /\ ci' = ci \/ \E r \in Releases, s \in {"running", "success", "failed"} : DeliverCI(r, s)
  /\ claims' = claims \/ \E d \in Deliveries, r \in Releases : AcceptDelivery(d, r)
  /\ forced => \A j \in Jobs : jobStatus[j] = "none" => jobStatus'[j] = "none"

\* What a step inserts refers to a release that has a row.
Exists(t) == t \in Targets /\ release[ReleaseOf(t)] # "absent"
JobInserts ==
  \A j \in Jobs : jobStatus'[j] # "none" =>
    \/ jobStatus[j] # "none" /\ jobTarget'[j] = jobTarget[j]
    \/ Exists(jobTarget'[j])
ApprovalInserts ==
  \A p \in Approvals : approval[p] = "none" =>
    \/ approval'[p] = "none" /\ approvalFor'[p] = approvalFor[p]
    \/ approval'[p] # "none" /\ Exists(approvalFor'[p])
Inserts ==
  /\ JobInserts
  /\ ApprovalInserts
  /\ \A r \in Releases :
       \/ submission'[r] = submission[r]
       \/ submission[r] # "none" /\ submission'[r] # "none"
       \/ Submit(r)
  /\ delivered \subseteq delivered'
  /\ \A d \in Deliveries :
       \/ claims'[d] = claims[d]
       \/ d \in delivered' /\ claims'[d] \in Releases /\ release[claims'[d]] # "absent"

\* A job is inserted with its target, and the other rows stay.
LEMMA EnqueueInserts ==
  ASSUME TypeOK, NEW j \in Jobs, NEW t, Exists(t), Enqueue(j, t)
  PROVE  JobInserts
  BY DEF TypeOK, JobTypeOK, Enqueue, JobInserts, Exists

\* An approval is reused or inserted with its target, and the other rows stay.
LEMMA CreateInserts ==
  ASSUME TypeOK, NEW t, Exists(t), CreateApproval(t) \/ ReuseOrCreateApproval(t)
  PROVE  ApprovalInserts
  BY DEF TypeOK, CreateApproval, ReuseOrCreateApproval, ApprovalInserts, Exists

\* No step undoes these.
LEMMA StayStep ==
  ASSUME TypeOK, Shape, Known, [Next]_vars
  PROVE  Stay
<1> USE NumbersArePositive
<1> USE DEF Stay, TypeOK, JobTypeOK, jobVars, rowVars, ciVars, intakeVars, actorVars, history
<1>1. ASSUME NEW r \in Releases, Submit(r) PROVE Stay
  BY <1>1 DEF Submit, Known, SubmittedRows
<1>2. ASSUME NEW r \in Releases, SubmitGate(r) PROVE Stay
  BY <1>2 DEF SubmitGate
<1>3. ASSUME NEW r \in Releases, SubmitBlock(r) PROVE Stay
  BY <1>3 DEF SubmitBlock
<1>4. ASSUME NEW r \in Releases, Route(r) PROVE Stay
  BY <1>4 DEF Route, ReuseOrCreateApproval, CreateApproval, Enqueue
<1>5. ASSUME NEW r \in Releases, RequestRollback(r) PROVE Stay
  BY <1>5 DEF RequestRollback, CreateApproval, Enqueue
<1>6. ASSUME NEW r \in Releases, NEW s \in {"running", "success", "failed"}, DeliverCI(r, s)
      PROVE  Stay
  BY <1>6 DEF DeliverCI
<1>7. ASSUME NEW r \in Releases, NEW d \in Deliveries, AcceptDelivery(d, r) PROVE Stay
  BY <1>7 DEF AcceptDelivery, ReuseOrCreateApproval, CreateApproval
<1>8. ASSUME NEW d \in Deliveries, QueueDelivery(d) PROVE Stay
  BY <1>8 DEF QueueDelivery, Enqueue
<1>9. ASSUME NEW a \in Actors, Quiet(a) PROVE Stay
  BY <1>9, CalmSteps DEF Calm
<1>10. ASSUME NEW a \in Actors, Reject(a) PROVE Stay
  BY <1>10 DEF Reject, Drop
<1>11. ASSUME NEW a \in Actors, Approve(a) PROVE Stay
  BY <1>11 DEF Approve, Go
<1>12. ASSUME NEW a \in Actors, BlockApproved(a) PROVE Stay
  BY <1>12 DEF BlockApproved, Write, Drop
<1>13. ASSUME NEW a \in Actors, Settle(a) PROVE Stay
  BY <1>13 DEF Settle, Drop
<1>14. ASSUME NEW a \in Actors, NEW j \in Jobs, BeginJob(a, j) PROVE Stay
  BY <1>14 DEF BeginJob, TakeJob
<1>15. ASSUME NEW a \in Actors, GateBlock(a) PROVE Stay
  BY <1>15 DEF GateBlock, Go, Write, See, Returned
<1>16. ASSUME NEW a \in Actors, Claim(a) PROVE Stay
  BY <1>16 DEF Claim, Go, Write, See
<1>17. ASSUME NEW a \in Actors, Deny(a) PROVE Stay
  BY <1>17, HeldTarget, Shape DEF Deny, Go, Write, Shape, ShapeOf
<1>18. ASSUME NEW a \in Actors, RunHost(a) PROVE Stay
  BY <1>18 DEF RunHost, Go
<1>19. ASSUME NEW a \in Actors, Guard(a) PROVE Stay
  BY <1>19 DEF Guard, Go, Write
<1>20. ASSUME NEW a \in Actors, Propose(a) PROVE Stay
  BY <1>20 DEF Propose, Go, Returned, ReuseOrCreateApproval, CreateApproval
<1>21. ASSUME NEW a \in Actors, Store(a) PROVE Stay
  BY <1>21, HeldTarget, Shape DEF Store, Go, Write, Returned, Shape, ShapeOf, Rollbackable
<1>22. ASSUME NEW a \in Actors, Fault(a) PROVE Stay
  BY <1>22 DEF Fault, Drop
<1>23. ASSUME NEW a \in Actors, NEW j \in Jobs, SweepJob(a, j) PROVE Stay
  BY <1>23 DEF SweepJob, ExpireJob
<1>24. ASSUME NEW a \in Actors, MarkFailure(a) PROVE Stay
  BY <1>24 DEF MarkFailure, Go, Write
<1>25. ASSUME NEW a \in Actors, EndJob(a) PROVE Stay
  BY <1>25 DEF EndJob, CloseJob, Release, Drop
<1>26. ASSUME NEW a \in Actors, CrashWorker(a) PROVE Stay
  BY <1>26 DEF CrashWorker, Die, Release, Drop
<1>27. ASSUME NEW j \in Jobs, ExpireInTime(j) PROVE Stay
  BY <1>27 DEF ExpireInTime, Timeout, deployVars
<1>28. CASE UNCHANGED vars
  BY <1>28 DEF vars, deployVars
<1> QED
  BY <1>1, <1>2, <1>3, <1>4, <1>5, <1>6, <1>7, <1>8, <1>9, <1>10, <1>11, <1>12, <1>13, <1>14, <1>15,
     <1>16, <1>17, <1>18, <1>19, <1>20, <1>21, <1>22, <1>23, <1>24, <1>25, <1>26, <1>27, <1>28,
     NextCases DEF Intake, Acts, Decide, Execute, WorkerNext, Quiet

\* What an actor has in hand.
LEMMA ShapeStep ==
  ASSUME TypeOK, Shape, Known, Stay, [Next]_vars, NEW a \in Actors
  PROVE  ShapeOf(a)'
<1> USE OutcomeValues, TargetOf, DeploymentAssumption
<1> ShapeOf(a)
  BY DEF Shape
<1> USE DEF ShapeOf, TypeOK, JobTypeOK, Running, Entering, Rollbackable, jobVars, rowVars, ciVars,
     intakeVars, actorVars, history
<1>1. CASE Same(a)
  BY <1>1 DEF Same, Stay
<1>2. ASSUME a \in Admins, NEW p \in Approvals, ReadApproval(a, p) PROVE ShapeOf(a)'
  BY <1>2, Known DEF ReadApproval, See, Known, ApprovalRows
<1>3. ASSUME a \in Admins, Reject(a) PROVE ShapeOf(a)'
  BY <1>3 DEF Reject, Drop
<1>4. ASSUME a \in Admins, Approve(a) PROVE ShapeOf(a)'
  BY <1>4 DEF Approve, Go
<1>5. ASSUME a \in Admins, CheckApproved(a) PROVE ShapeOf(a)'
  BY <1>5 DEF CheckApproved, Go, Drop
<1>6. ASSUME a \in Admins, BlockApproved(a) PROVE ShapeOf(a)'
  BY <1>6 DEF BlockApproved, Write, Drop
<1>7. ASSUME a \in Admins, Settle(a) PROVE ShapeOf(a)'
  BY <1>7 DEF Settle, Drop
<1>8. ASSUME a \in Workers, NEW j \in Jobs, BeginJob(a, j) PROVE ShapeOf(a)'
  BY <1>8, Known DEF BeginJob, TakeJob, Known, JobRows
<1>9. ASSUME a \in Workers, Load(a) PROVE ShapeOf(a)'
  BY <1>9 DEF Load, Go, See
<1>10. ASSUME Gate(a) PROVE ShapeOf(a)'
  BY <1>10 DEF Gate, Go, Returned
<1>11. ASSUME GateBlock(a) PROVE ShapeOf(a)'
  BY <1>11 DEF GateBlock, Go, Write, See, Returned
<1>12. ASSUME Claim(a) PROVE ShapeOf(a)'
  BY <1>12 DEF Claim, Go, Write, See
<1>13. ASSUME ClaimLost(a) PROVE ShapeOf(a)'
  BY <1>13 DEF ClaimLost, Go, See, Returned
<1>14. ASSUME FindResults(a) PROVE ShapeOf(a)'
  BY <1>14 DEF FindResults, Go, Returned
<1>15. ASSUME TakeOver(a) PROVE ShapeOf(a)'
  BY <1>15 DEF TakeOver, Go, See, Returned
<1>16. ASSUME Policy(a) PROVE ShapeOf(a)'
  BY <1>16 DEF Policy, Go, See
<1>17. ASSUME Deny(a) PROVE ShapeOf(a)'
  BY <1>17 DEF Deny, Go, Write
<1>18. ASSUME Refuse(a) PROVE ShapeOf(a)'
  BY <1>18 DEF Refuse, Go, Returned
<1>19. ASSUME RunHost(a) PROVE ShapeOf(a)'
  BY <1>19 DEF RunHost, Go
<1>20. ASSUME SaveResult(a) PROVE ShapeOf(a)'
  BY <1>20 DEF SaveResult, Continue, Go, See, LastHost, EndOfBatch
<1>21. ASSUME EvaluateHealth(a) PROVE ShapeOf(a)'
  BY <1>21 DEF EvaluateHealth, Continue, Go, See, LastHost
<1>22. ASSUME Guard(a) PROVE ShapeOf(a)'
  BY <1>22 DEF Guard, Go, Write
<1>23. ASSUME Propose(a) PROVE ShapeOf(a)'
  BY <1>23 DEF Propose, Go, Returned, ReuseOrCreateApproval, CreateApproval
<1>24. ASSUME Store(a) PROVE ShapeOf(a)'
  BY <1>24 DEF Store, Go, Write, Returned
<1>25. ASSUME Fault(a) PROVE ShapeOf(a)'
  BY <1>25 DEF Fault, Drop
<1>26. ASSUME a \in Workers, NEW j \in Jobs, SweepJob(a, j) PROVE ShapeOf(a)'
  BY <1>26, Known DEF SweepJob, ExpireJob, Known, JobRows
<1>27. ASSUME a \in Workers, MarkFailure(a) PROVE ShapeOf(a)'
  BY <1>27 DEF MarkFailure, Go, Write
<1>28. ASSUME a \in Workers, EndJob(a) PROVE ShapeOf(a)'
  BY <1>28 DEF EndJob, CloseJob, Release, Drop
<1>29. ASSUME a \in Workers, EndMark(a) PROVE ShapeOf(a)'
  BY <1>29 DEF EndMark, EndMarking, Release, Drop
<1>30. ASSUME a \in Workers, CrashWorker(a) PROVE ShapeOf(a)'
  BY <1>30 DEF CrashWorker, Die, Release, Drop
<1> QED
  BY <1>1, <1>2, <1>3, <1>4, <1>5, <1>6, <1>7, <1>8, <1>9, <1>10, <1>11, <1>12, <1>13, <1>14, <1>15,
     <1>16, <1>17, <1>18, <1>19, <1>20, <1>21, <1>22, <1>23, <1>24, <1>25, <1>26, <1>27, <1>28,
     <1>29, <1>30, Mover DEF Acts, Decide, Execute, WorkerNext

\* Every step writes as Writers says.
LEMMA WritersStep ==
  ASSUME TypeOK, Shape, Known, Consent, [Next]_vars
  PROVE  Writers
<1> USE NumbersArePositive
<1> USE DEF Writers, TypeOK, JobTypeOK, jobVars, rowVars, ciVars, intakeVars, actorVars, history
<1>1. ASSUME NEW r \in Releases, Submit(r) PROVE Writers
  BY <1>1 DEF Submit
<1>2. ASSUME NEW r \in Releases, SubmitGate(r) PROVE Writers
  BY <1>2 DEF SubmitGate
<1>3. ASSUME NEW r \in Releases, SubmitBlock(r) PROVE Writers
  BY <1>3 DEF SubmitBlock, Known, SubmittedRows
<1>4. ASSUME NEW r \in Releases, Route(r) PROVE Writers
  BY <1>4 DEF Route, ReuseOrCreateApproval, CreateApproval, Enqueue
<1>5. ASSUME NEW r \in Releases, RequestRollback(r) PROVE Writers
  BY <1>5 DEF RequestRollback, CreateApproval, Enqueue
<1>6. ASSUME NEW r \in Releases, NEW s \in {"running", "success", "failed"}, DeliverCI(r, s)
      PROVE  Writers
  BY <1>6 DEF DeliverCI
<1>7. ASSUME NEW r \in Releases, NEW d \in Deliveries, AcceptDelivery(d, r) PROVE Writers
  BY <1>7 DEF AcceptDelivery, ReuseOrCreateApproval, CreateApproval
<1>8. ASSUME NEW d \in Deliveries, QueueDelivery(d) PROVE Writers
  BY <1>8, Consent DEF QueueDelivery, Enqueue, Consent, NothingMarked
<1>9. ASSUME NEW a \in Actors, Quiet(a) PROVE Writers
  BY <1>9, CalmSteps DEF Calm
<1>10. ASSUME NEW a \in Actors, Reject(a) PROVE Writers
  BY <1>10 DEF Reject, Drop
<1>11. ASSUME NEW a \in Actors, Approve(a) PROVE Writers
  BY <1>11 DEF Approve, Go
<1>12. ASSUME NEW a \in Actors, BlockApproved(a) PROVE Writers
  BY <1>12, HeldTarget, TargetForm DEF BlockApproved, Write, Drop, Known, HeldRows, HeldRow
<1>13. ASSUME NEW a \in Actors, Settle(a) PROVE Writers
  BY <1>13 DEF Settle, Drop
<1>14. ASSUME NEW a \in Actors, NEW j \in Jobs, BeginJob(a, j) PROVE Writers
  BY <1>14 DEF BeginJob, TakeJob
<1>15. ASSUME NEW a \in Actors, GateBlock(a) PROVE Writers
  BY <1>15, HeldTarget, TargetForm DEF GateBlock, Go, Write, See, Returned, Known, HeldRows, HeldRow
<1>16. ASSUME NEW a \in Actors, Claim(a) PROVE Writers
  BY <1>16, HeldTarget DEF Claim, Go, Write, See
<1>17. ASSUME NEW a \in Actors, Deny(a) PROVE Writers
  BY <1>17, HeldTarget DEF Deny, Go, Write
<1>18. ASSUME NEW a \in Actors, RunHost(a) PROVE Writers
  BY <1>18 DEF RunHost, Go
<1>19. ASSUME NEW a \in Actors, Guard(a) PROVE Writers
  BY <1>19, HeldTarget, TargetForm DEF Guard, Go, Write, Known, HeldRows, HeldRow
<1>20. ASSUME NEW a \in Actors, Propose(a) PROVE Writers
  BY <1>20 DEF Propose, Go, Returned, ReuseOrCreateApproval, CreateApproval
<1>21. ASSUME NEW a \in Actors, Store(a) PROVE Writers
  BY <1>21, HeldTarget DEF Store, Go, Write, Returned
<1>22. ASSUME NEW a \in Actors, Fault(a) PROVE Writers
  BY <1>22 DEF Fault, Drop
<1>23. ASSUME NEW a \in Actors, NEW j \in Jobs, SweepJob(a, j) PROVE Writers
  BY <1>23 DEF SweepJob, ExpireJob
<1>24. ASSUME NEW a \in Actors, MarkFailure(a) PROVE Writers
  BY <1>24, HeldTarget DEF MarkFailure, Go, Write
<1>25. ASSUME NEW a \in Actors, EndJob(a) PROVE Writers
  BY <1>25 DEF EndJob, CloseJob, Release, Drop
<1>26. ASSUME NEW a \in Actors, CrashWorker(a) PROVE Writers
  BY <1>26 DEF CrashWorker, Die, Release, Drop
<1>27. ASSUME NEW j \in Jobs, ExpireInTime(j) PROVE Writers
  BY <1>27 DEF ExpireInTime, Timeout, deployVars
<1>28. CASE UNCHANGED vars
  BY <1>28 DEF vars, deployVars
<1> QED
  BY <1>1, <1>2, <1>3, <1>4, <1>5, <1>6, <1>7, <1>8, <1>9, <1>10, <1>11, <1>12, <1>13, <1>14, <1>15,
     <1>16, <1>17, <1>18, <1>19, <1>20, <1>21, <1>22, <1>23, <1>24, <1>25, <1>26, <1>27, <1>28,
     NextCases DEF Intake, Acts, Decide, Execute, WorkerNext, Quiet

\* Every step inserts as Inserts says.
LEMMA InsertsStep ==
  ASSUME TypeOK, Shape, Known, Stay, [Next]_vars
  PROVE  Inserts
<1> USE NumbersArePositive
<1> USE DEF Inserts, JobInserts, ApprovalInserts, TypeOK, JobTypeOK, jobVars, rowVars, ciVars,
     intakeVars, actorVars, history
<1>1. ASSUME NEW r \in Releases, Submit(r) PROVE Inserts
  BY <1>1 DEF Submit
<1>2. ASSUME NEW r \in Releases, SubmitGate(r) PROVE Inserts
  BY <1>2 DEF SubmitGate
<1>3. ASSUME NEW r \in Releases, SubmitBlock(r) PROVE Inserts
  BY <1>3 DEF SubmitBlock
<1>4. ASSUME NEW r \in Releases, Route(r) PROVE Inserts
  <2>1. Exists(<<"deploy", r>>)
    BY <1>4, TargetOf DEF Route, Exists, Known, SubmittedRows, DeliveryRows
  <2>2. JobInserts
    BY <1>4, <2>1, EnqueueInserts DEF Route
  <2>3. ApprovalInserts
    BY <1>4, <2>1, CreateInserts DEF Route
  <2> QED BY <1>4, <2>2, <2>3 DEF Route
<1>5. ASSUME NEW r \in Releases, RequestRollback(r) PROVE Inserts
  <2>1. Exists(<<"rollback", r>>)
    BY <1>5, TargetOf DEF RequestRollback, Exists, Known, SubmittedRows, DeliveryRows
  <2>2. JobInserts
    BY <1>5, <2>1, EnqueueInserts DEF RequestRollback
  <2>3. ApprovalInserts
    BY <1>5, <2>1, CreateInserts DEF RequestRollback
  <2> QED BY <1>5, <2>2, <2>3 DEF RequestRollback
<1>6. ASSUME NEW r \in Releases, NEW s \in {"running", "success", "failed"}, DeliverCI(r, s)
      PROVE  Inserts
  BY <1>6 DEF DeliverCI
<1>7. ASSUME NEW r \in Releases, NEW d \in Deliveries, AcceptDelivery(d, r) PROVE Inserts
  <2>1. Exists(<<"deploy", r>>)
    BY <1>7, TargetOf DEF AcceptDelivery, Exists, Known, SubmittedRows, DeliveryRows
  <2>2. JobInserts
    BY <1>7, <2>1, EnqueueInserts DEF AcceptDelivery
  <2>3. ApprovalInserts
    BY <1>7, <2>1, CreateInserts DEF AcceptDelivery
  <2> QED BY <1>7, <2>2, <2>3 DEF AcceptDelivery
<1>8. ASSUME NEW d \in Deliveries, QueueDelivery(d) PROVE Inserts
  <2>0. claims[d] \in Releases /\ release[claims[d]] # "absent"
    BY <1>8 DEF QueueDelivery, Known, DeliveryRows
  <2>1. Exists(<<"deploy", claims[d]>>)
    BY <2>0, TargetOf DEF Exists
  <2>2. JobInserts
    BY <1>8, <2>1, EnqueueInserts DEF QueueDelivery
  <2> QED BY <1>8, <2>2 DEF QueueDelivery
<1>9. ASSUME NEW a \in Actors, Quiet(a) PROVE Inserts
  BY <1>9, CalmSteps DEF Calm
<1>10. ASSUME NEW a \in Actors, Reject(a) PROVE Inserts
  BY <1>10 DEF Reject, Drop, Known, HeldRows, HeldRow
<1>11. ASSUME NEW a \in Actors, Approve(a) PROVE Inserts
  BY <1>11 DEF Approve, Go, Known, HeldRows, HeldRow
<1>12. ASSUME NEW a \in Actors, BlockApproved(a) PROVE Inserts
  BY <1>12 DEF BlockApproved, Write, Drop
<1>13. ASSUME NEW a \in Actors, Settle(a) PROVE Inserts
  BY <1>13 DEF Settle, Drop, Known, HeldRows, HeldRow
<1>14. ASSUME NEW a \in Actors, NEW j \in Jobs, BeginJob(a, j) PROVE Inserts
  BY <1>14 DEF BeginJob, TakeJob
<1>15. ASSUME NEW a \in Actors, GateBlock(a) PROVE Inserts
  BY <1>15 DEF GateBlock, Go, Write, See, Returned
<1>16. ASSUME NEW a \in Actors, Claim(a) PROVE Inserts
  BY <1>16 DEF Claim, Go, Write, See
<1>17. ASSUME NEW a \in Actors, Deny(a) PROVE Inserts
  BY <1>17 DEF Deny, Go, Write
<1>18. ASSUME NEW a \in Actors, RunHost(a) PROVE Inserts
  BY <1>18 DEF RunHost, Go
<1>19. ASSUME NEW a \in Actors, Guard(a) PROVE Inserts
  BY <1>19 DEF Guard, Go, Write
<1>20. ASSUME NEW a \in Actors, Propose(a) PROVE Inserts
  <2>0. held[a] \in Targets /\ ReleaseOf(held[a]) \in Releases
    BY <1>20, HeldTarget DEF Propose, Go
  <2>1. Exists(<<"rollback", ReleaseOf(held[a])>>)
    BY <2>0, TargetOf, TargetForm DEF Exists, Known, HeldRows, HeldRow
  <2>2. ApprovalInserts
    BY <1>20, <2>1, CreateInserts DEF Propose
  <2> QED BY <1>20, <2>2 DEF Propose
<1>21. ASSUME NEW a \in Actors, Store(a) PROVE Inserts
  BY <1>21 DEF Store, Go, Write, Returned
<1>22. ASSUME NEW a \in Actors, Fault(a) PROVE Inserts
  BY <1>22 DEF Fault, Drop
<1>23. ASSUME NEW a \in Actors, NEW j \in Jobs, SweepJob(a, j) PROVE Inserts
  BY <1>23 DEF SweepJob, ExpireJob
<1>24. ASSUME NEW a \in Actors, MarkFailure(a) PROVE Inserts
  BY <1>24 DEF MarkFailure, Go, Write
<1>25. ASSUME NEW a \in Actors, EndJob(a) PROVE Inserts
  BY <1>25 DEF EndJob, CloseJob, Release, Drop
<1>26. ASSUME NEW a \in Actors, CrashWorker(a) PROVE Inserts
  BY <1>26 DEF CrashWorker, Die, Release, Drop
<1>27. ASSUME NEW j \in Jobs, ExpireInTime(j) PROVE Inserts
  BY <1>27 DEF ExpireInTime, Timeout, deployVars
<1>28. CASE UNCHANGED vars
  BY <1>28 DEF vars, deployVars
<1> QED
  BY <1>1, <1>2, <1>3, <1>4, <1>5, <1>6, <1>7, <1>8, <1>9, <1>10, <1>11, <1>12, <1>13, <1>14, <1>15,
     <1>16, <1>17, <1>18, <1>19, <1>20, <1>21, <1>22, <1>23, <1>24, <1>25, <1>26, <1>27, <1>28,
     NextCases DEF Intake, Acts, Decide, Execute, WorkerNext, Quiet

\* Whatever is referred to was submitted.
LEMMA RowsStep ==
  ASSUME TypeOK, Shape, Known, Stay, Writers, Inserts
  PROVE  SubmittedRows' /\ JobRows' /\ ApprovalRows' /\ DeliveryRows'
<1> USE DEF Known
<1>1. SubmittedRows'
  <2> SUFFICES ASSUME NEW r \in Releases
               PROVE (submission'[r] = "none") <=> (release'[r] = "absent")
    BY DEF SubmittedRows
  <2>1. CASE Submit(r)
    BY <2>1 DEF Submit, TypeOK
  <2>2. ASSUME NEW a \in Actors, r = ReleaseOf(held[a]), Claim(a) \/ Deny(a) \/ Store(a) \/
       MarkFailure(a)
        PROVE  release[r] # "absent"
    BY <2>2, HeldTarget, TargetForm DEF Claim, Deny, Store, MarkFailure, Go, HeldRows, HeldRow
  <2> QED BY <2>1, <2>2 DEF Writers, Inserts, Stay, SubmittedRows
<1>2. \A t \in Targets : Exists(t) => Exists(t)'
  BY TargetForm DEF Exists, Stay
<1>3. JobRows'
  BY <1>2, TargetForm DEF JobRows, Inserts, JobInserts, Stay, Exists
<1>4. ApprovalRows'
  BY <1>2, TargetForm DEF ApprovalRows, Inserts, ApprovalInserts, Stay, Exists
<1>5. DeliveryRows'
  BY DEF DeliveryRows, Inserts, Stay, TypeOK
<1> QED BY <1>1, <1>3, <1>4, <1>5

\* What an actor has in hand was submitted.
LEMMA HeldStep ==
  ASSUME TypeOK, Shape, Known, Stay, [Next]_vars, NEW a \in Actors
  PROVE  HeldRow(a)'
<1> USE TargetForm, NumbersArePositive
<1> HeldRow(a)
  BY DEF Known, HeldRows
<1> USE DEF HeldRow, TypeOK, JobTypeOK, jobVars, rowVars, ciVars, intakeVars, actorVars, history
<1>1. CASE Same(a)
  BY <1>1 DEF Same, Stay
<1>2. ASSUME a \in Admins, NEW p \in Approvals, ReadApproval(a, p) PROVE HeldRow(a)'
  BY <1>2 DEF ReadApproval, See, Known, ApprovalRows
<1>3. ASSUME a \in Admins, Reject(a) PROVE HeldRow(a)'
  BY <1>3 DEF Reject, Drop
<1>4. ASSUME a \in Admins, Approve(a) PROVE HeldRow(a)'
  BY <1>4 DEF Approve, Go
<1>5. ASSUME a \in Admins, CheckApproved(a) PROVE HeldRow(a)'
  BY <1>5 DEF CheckApproved, Go, Drop
<1>6. ASSUME a \in Admins, BlockApproved(a) PROVE HeldRow(a)'
  BY <1>6 DEF BlockApproved, Write, Drop
<1>7. ASSUME a \in Admins, Settle(a) PROVE HeldRow(a)'
  BY <1>7 DEF Settle, Drop
<1>8. ASSUME a \in Workers, NEW j \in Jobs, BeginJob(a, j) PROVE HeldRow(a)'
  BY <1>8 DEF BeginJob, TakeJob, Known, JobRows
<1>9. ASSUME a \in Workers, Load(a) PROVE HeldRow(a)'
  BY <1>9 DEF Load, Go, See
<1>10. ASSUME Gate(a) PROVE HeldRow(a)'
  BY <1>10 DEF Gate, Go, Returned
<1>11. ASSUME GateBlock(a) PROVE HeldRow(a)'
  BY <1>11 DEF GateBlock, Go, Write, See, Returned
<1>12. ASSUME Claim(a) PROVE HeldRow(a)'
  BY <1>12 DEF Claim, Go, Write, See
<1>13. ASSUME ClaimLost(a) PROVE HeldRow(a)'
  BY <1>13 DEF ClaimLost, Go, See, Returned
<1>14. ASSUME FindResults(a) PROVE HeldRow(a)'
  BY <1>14 DEF FindResults, Go, Returned
<1>15. ASSUME TakeOver(a) PROVE HeldRow(a)'
  BY <1>15 DEF TakeOver, Go, See, Returned
<1>16. ASSUME Policy(a) PROVE HeldRow(a)'
  BY <1>16 DEF Policy, Go, See
<1>17. ASSUME Deny(a) PROVE HeldRow(a)'
  BY <1>17, HeldTarget, Shape DEF Deny, Go, Write, Shape, ShapeOf, Rollbackable
<1>18. ASSUME Refuse(a) PROVE HeldRow(a)'
  BY <1>18 DEF Refuse, Go, Returned
<1>19. ASSUME RunHost(a) PROVE HeldRow(a)'
  BY <1>19 DEF RunHost, Go
<1>20. ASSUME SaveResult(a) PROVE HeldRow(a)'
  BY <1>20 DEF SaveResult, Continue, Go, See
<1>21. ASSUME EvaluateHealth(a) PROVE HeldRow(a)'
  BY <1>21 DEF EvaluateHealth, Continue, Go, See
<1>22. ASSUME Guard(a) PROVE HeldRow(a)'
  BY <1>22 DEF Guard, Go, Write
<1>23. ASSUME Propose(a) PROVE HeldRow(a)'
  BY <1>23 DEF Propose, Go, Returned, ReuseOrCreateApproval, CreateApproval
<1>24. ASSUME Store(a) PROVE HeldRow(a)'
  BY <1>24, HeldTarget, Shape DEF Store, Go, Write, Returned, Shape, ShapeOf, Rollbackable
<1>25. ASSUME Fault(a) PROVE HeldRow(a)'
  BY <1>25 DEF Fault, Drop
<1>26. ASSUME a \in Workers, NEW j \in Jobs, SweepJob(a, j) PROVE HeldRow(a)'
  BY <1>26 DEF SweepJob, ExpireJob, Known, JobRows
<1>27. ASSUME a \in Workers, MarkFailure(a) PROVE HeldRow(a)'
  BY <1>27 DEF MarkFailure, Go, Write
<1>28. ASSUME a \in Workers, EndJob(a) PROVE HeldRow(a)'
  BY <1>28 DEF EndJob, CloseJob, Release, Drop
<1>29. ASSUME a \in Workers, EndMark(a) PROVE HeldRow(a)'
  BY <1>29 DEF EndMark, EndMarking, Release, Drop
<1>30. ASSUME a \in Workers, CrashWorker(a) PROVE HeldRow(a)'
  BY <1>30 DEF CrashWorker, Die, Release, Drop
<1> QED
  BY <1>1, <1>2, <1>3, <1>4, <1>5, <1>6, <1>7, <1>8, <1>9, <1>10, <1>11, <1>12, <1>13, <1>14, <1>15,
     <1>16, <1>17, <1>18, <1>19, <1>20, <1>21, <1>22, <1>23, <1>24, <1>25, <1>26, <1>27, <1>28,
     <1>29, <1>30, Mover DEF Acts, Decide, Execute, WorkerNext

\* Who is past a decision was approved.
LEMMA ConsentStep ==
  ASSUME TypeOK, Shape, Known, Consent, Stay, [Next]_vars, NEW a \in Actors
  PROVE  ConsentOf(a)'
<1> ConsentOf(a)
  BY DEF Consent
<1> USE DEF ConsentOf, Stay, TypeOK, JobTypeOK, jobVars, rowVars, ciVars, intakeVars, actorVars,
     history
<1>1. CASE Same(a)
  BY <1>1 DEF Same, Stay
<1>2. ASSUME a \in Admins, NEW p \in Approvals, ReadApproval(a, p) PROVE ConsentOf(a)'
  BY <1>2 DEF ReadApproval, See
<1>3. ASSUME a \in Admins, Reject(a) PROVE ConsentOf(a)'
  BY <1>3 DEF Reject, Drop
<1>4. ASSUME a \in Admins, Approve(a) PROVE ConsentOf(a)'
  BY <1>4 DEF Approve, Go
<1>5. ASSUME a \in Admins, CheckApproved(a) PROVE ConsentOf(a)'
  BY <1>5 DEF CheckApproved, Go, Drop
<1>6. ASSUME a \in Admins, BlockApproved(a) PROVE ConsentOf(a)'
  BY <1>6 DEF BlockApproved, Write, Drop
<1>7. ASSUME a \in Admins, Settle(a) PROVE ConsentOf(a)'
  BY <1>7 DEF Settle, Drop
<1>8. ASSUME a \in Workers, NEW j \in Jobs, BeginJob(a, j) PROVE ConsentOf(a)'
  BY <1>8 DEF BeginJob, TakeJob, Consent, NothingQueued
<1>9. ASSUME a \in Workers, Load(a) PROVE ConsentOf(a)'
  BY <1>9 DEF Load, Go, See
<1>10. ASSUME Gate(a) PROVE ConsentOf(a)'
  BY <1>10 DEF Gate, Go, Returned
<1>11. ASSUME GateBlock(a) PROVE ConsentOf(a)'
  BY <1>11 DEF GateBlock, Go, Write, See, Returned
<1>12. ASSUME Claim(a) PROVE ConsentOf(a)'
  BY <1>12 DEF Claim, Go, Write, See
<1>13. ASSUME ClaimLost(a) PROVE ConsentOf(a)'
  BY <1>13 DEF ClaimLost, Go, See, Returned
<1>14. ASSUME FindResults(a) PROVE ConsentOf(a)'
  BY <1>14 DEF FindResults, Go, Returned
<1>15. ASSUME TakeOver(a) PROVE ConsentOf(a)'
  BY <1>15 DEF TakeOver, Go, See, Returned
<1>16. ASSUME Policy(a) PROVE ConsentOf(a)'
  BY <1>16 DEF Policy, Go, See
<1>17. ASSUME Deny(a) PROVE ConsentOf(a)'
  BY <1>17 DEF Deny, Go, Write
<1>18. ASSUME Refuse(a) PROVE ConsentOf(a)'
  BY <1>18 DEF Refuse, Go, Returned
<1>19. ASSUME RunHost(a) PROVE ConsentOf(a)'
  BY <1>19 DEF RunHost, Go
<1>20. ASSUME SaveResult(a) PROVE ConsentOf(a)'
  BY <1>20 DEF SaveResult, Continue, Go, See
<1>21. ASSUME EvaluateHealth(a) PROVE ConsentOf(a)'
  BY <1>21 DEF EvaluateHealth, Continue, Go, See
<1>22. ASSUME Guard(a) PROVE ConsentOf(a)'
  BY <1>22 DEF Guard, Go, Write
<1>23. ASSUME Propose(a) PROVE ConsentOf(a)'
  BY <1>23 DEF Propose, Go, Returned, ReuseOrCreateApproval, CreateApproval
<1>24. ASSUME Store(a) PROVE ConsentOf(a)'
  BY <1>24 DEF Store, Go, Write, Returned
<1>25. ASSUME Fault(a) PROVE ConsentOf(a)'
  BY <1>25 DEF Fault, Drop, Entering, Running
<1>26. ASSUME a \in Workers, NEW j \in Jobs, SweepJob(a, j) PROVE ConsentOf(a)'
  BY <1>26 DEF SweepJob, ExpireJob, Consent, NothingQueued
<1>27. ASSUME a \in Workers, MarkFailure(a) PROVE ConsentOf(a)'
  BY <1>27 DEF MarkFailure, Go, Write
<1>28. ASSUME a \in Workers, EndJob(a) PROVE ConsentOf(a)'
  BY <1>28 DEF EndJob, CloseJob, Release, Drop
<1>29. ASSUME a \in Workers, EndMark(a) PROVE ConsentOf(a)'
  BY <1>29 DEF EndMark, EndMarking, Release, Drop
<1>30. ASSUME a \in Workers, CrashWorker(a) PROVE ConsentOf(a)'
  BY <1>30 DEF CrashWorker, Die, Release, Drop
<1> QED
  BY <1>1, <1>2, <1>3, <1>4, <1>5, <1>6, <1>7, <1>8, <1>9, <1>10, <1>11, <1>12, <1>13, <1>14, <1>15,
     <1>16, <1>17, <1>18, <1>19, <1>20, <1>21, <1>22, <1>23, <1>24, <1>25, <1>26, <1>27, <1>28,
     <1>29, <1>30, Mover DEF Acts, Decide, Execute, WorkerNext

\* Who may start a release was cleared by CI.
LEMMA ClearStep ==
  ASSUME TypeOK, Shape, Known, Cleared, Stay, [Next]_vars, NEW a \in Actors
  PROVE  ClearOf(a)'
<1> ClearOf(a) /\ GreenRows /\ ClearRows /\ HeldRow(a) /\ ShapeOf(a)
  BY DEF Cleared, Known, HeldRows, Shape
<1> USE DEF ClearOf, Clear, Undisturbed, HeldRow, Stay, Running, TypeOK, JobTypeOK, jobVars,
     rowVars, ciVars, intakeVars, actorVars, history
<1>1. CASE Same(a)
  <2>1. ReleaseOf(held[a]) \in Releases \/ step[a] = "rest"
    BY HeldTarget
  <2> QED BY <1>1, <2>1, TargetForm DEF Same, ShapeOf
<1>2. ASSUME a \in Admins, NEW p \in Approvals, ReadApproval(a, p) PROVE ClearOf(a)'
  BY <1>2 DEF ReadApproval, See
<1>3. ASSUME a \in Admins, Reject(a) PROVE ClearOf(a)'
  BY <1>3 DEF Reject, Drop
<1>4. ASSUME a \in Admins, Approve(a) PROVE ClearOf(a)'
  BY <1>4 DEF Approve, Go
<1>5. ASSUME a \in Admins, CheckApproved(a) PROVE ClearOf(a)'
  BY <1>5, TargetForm DEF CheckApproved, Go, Drop, Green, GreenRows, ShapeOf
<1>6. ASSUME a \in Admins, BlockApproved(a) PROVE ClearOf(a)'
  BY <1>6 DEF BlockApproved, Write, Drop
<1>7. ASSUME a \in Admins, Settle(a) PROVE ClearOf(a)'
  BY <1>7 DEF Settle, Drop
<1>8. ASSUME a \in Workers, NEW j \in Jobs, BeginJob(a, j) PROVE ClearOf(a)'
  BY <1>8 DEF BeginJob, TakeJob
<1>9. ASSUME a \in Workers, Load(a) PROVE ClearOf(a)'
  BY <1>9 DEF Load, Go, See
<1>10. ASSUME Gate(a) PROVE ClearOf(a)'
  BY <1>10, TargetForm DEF Gate, Go, Returned, Green, Red, GreenRows, ShapeOf, Returned
<1>11. ASSUME GateBlock(a) PROVE ClearOf(a)'
  BY <1>11 DEF GateBlock, Go, Write, See, Returned
<1>12. ASSUME Claim(a) PROVE ClearOf(a)'
  BY <1>12, TargetForm DEF Claim, Go, Write, See, Claimable, ClearRows, ShapeOf, Rollbackable
<1>13. ASSUME ClaimLost(a) PROVE ClearOf(a)'
  BY <1>13 DEF ClaimLost, Go, See, Returned
<1>14. ASSUME FindResults(a) PROVE ClearOf(a)'
  BY <1>14 DEF FindResults, Go, Returned
<1>15. ASSUME TakeOver(a) PROVE ClearOf(a)'
  BY <1>15, TargetForm DEF TakeOver, Go, See, Returned, ClearRows, ShapeOf
<1>16. ASSUME Policy(a) PROVE ClearOf(a)'
  BY <1>16 DEF Policy, Go, See
<1>17. ASSUME Deny(a) PROVE ClearOf(a)'
  BY <1>17 DEF Deny, Go, Write
<1>18. ASSUME Refuse(a) PROVE ClearOf(a)'
  BY <1>18 DEF Refuse, Go, Returned
<1>19. ASSUME RunHost(a) PROVE ClearOf(a)'
  BY <1>19 DEF RunHost, Go
<1>20. ASSUME SaveResult(a) PROVE ClearOf(a)'
  BY <1>20 DEF SaveResult, Continue, Go, See
<1>21. ASSUME EvaluateHealth(a) PROVE ClearOf(a)'
  BY <1>21 DEF EvaluateHealth, Continue, Go, See
<1>22. ASSUME Guard(a) PROVE ClearOf(a)'
  BY <1>22 DEF Guard, Go, Write
<1>23. ASSUME Propose(a) PROVE ClearOf(a)'
  BY <1>23 DEF Propose, Go, Returned, ReuseOrCreateApproval, CreateApproval
<1>24. ASSUME Store(a) PROVE ClearOf(a)'
  BY <1>24 DEF Store, Go, Write, Returned
<1>25. ASSUME Fault(a) PROVE ClearOf(a)'
  BY <1>25 DEF Fault, Drop
<1>26. ASSUME a \in Workers, NEW j \in Jobs, SweepJob(a, j) PROVE ClearOf(a)'
  BY <1>26 DEF SweepJob, ExpireJob
<1>27. ASSUME a \in Workers, MarkFailure(a) PROVE ClearOf(a)'
  BY <1>27 DEF MarkFailure, Go, Write
<1>28. ASSUME a \in Workers, EndJob(a) PROVE ClearOf(a)'
  BY <1>28 DEF EndJob, CloseJob, Release, Drop
<1>29. ASSUME a \in Workers, EndMark(a) PROVE ClearOf(a)'
  BY <1>29 DEF EndMark, EndMarking, Release, Drop
<1>30. ASSUME a \in Workers, CrashWorker(a) PROVE ClearOf(a)'
  BY <1>30 DEF CrashWorker, Die, Release, Drop
<1> QED
  BY <1>1, <1>2, <1>3, <1>4, <1>5, <1>6, <1>7, <1>8, <1>9, <1>10, <1>11, <1>12, <1>13, <1>14, <1>15,
     <1>16, <1>17, <1>18, <1>19, <1>20, <1>21, <1>22, <1>23, <1>24, <1>25, <1>26, <1>27, <1>28,
     <1>29, <1>30, Mover DEF Acts, Decide, Execute, WorkerNext

\* Who is past a host ran the script there.
LEMMA CoveredStep ==
  ASSUME TypeOK, Shape, Known, Covered, Stay, [Next]_vars, NEW a \in Actors
  PROVE  CoveredOf(a)'
<1> USE DeploymentAssumption
<1> CoveredOf(a) /\ ShapeOf(a)
  BY DEF Covered, Shape
<1> USE DEF CoveredOf, Ran, Stay, TypeOK, jobVars, rowVars, ciVars, intakeVars, actorVars, history
<1>1. CASE Same(a)
  BY <1>1 DEF Same, Stay
<1>2. ASSUME a \in Admins, NEW p \in Approvals, ReadApproval(a, p) PROVE CoveredOf(a)'
  BY <1>2 DEF ReadApproval, See
<1>3. ASSUME a \in Admins, Reject(a) PROVE CoveredOf(a)'
  BY <1>3 DEF Reject, Drop
<1>4. ASSUME a \in Admins, Approve(a) PROVE CoveredOf(a)'
  BY <1>4 DEF Approve, Go
<1>5. ASSUME a \in Admins, CheckApproved(a) PROVE CoveredOf(a)'
  BY <1>5 DEF CheckApproved, Go, Drop
<1>6. ASSUME a \in Admins, BlockApproved(a) PROVE CoveredOf(a)'
  BY <1>6 DEF BlockApproved, Write, Drop
<1>7. ASSUME a \in Admins, Settle(a) PROVE CoveredOf(a)'
  BY <1>7 DEF Settle, Drop
<1>8. ASSUME a \in Workers, NEW j \in Jobs, BeginJob(a, j) PROVE CoveredOf(a)'
  BY <1>8 DEF BeginJob, TakeJob
<1>9. ASSUME a \in Workers, Load(a) PROVE CoveredOf(a)'
  BY <1>9 DEF Load, Go, See
<1>10. ASSUME Gate(a) PROVE CoveredOf(a)'
  BY <1>10 DEF Gate, Go, Returned
<1>11. ASSUME GateBlock(a) PROVE CoveredOf(a)'
  BY <1>11 DEF GateBlock, Go, Write, See, Returned
<1>12. ASSUME Claim(a) PROVE CoveredOf(a)'
  BY <1>12 DEF Claim, Go, Write, See
<1>13. ASSUME ClaimLost(a) PROVE CoveredOf(a)'
  BY <1>13 DEF ClaimLost, Go, See, Returned
<1>14. ASSUME FindResults(a) PROVE CoveredOf(a)'
  BY <1>14 DEF FindResults, Go, Returned
<1>15. ASSUME TakeOver(a) PROVE CoveredOf(a)'
  BY <1>15 DEF TakeOver, Go, See, Returned
<1>16. ASSUME Policy(a) PROVE CoveredOf(a)'
  BY <1>16 DEF Policy, Go, See
<1>17. ASSUME Deny(a) PROVE CoveredOf(a)'
  BY <1>17 DEF Deny, Go, Write
<1>18. ASSUME Refuse(a) PROVE CoveredOf(a)'
  BY <1>18 DEF Refuse, Go, Returned
<1>19. ASSUME RunHost(a) PROVE CoveredOf(a)'
  BY <1>19 DEF RunHost, Go
<1>20. ASSUME SaveResult(a) PROVE CoveredOf(a)'
  BY <1>20 DEF SaveResult, Continue, Go, See, LastHost, ShapeOf
<1>21. ASSUME EvaluateHealth(a) PROVE CoveredOf(a)'
  BY <1>21 DEF EvaluateHealth, Continue, Go, See, LastHost, ShapeOf
<1>22. ASSUME Guard(a) PROVE CoveredOf(a)'
  BY <1>22 DEF Guard, Go, Write
<1>23. ASSUME Propose(a) PROVE CoveredOf(a)'
  BY <1>23 DEF Propose, Go, Returned, ReuseOrCreateApproval, CreateApproval
<1>24. ASSUME Store(a) PROVE CoveredOf(a)'
  BY <1>24 DEF Store, Go, Write, Returned
<1>25. ASSUME Fault(a) PROVE CoveredOf(a)'
  BY <1>25 DEF Fault, Drop
<1>26. ASSUME a \in Workers, NEW j \in Jobs, SweepJob(a, j) PROVE CoveredOf(a)'
  BY <1>26 DEF SweepJob, ExpireJob
<1>27. ASSUME a \in Workers, MarkFailure(a) PROVE CoveredOf(a)'
  BY <1>27 DEF MarkFailure, Go, Write
<1>28. ASSUME a \in Workers, EndJob(a) PROVE CoveredOf(a)'
  BY <1>28 DEF EndJob, CloseJob, Release, Drop
<1>29. ASSUME a \in Workers, EndMark(a) PROVE CoveredOf(a)'
  BY <1>29 DEF EndMark, EndMarking, Release, Drop
<1>30. ASSUME a \in Workers, CrashWorker(a) PROVE CoveredOf(a)'
  BY <1>30 DEF CrashWorker, Die, Release, Drop
<1> QED
  BY <1>1, <1>2, <1>3, <1>4, <1>5, <1>6, <1>7, <1>8, <1>9, <1>10, <1>11, <1>12, <1>13, <1>14, <1>15,
     <1>16, <1>17, <1>18, <1>19, <1>20, <1>21, <1>22, <1>23, <1>24, <1>25, <1>26, <1>27, <1>28,
     <1>29, <1>30, Mover DEF Acts, Decide, Execute, WorkerNext

\* With the setting on, nothing is queued or marked and no host runs without approval.
LEMMA ForcedStep ==
  ASSUME TypeOK, Shape, Consent, Stay, Writers
  PROVE  NothingQueued' /\ NothingMarked' /\ ForcedApprovalRespected'
<1>1. NothingQueued'
  BY DEF Consent, NothingQueued, Stay, Writers
<1>2. NothingMarked'
  <2>1. CASE claims' = claims
    BY <2>1 DEF Consent, NothingMarked, Stay
  <2>2. ASSUME NEW d \in Deliveries, NEW r \in Releases, AcceptDelivery(d, r), forced
        PROVE  claims' = claims
    BY <2>2 DEF AcceptDelivery
  <2> QED BY <2>1, <2>2 DEF Consent, NothingMarked, Stay, Writers
<1>3. ForcedApprovalRespected'
  <2>1. CASE touched' = touched
    BY <2>1 DEF Consent, ForcedApprovalRespected, Stay
  <2>2. ASSUME NEW a \in Actors, RunHost(a) PROVE ForcedApprovalRespected'
    <3>1. forced => held[a] \in granted
      BY <2>2 DEF RunHost, Go, Consent, ConsentOf
    <3> QED BY <2>2, <3>1 DEF RunHost, Consent, ForcedApprovalRespected, Stay
  <2> QED BY <2>1, <2>2 DEF Writers
<1> QED BY <1>1, <1>2, <1>3

\* What CI cleared: nothing but an actor past its gate starts a release or runs a host.
LEMMA ClearedStep ==
  ASSUME TypeOK, Shape, Known, Cleared, Stay, Writers
  PROVE  GreenRows' /\ ClearRows' /\ GateRespected'
<1>0. Undisturbed' => Undisturbed
  BY DEF Undisturbed, Stay, TypeOK
<1>1. GreenRows'
  <2>1. CASE ci' = ci
    BY <2>1 DEF Cleared, GreenRows, Stay
  <2>2. ASSUME NEW r \in Releases, NEW s \in {"running", "success", "failed"}, DeliverCI(r, s)
        PROVE  GreenRows'
    BY <2>2 DEF DeliverCI, Cleared, GreenRows, TypeOK
  <2> QED BY <2>1, <2>2 DEF Writers
<1>2. ClearRows'
  <2> SUFFICES ASSUME NEW r \in Releases, Undisturbed',
                      release'[r] \in {"running", "success", "partial", "failed", "rolled_back"}
               PROVE  Clear(r)'
    BY DEF ClearRows
  <2>1. CASE release'[r] = release[r]
    BY <1>0, <2>1 DEF Cleared, ClearRows, Clear, Stay
  <2>2. CASE Submit(r)
    BY <2>2 DEF Submit, TypeOK
  <2>3. ASSUME NEW a \in Actors, r = ReleaseOf(held[a]), Claim(a) PROVE Clear(r)
    <3>1. IsDeploy(held[a]) => Clear(r) \/ release[r] # "pending"
      BY <1>0, <2>3 DEF Claim, Go, Cleared, ClearOf
    <3>2. release[r] \in IF IsDeploy(held[a]) THEN {"pending"} ELSE Rollbackable
      BY <2>3 DEF Claim, Claimable
    <3> QED BY <1>0, <3>1, <3>2 DEF Cleared, ClearRows, Rollbackable
  <2>4. ASSUME NEW a \in Actors, r = ReleaseOf(held[a]), Deny(a) \/ Store(a) PROVE Clear(r)
    BY <1>0, <2>4 DEF Deny, Store, Go, Running, Cleared, ClearOf
  <2>5. ASSUME NEW a \in Actors, MarkFailure(a) PROVE FALSE
    BY <1>0, <2>5 DEF MarkFailure, Go, Shape, ShapeOf, Undisturbed, TypeOK
  <2> QED BY <2>1, <2>2, <2>3, <2>4, <2>5 DEF Writers, Clear, Stay
<1>3. GateRespected'
  <2>1. CASE touched' = touched
    BY <1>0, <2>1 DEF Cleared, GateRespected, Undisturbed, Stay, TypeOK
  <2>2. ASSUME NEW a \in Actors, RunHost(a) PROVE GateRespected'
    <3>1. Undisturbed => Clear(ReleaseOf(held[a]))
      BY <2>2 DEF RunHost, Go, Running, Cleared, ClearOf
    <3>2. touched' = touched \cup {<<held[a], at[a]>>}
      BY <2>2 DEF RunHost
    <3> QED BY <1>0, <3>1, <3>2 DEF Cleared, Clear, GateRespected, Undisturbed, Stay, TypeOK
  <2> QED BY <2>1, <2>2 DEF Writers
<1> QED BY <1>1, <1>2, <1>3

\* What a status tells: success and rolled_back are written by Store only, behind the hosts.
LEMMA StatusStep ==
  ASSUME TypeOK, Shape, Covered, Stay, Writers
  PROVE  StatusTellsHosts'
<1> SUFFICES ASSUME NEW r \in Releases
             PROVE  /\ release'[r] = "success" =>
                         \A h \in 1..Hosts : <<<<"deploy", r>>, h>> \in touched
                    /\ release'[r] = "rolled_back" =>
                         \E h \in 1..Hosts : <<<<"rollback", r>>, h>> \in touched
  BY DEF StatusTellsHosts, Stay
<1>1. CASE release'[r] = release[r]
  BY <1>1 DEF Covered, StatusTellsHosts
<1>2. CASE Submit(r)
  BY <1>2 DEF Submit, TypeOK
<1>3. ASSUME NEW a \in Actors, r = ReleaseOf(held[a]), Claim(a) \/ Deny(a) \/ MarkFailure(a)
      PROVE  release'[r] \notin {"success", "rolled_back"}
  BY <1>3 DEF Claim, Deny, MarkFailure, Go, Write, Shape, ShapeOf, TypeOK
<1>4. ASSUME NEW a \in Actors, r = ReleaseOf(held[a]), Store(a), release'[r] \in {"success",
     "rolled_back"}
      PROVE  /\ \A h \in 1..Hosts : <<held[a], h>> \in touched
             /\ held[a] = IF release'[r] = "success" THEN <<"deploy", r>> ELSE <<"rollback", r>>
  <2>1. release'[r] = seen[a] /\ step[a] = "store"
    BY <1>4 DEF Store, Go, Write, TypeOK
  <2>2. Ran(held[a], Hosts)
    BY <1>4, <2>1 DEF Covered, CoveredOf
  <2>3. IsDeploy(held[a]) <=> seen[a] = "success"
    BY <1>4, <2>1 DEF Shape, ShapeOf, Rollbackable
  <2> QED BY <1>4, <2>1, <2>2, <2>3, HeldTarget, TargetForm DEF Ran
<1>5. 1 \in 1..Hosts
  BY DeploymentAssumption
<1> QED BY <1>1, <1>2, <1>3, <1>4, <1>5 DEF Writers

\* A delivery marks a release that no other has marked.
LEMMA MarkStep ==
  ASSUME TypeOK, Known, QueuedByOneDelivery, Writers
  PROVE  QueuedByOneDelivery'
<1>1. CASE claims' = claims
  BY <1>1 DEF QueuedByOneDelivery
<1>2. ASSUME NEW d \in Deliveries, NEW r \in Releases, AcceptDelivery(d, r)
      PROVE  QueuedByOneDelivery'
  <2>1. CASE claims' = claims
    BY <2>1 DEF QueuedByOneDelivery
  <2>2. CASE claims' = [claims EXCEPT ![d] = r] /\ r \notin Marked
    <3>1. \A e \in Deliveries : claims[e] # r
      BY <2>2, TargetOf DEF Marked, Known, DeliveryRows
    <3> QED BY <2>2, <3>1 DEF QueuedByOneDelivery, TypeOK
  <2> QED BY <1>2, <2>1, <2>2 DEF AcceptDelivery
<1> QED BY <1>1, <1>2 DEF Writers

\* The proposal of a rollback outlives everything but the failure of its process.
LEMMA ProposalStep ==
  ASSUME TypeOK, Shape, Known, Proposed, Stay, Writers, [Next]_vars
  PROVE  GuardProposes'
<1> SUFFICES ASSUME NEW r \in guarded'
             PROVE  \/ crashes' > 0
                    \/ \E a \in Actors : step'[a] = "propose" /\ held'[a] = <<"deploy", r>>
                    \/ \E p \in Approvals : approvalFor'[p] = <<"rollback", r>>
  BY DEF GuardProposes
<1>1. ASSUME NEW a \in Actors, Guard(a), r = ReleaseOf(held[a])
      PROVE  step'[a] = "propose" /\ held'[a] = <<"deploy", r>>
  <2>1. IsDeploy(held[a]) /\ held[a] \in Targets
    BY <1>1, HeldTarget DEF Guard, Go, Shape, ShapeOf
  <2> QED BY <1>1, <2>1, TargetForm DEF Guard, Go, TypeOK
<1>2. CASE r \in guarded
  <2>0. /\ r \in Releases /\ <<"rollback", r>> # NoTarget
        /\ ReleaseOf(<<"deploy", r>>) = r
    BY <1>2, TargetOf DEF TypeOK
  <2>1. CASE crashes > 0
    BY <2>1 DEF Stay, TypeOK
  <2>2. ASSUME NEW p \in Approvals, approvalFor[p] = <<"rollback", r>>
        PROVE  approvalFor'[p] = <<"rollback", r>>
    BY <2>0, <2>2 DEF Stay, Known, ApprovalRows
  <2>3. ASSUME NEW a \in Actors, step[a] = "propose", held[a] = <<"deploy", r>>
        PROVE  \/ crashes' > 0
               \/ step'[a] = "propose" /\ held'[a] = <<"deploy", r>>
               \/ \E p \in Approvals : approvalFor'[p] = <<"rollback", r>>
    <3>1. CASE Same(a)
      BY <2>3, <3>1 DEF Same
    <3>2. CASE Propose(a)
      <4>1. ReuseOrCreateApproval(<<"rollback", r>>)
        BY <2>0, <2>3, <3>2 DEF Propose
      <4> QED BY <4>1 DEF ReuseOrCreateApproval, HasApproval, CreateApproval, TypeOK
    <3>3. CASE Fault(a) \/ CrashWorker(a)
      BY <3>3 DEF Fault, CrashWorker, TypeOK
    <3>4. CASE Acts(a) /\ ~Propose(a) /\ ~Fault(a) /\ ~CrashWorker(a)
      BY <2>3, <3>4 DEF Acts, Decide, Execute, WorkerNext, ReadApproval, Reject, Approve,
         CheckApproved, BlockApproved, Settle, BeginJob, TakeJob, SweepJob, ExpireJob, Load, Gate,
         GateBlock, Claim, ClaimLost, FindResults, TakeOver, Policy, Deny, Refuse, RunHost,
         SaveResult, EvaluateHealth, Guard, Store, MarkFailure, EndJob, EndMark, Go, Shape, ShapeOf
    <3> QED BY <3>1, <3>2, <3>3, <3>4, Mover
  <2> QED BY <1>2, <2>1, <2>2, <2>3 DEF Proposed, GuardProposes
<1>3. CASE r \notin guarded
  <2>1. PICK a \in Actors : Guard(a)
    BY <1>3 DEF Writers
  <2>2. r = ReleaseOf(held[a])
    BY <1>3, <2>1 DEF Guard
  <2> QED BY <1>1, <2>1, <2>2
<1> QED BY <1>2, <1>3

\* What a release asks of the queue is what the queue promises: the queue's part of every
\* step is a step of WorkQueue, or none.
LEMMA QueueStep ==
  ASSUME TypeOK, Known, [Next]_vars
  PROVE  JobNext \/ UNCHANGED jobVars
<1> USE DEF rowVars
<1>1. ASSUME NEW r \in Releases, Submit(r) PROVE JobNext \/ UNCHANGED jobVars
  BY <1>1 DEF Submit
<1>2. ASSUME NEW r \in Releases, SubmitGate(r) PROVE JobNext \/ UNCHANGED jobVars
  BY <1>2 DEF SubmitGate
<1>3. ASSUME NEW r \in Releases, SubmitBlock(r) PROVE JobNext \/ UNCHANGED jobVars
  BY <1>3 DEF SubmitBlock
<1>4. ASSUME NEW r \in Releases, Route(r) PROVE JobNext \/ UNCHANGED jobVars
  <2>1. <<"deploy", r>> \in Targets
    BY <1>4, TargetOf DEF Route
  <2> QED BY <1>4, <2>1 DEF Route, JobNext
<1>5. ASSUME NEW r \in Releases, RequestRollback(r) PROVE JobNext \/ UNCHANGED jobVars
  <2>1. <<"rollback", r>> \in Targets
    BY <1>5, TargetOf DEF RequestRollback
  <2> QED BY <1>5, <2>1 DEF RequestRollback, JobNext
<1>6. ASSUME NEW r \in Releases, NEW s \in {"running", "success", "failed"}, DeliverCI(r, s)
      PROVE  JobNext \/ UNCHANGED jobVars
  BY <1>6 DEF DeliverCI
<1>7. ASSUME NEW r \in Releases, NEW d \in Deliveries, AcceptDelivery(d, r)
      PROVE  JobNext \/ UNCHANGED jobVars
  BY <1>7 DEF AcceptDelivery
<1>8. ASSUME NEW d \in Deliveries, QueueDelivery(d) PROVE JobNext \/ UNCHANGED jobVars
  <2>1. <<"deploy", claims[d]>> \in Targets
    BY <1>8, TargetOf DEF QueueDelivery, TypeOK
  <2> QED BY <1>8, <2>1 DEF QueueDelivery, JobNext
<1>9. ASSUME NEW a \in Actors, NEW p \in Approvals, ReadApproval(a, p)
      PROVE  JobNext \/ UNCHANGED jobVars
  BY <1>9 DEF ReadApproval
<1>10. ASSUME NEW a \in Actors, Reject(a) PROVE JobNext \/ UNCHANGED jobVars
  BY <1>10 DEF Reject
<1>11. ASSUME NEW a \in Actors, Approve(a) PROVE JobNext \/ UNCHANGED jobVars
  BY <1>11 DEF Approve
<1>12. ASSUME NEW a \in Actors, CheckApproved(a) PROVE JobNext \/ UNCHANGED jobVars
  BY <1>12 DEF CheckApproved
<1>13. ASSUME NEW a \in Actors, BlockApproved(a) PROVE JobNext \/ UNCHANGED jobVars
  BY <1>13 DEF BlockApproved
<1>14. ASSUME NEW a \in Actors, Settle(a) PROVE JobNext \/ UNCHANGED jobVars
  BY <1>14 DEF Settle
<1>15. ASSUME NEW a \in Workers, NEW j \in Jobs, BeginJob(a, j) PROVE JobNext \/ UNCHANGED jobVars
  BY <1>15 DEF BeginJob, JobNext, Serve
<1>16. ASSUME NEW a \in Workers, Load(a) PROVE JobNext \/ UNCHANGED jobVars
  BY <1>16 DEF Load
<1>17. ASSUME NEW a \in Actors, Gate(a) PROVE JobNext \/ UNCHANGED jobVars
  BY <1>17 DEF Gate
<1>18. ASSUME NEW a \in Actors, GateBlock(a) PROVE JobNext \/ UNCHANGED jobVars
  BY <1>18 DEF GateBlock
<1>19. ASSUME NEW a \in Actors, Claim(a) PROVE JobNext \/ UNCHANGED jobVars
  BY <1>19 DEF Claim
<1>20. ASSUME NEW a \in Actors, ClaimLost(a) PROVE JobNext \/ UNCHANGED jobVars
  BY <1>20 DEF ClaimLost
<1>21. ASSUME NEW a \in Actors, FindResults(a) PROVE JobNext \/ UNCHANGED jobVars
  BY <1>21 DEF FindResults
<1>22. ASSUME NEW a \in Actors, TakeOver(a) PROVE JobNext \/ UNCHANGED jobVars
  BY <1>22 DEF TakeOver
<1>23. ASSUME NEW a \in Actors, Policy(a) PROVE JobNext \/ UNCHANGED jobVars
  BY <1>23 DEF Policy
<1>24. ASSUME NEW a \in Actors, Deny(a) PROVE JobNext \/ UNCHANGED jobVars
  BY <1>24 DEF Deny
<1>25. ASSUME NEW a \in Actors, Refuse(a) PROVE JobNext \/ UNCHANGED jobVars
  BY <1>25 DEF Refuse
<1>26. ASSUME NEW a \in Actors, RunHost(a) PROVE JobNext \/ UNCHANGED jobVars
  BY <1>26 DEF RunHost
<1>27. ASSUME NEW a \in Actors, SaveResult(a) PROVE JobNext \/ UNCHANGED jobVars
  BY <1>27 DEF SaveResult
<1>28. ASSUME NEW a \in Actors, EvaluateHealth(a) PROVE JobNext \/ UNCHANGED jobVars
  BY <1>28 DEF EvaluateHealth
<1>29. ASSUME NEW a \in Actors, Guard(a) PROVE JobNext \/ UNCHANGED jobVars
  BY <1>29 DEF Guard
<1>30. ASSUME NEW a \in Actors, Propose(a) PROVE JobNext \/ UNCHANGED jobVars
  BY <1>30 DEF Propose
<1>31. ASSUME NEW a \in Actors, Store(a) PROVE JobNext \/ UNCHANGED jobVars
  BY <1>31 DEF Store
<1>32. ASSUME NEW a \in Actors, Fault(a) PROVE JobNext \/ UNCHANGED jobVars
  BY <1>32 DEF Fault
<1>33. ASSUME NEW a \in Workers, NEW j \in Jobs, SweepJob(a, j) PROVE JobNext \/ UNCHANGED jobVars
  BY <1>33 DEF SweepJob, JobNext, Serve
<1>34. ASSUME NEW a \in Workers, MarkFailure(a) PROVE JobNext \/ UNCHANGED jobVars
  BY <1>34 DEF MarkFailure
<1>35. ASSUME NEW a \in Workers, EndJob(a) PROVE JobNext \/ UNCHANGED jobVars
  BY <1>35 DEF EndJob, JobNext, Serve, Settled
<1>36. ASSUME NEW a \in Workers, EndMark(a) PROVE JobNext \/ UNCHANGED jobVars
  BY <1>36 DEF EndMark, JobNext, Serve
<1>37. ASSUME NEW a \in Workers, CrashWorker(a) PROVE JobNext \/ UNCHANGED jobVars
  BY <1>37 DEF CrashWorker, JobNext, Serve
<1>38. ASSUME NEW j \in Jobs, ExpireInTime(j) PROVE JobNext \/ UNCHANGED jobVars
  BY <1>38 DEF ExpireInTime, JobNext, Serve
<1>39. CASE UNCHANGED vars
  BY <1>39 DEF vars, deployVars
<1> QED
  BY <1>1, <1>2, <1>3, <1>4, <1>5, <1>6, <1>7, <1>8, <1>9, <1>10, <1>11, <1>12, <1>13, <1>14, <1>15,
     <1>16, <1>17, <1>18, <1>19, <1>20, <1>21, <1>22, <1>23, <1>24, <1>25, <1>26, <1>27, <1>28,
     <1>29, <1>30, <1>31, <1>32, <1>33, <1>34, <1>35, <1>36, <1>37, <1>38, <1>39, NextCases DEF
     Intake, Acts, Decide, Execute, WorkerNext

-----------------------------------------------------------------------------
\* Before anything is submitted the invariant holds.
LEMMA InvInit == Init => Inv
<1> SUFFICES ASSUME Init PROVE Inv
  OBVIOUS
<1> USE DeploymentAssumption, QueueAssumption, NumbersArePositive DEF Init, JobInit, DeploymentInit
<1>1. TypeOK
  BY DEF TypeOK, JobTypeOK, Steps, ReleaseStatuses, ApprovalStatuses, JobStatuses, Duties
<1>2. Shape
  BY DEF Shape, ShapeOf
<1>3. Known
  BY DEF Known, SubmittedRows, JobRows, ApprovalRows, DeliveryRows, HeldRows, HeldRow
<1>4. Consent
  BY DEF Consent, NothingQueued, NothingMarked, ConsentOf, ForcedApprovalRespected
<1>5. Cleared
  BY DEF Cleared, GreenRows, ClearRows, ClearOf, GateRespected, Running
<1>6. Covered
  BY DEF Covered, CoveredOf, StatusTellsHosts
<1>7. Proposed
  BY DEF Proposed, QueuedByOneDelivery, GuardProposes
<1> QED BY <1>1, <1>2, <1>3, <1>4, <1>5, <1>6, <1>7 DEF Inv

\* The invariant is inductive: every part follows from the parts and what steps keep.
LEMMA InvStep == Inv /\ [Next]_vars => Inv'
<1> SUFFICES ASSUME TypeOK, Shape, Known, Consent, Cleared, Covered, Proposed, [Next]_vars
             PROVE  Inv'
  BY DEF Inv
<1>0. Stay /\ Writers
  BY StayStep, WritersStep
<1>1. TypeOK'
  BY TypeStep
<1>2. Shape'
  BY <1>0, ShapeStep DEF Shape
<1>3. Known'
  <2>1. Inserts
    BY <1>0, InsertsStep
  <2>2. HeldRows'
    BY <1>0, HeldStep DEF HeldRows
  <2> QED BY <1>0, <2>1, <2>2, RowsStep DEF Known
<1>4. Consent'
  BY <1>0, ForcedStep, ConsentStep DEF Consent
<1>5. Cleared'
  BY <1>0, ClearedStep, ClearStep DEF Cleared
<1>6. Covered'
  BY <1>0, StatusStep, CoveredStep DEF Covered
<1>7. Proposed'
  BY <1>0, MarkStep, ProposalStep DEF Proposed
<1> QED BY <1>1, <1>2, <1>3, <1>4, <1>5, <1>6, <1>7 DEF Inv

\* The inductive invariant holds in every reachable state.
THEOREM DeploymentInvariant == Safety => []Inv
  BY InvInit, InvStep, PTL DEF Safety

\* Every column and variable stays in range, for any number of everything.
THEOREM TypeCorrect == Safety => []TypeOK
<1>1. Inv => TypeOK
  BY DEF Inv
<1> QED BY <1>1, DeploymentInvariant, PTL

\* With the forced approval setting on, no script runs on a host before an administrator
\* approved its target, whichever of submission, webhook, rollback request and guard
\* asked for it (submit_release, deployment_rollback, handle_github_webhook).
THEOREM ForcedApprovalHolds == Safety => []ForcedApprovalRespected
<1>1. Inv => ForcedApprovalRespected
  BY DEF Inv, Consent
<1> QED BY <1>1, DeploymentInvariant, PTL

\* While nothing expires or crashes, a release bound to CI reaches no host before a
\* delivery for its revision succeeded (ci_quality_gate_allows_release), however
\* approvals, take-overs and rollbacks interleave.
THEOREM GateHolds == Safety => []GateRespected
<1>1. Inv => GateRespected
  BY DEF Inv, Cleared
<1> QED BY <1>1, DeploymentInvariant, PTL

\* Of all GitHub deliveries for a release one queues it (the transaction of the webhook
\* that locks the release and audits the delivery).
THEOREM OneDeliveryQueues == Safety => []QueuedByOneDelivery
<1>1. Inv => QueuedByOneDelivery
  BY DEF Inv, Proposed
<1> QED BY <1>1, DeploymentInvariant, PTL

\* A release that says success was deployed on every host and one that says rolled back
\* was rolled back somewhere, through every crash, expiry and concurrent execution.
THEOREM StatusIsTrue == Safety => []StatusTellsHosts
<1>1. Inv => StatusTellsHosts
  BY DEF Inv, Covered
<1> QED BY <1>1, DeploymentInvariant, PTL

\* A release the health guard stopped has its rollback proposed, unless the process that
\* stopped it failed in between.
THEOREM GuardAlwaysProposes == Safety => []GuardProposes
<1>1. Inv => GuardProposes
  BY DEF Inv, Proposed
<1> QED BY <1>1, DeploymentInvariant, PTL

\* Blocked is a dead end: unless an actor was past its claim or is marking a failure, no
\* step of submission, webhook, approval, queue or rollback starts a blocked release.
THEOREM BlockedIsFinal == Safety => BlockedStands
<1> DEFINE A ==
      \A r \in Releases :
        /\ release[r] = "blocked"
        /\ \A a \in Actors :
             held[a] \in {<<"deploy", r>>, <<"rollback", r>>} =>
               step[a] \notin Running \cup {"fault"}
        => release'[r] = "blocked"
<1>1. Inv /\ [Next]_vars => A
  <2> SUFFICES ASSUME TypeOK, Shape, Known, Consent, [Next]_vars, NEW r \in Releases,
                      release[r] = "blocked",
                      \A a \in Actors :
                        held[a] \in {<<"deploy", r>>, <<"rollback", r>>} =>
                          step[a] \notin Running \cup {"fault"}
               PROVE  release'[r] = "blocked"
    BY DEF Inv
  <2>1. ~Submit(r)
    BY DEF Submit, Known, SubmittedRows
  <2>2. ASSUME NEW a \in Actors, r = ReleaseOf(held[a]), Claim(a)
        PROVE  FALSE
    BY <2>2 DEF Claim, Claimable, Rollbackable
  <2>3. ASSUME NEW a \in Actors, r = ReleaseOf(held[a]), Deny(a) \/ Store(a) \/ MarkFailure(a)
        PROVE  FALSE
    BY <2>3, HeldTarget, TargetForm DEF Deny, Store, MarkFailure, Go, Running
  <2> QED BY <2>1, <2>2, <2>3, WritersStep DEF Writers
<1> QED BY <1>1, DeploymentInvariant, PTL DEF Safety, BlockedStands

\* Releases use the background queue as WorkQueue promises it, which JobQueue implements:
\* the queue's part of every behaviour is a behaviour of WorkQueue.
THEOREM ReleasesUseTheQueue == Safety => JobSafety
<1>1. Init => JobInit
  BY DEF Init
<1>2. Inv /\ [Next]_vars => [JobNext]_jobVars
  BY QueueStep DEF Inv
<1> QED BY <1>1, <1>2, DeploymentInvariant, PTL DEF Safety, JobSafety
=============================================================================
