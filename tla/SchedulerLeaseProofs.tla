------------------------ MODULE SchedulerLeaseProofs ------------------------
(***************************************************************************)
(* The lease protocol of the schedulers for any number of processes, tasks, *)
(* intervals and lease lengths.  Two runs of one task carry different        *)
(* leases (Distinct), because a run still under way is older than whatever  *)
(* the row says now (Traced): older than the lease it carries or, between   *)
(* two recorded runs, than the date of the next one.                        *)
(***************************************************************************)
EXTENDS SchedulerLease, TLAPS

\* No process reads a clock from the future, and a lease counts from a clock read.
Clocks ==
  \A s \in Schedulers : now[s] <= clock /\ token[s] <= now[s] + Lease

\* What the row keeps of a run that is still under way.
Traced ==
  \A s \in Schedulers, t \in Tasks :
    Runs(s, t) => /\ token[s] # Null
                  /\ IF lease[t] = Null
                     THEN token[s] < nextRun[t] + Lease
                     ELSE token[s] <= lease[t]

Distinct ==
  \A r, s \in Schedulers, t \in Tasks :
    r # s /\ Runs(r, t) /\ Runs(s, t) => token[r] # token[s]

IInv == TypeOK /\ Clocks /\ Traced /\ Distinct /\ LiveRunIsRecorded

USE LeaseAssumption DEF Null

\* The turn of a process stays within the registry.
LEMMA TurnsAreTasks ==
  /\ 1 \in Tasks
  /\ \A t \in Tasks : (IF t = Registry THEN 1 ELSE t + 1) \in Tasks
BY DEF Tasks

\* The next task is one of the registry.
LEMMA NextTaskType ==
  ASSUME TypeOK, NEW s \in Schedulers, NextTask(s)
  PROVE  /\ phase' \in [Schedulers -> Phases]
         /\ turn' \in [Schedulers -> Tasks]
         /\ token' \in [Schedulers -> Nat]
<1>1. turn[s] \in Tasks
  BY DEF TypeOK
<1>2. (IF turn[s] = Registry THEN 1 ELSE turn[s] + 1) \in Tasks
  BY <1>1, TurnsAreTasks
<1> QED BY <1>2 DEF TypeOK, NextTask, Phases

-----------------------------------------------------------------------------
\* The row of a task is free for a claim only when the lease it carries is over, and
\* between two runs only when the next one is due.
LEMMA FreeRow ==
  ASSUME TypeOK, NEW t \in Tasks, NEW n \in Nat, Free(t, n)
  PROVE  /\ lease[t] <= n
         /\ lease[t] = Null => nextRun[t] <= n
BY DEF TypeOK, Free, Due, Available, Abandoned

\* Every step keeps every column and every local variable in range.
LEMMA TypeStep == TypeOK /\ [Next]_vars => TypeOK'
<1> SUFFICES ASSUME TypeOK, [Next]_vars PROVE TypeOK'
  OBVIOUS
<1> USE DEF TypeOK, Phases, Outcomes
<1>1. CASE Tick
  BY <1>1 DEF Tick, rowVars, procVars
<1>2. ASSUME NEW s \in Schedulers, Poll(s) PROVE TypeOK'
  BY <1>2 DEF Poll, Go, ReadClock, rowVars
<1>3. ASSUME NEW s \in Schedulers, Claim(s) PROVE TypeOK'
  <2>1. turn[s] \in Tasks /\ now[s] + Lease \in Nat
    OBVIOUS
  <2>2. lease' \in [Tasks -> Nat] /\ token' \in [Schedulers -> Nat]
    BY <1>3, <2>1 DEF Claim
  <2>3. taskStatus' \in [Tasks -> {"pending", "running"} \cup Outcomes]
    BY <1>3, <2>1 DEF Claim
  <2>4. phase' \in [Schedulers -> Phases]
    BY <1>3 DEF Claim, Go
  <2> QED BY <1>3, <2>2, <2>3, <2>4 DEF Claim
<1>4. ASSUME NEW s \in Schedulers, Skip(s) PROVE TypeOK'
  BY <1>4, NextTaskType DEF Skip, rowVars
<1>5. ASSUME NEW s \in Schedulers, Return(s) PROVE TypeOK'
  BY <1>5 DEF Return, Go, ReadClock, rowVars
<1>6. ASSUME NEW s \in Schedulers, Finish(s) PROVE TypeOK'
  <2>1. taskStatus' \in [Tasks -> {"pending", "running"} \cup Outcomes]
    BY <1>6 DEF Finish, rowVars
  <2>2. now[s] + Interval[turn[s]] \in Nat
    OBVIOUS
  <2>3. nextRun' \in [Tasks -> Nat] /\ lease' \in [Tasks -> Nat]
    BY <1>6, <2>2 DEF Finish, rowVars
  <2> QED BY <1>6, <2>1, <2>3, NextTaskType DEF Finish
<1>7. ASSUME NEW s \in Schedulers, Crash(s) PROVE TypeOK'
  BY <1>7, TurnsAreTasks DEF Crash, rowVars
<1>8. CASE UNCHANGED vars
  BY <1>8 DEF vars, rowVars, procVars
<1> QED
  BY <1>1, <1>2, <1>3, <1>4, <1>5, <1>6, <1>7, <1>8 DEF Next, SchedulerStep

\* The types of the state hold in every behaviour of the schedulers.
THEOREM TypeCorrect == Safety => []TypeOK
<1>1. Init => TypeOK
  BY TurnsAreTasks DEF Init, TypeOK, Phases, Outcomes
<1> QED
  BY <1>1, TypeStep, PTL DEF Safety

-----------------------------------------------------------------------------
LEMMA InvInit == Init => IInv
BY TurnsAreTasks DEF Init, IInv, TypeOK, Clocks, Traced, Distinct, LiveRunIsRecorded, Runs,
                     Phases, Outcomes

\* A run that is under way keeps to its task and its lease while other processes move.
LEMMA OthersStay ==
  ASSUME TypeOK, NEW s \in Schedulers, NEW q \in Schedulers, q # s,
         SchedulerStep(s) \/ Crash(s)
  PROVE  /\ now'[q] = now[q] /\ token'[q] = token[q] /\ clock' = clock
         /\ \A t \in Tasks : Runs(q, t)' <=> Runs(q, t)
BY DEF TypeOK, SchedulerStep, Poll, Claim, Skip, Return, Finish, Crash, NextTask, Go,
       ReadClock, procVars, Runs

\* A process that took no lease in this step runs what it ran before, or nothing, and
\* its lease counts from the same clock read or from one before it.
LEMMA SelfStays ==
  ASSUME IInv, NEW s \in Schedulers, Poll(s) \/ Skip(s) \/ Return(s) \/ Finish(s) \/ Crash(s)
  PROVE  /\ now'[s] <= clock /\ token'[s] <= now'[s] + Lease /\ clock' = clock
         /\ \A t \in Tasks : Runs(s, t)' => Runs(s, t) /\ token'[s] = token[s]
<1> USE DEF IInv, TypeOK, Clocks, Runs
<1>1. CASE Poll(s)
  BY <1>1 DEF Poll, Go, ReadClock
<1>2. CASE Skip(s)
  BY <1>2 DEF Skip, NextTask
<1>3. CASE Return(s)
  BY <1>3 DEF Return, Go, ReadClock
<1>4. CASE Finish(s)
  BY <1>4 DEF Finish, NextTask
<1>5. CASE Crash(s)
  BY <1>5 DEF Crash
<1> QED BY <1>1, <1>2, <1>3, <1>4, <1>5

\* A step that leaves the rows alone and adds no run keeps the invariant.
LEMMA QuietStep ==
  ASSUME IInv, TypeOK', UNCHANGED rowVars,
         NEW s \in Schedulers, Poll(s) \/ Skip(s) \/ Return(s) \/ Finish(s) \/ Crash(s)
  PROVE  IInv'
<1>1. SchedulerStep(s) \/ Crash(s)
  BY DEF SchedulerStep
<1>2. \A q \in Schedulers, t \in Tasks :
        Runs(q, t)' => Runs(q, t) /\ token'[q] = token[q]
  BY <1>1, OthersStay, SelfStays DEF IInv
<1>3. clock' = clock /\ taskStatus' = taskStatus /\ lease' = lease /\ nextRun' = nextRun
  BY SelfStays DEF rowVars
<1>4. Clocks'
  BY <1>1, <1>3, OthersStay, SelfStays DEF Clocks, IInv
<1>5. Traced'
  BY <1>2, <1>3 DEF Traced, IInv
<1>6. Distinct'
  BY <1>2, <1>3 DEF Distinct, IInv
<1>7. LiveRunIsRecorded'
  BY <1>2, <1>3 DEF LiveRunIsRecorded, IInv
<1> QED BY <1>4, <1>5, <1>6, <1>7 DEF IInv

\* A claim starts a run whose lease is later than that of every run of the task.
LEMMA ClaimStep ==
  ASSUME IInv, TypeOK', NEW s \in Schedulers, Claim(s)
  PROVE  IInv'
<1> DEFINE t == turn[s]
           expiry == now[s] + Lease
<1>1. t \in Tasks /\ now[s] \in Nat /\ Lease \in Nat /\ Lease > 0 /\ TypeOK
  BY DEF IInv, TypeOK
<1>2. lease[t] <= now[s] /\ (lease[t] = Null => nextRun[t] <= now[s])
  BY <1>1, FreeRow DEF Claim
<1>3. \A q \in Schedulers : Runs(q, t) => token[q] < expiry
  <2> SUFFICES ASSUME NEW q \in Schedulers, Runs(q, t) PROVE token[q] < expiry
    OBVIOUS
  <2>1. lease[t] \in Nat /\ nextRun[t] \in Nat /\ token[q] \in Nat
    BY <1>1 DEF TypeOK
  <2>2. IF lease[t] = Null THEN token[q] < nextRun[t] + Lease ELSE token[q] <= lease[t]
    BY <1>1 DEF IInv, Traced
  <2> QED BY <1>1, <1>2, <2>1, <2>2
<1>4. \A q \in Schedulers \ {s} :
        /\ now'[q] = now[q] /\ token'[q] = token[q]
        /\ \A u \in Tasks : Runs(q, u)' <=> Runs(q, u)
  BY <1>1, OthersStay DEF SchedulerStep
<1>5. /\ clock' = clock /\ now'[s] = now[s] /\ token'[s] = expiry /\ nextRun' = nextRun
      /\ \A u \in Tasks : Runs(s, u)' => u = t
  BY <1>1 DEF Claim, TypeOK, Runs
<1>6. \A u \in Tasks : lease'[u] = IF u = t THEN expiry ELSE lease[u]
  BY <1>1 DEF Claim, TypeOK
<1>7. \A u \in Tasks : taskStatus'[u] = IF u = t THEN "running" ELSE taskStatus[u]
  BY <1>1 DEF Claim, TypeOK
<1> HIDE DEF t, expiry
<1>8. Clocks'
  BY <1>1, <1>4, <1>5 DEF IInv, Clocks, expiry
<1>9. expiry \in Nat /\ expiry # Null
  BY <1>1 DEF expiry
<1>10. Traced'
  <2> SUFFICES ASSUME NEW q \in Schedulers, NEW u \in Tasks, Runs(q, u)'
               PROVE  /\ token'[q] # Null
                      /\ IF lease'[u] = Null THEN token'[q] < nextRun'[u] + Lease
                                             ELSE token'[q] <= lease'[u]
    BY DEF Traced
  <2>1. CASE q = s
    BY <2>1, <1>5, <1>6, <1>9
  <2>2. CASE q # s /\ u = t
    <3>1. Runs(q, t) /\ token'[q] = token[q] /\ token[q] \in Nat
      BY <2>2, <1>1, <1>4 DEF TypeOK
    <3>2. token[q] # Null /\ token[q] < expiry
      BY <3>1, <1>1, <1>3 DEF IInv, Traced
    <3> QED BY <2>2, <3>1, <3>2, <1>6, <1>9
  <2>3. CASE q # s /\ u # t
    BY <2>3, <1>4, <1>5, <1>6 DEF IInv, Traced
  <2> QED BY <2>1, <2>2, <2>3
<1>11. Distinct'
  <2> SUFFICES ASSUME NEW r \in Schedulers, NEW q \in Schedulers, NEW u \in Tasks,
                      r # q, Runs(r, u)', Runs(q, u)'
               PROVE  token'[r] # token'[q]
    BY DEF Distinct
  <2>1. CASE r # s /\ q # s
    BY <2>1, <1>4 DEF IInv, Distinct
  <2>2. \A p \in Schedulers \ {s} : Runs(p, t) => token[p] # expiry
    BY <1>1, <1>3, <1>9 DEF TypeOK
  <2>3. CASE r = s
    BY <2>2, <2>3, <1>4, <1>5
  <2>4. CASE q = s
    BY <2>2, <2>4, <1>4, <1>5
  <2> QED BY <2>1, <2>3, <2>4
<1>12. LiveRunIsRecorded'
  <2> SUFFICES ASSUME NEW q \in Schedulers, NEW u \in Tasks, Runs(q, u)', token'[q] > clock
               PROVE  taskStatus'[u] = "running" /\ lease'[u] = token'[q]
    BY <1>5 DEF LiveRunIsRecorded
  <2>1. CASE q = s
    BY <2>1, <1>5, <1>6, <1>7
  <2>2. CASE q # s
    <3>1. taskStatus[u] = "running" /\ lease[u] = token[q] /\ token'[q] = token[q]
      BY <2>2, <1>4 DEF IInv, LiveRunIsRecorded
    <3>2. /\ clock \in Nat /\ now[s] \in Nat /\ token[q] \in Nat /\ lease[t] \in Nat
          /\ now[s] <= clock
      BY <1>1 DEF IInv, TypeOK, Clocks
    <3>3. u # t
      BY <3>1, <3>2, <1>2
    <3> QED BY <3>1, <3>3, <1>6, <1>7
  <2> QED BY <2>1, <2>2
<1> QED BY <1>8, <1>10, <1>11, <1>12 DEF IInv

\* A process that closes the row of its task leaves a date later than what every other
\* run of it counts from, and no other run of it has time left.
LEMMA FinishStep ==
  ASSUME IInv, TypeOK', NEW s \in Schedulers, Finish(s)
  PROVE  IInv'
<1> DEFINE t == turn[s]
<1>1. CASE UNCHANGED rowVars
  BY <1>1, QuietStep
<1>2. CASE Owns(s, t)
  <2>1. t \in Tasks /\ TypeOK /\ Runs(s, t) /\ lease[t] = token[s]
    BY <1>2 DEF IInv, TypeOK, Runs, Finish, Owns
  <2>2. \A q \in Schedulers, u \in Tasks :
          Runs(q, u)' => Runs(q, u) /\ token'[q] = token[q] /\ q # s
    <3>1. \A u \in Tasks : ~Runs(s, u)'
      BY <2>1 DEF Finish, NextTask, Runs, TypeOK
    <3> QED BY <2>1, <3>1, OthersStay DEF SchedulerStep
  <2>3. clock' = clock /\ now' = now
    BY DEF Finish
  <2>4. /\ lease' = [lease EXCEPT ![t] = Null]
        /\ nextRun' = [nextRun EXCEPT ![t] = now[s] + Interval[t]]
        /\ \A u \in Tasks \ {t} : taskStatus'[u] = taskStatus[u]
    BY <1>2, <2>1 DEF Finish, TypeOK
  <2> HIDE DEF t
  <2>5. Clocks'
    BY <2>1, <2>3, OthersStay, SelfStays DEF IInv, Clocks, SchedulerStep
  <2>6. Traced'
    <3> SUFFICES ASSUME NEW q \in Schedulers, NEW u \in Tasks, Runs(q, u)'
                 PROVE  /\ token'[q] # Null
                        /\ IF lease'[u] = Null THEN token'[q] < nextRun'[u] + Lease
                                               ELSE token'[q] <= lease'[u]
      BY DEF Traced
    <3>1. Runs(q, u) /\ token'[q] = token[q] /\ q # s
      BY <2>2
    <3>2. CASE u = t
      <4>1. /\ now[s] \in Nat /\ Interval[t] \in Nat /\ Interval[t] > 0 /\ Lease \in Nat
            /\ token[s] \in Nat /\ token[q] \in Nat /\ nextRun[t] \in Nat
        BY <2>1 DEF TypeOK
      <4>2. token[s] <= now[s] + Lease
        BY DEF IInv, Clocks
      <4>3. lease[t] # Null /\ token[q] # Null
        BY <2>1, <3>1, <3>2 DEF IInv, Traced
      <4>4. token[q] <= token[s]
        BY <4>3, <2>1, <3>1, <3>2 DEF IInv, Traced
      <4>5. token[q] < now[s] + Interval[t] + Lease
        BY <4>1, <4>2, <4>4
      <4>6. nextRun'[t] = now[s] + Interval[t] /\ lease'[t] = Null
        BY <2>1, <2>4 DEF TypeOK
      <4> QED BY <3>1, <3>2, <4>3, <4>5, <4>6
    <3>3. CASE u # t
      <4>1. lease'[u] = lease[u] /\ nextRun'[u] = nextRun[u]
        BY <3>3, <2>1, <2>4 DEF TypeOK
      <4> QED BY <4>1, <3>1 DEF IInv, Traced
    <3> QED BY <3>2, <3>3
  <2>7. Distinct'
    BY <2>2 DEF IInv, Distinct
  <2>8. LiveRunIsRecorded'
    <3> SUFFICES ASSUME NEW q \in Schedulers, NEW u \in Tasks, Runs(q, u)', token'[q] > clock
                 PROVE  taskStatus'[u] = "running" /\ lease'[u] = token'[q]
      BY <2>3 DEF LiveRunIsRecorded
    <3>1. Runs(q, u) /\ token'[q] = token[q] /\ q # s
      BY <2>2
    <3>2. taskStatus[u] = "running" /\ lease[u] = token[q]
      BY <3>1 DEF IInv, LiveRunIsRecorded
    <3>3. u # t
      BY <3>1, <3>2, <2>1 DEF IInv, Distinct
    <3> QED BY <3>1, <3>2, <3>3, <2>1, <2>4 DEF TypeOK
  <2> QED BY <2>5, <2>6, <2>7, <2>8 DEF IInv
<1> QED BY <1>1, <1>2 DEF Finish

\* Time only ends leases.
LEMMA TickStep ==
  ASSUME IInv, TypeOK', Tick
  PROVE  IInv'
<1>1. /\ clock' = clock + 1 /\ lease' = lease /\ nextRun' = nextRun
      /\ taskStatus' = taskStatus /\ now' = now /\ token' = token
      /\ \A q \in Schedulers, u \in Tasks : Runs(q, u)' <=> Runs(q, u)
  BY DEF Tick, rowVars, procVars, Runs
<1>2. Clocks'
  BY <1>1 DEF IInv, TypeOK, Clocks
<1>3. Traced' /\ Distinct'
  BY <1>1 DEF IInv, Traced, Distinct
<1>4. LiveRunIsRecorded'
  BY <1>1 DEF IInv, TypeOK, LiveRunIsRecorded
<1> QED BY <1>2, <1>3, <1>4 DEF IInv

LEMMA InvStep == IInv /\ [Next]_vars => IInv'
<1> SUFFICES ASSUME IInv, [Next]_vars PROVE IInv'
  OBVIOUS
<1>1. TypeOK'
  BY TypeStep DEF IInv
<1>2. CASE Tick
  BY <1>1, <1>2, TickStep
<1>3. ASSUME NEW s \in Schedulers, Poll(s) \/ Skip(s) \/ Return(s) \/ Crash(s)
      PROVE  IInv'
  <2>1. UNCHANGED rowVars
    BY <1>3 DEF Poll, Skip, Return, Crash
  <2> QED BY <1>1, <1>3, <2>1, QuietStep
<1>4. ASSUME NEW s \in Schedulers, Claim(s) PROVE IInv'
  BY <1>1, <1>4, ClaimStep
<1>5. ASSUME NEW s \in Schedulers, Finish(s) PROVE IInv'
  BY <1>1, <1>5, FinishStep
<1>6. CASE UNCHANGED vars
  BY <1>6 DEF vars, rowVars, procVars, IInv, TypeOK, Clocks, Traced, Distinct,
              LiveRunIsRecorded, Runs
<1> QED
  BY <1>2, <1>3, <1>4, <1>5, <1>6 DEF Next, SchedulerStep

\* The invariant of the lease protocol.
THEOREM Inductive == Safety => []IInv
BY InvInit, InvStep, PTL DEF Safety

\* The row names a run for as long as the lease of that run lasts, so _finish_task of a
\* slower process never closes a row under it.
THEOREM RowNamesLiveRun == Safety => []LiveRunIsRecorded
<1>1. IInv => LiveRunIsRecorded
  BY DEF IInv
<1> QED BY <1>1, Inductive, PTL

\* Two processes run one task at the same time only when a lease has expired, also when
\* a process claims with a clock it read long before.
THEOREM NoOverlapUnderLease == Safety => []OverlapOnlyAfterLease
<1>1. IInv => OverlapOnlyAfterLease
  <2> SUFFICES ASSUME IInv, NEW r \in Schedulers, NEW s \in Schedulers, NEW t \in Tasks,
                      r # s, Runs(r, t), Runs(s, t), ~(token[r] <= clock), ~(token[s] <= clock)
               PROVE  FALSE
    BY DEF OverlapOnlyAfterLease
  <2>1. token[r] > clock /\ token[s] > clock
    BY DEF IInv, TypeOK
  <2>2. lease[t] = token[r] /\ lease[t] = token[s]
    BY <2>1 DEF IInv, LiveRunIsRecorded
  <2> QED BY <2>2 DEF IInv, Distinct
<1> QED BY <1>1, Inductive, PTL

\* A task starts again only when it is due or its recorded run outlived its lease.
THEOREM StartsAreDue == Safety => Restarts
<1>1. IInv /\ [Next]_vars =>
        [\A t \in Tasks :
           lease'[t] # lease[t] /\ lease'[t] # Null =>
             \/ (lease[t] = Null /\ nextRun[t] <= clock)
             \/ (lease[t] # Null /\ lease[t] <= clock)]_vars
  <2> SUFFICES ASSUME IInv, [Next]_vars, NEW t \in Tasks,
                      lease'[t] # lease[t], lease'[t] # Null
               PROVE  \/ (lease[t] = Null /\ nextRun[t] <= clock)
                      \/ (lease[t] # Null /\ lease[t] <= clock)
    OBVIOUS
  <2>1. ASSUME NEW s \in Schedulers, ~Claim(s), SchedulerStep(s) \/ Crash(s) PROVE FALSE
    BY <2>1 DEF IInv, TypeOK, SchedulerStep, Poll, Skip, Return, Finish, Crash, rowVars
  <2>2. PICK s \in Schedulers : Claim(s)
    BY <2>1 DEF Next, Tick, vars, rowVars
  <2>3. turn[s] = t /\ now[s] \in Nat /\ now[s] <= clock
    BY <2>2 DEF IInv, TypeOK, Clocks, Claim
  <2>4. lease[t] <= now[s] /\ (lease[t] = Null => nextRun[t] <= now[s])
    BY <2>2, <2>3, FreeRow DEF IInv, Claim
  <2> QED BY <2>3, <2>4 DEF IInv, TypeOK
<1> QED BY <1>1, Inductive, PTL DEF Safety, Restarts
=============================================================================
