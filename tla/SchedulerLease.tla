--------------------------- MODULE SchedulerLease ---------------------------
(***************************************************************************)
(* The devops_scheduler processes and the ScheduledTaskRun rows they share. *)
(* Each process goes through the registry of periodic tasks in order: it    *)
(* reads its clock, tries to claim the task's row with one conditional      *)
(* UPDATE, runs the callback, reads its clock again and closes the row with *)
(* another conditional UPDATE that names the lease it was given.            *)
(*                                                                         *)
(* A process may pause between reading the clock and its UPDATE, may be     *)
(* slower than its lease, and may die.  The clocks are taken to agree.      *)
(***************************************************************************)
EXTENDS Integers

CONSTANTS
  Schedulers,    \* devops_scheduler processes
  Registry,      \* number of tasks in scheduled_task_registry
  Lease,         \* DEVOPS_SCHEDULER_LEASE_SECONDS
  Interval,      \* seconds between the runs of each task
  MaxTime,       \* bound: the last instant
  MaxCrashes     \* bound: processes that die

Tasks == 1..Registry

ASSUME LeaseAssumption ==
  /\ Registry \in Nat \ {0}
  /\ Lease \in Nat \ {0}
  /\ Interval \in [Tasks -> Nat \ {0}]
  /\ MaxTime \in Nat
  /\ MaxCrashes \in Nat

VARIABLES
  clock,         \* timezone.now()
  taskStatus,    \* ScheduledTaskRun.status
  nextRun,       \* next_run_at, Null before the first run ended
  lease,         \* lease_expires_at, Null while no run is recorded
  phase,         \* what each process does with the task whose turn it is
  turn,          \* that task
  now,           \* the clock the process read last
  token,         \* the lease it was given, Null for none
  crashes        \* processes that died

rowVars == <<taskStatus, nextRun, lease>>
procVars == <<phase, turn, now, token>>
vars == <<clock, rowVars, procVars, crashes>>

Null == 0
Phases == {"poll", "claim", "run", "close"}
Outcomes == {"success", "failed"}

TypeOK ==
  /\ clock \in Nat \ {0}
  /\ taskStatus \in [Tasks -> {"pending", "running"} \cup Outcomes]
  /\ nextRun \in [Tasks -> Nat]
  /\ lease \in [Tasks -> Nat]
  /\ phase \in [Schedulers -> Phases]
  /\ turn \in [Schedulers -> Tasks]
  /\ now \in [Schedulers -> Nat]
  /\ token \in [Schedulers -> Nat]
  /\ crashes \in Nat

Init ==
  /\ clock = 1
  /\ taskStatus = [t \in Tasks |-> "pending"]
  /\ nextRun = [t \in Tasks |-> Null]
  /\ lease = [t \in Tasks |-> Null]
  /\ phase = [s \in Schedulers |-> "poll"]
  /\ turn = [s \in Schedulers |-> 1]
  /\ now = [s \in Schedulers |-> 1]
  /\ token = [s \in Schedulers |-> Null]
  /\ crashes = 0

-----------------------------------------------------------------------------
\* Time passes.
Tick ==
  /\ clock < MaxTime
  /\ clock' = clock + 1
  /\ UNCHANGED <<rowVars, procVars, crashes>>

Go(s, from, to) == phase[s] = from /\ phase' = [phase EXCEPT ![s] = to]

ReadClock(s) == now' = [now EXCEPT ![s] = clock]

\* On to the next task; after the last one the process sleeps and starts again.
NextTask(s) ==
  /\ phase' = [phase EXCEPT ![s] = "poll"]
  /\ turn' = [turn EXCEPT ![s] = IF @ = Registry THEN 1 ELSE @ + 1]
  /\ token' = [token EXCEPT ![s] = Null]

Poll(s) ==
  /\ Go(s, "poll", "claim")
  /\ ReadClock(s)
  /\ UNCHANGED <<clock, rowVars, turn, token, crashes>>

\* The condition of the UPDATE that claims: due and free, or abandoned.
Due(t, n) == nextRun[t] = Null \/ nextRun[t] <= n
Available(t, n) == lease[t] = Null \/ lease[t] <= n
Abandoned(t, n) == taskStatus[t] = "running" /\ lease[t] # Null /\ lease[t] <= n
MutFree(t, n) == Due(t, n) /\ lease[t] = Null
MutDue(t, n) == Due(t, n)
Free(t, n) == (Due(t, n) /\ Available(t, n)) \/ Abandoned(t, n)

Claim(s) ==
  LET t == turn[s]  expiry == now[s] + Lease IN
  /\ Go(s, "claim", "run")
  /\ Free(t, now[s])
  /\ taskStatus' = [taskStatus EXCEPT ![t] = "running"]
  /\ lease' = [lease EXCEPT ![t] = expiry]
  /\ token' = [token EXCEPT ![s] = expiry]
  /\ UNCHANGED <<clock, nextRun, turn, now, crashes>>

\* Another process runs the task, or it is not due.
Skip(s) ==
  /\ phase[s] = "claim"
  /\ ~Free(turn[s], now[s])
  /\ NextTask(s)
  /\ UNCHANGED <<clock, rowVars, now, crashes>>

\* The callback returns or raises, however long it took.
Return(s) ==
  /\ Go(s, "run", "close")
  /\ ReadClock(s)
  /\ UNCHANGED <<clock, rowVars, turn, token, crashes>>

\* The condition of the UPDATE that closes: the row still carries this lease.
MutOwns(s, t) == taskStatus[t] = "running"
Owns(s, t) == taskStatus[t] = "running" /\ lease[t] = token[s]

Finish(s) ==
  LET t == turn[s] IN
  /\ phase[s] = "close"
  /\ IF Owns(s, t)
     THEN /\ \E outcome \in Outcomes : taskStatus' = [taskStatus EXCEPT ![t] = outcome]
          /\ nextRun' = [nextRun EXCEPT ![t] = now[s] + Interval[t]]
          /\ lease' = [lease EXCEPT ![t] = Null]
     ELSE UNCHANGED rowVars
  /\ NextTask(s)
  /\ UNCHANGED <<clock, now, crashes>>

\* The process dies and is started again; the row keeps the lease.
Crash(s) ==
  /\ crashes < MaxCrashes
  /\ crashes' = crashes + 1
  /\ phase' = [phase EXCEPT ![s] = "poll"]
  /\ turn' = [turn EXCEPT ![s] = 1]
  /\ token' = [token EXCEPT ![s] = Null]
  /\ UNCHANGED <<clock, rowVars, now>>

-----------------------------------------------------------------------------
SchedulerStep(s) ==
  \/ Poll(s)
  \/ Claim(s)
  \/ Skip(s)
  \/ Return(s)
  \/ Finish(s)

Next ==
  \/ Tick
  \/ \E s \in Schedulers : SchedulerStep(s) \/ Crash(s)

\* The processes keep running and every callback comes to an end; how long it takes
\* is up to Tick.
Fairness == \A s \in Schedulers : WF_vars(SchedulerStep(s))

Safety == Init /\ [][Next]_vars
Spec == Safety /\ Fairness

-----------------------------------------------------------------------------
Runs(s, t) == phase[s] \in {"run", "close"} /\ turn[s] = t

\* Two processes run one task at the same time only when a lease has expired: the
\* promise the callbacks' idempotence is measured against, also for a process that
\* paused between reading its clock and claiming.
OverlapOnlyAfterLease ==
  \A r, s \in Schedulers, t \in Tasks :
    r # s /\ Runs(r, t) /\ Runs(s, t) => token[r] <= clock \/ token[s] <= clock

\* As long as its lease lasts, the row names the run: no slower run of the same task
\* closes the row under it or reschedules the task.
LiveRunIsRecorded ==
  \A s \in Schedulers, t \in Tasks :
    Runs(s, t) /\ token[s] > clock => taskStatus[t] = "running" /\ lease[t] = token[s]

\* A task starts again only after the interval that followed its last recorded end,
\* or because its recorded run outlived its lease.
Restarts ==
  [][\A t \in Tasks :
       lease'[t] # lease[t] /\ lease'[t] # Null =>
         \/ (lease[t] = Null /\ nextRun[t] <= clock)
         \/ (lease[t] # Null /\ lease[t] <= clock)]_vars

\* A task whose process died is run again once its lease is over.
ExpiredIsRetaken ==
  \A t \in Tasks :
    (lease[t] # Null /\ lease[t] <= clock) ~> (lease[t] = Null \/ lease[t] > clock)
=============================================================================
