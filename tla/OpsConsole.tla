----------------------------- MODULE OpsConsole -----------------------------
(***************************************************************************)
(* The DevOps console of the browser (static/js/devops-vue.js): loadAll    *)
(* reads every list, then several summaries one after the other, and at    *)
(* the end arms a timer of 5 s when a list it shows has pending or running *)
(* work; the timer loads everything again.  The refresh button does not    *)
(* stop an armed timer, so loads overlap, and submitting a command or a    *)
(* task reads its own list again.  A list is abstracted to whether it      *)
(* shows active work.                                                      *)
(***************************************************************************)
EXTENDS Integers, FiniteSets

CONSTANT LoadSlots   \* bound: loads of the page in flight at a time

ASSUME ConsoleAssumption == IsFiniteSet(LoadSlots) /\ LoadSlots # {}

\* The lists hasRunningWork looks at; "deployments" stands for the releases and
\* the file distributions, which only loadAll reads.
WorkLists == {"commands", "tasks", "deployments"}
Submitted == {"commands", "tasks"}

VARIABLES
  loads,          \* per slot: "free", "lists" (first answers awaited) or "rest"
  refreshed,      \* the slots whose load was started by refresh()
  consoleLoading, \* loading: the page shows a spinner and nothing to press
  refreshing,     \* the refresh button is disabled
  active,         \* the lists shown that hold pending or running work
  refreshTimer,   \* the page holds the handle of a timer
  armed,          \* the timers that will fire
  submits,        \* per form: "idle", "posting" or "reloading"
  lastChange      \* history: what last changed the lists or decided about the
                  \* timer, "ok", "failed" or "reloaded"

consoleVars == <<loads, refreshed, consoleLoading, refreshing, active, refreshTimer,
                 armed, submits, lastChange>>

Timers == <<refreshTimer, armed>>

\* The page just mounted: its first load is under way.
ConsoleInit ==
  /\ \E slot \in LoadSlots : loads = [i \in LoadSlots |-> IF i = slot THEN "lists" ELSE "free"]
  /\ refreshed = {}
  /\ consoleLoading = TRUE /\ refreshing = FALSE
  /\ active = {}
  /\ refreshTimer = FALSE /\ armed = 0
  /\ submits = [form \in Submitted |-> "idle"]
  /\ lastChange = "ok"

\* refresh(): loadAll in a free slot.
Refresh(slot) ==
  /\ loads[slot] = "free"
  /\ loads' = [loads EXCEPT ![slot] = "lists"]
  /\ refreshed' = refreshed \cup {slot}
  /\ consoleLoading' = TRUE /\ refreshing' = TRUE
  /\ UNCHANGED <<active, submits, lastChange>>

\* The button.
PressRefresh(slot) ==
  /\ ~consoleLoading /\ ~refreshing
  /\ Refresh(slot)
  /\ UNCHANGED Timers

\* The timer of scheduleStatusRefresh fires.
TimerFires(slot) ==
  /\ armed > 0
  /\ armed' = armed - 1 /\ refreshTimer' = FALSE
  /\ Refresh(slot)

\* The eight lists of a load arrive together and replace what is shown.
ListsLoaded(slot, work) ==
  /\ loads[slot] = "lists"
  /\ loads' = [loads EXCEPT ![slot] = "rest"]
  /\ active' = work
  /\ UNCHANGED <<refreshed, consoleLoading, refreshing, Timers, submits, lastChange>>

MutNotRearmed ==
  /\ armed' = IF refreshTimer THEN armed - 1 ELSE armed + (IF active = {} THEN 0 ELSE 1)
  /\ refreshTimer' = IF refreshTimer \/ active = {} THEN FALSE ELSE TRUE

MutNotCleared ==
  /\ armed' = armed + (IF active = {} THEN 0 ELSE 1)
  /\ refreshTimer' = IF active = {} THEN FALSE ELSE TRUE

\* The timer held is cleared; another is armed if active work is shown.
ScheduleStatusRefresh ==
  /\ armed' = armed - (IF refreshTimer THEN 1 ELSE 0) + (IF active = {} THEN 0 ELSE 1)
  /\ refreshTimer' = IF active = {} THEN FALSE ELSE TRUE

\* loadAll and the refresh() around it return.
LoadEnds(slot) ==
  /\ loads' = [loads EXCEPT ![slot] = "free"]
  /\ refreshed' = refreshed \ {slot}
  /\ consoleLoading' = FALSE
  /\ refreshing' = IF slot \in refreshed THEN FALSE ELSE refreshing
  /\ UNCHANGED <<active, submits>>

\* The summaries, the audit log and the metrics have arrived too.
LoadSucceeded(slot) ==
  /\ loads[slot] = "rest"
  /\ ScheduleStatusRefresh
  /\ lastChange' = "ok"
  /\ LoadEnds(slot)

\* A list, the notifications, the audit log or the metrics failed to load: the
\* error is shown and nothing is scheduled.
LoadFailed(slot) ==
  /\ loads[slot] # "free"
  /\ lastChange' = "failed"
  /\ LoadEnds(slot)
  /\ UNCHANGED Timers

(***************************************************************************)
(* Submitting a command or a task.  The forms are not locked while a       *)
(* request is under way; one request per form at a time is a bound.        *)
(***************************************************************************)
Submit(form) ==
  /\ ~consoleLoading /\ submits[form] = "idle"
  /\ submits' = [submits EXCEPT ![form] = "posting"]
  /\ UNCHANGED <<loads, refreshed, consoleLoading, refreshing, active, Timers, lastChange>>

\* The server has taken it: its list is read again.
SubmitAccepted(form) ==
  /\ submits[form] = "posting"
  /\ submits' = [submits EXCEPT ![form] = "reloading"]
  /\ UNCHANGED <<loads, refreshed, consoleLoading, refreshing, active, Timers, lastChange>>

\* The list arrives, alone: no timer is armed or cleared.
ListReloaded(form, work) ==
  /\ submits[form] = "reloading"
  /\ submits' = [submits EXCEPT ![form] = "idle"]
  /\ active' = IF work THEN active \cup {form} ELSE active \ {form}
  /\ lastChange' = "reloaded"
  /\ UNCHANGED <<loads, refreshed, consoleLoading, refreshing, Timers>>

SubmitFailed(form) ==
  /\ submits[form] # "idle"
  /\ submits' = [submits EXCEPT ![form] = "idle"]
  /\ UNCHANGED <<loads, refreshed, consoleLoading, refreshing, active, Timers, lastChange>>

ConsoleNext ==
  \/ \E slot \in LoadSlots :
       \/ PressRefresh(slot)
       \/ TimerFires(slot)
       \/ \E work \in SUBSET WorkLists : ListsLoaded(slot, work)
       \/ LoadSucceeded(slot)
       \/ LoadFailed(slot)
  \/ \E form \in Submitted :
       \/ Submit(form)
       \/ SubmitAccepted(form)
       \/ \E work \in BOOLEAN : ListReloaded(form, work)
       \/ SubmitFailed(form)

ConsoleSpec == ConsoleInit /\ [][ConsoleNext]_consoleVars

(***************************************************************************)
(* Properties.                                                             *)
(***************************************************************************)
\* The type of the console's state.
ConsoleTypeOK ==
  /\ loads \in [LoadSlots -> {"free", "lists", "rest"}]
  /\ refreshed \in SUBSET LoadSlots
  /\ consoleLoading \in BOOLEAN /\ refreshing \in BOOLEAN /\ refreshTimer \in BOOLEAN
  /\ active \in SUBSET WorkLists
  /\ armed \in Nat
  /\ submits \in [Submitted -> {"idle", "posting", "reloading"}]
  /\ lastChange \in {"ok", "failed", "reloaded"}

\* However many loads overlap, at most one timer is armed and the page holds its
\* handle, so the number of pollers never grows (scheduleStatusRefresh).
OnePoller == armed = IF refreshTimer THEN 1 ELSE 0

\* A console at rest that shows active work will poll again, unless the last
\* thing that happened was a load that failed or a list read again after a
\* submission: scheduleStatusRefresh is called only where loadAll succeeds.
PollingGoesOn ==
  (\A slot \in LoadSlots : loads[slot] = "free") /\ active # {} /\ ~refreshTimer
     => lastChange \in {"failed", "reloaded"}
=============================================================================
