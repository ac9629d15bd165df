----------------------------- MODULE AlertOnCall -----------------------------
(***************************************************************************)
(* The alerts of one fingerprint and the on-call escalations they start.    *)
(* Reporters record and resolve alerts (record_alert, resolve_alert),       *)
(* operators give them a status (alert_update, the ChatOps acknowledgement) *)
(* and scanners send the one backup notification of an escalation that is   *)
(* due (process_due_oncall_escalations).                                    *)
(*                                                                         *)
(* Every ORM call is a step: an alert is saved before its escalations are   *)
(* cancelled, a report saves the status it read, and a scanner works on the *)
(* list it selected.  Two scanners overlap when a lease expires.            *)
(***************************************************************************)
EXTENDS Integers, FiniteSets

CONSTANTS
  Reporters,     \* processes that record and resolve alerts
  Operators,     \* web requests
  Scanners,      \* schedulers that run the on-call task
  Services,      \* services of the host that have an on-call policy
  NoService,     \* the service of a process that sends nothing
  MaxAlerts,     \* bound: alerts created
  MaxCrashes     \* bound: processes that die

ASSUME OnCallAssumption ==
  /\ NoService \notin Services
  /\ MaxAlerts \in Nat \ {0}
  /\ MaxCrashes \in Nat

VARIABLES
  alertStatus,   \* AlertEvent.status, "none" before the row exists
  escStatus,     \* AlertOnCallEscalation.status of an alert and a service
  due,           \* primary_notified_at is ONCALL_ESCALATION_DELAY old
  claimed,       \* backup_claimed_at is set
  backups,       \* history: backup notifications sent
  reopened,      \* history: a handled alert was set to open
  step,          \* what each process does next
  held,          \* the alert it holds, 0 for none
  seen,          \* the status of that alert as it read or saved it
  path,          \* the service whose backup it is sending
  todo,          \* the escalations on its list
  crashes        \* processes that died

alertVars == <<alertStatus, reopened>>
escVars == <<escStatus, due, claimed, backups>>
localVars == <<step, held, seen, path, todo>>
vars == <<alertVars, escVars, localVars, crashes>>

Alerts == 1..MaxAlerts
Processes == Reporters \cup Operators \cup Scanners
Active == {"open", "processing", "silenced"}
AlertStatuses == Active \cup {"resolved", "closed"}
EscStatuses == {"active", "acknowledged", "escalated", "cancelled", "failed"}
Steps == {"idle", "repeat", "create", "notify", "resolve", "ack", "cancel", "scan", "send", "store"}
Items == [alert : Alerts, service : Services, seen : AlertStatuses]

TypeOK ==
  /\ alertStatus \in [Alerts -> AlertStatuses \cup {"none"}]
  /\ escStatus \in [Alerts -> [Services -> EscStatuses \cup {"none"}]]
  /\ due \in [Alerts -> [Services -> BOOLEAN]]
  /\ claimed \in [Alerts -> [Services -> BOOLEAN]]
  /\ backups \in [Alerts -> [Services -> Nat]]
  /\ reopened \in [Alerts -> BOOLEAN]
  /\ step \in [Processes -> Steps]
  /\ held \in [Processes -> Alerts \cup {0}]
  /\ seen \in [Processes -> AlertStatuses]
  /\ path \in [Processes -> Services \cup {NoService}]
  /\ todo \in [Processes -> SUBSET Items]
  /\ crashes \in 0..MaxCrashes

Everywhere(x) == [a \in Alerts |-> [v \in Services |-> x]]

Init ==
  /\ alertStatus = [a \in Alerts |-> "none"]
  /\ reopened = [a \in Alerts |-> FALSE]
  /\ escStatus = Everywhere("none")
  /\ due = Everywhere(FALSE)
  /\ claimed = Everywhere(FALSE)
  /\ backups = Everywhere(0)
  /\ step = [p \in Processes |-> "idle"]
  /\ held = [p \in Processes |-> 0]
  /\ seen = [p \in Processes |-> "open"]
  /\ path = [p \in Processes |-> NoService]
  /\ todo = [p \in Processes |-> {}]
  /\ crashes = 0

-----------------------------------------------------------------------------
\* Process p goes on to step to with alert a, known to be st.
Goto(p, to, a, st) ==
  /\ step' = [step EXCEPT ![p] = to]
  /\ held' = [held EXCEPT ![p] = a]
  /\ seen' = [seen EXCEPT ![p] = st]
  /\ UNCHANGED <<path, crashes>>

Rest(p) == Goto(p, "idle", 0, "open") /\ todo' = [todo EXCEPT ![p] = {}]

SetStatus(a, to) ==
  /\ alertStatus' = [alertStatus EXCEPT ![a] = to]
  /\ reopened' = [reopened EXCEPT ![a] = @ \/ (to = "open" /\ alertStatus[a] \notin {"none", "open"})]

\* The statuses whose update cancels the escalations of the alert.
Handled == {"processing", "silenced", "resolved", "closed"}

\* The row update_alert_status leaves, and what is left to do afterwards.
UpdateAlert(p, a, to) ==
  /\ SetStatus(a, to)
  /\ IF to \in Handled THEN Goto(p, "cancel", a, to) ELSE Goto(p, "idle", 0, "open")
  /\ UNCHANGED <<escVars, todo>>

\* _cancel_oncall_escalations: every active escalation of the alert, also one whose
\* backup is being sent.
Cancelled(a, st) ==
  [escStatus EXCEPT ![a] = [v \in Services |->
     IF escStatus[a][v] # "active" THEN escStatus[a][v]
     ELSE IF st = "processing" THEN "acknowledged" ELSE "cancelled"]]

Cancel(p) ==
  /\ step[p] = "cancel"
  /\ escStatus' = Cancelled(held[p], seen[p])
  /\ Rest(p)
  /\ UNCHANGED <<alertVars, due, claimed, backups>>

-----------------------------------------------------------------------------
ActiveAlerts == {a \in Alerts : alertStatus[a] \in Active}

\* The newest active alert: the rows are ordered by their creation, latest first.
Newest(S) == CHOOSE a \in S : \A b \in S : b <= a

\* The row the next INSERT makes, beyond MaxAlerts when the bound is spent.
NewAlert == Cardinality({a \in Alerts : alertStatus[a] # "none"}) + 1

\* record_alert looks for an active alert; it will repeat that one or create one.
Report(p) ==
  /\ step[p] = "idle"
  /\ IF ActiveAlerts = {}
     THEN NewAlert \in Alerts /\ Goto(p, "create", 0, "open")
     ELSE Goto(p, "repeat", Newest(ActiveAlerts), alertStatus[Newest(ActiveAlerts)])
  /\ UNCHANGED <<alertVars, escVars, todo>>

\* A repeat saves the status it read, or silenced under a silence rule of that moment.
Repeat(p) ==
  /\ step[p] = "repeat"
  /\ \E to \in {seen[p], "silenced"} :
       /\ SetStatus(held[p], to)
       /\ IF to = "silenced"
          THEN Goto(p, "cancel", held[p], to)
          ELSE Goto(p, "idle", 0, "open")
  /\ UNCHANGED <<escVars, todo>>

\* A new alert, silenced or to be notified to the services that have a policy now.
Create(p) ==
  /\ step[p] = "create"
  /\ NewAlert \in Alerts
  /\ \/ /\ SetStatus(NewAlert, "silenced")
        /\ Rest(p)
     \/ \E S \in SUBSET Services :
          /\ SetStatus(NewAlert, "open")
          /\ Goto(p, "notify", NewAlert, "open")
          /\ todo' = [todo EXCEPT ![p] = [alert : {NewAlert}, service : S, seen : {"open"}]]
  /\ UNCHANGED escVars

\* One service of _notify_alert_oncall: its escalation, created once, and the primary
\* notification, whose failure only leaves a category.
Notify(p) ==
  /\ step[p] = "notify"
  /\ \E i \in todo[p] :
       /\ escStatus' = [escStatus EXCEPT ![i.alert][i.service] = IF @ = "none" THEN "active" ELSE @]
       /\ todo' = [todo EXCEPT ![p] = @ \ {i}]
  /\ UNCHANGED <<alertVars, due, claimed, backups, step, held, seen, path, crashes>>

\* resolve_alert finds the active alert and gives it the status resolved.
Resolve(p) ==
  /\ step[p] = "idle"
  /\ ActiveAlerts # {}
  /\ Goto(p, "resolve", Newest(ActiveAlerts), alertStatus[Newest(ActiveAlerts)])
  /\ UNCHANGED <<alertVars, escVars, todo>>

SaveResolved(p) == step[p] = "resolve" /\ UpdateAlert(p, held[p], "resolved")

\* A report that has nothing left to notify ends.
EndReport(p) ==
  /\ step[p] = "notify"
  /\ todo[p] = {}
  /\ Rest(p)
  /\ UNCHANGED <<alertVars, escVars>>

-----------------------------------------------------------------------------
\* alert_update: the form gives the alert any status, whatever it was.
Update(p) ==
  /\ step[p] = "idle"
  /\ \E a \in Alerts, to \in AlertStatuses :
       alertStatus[a] # "none" /\ UpdateAlert(p, a, to)

\* The ChatOps acknowledgement reads the alert and refuses one that is not open.
ReadAck(p) ==
  /\ step[p] = "idle"
  /\ \E a \in Alerts : alertStatus[a] = "open" /\ Goto(p, "ack", a, "open")
  /\ UNCHANGED <<alertVars, escVars, todo>>

Ack(p) == step[p] = "ack" /\ UpdateAlert(p, held[p], "processing")

-----------------------------------------------------------------------------
\* Fifteen minutes after the primary notification the escalation is due.
Age ==
  /\ \E a \in Alerts, v \in Services :
       /\ escStatus[a][v] # "none" /\ ~due[a][v]
       /\ due' = [due EXCEPT ![a][v] = TRUE]
  /\ UNCHANGED <<alertVars, escStatus, claimed, backups, localVars, crashes>>

Unclaimed(a, v) == escStatus[a][v] = "active" /\ ~claimed[a][v]

MutListed(a, v) == Unclaimed(a, v) /\ due[a][v] /\ alertStatus[a] = "open"
Listed(a, v) == Unclaimed(a, v) /\ due[a][v]

\* The query of a scan: the due escalations, with the alert each belongs to.
DueItems ==
  {i \in Items : Listed(i.alert, i.service) /\ alertStatus[i.alert] = i.seen}

Scan(p) ==
  /\ step[p] = "idle"
  /\ DueItems # {}
  /\ Goto(p, "scan", 0, "open")
  /\ todo' = [todo EXCEPT ![p] = DueItems]
  /\ UNCHANGED <<alertVars, escVars>>

\* Process p is done with entry i of its list.
NextItem(p, i) ==
  /\ todo' = [todo EXCEPT ![p] = @ \ {i}]
  /\ UNCHANGED <<alertVars, due, step, held, seen, path, crashes>>

\* The alert was not open any more when the list was read.
ScanHandled(p, i) ==
  /\ i.seen # "open"
  /\ escStatus' = Cancelled(i.alert, i.seen)
  /\ UNCHANGED <<claimed, backups>>
  /\ NextItem(p, i)

MutScanUnroutable(p, i) ==
  /\ i.seen = "open"
  /\ \E to \in {"cancelled", "failed"} :
       escStatus' = [escStatus EXCEPT ![i.alert][i.service] = to]
  /\ UNCHANGED <<claimed, backups>>
  /\ NextItem(p, i)

\* The policy or its backup channel is off: a conditional update closes the escalation.
ScanUnroutable(p, i) ==
  /\ i.seen = "open"
  /\ \E to \in {"cancelled", "failed"} :
       escStatus' = [escStatus EXCEPT ![i.alert][i.service] =
                       IF Unclaimed(i.alert, i.service) THEN to ELSE @]
  /\ UNCHANGED <<claimed, backups>>
  /\ NextItem(p, i)

MutActiveOnly(i) == escStatus[i.alert][i.service] = "active"
MutUnclaimedOnly(i) == ~claimed[i.alert][i.service]
\* The condition of the UPDATE that claims the backup notification.
Claimable(i) == Unclaimed(i.alert, i.service)

ClaimLost(p, i) ==
  /\ i.seen = "open"
  /\ ~Claimable(i)
  /\ UNCHANGED <<escStatus, claimed, backups>>
  /\ NextItem(p, i)

Claim(p, i) ==
  /\ i.seen = "open"
  /\ Claimable(i)
  /\ claimed' = [claimed EXCEPT ![i.alert][i.service] = TRUE]
  /\ step' = [step EXCEPT ![p] = "send"]
  /\ held' = [held EXCEPT ![p] = i.alert]
  /\ path' = [path EXCEPT ![p] = i.service]
  /\ todo' = [todo EXCEPT ![p] = @ \ {i}]
  /\ UNCHANGED <<alertVars, escStatus, due, backups, seen, crashes>>

ScanItem(p) ==
  /\ step[p] = "scan"
  /\ \E i \in todo[p] :
       ScanHandled(p, i) \/ ScanUnroutable(p, i) \/ ClaimLost(p, i) \/ Claim(p, i)

EndScan(p) ==
  /\ step[p] = "scan"
  /\ todo[p] = {}
  /\ Rest(p)
  /\ UNCHANGED <<alertVars, escVars>>

\* The backup notification leaves.
Send(p) ==
  /\ step[p] = "send"
  /\ backups' = [backups EXCEPT ![held[p]][path[p]] = @ + 1]
  /\ step' = [step EXCEPT ![p] = "store"]
  /\ UNCHANGED <<alertVars, escStatus, due, claimed, held, seen, path, todo, crashes>>

MutRetry == {"escalated", "active"}
MutCategory == {"escalated", "backup_failed"}
\* What is written after the notification, delivered or not.
Outcomes == {"escalated", "failed"}

\* That UPDATE has no condition: it stands above a cancellation made meanwhile.
Store(p) ==
  /\ step[p] = "store"
  /\ \E to \in Outcomes : escStatus' = [escStatus EXCEPT ![held[p]][path[p]] = to]
  /\ step' = [step EXCEPT ![p] = "scan"]
  /\ held' = [held EXCEPT ![p] = 0]
  /\ path' = [path EXCEPT ![p] = NoService]
  /\ UNCHANGED <<alertVars, due, claimed, backups, seen, todo, crashes>>

\* A process dies; what it saved stays.
Crash(p) ==
  /\ crashes < MaxCrashes
  /\ step[p] # "idle"
  /\ crashes' = crashes + 1
  /\ step' = [step EXCEPT ![p] = "idle"]
  /\ held' = [held EXCEPT ![p] = 0]
  /\ seen' = [seen EXCEPT ![p] = "open"]
  /\ path' = [path EXCEPT ![p] = NoService]
  /\ todo' = [todo EXCEPT ![p] = {}]
  /\ UNCHANGED <<alertVars, escVars>>

-----------------------------------------------------------------------------
ReportStep(p) ==
  \/ Report(p) \/ Repeat(p) \/ Create(p) \/ Notify(p) \/ EndReport(p)
  \/ Resolve(p) \/ SaveResolved(p) \/ Cancel(p)

OperatorStep(p) == Update(p) \/ ReadAck(p) \/ Ack(p) \/ Cancel(p)

ScanStep(p) == Scan(p) \/ ScanItem(p) \/ EndScan(p) \/ Send(p) \/ Store(p)

Next ==
  \/ Age
  \/ \E p \in Reporters : ReportStep(p)
  \/ \E p \in Operators : OperatorStep(p)
  \/ \E p \in Scanners : ScanStep(p)
  \/ \E p \in Processes : Crash(p)

\* The on-call task runs again and again; nothing is assumed of reports and operators,
\* which may stop between any two of their writes.
Fairness == \A p \in Scanners : WF_vars(ScanStep(p))

Safety == Init /\ [][Next]_vars
Spec == Safety /\ Fairness

-----------------------------------------------------------------------------
\* One backup notification per escalation, whatever overlaps, repeats or dies
\* (README.md:138): backup_claimed_at is set once and never cleared.
BackupOnce == \A a \in Alerts, v \in Services : backups[a][v] <= 1

\* Nobody starts to escalate an alert that was handled, unless the process that handled
\* it has its cancellation still to make or died before it, or the alert was reopened.
EscalatesOnlyOpen ==
  [][\A a \in Alerts, v \in Services :
       claimed'[a][v] /\ ~claimed[a][v] =>
         \/ alertStatus[a] = "open" \/ reopened[a] \/ crashes > 0
         \/ \E p \in Processes : step[p] = "cancel" /\ held[p] = a]_vars

\* The end of an escalation stands, but for the outcome of a backup that was claimed
\* before the alert was handled: process_due_oncall_escalations writes that one over the
\* acknowledgement or cancellation.
SettledStands ==
  [][\A a \in Alerts, v \in Services :
       escStatus[a][v] \notin {"none", "active"} /\ escStatus'[a][v] # escStatus[a][v] =>
         /\ escStatus[a][v] \in {"acknowledged", "cancelled"}
         /\ escStatus'[a][v] \in {"escalated", "failed"}
         /\ claimed[a][v] /\ backups[a][v] = 1]_vars

\* An escalation that is due is claimed or ends, also when the process that handled its
\* alert died before it cancelled, or cancelled before the escalation was inserted.
DueSettles ==
  \A a \in Alerts, v \in Services : (Unclaimed(a, v) /\ due[a][v]) ~> ~Unclaimed(a, v)

\* A claimed escalation ends, delivered or not, unless a process died: the scans leave a
\* claimed row alone for ever.
ClaimedSettles ==
  \A a \in Alerts, v \in Services :
    (claimed[a][v] /\ escStatus[a][v] = "active") ~> (escStatus[a][v] # "active" \/ crashes > 0)
=============================================================================
