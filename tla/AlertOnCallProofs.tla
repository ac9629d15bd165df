--------------------------- MODULE AlertOnCallProofs ---------------------------
(***************************************************************************)
(* The safety of the on-call escalations, proved for any number of alerts,  *)
(* services, reporters, operators and overlapping scans; a process may be   *)
(* of several kinds.  The inductive invariant has four parts, each proved   *)
(* with the parts before it: Holding (what a process has in hand), Rows     *)
(* (what exists), Claims (who may send a backup) and Listing (why an entry  *)
(* on a scan's list may still be escalated).                                *)
(***************************************************************************)
EXTENDS AlertOnCall, FiniteSetTheorems, WellFoundedInduction, TLAPS

\* A process has an alert in hand, a service to notify, or a list, as its step demands.
Holding ==
  \A p \in Processes :
    /\ step[p] \in {"repeat", "notify", "resolve", "ack", "cancel", "send", "store"} =>
         held[p] \in Alerts
    /\ step[p] \in {"send", "store"} => path[p] \in Services
    /\ step[p] \notin {"notify", "scan", "send", "store"} => todo[p] = {}

\* The alerts are the first rows of their table; what has no alert has no escalation,
\* and what a process works on exists.
FirstRows ==
  \A a, b \in Alerts : alertStatus[a] # "none" /\ b < a => alertStatus[b] # "none"
NoOrphans ==
  \A a \in Alerts, v \in Services : alertStatus[a] = "none" => escStatus[a][v] = "none"
HeldRows ==
  \A p \in Processes :
    step[p] \in {"repeat", "resolve", "ack", "cancel", "send", "store"} => alertStatus[held[p]] # "none"
NotifyRows ==
  \A p \in Processes : \A i \in todo[p] : alertStatus[i.alert] # "none"
Rows == FirstRows /\ NoOrphans /\ HeldRows /\ NotifyRows

\* Only a claim leads to a backup, and a claim has one holder.
Sending(p, a, v) == step[p] \in {"send", "store"} /\ held[p] = a /\ path[p] = v

ClaimedRows ==
  \A a \in Alerts, v \in Services :
    /\ claimed[a][v] => escStatus[a][v] # "none"
    /\ ~claimed[a][v] => backups[a][v] = 0
    /\ backups[a][v] \in {0, 1}
Senders ==
  \A p \in Processes, a \in Alerts, v \in Services :
    Sending(p, a, v) =>
      /\ claimed[a][v]
      /\ escStatus[a][v] \in {"active", "acknowledged", "cancelled"}
      /\ backups[a][v] = IF step[p] = "send" THEN 0 ELSE 1
OneSender ==
  \A p, q \in Processes, a \in Alerts, v \in Services :
    Sending(p, a, v) /\ Sending(q, a, v) => p = q
Claims == ClaimedRows /\ Senders /\ OneSender

\* A scan's list holds escalations that exist; one it saw open and that is still
\* unclaimed has a reason not to be cancelled yet.
Excused(a) ==
  \/ alertStatus[a] = "open" \/ reopened[a] \/ crashes > 0
  \/ \E q \in Processes : step[q] = "cancel" /\ held[q] = a
StaleReports ==
  \A p \in Processes :
    step[p] = "repeat" /\ alertStatus[held[p]] = "open" /\ seen[p] # "open" => reopened[held[p]]
ListedRows ==
  \A p \in Processes : \A i \in todo[p] :
    step[p] \in {"scan", "send", "store"} => escStatus[i.alert][i.service] # "none"
OpenEntries ==
  \A p \in Processes : \A i \in todo[p] :
    step[p] \in {"scan", "send", "store"} /\ i.seen = "open" /\ Unclaimed(i.alert, i.service) =>
      Excused(i.alert)
Listing == StaleReports /\ ListedRows /\ OpenEntries

Inv == TypeOK /\ Holding /\ Rows /\ Claims /\ Listing

-----------------------------------------------------------------------------
\* The newest of some alerts is one of them.
LEMMA NewestExists ==
  ASSUME NEW S \in SUBSET Alerts, S # {}
  PROVE  Newest(S) \in S /\ \A b \in S : b <= Newest(S)
<1> DEFINE Less == {x \in Nat \X Nat : x[1] < x[2]}
           Behind == {n \in Nat : \E a \in S : n = MaxAlerts - a}
<1>1. Behind \subseteq Nat
  OBVIOUS
<1>2. \A a \in S : MaxAlerts - a \in Behind
  BY OnCallAssumption DEF Alerts
<1>3. IsWellFoundedOn(Less, Nat)
  BY NatLessThanWellFounded DEF OpToRel
<1>4. PICK n \in Behind : \A m \in Behind : ~(<<m, n>> \in Less)
  <2> HIDE DEF Less, Behind
  <2> QED BY <1>1, <1>2, <1>3, WFMin
<1>5. \A m \in Behind : n <= m
  <2> TAKE m \in Behind
  <2>1. ~(<<m, n>> \in Less)
    BY <1>4
  <2> QED BY <2>1
<1>6. PICK a \in S : n = MaxAlerts - a
  OBVIOUS
<1>7. \A b \in S : b <= a
  BY <1>2, <1>5, <1>6, OnCallAssumption DEF Alerts
<1> QED BY <1>7 DEF Newest

\* The rows of the table are the first ones, and the next INSERT makes the row after them.
LEMMA NextRow ==
  ASSUME NEW S \in SUBSET Alerts, \A a, b \in Alerts : a \in S /\ b < a => b \in S,
         Cardinality(S) + 1 \in Alerts
  PROVE  /\ Cardinality(S) + 1 \notin S
         /\ \A b \in Alerts : b < Cardinality(S) + 1 => b \in S
<1> DEFINE n == Cardinality(S) + 1
<1>1. IsFiniteSet(S) /\ Cardinality(S) \in Nat /\ n \in Nat
  <2>1. IsFiniteSet(Alerts)
    BY FS_Interval, OnCallAssumption DEF Alerts
  <2>2. IsFiniteSet(S)
    BY <2>1, FS_Subset
  <2> QED BY <2>2, FS_CardinalityType
<1>2. n \notin S
  <2> SUFFICES ASSUME n \in S PROVE FALSE
    OBVIOUS
  <2>1. 1..n \in SUBSET S
    <3> SUFFICES ASSUME NEW k \in 1..n PROVE k \in S
      OBVIOUS
    <3>1. k \in Alerts /\ (k = n \/ k < n)
      BY <1>1, OnCallAssumption DEF Alerts
    <3> HIDE DEF n
    <3> QED BY <3>1
  <2>2. Cardinality(1..n) <= Cardinality(S)
    BY <1>1, <2>1, FS_Subset
  <2>3. Cardinality(1..n) = n
    BY <1>1, FS_Interval
  <2> QED BY <1>1, <2>2, <2>3
<1>3. ASSUME NEW b \in Alerts, b < n, b \notin S PROVE FALSE
  <2>1. S \in SUBSET (1..b-1)
    BY <1>3 DEF Alerts
  <2>2. Cardinality(1..b-1) = b - 1 /\ IsFiniteSet(1..b-1)
    BY FS_Interval DEF Alerts
  <2>3. Cardinality(S) <= b - 1
    BY <2>1, <2>2, FS_Subset
  <2> QED BY <1>1, <1>3, <2>3 DEF Alerts
<1> QED BY <1>2, <1>3
\* Every other process stays where it is.
Alone(p) ==
  \A q \in Processes \ {p} :
    /\ step'[q] = step[q] /\ held'[q] = held[q] /\ seen'[q] = seen[q]
    /\ path'[q] = path[q] /\ todo'[q] = todo[q]
At(p, to, a, st) == step'[p] = to /\ held'[p] = a /\ seen'[p] = st

\* The effect of an alert's update on its row, and on what history says of it.
Sets(a, to) ==
  /\ alertStatus'[a] = to
  /\ \A b \in Alerts \ {a} : alertStatus'[b] = alertStatus[b] /\ reopened'[b] = reopened[b]
  /\ reopened[a] => reopened'[a]
  /\ to = "open" /\ alertStatus[a] \notin {"none", "open"} => reopened'[a]

\* The effect of a cancellation: no escalation of the alert is active, nothing else moves.
Cancels(a) ==
  /\ \A b \in Alerts, v \in Services :
       escStatus'[b][v] = escStatus[b][v] \/ (escStatus[b][v] = "active" /\ b = a)
  /\ \A v \in Services :
       escStatus[a][v] = "active" => escStatus'[a][v] \in {"acknowledged", "cancelled"}

\* One entry of a table of escalations changes.
OnlyEntry(f, g, a, v) ==
  \A b \in Alerts, u \in Services : b # a \/ u # v => f[b][u] = g[b][u]

LEMMA GotoEffect ==
  ASSUME TypeOK, NEW p \in Processes, NEW to \in Steps, NEW a \in Alerts \cup {0},
         NEW st \in AlertStatuses, Goto(p, to, a, st)
  PROVE  /\ step' \in [Processes -> Steps]
         /\ held' \in [Processes -> Alerts \cup {0}]
         /\ seen' \in [Processes -> AlertStatuses]
         /\ UNCHANGED <<path, crashes>>
         /\ At(p, to, a, st)
         /\ \A q \in Processes \ {p} :
              step'[q] = step[q] /\ held'[q] = held[q] /\ seen'[q] = seen[q]
  BY DEF TypeOK, Goto, At

LEMMA SetEffect ==
  ASSUME TypeOK, NEW a \in Alerts, NEW to \in AlertStatuses, SetStatus(a, to)
  PROVE  /\ alertStatus' \in [Alerts -> AlertStatuses \cup {"none"}]
         /\ reopened' \in [Alerts -> BOOLEAN]
         /\ Sets(a, to)
  BY DEF TypeOK, SetStatus, Sets

LEMMA EscalationEntry ==
  ASSUME TypeOK, NEW a \in Alerts, NEW v \in Services, NEW x \in (EscStatuses \cup {"none"}),
         escStatus' = [escStatus EXCEPT ![a][v] = x]
  PROVE  /\ escStatus' \in [Alerts -> [Services -> (EscStatuses \cup {"none"})]]
         /\ escStatus'[a][v] = x /\ OnlyEntry(escStatus', escStatus, a, v)
<1> DEFINE T == (EscStatuses \cup {"none"})
<1>1. escStatus \in [Alerts -> [Services -> T]] /\ x \in T
  BY DEF TypeOK
<1> HIDE DEF T
<1>2. escStatus' \in [Alerts -> [Services -> T]]
  BY <1>1
<1>3. escStatus'[a][v] = x /\ OnlyEntry(escStatus', escStatus, a, v)
  BY <1>1 DEF OnlyEntry
<1> QED BY <1>2, <1>3 DEF T

LEMMA ClaimedEntry ==
  ASSUME TypeOK, NEW a \in Alerts, NEW v \in Services, NEW x \in BOOLEAN,
         claimed' = [claimed EXCEPT ![a][v] = x]
  PROVE  /\ claimed' \in [Alerts -> [Services -> BOOLEAN]]
         /\ claimed'[a][v] = x /\ OnlyEntry(claimed', claimed, a, v)
<1> DEFINE T == BOOLEAN
<1>1. claimed \in [Alerts -> [Services -> T]] /\ x \in T
  BY DEF TypeOK
<1> HIDE DEF T
<1>2. claimed' \in [Alerts -> [Services -> T]]
  BY <1>1
<1>3. claimed'[a][v] = x /\ OnlyEntry(claimed', claimed, a, v)
  BY <1>1 DEF OnlyEntry
<1> QED BY <1>2, <1>3 DEF T

LEMMA BackupsEntry ==
  ASSUME TypeOK, NEW a \in Alerts, NEW v \in Services, NEW x \in Nat,
         backups' = [backups EXCEPT ![a][v] = x]
  PROVE  /\ backups' \in [Alerts -> [Services -> Nat]]
         /\ backups'[a][v] = x /\ OnlyEntry(backups', backups, a, v)
<1> DEFINE T == Nat
<1>1. backups \in [Alerts -> [Services -> T]] /\ x \in T
  BY DEF TypeOK
<1> HIDE DEF T
<1>2. backups' \in [Alerts -> [Services -> T]]
  BY <1>1
<1>3. backups'[a][v] = x /\ OnlyEntry(backups', backups, a, v)
  BY <1>1 DEF OnlyEntry
<1> QED BY <1>2, <1>3 DEF T

LEMMA CancelledEffect ==
  ASSUME TypeOK, NEW a \in Alerts, NEW st \in AlertStatuses, escStatus' = Cancelled(a, st)
  PROVE  escStatus' \in [Alerts -> [Services -> EscStatuses \cup {"none"}]] /\ Cancels(a)
  BY DEF TypeOK, Cancelled, Cancels, EscStatuses

LEMMA RestEffect ==
  ASSUME TypeOK, NEW p \in Processes, Rest(p)
  PROVE  /\ At(p, "idle", 0, "open") /\ Alone(p)
         /\ todo'[p] = {} /\ UNCHANGED <<path, crashes>>
         /\ step' \in [Processes -> Steps]
         /\ held' \in [Processes -> Alerts \cup {0}]
         /\ seen' \in [Processes -> AlertStatuses]
         /\ todo' \in [Processes -> SUBSET Items]
  BY GotoEffect DEF Rest, TypeOK, Alone, Steps, AlertStatuses, Active

\* What each action does, column by column; all of them keep the types.
LEMMA ReportEffect ==
  ASSUME TypeOK, NEW p \in Processes, Report(p)
  PROVE  /\ TypeOK' /\ Alone(p) /\ step[p] = "idle" /\ todo'[p] = todo[p]
         /\ UNCHANGED <<alertVars, escVars, crashes>>
         /\ \/ At(p, "create", 0, "open")
            \/ \E a \in ActiveAlerts : At(p, "repeat", a, alertStatus[a])
<1> USE DEF Steps, AlertStatuses, Active
<1>1. CASE ActiveAlerts = {}
  <2>1. Goto(p, "create", 0, "open")
    BY <1>1 DEF Report
  <2> QED BY <2>1, GotoEffect DEF Report, TypeOK, Alone, alertVars, escVars
<1>2. CASE ActiveAlerts # {}
  <2>1. PICK a \in ActiveAlerts : a = Newest(ActiveAlerts)
    BY <1>2, NewestExists DEF ActiveAlerts
  <2>2. Goto(p, "repeat", a, alertStatus[a])
    BY <1>2, <2>1 DEF Report
  <2>3. a \in Alerts /\ alertStatus[a] \in AlertStatuses
    BY DEF ActiveAlerts, TypeOK
  <2> QED BY <2>2, <2>3, GotoEffect DEF Report, TypeOK, Alone, alertVars, escVars
<1> QED BY <1>1, <1>2

LEMMA ResolveEffect ==
  ASSUME TypeOK, NEW p \in Processes, Resolve(p)
  PROVE  /\ TypeOK' /\ Alone(p) /\ step[p] = "idle" /\ todo'[p] = todo[p]
         /\ UNCHANGED <<alertVars, escVars, crashes>>
         /\ \E a \in ActiveAlerts : At(p, "resolve", a, alertStatus[a])
<1> USE DEF Steps, AlertStatuses, Active
<1>1. PICK a \in ActiveAlerts : a = Newest(ActiveAlerts)
  BY NewestExists DEF ActiveAlerts, Resolve
<1>2. Goto(p, "resolve", a, alertStatus[a])
  BY <1>1 DEF Resolve
<1>3. a \in Alerts /\ alertStatus[a] \in AlertStatuses
  BY DEF ActiveAlerts, TypeOK
<1> QED BY <1>2, <1>3, GotoEffect DEF Resolve, TypeOK, Alone, alertVars, escVars

LEMMA ReadAckEffect ==
  ASSUME TypeOK, NEW p \in Processes, ReadAck(p)
  PROVE  /\ TypeOK' /\ Alone(p) /\ step[p] = "idle" /\ todo'[p] = todo[p]
         /\ UNCHANGED <<alertVars, escVars, crashes>>
         /\ \E a \in Alerts : alertStatus[a] = "open" /\ At(p, "ack", a, "open")
<1> USE DEF Steps, AlertStatuses, Active
<1>1. PICK a \in Alerts : alertStatus[a] = "open" /\ Goto(p, "ack", a, "open")
  BY DEF ReadAck
<1> QED BY <1>1, GotoEffect DEF ReadAck, TypeOK, Alone, alertVars, escVars

LEMMA UpdateEffect ==
  ASSUME TypeOK, NEW p \in Processes, NEW a \in Alerts, NEW to \in AlertStatuses,
         UpdateAlert(p, a, to)
  PROVE  /\ TypeOK' /\ Alone(p) /\ todo'[p] = todo[p]
         /\ UNCHANGED <<escVars, crashes>>
         /\ Sets(a, to)
         /\ IF to = "open" THEN At(p, "idle", 0, "open") ELSE At(p, "cancel", a, to)
<1> USE DEF Steps, AlertStatuses, Active, Handled
<1>1. CASE to = "open"
  <2>1. Goto(p, "idle", 0, "open")
    BY <1>1 DEF UpdateAlert
  <2> QED BY <1>1, <2>1, GotoEffect, SetEffect DEF UpdateAlert, TypeOK, Alone, escVars
<1>2. CASE to # "open"
  <2>1. Goto(p, "cancel", a, to)
    BY <1>2 DEF UpdateAlert
  <2> QED BY <1>2, <2>1, GotoEffect, SetEffect DEF UpdateAlert, TypeOK, Alone, escVars
<1> QED BY <1>1, <1>2

LEMMA RepeatEffect ==
  ASSUME TypeOK, Holding, NEW p \in Processes, Repeat(p)
  PROVE  /\ TypeOK' /\ Alone(p) /\ step[p] = "repeat" /\ todo'[p] = todo[p]
         /\ UNCHANGED <<escVars, crashes>>
         /\ \/ Sets(held[p], "silenced") /\ At(p, "cancel", held[p], "silenced")
            \/ /\ seen[p] # "silenced" /\ Sets(held[p], seen[p])
               /\ At(p, "idle", 0, "open")
<1> USE DEF Steps, AlertStatuses, Active
<1>1. PICK to \in {seen[p], "silenced"} :
        /\ SetStatus(held[p], to)
        /\ IF to = "silenced" THEN Goto(p, "cancel", held[p], to) ELSE Goto(p, "idle", 0, "open")
  BY DEF Repeat
<1>2. held[p] \in Alerts /\ to \in AlertStatuses
  BY DEF Repeat, Holding, TypeOK
<1>3. CASE to = "silenced"
  <2>1. Goto(p, "cancel", held[p], "silenced")
    BY <1>1, <1>3
  <2> QED BY <1>1, <1>2, <1>3, <2>1, GotoEffect, SetEffect DEF Repeat, TypeOK, Alone, escVars
<1>4. CASE to # "silenced"
  <2>1. Goto(p, "idle", 0, "open") /\ to = seen[p]
    BY <1>1, <1>4
  <2> QED BY <1>1, <1>2, <1>4, <2>1, GotoEffect, SetEffect DEF Repeat, TypeOK, Alone, escVars
<1> QED BY <1>3, <1>4

LEMMA CreateEffect ==
  ASSUME TypeOK, FirstRows, NEW p \in Processes, Create(p)
  PROVE  /\ TypeOK' /\ Alone(p) /\ step[p] = "create"
         /\ UNCHANGED <<escVars, crashes>>
         /\ \E a \in Alerts :
              /\ alertStatus[a] = "none"
              /\ \A b \in Alerts : b < a => alertStatus[b] # "none"
              /\ \/ Sets(a, "silenced") /\ At(p, "idle", 0, "open") /\ todo'[p] = {}
                 \/ /\ Sets(a, "open") /\ At(p, "notify", a, "open")
                    /\ \A i \in todo'[p] : i.alert = a
<1> USE DEF Steps, AlertStatuses, Active
<1> DEFINE S == {a \in Alerts : alertStatus[a] # "none"}
           n == NewAlert
<1>1. n \in Alerts /\ n \notin S /\ \A b \in Alerts : b < n => b \in S
  <2>1. S \in SUBSET Alerts /\ \A a, b \in Alerts : a \in S /\ b < a => b \in S
    BY DEF FirstRows
  <2>2. n = Cardinality(S) + 1 /\ n \in Alerts
    BY DEF NewAlert, Create
  <2> HIDE DEF S, n
  <2> QED BY <2>1, <2>2, NextRow
<1>2. alertStatus[n] = "none" /\ \A b \in Alerts : b < n => alertStatus[b] # "none"
  BY <1>1
<1> HIDE DEF S, n
<1>3. CASE SetStatus(n, "silenced") /\ Rest(p)
  BY <1>1, <1>2, <1>3, SetEffect, RestEffect DEF Create, TypeOK, escVars
<1>4. CASE \E V \in SUBSET Services :
             /\ SetStatus(n, "open")
             /\ Goto(p, "notify", n, "open")
             /\ todo' = [todo EXCEPT ![p] = [alert : {n}, service : V, seen : {"open"}]]
  <2>1. PICK V \in SUBSET Services :
          /\ SetStatus(n, "open")
          /\ Goto(p, "notify", n, "open")
          /\ todo' = [todo EXCEPT ![p] = [alert : {n}, service : V, seen : {"open"}]]
    BY <1>4
  <2>2. [alert : {n}, service : V, seen : {"open"}] \subseteq Items
    BY <1>1 DEF Items
  <2>3. /\ todo' \in [Processes -> SUBSET Items]
        /\ \A i \in todo'[p] : i.alert = n
        /\ \A q \in Processes \ {p} : todo'[q] = todo[q]
    BY <2>1, <2>2 DEF TypeOK
  <2> QED BY <1>1, <1>2, <2>1, <2>3, SetEffect, GotoEffect DEF Create, TypeOK, Alone, escVars
<1> QED BY <1>3, <1>4 DEF Create, n

LEMMA NotifyEffect ==
  ASSUME TypeOK, NEW p \in Processes, Notify(p)
  PROVE  /\ TypeOK' /\ Alone(p) /\ step[p] = "notify"
         /\ UNCHANGED <<alertVars, due, claimed, backups, step, held, seen, path, crashes>>
         /\ \E i \in todo[p] :
              /\ i \in Items /\ todo'[p] = todo[p] \ {i}
              /\ OnlyEntry(escStatus', escStatus, i.alert, i.service)
              /\ escStatus'[i.alert][i.service] =
                   IF escStatus[i.alert][i.service] = "none" THEN "active"
                   ELSE escStatus[i.alert][i.service]
<1>1. PICK i \in todo[p] :
        /\ escStatus' = [escStatus EXCEPT ![i.alert][i.service] = IF @ = "none" THEN "active" ELSE @]
        /\ todo' = [todo EXCEPT ![p] = @ \ {i}]
  BY DEF Notify
<1>2. i \in Items /\ i.alert \in Alerts /\ i.service \in Services
  BY DEF TypeOK, Items
<1>3. todo' \in [Processes -> SUBSET Items] /\ todo'[p] = todo[p] \ {i}
      /\ \A q \in Processes \ {p} : todo'[q] = todo[q]
  BY <1>1 DEF TypeOK
<1> DEFINE x == IF escStatus[i.alert][i.service] = "none" THEN "active"
                ELSE escStatus[i.alert][i.service]
<1>4. x \in EscStatuses \cup {"none"}
  BY <1>2 DEF TypeOK, EscStatuses
<1>5. /\ escStatus' \in [Alerts -> [Services -> EscStatuses \cup {"none"}]]
      /\ escStatus'[i.alert][i.service] = x
      /\ OnlyEntry(escStatus', escStatus, i.alert, i.service)
  <2>1. escStatus \in [Alerts -> [Services -> EscStatuses \cup {"none"}]]
    BY DEF TypeOK
  <2>2. escStatus' = [escStatus EXCEPT ![i.alert][i.service] = x]
    BY <1>1
  <2> HIDE DEF x
  <2> QED BY <1>2, <1>4, <2>1, <2>2, EscalationEntry
<1> QED BY <1>2, <1>3, <1>5 DEF Notify, TypeOK, Alone, alertVars

LEMMA CancelEffect ==
  ASSUME TypeOK, Holding, NEW p \in Processes, Cancel(p)
  PROVE  /\ TypeOK' /\ Alone(p) /\ step[p] = "cancel" /\ At(p, "idle", 0, "open")
         /\ todo'[p] = {} /\ Cancels(held[p]) /\ held[p] \in Alerts
         /\ UNCHANGED <<alertVars, due, claimed, backups, crashes>>
<1>1. held[p] \in Alerts /\ seen[p] \in AlertStatuses
  BY DEF Cancel, Holding, TypeOK
<1> QED BY <1>1, CancelledEffect, RestEffect DEF Cancel, TypeOK, alertVars

\* A report or a scan that has nothing left to do.
LEMMA EndEffect ==
  ASSUME TypeOK, NEW p \in Processes, EndReport(p) \/ EndScan(p)
  PROVE  /\ TypeOK' /\ Alone(p) /\ step[p] \in {"notify", "scan"} /\ At(p, "idle", 0, "open")
         /\ todo'[p] = {} /\ UNCHANGED <<alertVars, escVars, crashes>>
  BY RestEffect DEF EndReport, EndScan, TypeOK, alertVars, escVars

LEMMA ScanEffect ==
  ASSUME TypeOK, NEW p \in Processes, Scan(p)
  PROVE  /\ TypeOK' /\ Alone(p) /\ step[p] = "idle" /\ At(p, "scan", 0, "open")
         /\ todo'[p] = DueItems /\ UNCHANGED <<alertVars, escVars, crashes>>
<1>1. todo' \in [Processes -> SUBSET Items] /\ todo'[p] = DueItems
      /\ \A q \in Processes \ {p} : todo'[q] = todo[q]
  BY DEF Scan, TypeOK, DueItems
<1>2. Goto(p, "scan", 0, "open")
  BY DEF Scan
<1> QED BY <1>1, <1>2, GotoEffect DEF Scan, TypeOK, Alone, alertVars, escVars, Steps, AlertStatuses, Active

LEMMA NextItemEffect ==
  ASSUME TypeOK, NEW p \in Processes, NEW i \in todo[p], NextItem(p, i)
  PROVE  /\ Alone(p) /\ todo'[p] = todo[p] \ {i}
         /\ todo' \in [Processes -> SUBSET Items]
         /\ i \in Items /\ i.alert \in Alerts /\ i.service \in Services /\ i.seen \in AlertStatuses
  BY DEF TypeOK, NextItem, Alone, Items

LEMMA ScanHandledEffect ==
  ASSUME TypeOK, NEW p \in Processes, NEW i \in todo[p], ScanHandled(p, i)
  PROVE  /\ TypeOK' /\ Alone(p) /\ todo'[p] = todo[p] \ {i}
         /\ i.alert \in Alerts /\ Cancels(i.alert)
         /\ UNCHANGED <<alertVars, due, claimed, backups, step, held, seen, path, crashes>>
<1>1. NextItem(p, i) /\ escStatus' = Cancelled(i.alert, i.seen)
  BY DEF ScanHandled
<1> QED BY <1>1, NextItemEffect, CancelledEffect DEF ScanHandled, NextItem, TypeOK, alertVars

LEMMA ScanUnroutableEffect ==
  ASSUME TypeOK, NEW p \in Processes, NEW i \in todo[p], ScanUnroutable(p, i)
  PROVE  /\ TypeOK' /\ Alone(p) /\ todo'[p] = todo[p] \ {i}
         /\ i.alert \in Alerts /\ i.service \in Services
         /\ OnlyEntry(escStatus', escStatus, i.alert, i.service)
         /\ \/ escStatus'[i.alert][i.service] = escStatus[i.alert][i.service]
            \/ /\ Unclaimed(i.alert, i.service)
               /\ escStatus'[i.alert][i.service] \in {"cancelled", "failed"}
         /\ UNCHANGED <<alertVars, due, claimed, backups, step, held, seen, path, crashes>>
<1>1. PICK to \in {"cancelled", "failed"} :
        escStatus' = [escStatus EXCEPT ![i.alert][i.service] =
                        IF Unclaimed(i.alert, i.service) THEN to ELSE @]
  BY DEF ScanUnroutable
<1>2. NextItem(p, i)
  BY DEF ScanUnroutable
<1>3. i.alert \in Alerts /\ i.service \in Services
  BY <1>2, NextItemEffect
<1> DEFINE x == IF Unclaimed(i.alert, i.service) THEN to ELSE escStatus[i.alert][i.service]
<1>4. x \in EscStatuses \cup {"none"}
  BY <1>3 DEF TypeOK, EscStatuses
<1>5. /\ escStatus' \in [Alerts -> [Services -> EscStatuses \cup {"none"}]]
      /\ escStatus'[i.alert][i.service] = x
      /\ OnlyEntry(escStatus', escStatus, i.alert, i.service)
  <2>1. escStatus \in [Alerts -> [Services -> EscStatuses \cup {"none"}]]
    BY DEF TypeOK
  <2>2. escStatus' = [escStatus EXCEPT ![i.alert][i.service] = x]
    BY <1>1
  <2> HIDE DEF x
  <2> QED BY <1>3, <1>4, <2>1, <2>2, EscalationEntry
<1>6. x = escStatus[i.alert][i.service] \/ (Unclaimed(i.alert, i.service) /\ x = to)
  OBVIOUS
<1> HIDE DEF x
<1> QED BY <1>2, <1>3, <1>5, <1>6, NextItemEffect DEF ScanUnroutable, NextItem, TypeOK, alertVars

LEMMA ClaimLostEffect ==
  ASSUME TypeOK, NEW p \in Processes, NEW i \in todo[p], ClaimLost(p, i)
  PROVE  /\ TypeOK' /\ Alone(p) /\ todo'[p] = todo[p] \ {i}
         /\ UNCHANGED <<alertVars, escVars, step, held, seen, path, crashes>>
<1>1. NextItem(p, i)
  BY DEF ClaimLost
<1> QED BY <1>1, NextItemEffect DEF ClaimLost, NextItem, TypeOK, alertVars, escVars

LEMMA ClaimEffect ==
  ASSUME TypeOK, NEW p \in Processes, NEW i \in todo[p], step[p] = "scan", Claim(p, i)
  PROVE  /\ TypeOK' /\ Alone(p) /\ todo'[p] = todo[p] \ {i} /\ i.seen = "open"
         /\ i.alert \in Alerts /\ i.service \in Services
         /\ Unclaimed(i.alert, i.service)
         /\ OnlyEntry(claimed', claimed, i.alert, i.service) /\ claimed'[i.alert][i.service]
         /\ At(p, "send", i.alert, seen[p]) /\ path'[p] = i.service
         /\ UNCHANGED <<alertVars, escStatus, due, backups, crashes>>
<1>1. i \in Items /\ i.alert \in Alerts /\ i.service \in Services
  BY DEF TypeOK, Items
<1>2. /\ claimed' \in [Alerts -> [Services -> BOOLEAN]]
      /\ claimed'[i.alert][i.service] = TRUE
      /\ OnlyEntry(claimed', claimed, i.alert, i.service)
  <2>1. claimed \in [Alerts -> [Services -> BOOLEAN]]
    BY DEF TypeOK
  <2>2. claimed' = [claimed EXCEPT ![i.alert][i.service] = TRUE]
    BY DEF Claim
  <2> QED BY <1>1, <2>1, <2>2, ClaimedEntry
<1>3. /\ step' \in [Processes -> Steps] /\ held' \in [Processes -> Alerts \cup {0}]
      /\ path' \in [Processes -> Services \cup {NoService}]
      /\ todo' \in [Processes -> SUBSET Items]
      /\ todo'[p] = todo[p] \ {i} /\ path'[p] = i.service
      /\ Alone(p) /\ At(p, "send", i.alert, seen[p])
  BY <1>1 DEF Claim, TypeOK, Alone, At, Steps
<1> QED BY <1>1, <1>2, <1>3 DEF Claim, Claimable, TypeOK, alertVars

LEMMA SendEffect ==
  ASSUME TypeOK, Holding, NEW p \in Processes, Send(p)
  PROVE  /\ TypeOK' /\ Alone(p) /\ step[p] = "send" /\ At(p, "store", held[p], seen[p])
         /\ held[p] \in Alerts /\ path[p] \in Services
         /\ OnlyEntry(backups', backups, held[p], path[p])
         /\ backups'[held[p]][path[p]] = backups[held[p]][path[p]] + 1
         /\ UNCHANGED <<alertVars, escStatus, due, claimed, held, seen, path, todo, crashes>>
<1>1. held[p] \in Alerts /\ path[p] \in Services
  BY DEF Send, Holding
<1> DEFINE x == backups[held[p]][path[p]] + 1
<1>2. /\ backups' \in [Alerts -> [Services -> Nat]]
      /\ backups'[held[p]][path[p]] = x
      /\ OnlyEntry(backups', backups, held[p], path[p])
  <2>1. backups \in [Alerts -> [Services -> Nat]] /\ x \in Nat
    BY <1>1 DEF TypeOK
  <2>2. backups' = [backups EXCEPT ![held[p]][path[p]] = x]
    BY DEF Send
  <2> HIDE DEF x
  <2> QED BY <1>1, <2>1, <2>2, BackupsEntry
<1>3. step' \in [Processes -> Steps] /\ Alone(p) /\ At(p, "store", held[p], seen[p])
  BY DEF Send, TypeOK, Alone, At, Steps
<1> QED BY <1>1, <1>2, <1>3 DEF Send, TypeOK, alertVars

LEMMA StoreEffect ==
  ASSUME TypeOK, Holding, NEW p \in Processes, Store(p)
  PROVE  /\ TypeOK' /\ Alone(p) /\ step[p] = "store" /\ At(p, "scan", 0, seen[p])
         /\ held[p] \in Alerts /\ path[p] \in Services /\ path'[p] = NoService
         /\ OnlyEntry(escStatus', escStatus, held[p], path[p])
         /\ escStatus'[held[p]][path[p]] \in Outcomes
         /\ UNCHANGED <<alertVars, due, claimed, backups, seen, todo, crashes>>
<1>1. held[p] \in Alerts /\ path[p] \in Services
  BY DEF Store, Holding
<1>2. PICK to \in Outcomes : escStatus' = [escStatus EXCEPT ![held[p]][path[p]] = to]
  BY DEF Store
<1>3. /\ escStatus' \in [Alerts -> [Services -> EscStatuses \cup {"none"}]]
      /\ escStatus'[held[p]][path[p]] = to
      /\ OnlyEntry(escStatus', escStatus, held[p], path[p])
  <2>1. escStatus \in [Alerts -> [Services -> EscStatuses \cup {"none"}]]
    BY DEF TypeOK
  <2>2. to \in EscStatuses \cup {"none"}
    BY DEF Outcomes, EscStatuses
  <2> QED BY <1>1, <1>2, <2>1, <2>2, EscalationEntry
<1>4. /\ step' \in [Processes -> Steps] /\ held' \in [Processes -> Alerts \cup {0}]
      /\ path' \in [Processes -> Services \cup {NoService}]
      /\ Alone(p) /\ At(p, "scan", 0, seen[p]) /\ path'[p] = NoService
  BY DEF Store, TypeOK, Alone, At, Steps
<1> QED BY <1>1, <1>3, <1>4 DEF Store, TypeOK, alertVars

LEMMA CrashEffect ==
  ASSUME TypeOK, NEW p \in Processes, Crash(p)
  PROVE  /\ TypeOK' /\ Alone(p) /\ At(p, "idle", 0, "open") /\ todo'[p] = {}
         /\ UNCHANGED <<alertVars, escVars>> /\ crashes' > 0
  BY OnCallAssumption DEF Crash, TypeOK, Alone, At, Steps, AlertStatuses, Active, alertVars, escVars

LEMMA AgeEffect ==
  ASSUME TypeOK, Age
  PROVE  TypeOK' /\ UNCHANGED <<alertVars, escStatus, claimed, backups, localVars, crashes>>
<1>1. PICK a \in Alerts, v \in Services : due' = [due EXCEPT ![a][v] = TRUE]
  BY DEF Age
<1>2. due' \in [Alerts -> [Services -> BOOLEAN]]
  BY <1>1 DEF TypeOK
<1> QED BY <1>2 DEF Age, TypeOK, alertVars, localVars

-----------------------------------------------------------------------------
\* The steps of Next, an update of an alert told as one whoever makes it.
Updates(p) ==
  /\ step[p] \in {"idle", "resolve", "ack"}
  /\ \E a \in Alerts, to \in AlertStatuses :
       alertStatus[a] # "none" /\ UpdateAlert(p, a, to)
Moves(p) ==
  \/ Report(p) \/ Repeat(p) \/ Create(p) \/ Notify(p) \/ EndReport(p) \/ Resolve(p)
  \/ Updates(p) \/ Cancel(p) \/ ReadAck(p) \/ Scan(p) \/ EndScan(p) \/ Send(p) \/ Store(p)
  \/ Crash(p)
ScanMoves(p) ==
  /\ step[p] = "scan"
  /\ \E i \in todo[p] :
       ScanHandled(p, i) \/ ScanUnroutable(p, i) \/ ClaimLost(p, i) \/ Claim(p, i)

LEMMA NextMoves ==
  ASSUME TypeOK, Holding, HeldRows, Next
  PROVE  Age \/ \E p \in Processes : Moves(p) \/ ScanMoves(p)
<1>1. ASSUME NEW p \in Processes, SaveResolved(p) PROVE Updates(p)
  BY <1>1 DEF SaveResolved, Holding, HeldRows, Updates, AlertStatuses
<1>2. ASSUME NEW p \in Processes, Ack(p) PROVE Updates(p)
  BY <1>2 DEF Ack, Holding, HeldRows, Updates, AlertStatuses, Active
<1>3. ASSUME NEW p \in Processes, Update(p) PROVE Updates(p)
  BY <1>3 DEF Update, Updates
<1>4. ASSUME NEW p \in Reporters, ReportStep(p) PROVE Moves(p)
  BY <1>1, <1>4 DEF ReportStep, Moves, Processes
<1>5. ASSUME NEW p \in Operators, OperatorStep(p) PROVE Moves(p)
  BY <1>2, <1>3, <1>5 DEF OperatorStep, Moves, Processes
<1>6. ASSUME NEW p \in Scanners, ScanStep(p) PROVE Moves(p) \/ ScanMoves(p)
  BY <1>6 DEF ScanStep, ScanItem, Moves, ScanMoves
<1>7. ASSUME NEW p \in Processes, Crash(p) PROVE Moves(p)
  BY <1>7 DEF Moves
<1> QED BY <1>4, <1>5, <1>6, <1>7 DEF Next, Processes

\* Every step keeps every column and every variable in range.
LEMMA TypeStep ==
  ASSUME TypeOK, Holding, Rows, [Next]_vars
  PROVE  TypeOK'
<1> USE DEF TypeOK, Rows, alertVars, escVars, localVars
<1>1. CASE Age
  BY <1>1, AgeEffect
<1>2. ASSUME NEW p \in Processes, Report(p) PROVE TypeOK'
  BY <1>2, ReportEffect
<1>3. ASSUME NEW p \in Processes, Repeat(p) PROVE TypeOK'
  BY <1>3, RepeatEffect
<1>4. ASSUME NEW p \in Processes, Create(p) PROVE TypeOK'
  BY <1>4, CreateEffect
<1>5. ASSUME NEW p \in Processes, Notify(p) PROVE TypeOK'
  BY <1>5, NotifyEffect
<1>6. ASSUME NEW p \in Processes, EndReport(p) \/ EndScan(p) PROVE TypeOK'
  BY <1>6, EndEffect
<1>7. ASSUME NEW p \in Processes, Resolve(p) PROVE TypeOK'
  BY <1>7, ResolveEffect
<1>8. ASSUME NEW p \in Processes, Updates(p) PROVE TypeOK'
  BY <1>8, UpdateEffect DEF Updates
<1>9. ASSUME NEW p \in Processes, Cancel(p) PROVE TypeOK'
  BY <1>9, CancelEffect
<1>10. ASSUME NEW p \in Processes, ReadAck(p) PROVE TypeOK'
  BY <1>10, ReadAckEffect
<1>11. ASSUME NEW p \in Processes, Scan(p) PROVE TypeOK'
  BY <1>11, ScanEffect
<1>12. ASSUME NEW p \in Processes, Send(p) PROVE TypeOK'
  BY <1>12, SendEffect
<1>13. ASSUME NEW p \in Processes, Store(p) PROVE TypeOK'
  BY <1>13, StoreEffect
<1>14. ASSUME NEW p \in Processes, Crash(p) PROVE TypeOK'
  BY <1>14, CrashEffect
<1>15. ASSUME NEW p \in Processes, step[p] = "scan", NEW i \in todo[p], ScanHandled(p, i) PROVE TypeOK'
  BY <1>15, ScanHandledEffect
<1>16. ASSUME NEW p \in Processes, step[p] = "scan", NEW i \in todo[p], ScanUnroutable(p, i) PROVE TypeOK'
  BY <1>16, ScanUnroutableEffect
<1>17. ASSUME NEW p \in Processes, step[p] = "scan", NEW i \in todo[p], ClaimLost(p, i) PROVE TypeOK'
  BY <1>17, ClaimLostEffect
<1>18. ASSUME NEW p \in Processes, step[p] = "scan", NEW i \in todo[p], Claim(p, i) PROVE TypeOK'
  BY <1>18, ClaimEffect
<1>19. CASE UNCHANGED vars
  BY <1>19 DEF vars
<1> QED
  BY <1>1, <1>2, <1>3, <1>4, <1>5, <1>6, <1>7, <1>8, <1>9, <1>10, <1>11, <1>12, <1>13, <1>14, <1>15, <1>16, <1>17, <1>18, <1>19, NextMoves DEF Moves, ScanMoves

\* What a process has in hand.
LEMMA HoldingStep ==
  ASSUME TypeOK, Holding, Rows, [Next]_vars
  PROVE  Holding'
<1> USE DEF Holding, Rows, Alone, At, ActiveAlerts, alertVars, escVars, localVars
<1>1. CASE Age
  BY <1>1, AgeEffect
<1>2. ASSUME NEW p \in Processes, Report(p) PROVE Holding'
  BY <1>2, ReportEffect
<1>3. ASSUME NEW p \in Processes, Repeat(p) PROVE Holding'
  BY <1>3, RepeatEffect
<1>4. ASSUME NEW p \in Processes, Create(p) PROVE Holding'
  BY <1>4, CreateEffect
<1>5. ASSUME NEW p \in Processes, Notify(p) PROVE Holding'
  BY <1>5, NotifyEffect
<1>6. ASSUME NEW p \in Processes, EndReport(p) \/ EndScan(p) PROVE Holding'
  BY <1>6, EndEffect
<1>7. ASSUME NEW p \in Processes, Resolve(p) PROVE Holding'
  BY <1>7, ResolveEffect
<1>8. ASSUME NEW p \in Processes, Updates(p) PROVE Holding'
  BY <1>8, UpdateEffect DEF Updates
<1>9. ASSUME NEW p \in Processes, Cancel(p) PROVE Holding'
  BY <1>9, CancelEffect
<1>10. ASSUME NEW p \in Processes, ReadAck(p) PROVE Holding'
  BY <1>10, ReadAckEffect
<1>11. ASSUME NEW p \in Processes, Scan(p) PROVE Holding'
  BY <1>11, ScanEffect
<1>12. ASSUME NEW p \in Processes, Send(p) PROVE Holding'
  BY <1>12, SendEffect
<1>13. ASSUME NEW p \in Processes, Store(p) PROVE Holding'
  BY <1>13, StoreEffect
<1>14. ASSUME NEW p \in Processes, Crash(p) PROVE Holding'
  BY <1>14, CrashEffect
<1>15. ASSUME NEW p \in Processes, step[p] = "scan", NEW i \in todo[p], ScanHandled(p, i) PROVE Holding'
  BY <1>15, ScanHandledEffect
<1>16. ASSUME NEW p \in Processes, step[p] = "scan", NEW i \in todo[p], ScanUnroutable(p, i) PROVE Holding'
  BY <1>16, ScanUnroutableEffect
<1>17. ASSUME NEW p \in Processes, step[p] = "scan", NEW i \in todo[p], ClaimLost(p, i) PROVE Holding'
  BY <1>17, ClaimLostEffect
<1>18. ASSUME NEW p \in Processes, step[p] = "scan", NEW i \in todo[p], Claim(p, i) PROVE Holding'
  BY <1>18, ClaimEffect
<1>19. CASE UNCHANGED vars
  BY <1>19 DEF vars
<1> QED
  BY <1>1, <1>2, <1>3, <1>4, <1>5, <1>6, <1>7, <1>8, <1>9, <1>10, <1>11, <1>12, <1>13, <1>14, <1>15, <1>16, <1>17, <1>18, <1>19, NextMoves DEF Moves, ScanMoves

\* What is on a list is a row of the tables.
LEMMA ItemTypes ==
  ASSUME TypeOK, NEW p \in Processes, NEW i \in todo[p]
  PROVE  i \in Items /\ i.alert \in Alerts /\ i.service \in Services /\ i.seen \in AlertStatuses
  BY DEF TypeOK, Items

Stay ==
  /\ \A a \in Alerts : alertStatus[a] # "none" => alertStatus'[a] # "none"
  /\ \A a \in Alerts, v \in Services : escStatus[a][v] # "none" => escStatus'[a][v] # "none"

\* No step deletes a row.
LEMMA RowsStay ==
  ASSUME TypeOK, Holding, Rows, [Next]_vars
  PROVE  Stay
<1> USE DEF Holding, Rows, FirstRows, HeldRows, Stay, Alone, At, Sets, OnlyEntry, Cancels, ActiveAlerts, alertVars, escVars, localVars
<1>1. CASE Age
  BY <1>1, AgeEffect
<1>2. ASSUME NEW p \in Processes, Report(p) PROVE Stay
  BY <1>2, ReportEffect
<1>3. ASSUME NEW p \in Processes, Repeat(p) PROVE Stay
  <2>1. held[p] \in Alerts /\ seen[p] \in AlertStatuses /\ "none" \notin AlertStatuses
    BY <1>3 DEF Repeat, TypeOK, AlertStatuses, Active
  <2>2. \E to \in AlertStatuses : Sets(held[p], to)
    BY <1>3, <2>1, RepeatEffect DEF AlertStatuses, Active
  <2>3. UNCHANGED escVars
    BY <1>3, RepeatEffect
  <2> QED BY <2>1, <2>2, <2>3
<1>4. ASSUME NEW p \in Processes, Create(p) PROVE Stay
  <2>1. \E a \in Alerts : alertStatus'[a] # "none" /\ \A b \in Alerts \ {a} : alertStatus'[b] = alertStatus[b]
    BY <1>4, CreateEffect
  <2>2. UNCHANGED escVars
    BY <1>4, CreateEffect
  <2> QED BY <2>1, <2>2
<1>5. ASSUME NEW p \in Processes, Notify(p) PROVE Stay
  BY <1>5, NotifyEffect
<1>6. ASSUME NEW p \in Processes, EndReport(p) \/ EndScan(p) PROVE Stay
  BY <1>6, EndEffect
<1>7. ASSUME NEW p \in Processes, Resolve(p) PROVE Stay
  BY <1>7, ResolveEffect
<1>8. ASSUME NEW p \in Processes, Updates(p) PROVE Stay
  BY <1>8, UpdateEffect DEF Updates, AlertStatuses, Active
<1>9. ASSUME NEW p \in Processes, Cancel(p) PROVE Stay
  BY <1>9, CancelEffect
<1>10. ASSUME NEW p \in Processes, ReadAck(p) PROVE Stay
  BY <1>10, ReadAckEffect
<1>11. ASSUME NEW p \in Processes, Scan(p) PROVE Stay
  BY <1>11, ScanEffect
<1>12. ASSUME NEW p \in Processes, Send(p) PROVE Stay
  BY <1>12, SendEffect
<1>13. ASSUME NEW p \in Processes, Store(p) PROVE Stay
  BY <1>13, StoreEffect DEF Outcomes
<1>14. ASSUME NEW p \in Processes, Crash(p) PROVE Stay
  BY <1>14, CrashEffect
<1>15. ASSUME NEW p \in Processes, step[p] = "scan", NEW i \in todo[p], ScanHandled(p, i) PROVE Stay
  BY <1>15, ScanHandledEffect
<1>16. ASSUME NEW p \in Processes, step[p] = "scan", NEW i \in todo[p], ScanUnroutable(p, i) PROVE Stay
  BY <1>16, ScanUnroutableEffect
<1>17. ASSUME NEW p \in Processes, step[p] = "scan", NEW i \in todo[p], ClaimLost(p, i) PROVE Stay
  BY <1>17, ClaimLostEffect
<1>18. ASSUME NEW p \in Processes, step[p] = "scan", NEW i \in todo[p], Claim(p, i) PROVE Stay
  BY <1>18, ClaimEffect
<1>19. CASE UNCHANGED vars
  BY <1>19 DEF vars
<1> QED
  BY <1>1, <1>2, <1>3, <1>4, <1>5, <1>6, <1>7, <1>8, <1>9, <1>10, <1>11, <1>12, <1>13, <1>14, <1>15, <1>16, <1>17, <1>18, <1>19, NextMoves DEF Moves, ScanMoves

\* What exists.
LEMMA RowsStep ==
  ASSUME TypeOK, Holding, Rows, [Next]_vars
  PROVE  Rows'
<1>0. Stay
  BY RowsStay
<1> USE DEF Holding, Rows, FirstRows, NoOrphans, HeldRows, NotifyRows, Alone, At, Sets, ActiveAlerts, alertVars, escVars, localVars
<1>1. CASE Age
  <2>2. FirstRows'
    BY <1>1, AgeEffect
  <2>3. NoOrphans'
    BY <1>1, AgeEffect
  <2>4. HeldRows'
    BY <1>1, AgeEffect
  <2>5. NotifyRows'
    BY <1>1, AgeEffect
  <2> QED BY <2>2, <2>3, <2>4, <2>5
<1>2. ASSUME NEW p \in Processes, Report(p) PROVE Rows'
  <2>2. FirstRows'
    BY <1>2, ReportEffect
  <2>3. NoOrphans'
    BY <1>2, ReportEffect
  <2>4. HeldRows'
    BY <1>2, ReportEffect DEF Active
  <2>5. NotifyRows'
    BY <1>2, ReportEffect
  <2> QED BY <2>2, <2>3, <2>4, <2>5
<1>3. ASSUME NEW p \in Processes, Repeat(p) PROVE Rows'
  <2>1. PICK a \in Alerts, to \in AlertStatuses :
          alertStatus[a] # "none" /\ Sets(a, to) /\ (step'[p] = "idle" \/ (step'[p] = "cancel" /\ held'[p] = a))
    BY <1>3, RepeatEffect DEF Repeat, TypeOK, AlertStatuses, Active
  <2>2. \A b \in Alerts : alertStatus'[b] = "none" <=> alertStatus[b] = "none"
    BY <2>1 DEF AlertStatuses, Active
  <2>3. UNCHANGED escVars /\ Alone(p) /\ todo'[p] = todo[p]
    BY <1>3, RepeatEffect DEF Repeat, TypeOK, AlertStatuses, Active
  <2>4. FirstRows'
    BY <2>2
  <2>5. NoOrphans'
    BY <2>2, <2>3
  <2>6. HeldRows'
    <3> SUFFICES ASSUME NEW q \in Processes,
                        step'[q] \in {"repeat", "resolve", "ack", "cancel", "send", "store"}
                 PROVE  alertStatus'[held'[q]] # "none"
      OBVIOUS
    <3>1. CASE q = p
      BY <1>0, <2>1, <3>1 DEF Stay
    <3>2. CASE q # p
      BY <1>0, <2>3, <3>2 DEF Stay
    <3> QED BY <3>1, <3>2
  <2>7. NotifyRows'
    <3>1. \A q \in Processes : todo'[q] = todo[q]
      BY <2>3
    <3>2. \A q \in Processes : \A i \in todo[q] : i.alert \in Alerts
      BY ItemTypes
    <3> QED BY <2>2, <3>1, <3>2
  <2> QED BY <2>4, <2>5, <2>6, <2>7
<1>4. ASSUME NEW p \in Processes, Create(p) PROVE Rows'
  <2>2. FirstRows'
    BY <1>4, CreateEffect
  <2>3. NoOrphans'
    BY <1>4, CreateEffect
  <2>4. HeldRows'
    BY <1>4, CreateEffect
  <2>5. NotifyRows'
    <3>1. PICK a \in Alerts : alertStatus'[a] # "none" /\ \A i \in todo'[p] : i.alert = a
      BY <1>4, CreateEffect
    <3>2. \A q \in Processes : \A i \in todo[q] : i.alert \in Alerts
      BY ItemTypes
    <3> SUFFICES ASSUME NEW q \in Processes, NEW i \in todo'[q] PROVE alertStatus'[i.alert] # "none"
      OBVIOUS
    <3>3. CASE q = p
      BY <3>1, <3>3
    <3>4. CASE q # p
      <4>1. todo'[q] = todo[q]
        BY <1>4, <3>4, CreateEffect
      <4> QED BY <1>0, <3>2, <4>1 DEF Stay
    <3> QED BY <3>3, <3>4
  <2> QED BY <2>2, <2>3, <2>4, <2>5
<1>5. ASSUME NEW p \in Processes, Notify(p) PROVE Rows'
  <2>2. FirstRows'
    BY <1>5, NotifyEffect
  <2>3. NoOrphans'
    <3>1. \A a \in Alerts, v \in Services :
            alertStatus[a] = "none" /\ escStatus[a][v] = "none" => escStatus'[a][v] = "none"
      <4>1. PICK i \in todo[p] : OnlyEntry(escStatus', escStatus, i.alert, i.service)
        BY <1>5, NotifyEffect
      <4> QED BY <4>1, ItemTypes DEF OnlyEntry
    <3>2. UNCHANGED alertStatus
      BY <1>5, NotifyEffect
    <3> QED BY <3>1, <3>2
  <2>4. HeldRows'
    BY <1>5, NotifyEffect
  <2>5. NotifyRows'
    BY <1>5, NotifyEffect
  <2> QED BY <2>2, <2>3, <2>4, <2>5
<1>6. ASSUME NEW p \in Processes, EndReport(p) \/ EndScan(p) PROVE Rows'
  <2>2. FirstRows'
    BY <1>6, EndEffect
  <2>3. NoOrphans'
    BY <1>6, EndEffect
  <2>4. HeldRows'
    BY <1>6, EndEffect
  <2>5. NotifyRows'
    BY <1>6, EndEffect
  <2> QED BY <2>2, <2>3, <2>4, <2>5
<1>7. ASSUME NEW p \in Processes, Resolve(p) PROVE Rows'
  <2>2. FirstRows'
    BY <1>7, ResolveEffect
  <2>3. NoOrphans'
    BY <1>7, ResolveEffect
  <2>4. HeldRows'
    BY <1>7, ResolveEffect DEF Active
  <2>5. NotifyRows'
    BY <1>7, ResolveEffect
  <2> QED BY <2>2, <2>3, <2>4, <2>5
<1>8. ASSUME NEW p \in Processes, Updates(p) PROVE Rows'
  <2>1. PICK a \in Alerts, to \in AlertStatuses :
          alertStatus[a] # "none" /\ Sets(a, to) /\ (step'[p] = "idle" \/ (step'[p] = "cancel" /\ held'[p] = a))
    BY <1>8, UpdateEffect DEF Updates
  <2>2. \A b \in Alerts : alertStatus'[b] = "none" <=> alertStatus[b] = "none"
    BY <2>1 DEF AlertStatuses, Active
  <2>3. UNCHANGED escVars /\ Alone(p) /\ todo'[p] = todo[p]
    BY <1>8, UpdateEffect DEF Updates
  <2>4. FirstRows'
    BY <2>2
  <2>5. NoOrphans'
    BY <2>2, <2>3
  <2>6. HeldRows'
    <3> SUFFICES ASSUME NEW q \in Processes,
                        step'[q] \in {"repeat", "resolve", "ack", "cancel", "send", "store"}
                 PROVE  alertStatus'[held'[q]] # "none"
      OBVIOUS
    <3>1. CASE q = p
      BY <1>0, <2>1, <3>1 DEF Stay
    <3>2. CASE q # p
      BY <1>0, <2>3, <3>2 DEF Stay
    <3> QED BY <3>1, <3>2
  <2>7. NotifyRows'
    <3>1. \A q \in Processes : todo'[q] = todo[q]
      BY <2>3
    <3>2. \A q \in Processes : \A i \in todo[q] : i.alert \in Alerts
      BY ItemTypes
    <3> QED BY <2>2, <3>1, <3>2
  <2> QED BY <2>4, <2>5, <2>6, <2>7
<1>9. ASSUME NEW p \in Processes, Cancel(p) PROVE Rows'
  <2>2. FirstRows'
    BY <1>9, CancelEffect
  <2>3. NoOrphans'
    <3>1. \A a \in Alerts, v \in Services :
            alertStatus[a] = "none" /\ escStatus[a][v] = "none" => escStatus'[a][v] = "none"
      BY <1>9, CancelEffect DEF Cancels
    <3>2. UNCHANGED alertStatus
      BY <1>9, CancelEffect
    <3> QED BY <3>1, <3>2
  <2>4. HeldRows'
    BY <1>9, CancelEffect
  <2>5. NotifyRows'
    BY <1>9, CancelEffect
  <2> QED BY <2>2, <2>3, <2>4, <2>5
<1>10. ASSUME NEW p \in Processes, ReadAck(p) PROVE Rows'
  <2>2. FirstRows'
    BY <1>10, ReadAckEffect
  <2>3. NoOrphans'
    BY <1>10, ReadAckEffect
  <2>4. HeldRows'
    BY <1>10, ReadAckEffect
  <2>5. NotifyRows'
    BY <1>10, ReadAckEffect
  <2> QED BY <2>2, <2>3, <2>4, <2>5
<1>11. ASSUME NEW p \in Processes, Scan(p) PROVE Rows'
  <2>2. FirstRows'
    BY <1>11, ScanEffect
  <2>3. NoOrphans'
    BY <1>11, ScanEffect
  <2>4. HeldRows'
    BY <1>11, ScanEffect
  <2>5. NotifyRows'
    <3>1. \A i \in DueItems : alertStatus[i.alert] # "none"
      BY DEF DueItems, Items, AlertStatuses, Active
    <3> QED BY <1>11, <3>1, ScanEffect
  <2> QED BY <2>2, <2>3, <2>4, <2>5
<1>12. ASSUME NEW p \in Processes, Send(p) PROVE Rows'
  <2>2. FirstRows'
    BY <1>12, SendEffect
  <2>3. NoOrphans'
    BY <1>12, SendEffect
  <2>4. HeldRows'
    BY <1>12, SendEffect
  <2>5. NotifyRows'
    BY <1>12, SendEffect
  <2> QED BY <2>2, <2>3, <2>4, <2>5
<1>13. ASSUME NEW p \in Processes, Store(p) PROVE Rows'
  <2>2. FirstRows'
    BY <1>13, StoreEffect
  <2>3. NoOrphans'
    <3>1. \A a \in Alerts, v \in Services :
            alertStatus[a] = "none" /\ escStatus[a][v] = "none" => escStatus'[a][v] = "none"
      BY <1>13, StoreEffect DEF OnlyEntry
    <3>2. UNCHANGED alertStatus
      BY <1>13, StoreEffect
    <3> QED BY <3>1, <3>2
  <2>4. HeldRows'
    BY <1>13, StoreEffect
  <2>5. NotifyRows'
    BY <1>13, StoreEffect
  <2> QED BY <2>2, <2>3, <2>4, <2>5
<1>14. ASSUME NEW p \in Processes, Crash(p) PROVE Rows'
  <2>2. FirstRows'
    BY <1>14, CrashEffect
  <2>3. NoOrphans'
    BY <1>14, CrashEffect
  <2>4. HeldRows'
    BY <1>14, CrashEffect
  <2>5. NotifyRows'
    BY <1>14, CrashEffect
  <2> QED BY <2>2, <2>3, <2>4, <2>5
<1>15. ASSUME NEW p \in Processes, step[p] = "scan", NEW i \in todo[p], ScanHandled(p, i) PROVE Rows'
  <2>2. FirstRows'
    BY <1>15, ScanHandledEffect
  <2>3. NoOrphans'
    <3>1. \A a \in Alerts, v \in Services :
            alertStatus[a] = "none" /\ escStatus[a][v] = "none" => escStatus'[a][v] = "none"
      BY <1>15, ScanHandledEffect DEF Cancels
    <3>2. UNCHANGED alertStatus
      BY <1>15, ScanHandledEffect
    <3> QED BY <3>1, <3>2
  <2>4. HeldRows'
    BY <1>15, ScanHandledEffect
  <2>5. NotifyRows'
    BY <1>15, ScanHandledEffect
  <2> QED BY <2>2, <2>3, <2>4, <2>5
<1>16. ASSUME NEW p \in Processes, step[p] = "scan", NEW i \in todo[p], ScanUnroutable(p, i) PROVE Rows'
  <2>2. FirstRows'
    BY <1>16, ScanUnroutableEffect
  <2>3. NoOrphans'
    <3>1. \A a \in Alerts, v \in Services :
            alertStatus[a] = "none" /\ escStatus[a][v] = "none" => escStatus'[a][v] = "none"
      BY <1>16, ScanUnroutableEffect DEF OnlyEntry, Unclaimed
    <3>2. UNCHANGED alertStatus
      BY <1>16, ScanUnroutableEffect
    <3> QED BY <3>1, <3>2
  <2>4. HeldRows'
    BY <1>16, ScanUnroutableEffect
  <2>5. NotifyRows'
    BY <1>16, ScanUnroutableEffect
  <2> QED BY <2>2, <2>3, <2>4, <2>5
<1>17. ASSUME NEW p \in Processes, step[p] = "scan", NEW i \in todo[p], ClaimLost(p, i) PROVE Rows'
  <2>2. FirstRows'
    BY <1>17, ClaimLostEffect
  <2>3. NoOrphans'
    BY <1>17, ClaimLostEffect
  <2>4. HeldRows'
    BY <1>17, ClaimLostEffect
  <2>5. NotifyRows'
    BY <1>17, ClaimLostEffect
  <2> QED BY <2>2, <2>3, <2>4, <2>5
<1>18. ASSUME NEW p \in Processes, step[p] = "scan", NEW i \in todo[p], Claim(p, i) PROVE Rows'
  <2>2. FirstRows'
    BY <1>18, ClaimEffect
  <2>3. NoOrphans'
    BY <1>18, ClaimEffect
  <2>4. HeldRows'
    BY <1>18, ClaimEffect
  <2>5. NotifyRows'
    BY <1>18, ClaimEffect
  <2> QED BY <2>2, <2>3, <2>4, <2>5
<1>19. CASE UNCHANGED vars
  <2>2. FirstRows'
    BY <1>19 DEF vars
  <2>3. NoOrphans'
    BY <1>19 DEF vars
  <2>4. HeldRows'
    BY <1>19 DEF vars
  <2>5. NotifyRows'
    BY <1>19 DEF vars
  <2> QED BY <2>2, <2>3, <2>4, <2>5
<1> QED
  BY <1>1, <1>2, <1>3, <1>4, <1>5, <1>6, <1>7, <1>8, <1>9, <1>10, <1>11, <1>12, <1>13, <1>14, <1>15, <1>16, <1>17, <1>18, <1>19, NextMoves DEF Moves, ScanMoves

\* Claims.
LEMMA ClaimsStep ==
  ASSUME TypeOK, Holding, Rows, Claims, [Next]_vars
  PROVE  Claims'
<1> USE DEF Holding, Rows, Claims, ClaimedRows, Senders, OneSender, Sending, Alone, At, OnlyEntry, Cancels, alertVars, escVars, localVars
<1>1. CASE Age
  <2>2. ClaimedRows'
    BY <1>1, AgeEffect
  <2>3. Senders'
    BY <1>1, AgeEffect
  <2>4. OneSender'
    BY <1>1, AgeEffect
  <2> QED BY <2>2, <2>3, <2>4
<1>2. ASSUME NEW p \in Processes, Report(p) PROVE Claims'
  <2>2. ClaimedRows'
    BY <1>2, ReportEffect
  <2>3. Senders'
    BY <1>2, ReportEffect
  <2>4. OneSender'
    BY <1>2, ReportEffect
  <2> QED BY <2>2, <2>3, <2>4
<1>3. ASSUME NEW p \in Processes, Repeat(p) PROVE Claims'
  <2>2. ClaimedRows'
    BY <1>3, RepeatEffect
  <2>3. Senders'
    BY <1>3, RepeatEffect
  <2>4. OneSender'
    BY <1>3, RepeatEffect
  <2> QED BY <2>2, <2>3, <2>4
<1>4. ASSUME NEW p \in Processes, Create(p) PROVE Claims'
  <2>2. ClaimedRows'
    BY <1>4, CreateEffect
  <2>3. Senders'
    BY <1>4, CreateEffect
  <2>4. OneSender'
    BY <1>4, CreateEffect
  <2> QED BY <2>2, <2>3, <2>4
<1>5. ASSUME NEW p \in Processes, Notify(p) PROVE Claims'
  <2>2. ClaimedRows'
    BY <1>5, NotifyEffect
  <2>3. Senders'
    BY <1>5, NotifyEffect
  <2>4. OneSender'
    BY <1>5, NotifyEffect
  <2> QED BY <2>2, <2>3, <2>4
<1>6. ASSUME NEW p \in Processes, EndReport(p) \/ EndScan(p) PROVE Claims'
  <2>2. ClaimedRows'
    BY <1>6, EndEffect
  <2>3. Senders'
    BY <1>6, EndEffect
  <2>4. OneSender'
    BY <1>6, EndEffect
  <2> QED BY <2>2, <2>3, <2>4
<1>7. ASSUME NEW p \in Processes, Resolve(p) PROVE Claims'
  <2>2. ClaimedRows'
    BY <1>7, ResolveEffect
  <2>3. Senders'
    BY <1>7, ResolveEffect
  <2>4. OneSender'
    BY <1>7, ResolveEffect
  <2> QED BY <2>2, <2>3, <2>4
<1>8. ASSUME NEW p \in Processes, Updates(p) PROVE Claims'
  <2>2. ClaimedRows'
    BY <1>8, UpdateEffect DEF Updates
  <2>3. Senders'
    BY <1>8, UpdateEffect DEF Updates
  <2>4. OneSender'
    BY <1>8, UpdateEffect DEF Updates
  <2> QED BY <2>2, <2>3, <2>4
<1>9. ASSUME NEW p \in Processes, Cancel(p) PROVE Claims'
  <2>2. ClaimedRows'
    BY <1>9, CancelEffect
  <2>3. Senders'
    BY <1>9, CancelEffect
  <2>4. OneSender'
    BY <1>9, CancelEffect
  <2> QED BY <2>2, <2>3, <2>4
<1>10. ASSUME NEW p \in Processes, ReadAck(p) PROVE Claims'
  <2>2. ClaimedRows'
    BY <1>10, ReadAckEffect
  <2>3. Senders'
    BY <1>10, ReadAckEffect
  <2>4. OneSender'
    BY <1>10, ReadAckEffect
  <2> QED BY <2>2, <2>3, <2>4
<1>11. ASSUME NEW p \in Processes, Scan(p) PROVE Claims'
  <2>2. ClaimedRows'
    BY <1>11, ScanEffect
  <2>3. Senders'
    BY <1>11, ScanEffect
  <2>4. OneSender'
    BY <1>11, ScanEffect
  <2> QED BY <2>2, <2>3, <2>4
<1>12. ASSUME NEW p \in Processes, Send(p) PROVE Claims'
  <2>2. ClaimedRows'
    BY <1>12, SendEffect
  <2>3. Senders'
    BY <1>12, SendEffect
  <2>4. OneSender'
    BY <1>12, SendEffect
  <2> QED BY <2>2, <2>3, <2>4
<1>13. ASSUME NEW p \in Processes, Store(p) PROVE Claims'
  <2>2. ClaimedRows'
    BY <1>13, StoreEffect DEF Outcomes
  <2>3. Senders'
    BY <1>13, StoreEffect
  <2>4. OneSender'
    BY <1>13, StoreEffect
  <2> QED BY <2>2, <2>3, <2>4
<1>14. ASSUME NEW p \in Processes, Crash(p) PROVE Claims'
  <2>2. ClaimedRows'
    BY <1>14, CrashEffect
  <2>3. Senders'
    BY <1>14, CrashEffect
  <2>4. OneSender'
    BY <1>14, CrashEffect
  <2> QED BY <2>2, <2>3, <2>4
<1>15. ASSUME NEW p \in Processes, step[p] = "scan", NEW i \in todo[p], ScanHandled(p, i) PROVE Claims'
  <2>2. ClaimedRows'
    BY <1>15, ScanHandledEffect
  <2>3. Senders'
    BY <1>15, ScanHandledEffect
  <2>4. OneSender'
    BY <1>15, ScanHandledEffect
  <2> QED BY <2>2, <2>3, <2>4
<1>16. ASSUME NEW p \in Processes, step[p] = "scan", NEW i \in todo[p], ScanUnroutable(p, i) PROVE Claims'
  <2>2. ClaimedRows'
    BY <1>16, ScanUnroutableEffect
  <2>3. Senders'
    BY <1>16, ScanUnroutableEffect DEF Unclaimed
  <2>4. OneSender'
    BY <1>16, ScanUnroutableEffect
  <2> QED BY <2>2, <2>3, <2>4
<1>17. ASSUME NEW p \in Processes, step[p] = "scan", NEW i \in todo[p], ClaimLost(p, i) PROVE Claims'
  <2>2. ClaimedRows'
    BY <1>17, ClaimLostEffect
  <2>3. Senders'
    BY <1>17, ClaimLostEffect
  <2>4. OneSender'
    BY <1>17, ClaimLostEffect
  <2> QED BY <2>2, <2>3, <2>4
<1>18. ASSUME NEW p \in Processes, step[p] = "scan", NEW i \in todo[p], Claim(p, i) PROVE Claims'
  <2>1. /\ i.alert \in Alerts /\ i.service \in Services
        /\ escStatus[i.alert][i.service] = "active" /\ ~claimed[i.alert][i.service]
    BY <1>18, ClaimEffect DEF Unclaimed
  <2>2. /\ \A a \in Alerts, v \in Services :
             claimed'[a][v] = claimed[a][v] \/ (a = i.alert /\ v = i.service)
        /\ claimed'[i.alert][i.service]
        /\ UNCHANGED <<escStatus, backups>>
    BY <1>18, ClaimEffect
  <2>3. \A q \in Processes, a \in Alerts, v \in Services :
          Sending(q, a, v)' =>
            \/ q # p /\ Sending(q, a, v) /\ step'[q] = step[q]
            \/ q = p /\ step'[q] = "send" /\ a = i.alert /\ v = i.service
    BY <1>18, ClaimEffect
  <2>4. ClaimedRows'
    BY <2>1, <2>2
  <2> HIDE DEF Sending
  <2>5. Senders'
    BY <2>1, <2>2, <2>3
  <2>6. OneSender'
    BY <2>1, <2>2, <2>3
  <2> QED BY <2>4, <2>5, <2>6
<1>19. CASE UNCHANGED vars
  <2>2. ClaimedRows'
    BY <1>19 DEF vars
  <2>3. Senders'
    BY <1>19 DEF vars
  <2>4. OneSender'
    BY <1>19 DEF vars
  <2> QED BY <2>2, <2>3, <2>4
<1> QED
  BY <1>1, <1>2, <1>3, <1>4, <1>5, <1>6, <1>7, <1>8, <1>9, <1>10, <1>11, <1>12, <1>13, <1>14, <1>15, <1>16, <1>17, <1>18, <1>19, NextMoves DEF Moves, ScanMoves

\* Lists.
LEMMA ListingStep ==
  ASSUME TypeOK, Holding, Rows, Listing, [Next]_vars
  PROVE  Listing'
<1>0. Stay
  BY RowsStay
<1> USE DEF Holding, Rows, NoOrphans, HeldRows, NotifyRows, Listing, StaleReports, ListedRows, OpenEntries, Excused, Unclaimed, Alone, At, Sets, OnlyEntry, Cancels, ActiveAlerts, alertVars, escVars, localVars
<1>1. CASE Age
  <2>2. StaleReports'
    BY <1>1, AgeEffect
  <2>3. ListedRows'
    BY <1>1, AgeEffect
  <2>4. OpenEntries'
    BY <1>1, AgeEffect
  <2> QED BY <2>2, <2>3, <2>4
<1>2. ASSUME NEW p \in Processes, Report(p) PROVE Listing'
  <2>2. StaleReports'
    BY <1>2, ReportEffect
  <2>3. ListedRows'
    BY <1>2, ReportEffect
  <2>4. OpenEntries'
    BY <1>2, ReportEffect
  <2> QED BY <2>2, <2>3, <2>4
<1>3. ASSUME NEW p \in Processes, Repeat(p) PROVE Listing'
  <2>2. StaleReports'
    BY <1>3, RepeatEffect
  <2>3. ListedRows'
    BY <1>3, RepeatEffect
  <2>4. OpenEntries'
    <3>1. \A q \in Processes :
            step'[q] \in {"scan", "send", "store"} => step[q] \in {"scan", "send", "store"} /\ todo'[q] \subseteq todo[q]
      BY <1>3, RepeatEffect
    <3>2. \A a \in Alerts, v \in Services : Unclaimed(a, v)' => Unclaimed(a, v)
      BY <1>3, RepeatEffect
    <3>3. \A a \in Alerts : Excused(a) => Excused(a)'
      <4>0. /\ held[p] \in Alerts /\ seen[p] \in AlertStatuses /\ "silenced" \in AlertStatuses
            /\ seen[p] = "open" \/ reopened[held[p]] \/ alertStatus[held[p]] # "open"
        BY <1>3 DEF Repeat, TypeOK, AlertStatuses, Active
      <4>1. PICK a \in Alerts, to \in AlertStatuses :
              /\ Sets(a, to)
              /\ \/ step'[p] = "cancel" /\ held'[p] = a
                 \/ to = "open" \/ reopened[a] \/ alertStatus[a] # "open"
        <5> HIDE DEF Sets
        <5>1. CASE Sets(held[p], "silenced") /\ At(p, "cancel", held[p], "silenced")
          BY <4>0, <5>1
        <5>2. CASE Sets(held[p], seen[p])
          BY <4>0, <5>2
        <5> QED BY <1>3, <5>1, <5>2, RepeatEffect
      <4>2. step[p] # "cancel" /\ Alone(p) /\ crashes' = crashes
        BY <1>3, RepeatEffect
      <4> QED BY <4>1, <4>2
    <3> HIDE DEF Excused, Unclaimed
    <3> QED BY <3>1, <3>2, <3>3, ItemTypes
  <2> QED BY <2>2, <2>3, <2>4
<1>4. ASSUME NEW p \in Processes, Create(p) PROVE Listing'
  <2>2. StaleReports'
    BY <1>4, CreateEffect
  <2>3. ListedRows'
    BY <1>4, CreateEffect
  <2>4. OpenEntries'
    <3>1. \A q \in Processes :
            step'[q] \in {"scan", "send", "store"} => step[q] \in {"scan", "send", "store"} /\ todo'[q] \subseteq todo[q]
      BY <1>4, CreateEffect
    <3>2. \A a \in Alerts, v \in Services : Unclaimed(a, v)' => Unclaimed(a, v)
      BY <1>4, CreateEffect
    <3>3. \A a \in Alerts : Excused(a) => Excused(a)'
      <4>1. PICK a \in Alerts :
              alertStatus[a] = "none" /\ (Sets(a, "silenced") \/ Sets(a, "open"))
        BY <1>4, CreateEffect
      <4>2. step[p] # "cancel" /\ Alone(p) /\ crashes' = crashes
        BY <1>4, CreateEffect
      <4> QED BY <4>1, <4>2
    <3> HIDE DEF Excused, Unclaimed
    <3> QED BY <3>1, <3>2, <3>3, ItemTypes
  <2> QED BY <2>2, <2>3, <2>4
<1>5. ASSUME NEW p \in Processes, Notify(p) PROVE Listing'
  <2>2. StaleReports'
    BY <1>5, NotifyEffect
  <2>3. ListedRows'
    <3>1. \A q \in Processes :
            step'[q] \in {"scan", "send", "store"} => step[q] \in {"scan", "send", "store"} /\ todo'[q] \subseteq todo[q]
      BY <1>5, NotifyEffect
    <3> QED BY <1>0, <3>1, ItemTypes DEF Stay
  <2>4. OpenEntries'
    <3>1. \A q \in Processes :
            step'[q] \in {"scan", "send", "store"} => step[q] \in {"scan", "send", "store"} /\ todo'[q] \subseteq todo[q]
      BY <1>5, NotifyEffect
    <3>2. \A a \in Alerts, v \in Services :
            Unclaimed(a, v)' /\ escStatus[a][v] # "none" => Unclaimed(a, v)
      <4>1. PICK i \in todo[p] :
              /\ i \in Items
              /\ OnlyEntry(escStatus', escStatus, i.alert, i.service)
              /\ escStatus'[i.alert][i.service] =
                   IF escStatus[i.alert][i.service] = "none" THEN "active"
                   ELSE escStatus[i.alert][i.service]
        BY <1>5, NotifyEffect
      <4>2. UNCHANGED claimed
        BY <1>5, NotifyEffect
      <4> QED BY <4>1, <4>2
    <3>3. \A a \in Alerts : Excused(a) => Excused(a)'
      BY <1>5, NotifyEffect
    <3> HIDE DEF Excused, Unclaimed
    <3> QED BY <3>1, <3>2, <3>3, ItemTypes
  <2> QED BY <2>2, <2>3, <2>4
<1>6. ASSUME NEW p \in Processes, EndReport(p) \/ EndScan(p) PROVE Listing'
  <2>2. StaleReports'
    BY <1>6, EndEffect
  <2>3. ListedRows'
    BY <1>6, EndEffect
  <2>4. OpenEntries'
    BY <1>6, EndEffect
  <2> QED BY <2>2, <2>3, <2>4
<1>7. ASSUME NEW p \in Processes, Resolve(p) PROVE Listing'
  <2>2. StaleReports'
    BY <1>7, ResolveEffect
  <2>3. ListedRows'
    BY <1>7, ResolveEffect
  <2>4. OpenEntries'
    BY <1>7, ResolveEffect
  <2> QED BY <2>2, <2>3, <2>4
<1>8. ASSUME NEW p \in Processes, Updates(p) PROVE Listing'
  <2>2. StaleReports'
    BY <1>8, UpdateEffect DEF Updates
  <2>3. ListedRows'
    BY <1>8, UpdateEffect DEF Updates
  <2>4. OpenEntries'
    <3>1. \A q \in Processes :
            step'[q] \in {"scan", "send", "store"} => step[q] \in {"scan", "send", "store"} /\ todo'[q] \subseteq todo[q]
      BY <1>8, UpdateEffect DEF Updates
    <3>2. \A a \in Alerts, v \in Services : Unclaimed(a, v)' => Unclaimed(a, v)
      BY <1>8, UpdateEffect DEF Updates
    <3>3. \A a \in Alerts : Excused(a) => Excused(a)'
      <4>1. PICK a \in Alerts, to \in AlertStatuses :
              /\ Sets(a, to)
              /\ \/ step'[p] = "cancel" /\ held'[p] = a
                 \/ alertStatus'[a] = "open" \/ reopened[a] \/ alertStatus[a] # "open"
        BY <1>8, UpdateEffect DEF Updates, AlertStatuses, Active
      <4>2. step[p] # "cancel" /\ Alone(p) /\ crashes' = crashes
        BY <1>8, UpdateEffect DEF Updates
      <4> QED BY <4>1, <4>2
    <3> HIDE DEF Excused, Unclaimed
    <3> QED BY <3>1, <3>2, <3>3, ItemTypes
  <2> QED BY <2>2, <2>3, <2>4
<1>9. ASSUME NEW p \in Processes, Cancel(p) PROVE Listing'
  <2>2. StaleReports'
    BY <1>9, CancelEffect
  <2>3. ListedRows'
    <3>1. \A q \in Processes :
            step'[q] \in {"scan", "send", "store"} => step[q] \in {"scan", "send", "store"} /\ todo'[q] \subseteq todo[q]
      BY <1>9, CancelEffect
    <3> QED BY <1>0, <3>1, ItemTypes DEF Stay
  <2>4. OpenEntries'
    <3>1. \A q \in Processes :
            step'[q] \in {"scan", "send", "store"} => step[q] \in {"scan", "send", "store"} /\ todo'[q] \subseteq todo[q]
      BY <1>9, CancelEffect
    <3>2. \A a \in Alerts, v \in Services :
            Unclaimed(a, v)' => Unclaimed(a, v) /\ a # held[p]
      BY <1>9, CancelEffect
    <3>3. \A a \in Alerts : Excused(a) /\ a # held[p] => Excused(a)'
      BY <1>9, CancelEffect
    <3> HIDE DEF Excused, Unclaimed
    <3> QED BY <3>1, <3>2, <3>3, ItemTypes
  <2> QED BY <2>2, <2>3, <2>4
<1>10. ASSUME NEW p \in Processes, ReadAck(p) PROVE Listing'
  <2>2. StaleReports'
    BY <1>10, ReadAckEffect
  <2>3. ListedRows'
    BY <1>10, ReadAckEffect
  <2>4. OpenEntries'
    BY <1>10, ReadAckEffect
  <2> QED BY <2>2, <2>3, <2>4
<1>11. ASSUME NEW p \in Processes, Scan(p) PROVE Listing'
  <2>2. StaleReports'
    BY <1>11, ScanEffect
  <2>3. ListedRows'
    <3>1. \A i \in DueItems : escStatus[i.alert][i.service] # "none"
      BY DEF DueItems, Listed
    <3> QED BY <1>11, <3>1, ScanEffect
  <2>4. OpenEntries'
    <3>1. \A i \in DueItems : i.seen = "open" => Excused(i.alert)
      BY DEF DueItems
    <3>2. \A a \in Alerts : Excused(a) => Excused(a)'
      BY <1>11, ScanEffect
    <3>3. \A a \in Alerts, v \in Services : Unclaimed(a, v)' => Unclaimed(a, v)
      BY <1>11, ScanEffect
    <3>4. \A i \in DueItems : i.alert \in Alerts
      BY DEF DueItems, Items
    <3>5. /\ \A q \in Processes \ {p} : step'[q] = step[q] /\ todo'[q] = todo[q]
          /\ todo'[p] = DueItems
      BY <1>11, ScanEffect
    <3> HIDE DEF Excused, Unclaimed
    <3> QED BY <3>1, <3>2, <3>3, <3>4, <3>5, ItemTypes
  <2> QED BY <2>2, <2>3, <2>4
<1>12. ASSUME NEW p \in Processes, Send(p) PROVE Listing'
  <2>2. StaleReports'
    BY <1>12, SendEffect
  <2>3. ListedRows'
    BY <1>12, SendEffect
  <2>4. OpenEntries'
    BY <1>12, SendEffect
  <2> QED BY <2>2, <2>3, <2>4
<1>13. ASSUME NEW p \in Processes, Store(p) PROVE Listing'
  <2>2. StaleReports'
    BY <1>13, StoreEffect
  <2>3. ListedRows'
    <3>1. \A q \in Processes :
            step'[q] \in {"scan", "send", "store"} => step[q] \in {"scan", "send", "store"} /\ todo'[q] \subseteq todo[q]
      BY <1>13, StoreEffect
    <3> QED BY <1>0, <3>1, ItemTypes DEF Stay
  <2>4. OpenEntries'
    <3>1. \A q \in Processes :
            step'[q] \in {"scan", "send", "store"} => step[q] \in {"scan", "send", "store"} /\ todo'[q] \subseteq todo[q]
      BY <1>13, StoreEffect
    <3>2. \A a \in Alerts, v \in Services : Unclaimed(a, v)' => Unclaimed(a, v)
      BY <1>13, StoreEffect DEF Outcomes
    <3>3. \A a \in Alerts : Excused(a) => Excused(a)'
      BY <1>13, StoreEffect
    <3> HIDE DEF Excused, Unclaimed
    <3> QED BY <3>1, <3>2, <3>3, ItemTypes
  <2> QED BY <2>2, <2>3, <2>4
<1>14. ASSUME NEW p \in Processes, Crash(p) PROVE Listing'
  <2>2. StaleReports'
    BY <1>14, CrashEffect
  <2>3. ListedRows'
    BY <1>14, CrashEffect
  <2>4. OpenEntries'
    BY <1>14, CrashEffect
  <2> QED BY <2>2, <2>3, <2>4
<1>15. ASSUME NEW p \in Processes, step[p] = "scan", NEW i \in todo[p], ScanHandled(p, i) PROVE Listing'
  <2>2. StaleReports'
    BY <1>15, ScanHandledEffect
  <2>3. ListedRows'
    <3>1. \A q \in Processes :
            step'[q] \in {"scan", "send", "store"} => step[q] \in {"scan", "send", "store"} /\ todo'[q] \subseteq todo[q]
      BY <1>15, ScanHandledEffect
    <3> QED BY <1>0, <3>1, ItemTypes DEF Stay
  <2>4. OpenEntries'
    <3>1. \A q \in Processes :
            step'[q] \in {"scan", "send", "store"} => step[q] \in {"scan", "send", "store"} /\ todo'[q] \subseteq todo[q]
      BY <1>15, ScanHandledEffect
    <3>2. \A a \in Alerts, v \in Services : Unclaimed(a, v)' => Unclaimed(a, v)
      BY <1>15, ScanHandledEffect
    <3>3. \A a \in Alerts : Excused(a) => Excused(a)'
      BY <1>15, ScanHandledEffect
    <3> HIDE DEF Excused, Unclaimed
    <3> QED BY <3>1, <3>2, <3>3, ItemTypes
  <2> QED BY <2>2, <2>3, <2>4
<1>16. ASSUME NEW p \in Processes, step[p] = "scan", NEW i \in todo[p], ScanUnroutable(p, i) PROVE Listing'
  <2>2. StaleReports'
    BY <1>16, ScanUnroutableEffect
  <2>3. ListedRows'
    <3>1. \A q \in Processes :
            step'[q] \in {"scan", "send", "store"} => step[q] \in {"scan", "send", "store"} /\ todo'[q] \subseteq todo[q]
      BY <1>16, ScanUnroutableEffect
    <3> QED BY <1>0, <3>1, ItemTypes DEF Stay
  <2>4. OpenEntries'
    <3>1. \A q \in Processes :
            step'[q] \in {"scan", "send", "store"} => step[q] \in {"scan", "send", "store"} /\ todo'[q] \subseteq todo[q]
      BY <1>16, ScanUnroutableEffect
    <3>2. \A a \in Alerts, v \in Services : Unclaimed(a, v)' => Unclaimed(a, v)
      BY <1>16, ScanUnroutableEffect
    <3>3. \A a \in Alerts : Excused(a) => Excused(a)'
      BY <1>16, ScanUnroutableEffect
    <3> HIDE DEF Excused, Unclaimed
    <3> QED BY <3>1, <3>2, <3>3, ItemTypes
  <2> QED BY <2>2, <2>3, <2>4
<1>17. ASSUME NEW p \in Processes, step[p] = "scan", NEW i \in todo[p], ClaimLost(p, i) PROVE Listing'
  <2>2. StaleReports'
    BY <1>17, ClaimLostEffect
  <2>3. ListedRows'
    BY <1>17, ClaimLostEffect
  <2>4. OpenEntries'
    BY <1>17, ClaimLostEffect
  <2> QED BY <2>2, <2>3, <2>4
<1>18. ASSUME NEW p \in Processes, step[p] = "scan", NEW i \in todo[p], Claim(p, i) PROVE Listing'
  <2>2. StaleReports'
    BY <1>18, ClaimEffect
  <2>3. ListedRows'
    BY <1>18, ClaimEffect
  <2>4. OpenEntries'
    <3>1. \A q \in Processes :
            step'[q] \in {"scan", "send", "store"} => step[q] \in {"scan", "send", "store"} /\ todo'[q] \subseteq todo[q]
      BY <1>18, ClaimEffect
    <3>2. \A a \in Alerts, v \in Services : Unclaimed(a, v)' => Unclaimed(a, v)
      BY <1>18, ClaimEffect
    <3>3. \A a \in Alerts : Excused(a) => Excused(a)'
      BY <1>18, ClaimEffect
    <3> HIDE DEF Excused, Unclaimed
    <3> QED BY <3>1, <3>2, <3>3, ItemTypes
  <2> QED BY <2>2, <2>3, <2>4
<1>19. CASE UNCHANGED vars
  <2>2. StaleReports'
    BY <1>19 DEF vars
  <2>3. ListedRows'
    BY <1>19 DEF vars
  <2>4. OpenEntries'
    BY <1>19 DEF vars
  <2> QED BY <2>2, <2>3, <2>4
<1> QED
  BY <1>1, <1>2, <1>3, <1>4, <1>5, <1>6, <1>7, <1>8, <1>9, <1>10, <1>11, <1>12, <1>13, <1>14, <1>15, <1>16, <1>17, <1>18, <1>19, NextMoves DEF Moves, ScanMoves

-----------------------------------------------------------------------------
\* Every reachable state satisfies the inductive invariant.
LEMMA InitInv == Init => Inv
<1> SUFFICES ASSUME Init PROVE Inv
  OBVIOUS
<1> USE OnCallAssumption DEF Init, Everywhere
<1>1. TypeOK
  BY DEF TypeOK, AlertStatuses, Active, EscStatuses, Steps
<1>2. Holding
  BY DEF Holding
<1>3. Rows
  BY DEF Rows, FirstRows, NoOrphans, HeldRows, NotifyRows
<1>4. Claims
  BY DEF Claims, ClaimedRows, Senders, OneSender, Sending
<1>5. Listing
  BY DEF Listing, StaleReports, ListedRows, OpenEntries
<1> QED BY <1>1, <1>2, <1>3, <1>4, <1>5 DEF Inv

LEMMA StepInv == Inv /\ [Next]_vars => Inv'
  BY TypeStep, HoldingStep, RowsStep, ClaimsStep, ListingStep DEF Inv

\* The inductive invariant holds, whatever the fairness.
THEOREM OnCallInvariant == Safety => []Inv
  BY InitInv, StepInv, PTL DEF Safety

\* Every column and every process variable keeps its type.
THEOREM TypeCorrect == Safety => []TypeOK
<1>1. Inv => TypeOK
  BY DEF Inv
<1> QED BY <1>1, OnCallInvariant, PTL

\* No escalation sends two backup notifications, however many scans overlap, repeat or
\* die between claiming and sending (process_due_oncall_escalations).
THEOREM BackupIsOne == Safety => []BackupOnce
<1>1. Inv => BackupOnce
  BY DEF Inv, Claims, ClaimedRows, BackupOnce
<1> QED BY <1>1, OnCallInvariant, PTL

\* The handling of an alert keeps scans from escalating it, but for the windows that
\* EscalatesOnlyOpen names: there is no other.
THEOREM HandledIsNotEscalated == Safety => EscalatesOnlyOpen
<1> DEFINE Escalates(a, v) == claimed'[a][v] /\ ~claimed[a][v]
<1>1. ASSUME Inv, [Next]_vars, NEW a \in Alerts, NEW v \in Services, Escalates(a, v)
      PROVE  Excused(a)
  <2> USE DEF escVars
  <2>1. CASE Age
    BY <1>1, <2>1, AgeEffect DEF Inv
  <2>2. ASSUME NEW p \in Processes, Moves(p) PROVE FALSE
    BY <1>1, <2>2, ReportEffect, RepeatEffect, CreateEffect, NotifyEffect, EndEffect, ResolveEffect,
       UpdateEffect, CancelEffect, ReadAckEffect, ScanEffect, SendEffect, StoreEffect, CrashEffect
       DEF Inv, Rows, Moves, Updates
  <2>3. ASSUME NEW p \in Processes, ScanMoves(p) PROVE Excused(a)
    <3>1. PICK i \in todo[p] :
            ScanHandled(p, i) \/ ScanUnroutable(p, i) \/ ClaimLost(p, i) \/ Claim(p, i)
      BY <2>3 DEF ScanMoves
    <3>2. step[p] = "scan"
      BY <2>3 DEF ScanMoves
    <3>3. Claim(p, i)
      BY <1>1, <3>1, ScanHandledEffect, ScanUnroutableEffect, ClaimLostEffect DEF Inv
    <3>4. i.seen = "open" /\ Unclaimed(i.alert, i.service) /\ i.alert = a
      BY <1>1, <3>2, <3>3, ClaimEffect DEF Inv, OnlyEntry
    <3> QED BY <1>1, <3>2, <3>4 DEF Inv, Listing, OpenEntries
  <2>4. CASE UNCHANGED vars
    BY <1>1, <2>4 DEF vars
  <2> QED BY <1>1, <2>1, <2>2, <2>3, <2>4, NextMoves DEF Inv, Rows
<1>2. Inv /\ [Next]_vars =>
        [\A a \in Alerts, v \in Services :
           claimed'[a][v] /\ ~claimed[a][v] =>
             \/ alertStatus[a] = "open" \/ reopened[a] \/ crashes > 0
             \/ \E p \in Processes : step[p] = "cancel" /\ held[p] = a]_vars
  BY <1>1 DEF Excused
<1> QED BY <1>2, OnCallInvariant, PTL DEF Safety, EscalatesOnlyOpen

\* What ended an escalation stands, unless it was a cancellation or acknowledgement made
\* while the one backup of a claimed escalation was on its way.
THEOREM SettlementStands == Safety => SettledStands
<1> DEFINE Overwritten(a, v) ==
             escStatus[a][v] \notin {"none", "active"} /\ escStatus'[a][v] # escStatus[a][v]
           ByItsBackup(a, v) ==
             /\ escStatus[a][v] \in {"acknowledged", "cancelled"}
             /\ escStatus'[a][v] \in {"escalated", "failed"}
             /\ claimed[a][v] /\ backups[a][v] = 1
<1>1. ASSUME Inv, [Next]_vars, NEW a \in Alerts, NEW v \in Services, Overwritten(a, v)
      PROVE  ByItsBackup(a, v)
  <2> USE DEF escVars
  <2>1. CASE Age
    BY <1>1, <2>1, AgeEffect DEF Inv
  <2>2. ASSUME NEW p \in Processes, Store(p) PROVE ByItsBackup(a, v)
    <3>1. held[p] = a /\ path[p] = v /\ step[p] = "store" /\ escStatus'[a][v] \in Outcomes
      BY <1>1, <2>2, StoreEffect DEF Inv, OnlyEntry
    <3>2. Sending(p, a, v)
      BY <3>1 DEF Sending
    <3> QED BY <1>1, <3>1, <3>2 DEF Inv, Claims, Senders, Outcomes
  <2>3. ASSUME NEW p \in Processes, Notify(p) PROVE FALSE
    <3>1. PICK i \in todo[p] :
            /\ OnlyEntry(escStatus', escStatus, i.alert, i.service)
            /\ escStatus'[i.alert][i.service] =
                 IF escStatus[i.alert][i.service] = "none" THEN "active"
                 ELSE escStatus[i.alert][i.service]
      BY <1>1, <2>3, NotifyEffect DEF Inv
    <3> QED BY <1>1, <3>1 DEF OnlyEntry
  <2>4. ASSUME NEW p \in Processes, Moves(p), ~Store(p), ~Notify(p) PROVE FALSE
    BY <1>1, <2>4, ReportEffect, RepeatEffect, CreateEffect, EndEffect, ResolveEffect,
       UpdateEffect, CancelEffect, ReadAckEffect, ScanEffect, SendEffect, CrashEffect
       DEF Inv, Rows, Moves, Updates, Cancels
  <2>5. ASSUME NEW p \in Processes, ScanMoves(p) PROVE FALSE
    <3>1. PICK i \in todo[p] :
            ScanHandled(p, i) \/ ScanUnroutable(p, i) \/ ClaimLost(p, i) \/ Claim(p, i)
      BY <2>5 DEF ScanMoves
    <3>2. step[p] = "scan"
      BY <2>5 DEF ScanMoves
    <3> QED BY <1>1, <3>1, <3>2, ScanHandledEffect, ScanUnroutableEffect, ClaimLostEffect, ClaimEffect
            DEF Inv, OnlyEntry, Unclaimed, Cancels
  <2>6. CASE UNCHANGED vars
    BY <1>1, <2>6 DEF vars
  <2> QED BY <1>1, <2>1, <2>2, <2>3, <2>4, <2>5, <2>6, NextMoves DEF Inv, Rows
<1>2. Inv /\ [Next]_vars =>
        [\A a \in Alerts, v \in Services :
           escStatus[a][v] \notin {"none", "active"} /\ escStatus'[a][v] # escStatus[a][v] =>
             /\ escStatus[a][v] \in {"acknowledged", "cancelled"}
             /\ escStatus'[a][v] \in {"escalated", "failed"}
             /\ claimed[a][v] /\ backups[a][v] = 1]_vars
  BY <1>1
<1> QED BY <1>2, OnCallInvariant, PTL DEF Safety, SettledStands

=============================================================================
