----------------------------- MODULE BrowserTab -----------------------------
(***************************************************************************)
(* A browser tab.  The page it shows is fixed by the payload the server    *)
(* rendered (`payload.kind` for ops-vue-pages.js, the root element for     *)
(* devops-vue.js and aiops-vue.js); leaving it throws its state and its    *)
(* requests away, so a behaviour is the life of one page.  The variables   *)
(* of the other pages keep one fixed value.                                *)
(***************************************************************************)
EXTENDS MetricQueryPage, MonitorDashboard, OpsConsole, InvestigationPage

VARIABLE page   \* the page shown

tabVars == <<page, metricVars, dashboardVars, consoleVars, investigationVars>>

Pages == {"alert-query", "monitor-dashboard", "devops", "aiops"}

TabInit ==
  /\ page \in Pages
  /\ MetricInit /\ DashboardInit /\ ConsoleInit /\ InvestigationInit
  /\ page # "alert-query" => selectedPrometheus = None /\ selectedAlertmanager = None
  /\ page # "monitor-dashboard" /\ DashboardIds # {} =>
       selectedDashboard = CHOOSE s \in DashboardIds : TRUE
  /\ page # "devops" => loads[CHOOSE slot \in LoadSlots : TRUE] = "lists"
  /\ page # "aiops" => stored = {}

TabNext ==
  \/ page = "alert-query" /\ MetricNext
       /\ UNCHANGED <<page, dashboardVars, consoleVars, investigationVars>>
  \/ page = "monitor-dashboard" /\ DashboardNext
       /\ UNCHANGED <<page, metricVars, consoleVars, investigationVars>>
  \/ page = "devops" /\ ConsoleNext
       /\ UNCHANGED <<page, metricVars, dashboardVars, investigationVars>>
  \/ page = "aiops" /\ InvestigationNext
       /\ UNCHANGED <<page, metricVars, dashboardVars, consoleVars>>

TabSpec == TabInit /\ [][TabNext]_tabVars
=============================================================================
