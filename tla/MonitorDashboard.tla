-------------------------- MODULE MonitorDashboard --------------------------
(***************************************************************************)
(* The monitoring dashboard of the browser (static/js/ops-vue-pages.js,    *)
(* page kind 'monitor-dashboard'): one fetch fills the page with the hosts *)
(* and pods of the selected Prometheus.  A request is refused while one is *)
(* in flight, and an answer for a source no longer selected is dropped     *)
(* without setting `dashboardLoaded`, so the page relies on its menus to   *)
(* keep the selection still while it loads.  Data and node filter are      *)
(* abstracted to the source they were read from.                           *)
(***************************************************************************)
EXTENDS Integers

CONSTANTS DashboardIds,   \* the enabled Prometheus connections
          NoSource,       \* nothing selected, nothing shown
          MaxRequests     \* bound: dashboard requests in the life of the page

ASSUME DashboardAssumption == NoSource \notin DashboardIds /\ MaxRequests \in Nat

VARIABLES
  selectedDashboard,    \* selectedDashboardPrometheusId
  dashboardData,        \* the source of the hosts and pods shown
  selectedNodes,        \* the source that named the nodes ticked in the filter
  dashboardLoaded, dashboardLoading, dashboardError,
  dashboardVersion,     \* dashboardRequestVersion
  dashboardMenu,        \* the open select: "none", "prometheus" or a "pods" filter
  dashboardTab,         \* "nodes" or "pods"
  dashboardFetches      \* requests in flight

dashboardVars == <<selectedDashboard, dashboardData, selectedNodes, dashboardLoaded,
                   dashboardLoading, dashboardError, dashboardVersion, dashboardMenu,
                   dashboardTab, dashboardFetches>>

Shown == <<dashboardData, selectedNodes, dashboardLoaded>>
Fetching == <<dashboardLoading, dashboardError, dashboardVersion, dashboardFetches>>

\* The page just mounted: the first connection is selected unless the request
\* named one, and mounted() has sent the first request, or shown an error where
\* there is no connection.
DashboardInit ==
  /\ dashboardData = NoSource /\ selectedNodes = NoSource
  /\ dashboardMenu = "none" /\ dashboardTab = "nodes"
  /\ IF DashboardIds = {}
     THEN /\ selectedDashboard = NoSource
          /\ dashboardLoaded = TRUE /\ dashboardLoading = FALSE /\ dashboardError = TRUE
          /\ dashboardVersion = 0 /\ dashboardFetches = {}
     ELSE /\ selectedDashboard \in DashboardIds
          /\ dashboardLoaded = FALSE /\ dashboardLoading = TRUE /\ dashboardError = FALSE
          /\ dashboardVersion = 1
          /\ dashboardFetches = {[source |-> selectedDashboard, version |-> 1]}

(***************************************************************************)
(* Loading.                                                                *)
(***************************************************************************)
\* loadDashboard(true) for source s: refused while a request is in flight.  The
\* caller says what becomes of `dashboardLoaded` until the answer.
LoadDashboard(s, loaded) ==
  /\ dashboardLoaded' = loaded
  /\ IF dashboardLoading
     THEN UNCHANGED Fetching
     ELSE /\ dashboardVersion < MaxRequests
          /\ dashboardVersion' = dashboardVersion + 1
          /\ dashboardLoading' = TRUE /\ dashboardError' = FALSE
          /\ dashboardFetches' = dashboardFetches \cup {[source |-> s, version |-> dashboardVersion + 1]}

\* An answer with the hosts of r's source, or with none: applied only to the
\* last request and only if its source is still selected.  Nodes ticked earlier
\* stay ticked if the answer names them, else its first node is ticked.
DashboardAnswered(r, hosts) ==
  /\ dashboardFetches' = dashboardFetches \ {r}
  /\ dashboardLoading' = IF dashboardVersion = r.version THEN FALSE ELSE dashboardLoading
  /\ IF dashboardVersion = r.version /\ selectedDashboard = r.source
     THEN /\ dashboardData' = r.source /\ dashboardLoaded' = TRUE
          /\ selectedNodes' = IF hosts THEN r.source ELSE NoSource
     ELSE UNCHANGED Shown
  /\ UNCHANGED <<selectedDashboard, dashboardError, dashboardVersion, dashboardMenu, dashboardTab>>

\* The request fails: the data is emptied, the ticked nodes are left.
DashboardFailed(r) ==
  /\ dashboardFetches' = dashboardFetches \ {r}
  /\ IF dashboardVersion = r.version
     THEN /\ dashboardLoading' = FALSE /\ dashboardError' = TRUE
          /\ dashboardData' = NoSource /\ dashboardLoaded' = TRUE
     ELSE UNCHANGED <<dashboardLoading, dashboardError, dashboardData, dashboardLoaded>>
  /\ UNCHANGED <<selectedDashboard, selectedNodes, dashboardVersion, dashboardMenu, dashboardTab>>

(***************************************************************************)
(* Clicks.                                                                 *)
(***************************************************************************)
MutHandleDocumentClick == UNCHANGED dashboardMenu

\* Every click bubbles to the document: one outside the selects closes the menu.
HandleDocumentClick == dashboardMenu' = "none"

\* The refresh button, disabled while a request is in flight.
RefreshDashboard ==
  /\ ~dashboardLoading /\ selectedDashboard # NoSource
  /\ LoadDashboard(selectedDashboard, dashboardLoaded)
  /\ HandleDocumentClick
  /\ UNCHANGED <<selectedDashboard, dashboardData, selectedNodes, dashboardTab>>

\* The triggers of the selects: the source's is disabled while a request is in
\* flight, the pod filters are on the page only when it shows pods.
ToggleDashboardSelect(key) ==
  /\ ~dashboardLoading /\ DashboardIds # {}
  /\ key = "pods" => dashboardTab = "pods" /\ ~dashboardError
  /\ dashboardMenu' = IF dashboardMenu = key THEN "none" ELSE key
  /\ UNCHANGED <<selectedDashboard, Shown, Fetching, dashboardTab>>

\* Escape, a pod filter chosen, or a click anywhere else.
CloseDashboardSelect ==
  /\ dashboardMenu # "none"
  /\ dashboardMenu' = "none"
  /\ UNCHANGED <<selectedDashboard, Shown, Fetching, dashboardTab>>

SetDashboardTab(tab) ==
  /\ dashboardTab' = tab
  /\ HandleDocumentClick
  /\ UNCHANGED <<selectedDashboard, Shown, Fetching>>

\* Nodes ticked or cleared in the node filter.
ChooseNodes(nodes) ==
  /\ dashboardTab = "nodes" /\ ~dashboardLoading /\ ~dashboardError
  /\ selectedNodes' = nodes
  /\ HandleDocumentClick
  /\ UNCHANGED <<selectedDashboard, dashboardData, dashboardLoaded, Fetching, dashboardTab>>

\* An option of the open source menu (not disabled while a request is in
\* flight): the page is emptied and loaded again.
ChangeDashboardPrometheus(s) ==
  /\ dashboardMenu = "prometheus"
  /\ selectedDashboard' = s
  /\ dashboardData' = NoSource /\ selectedNodes' = NoSource
  /\ LoadDashboard(s, FALSE)    \* dashboardError is FALSE whichever branch it takes
  /\ dashboardMenu' = "none"
  /\ UNCHANGED dashboardTab

DashboardNext ==
  \/ \E r \in dashboardFetches, hosts \in BOOLEAN : DashboardAnswered(r, hosts)
  \/ \E r \in dashboardFetches : DashboardFailed(r)
  \/ RefreshDashboard
  \/ \E key \in {"prometheus", "pods"} : ToggleDashboardSelect(key)
  \/ CloseDashboardSelect
  \/ \E tab \in {"nodes", "pods"} : SetDashboardTab(tab)
  \/ \E nodes \in {dashboardData, NoSource} : ChooseNodes(nodes)
  \/ \E s \in DashboardIds : ChangeDashboardPrometheus(s)

DashboardSpec == DashboardInit /\ [][DashboardNext]_dashboardVars

(***************************************************************************)
(* Properties.                                                             *)
(***************************************************************************)
\* The type of the dashboard's state.
DashboardTypeOK ==
  /\ selectedDashboard \in DashboardIds \cup {NoSource}
  /\ dashboardData \in DashboardIds \cup {NoSource}
  /\ selectedNodes \in DashboardIds \cup {NoSource}
  /\ dashboardLoaded \in BOOLEAN /\ dashboardLoading \in BOOLEAN /\ dashboardError \in BOOLEAN
  /\ dashboardVersion \in Nat
  /\ dashboardMenu \in {"none", "prometheus", "pods"}
  /\ dashboardTab \in {"nodes", "pods"}
  /\ dashboardFetches \in SUBSET [source : DashboardIds, version : Nat]

\* A request is in flight exactly while the page says it loads, and it asks for
\* the source selected now: nobody can change the selection under it.
OneRequestForTheSelection ==
  \A r \in dashboardFetches :
    dashboardLoading /\ r.version = dashboardVersion /\ r.source = selectedDashboard

\* A dashboard that has finished loading without an error shows the hosts and
\* pods of the selected source, with a node filter that names only its nodes.
\* It is never left blank by a request that was refused because another was in
\* flight and whose answer was then dropped (loadDashboard's first lines and
\* its check of the source).
DashboardNeverBlank ==
  ~dashboardLoading /\ ~dashboardError =>
    /\ dashboardLoaded /\ dashboardData = selectedDashboard
    /\ selectedNodes \in {NoSource, selectedDashboard}
=============================================================================
