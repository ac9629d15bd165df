-------------------------- MODULE MetricQueryPage --------------------------
(***************************************************************************)
(* The metric query page of the browser (static/js/ops-vue-pages.js, page  *)
(* kind 'alert-query'): query panels with suggestions searched on the      *)
(* server 200 ms after the last key, three lists (targets, rules, alerts)  *)
(* and the two selects that say which Prometheus and which Alertmanager    *)
(* they are read from.  Every fetch is asynchronous, answers come back in  *)
(* any order, and each handler decides from versions and the selection     *)
(* whether an answer is still wanted.  Texts are abstracted to the keyword *)
(* under the cursor, tables and rows to the source they were read from.    *)
(***************************************************************************)
EXTENDS Integers, FiniteSets, Functions

CONSTANTS PrometheusIds,   \* the enabled Prometheus connections
          AlertmanagerIds, \* the enabled Alertmanager connections
          Keywords,        \* the non-empty words a user types
          None,            \* no source selected, no word typed, nothing shown
          MaxPanels,       \* bound: panels opened in the life of the page
          Kinds,           \* the lists of the page: "targets", "rules", "alerts"
          MaxVersions,     \* bound: versions of the panels' suggestion requests, added up
          MaxLoads,        \* bound: versions of a list the user reloads
          MaxOutstanding   \* bound: requests in flight when the user acts

ASSUME MetricAssumption == /\ Kinds \subseteq {"targets", "rules", "alerts"}
                           /\ None \notin PrometheusIds \cup AlertmanagerIds \cup Keywords
                           /\ MaxPanels \in Nat \ {0}
                           /\ MaxVersions \in Nat /\ MaxLoads \in Nat /\ MaxOutstanding \in Nat

PanelIds == 1..MaxPanels

VARIABLES
  selectedPrometheus,   \* selectedMetricPrometheusId
  selectedAlertmanager, \* selectedMetricAlertmanagerId
  metricView,           \* the tab shown: "promql" or one of Kinds
  queryPanels,          \* the ids of the panels on the page
  panels,               \* each panel's fields, removed panels included
  nextQueryPanelId,
  metricResources,      \* each list's fields
  metricSearchCache,    \* <<source, keyword>> pairs with a cached answer
  metricMetadata,       \* per source: its state and the panel and word to refresh
  searches,             \* suggestion searches in flight
  resourceFetches       \* list requests in flight

metricVars == <<selectedPrometheus, selectedAlertmanager, metricView, queryPanels,
                panels, nextQueryPanelId, metricResources, metricSearchCache,
                metricMetadata, searches, resourceFetches>>

Selection == <<selectedPrometheus, selectedAlertmanager, metricView>>
PanelState == <<queryPanels, panels, nextQueryPanelId>>
Lists == <<metricResources, resourceFetches>>
Lookups == <<metricSearchCache, metricMetadata, searches>>

(***************************************************************************)
(* Data.                                                                   *)
(***************************************************************************)
\* A panel: its suggestion request (version, word, spinner, armed timer), the
\* search its suggestions come from, the source of its table, and the source of
\* the query it is running.
MetricQueryPanel(table) ==
  [version |-> 0, keyword |-> None, searching |-> FALSE, timer |-> FALSE,
   suggestions |-> None, table |-> table, running |-> None]

MetricResourceState == [loading |-> FALSE, loaded |-> FALSE, rows |-> None, version |-> 0]

SelectedSource(kind) == IF kind = "alerts" THEN selectedAlertmanager ELSE selectedPrometheus

SourceLocked == \/ \E p \in queryPanels : panels[p].running # None
                \/ \E k \in Kinds : metricResources[k].loading

\* What the search cache holds for a word of the selected source.
Cached(keyword) ==
  IF <<selectedPrometheus, keyword>> \in metricSearchCache
  THEN <<selectedPrometheus, keyword>> ELSE None

\* The versions of all panels added up, for the bound.
Versions == SumFunction([p \in PanelIds |-> panels[p].version])

MetricInit ==
  /\ selectedPrometheus \in PrometheusIds \cup {None}
  /\ selectedAlertmanager \in AlertmanagerIds \cup {None}
  /\ metricView = "promql"
  /\ queryPanels = {1}
  /\ \E table \in {None, selectedPrometheus} :
       panels = [p \in PanelIds |-> MetricQueryPanel(IF p = 1 THEN table ELSE None)]
  /\ nextQueryPanelId = 2
  /\ metricResources = [k \in Kinds |-> MetricResourceState]
  /\ metricSearchCache = {}
  /\ metricMetadata = [s \in PrometheusIds |-> [state |-> "none", panel |-> None, keyword |-> None]]
  /\ searches = {}
  /\ resourceFetches = {}

(***************************************************************************)
(* Panels.                                                                 *)
(***************************************************************************)
AddMetricQueryPanel ==
  /\ metricView = "promql" /\ nextQueryPanelId \in PanelIds
  /\ queryPanels' = queryPanels \cup {nextQueryPanelId}
  /\ nextQueryPanelId' = nextQueryPanelId + 1
  /\ UNCHANGED <<Selection, panels, Lists, Lookups>>

\* The timer of a removed panel is cleared.  A search it already sent comes back
\* to an object nobody shows: its fields are forgotten here, and the version is
\* raised so that the answer finds nothing to write to.
RemoveMetricQueryPanel(p) ==
  /\ metricView = "promql"
  /\ queryPanels # {p} /\ panels[p].running = None
  /\ queryPanels' = queryPanels \ {p}
  /\ panels' = [panels EXCEPT ![p] = [MetricQueryPanel(None) EXCEPT !.version = panels[p].version + 1]]
  /\ UNCHANGED <<Selection, nextQueryPanelId, Lists, Lookups>>

\* The panel after a key or a focus: a new version, the old timer cleared, and
\* either the cached answer at once or the spinner with a timer of 200 ms.
PanelTyped(panel, keyword) ==
  LET cleared == [panel EXCEPT !.version = @ + 1, !.keyword = keyword, !.searching = FALSE,
                               !.timer = FALSE, !.suggestions = Cached(keyword)]
  IN IF keyword # None /\ selectedPrometheus # None /\ Cached(keyword) = None
     THEN [cleared EXCEPT !.searching = TRUE, !.timer = TRUE]
     ELSE cleared

\* loadMetricMetadata: one request per source; only the call that sends it
\* waits for the answer.
LoadMetricMetadata(p, keyword) ==
  IF selectedPrometheus # None /\ metricMetadata[selectedPrometheus].state \in {"none", "error"}
  THEN metricMetadata' = [metricMetadata EXCEPT ![selectedPrometheus] =
                            [state |-> "loading", panel |-> p, keyword |-> keyword]]
  ELSE UNCHANGED metricMetadata

\* A key typed (the old result is dropped) or the field focused (it is kept).
UpdateMetricQuerySuggestions(p, keyword, typed) ==
  LET q == PanelTyped(panels[p], keyword) IN
  /\ metricView = "promql" /\ panels[p].running = None
  /\ Versions < MaxVersions
  /\ panels' = [panels EXCEPT ![p] = IF typed THEN [q EXCEPT !.table = None] ELSE q]
  /\ LoadMetricMetadata(p, keyword)
  /\ UNCHANGED <<Selection, queryPanels, nextQueryPanelId, Lists, metricSearchCache, searches>>

\* The 200 ms are over: an answer another panel cached meanwhile is used at
\* once, otherwise the search is sent with the version it was armed for.
SearchMetricNames(p) ==
  LET q == panels[p] IN
  /\ q.timer
  /\ IF Cached(q.keyword) # None
     THEN /\ panels' = [panels EXCEPT ![p].timer = FALSE, ![p].searching = FALSE,
                                      ![p].suggestions = Cached(q.keyword)]
          /\ UNCHANGED searches
     ELSE /\ panels' = [panels EXCEPT ![p].timer = FALSE]
          /\ searches' = searches \cup {[panel |-> p, source |-> selectedPrometheus,
                                         keyword |-> q.keyword, version |-> q.version]}
  /\ UNCHANGED <<Selection, queryPanels, nextQueryPanelId, Lists, metricSearchCache, metricMetadata>>

MutSearchIsCurrent(r) == panels[r.panel].keyword = r.keyword

SearchIsCurrent(r) == /\ panels[r.panel].version = r.version
                      /\ selectedPrometheus = r.source
                      /\ panels[r.panel].keyword = r.keyword

\* A search is answered, or fails.  The answer is cached while its source is
\* still selected and shown only to the request the panel last made.
SearchAnswered(r, ok) ==
  /\ searches' = searches \ {r}
  /\ metricSearchCache' = metricSearchCache \cup
       (IF ok /\ selectedPrometheus = r.source THEN {<<r.source, r.keyword>>} ELSE {})
  /\ panels' = IF SearchIsCurrent(r)
               THEN [panels EXCEPT ![r.panel].searching = FALSE,
                                   ![r.panel].suggestions = IF ok THEN <<r.source, r.keyword>> ELSE None]
               ELSE panels
  /\ UNCHANGED <<Selection, queryPanels, nextQueryPanelId, Lists, metricMetadata>>

\* The labels of a source arrive, or fail to.  An answer for a source no longer
\* selected is dropped and asked for again later; the panel that asked lists its
\* suggestions afresh if its word is still the one typed.
MetadataAnswered(s, ok) ==
  LET m == metricMetadata[s]
      state == IF ~ok THEN "error" ELSE IF selectedPrometheus = s THEN "loaded" ELSE "none"
  IN
  /\ m.state = "loading"
  /\ metricMetadata' = [metricMetadata EXCEPT ![s] = [state |-> state, panel |-> None, keyword |-> None]]
  /\ panels' = IF panels[m.panel].keyword = m.keyword /\ selectedPrometheus = s
               THEN [panels EXCEPT ![m.panel].suggestions = Cached(m.keyword)]
               ELSE panels
  /\ UNCHANGED <<Selection, queryPanels, nextQueryPanelId, Lists, metricSearchCache, searches>>

\* A suggestion is put into the text: the result shown is dropped.
SelectMetricQuerySuggestion(p) ==
  /\ metricView = "promql" /\ panels[p].running = None
  /\ panels[p].version > 0
  /\ panels' = [panels EXCEPT ![p].table = None]
  /\ UNCHANGED <<Selection, queryPanels, nextQueryPanelId, Lists, Lookups>>

\* The query of a panel is sent; with no text or no source it only fails.
ExecuteMetricQuery(p, empty) ==
  /\ metricView = "promql" /\ panels[p].running = None
  /\ panels' = IF empty \/ selectedPrometheus = None
               THEN [panels EXCEPT ![p].table = None]
               ELSE [panels EXCEPT ![p].running = selectedPrometheus]
  /\ UNCHANGED <<Selection, queryPanels, nextQueryPanelId, Lists, Lookups>>

QueryAnswered(p, ok) ==
  LET source == panels[p].running IN
  /\ source # None
  /\ panels' = [panels EXCEPT ![p].running = None,
                              ![p].table = IF ok /\ selectedPrometheus = source THEN source ELSE None]
  /\ UNCHANGED <<Selection, queryPanels, nextQueryPanelId, Lists, Lookups>>

(***************************************************************************)
(* Lists.                                                                  *)
(***************************************************************************)
ClearMetricResource(state) == [MetricResourceState EXCEPT !.version = state.version + 1]

\* loadMetricResource past its early returns, on the lists as the caller left
\* them: without a source an error is shown at once.
LoadMetricResource(kind, source, resources) ==
  IF source = None
  THEN /\ metricResources' = [resources EXCEPT ![kind].loaded = TRUE, ![kind].rows = None]
       /\ UNCHANGED resourceFetches
  ELSE /\ metricResources' = [resources EXCEPT ![kind] =
            [loading |-> TRUE, loaded |-> FALSE, rows |-> None, version |-> @.version + 1]]
       /\ resourceFetches' = resourceFetches \cup
            {[kind |-> kind, source |-> source, version |-> resources[kind].version + 1]}

ChangeMetricView(view) ==
  /\ metricView' = view
  /\ IF view # "promql" /\ ~metricResources[view].loaded /\ ~metricResources[view].loading
     THEN LoadMetricResource(view, SelectedSource(view), metricResources)
     ELSE UNCHANGED Lists
  /\ UNCHANGED <<selectedPrometheus, selectedAlertmanager, PanelState, Lookups>>

RefreshMetricResource(kind) ==
  /\ metricView = kind /\ ~metricResources[kind].loading /\ SelectedSource(kind) # None
  /\ metricResources[kind].version < MaxLoads
  /\ LoadMetricResource(kind, SelectedSource(kind), metricResources)
  /\ UNCHANGED <<Selection, PanelState, Lookups>>

\* A list arrives, or the request fails or names another source.
ResourceAnswered(r, ok) ==
  /\ resourceFetches' = resourceFetches \ {r}
  /\ metricResources' =
       IF metricResources[r.kind].version = r.version
       THEN [metricResources EXCEPT ![r.kind] =
               [@ EXCEPT !.loading = FALSE, !.loaded = TRUE,
                         !.rows = IF ok /\ SelectedSource(r.kind) = r.source THEN r.source ELSE None]]
       ELSE metricResources
  /\ UNCHANGED <<Selection, PanelState, Lookups>>

(***************************************************************************)
(* Selects, disabled while a query runs or a list loads.                   *)
(***************************************************************************)
MutPanelOfNewSource(panel) ==
  [panel EXCEPT !.timer = FALSE, !.version = @ + 1, !.table = None,
                !.suggestions = None, !.keyword = None]

\* Everything a panel showed or asked for under the old source is dropped.
PanelOfNewSource(panel) ==
  [panel EXCEPT !.timer = FALSE, !.version = @ + 1, !.table = None,
                !.suggestions = None, !.keyword = None, !.searching = FALSE]

ChangeMetricPrometheus(s) ==
  LET cleared == [k \in Kinds |-> IF k = "alerts" THEN metricResources[k]
                                  ELSE ClearMetricResource(metricResources[k])]
  IN
  /\ metricView # "alerts" /\ ~SourceLocked /\ s # selectedPrometheus
  /\ Versions + Cardinality(queryPanels) <= MaxVersions
  /\ selectedPrometheus' = s
  /\ metricSearchCache' = {}
  /\ panels' = [p \in PanelIds |-> IF p \in queryPanels THEN PanelOfNewSource(panels[p]) ELSE panels[p]]
  /\ IF metricView = "promql"
     THEN metricResources' = cleared /\ UNCHANGED resourceFetches
     ELSE LoadMetricResource(metricView, s, cleared)
  /\ UNCHANGED <<selectedAlertmanager, metricView, queryPanels, nextQueryPanelId,
                 metricMetadata, searches>>

ChangeMetricAlertmanager(s) ==
  LET cleared == [metricResources EXCEPT !["alerts"] = ClearMetricResource(@)] IN
  /\ "alerts" \in Kinds /\ metricView = "alerts" /\ ~SourceLocked /\ s # selectedAlertmanager
  /\ metricResources["alerts"].version < MaxLoads
  /\ selectedAlertmanager' = s
  /\ LoadMetricResource("alerts", s, cleared)
  /\ UNCHANGED <<selectedPrometheus, metricView, PanelState, Lookups>>

Outstanding == Cardinality(searches) + Cardinality(resourceFetches)
                 + Cardinality({p \in PanelIds : panels[p].running # None})
                 + Cardinality({s \in PrometheusIds : metricMetadata[s].state = "loading"})

MetricUser ==
  \/ AddMetricQueryPanel
  \/ \E p \in queryPanels :
       \/ RemoveMetricQueryPanel(p)
       \/ \E keyword \in Keywords \cup {None}, typed \in BOOLEAN :
            UpdateMetricQuerySuggestions(p, keyword, typed)
       \/ SelectMetricQuerySuggestion(p)
       \/ \E empty \in BOOLEAN : ExecuteMetricQuery(p, empty)
  \/ \E view \in Kinds \cup {"promql"} : ChangeMetricView(view)
  \/ \E kind \in Kinds : RefreshMetricResource(kind)
  \/ \E s \in PrometheusIds : ChangeMetricPrometheus(s)
  \/ \E s \in AlertmanagerIds : ChangeMetricAlertmanager(s)

MetricBrowser ==
  \/ \E p \in PanelIds :
       \/ SearchMetricNames(p)
       \/ \E ok \in BOOLEAN : QueryAnswered(p, ok)
  \/ \E r \in searches, ok \in BOOLEAN : SearchAnswered(r, ok)
  \/ \E s \in PrometheusIds, ok \in BOOLEAN : MetadataAnswered(s, ok)
  \/ \E r \in resourceFetches, ok \in BOOLEAN : ResourceAnswered(r, ok)

MetricNext == (Outstanding <= MaxOutstanding /\ MetricUser) \/ MetricBrowser

MetricSpec == MetricInit /\ [][MetricNext]_metricVars

(***************************************************************************)
(* Properties.                                                             *)
(***************************************************************************)
\* The type of the page's state.
MetricTypeOK ==
  /\ selectedPrometheus \in PrometheusIds \cup {None}
  /\ selectedAlertmanager \in AlertmanagerIds \cup {None}
  /\ metricView \in Kinds \cup {"promql"}
  /\ queryPanels \in SUBSET PanelIds
  /\ nextQueryPanelId \in 2..(MaxPanels + 1)
  /\ panels \in [PanelIds -> [version : Nat, keyword : Keywords \cup {None},
                              searching : BOOLEAN, timer : BOOLEAN,
                              suggestions : (PrometheusIds \X Keywords) \cup {None},
                              table : PrometheusIds \cup {None},
                              running : PrometheusIds \cup {None}]]
  /\ metricResources \in [Kinds -> [loading : BOOLEAN, loaded : BOOLEAN,
                                    rows : PrometheusIds \cup AlertmanagerIds \cup {None},
                                    version : Nat]]
  /\ metricSearchCache \in SUBSET (PrometheusIds \X Keywords)
  /\ metricMetadata \in [PrometheusIds -> [state : {"none", "loading", "loaded", "error"},
                                           panel : PanelIds \cup {None},
                                           keyword : Keywords \cup {None}]]
  /\ searches \in SUBSET [panel : PanelIds, source : PrometheusIds,
                          keyword : Keywords, version : Nat]
  /\ resourceFetches \in SUBSET [kind : Kinds, source : PrometheusIds \cup AlertmanagerIds,
                                 version : Nat]

\* What a panel shows was read from the selected Prometheus, and its
\* suggestions are the answer to the word typed last.
PanelBelongs(p) ==
  /\ panels[p].table \in {None, selectedPrometheus}
  /\ panels[p].suggestions \in {None, <<selectedPrometheus, panels[p].keyword>>}

\* Nothing on the page was read from a source other than the one selected now,
\* whatever was in flight when the selection changed (changeMetricPrometheus,
\* changeMetricAlertmanager and the checks before an answer is applied).
AnswersBelong ==
  /\ \A p \in queryPanels : PanelBelongs(p)
  /\ \A k \in Kinds : metricResources[k].rows \in {None, SelectedSource(k)}

\* The request that will stop a panel's suggestion spinner.
SearchUnderWay(p) ==
  \/ panels[p].timer
  \/ \E r \in searches : r.panel = p /\ SearchIsCurrent(r)

\* The request that will end a list's loading state.
FetchUnderWay(k) ==
  \E r \in resourceFetches : r.kind = k /\ r.version = metricResources[k].version

\* A spinner always has a request behind it that will stop it: a search or a
\* list load that was overtaken never leaves the page loading for good, or the
\* two selects locked (metricSourceLocked).
SpinnerHasCause ==
  /\ \A p \in queryPanels : panels[p].searching => SearchUnderWay(p)
  /\ \A k \in Kinds : metricResources[k].loading => FetchUnderWay(k)
=============================================================================
