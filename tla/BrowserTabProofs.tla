-------------------------- MODULE BrowserTabProofs --------------------------
(***************************************************************************)
(* The four pages of the browser for any sources, words, panels and         *)
(* investigations, and any number of requests in flight: what TLC checks of *)
(* MetricQueryPage, MonitorDashboard, OpsConsole and InvestigationPage,     *)
(* proved from an inductive invariant of each, and carried over to the tab  *)
(* that shows one of them.                                                  *)
(***************************************************************************)
EXTENDS BrowserTab, TLAPS

(***************************************************************************)
(* The metric query page: nothing shown was read from a source no longer    *)
(* selected, and nothing spins without a request.                           *)
(***************************************************************************)
Panel == [version : Nat, keyword : Keywords \cup {None}, searching : BOOLEAN, timer : BOOLEAN,
          suggestions : (PrometheusIds \X Keywords) \cup {None},
          table : PrometheusIds \cup {None}, running : PrometheusIds \cup {None}]

List == [loading : BOOLEAN, loaded : BOOLEAN,
         rows : PrometheusIds \cup AlertmanagerIds \cup {None}, version : Nat]

Search == [panel : PanelIds, source : PrometheusIds, keyword : Keywords, version : Nat]

\* The panels are records, and a timer is armed only for a word and with a
\* source selected.
PanelsAreWhole ==
  /\ panels \in [PanelIds -> Panel]
  /\ nextQueryPanelId \in Nat \ {0}
  /\ \A p \in queryPanels : p \in PanelIds /\ p < nextQueryPanelId
  /\ \A p \in PanelIds : panels[p].timer = TRUE => panels[p].keyword # None /\ selectedPrometheus # None

\* A search, and a request for labels under way, know an opened panel.
SearchesAreWhole ==
  searches \in SUBSET Search /\ \A r \in searches : r.panel < nextQueryPanelId

MetadataIsWhole ==
  /\ metricMetadata \in [PrometheusIds -> [state : {"none", "loading", "loaded", "error"},
                                           panel : PanelIds \cup {None},
                                           keyword : Keywords \cup {None}]]
  /\ \A s \in PrometheusIds : metricMetadata[s].state = "loading" =>
       metricMetadata[s].panel \in PanelIds /\ metricMetadata[s].panel < nextQueryPanelId

\* A panel not yet opened is as it will be when it opens.
Fresh == \A p \in PanelIds : p >= nextQueryPanelId => panels[p] = MetricQueryPanel(None)

ListsAreWhole ==
  /\ metricResources \in [Kinds -> List]
  /\ metricView \in Kinds \cup {"promql"}
  /\ resourceFetches \in SUBSET [kind : Kinds, source : PrometheusIds \cup AlertmanagerIds, version : Nat]

SelectionIsWhole ==
  /\ selectedPrometheus \in PrometheusIds \cup {None}
  /\ selectedAlertmanager \in AlertmanagerIds \cup {None}
  /\ \A pair \in metricSearchCache : pair \in PrometheusIds \X Keywords

(***************************************************************************)
(* What the helpers make of a panel.                                       *)
(***************************************************************************)
LEMMA ClearedPanel ==
  ASSUME NEW panel \in Panel, NEW n \in Nat
  PROVE  [panel EXCEPT !.timer = FALSE, !.version = n, !.table = None,
                !.suggestions = None, !.keyword = None, !.searching = FALSE] \in Panel
BY DEF Panel

LEMMA CachedIsOwn ==
  ASSUME NEW keyword
  PROVE  Cached(keyword) \in {None, <<selectedPrometheus, keyword>>}
BY DEF Cached

LEMMA ClosedPanel ==
  ASSUME NEW panel \in Panel
  PROVE  /\ PanelOfNewSource(panel) \in Panel
         /\ PanelOfNewSource(panel).timer = FALSE
         /\ PanelOfNewSource(panel).searching = FALSE
         /\ PanelOfNewSource(panel).table = None
         /\ PanelOfNewSource(panel).suggestions = None
<1>1. panel.version + 1 \in Nat
  BY DEF Panel
<1>2. PanelOfNewSource(panel) \in Panel
  BY <1>1, ClearedPanel DEF PanelOfNewSource
<1> QED BY <1>2 DEF PanelOfNewSource, Panel

LEMMA NewPanel ==
  ASSUME NEW table \in PrometheusIds \cup {None}
  PROVE  /\ MetricQueryPanel(table) \in Panel
         /\ MetricQueryPanel(table).timer = FALSE
         /\ MetricQueryPanel(table).searching = FALSE
         /\ MetricQueryPanel(table).running = None
         /\ MetricQueryPanel(table).table = table
         /\ MetricQueryPanel(table).suggestions = None
BY DEF MetricQueryPanel, Panel

(***************************************************************************)
(* The lists.                                                              *)
(***************************************************************************)
RowsBelong == \A k \in Kinds : metricResources[k].rows \in {None, SelectedSource(k)}
LoadsEnd == \A k \in Kinds : metricResources[k].loading = TRUE => FetchUnderWay(k)
ListsInv == ListsAreWhole /\ RowsBelong /\ LoadsEnd

\* Loading one list, the others being in order.
LEMMA LoadStep ==
  ASSUME ListsAreWhole, metricView' \in Kinds \cup {"promql"},
         NEW kind \in Kinds, NEW source \in PrometheusIds \cup AlertmanagerIds \cup {None},
         NEW resources \in [Kinds -> List],
         LoadMetricResource(kind, source, resources),
         resources[kind].loading = FALSE,
         \A k \in Kinds \ {kind} : resources[k].rows \in {None, SelectedSource(k)'},
         \A k \in Kinds \ {kind} : resources[k].loading = TRUE =>
            \E r \in resourceFetches : r.kind = k /\ r.version = resources[k].version
  PROVE  ListsInv'
<1> USE DEF ListsAreWhole
<1>0. resources[kind].version \in Nat /\ resources[kind].version + 1 \in Nat
  BY DEF List
<1>1. CASE source = None
  <2> DEFINE empty == [resources[kind] EXCEPT !.loaded = TRUE, !.rows = None]
  <2>1. /\ metricResources' = [resources EXCEPT ![kind].loaded = TRUE, ![kind].rows = None]
        /\ resourceFetches' = resourceFetches
    BY <1>1, Zenon DEF LoadMetricResource
  <2>2. /\ metricResources' = [resources EXCEPT ![kind] = empty]
        /\ resourceFetches' = resourceFetches
    BY <2>1
  <2>3. empty \in List /\ empty.loading = FALSE /\ empty.rows = None
    <3> HIDE DEF ListsAreWhole
    <3>1. resources[kind] \in List
      OBVIOUS
    <3> QED BY <3>1 DEF List
  <2> HIDE DEF empty
  <2>4. metricResources' \in [Kinds -> List]
    BY <2>2, <2>3
  <2>5. RowsBelong'
    BY <2>2, <2>3 DEF RowsBelong
  <2>6. metricResources'[kind].loading = FALSE
    BY <2>2, <2>3
  <2>7. \A k \in Kinds \ {kind} : metricResources'[k] = resources[k]
    BY <2>2
  <2>8. LoadsEnd'
    BY <2>2, <2>6, <2>7 DEF LoadsEnd, FetchUnderWay
  <2> QED BY <2>2, <2>4, <2>5, <2>8 DEF ListsInv
<1>2. CASE source # None
  <2> DEFINE n == resources[kind].version + 1
             fetch == [kind |-> kind, source |-> source, version |-> n]
  <2>1. /\ metricResources' = [resources EXCEPT ![kind] =
              [loading |-> TRUE, loaded |-> FALSE, rows |-> None, version |-> n]]
        /\ resourceFetches' = resourceFetches \cup {fetch}
    BY <1>2 DEF LoadMetricResource
  <2>2. n \in Nat /\ fetch.kind = kind /\ fetch.version = n
    BY <1>0
  <2>3. fetch \in [kind : Kinds, source : PrometheusIds \cup AlertmanagerIds, version : Nat]
    BY <1>0, <1>2
  <2> HIDE DEF n, fetch
  <2>4. metricResources' \in [Kinds -> List]
    BY <2>1, <2>2 DEF List
  <2>5. metricResources'[kind].rows = None /\ metricResources'[kind].version = n
    BY <2>1
  <2>6. \A k \in Kinds \ {kind} : metricResources'[k] = resources[k]
    BY <2>1
  <2>7. RowsBelong'
    BY <2>5, <2>6 DEF RowsBelong
  <2>8. LoadsEnd'
    BY <2>1, <2>2, <2>5, <2>6 DEF LoadsEnd, FetchUnderWay
  <2> QED BY <2>1, <2>3, <2>4, <2>7, <2>8 DEF ListsInv
<1> QED BY <1>1, <1>2

\* What clearing makes of a list.
LEMMA ClearedList ==
  ASSUME NEW state \in List
  PROVE  /\ ClearMetricResource(state) \in List
         /\ ClearMetricResource(state).loading = FALSE
         /\ ClearMetricResource(state).rows = None
<1>1. state.version + 1 \in Nat
  BY DEF List
<1> QED BY <1>1 DEF ClearMetricResource, MetricResourceState, List

\* The actions of the panels: they touch no list and no selection.
PanelMoves ==
  \/ AddMetricQueryPanel
  \/ \E p \in queryPanels :
       \/ RemoveMetricQueryPanel(p)
       \/ \E keyword \in Keywords \cup {None}, typed \in BOOLEAN :
            UpdateMetricQuerySuggestions(p, keyword, typed)
       \/ SelectMetricQuerySuggestion(p)
       \/ \E empty \in BOOLEAN : ExecuteMetricQuery(p, empty)
  \/ \E p \in PanelIds :
       \/ SearchMetricNames(p)
       \/ \E ok \in BOOLEAN : QueryAnswered(p, ok)
  \/ \E r \in searches, ok \in BOOLEAN : SearchAnswered(r, ok)
  \/ \E s \in PrometheusIds, ok \in BOOLEAN : MetadataAnswered(s, ok)

LEMMA PanelMovesKeepLists ==
  PanelMoves \/ UNCHANGED metricVars => UNCHANGED <<Selection, Lists>>
BY Zenon DEF PanelMoves, AddMetricQueryPanel, RemoveMetricQueryPanel, UpdateMetricQuerySuggestions,
   SelectMetricQuerySuggestion, ExecuteMetricQuery, SearchMetricNames, QueryAnswered,
   SearchAnswered, MetadataAnswered, metricVars, Selection, Lists

LEMMA ListsStep ==
  SelectionIsWhole /\ ListsInv /\ [MetricNext]_metricVars => ListsInv'
<1> SUFFICES ASSUME SelectionIsWhole, ListsInv, [MetricNext]_metricVars PROVE ListsInv'
  OBVIOUS
<1> USE DEF ListsInv
<1>0. /\ ListsAreWhole /\ RowsBelong
      /\ \A k \in Kinds : metricResources[k].loading = TRUE =>
           \E r \in resourceFetches : r.kind = k /\ r.version = metricResources[k].version
      /\ \A k \in Kinds : SelectedSource(k) \in PrometheusIds \cup AlertmanagerIds \cup {None}
  BY DEF LoadsEnd, FetchUnderWay, SelectionIsWhole, SelectedSource
<1>1. ASSUME PanelMoves \/ UNCHANGED metricVars
      PROVE  ListsInv'
  <2>1. UNCHANGED <<Selection, Lists>>
    BY <1>1, PanelMovesKeepLists
  <2> QED
    BY <1>0, <2>1 DEF Selection, Lists, ListsAreWhole, RowsBelong, LoadsEnd, FetchUnderWay,
                      SelectedSource
<1>2. ASSUME NEW view \in Kinds \cup {"promql"}, ChangeMetricView(view)
      PROVE  ListsInv'
  <2>1. /\ metricView' = view /\ metricView' \in Kinds \cup {"promql"}
        /\ \A k \in Kinds : SelectedSource(k)' = SelectedSource(k)
    BY <1>2 DEF ChangeMetricView, SelectedSource
  <2>2. CASE view # "promql" /\ ~metricResources[view].loaded /\ ~metricResources[view].loading
    <3>1. LoadMetricResource(view, SelectedSource(view), metricResources) /\ view \in Kinds
      BY <1>2, <2>2 DEF ChangeMetricView
    <3>2. metricResources[view].loading = FALSE
      BY <1>0, <2>2, <3>1 DEF ListsAreWhole, List
    <3>3. metricResources \in [Kinds -> List]
      BY <1>0 DEF ListsAreWhole
    <3>4. \A k \in Kinds \ {view} : metricResources[k].rows \in {None, SelectedSource(k)'}
      BY <1>0, <2>1 DEF RowsBelong
    <3> QED BY <1>0, <2>1, <3>1, <3>2, <3>3, <3>4, LoadStep
  <2>3. CASE ~(view # "promql" /\ ~metricResources[view].loaded /\ ~metricResources[view].loading)
    <3>1. UNCHANGED Lists
      BY <1>2, <2>3 DEF ChangeMetricView
    <3> QED
      BY <1>0, <2>1, <3>1 DEF Lists, ListsAreWhole, RowsBelong, LoadsEnd, FetchUnderWay
  <2> QED BY <2>2, <2>3
<1>3. ASSUME NEW kind \in Kinds, RefreshMetricResource(kind)
      PROVE  ListsInv'
  <2>1. /\ LoadMetricResource(kind, SelectedSource(kind), metricResources)
        /\ metricView' = metricView /\ ~metricResources[kind].loading
        /\ \A k \in Kinds : SelectedSource(k)' = SelectedSource(k)
    BY <1>3 DEF RefreshMetricResource, Selection, SelectedSource
  <2>2. metricResources[kind].loading = FALSE
    BY <1>0, <2>1 DEF ListsAreWhole, List
  <2>3. metricView' \in Kinds \cup {"promql"} /\ metricResources \in [Kinds -> List]
    BY <1>0, <2>1 DEF ListsAreWhole
  <2>4. \A k \in Kinds \ {kind} : metricResources[k].rows \in {None, SelectedSource(k)'}
    BY <1>0, <2>1 DEF RowsBelong
  <2> QED BY <1>0, <2>1, <2>2, <2>3, <2>4, LoadStep
<1>4. ASSUME NEW r \in resourceFetches, NEW ok \in BOOLEAN, ResourceAnswered(r, ok)
      PROVE  ListsInv'
  <2> DEFINE rows == IF ok /\ SelectedSource(r.kind) = r.source THEN r.source ELSE None
             answered == [metricResources[r.kind] EXCEPT !.loading = FALSE, !.loaded = TRUE, !.rows = rows]
  <2>1. r.kind \in Kinds /\ r.source \in PrometheusIds \cup AlertmanagerIds
    BY <1>0 DEF ListsAreWhole
  <2>2. /\ rows \in PrometheusIds \cup AlertmanagerIds \cup {None}
        /\ rows \in {None, SelectedSource(r.kind)}
    BY <2>1
  <2>3. UNCHANGED Selection /\ resourceFetches' = resourceFetches \ {r}
    BY <1>4 DEF ResourceAnswered
  <2>4. \A k \in Kinds : SelectedSource(k)' = SelectedSource(k)
    BY <2>3 DEF Selection, SelectedSource
  <2>5. CASE metricResources[r.kind].version = r.version
    <3>1. metricResources' = [metricResources EXCEPT ![r.kind] = answered]
      BY <1>4, <2>5 DEF ResourceAnswered
    <3> HIDE DEF rows
    <3>2. answered \in List /\ answered.loading = FALSE /\ answered.rows = rows
      <4>1. metricResources[r.kind] \in List
        BY <1>0, <2>1 DEF ListsAreWhole
      <4> QED BY <2>2, <4>1 DEF List
    <3> HIDE DEF answered
    <3>3. ListsAreWhole'
      BY <1>0, <2>3, <3>1, <3>2 DEF ListsAreWhole, Selection
    <3>4. RowsBelong'
      BY <1>0, <2>1, <2>2, <2>4, <3>1, <3>2 DEF RowsBelong, ListsAreWhole
    <3>5. LoadsEnd'
      BY <1>0, <2>1, <2>3, <3>1, <3>2 DEF LoadsEnd, FetchUnderWay, ListsAreWhole
    <3> QED BY <3>3, <3>4, <3>5
  <2>6. CASE metricResources[r.kind].version # r.version
    <3>1. metricResources' = metricResources
      BY <1>4, <2>6 DEF ResourceAnswered
    <3> QED
      BY <1>0, <2>3, <2>4, <2>6, <3>1
      DEF Selection, ListsAreWhole, RowsBelong, LoadsEnd, FetchUnderWay
  <2> QED BY <2>5, <2>6
<1>5. ASSUME NEW s \in PrometheusIds, ChangeMetricPrometheus(s)
      PROVE  ListsInv'
  <2> DEFINE cleared == [k \in Kinds |-> IF k = "alerts" THEN metricResources[k]
                                         ELSE ClearMetricResource(metricResources[k])]
  <2>1. /\ selectedPrometheus' = s /\ selectedAlertmanager' = selectedAlertmanager
        /\ metricView' = metricView /\ metricView # "alerts"
        /\ IF metricView = "promql"
           THEN metricResources' = cleared /\ UNCHANGED resourceFetches
           ELSE LoadMetricResource(metricView, s, cleared)
    BY <1>5 DEF ChangeMetricPrometheus
  <2>2. metricResources \in [Kinds -> List] /\ metricView \in Kinds \cup {"promql"}
    BY <1>0 DEF ListsAreWhole
  <2>3. cleared \in [Kinds -> List]
    BY <2>2, ClearedList
  <2>4. \A k \in Kinds : k # "alerts" => cleared[k].rows = None /\ cleared[k].loading = FALSE
    BY <2>2, ClearedList
  <2>5. \A k \in Kinds : k = "alerts" => cleared[k] = metricResources[k]
    OBVIOUS
  <2>6. \A k \in Kinds : cleared[k].rows \in {None, SelectedSource(k)'}
    BY <1>0, <2>1, <2>4, <2>5 DEF RowsBelong, SelectedSource
  <2>7. \A k \in Kinds : cleared[k].loading = TRUE =>
           \E r \in resourceFetches : r.kind = k /\ r.version = cleared[k].version
    BY <1>0, <2>4, <2>5
  <2> HIDE DEF cleared
  <2>8. CASE metricView = "promql"
    BY <1>0, <2>1, <2>3, <2>6, <2>7, <2>8
    DEF ListsAreWhole, RowsBelong, LoadsEnd, FetchUnderWay
  <2>9. CASE metricView # "promql"
    <3>1. metricView \in Kinds /\ LoadMetricResource(metricView, s, cleared)
      BY <2>1, <2>2, <2>9
    <3>2. cleared[metricView].loading = FALSE
      BY <2>1, <2>4, <3>1
    <3>3. metricView' \in Kinds \cup {"promql"}
      BY <2>1, <2>2
    <3> QED BY <1>0, <2>3, <2>6, <2>7, <3>1, <3>2, <3>3, LoadStep
  <2> QED BY <2>8, <2>9
<1>6. ASSUME NEW s \in AlertmanagerIds, ChangeMetricAlertmanager(s)
      PROVE  ListsInv'
  <2> DEFINE cleared == [metricResources EXCEPT !["alerts"] = ClearMetricResource(@)]
  <2>1. /\ selectedAlertmanager' = s /\ selectedPrometheus' = selectedPrometheus
        /\ metricView' = metricView /\ "alerts" \in Kinds
        /\ LoadMetricResource("alerts", s, cleared)
    BY <1>6 DEF ChangeMetricAlertmanager
  <2>2. metricResources \in [Kinds -> List] /\ metricView' \in Kinds \cup {"promql"}
    BY <1>0, <2>1 DEF ListsAreWhole
  <2>3. cleared \in [Kinds -> List] /\ cleared["alerts"].loading = FALSE
    BY <2>1, <2>2, ClearedList
  <2>4. \A k \in Kinds \ {"alerts"} : cleared[k] = metricResources[k]
    BY <2>2
  <2>5. \A k \in Kinds \ {"alerts"} : cleared[k].rows \in {None, SelectedSource(k)'}
    BY <1>0, <2>1, <2>4 DEF RowsBelong, SelectedSource
  <2>6. \A k \in Kinds \ {"alerts"} : cleared[k].loading = TRUE =>
           \E r \in resourceFetches : r.kind = k /\ r.version = cleared[k].version
    BY <1>0, <2>4
  <2> HIDE DEF cleared
  <2> QED BY <1>0, <2>1, <2>2, <2>3, <2>5, <2>6, LoadStep
<1> QED
  BY <1>1, <1>2, <1>3, <1>4, <1>5, <1>6 DEF MetricNext, MetricUser, MetricBrowser, PanelMoves

(***************************************************************************)
(* The panels.                                                             *)
(***************************************************************************)
SearchesEnd == \A p \in queryPanels : panels[p].searching = TRUE =>
  \/ panels[p].timer = TRUE
  \/ \E r \in searches : r.panel = p /\ SearchIsCurrent(r)

PanelsInv ==
  /\ PanelsAreWhole /\ SearchesAreWhole /\ MetadataIsWhole /\ Fresh /\ SearchesEnd
  /\ \A p \in queryPanels : PanelBelongs(p)

\* One opened panel changes, with the searches it needs still under way.
LEMMA PanelStep ==
  ASSUME PanelsInv, NEW p \in PanelIds, p < nextQueryPanelId, NEW q \in Panel,
         panels' = [panels EXCEPT ![p] = q],
         UNCHANGED <<selectedPrometheus, queryPanels, nextQueryPanelId>>,
         SearchesAreWhole', MetadataIsWhole',
         q.timer = TRUE => q.keyword # None /\ selectedPrometheus # None,
         p \in queryPanels => q.table \in {None, selectedPrometheus},
         p \in queryPanels => q.suggestions \in {None, <<selectedPrometheus, q.keyword>>},
         \A r \in searches : r.panel # p => r \in searches',
         p \in queryPanels /\ q.searching = TRUE =>
           \/ q.timer = TRUE
           \/ \E r \in searches' : /\ r.panel = p /\ r.version = q.version
                                   /\ r.source = selectedPrometheus /\ r.keyword = q.keyword
  PROVE  PanelsInv'
<1> USE DEF PanelsInv
<1>1. /\ panels'[p] = q /\ panels' \in [PanelIds -> Panel]
      /\ \A o \in PanelIds : o # p => panels'[o] = panels[o]
  BY DEF PanelsAreWhole
<1>2. PanelsAreWhole'
  BY <1>1 DEF PanelsAreWhole
<1>3. Fresh'
  BY <1>1 DEF Fresh, PanelsAreWhole, PanelIds
<1>4. \A o \in queryPanels : PanelBelongs(o)'
  BY <1>1 DEF PanelBelongs, PanelsAreWhole
<1>5. SearchesEnd'
  <2> SUFFICES ASSUME NEW o \in queryPanels, panels'[o].searching = TRUE
               PROVE  \/ panels'[o].timer = TRUE
                      \/ \E r \in searches' : r.panel = o /\ SearchIsCurrent(r)'
    BY DEF SearchesEnd
  <2>1. CASE o = p
    BY <1>1, <2>1 DEF SearchIsCurrent
  <2>2. CASE o # p
    <3>1. panels'[o] = panels[o]
      BY <1>1, <2>2 DEF PanelsAreWhole
    <3>2. \A r \in searches : r.panel = o /\ SearchIsCurrent(r) =>
             r \in searches' /\ r.panel = o /\ SearchIsCurrent(r)'
      BY <2>2, <3>1 DEF SearchIsCurrent
    <3> QED BY <3>1, <3>2 DEF SearchesEnd
  <2> QED BY <2>1, <2>2
<1> QED BY <1>2, <1>3, <1>4, <1>5

\* What a page in order says of one of its panels.
LEMMA OnePanel ==
  ASSUME PanelsInv, NEW p \in PanelIds
  PROVE  /\ panels[p] \in Panel
         /\ panels[p].timer = TRUE => panels[p].keyword # None /\ selectedPrometheus # None
         /\ p \in queryPanels => /\ panels[p].table \in {None, selectedPrometheus}
                                 /\ panels[p].suggestions \in {None, <<selectedPrometheus, panels[p].keyword>>}
         /\ p \in queryPanels /\ panels[p].searching = TRUE =>
              \/ panels[p].timer = TRUE
              \/ \E r \in searches : /\ r.panel = p /\ r.version = panels[p].version
                                     /\ r.source = selectedPrometheus /\ r.keyword = panels[p].keyword
BY DEF PanelsInv, PanelsAreWhole, PanelBelongs, SearchesEnd, SearchIsCurrent

LEMMA UpdateStep ==
  ASSUME SelectionIsWhole, PanelsInv, NEW p \in queryPanels, NEW keyword \in Keywords \cup {None},
         NEW typed \in BOOLEAN, UpdateMetricQuerySuggestions(p, keyword, typed)
  PROVE  PanelsInv'
<1> DEFINE old == panels[p]
           typedPanel == PanelTyped(old, keyword)
           q == IF typed THEN [typedPanel EXCEPT !.table = None] ELSE typedPanel
<1>1. p \in PanelIds /\ p < nextQueryPanelId
  BY DEF PanelsInv, PanelsAreWhole
<1>2. /\ old \in Panel /\ old.table \in {None, selectedPrometheus}
      /\ old.table \in PrometheusIds \cup {None}
  BY <1>1, OnePanel DEF Panel
<1>3. panels' = [panels EXCEPT ![p] = q]
  BY Zenon DEF UpdateMetricQuerySuggestions
<1>4. typedPanel = PanelTyped(old, keyword)
  OBVIOUS
<1> HIDE DEF typedPanel, old
<1>5. /\ typedPanel \in Panel /\ (typedPanel.searching = TRUE => typedPanel.timer = TRUE)
      /\ typedPanel.keyword = keyword /\ typedPanel.suggestions = Cached(keyword)
      /\ typedPanel.table = old.table
      /\ typedPanel.timer = TRUE => keyword # None /\ selectedPrometheus # None
  <2> DEFINE n == old.version + 1
             c == Cached(keyword)
             cleared == [old EXCEPT !.version = n, !.keyword = keyword, !.searching = FALSE,
                                      !.timer = FALSE, !.suggestions = c]
  <2>1. n \in Nat
    BY <1>2 DEF Panel
  <2>2. c \in (PrometheusIds \X Keywords) \cup {None}
    BY DEF Cached, SelectionIsWhole
  <2>3. /\ cleared \in Panel /\ cleared.searching = FALSE /\ cleared.timer = FALSE
        /\ cleared.keyword = keyword /\ cleared.suggestions = c /\ cleared.table = old.table
    <3> HIDE DEF n, c
    <3> QED BY <1>2, <2>1, <2>2 DEF Panel
  <2>4. typedPanel = IF keyword # None /\ selectedPrometheus # None /\ c = None
            THEN [cleared EXCEPT !.searching = TRUE, !.timer = TRUE] ELSE cleared
    BY <1>4 DEF PanelTyped
  <2>5. c = Cached(keyword)
    OBVIOUS
  <2> HIDE DEF n, c, cleared
  <2>6. CASE keyword # None /\ selectedPrometheus # None /\ c = None
    <3>1. typedPanel = [cleared EXCEPT !.searching = TRUE, !.timer = TRUE]
      BY <2>4, <2>6
    <3> QED BY <2>3, <2>5, <2>6, <3>1 DEF Panel
  <2>7. CASE ~(keyword # None /\ selectedPrometheus # None /\ c = None)
    <3>1. typedPanel = cleared
      BY <2>4, <2>7
    <3> QED BY <2>3, <2>5, <3>1
  <2> QED BY <2>6, <2>7
<1>6. /\ UNCHANGED <<selectedPrometheus, queryPanels, nextQueryPanelId, searches>>
      /\ LoadMetricMetadata(p, keyword)
  BY DEF UpdateMetricQuerySuggestions, Selection
<1>7. MetadataIsWhole'
  BY <1>1, <1>6 DEF LoadMetricMetadata, MetadataIsWhole, PanelsInv, SelectionIsWhole
<1>8. SearchesAreWhole'
  BY <1>6 DEF SearchesAreWhole, PanelsInv
<1>9. /\ q \in Panel /\ q.table \in {None, selectedPrometheus} /\ q.timer = typedPanel.timer
      /\ q.searching = typedPanel.searching /\ q.keyword = typedPanel.keyword
      /\ q.suggestions = typedPanel.suggestions
  BY <1>2, <1>5 DEF Panel
<1> HIDE DEF q
<1>10. q.suggestions \in {None, <<selectedPrometheus, q.keyword>>}
  BY <1>5, <1>9, CachedIsOwn
<1> QED BY <1>1, <1>3, <1>5, <1>6, <1>7, <1>8, <1>9, <1>10, PanelStep

LEMMA SearchStep ==
  ASSUME SelectionIsWhole, PanelsInv, NEW p \in PanelIds, SearchMetricNames(p)
  PROVE  PanelsInv'
<1> DEFINE old == panels[p]
<1>1. old \in Panel /\ old.timer = TRUE /\ old.keyword # None /\ selectedPrometheus # None
  BY OnePanel DEF SearchMetricNames, Panel
<1>2. p < nextQueryPanelId
  <2>1. MetricQueryPanel(None).timer = FALSE
    BY NewPanel
  <2>2. ~(p >= nextQueryPanelId)
    BY <1>1, <2>1 DEF PanelsInv, Fresh
  <2> QED BY <2>2 DEF PanelsInv, PanelsAreWhole, PanelIds
<1>3. UNCHANGED <<selectedPrometheus, queryPanels, nextQueryPanelId, metricMetadata>>
  BY DEF SearchMetricNames, Selection
<1>4. MetadataIsWhole'
  BY <1>3 DEF MetadataIsWhole, PanelsInv
<1>5. /\ old.keyword \in Keywords /\ selectedPrometheus \in PrometheusIds /\ old.version \in Nat
      /\ Cached(old.keyword) \in (PrometheusIds \X Keywords) \cup {None}
      /\ Cached(old.keyword) \in {None, <<selectedPrometheus, old.keyword>>}
  BY <1>1 DEF SelectionIsWhole, Cached, Panel
<1>6. CASE Cached(old.keyword) # None
  <2> DEFINE c == Cached(old.keyword)
             q == [old EXCEPT !.timer = FALSE, !.searching = FALSE, !.suggestions = c]
  <2>1. panels' = [panels EXCEPT ![p].timer = FALSE, ![p].searching = FALSE, ![p].suggestions = c]
        /\ searches' = searches
    BY <1>6 DEF SearchMetricNames
  <2> HIDE DEF c
  <2>2. panels' = [panels EXCEPT ![p] = q]
    BY <2>1
  <2>3. c \in (PrometheusIds \X Keywords) \cup {None} /\ c \in {None, <<selectedPrometheus, old.keyword>>}
    BY <1>5 DEF c
  <2>4. /\ q \in Panel /\ q.timer = FALSE /\ q.searching = FALSE /\ q.suggestions = c
        /\ q.keyword = old.keyword /\ q.table = old.table
    BY <1>1, <2>3 DEF Panel
  <2>5. SearchesAreWhole'
    BY <1>3, <2>1 DEF SearchesAreWhole, PanelsInv
  <2>6. p \in queryPanels => old.table \in {None, selectedPrometheus}
    BY OnePanel
  <2> HIDE DEF q, old
  <2> QED BY <1>2, <1>3, <1>4, <2>1, <2>2, <2>3, <2>4, <2>5, <2>6, PanelStep
<1>7. CASE Cached(old.keyword) = None
  <2> DEFINE r == [panel |-> p, source |-> selectedPrometheus, keyword |-> old.keyword, version |-> old.version]
             q == [old EXCEPT !.timer = FALSE]
  <2>1. panels' = [panels EXCEPT ![p] = q] /\ searches' = searches \cup {r}
    BY <1>7 DEF SearchMetricNames
  <2>2. r \in Search /\ r.panel = p /\ r.source = selectedPrometheus
        /\ r.keyword = old.keyword /\ r.version = old.version
    BY <1>5 DEF Search
  <2>3. /\ q \in Panel /\ q.timer = FALSE /\ q.suggestions = old.suggestions
        /\ q.keyword = old.keyword /\ q.table = old.table /\ q.version = old.version
    BY <1>1 DEF Panel
  <2> HIDE DEF r, q
  <2>4. SearchesAreWhole'
    BY <1>2, <1>3, <2>1, <2>2 DEF SearchesAreWhole, PanelsInv
  <2>5. p \in queryPanels => /\ old.table \in {None, selectedPrometheus}
                            /\ old.suggestions \in {None, <<selectedPrometheus, old.keyword>>}
    BY OnePanel
  <2> HIDE DEF old
  <2> QED BY <1>2, <1>3, <1>4, <2>1, <2>2, <2>3, <2>4, <2>5, PanelStep
<1> QED BY <1>6, <1>7

LEMMA AnswerStep ==
  ASSUME SelectionIsWhole, PanelsInv, NEW r \in searches, NEW ok \in BOOLEAN, SearchAnswered(r, ok)
  PROVE  PanelsInv'
<1> DEFINE p == r.panel
           old == panels[p]
           c == IF ok THEN <<r.source, r.keyword>> ELSE None
           q == IF SearchIsCurrent(r) THEN [old EXCEPT !.searching = FALSE, !.suggestions = c] ELSE old
<1>1. /\ p \in PanelIds /\ p < nextQueryPanelId /\ r.source \in PrometheusIds /\ r.keyword \in Keywords
  BY DEF PanelsInv, SearchesAreWhole, Search
<1>2. old \in Panel /\ panels \in [PanelIds -> Panel]
  BY <1>1, OnePanel DEF PanelsInv, PanelsAreWhole
<1>3. /\ UNCHANGED <<selectedPrometheus, queryPanels, nextQueryPanelId, metricMetadata>>
      /\ searches' = searches \ {r}
  BY DEF SearchAnswered, Selection
<1>4. MetadataIsWhole' /\ SearchesAreWhole'
  BY <1>3 DEF MetadataIsWhole, SearchesAreWhole, PanelsInv
<1>5. c \in (PrometheusIds \X Keywords) \cup {None}
  BY <1>1
<1>6. CASE SearchIsCurrent(r)
  <2>1. c \in {None, <<selectedPrometheus, old.keyword>>}
    BY <1>6 DEF SearchIsCurrent
  <2>2. panels' = [panels EXCEPT ![r.panel].searching = FALSE, ![r.panel].suggestions = c]
    BY <1>6, Zenon DEF SearchAnswered
  <2> HIDE DEF c
  <2> DEFINE s == [old EXCEPT !.searching = FALSE, !.suggestions = c]
  <2>3. panels' = [panels EXCEPT ![p] = s]
    BY <2>2
  <2>4. /\ s \in Panel /\ s.timer = old.timer /\ s.searching = FALSE /\ s.suggestions = c
        /\ s.keyword = old.keyword /\ s.table = old.table
    BY <1>2, <1>5 DEF Panel
  <2>5. /\ old.timer = TRUE => old.keyword # None /\ selectedPrometheus # None
        /\ p \in queryPanels => old.table \in {None, selectedPrometheus}
    BY <1>1, OnePanel
  <2>6. \A t \in searches : t.panel # p => t \in searches'
    BY <1>3
  <2> HIDE DEF s, old, p
  <2> QED BY <1>1, <1>3, <1>4, <2>1, <2>3, <2>4, <2>5, <2>6, PanelStep
<1>7. CASE ~SearchIsCurrent(r)
  <2>1. panels' = panels
    BY <1>7 DEF SearchAnswered
  <2>2. PanelsAreWhole' /\ Fresh' /\ \A o \in queryPanels : PanelBelongs(o)'
    BY <1>3, <2>1 DEF PanelsInv, PanelsAreWhole, Fresh, PanelBelongs
  <2>3. SearchesEnd'
    BY <1>3, <1>7, <2>1 DEF PanelsInv, SearchesEnd, SearchIsCurrent
  <2> QED BY <1>3, <1>4, <2>2, <2>3 DEF PanelsInv
<1> QED BY <1>6, <1>7

LEMMA MetadataStep ==
  ASSUME SelectionIsWhole, PanelsInv, NEW s \in PrometheusIds, NEW ok \in BOOLEAN, MetadataAnswered(s, ok)
  PROVE  PanelsInv'
<1> DEFINE m == metricMetadata[s]
           p == m.panel
           old == panels[p]
           c == Cached(m.keyword)
<1>1. m.state = "loading" /\ p \in PanelIds /\ p < nextQueryPanelId
  BY DEF MetadataAnswered, PanelsInv, MetadataIsWhole
<1>2. old \in Panel
  BY <1>1, OnePanel
<1>3. UNCHANGED <<selectedPrometheus, queryPanels, nextQueryPanelId, searches>>
  BY DEF MetadataAnswered, Selection
<1>4. MetadataIsWhole' /\ SearchesAreWhole'
  BY <1>3 DEF MetadataAnswered, MetadataIsWhole, SearchesAreWhole, PanelsInv
<1>5. CASE panels[m.panel].keyword = m.keyword /\ selectedPrometheus = s
  <2>1. panels' = [panels EXCEPT ![m.panel].suggestions = c]
    BY <1>5, Zenon DEF MetadataAnswered
  <2>2. /\ c \in (PrometheusIds \X Keywords) \cup {None}
        /\ c \in {None, <<selectedPrometheus, old.keyword>>}
    BY <1>5 DEF Cached, SelectionIsWhole
  <2> HIDE DEF c
  <2> DEFINE q == [old EXCEPT !.suggestions = c]
  <2>3. panels' = [panels EXCEPT ![p] = q]
    BY <2>1
  <2>4. /\ q \in Panel /\ q.timer = old.timer /\ q.searching = old.searching /\ q.suggestions = c
        /\ q.keyword = old.keyword /\ q.table = old.table /\ q.version = old.version
    BY <1>2, <2>2 DEF Panel
  <2>5. /\ old.timer = TRUE => old.keyword # None /\ selectedPrometheus # None
        /\ p \in queryPanels => old.table \in {None, selectedPrometheus}
        /\ p \in queryPanels /\ old.searching = TRUE =>
              \/ old.timer = TRUE
              \/ \E r \in searches : /\ r.panel = p /\ r.version = old.version
                                     /\ r.source = selectedPrometheus /\ r.keyword = old.keyword
    BY <1>1, OnePanel
  <2> HIDE DEF q, old, p
  <2> QED BY <1>1, <1>3, <1>4, <2>2, <2>3, <2>4, <2>5, PanelStep
<1>6. CASE ~(panels[m.panel].keyword = m.keyword /\ selectedPrometheus = s)
  <2>1. panels' = panels
    BY <1>6 DEF MetadataAnswered
  <2> QED
    BY <1>3, <1>4, <2>1
    DEF PanelsInv, PanelsAreWhole, Fresh, PanelBelongs, SearchesEnd, SearchIsCurrent
<1> QED BY <1>5, <1>6

\* A change of what a panel runs or of its table, to the selected source's or none.
LEMMA TableStep ==
  ASSUME PanelsInv, NEW p \in PanelIds, p < nextQueryPanelId,
         NEW running \in PrometheusIds \cup {None}, NEW table \in PrometheusIds \cup {None},
         table \in {None, selectedPrometheus} \/ table = panels[p].table,
         panels' = [panels EXCEPT ![p].running = running, ![p].table = table],
         UNCHANGED <<selectedPrometheus, queryPanels, nextQueryPanelId, Lookups>>
  PROVE  PanelsInv'
<1> DEFINE old == panels[p]
           q == [old EXCEPT !.running = running, !.table = table]
<1>1. old \in Panel
  BY OnePanel
<1>2. panels' = [panels EXCEPT ![p] = q]
  OBVIOUS
<1>3. /\ q \in Panel /\ q.timer = old.timer /\ q.searching = old.searching /\ q.table = table
      /\ q.suggestions = old.suggestions /\ q.keyword = old.keyword /\ q.version = old.version
  BY <1>1 DEF Panel
<1>4. MetadataIsWhole' /\ SearchesAreWhole' /\ searches' = searches
  BY DEF MetadataIsWhole, SearchesAreWhole, PanelsInv, Lookups
<1>5. /\ old.timer = TRUE => old.keyword # None /\ selectedPrometheus # None
      /\ p \in queryPanels => table \in {None, selectedPrometheus}
      /\ p \in queryPanels => old.suggestions \in {None, <<selectedPrometheus, old.keyword>>}
      /\ p \in queryPanels /\ old.searching = TRUE =>
            \/ old.timer = TRUE
            \/ \E r \in searches : /\ r.panel = p /\ r.version = old.version
                                   /\ r.source = selectedPrometheus /\ r.keyword = old.keyword
  BY OnePanel
<1> HIDE DEF q, old
<1>6. /\ q.timer = TRUE => q.keyword # None /\ selectedPrometheus # None
      /\ p \in queryPanels => q.table \in {None, selectedPrometheus}
      /\ p \in queryPanels => q.suggestions \in {None, <<selectedPrometheus, q.keyword>>}
  BY <1>3, <1>5
<1>7. p \in queryPanels /\ q.searching = TRUE =>
        \/ q.timer = TRUE
        \/ \E r \in searches' : /\ r.panel = p /\ r.version = q.version
                                /\ r.source = selectedPrometheus /\ r.keyword = q.keyword
  BY <1>3, <1>4, <1>5
<1>8. \A r \in searches : r.panel # p => r \in searches'
  BY <1>4
<1>9. q \in Panel
  BY <1>3
<1> QED BY <1>2, <1>4, <1>6, <1>7, <1>8, <1>9, PanelStep

LEMMA RunStep ==
  ASSUME SelectionIsWhole, PanelsInv,
         \/ \E p \in queryPanels : \/ SelectMetricQuerySuggestion(p)
                                 \/ \E empty \in BOOLEAN : ExecuteMetricQuery(p, empty)
         \/ \E p \in PanelIds, ok \in BOOLEAN : QueryAnswered(p, ok)
  PROVE  PanelsInv'
<1>0. panels \in [PanelIds -> Panel] /\ \A p \in queryPanels : p \in PanelIds /\ p < nextQueryPanelId
  BY DEF PanelsInv, PanelsAreWhole
<1>1. ASSUME NEW p \in PanelIds, p < nextQueryPanelId,
             \/ panels' = [panels EXCEPT ![p].table = None]
             \/ /\ panels' = [panels EXCEPT ![p].running = selectedPrometheus]
                /\ selectedPrometheus # None,
             UNCHANGED <<Selection, queryPanels, nextQueryPanelId, Lookups>>
      PROVE  PanelsInv'
  <2>1. /\ panels[p] \in Panel /\ panels[p].running \in PrometheusIds \cup {None}
        /\ panels[p].table \in PrometheusIds \cup {None}
    BY <1>0 DEF Panel
  <2>2. UNCHANGED <<selectedPrometheus, queryPanels, nextQueryPanelId, Lookups>>
    BY <1>1 DEF Selection
  <2>3. CASE panels' = [panels EXCEPT ![p].table = None]
    <3>1. panels' = [panels EXCEPT ![p].running = panels[p].running, ![p].table = None]
      BY <1>0, <2>1, <2>3 DEF Panel
    <3> QED BY <1>1, <2>1, <2>2, <3>1, TableStep
  <2>4. CASE panels' = [panels EXCEPT ![p].running = selectedPrometheus]
    <3>1. panels' = [panels EXCEPT ![p].running = selectedPrometheus, ![p].table = panels[p].table]
      BY <1>0, <2>1, <2>4 DEF Panel
    <3>2. selectedPrometheus \in PrometheusIds \cup {None}
      BY DEF SelectionIsWhole
    <3> QED BY <1>1, <2>1, <2>2, <3>1, <3>2, TableStep
  <2> QED BY <1>1, <2>3, <2>4
<1>2. ASSUME NEW p \in queryPanels, SelectMetricQuerySuggestion(p)
      PROVE  PanelsInv'
  BY <1>0, <1>1, <1>2 DEF SelectMetricQuerySuggestion
<1>3. ASSUME NEW p \in queryPanels, NEW empty \in BOOLEAN, ExecuteMetricQuery(p, empty)
      PROVE  PanelsInv'
  <2>1. \/ panels' = [panels EXCEPT ![p].table = None]
        \/ /\ panels' = [panels EXCEPT ![p].running = selectedPrometheus]
           /\ selectedPrometheus # None
    BY <1>3, Zenon DEF ExecuteMetricQuery
  <2> QED BY <1>0, <1>1, <1>3, <2>1 DEF ExecuteMetricQuery
<1>4. ASSUME NEW p \in PanelIds, NEW ok \in BOOLEAN, QueryAnswered(p, ok)
      PROVE  PanelsInv'
  <2> DEFINE table == IF ok /\ selectedPrometheus = panels[p].running THEN panels[p].running ELSE None
  <2>1. /\ panels[p].running # None
        /\ panels' = [panels EXCEPT ![p].running = None, ![p].table = table]
        /\ UNCHANGED <<Selection, queryPanels, nextQueryPanelId, Lookups>>
    BY <1>4 DEF QueryAnswered
  <2>2. table \in {None, selectedPrometheus} /\ table \in PrometheusIds \cup {None}
    BY <1>0 DEF Panel
  <2>3. p < nextQueryPanelId
    <3>1. MetricQueryPanel(None).running = None
      BY NewPanel
    <3>2. ~(p >= nextQueryPanelId)
      BY <2>1, <3>1 DEF PanelsInv, Fresh
    <3> QED BY <3>2 DEF PanelsInv, PanelsAreWhole, PanelIds
  <2> HIDE DEF table
  <2> QED BY <2>1, <2>2, <2>3, TableStep DEF Selection
<1> QED BY <1>2, <1>3, <1>4

LEMMA AddStep ==
  ASSUME PanelsInv, AddMetricQueryPanel PROVE PanelsInv'
<1> USE DEF PanelsInv
<1>1. /\ nextQueryPanelId \in PanelIds /\ queryPanels' = queryPanels \cup {nextQueryPanelId}
      /\ nextQueryPanelId' = nextQueryPanelId + 1 /\ nextQueryPanelId \in Nat \ {0}
      /\ UNCHANGED <<selectedPrometheus, panels, metricMetadata, searches>>
      /\ PanelIds \subseteq Nat
  BY MetricAssumption DEF AddMetricQueryPanel, Selection, Lookups, PanelsAreWhole, PanelIds
<1>2. panels[nextQueryPanelId] = MetricQueryPanel(None)
  BY <1>1 DEF Fresh
<1>3. /\ MetricQueryPanel(None).searching = FALSE
      /\ MetricQueryPanel(None).table = None /\ MetricQueryPanel(None).suggestions = None
  BY NewPanel
<1>4. nextQueryPanelId < nextQueryPanelId' /\ \A p \in PanelIds : p < nextQueryPanelId => p < nextQueryPanelId'
  BY <1>1
<1>5. PanelsAreWhole'
  <2>1. nextQueryPanelId' \in Nat \ {0}
    BY <1>1
  <2>2. \A p \in queryPanels' : p \in PanelIds /\ p < nextQueryPanelId'
    BY <1>1, <1>4 DEF PanelsAreWhole
  <2> QED BY <1>1, <2>1, <2>2 DEF PanelsAreWhole
<1>6. SearchesAreWhole'
  <2>1. \A r \in searches : r.panel \in PanelIds
    BY DEF SearchesAreWhole, Search
  <2> QED BY <1>1, <1>4, <2>1 DEF SearchesAreWhole
<1>7. MetadataIsWhole'
  BY <1>1, <1>4 DEF MetadataIsWhole
<1>8. Fresh'
  BY <1>1 DEF Fresh
<1>9. SearchesEnd'
  BY <1>1, <1>2, <1>3 DEF SearchesEnd, SearchIsCurrent
<1>10. (\A p \in queryPanels : PanelBelongs(p))'
  BY <1>1, <1>2, <1>3 DEF PanelBelongs
<1> QED BY <1>5, <1>6, <1>7, <1>8, <1>9, <1>10

LEMMA RemoveStep ==
  ASSUME PanelsInv, NEW p \in queryPanels, RemoveMetricQueryPanel(p) PROVE PanelsInv'
<1> USE DEF PanelsInv
<1> DEFINE n == panels[p].version + 1
           q == [MetricQueryPanel(None) EXCEPT !.version = n]
<1>1. /\ queryPanels' = queryPanels \ {p} /\ panels' = [panels EXCEPT ![p] = q]
      /\ UNCHANGED <<selectedPrometheus, nextQueryPanelId, metricMetadata, searches>>
  BY DEF RemoveMetricQueryPanel, Selection, Lookups
<1>2. /\ p \in PanelIds /\ p < nextQueryPanelId /\ panels \in [PanelIds -> Panel]
      /\ \A o \in PanelIds : o # p => panels'[o] = panels[o]
  BY <1>1 DEF PanelsAreWhole
<1>3. n \in Nat
  BY <1>2 DEF Panel
<1> HIDE DEF n
<1>4. q \in Panel /\ q.timer = FALSE
  <2> DEFINE new == MetricQueryPanel(None)
  <2>1. new \in Panel /\ new.timer = FALSE
    BY NewPanel
  <2> HIDE DEF new
  <2>2. q = [new EXCEPT !.version = n]
    BY DEF new
  <2> QED BY <1>3, <2>1, <2>2 DEF Panel
<1> HIDE DEF q
<1>5. PanelsAreWhole'
  BY <1>1, <1>2, <1>4 DEF PanelsAreWhole
<1>6. SearchesAreWhole' /\ MetadataIsWhole'
  BY <1>1 DEF SearchesAreWhole, MetadataIsWhole
<1>7. Fresh'
  BY <1>1, <1>2 DEF Fresh, PanelsAreWhole, PanelIds
<1>8. SearchesEnd'
  BY <1>1, <1>2 DEF SearchesEnd, SearchIsCurrent, PanelsAreWhole
<1>9. (\A o \in queryPanels : PanelBelongs(o))'
  BY <1>1, <1>2 DEF PanelBelongs, PanelsAreWhole
<1> QED BY <1>5, <1>6, <1>7, <1>8, <1>9

LEMMA SourceStep ==
  ASSUME SelectionIsWhole, PanelsInv, NEW s \in PrometheusIds, ChangeMetricPrometheus(s)
  PROVE  PanelsInv'
<1> USE DEF PanelsInv
<1>1. /\ selectedPrometheus' = s /\ s # None
      /\ panels' = [p \in PanelIds |-> IF p \in queryPanels THEN PanelOfNewSource(panels[p]) ELSE panels[p]]
      /\ UNCHANGED <<queryPanels, nextQueryPanelId, metricMetadata, searches>>
  BY MetricAssumption DEF ChangeMetricPrometheus
<1>2. panels \in [PanelIds -> Panel] /\ \A p \in queryPanels : p \in PanelIds /\ p < nextQueryPanelId
  BY DEF PanelsAreWhole
<1>3. \A p \in queryPanels : /\ panels'[p] \in Panel /\ panels'[p].timer = FALSE
                             /\ panels'[p].searching = FALSE /\ panels'[p].table = None
                             /\ panels'[p].suggestions = None
  BY <1>1, <1>2, ClosedPanel
<1>4. \A p \in PanelIds \ queryPanels : panels'[p] = panels[p]
  BY <1>1
<1>5. panels' \in [PanelIds -> Panel]
  <2>1. \A p \in PanelIds : (IF p \in queryPanels THEN PanelOfNewSource(panels[p]) ELSE panels[p]) \in Panel
    BY <1>1, <1>2, <1>3
  <2> QED BY <1>1, <2>1
<1>6. \A p \in PanelIds : panels'[p].timer = TRUE => panels'[p].keyword # None
  BY <1>3, <1>4 DEF PanelsAreWhole
<1>7. PanelsAreWhole'
  BY <1>1, <1>2, <1>5, <1>6 DEF PanelsAreWhole
<1>8. SearchesAreWhole' /\ MetadataIsWhole'
  BY <1>1 DEF SearchesAreWhole, MetadataIsWhole
<1>9. Fresh'
  BY <1>1, <1>2, <1>4 DEF Fresh, PanelIds, PanelsAreWhole
<1>10. SearchesEnd'
  BY <1>1, <1>3 DEF SearchesEnd
<1>11. (\A p \in queryPanels : PanelBelongs(p))'
  BY <1>1, <1>3 DEF PanelBelongs
<1> QED BY <1>7, <1>8, <1>9, <1>10, <1>11

LEMMA PanelsStep ==
  SelectionIsWhole /\ PanelsInv /\ [MetricNext]_metricVars => PanelsInv'
<1> SUFFICES ASSUME SelectionIsWhole, PanelsInv, [MetricNext]_metricVars PROVE PanelsInv'
  OBVIOUS
<1>1. CASE PanelMoves
  BY <1>1, AddStep, RemoveStep, UpdateStep, RunStep, SearchStep, AnswerStep, MetadataStep
  DEF PanelMoves
<1>2. CASE \E s \in PrometheusIds : ChangeMetricPrometheus(s)
  BY <1>2, SourceStep
<1>3. ASSUME \/ \E view \in Kinds \cup {"promql"} : ChangeMetricView(view)
             \/ \E kind \in Kinds : RefreshMetricResource(kind)
             \/ \E s \in AlertmanagerIds : ChangeMetricAlertmanager(s)
             \/ \E r \in resourceFetches, ok \in BOOLEAN : ResourceAnswered(r, ok)
             \/ UNCHANGED metricVars
      PROVE  PanelsInv'
  <2>1. UNCHANGED <<selectedPrometheus, PanelState, Lookups>>
    BY <1>3, Zenon DEF ChangeMetricView, RefreshMetricResource, ChangeMetricAlertmanager,
                       ResourceAnswered, metricVars, Selection, PanelState, Lookups
  <2> QED
    BY <2>1 DEF PanelState, Lookups, PanelsInv, PanelsAreWhole, SearchesAreWhole, MetadataIsWhole,
                Fresh, PanelBelongs, SearchesEnd, SearchIsCurrent
<1> QED
  BY <1>1, <1>2, <1>3 DEF MetricNext, MetricUser, MetricBrowser, PanelMoves

(***************************************************************************)
(* The page.                                                               *)
(***************************************************************************)
PageInv == SelectionIsWhole /\ ListsInv /\ PanelsInv

LEMMA PageStart == MetricInit => PageInv
<1> SUFFICES ASSUME MetricInit PROVE PageInv
  OBVIOUS
<1> USE MetricAssumption
<1>1. SelectionIsWhole
  BY DEF MetricInit, SelectionIsWhole
<1>2. MetricResourceState \in List /\ MetricResourceState.rows = None /\ MetricResourceState.loading = FALSE
  BY DEF MetricResourceState, List
<1>3. ListsInv
  BY <1>2 DEF MetricInit, ListsInv, ListsAreWhole, RowsBelong, LoadsEnd
<1>4. PICK table \in {None, selectedPrometheus} :
        panels = [p \in PanelIds |-> MetricQueryPanel(IF p = 1 THEN table ELSE None)]
  BY DEF MetricInit
<1>5. table \in PrometheusIds \cup {None}
  BY <1>1 DEF SelectionIsWhole
<1>6. /\ \A p \in PanelIds : panels[p] \in Panel /\ panels[p].timer = FALSE /\ panels[p].searching = FALSE
      /\ panels[1].table = table /\ panels[1].suggestions = None
      /\ \A p \in PanelIds : p >= 2 => panels[p] = MetricQueryPanel(None)
  <2>1. 1 \in PanelIds /\ PanelIds \subseteq Nat
    BY DEF PanelIds
  <2>2. panels[1] = MetricQueryPanel(table) /\ \A p \in PanelIds : p # 1 => panels[p] = MetricQueryPanel(None)
    BY <1>4, <2>1
  <2>3. \A t \in PrometheusIds \cup {None} :
          /\ MetricQueryPanel(t) \in Panel /\ MetricQueryPanel(t).timer = FALSE
          /\ MetricQueryPanel(t).searching = FALSE /\ MetricQueryPanel(t).table = t
          /\ MetricQueryPanel(t).suggestions = None
    BY NewPanel
  <2> QED BY <1>5, <2>1, <2>2, <2>3
<1>7. PanelsAreWhole
  <2>1. panels \in [PanelIds -> Panel]
    BY <1>4, <1>6
  <2>2. 1 \in PanelIds /\ queryPanels = {1} /\ nextQueryPanelId = 2
    BY DEF MetricInit, PanelIds
  <2> QED BY <1>6, <2>1, <2>2 DEF PanelsAreWhole
<1>8. SearchesAreWhole
  BY DEF MetricInit, SearchesAreWhole
<1>9. MetadataIsWhole
  BY DEF MetricInit, MetadataIsWhole
<1>10. Fresh
  BY <1>6 DEF MetricInit, Fresh
<1>11. SearchesEnd
  BY <1>6 DEF MetricInit, SearchesEnd, PanelIds
<1>12. \A p \in queryPanels : PanelBelongs(p)
  BY <1>6 DEF MetricInit, PanelBelongs
<1> QED BY <1>1, <1>3, <1>7, <1>8, <1>9, <1>10, <1>11, <1>12 DEF PageInv, PanelsInv

LEMMA SelectionStep ==
  SelectionIsWhole /\ PanelsInv /\ [MetricNext]_metricVars => SelectionIsWhole'
<1> SUFFICES ASSUME SelectionIsWhole, PanelsInv, [MetricNext]_metricVars PROVE SelectionIsWhole'
  OBVIOUS
<1>1. /\ selectedPrometheus' = selectedPrometheus \/ selectedPrometheus' \in PrometheusIds
      /\ selectedAlertmanager' = selectedAlertmanager \/ selectedAlertmanager' \in AlertmanagerIds
  BY PanelMovesKeepLists, Zenon
  DEF MetricNext, MetricUser, MetricBrowser, PanelMoves, ChangeMetricView, RefreshMetricResource,
      ResourceAnswered, ChangeMetricPrometheus, ChangeMetricAlertmanager, Selection
<1>2. \/ metricSearchCache' \subseteq metricSearchCache
      \/ \E r \in searches : metricSearchCache' \subseteq metricSearchCache \cup {<<r.source, r.keyword>>}
  <2>1. ASSUME NEW r \in searches, NEW ok \in BOOLEAN, SearchAnswered(r, ok)
        PROVE  metricSearchCache' \subseteq metricSearchCache \cup {<<r.source, r.keyword>>}
    BY <2>1 DEF SearchAnswered
  <2>2. ASSUME NEW s \in PrometheusIds, ChangeMetricPrometheus(s)
        PROVE  metricSearchCache' = {}
    BY <2>2 DEF ChangeMetricPrometheus
  <2>3. \/ \E r \in searches, ok \in BOOLEAN : SearchAnswered(r, ok)
        \/ \E s \in PrometheusIds : ChangeMetricPrometheus(s)
        \/ metricSearchCache' = metricSearchCache
    BY Zenon
    DEF MetricNext, MetricUser, MetricBrowser, metricVars, Lookups, AddMetricQueryPanel,
        RemoveMetricQueryPanel, UpdateMetricQuerySuggestions, SelectMetricQuerySuggestion,
        ExecuteMetricQuery, SearchMetricNames, QueryAnswered, MetadataAnswered, ChangeMetricView,
        RefreshMetricResource, ResourceAnswered, ChangeMetricAlertmanager
  <2> QED BY <2>1, <2>2, <2>3
<1>3. \A r \in searches : <<r.source, r.keyword>> \in PrometheusIds \X Keywords
  BY DEF PanelsInv, SearchesAreWhole, Search
<1> QED BY <1>1, <1>2, <1>3 DEF SelectionIsWhole

LEMMA PageStep == PageInv /\ [MetricNext]_metricVars => PageInv'
BY SelectionStep, ListsStep, PanelsStep DEF PageInv

\* Nothing on the page was read from a source other than the selected one, however
\* keys, answers and changes of the selects interleave (changeMetricPrometheus,
\* searchMetricNames, loadMetricResource, executeMetricQuery).
THEOREM NothingOfAnotherSource == MetricSpec => []AnswersBelong
<1>1. PageInv => AnswersBelong
  BY DEF PageInv, PanelsInv, ListsInv, RowsBelong, AnswersBelong
<1> QED
  BY <1>1, PageStart, PageStep, PTL DEF MetricSpec

\* A spinner of a panel or a list always has a request that will stop it, so an
\* overtaken request never locks the selects for good (metricSourceLocked).
THEOREM NothingSpinsForGood == MetricSpec => []SpinnerHasCause
<1>1. PageInv => SpinnerHasCause
  <2> SUFFICES ASSUME PageInv PROVE SpinnerHasCause
    OBVIOUS
  <2>1. ASSUME NEW p \in queryPanels, panels[p].searching PROVE SearchUnderWay(p)
    <3>1. panels[p].searching = TRUE
      BY <2>1 DEF PageInv, PanelsInv, PanelsAreWhole, Panel
    <3> QED BY <3>1 DEF PageInv, PanelsInv, SearchesEnd, SearchUnderWay
  <2>2. ASSUME NEW k \in Kinds, metricResources[k].loading PROVE FetchUnderWay(k)
    <3>1. metricResources[k].loading = TRUE
      BY <2>2 DEF PageInv, ListsInv, ListsAreWhole, List
    <3> QED BY <3>1 DEF PageInv, ListsInv, LoadsEnd
  <2> QED BY <2>1, <2>2 DEF SpinnerHasCause
<1> QED
  BY <1>1, PageStart, PageStep, PTL DEF MetricSpec
(***************************************************************************)
(* The dashboard.                                                          *)
(***************************************************************************)
\* The source menu is never open while a request is in flight, and nothing kept
\* from an earlier answer is of another source.
MenuStill ==
  /\ dashboardLoading => dashboardMenu # "prometheus" /\ ~dashboardError
  /\ dashboardData \in {NoSource, selectedDashboard}
  /\ selectedNodes \in {NoSource, selectedDashboard}

DashboardInv ==
  DashboardTypeOK /\ OneRequestForTheSelection /\ MenuStill /\ DashboardNeverBlank

\* What loadDashboard does when no request is in flight.
LEMMA LoadEffect ==
  ASSUME NEW s, NEW loaded, LoadDashboard(s, loaded), ~dashboardLoading
  PROVE  /\ dashboardLoaded' = loaded /\ dashboardLoading' = TRUE /\ dashboardError' = FALSE
         /\ dashboardVersion' = dashboardVersion + 1
         /\ dashboardFetches' = dashboardFetches \cup {[source |-> s, version |-> dashboardVersion + 1]}
BY Zenon DEF LoadDashboard

LEMMA DashboardStart == DashboardInit => DashboardInv
<1> SUFFICES ASSUME DashboardInit PROVE DashboardInv
  OBVIOUS
<1> USE DashboardAssumption DEF DashboardInit
<1>1. /\ selectedDashboard \in DashboardIds \cup {NoSource}
      /\ dashboardData \in DashboardIds \cup {NoSource}
      /\ selectedNodes \in DashboardIds \cup {NoSource}
  OBVIOUS
<1>2. dashboardLoaded \in BOOLEAN /\ dashboardLoading \in BOOLEAN /\ dashboardError \in BOOLEAN
  BY Zenon
<1>3. dashboardVersion \in Nat
  BY SMT
<1>4. dashboardMenu \in {"none", "prometheus", "pods"} /\ dashboardTab \in {"nodes", "pods"}
  OBVIOUS
<1>5. dashboardFetches \in SUBSET [source : DashboardIds, version : Nat]
  OBVIOUS
<1>6. DashboardTypeOK
  BY <1>1, <1>2, <1>3, <1>4, <1>5 DEF DashboardTypeOK
<1>7. OneRequestForTheSelection /\ MenuStill /\ DashboardNeverBlank
  BY DEF OneRequestForTheSelection, MenuStill, DashboardNeverBlank
<1> QED BY <1>6, <1>7 DEF DashboardInv

\* A request is sent for the source now selected, with the page emptied or not.
LEMMA RequestSent ==
  ASSUME DashboardInv, ~dashboardLoading,
         selectedDashboard' \in DashboardIds,
         LoadDashboard(selectedDashboard', dashboardLoaded')
           \/ LoadDashboard(selectedDashboard', FALSE),
         dashboardLoaded' \in BOOLEAN,
         dashboardData' \in {NoSource, selectedDashboard'},
         selectedNodes' \in {NoSource, selectedDashboard'},
         dashboardMenu' = "none", dashboardTab' = dashboardTab
  PROVE  DashboardInv'
<1> USE DEF DashboardInv
<1>1. /\ dashboardLoading' = TRUE /\ dashboardError' = FALSE
      /\ dashboardVersion' = dashboardVersion + 1
      /\ dashboardFetches' = dashboardFetches \cup
           {[source |-> selectedDashboard', version |-> dashboardVersion + 1]}
  BY LoadEffect
<1>2. dashboardFetches = {} /\ dashboardVersion \in Nat
  BY DEF OneRequestForTheSelection, DashboardTypeOK
<1>3. (dashboardFetches \in SUBSET [source : DashboardIds, version : Nat])'
  BY <1>1, <1>2
<1>4. (dashboardVersion \in Nat)'
  BY <1>1, <1>2
<1>5. (dashboardLoaded \in BOOLEAN /\ dashboardLoading \in BOOLEAN /\ dashboardError \in BOOLEAN)'
  BY <1>1
<1>6. /\ (selectedDashboard \in DashboardIds \cup {NoSource})'
      /\ (dashboardData \in DashboardIds \cup {NoSource})'
      /\ (selectedNodes \in DashboardIds \cup {NoSource})'
      /\ (dashboardMenu \in {"none", "prometheus", "pods"} /\ dashboardTab \in {"nodes", "pods"})'
  BY DEF DashboardTypeOK
<1>7. DashboardTypeOK'
  BY <1>3, <1>4, <1>5, <1>6 DEF DashboardTypeOK
<1>8. OneRequestForTheSelection'
  BY <1>1, <1>2 DEF OneRequestForTheSelection
<1>9. MenuStill' /\ DashboardNeverBlank'
  BY <1>1 DEF MenuStill, DashboardNeverBlank
<1> QED BY <1>7, <1>8, <1>9

\* No click and no answer breaks the invariant.
LEMMA DashboardStep == DashboardInv /\ [DashboardNext]_dashboardVars => DashboardInv'
<1> SUFFICES ASSUME DashboardInv, [DashboardNext]_dashboardVars PROVE DashboardInv'
  OBVIOUS
<1> USE DashboardAssumption
    DEF DashboardInv, DashboardTypeOK, OneRequestForTheSelection, MenuStill,
        DashboardNeverBlank, Shown, Fetching, HandleDocumentClick
<1>0. \A q, r \in dashboardFetches : q = r
  OBVIOUS
<1>1. ASSUME NEW r \in dashboardFetches, NEW hosts \in BOOLEAN, DashboardAnswered(r, hosts)
      PROVE  DashboardInv'
  BY <1>0, <1>1 DEF DashboardAnswered
<1>2. ASSUME NEW r \in dashboardFetches, DashboardFailed(r)
      PROVE  DashboardInv'
  BY <1>0, <1>2 DEF DashboardFailed
<1>3. CASE RefreshDashboard
  <2>1. LoadDashboard(selectedDashboard', dashboardLoaded) /\ ~dashboardLoading
    BY <1>3 DEF RefreshDashboard
  <2>2. dashboardLoaded' = dashboardLoaded
    BY <2>1, LoadEffect
  <2>3. /\ selectedDashboard' \in DashboardIds
        /\ dashboardData' \in {NoSource, selectedDashboard'}
        /\ selectedNodes' \in {NoSource, selectedDashboard'}
        /\ dashboardMenu' = "none" /\ dashboardTab' = dashboardTab
    BY <1>3 DEF RefreshDashboard
  <2> QED BY <2>1, <2>2, <2>3, RequestSent
<1>4. ASSUME NEW key \in {"prometheus", "pods"}, ToggleDashboardSelect(key)
      PROVE  DashboardInv'
  BY <1>4 DEF ToggleDashboardSelect
<1>5. CASE CloseDashboardSelect
  BY <1>5 DEF CloseDashboardSelect
<1>6. ASSUME NEW tab \in {"nodes", "pods"}, SetDashboardTab(tab)
      PROVE  DashboardInv'
  BY <1>6 DEF SetDashboardTab
<1>7. ASSUME NEW nodes \in {dashboardData, NoSource}, ChooseNodes(nodes)
      PROVE  DashboardInv'
  BY <1>7 DEF ChooseNodes
<1>8. ASSUME NEW s \in DashboardIds, ChangeDashboardPrometheus(s)
      PROVE  DashboardInv'
  <2>1. LoadDashboard(selectedDashboard', FALSE) /\ ~dashboardLoading
    BY <1>8 DEF ChangeDashboardPrometheus
  <2>2. dashboardLoaded' = FALSE
    BY <2>1, LoadEffect
  <2>3. /\ selectedDashboard' \in DashboardIds
        /\ dashboardData' \in {NoSource, selectedDashboard'}
        /\ selectedNodes' \in {NoSource, selectedDashboard'}
        /\ dashboardMenu' = "none" /\ dashboardTab' = dashboardTab
    BY <1>8 DEF ChangeDashboardPrometheus
  <2> QED BY <2>1, <2>2, <2>3, RequestSent
<1>9. CASE UNCHANGED dashboardVars
  BY <1>9 DEF dashboardVars
<1> QED
  BY <1>1, <1>2, <1>3, <1>4, <1>5, <1>6, <1>7, <1>8, <1>9 DEF DashboardNext

\* A dashboard at rest shows the selected source or an error, whatever clicks and
\* answers came in which order (loadDashboard, changeDashboardPrometheus).
THEOREM DashboardIsNeverBlank == DashboardSpec => []DashboardNeverBlank
<1>1. DashboardInv => DashboardNeverBlank
  BY DEF DashboardInv
<1> QED
  BY <1>1, DashboardStart, DashboardStep, PTL DEF DashboardSpec

(***************************************************************************)
(* The console.                                                            *)
(***************************************************************************)
ConsoleInv == ConsoleTypeOK /\ OnePoller /\ PollingGoesOn

LEMMA ConsoleStart == ConsoleInit => ConsoleInv
<1> SUFFICES ASSUME ConsoleInit PROVE ConsoleInv
  OBVIOUS
<1> USE DEF ConsoleInit
<1>1. loads \in [LoadSlots -> {"free", "lists", "rest"}] /\ active = {}
  OBVIOUS
<1>2. consoleLoading \in BOOLEAN /\ refreshing \in BOOLEAN /\ refreshTimer \in BOOLEAN
  BY Zenon
<1>3. armed \in Nat /\ submits \in [Submitted -> {"idle", "posting", "reloading"}]
  OBVIOUS
<1>4. ConsoleTypeOK
  BY <1>1, <1>2, <1>3 DEF ConsoleTypeOK
<1>5. OnePoller /\ PollingGoesOn
  BY DEF OnePoller, PollingGoesOn
<1> QED BY <1>4, <1>5 DEF ConsoleInv

\* What each step makes of the timer, the flags and the forms.
LEMMA ConsoleTypeStep == ConsoleInv /\ [ConsoleNext]_consoleVars => ConsoleTypeOK'
<1> SUFFICES ASSUME ConsoleInv, [ConsoleNext]_consoleVars PROVE ConsoleTypeOK'
  OBVIOUS
<1> USE DEF ConsoleInv, ConsoleTypeOK, OnePoller, Timers, Refresh, LoadEnds, consoleVars
<1> DEFINE Moves ==
      \/ \E slot \in LoadSlots : PressRefresh(slot) \/ TimerFires(slot)
      \/ \E slot \in LoadSlots, work \in SUBSET WorkLists : ListsLoaded(slot, work)
      \/ \E slot \in LoadSlots : LoadSucceeded(slot) \/ LoadFailed(slot)
      \/ \E form \in Submitted : Submit(form) \/ SubmitAccepted(form) \/ SubmitFailed(form)
      \/ \E form \in Submitted, work \in BOOLEAN : ListReloaded(form, work)
      \/ UNCHANGED consoleVars
<1>0. Moves
  BY DEF ConsoleNext
<1>1. loads' \in [LoadSlots -> {"free", "lists", "rest"}] /\ refreshed' \in SUBSET LoadSlots
  BY <1>0 DEF PressRefresh, TimerFires, ListsLoaded, LoadSucceeded, LoadFailed, Submit,
              SubmitAccepted, SubmitFailed, ListReloaded
<1>2. consoleLoading' \in BOOLEAN /\ refreshing' \in BOOLEAN /\ refreshTimer' \in BOOLEAN
  BY <1>0, Zenon DEF PressRefresh, TimerFires, ListsLoaded, LoadSucceeded, LoadFailed, Submit,
                     SubmitAccepted, SubmitFailed, ListReloaded, ScheduleStatusRefresh
<1>3. active' \in SUBSET WorkLists
  BY <1>0 DEF PressRefresh, TimerFires, ListsLoaded, LoadSucceeded, LoadFailed, Submit,
              SubmitAccepted, SubmitFailed, ListReloaded, Submitted, WorkLists
<1>4. armed' \in Nat
  <2>1. ASSUME NEW slot \in LoadSlots, LoadSucceeded(slot) PROVE armed' \in Nat
    <3>1. CASE active = {}
      BY <2>1, <3>1 DEF LoadSucceeded, ScheduleStatusRefresh
    <3>2. CASE active # {}
      BY <2>1, <3>2 DEF LoadSucceeded, ScheduleStatusRefresh
    <3> QED BY <3>1, <3>2
  <2>2. ASSUME NEW slot \in LoadSlots, TimerFires(slot) PROVE armed' \in Nat
    BY <2>2 DEF TimerFires
  <2>3. armed' = armed => armed' \in Nat
    OBVIOUS
  <2> QED
    BY <1>0, <2>1, <2>2, <2>3 DEF PressRefresh, ListsLoaded, LoadFailed, Submit,
                                  SubmitAccepted, SubmitFailed, ListReloaded
<1>5. /\ submits' \in [Submitted -> {"idle", "posting", "reloading"}]
      /\ lastChange' \in {"ok", "failed", "reloaded"}
  BY <1>0 DEF PressRefresh, TimerFires, ListsLoaded, LoadSucceeded, LoadFailed, Submit,
              SubmitAccepted, SubmitFailed, ListReloaded
<1> QED BY <1>1, <1>2, <1>3, <1>4, <1>5

\* Every step keeps one timer at most, and arms it when the lists ask for it.
LEMMA ConsoleStep == ConsoleInv /\ [ConsoleNext]_consoleVars => ConsoleInv'
<1> SUFFICES ASSUME ConsoleInv, [ConsoleNext]_consoleVars PROVE OnePoller' /\ PollingGoesOn'
  BY ConsoleTypeStep DEF ConsoleInv
<1> USE DEF ConsoleInv
<1>0. /\ loads \in [LoadSlots -> {"free", "lists", "rest"}] /\ armed \in Nat
      /\ refreshTimer \in BOOLEAN /\ OnePoller /\ PollingGoesOn
  BY DEF ConsoleTypeOK
<1>1. ASSUME NEW slot \in LoadSlots, PressRefresh(slot)
      PROVE  OnePoller' /\ PollingGoesOn'
  BY <1>0, <1>1 DEF PressRefresh, Refresh, Timers, OnePoller, PollingGoesOn
<1>2. ASSUME NEW slot \in LoadSlots, TimerFires(slot)
      PROVE  OnePoller' /\ PollingGoesOn'
  <2>1. armed = 1
    BY <1>0, <1>2 DEF TimerFires, OnePoller
  <2>2. armed' = 0 /\ refreshTimer' = FALSE
    BY <1>2, <2>1 DEF TimerFires
  <2>3. loads'[slot] = "lists"
    BY <1>0, <1>2 DEF TimerFires, Refresh
  <2> QED BY <2>2, <2>3 DEF OnePoller, PollingGoesOn
<1>3. ASSUME NEW slot \in LoadSlots, NEW work \in SUBSET WorkLists, ListsLoaded(slot, work)
      PROVE  OnePoller' /\ PollingGoesOn'
  BY <1>0, <1>3 DEF ListsLoaded, Timers, OnePoller, PollingGoesOn
<1>4. ASSUME NEW slot \in LoadSlots, LoadSucceeded(slot)
      PROVE  OnePoller' /\ PollingGoesOn'
  <2>1. active' = active
    BY <1>4 DEF LoadSucceeded, LoadEnds
  <2>2. CASE active = {}
    BY <1>0, <1>4, <2>1, <2>2 DEF LoadSucceeded, ScheduleStatusRefresh, OnePoller, PollingGoesOn
  <2>3. CASE active # {}
    BY <1>0, <1>4, <2>1, <2>3 DEF LoadSucceeded, ScheduleStatusRefresh, OnePoller, PollingGoesOn
  <2> QED BY <2>2, <2>3
<1>5. ASSUME NEW slot \in LoadSlots, LoadFailed(slot)
      PROVE  OnePoller' /\ PollingGoesOn'
  BY <1>0, <1>5 DEF LoadFailed, Timers, OnePoller, PollingGoesOn
<1>6. ASSUME NEW form \in Submitted, Submit(form) \/ SubmitAccepted(form) \/ SubmitFailed(form)
      PROVE  OnePoller' /\ PollingGoesOn'
  BY <1>0, <1>6 DEF Submit, SubmitAccepted, SubmitFailed, Timers, OnePoller, PollingGoesOn
<1>7. ASSUME NEW form \in Submitted, NEW work \in BOOLEAN, ListReloaded(form, work)
      PROVE  OnePoller' /\ PollingGoesOn'
  BY <1>0, <1>7 DEF ListReloaded, Timers, OnePoller, PollingGoesOn
<1>8. CASE UNCHANGED consoleVars
  BY <1>0, <1>8 DEF consoleVars, OnePoller, PollingGoesOn
<1> QED
  BY <1>1, <1>2, <1>3, <1>4, <1>5, <1>6, <1>7, <1>8 DEF ConsoleNext

\* The console never holds more than one timer (scheduleStatusRefresh).
THEOREM PollerIsOne == ConsoleSpec => []OnePoller
<1>1. ConsoleInv => OnePoller
  BY DEF ConsoleInv
<1> QED
  BY <1>1, ConsoleStart, ConsoleStep, PTL DEF ConsoleSpec

\* A console at rest with active work polls again, but for the two cases the
\* property names (loadAll, reloadCommands, reloadTasks).
THEOREM PollingIsKept == ConsoleSpec => []PollingGoesOn
<1>1. ConsoleInv => PollingGoesOn
  BY DEF ConsoleInv
<1> QED
  BY <1>1, ConsoleStart, ConsoleStep, PTL DEF ConsoleSpec

(***************************************************************************)
(* The investigation workbench.                                            *)
(***************************************************************************)
\* Every request number was given out once: to a list, to a detail, or to the
\* detail whose feedback is being read.
NumbersAreUsedOnce ==
  /\ \A r \in detailRequests : r.id <= requestId
  /\ \A q, r \in detailRequests : q.id = r.id => q = r
  /\ \A r \in detailRequests : (\A q \in listRequests : q.id # r.id)
                                 /\ (\A l \in feedbackLoads : l.id # r.id)
  /\ (\A q \in listRequests : q.id <= requestId) /\ (\A l \in feedbackLoads : l.id <= requestId)

\* The last request, if it is for a detail, is for the one opened last, and the
\* page says that it loads.
LastIsOpening ==
  \A r \in detailRequests : r.id = requestId => r.item = lastOpened /\ loading = TRUE

\* Nothing in flight can bring feedback of another investigation.
FeedbackToCome ==
  crossed = FALSE => /\ \A l \in feedbackLoads : l.item = selected
                     /\ feedbackSaving \in {Nobody, selected}

\* What a crossing is: FALSE says that nothing shown or to come is another's.
OwnFeedback == crossed = FALSE => feedback \subseteq {selected}

OpeningInv == NumbersAreUsedOnce /\ LastIsOpening /\ LatestOpenWins
InvestigationInv == InvestigationTypeOK /\ OpeningInv /\ FeedbackToCome /\ OwnFeedback

LEMMA InvestigationStart == InvestigationInit => InvestigationInv
<1> SUFFICES ASSUME InvestigationInit PROVE InvestigationInv
  OBVIOUS
<1> USE InvestigationAssumption DEF InvestigationInit
<1>1. /\ stored \in SUBSET Investigations /\ results \in SUBSET Investigations
      /\ selected \in Investigations \cup {Nobody} /\ lastOpened \in Investigations \cup {Nobody}
      /\ requestId \in Nat /\ feedback \in SUBSET Investigations
      /\ feedbackSaving \in Investigations \cup {Nobody}
  OBVIOUS
<1>2. /\ listRequests \in SUBSET [id : Nat, held : SUBSET Investigations]
      /\ detailRequests \in SUBSET [id : Nat, item : Investigations]
      /\ feedbackLoads \in SUBSET [id : Nat, item : Investigations]
  OBVIOUS
<1>3. loading \in BOOLEAN /\ saving \in BOOLEAN /\ failed \in BOOLEAN /\ crossed \in BOOLEAN
  BY Zenon
<1>4. InvestigationTypeOK
  BY <1>1, <1>2, <1>3 DEF InvestigationTypeOK
<1>5. OpeningInv
  BY DEF OpeningInv, NumbersAreUsedOnce, LastIsOpening, LatestOpenWins
<1>6. FeedbackToCome /\ OwnFeedback
  BY DEF FeedbackToCome, OwnFeedback
<1> QED BY <1>4, <1>5, <1>6 DEF InvestigationInv

\* The steps, each with the bound variables of its action.
InvestigationMoves ==
  \/ LoadInvestigations \/ SubmitInvestigationFeedback \/ CreateInvestigation \/ CreateFailed
  \/ \E r \in listRequests, ok \in BOOLEAN : ListAnswered(r, ok)
  \/ \E item \in stored : LoadInvestigationDetail(item)
  \/ \E r \in detailRequests : DetailAnswered(r) \/ DetailFailed(r)
  \/ \E l \in feedbackLoads, ok \in BOOLEAN : FeedbackLoaded(l, ok)
  \/ \E ok \in BOOLEAN : FeedbackSubmitted(ok)
  \/ \E item \in Investigations : InvestigationCreated(item)
  \/ UNCHANGED investigationVars

LEMMA InvestigationTypeStep ==
  InvestigationTypeOK /\ [InvestigationNext]_investigationVars => InvestigationTypeOK'
<1> SUFFICES ASSUME InvestigationTypeOK, [InvestigationNext]_investigationVars
             PROVE  InvestigationTypeOK'
  OBVIOUS
<1> USE DEF InvestigationTypeOK, Opening, Feedback, investigationVars, DetailApplied
<1>0. InvestigationMoves
  BY DEF InvestigationNext, InvestigationMoves
<1> USE DEF InvestigationMoves, LoadInvestigations, SubmitInvestigationFeedback,
            CreateInvestigation, CreateFailed, ListAnswered, LoadInvestigationDetail,
            DetailAnswered, DetailFailed, FeedbackLoaded, FeedbackSubmitted, InvestigationCreated
<1>1. stored' \in SUBSET Investigations /\ results' \in SUBSET Investigations
  <2>1. \A r \in listRequests : r.held \in SUBSET Investigations
    OBVIOUS
  <2> QED BY <1>0, <2>1
<1>2. /\ selected' \in Investigations \cup {Nobody}
      /\ lastOpened' \in Investigations \cup {Nobody}
      /\ feedbackSaving' \in Investigations \cup {Nobody}
  BY <1>0
<1>3. requestId' \in Nat
  <2>1. requestId' = requestId \/ requestId' = requestId + 1
    BY <1>0, Zenon
  <2> QED BY <2>1
<1>4. listRequests' \in SUBSET [id : Nat, held : SUBSET Investigations]
  <2>1. [id |-> requestId + 1, held |-> stored] \in [id : Nat, held : SUBSET Investigations]
    OBVIOUS
  <2>2. \/ listRequests' \subseteq listRequests
        \/ listRequests' = listRequests \cup {[id |-> requestId + 1, held |-> stored]}
    BY <1>0, Zenon
  <2> QED BY <2>1, <2>2
<1>5. detailRequests' \in SUBSET [id : Nat, item : Investigations]
  <2>1. \A item \in stored : [id |-> requestId + 1, item |-> item] \in [id : Nat, item : Investigations]
    OBVIOUS
  <2>2. \/ detailRequests' \subseteq detailRequests
        \/ \E item \in stored :
             detailRequests' = detailRequests \cup {[id |-> requestId + 1, item |-> item]}
    BY <1>0, Zenon
  <2> QED BY <2>1, <2>2
<1>6. feedbackLoads' \in SUBSET [id : Nat, item : Investigations]
  <2>1. \/ feedbackLoads' \subseteq feedbackLoads
        \/ \E r \in detailRequests : feedbackLoads' = feedbackLoads \cup {r}
    BY <1>0, Zenon
  <2> QED BY <2>1
<1>7. feedback' \in SUBSET Investigations
  BY <1>0
<1>8. loading' \in BOOLEAN /\ saving' \in BOOLEAN /\ failed' \in BOOLEAN /\ crossed' \in BOOLEAN
  BY <1>0, Zenon
<1> QED BY <1>1, <1>2, <1>3, <1>4, <1>5, <1>6, <1>7, <1>8

\* Every step keeps the shared request number honest.
LEMMA OpeningStep ==
  InvestigationInv /\ [InvestigationNext]_investigationVars => OpeningInv'
<1> SUFFICES ASSUME InvestigationInv, [InvestigationNext]_investigationVars
             PROVE  OpeningInv'
  OBVIOUS
<1> USE DEF OpeningInv, NumbersAreUsedOnce, LastIsOpening, LatestOpenWins, Opening, Feedback
<1>0. /\ OpeningInv /\ requestId \in Nat
      /\ \A r \in listRequests : r.id \in Nat
      /\ \A r \in detailRequests : r.id \in Nat
      /\ \A r \in feedbackLoads : r.id \in Nat
  BY DEF InvestigationInv, InvestigationTypeOK
<1>1. CASE LoadInvestigations
  <2>1. \A r \in detailRequests : r.id # requestId
    BY <1>0, <1>1 DEF LoadInvestigations
  <2>2. selected = lastOpened
    BY <1>0, <2>1
  <2> QED BY <1>0, <1>1, <2>2 DEF LoadInvestigations
<1>2. ASSUME NEW r \in listRequests, NEW ok \in BOOLEAN, ListAnswered(r, ok)
      PROVE  OpeningInv'
  <2>1. /\ listRequests' \subseteq listRequests
        /\ UNCHANGED <<selected, requestId, detailRequests, lastOpened, feedbackLoads>>
        /\ loading' = loading \/ r.id = requestId
    BY <1>2 DEF ListAnswered
  <2> QED BY <1>0, <2>1
<1>3. ASSUME NEW item \in stored, LoadInvestigationDetail(item)
      PROVE  OpeningInv'
  <2> DEFINE new == [id |-> requestId + 1, item |-> item]
  <2>1. /\ detailRequests' = detailRequests \cup {new} /\ requestId' = requestId + 1
        /\ UNCHANGED <<listRequests, feedbackLoads>> /\ lastOpened' = item
        /\ loading' = TRUE
    BY <1>3, Zenon DEF LoadInvestigationDetail
  <2>2. new.id = requestId + 1 /\ new.item = item
    OBVIOUS
  <2> HIDE DEF new
  <2>3. NumbersAreUsedOnce'
    BY <1>0, <2>1, <2>2
  <2>4. LastIsOpening' /\ LatestOpenWins'
    BY <1>0, <2>1, <2>2
  <2> QED BY <2>3, <2>4
<1>4. ASSUME NEW r \in detailRequests, DetailAnswered(r)
      PROVE  OpeningInv'
  BY <1>0, <1>4 DEF DetailAnswered, IsLastRequest, DetailApplied
<1>5. ASSUME NEW r \in detailRequests, DetailFailed(r)
      PROVE  OpeningInv'
  BY <1>0, <1>5 DEF DetailFailed
<1>6. ASSUME NEW l \in feedbackLoads, NEW ok \in BOOLEAN, FeedbackLoaded(l, ok)
      PROVE  OpeningInv'
  BY <1>0, <1>6 DEF FeedbackLoaded
<1>7. ASSUME NEW item \in Investigations, InvestigationCreated(item)
      PROVE  OpeningInv'
  BY <1>0, <1>7 DEF InvestigationCreated
<1>8. ASSUME \/ SubmitInvestigationFeedback \/ CreateInvestigation \/ CreateFailed
             \/ \E ok \in BOOLEAN : FeedbackSubmitted(ok)
             \/ UNCHANGED investigationVars
      PROVE  OpeningInv'
  <2>1. UNCHANGED <<Opening, listRequests, feedbackLoads>>
    BY <1>8 DEF SubmitInvestigationFeedback, CreateInvestigation, CreateFailed,
                FeedbackSubmitted, investigationVars
  <2> QED BY <1>0, <2>1
<1> QED
  BY <1>1, <1>2, <1>3, <1>4, <1>5, <1>6, <1>7, <1>8 DEF InvestigationNext

\* Every step keeps the feedback of others away, or records that it did not.
LEMMA FeedbackStep ==
  InvestigationInv /\ [InvestigationNext]_investigationVars => FeedbackToCome' /\ OwnFeedback'
<1> SUFFICES ASSUME InvestigationInv, [InvestigationNext]_investigationVars
             PROVE  FeedbackToCome' /\ OwnFeedback'
  OBVIOUS
<1> USE DEF FeedbackToCome, OwnFeedback, Opening, Feedback
<1>0. FeedbackToCome /\ OwnFeedback
  BY DEF InvestigationInv
<1>1. ASSUME NEW r \in detailRequests, DetailAnswered(r)
      PROVE  FeedbackToCome' /\ OwnFeedback'
  BY <1>0, <1>1 DEF DetailAnswered, DetailApplied
<1>2. ASSUME NEW l \in feedbackLoads, NEW ok \in BOOLEAN, FeedbackLoaded(l, ok)
      PROVE  FeedbackToCome' /\ OwnFeedback'
  BY <1>0, <1>2 DEF FeedbackLoaded
<1>3. CASE SubmitInvestigationFeedback
  BY <1>0, <1>3 DEF SubmitInvestigationFeedback
<1>4. ASSUME NEW ok \in BOOLEAN, FeedbackSubmitted(ok)
      PROVE  FeedbackToCome' /\ OwnFeedback'
  BY <1>0, <1>4 DEF FeedbackSubmitted
<1>5. ASSUME NEW item \in Investigations, InvestigationCreated(item)
      PROVE  FeedbackToCome' /\ OwnFeedback'
  BY <1>5 DEF InvestigationCreated
<1>6. ASSUME \/ LoadInvestigations \/ CreateInvestigation \/ CreateFailed
             \/ \E r \in listRequests, ok \in BOOLEAN : ListAnswered(r, ok)
             \/ \E item \in stored : LoadInvestigationDetail(item)
             \/ \E r \in detailRequests : DetailFailed(r)
             \/ UNCHANGED investigationVars
      PROVE  FeedbackToCome' /\ OwnFeedback'
  <2>1. UNCHANGED <<selected, Feedback>>
    BY <1>6, Zenon DEF LoadInvestigations, CreateInvestigation, CreateFailed, ListAnswered,
                LoadInvestigationDetail, DetailFailed, investigationVars
  <2> QED BY <1>0, <2>1
<1> QED
  BY <1>1, <1>2, <1>3, <1>4, <1>5, <1>6 DEF InvestigationNext

LEMMA InvestigationStep ==
  InvestigationInv /\ [InvestigationNext]_investigationVars => InvestigationInv'
BY InvestigationTypeStep, OpeningStep, FeedbackStep DEF InvestigationInv

\* The investigation shown is the one opened or created last once no detail is
\* on its way (loadInvestigationDetail and loadInvestigations share requestId).
THEOREM OpenedLastIsShown == InvestigationSpec => []LatestOpenWins
<1>1. InvestigationInv => LatestOpenWins
  BY DEF InvestigationInv, OpeningInv
<1> QED
  BY <1>1, InvestigationStart, InvestigationStep, PTL DEF InvestigationSpec

\* Feedback shown was given on the investigation it is shown under, but for the
\* two cases the property names (loadInvestigationFeedback, createInvestigation).
THEOREM FeedbackIsOwn == InvestigationSpec => []FeedbackBelongs
<1>1. InvestigationInv => FeedbackBelongs
  <2>1. ASSUME InvestigationInv PROVE crossed = FALSE \/ crossed = TRUE
    BY <2>1, Zenon DEF InvestigationInv, InvestigationTypeOK
  <2> QED BY <2>1 DEF InvestigationInv, OwnFeedback, FeedbackBelongs
<1> QED
  BY <1>1, InvestigationStart, InvestigationStep, PTL DEF InvestigationSpec

(***************************************************************************)
(* The tab.                                                                *)
(***************************************************************************)
\* A tab lives the life of each page or leaves it alone, so that what holds of a
\* page in every behaviour holds of the tab (the pages share no state).
THEOREM TabIsItsPages ==
  TabSpec => DashboardSpec /\ ConsoleSpec /\ InvestigationSpec /\ MetricSpec
<1>1. TabInit => DashboardInit /\ ConsoleInit /\ InvestigationInit /\ MetricInit
  BY DEF TabInit
<1>2. [TabNext]_tabVars => /\ [DashboardNext]_dashboardVars /\ [ConsoleNext]_consoleVars
                           /\ [InvestigationNext]_investigationVars /\ [MetricNext]_metricVars
  BY DEF TabNext, tabVars
<1> QED
  BY <1>1, <1>2, PTL DEF TabSpec, DashboardSpec, ConsoleSpec, InvestigationSpec, MetricSpec

\* The tab keeps what its pages keep.
THEOREM TabIsSafe ==
  TabSpec => [](/\ AnswersBelong /\ SpinnerHasCause /\ DashboardNeverBlank /\ OnePoller
                /\ PollingGoesOn /\ LatestOpenWins /\ FeedbackBelongs)
BY TabIsItsPages, NothingOfAnotherSource, NothingSpinsForGood, DashboardIsNeverBlank,
   PollerIsOne, PollingIsKept, OpenedLastIsShown, FeedbackIsOwn, PTL
=============================================================================
