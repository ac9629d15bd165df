-------------------------- MODULE InvestigationPage --------------------------
(***************************************************************************)
(* The investigation workbench of the browser (static/js/aiops-vue.js):    *)
(* the list of investigations, the one opened with the feedback given on   *)
(* it, a form that creates another, and a form that adds feedback.  The    *)
(* list and the details share one request number, only the last of which   *)
(* is applied; the feedback requests carry no number.                      *)
(***************************************************************************)
EXTENDS Integers, FiniteSets

CONSTANTS Investigations, \* every investigation the server will ever hold
          Nobody,         \* no investigation
          MaxRequestId    \* bound: list and detail requests of the page

ASSUME InvestigationAssumption == Nobody \notin Investigations /\ MaxRequestId \in Nat \ {0}

VARIABLES
  stored,            \* the investigations on the server
  results,           \* the list shown
  selected,          \* the investigation opened
  requestId,
  listRequests,      \* list requests in flight, with what the server held when sent
  detailRequests,    \* detail requests in flight
  loading, saving,   \* of the list or a detail; of the create form
  failed,            \* an error is shown in place of the list
  feedback,          \* the investigations the feedback shown was given on
  feedbackLoads,     \* feedback requests in flight, each of a detail's handler
  feedbackSaving,    \* the investigation a submitted feedback is for
  lastOpened,        \* history: the investigation the user opened or created last
  crossed            \* history: feedback shown, or to come, predates the opening

investigationVars == <<stored, results, selected, requestId, listRequests, detailRequests,
                       loading, saving, failed, feedback, feedbackLoads, feedbackSaving,
                       lastOpened, crossed>>

Opening == <<selected, requestId, detailRequests, loading, lastOpened>>
Feedback == <<feedback, feedbackLoads, feedbackSaving, crossed>>

\* The page just mounted: the list is being read.
InvestigationInit ==
  /\ stored \in SUBSET Investigations
  /\ results = {} /\ selected = Nobody /\ requestId = 1
  /\ listRequests = {[id |-> 1, held |-> stored]} /\ detailRequests = {}
  /\ loading = TRUE /\ saving = FALSE /\ failed = FALSE
  /\ feedback = {} /\ feedbackLoads = {} /\ feedbackSaving = Nobody
  /\ lastOpened = Nobody /\ crossed = FALSE

\* The refresh button, disabled while anything loads.
LoadInvestigations ==
  /\ ~loading /\ requestId < MaxRequestId
  /\ requestId' = requestId + 1
  /\ listRequests' = listRequests \cup {[id |-> requestId + 1, held |-> stored]}
  /\ loading' = TRUE /\ failed' = FALSE
  /\ UNCHANGED <<stored, results, selected, detailRequests, saving, lastOpened, Feedback>>

\* The list as the server held it at some time since the request was sent.
ListAnswered(r, ok) ==
  /\ listRequests' = listRequests \ {r}
  /\ IF r.id = requestId
     THEN /\ loading' = FALSE
          /\ IF ok THEN results' \in {r.held, stored} /\ UNCHANGED failed
                   ELSE failed' = TRUE /\ UNCHANGED results
     ELSE UNCHANGED <<loading, results, failed>>
  /\ UNCHANGED <<stored, selected, requestId, detailRequests, saving, lastOpened, Feedback>>

\* An item of the list, which an error hides, or the opened one again.
LoadInvestigationDetail(item) ==
  /\ item = selected \/ (item \in results /\ ~failed)
  /\ requestId < MaxRequestId
  /\ requestId' = requestId + 1
  /\ detailRequests' = detailRequests \cup {[id |-> requestId + 1, item |-> item]}
  /\ loading' = TRUE /\ failed' = FALSE
  /\ lastOpened' = item
  /\ UNCHANGED <<stored, results, selected, listRequests, saving, Feedback>>

MutDetailApplied(r) ==
  /\ selected' = r.item
  /\ feedback' = feedback
  /\ feedbackLoads' = feedbackLoads \cup {r}
  /\ crossed' = IF feedbackLoads = {} /\ feedbackSaving = Nobody THEN FALSE ELSE TRUE

\* The detail is shown, the feedback of the one shown before is dropped, and the
\* handler goes on to read the feedback of this one.
DetailApplied(r) ==
  /\ selected' = r.item
  /\ feedback' = {}
  /\ feedbackLoads' = feedbackLoads \cup {r}
  /\ crossed' = IF feedbackLoads = {} /\ feedbackSaving = Nobody THEN FALSE ELSE TRUE

MutIsLastRequest(r) == TRUE

IsLastRequest(r) == r.id = requestId

DetailAnswered(r) ==
  /\ detailRequests' = detailRequests \ {r}
  /\ IF IsLastRequest(r) THEN DetailApplied(r)
                         ELSE UNCHANGED <<selected, feedback, feedbackLoads, crossed>>
  /\ UNCHANGED <<stored, results, requestId, listRequests, loading, saving, failed,
                 feedbackSaving, lastOpened>>

\* The last request fails: what was opened before stays.
DetailFailed(r) ==
  /\ detailRequests' = detailRequests \ {r}
  /\ IF r.id = requestId
     THEN loading' = FALSE /\ failed' = TRUE /\ lastOpened' = selected
     ELSE UNCHANGED <<loading, failed, lastOpened>>
  /\ UNCHANGED <<stored, results, selected, requestId, listRequests, saving, Feedback>>

\* The feedback read for l's detail replaces the feedback shown, whatever is
\* opened by now; then l's handler ends.
FeedbackLoaded(l, ok) ==
  /\ feedbackLoads' = feedbackLoads \ {l}
  /\ feedback' = IF ok THEN {l.item} ELSE feedback
  /\ loading' = IF l.id = requestId THEN FALSE ELSE loading
  /\ UNCHANGED <<stored, results, selected, requestId, listRequests, detailRequests,
                 saving, failed, feedbackSaving, lastOpened, crossed>>

SubmitInvestigationFeedback ==
  /\ selected # Nobody /\ feedbackSaving = Nobody
  /\ feedbackSaving' = selected
  /\ UNCHANGED <<stored, results, Opening, listRequests, saving, failed,
                 feedback, feedbackLoads, crossed>>

\* The feedback accepted is put first in the feedback shown.
FeedbackSubmitted(ok) ==
  /\ feedbackSaving # Nobody
  /\ feedback' = IF ok THEN feedback \cup {feedbackSaving} ELSE feedback
  /\ feedbackSaving' = Nobody
  /\ UNCHANGED <<stored, results, Opening, listRequests, saving, failed, feedbackLoads, crossed>>

CreateInvestigation ==
  /\ ~saving /\ stored # Investigations
  /\ saving' = TRUE /\ failed' = FALSE
  /\ UNCHANGED <<stored, results, Opening, listRequests, Feedback>>

\* The new investigation is opened and listed first.  The request number is not
\* raised and the feedback shown is not dropped.
InvestigationCreated(item) ==
  /\ saving /\ item \notin stored
  /\ saving' = FALSE
  /\ stored' = stored \cup {item} /\ results' = results \cup {item}
  /\ selected' = item
  /\ lastOpened' = IF \E r \in detailRequests : r.id = requestId THEN lastOpened ELSE item
  /\ crossed' = TRUE
  /\ UNCHANGED <<requestId, listRequests, detailRequests, loading, failed,
                 feedback, feedbackLoads, feedbackSaving>>

CreateFailed ==
  /\ saving
  /\ saving' = FALSE /\ failed' = TRUE
  /\ UNCHANGED <<stored, results, Opening, listRequests, Feedback>>

InvestigationNext ==
  \/ LoadInvestigations
  \/ \E r \in listRequests, ok \in BOOLEAN : ListAnswered(r, ok)
  \/ \E item \in stored : LoadInvestigationDetail(item)
  \/ \E r \in detailRequests : DetailAnswered(r) \/ DetailFailed(r)
  \/ \E l \in feedbackLoads, ok \in BOOLEAN : FeedbackLoaded(l, ok)
  \/ SubmitInvestigationFeedback
  \/ \E ok \in BOOLEAN : FeedbackSubmitted(ok)
  \/ CreateInvestigation
  \/ \E item \in Investigations : InvestigationCreated(item)
  \/ CreateFailed

InvestigationSpec == InvestigationInit /\ [][InvestigationNext]_investigationVars

(***************************************************************************)
(* Properties.                                                             *)
(***************************************************************************)
\* The type of the workbench's state.
InvestigationTypeOK ==
  /\ stored \in SUBSET Investigations /\ results \in SUBSET Investigations
  /\ selected \in Investigations \cup {Nobody} /\ lastOpened \in Investigations \cup {Nobody}
  /\ requestId \in Nat
  /\ listRequests \in SUBSET [id : Nat, held : SUBSET Investigations]
  /\ detailRequests \in SUBSET [id : Nat, item : Investigations]
  /\ feedbackLoads \in SUBSET [id : Nat, item : Investigations]
  /\ feedback \in SUBSET Investigations
  /\ feedbackSaving \in Investigations \cup {Nobody}
  /\ loading \in BOOLEAN /\ saving \in BOOLEAN /\ failed \in BOOLEAN /\ crossed \in BOOLEAN

\* The latest click wins: when no detail is on its way, the investigation shown
\* is the one opened or created last, however the answers overtook each other
\* and whatever the list, which shares the request number, did meanwhile.
LatestOpenWins ==
  (\A r \in detailRequests : r.id # requestId) => selected = lastOpened

\* The feedback shown under an investigation was given on it, unless a feedback
\* request of the one before was still in flight when it was opened, or it was
\* opened by being created: the two cases the code leaves open.
FeedbackBelongs == ~crossed => feedback \subseteq {selected}
=============================================================================
