---------------------------- MODULE RuleRevision ----------------------------
(***************************************************************************)
(* Governed changes of one PrometheusRule: drafts, their review by another *)
(* user, publication by a third, and restores.  Every request reads a      *)
(* revision first and writes it later; only publication locks the row, and *)
(* it lets the lock go while it talks to Kubernetes.                       *)
(*                                                                         *)
(* Kubernetes is external: the live rule has a resource version, every     *)
(* change takes a new one, and other people change the rule as well.       *)
(***************************************************************************)
EXTENDS Integers

CONSTANTS
  Users,         \* administrators of the cluster module
  Requests,      \* requests the web processes can serve at a time
  Nobody,        \* the user of no request
  MaxRevisions,  \* bound: revisions ever drafted
  MaxVersions,   \* bound: versions the rule gets from changes made elsewhere
  MaxCrashes     \* bound: requests that die with their process

ASSUME RevisionAssumption ==
  /\ MaxRevisions \in Nat \ {0}
  /\ MaxVersions \in Nat
  /\ MaxCrashes \in Nat
  /\ Nobody \notin Users

Revisions == 1..MaxRevisions

VARIABLES
  status,        \* PrometheusRuleRevision.status, "none" before the INSERT
  action,        \* its action
  baseline,      \* its baseline_resource_version, 0 for a creation
  author,        \* its created_by
  claimed,       \* whether its publish_claimed_at is set
  reviews,       \* rows of PrometheusRuleRevisionReview
  rule,          \* resource version of the live rule, 0 while there is none
  latest,        \* the last resource version given out
  phase,         \* what each request does next
  user,          \* who sent it
  target,        \* the revision it is about, 0 for none
  note,          \* the decision, the action or the result it carries
  known,         \* the resource version it read
  crashes,
  changes,       \* history: changes of the live rule made for each revision
  elsewhere,     \* history: versions of the rule that others replaced or deleted
  orphans        \* history: revisions whose publisher died

rowVars == <<status, action, baseline, author, claimed, reviews>>
ruleVars == <<rule, latest>>
requestVars == <<phase, user, target, note, known>>
history == <<changes, elsewhere, orphans>>
vars == <<rowVars, ruleVars, requestVars, crashes, history>>

Decisions == {"approve", "reject"}
Actions == {"create", "update", "delete"}
Statuses == {"none", "draft", "submitted", "approved", "rejected", "published", "failed"}
Decided == {"rejected", "published", "failed"}
Publishing == {"read", "apply", "end"}
Writing == {"submit", "review", "save"} \cup Publishing
Phases == {"idle", "restore", "insert"} \cup Writing

TypeOK ==
  /\ status \in [Revisions -> Statuses]
  /\ action \in [Revisions -> Actions]
  /\ baseline \in [Revisions -> Nat]
  /\ author \in [Revisions -> Users \cup {Nobody}]
  /\ claimed \in [Revisions -> BOOLEAN]
  /\ reviews \subseteq [revision : Revisions, reviewer : Users, decision : Decisions]
  /\ rule \in Nat /\ latest \in Nat
  /\ phase \in [Requests -> Phases]
  /\ user \in [Requests -> Users \cup {Nobody}]
  /\ target \in [Requests -> Revisions \cup {0}]
  /\ note \in [Requests -> Decisions \cup Actions \cup {"none", "ok", "error"}]
  /\ known \in [Requests -> Nat]
  /\ crashes \in Nat
  /\ changes \in [Revisions -> Nat]
  /\ elsewhere \subseteq Nat \ {0}
  /\ orphans \subseteq Revisions

Init ==
  /\ status = [r \in Revisions |-> "none"]
  /\ action = [r \in Revisions |-> "create"]
  /\ baseline = [r \in Revisions |-> 0]
  /\ author = [r \in Revisions |-> Nobody]
  /\ claimed = [r \in Revisions |-> FALSE]
  /\ reviews = {}
  /\ rule \in {0, 1} /\ latest = rule
  /\ phase = [q \in Requests |-> "idle"]
  /\ user = [q \in Requests |-> Nobody]
  /\ target = [q \in Requests |-> 0]
  /\ note = [q \in Requests |-> "none"]
  /\ known = [q \in Requests |-> 0]
  /\ crashes = 0
  /\ changes = [r \in Revisions |-> 0]
  /\ elsewhere = {}
  /\ orphans = {}

-----------------------------------------------------------------------------
(* A request arrives, goes on, and is answered. *)
Arrive(q, p, u, r, n, v) ==
  /\ phase[q] = "idle"
  /\ phase' = [phase EXCEPT ![q] = p]
  /\ user' = [user EXCEPT ![q] = u]
  /\ target' = [target EXCEPT ![q] = r]
  /\ note' = [note EXCEPT ![q] = n]
  /\ known' = [known EXCEPT ![q] = v]

Go(q, from, to, n, v) ==
  /\ phase[q] = from
  /\ phase' = [phase EXCEPT ![q] = to]
  /\ note' = [note EXCEPT ![q] = n]
  /\ known' = [known EXCEPT ![q] = v]
  /\ UNCHANGED <<user, target>>

Answer(q) ==
  /\ phase' = [phase EXCEPT ![q] = "idle"]
  /\ user' = [user EXCEPT ![q] = Nobody]
  /\ target' = [target EXCEPT ![q] = 0]
  /\ note' = [note EXCEPT ![q] = "none"]
  /\ known' = [known EXCEPT ![q] = 0]

-----------------------------------------------------------------------------
(* create_prometheus_rule_draft. *)
Insert(r, u, a, v) ==
  /\ status[r] = "none"
  /\ \A k \in Revisions : k < r => status[k] # "none"
  /\ status' = [status EXCEPT ![r] = "draft"]
  /\ action' = [action EXCEPT ![r] = a]
  /\ baseline' = [baseline EXCEPT ![r] = v]
  /\ author' = [author EXCEPT ![r] = u]
  /\ UNCHANGED <<claimed, reviews>>

\* The YAML of an update names the version its author has seen, that of a creation none.
DraftChange(u, r) ==
  /\ \/ Insert(r, u, "create", 0)
     \/ \E v \in 1..latest : Insert(r, u, "update", v)
  /\ UNCHANGED <<ruleVars, requestVars, crashes, history>>

\* A deletion is drafted with a snapshot of the rule, if it still has the version asked
\* for (and, a bound of the model, a row is left).
SnapshotForDelete(q, u) ==
  /\ status[MaxRevisions] = "none"
  /\ rule # 0
  /\ Arrive(q, "insert", u, 0, "delete", rule)
  /\ UNCHANGED <<rowVars, ruleVars, crashes, history>>

InsertDraft(q) ==
  /\ phase[q] = "insert"
  /\ \E r \in Revisions : Insert(r, user[q], note[q], known[q])
  /\ Answer(q)
  /\ UNCHANGED <<ruleVars, crashes, history>>

-----------------------------------------------------------------------------
(* submit_revision and review_revision work on the row as it was read. *)
BeginSubmit(q, u, r) ==
  /\ u = author[r]
  /\ status[r] = "draft"
  /\ Arrive(q, "submit", u, r, "none", 0)
  /\ UNCHANGED <<rowVars, ruleVars, crashes, history>>

SaveSubmit(q) ==
  /\ phase[q] = "submit"
  /\ status' = [status EXCEPT ![target[q]] = "submitted"]
  /\ Answer(q)
  /\ UNCHANGED <<action, baseline, author, claimed, reviews, ruleVars, crashes, history>>

Reviewable(u, r) == status[r] = "submitted" /\ u # author[r]

BeginReview(q, u, r, d) ==
  /\ Reviewable(u, r)
  /\ Arrive(q, "review", u, r, d, 0)
  /\ UNCHANGED <<rowVars, ruleVars, crashes, history>>

RecordReview(q) ==
  /\ Go(q, "review", "save", note[q], 0)
  /\ reviews' = reviews \cup
       {[revision |-> target[q], reviewer |-> user[q], decision |-> note[q]]}
  /\ UNCHANGED <<status, action, baseline, author, claimed, ruleVars, crashes, history>>

SaveReview(q) ==
  /\ phase[q] = "save"
  /\ status' = [status EXCEPT ![target[q]] =
                  IF note[q] = "approve" THEN "approved" ELSE "rejected"]
  /\ Answer(q)
  /\ UNCHANGED <<action, baseline, author, claimed, reviews, ruleVars, crashes, history>>

-----------------------------------------------------------------------------
(* publish_revision: claim under a row lock, talk to Kubernetes, conclude under a lock. *)
Reviewed(u, r) == \E v \in reviews : v.revision = r /\ v.reviewer = u

MutReviewerPublishes(u, r) == u # author[r] /\ status[r] = "approved" /\ ~claimed[r]
MutClaimIgnored(u, r) == u # author[r] /\ ~Reviewed(u, r) /\ status[r] = "approved"
MayPublish(u, r) ==
  /\ u # author[r]
  /\ ~Reviewed(u, r)
  /\ status[r] = "approved"
  /\ ~claimed[r]

ClaimPublish(q, u, r) ==
  /\ MayPublish(u, r)
  /\ claimed' = [claimed EXCEPT ![r] = TRUE]
  /\ Arrive(q, "read", u, r, "none", 0)
  /\ UNCHANGED <<status, action, baseline, author, reviews, ruleVars, crashes, history>>

\* The rule is as the revision expects it: absent, or at its baseline.
Matches(r) == rule = (IF action[r] = "create" THEN 0 ELSE baseline[r])

\* The version the write carries along: in the YAML of an update, as a parameter of a
\* deletion; a creation carries none.
MutPrecondition(r) == IF action[r] = "delete" THEN 0 ELSE baseline[r]
Precondition(r) == baseline[r]

ReadRule(q) ==
  /\ phase[q] = "read"
  /\ \/ Matches(target[q]) /\ Go(q, "read", "apply", "none", Precondition(target[q]))
     \/ ~Matches(target[q]) /\ Go(q, "read", "end", "error", 0)
     \/ Go(q, "read", "end", "error", 0)      \* offline, forbidden, timeout
  /\ UNCHANGED <<rowVars, ruleVars, crashes, history>>

\* Kubernetes creates a rule while there is none; it replaces or deletes the one there is,
\* which must have the version carried along, if one is.
Accepts(a, v) == IF a = "create" THEN rule = 0 ELSE rule # 0 /\ v \in {0, rule}

ApplyRevision(q) ==
  LET r == target[q] IN
  /\ phase[q] = "apply"
  /\ Accepts(action[r], known[q])
  /\ changes' = [changes EXCEPT ![r] = @ + 1]
  /\ IF action[r] = "delete"
     THEN rule' = 0 /\ UNCHANGED latest
     ELSE rule' = latest + 1 /\ latest' = latest + 1
  /\ \/ Go(q, "apply", "end", "ok", 0)
     \/ Go(q, "apply", "end", "error", 0)     \* done, but the answer timed out
  /\ UNCHANGED <<rowVars, crashes, elsewhere, orphans>>

\* Refused (409, 403, 404), or the call never got there.
ApplyFails(q) ==
  /\ Go(q, "apply", "end", "error", 0)
  /\ UNCHANGED <<rowVars, ruleVars, crashes, history>>

Outcome(n) == IF n = "ok" THEN "published" ELSE "failed"
MutClaimAfter(n) == n # "ok"
ClaimAfter(n) == FALSE

FinishPublish(q) ==
  /\ phase[q] = "end"
  /\ status' = [status EXCEPT ![target[q]] = Outcome(note[q])]
  /\ claimed' = [claimed EXCEPT ![target[q]] = ClaimAfter(note[q])]
  /\ Answer(q)
  /\ UNCHANGED <<action, baseline, author, reviews, ruleVars, crashes, history>>

-----------------------------------------------------------------------------
(* restore_revision: a new draft with the old content, for the version the rule has now. *)
BeginRestore(q, u, r) ==
  /\ status[r] = "published"
  /\ Arrive(q, "restore", u, r, "none", 0)
  /\ UNCHANGED <<rowVars, ruleVars, crashes, history>>

ReadCurrent(q) ==
  /\ rule # 0
  /\ Go(q, "restore", "insert", "update", rule)
  /\ UNCHANGED <<rowVars, ruleVars, crashes, history>>

\* There is no rule, or Kubernetes could not be read.
RestoreFails(q) ==
  /\ phase[q] = "restore"
  /\ Answer(q)
  /\ UNCHANGED <<rowVars, ruleVars, crashes, history>>

-----------------------------------------------------------------------------
\* Somebody changes, creates or deletes the rule in Kubernetes itself.
EditElsewhere ==
  /\ \/ latest < MaxVersions /\ rule' = latest + 1 /\ latest' = latest + 1
     \/ rule # 0 /\ rule' = 0 /\ UNCHANGED latest
  /\ elsewhere' = elsewhere \cup ({rule} \ {0})
  /\ UNCHANGED <<rowVars, requestVars, crashes, changes, orphans>>

\* The process of a request ends.
Crash(q) ==
  /\ phase[q] # "idle"
  /\ crashes < MaxCrashes
  /\ crashes' = crashes + 1
  /\ orphans' = IF phase[q] \in Publishing THEN orphans \cup {target[q]} ELSE orphans
  /\ Answer(q)
  /\ UNCHANGED <<rowVars, ruleVars, changes, elsewhere>>

Proceed(q) ==
  \/ InsertDraft(q)
  \/ SaveSubmit(q)
  \/ RecordReview(q)
  \/ SaveReview(q)
  \/ ReadRule(q)
  \/ ApplyRevision(q)
  \/ ApplyFails(q)
  \/ FinishPublish(q)
  \/ ReadCurrent(q)
  \/ RestoreFails(q)

Ask(q, u) ==
  \/ SnapshotForDelete(q, u)
  \/ \E r \in Revisions :
       \/ BeginSubmit(q, u, r)
       \/ \E d \in Decisions : BeginReview(q, u, r, d)
       \/ ClaimPublish(q, u, r)
       \/ BeginRestore(q, u, r)

Next ==
  \/ \E u \in Users, r \in Revisions : DraftChange(u, r)
  \/ \E q \in Requests, u \in Users : Ask(q, u)
  \/ \E q \in Requests : Proceed(q) \/ Crash(q)
  \/ EditElsewhere

\* A request runs to its answer: every call to Kubernetes has a timeout.
Fairness == \A q \in Requests : WF_vars(Proceed(q))

Safety == Init /\ [][Next]_vars
Spec == Safety /\ Fairness

-----------------------------------------------------------------------------
\* Whoever changes the live rule is not the author of the change, and a third user,
\* neither of the two, approved it, in whatever order reviews and claims are saved.
ThreePersons ==
  \A q \in Requests : phase[q] \in Publishing =>
    /\ user[q] # author[target[q]]
    /\ \E v \in reviews :
         /\ v.revision = target[q]
         /\ v.decision = "approve"
         /\ v.reviewer \notin {user[q], author[target[q]]}

\* Nobody publishes a revision that is being published, although reviews read
\* earlier may rewrite its status meanwhile.
OnePublisher ==
  \A p, q \in Requests :
    phase[p] \in Publishing /\ phase[q] \in Publishing /\ target[p] = target[q] => p = q

\* A revision that says it is published did change the live rule.
PublishedWasApplied == \A r \in Revisions : status[r] = "published" => changes[r] > 0

\* No change of the rule is lost: of everybody who set out from one version of it, one
\* changed that version, once.  Two revisions drafted for the same version, an edit made
\* in Kubernetes between a publisher's check and its write, and a revision whose change
\* was made although its publication timed out and which a late review approved again,
\* must not overwrite one another.
NoChangeLost ==
  \A r \in Revisions : action[r] # "create" /\ changes[r] > 0 =>
    /\ changes[r] = 1
    /\ baseline[r] \notin elsewhere
    /\ \A s \in Revisions \ {r} :
         action[s] # "create" /\ changes[s] > 0 => baseline[s] # baseline[r]

\* Once a revision is decided and every request that read it before is answered, no
\* request decides it again.
InFlight(r) == \E q \in Requests : phase[q] \in Writing /\ target[q] = r
DecidedStands ==
  [][\A r \in Revisions : status[r] \in Decided /\ ~InFlight(r) =>
       status'[r] = status[r] /\ ~InFlight(r)']_vars

\* A revision that is claimed is released, whatever Kubernetes answers, unless the very
\* process that was publishing it died.
ClaimSettles == \A r \in Revisions : claimed[r] ~> (~claimed[r] \/ r \in orphans)
=============================================================================
