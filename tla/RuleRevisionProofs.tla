------------------------- MODULE RuleRevisionProofs -------------------------
(***************************************************************************)
(* Safety of RuleRevision for any numbers of users, requests, revisions,   *)
(* versions and deaths.  The invariant says what a request holds at each   *)
(* step (Held), that a revision is approved only while an approving review *)
(* of somebody other than its author exists (Approvals), that whoever      *)
(* publishes holds the claim (Claims), that a success follows a change     *)
(* (Applied), that versions only grow (Versions), and that a version which *)
(* was changed is gone (Spent).  Lemmas take its parts one by one through  *)
(* all the actions.                                                        *)
(***************************************************************************)
EXTENDS RuleRevision, TLAPS

\* The revision a request works on exists, its reviewer is not the author, and a review
\* about to be saved has its row.
Held ==
  \A q \in Requests :
    /\ phase[q] \in Writing =>
         target[q] \in Revisions /\ user[q] \in Users /\ status[target[q]] # "none"
    /\ phase[q] = "restore" => target[q] \in Revisions /\ user[q] \in Users
    /\ phase[q] = "insert" => user[q] \in Users /\ note[q] \in Actions
    /\ phase[q] \in {"review", "save"} =>
         note[q] \in Decisions /\ user[q] # author[target[q]]
    /\ phase[q] = "save" =>
         [revision |-> target[q], reviewer |-> user[q], decision |-> note[q]] \in reviews

Approvals ==
  \A r \in Revisions : status[r] = "approved" =>
    \E v \in reviews : v.revision = r /\ v.decision = "approve" /\ v.reviewer # author[r]

Claims == \A q \in Requests : phase[q] \in Publishing => claimed[target[q]]

Applied ==
  \A q \in Requests : phase[q] = "end" /\ note[q] = "ok" => changes[target[q]] > 0

\* Versions only grow: a drafted row, a draft on its way and a write on its way name a
\* version given out before, and the live rule is no version that was changed already.
Versions ==
  /\ rule <= latest
  /\ rule \notin elsewhere
  /\ \A v \in elsewhere : v <= latest
  /\ \A r \in Revisions :
       /\ status[r] = "none" => changes[r] = 0
       /\ status[r] # "none" /\ action[r] # "create" => baseline[r] \in 1..latest
  /\ \A q \in Requests :
       /\ phase[q] = "insert" => note[q] # "create" /\ known[q] \in 1..latest
       /\ phase[q] = "apply" => known[q] = baseline[target[q]]

Spent == \A r \in Revisions : action[r] # "create" /\ changes[r] > 0 => baseline[r] # rule

RuleInv ==
  /\ TypeOK /\ Held /\ Approvals /\ Claims
  /\ Versions /\ Spent /\ NoChangeLost
  /\ ThreePersons /\ OnePublisher
  /\ Applied /\ PublishedWasApplied

-----------------------------------------------------------------------------
\* The row create_prometheus_rule_draft inserts.
LEMMA InsertTypes ==
  ASSUME TypeOK, NEW r \in Revisions, NEW u \in Users, NEW a \in Actions, NEW v \in Nat,
         Insert(r, u, a, v)
  PROVE  /\ status' \in [Revisions -> Statuses] /\ action' \in [Revisions -> Actions]
         /\ baseline' \in [Revisions -> Nat] /\ author' \in [Revisions -> Users \cup {Nobody}]
         /\ claimed' = claimed /\ reviews' = reviews
PROOF
<1>1. status' \in [Revisions -> Statuses]
  BY DEF Insert, TypeOK, Statuses
<1>2. action' \in [Revisions -> Actions] /\ baseline' \in [Revisions -> Nat]
  BY DEF Insert, TypeOK
<1>3. author' \in [Revisions -> Users \cup {Nobody}]
  BY DEF Insert, TypeOK
<1> QED BY <1>1, <1>2, <1>3 DEF Insert

\* An insertion leaves the rows that are there alone.
LEMMA InsertKeeps ==
  ASSUME TypeOK, NEW r \in Revisions, NEW u, NEW a, NEW v, Insert(r, u, a, v),
         NEW k \in Revisions, status[k] # "none"
  PROVE  status'[k] = status[k] /\ author'[k] = author[k]
PROOF
  BY DEF Insert, TypeOK

\* Every step keeps the types; an orphaned revision is that of a request.
LEMMA TypeOKStep ==
  ASSUME TypeOK, Held, [Next]_vars PROVE TypeOK'
PROOF
<1> USE DEF TypeOK, Held, rowVars, ruleVars, requestVars, history, Decisions, Actions, Statuses,
   Phases, Writing, Publishing
<1>1. ASSUME NEW u \in Users, NEW r \in Revisions, DraftChange(u, r)
      PROVE  TypeOK'
  <2>1. PICK a \in Actions, v \in Nat : Insert(r, u, a, v)
    BY <1>1 DEF DraftChange
  <2> QED
    BY <2>1, <1>1, InsertTypes DEF DraftChange
<1>2. ASSUME NEW q \in Requests, NEW u \in Users, SnapshotForDelete(q, u)
      PROVE  TypeOK'
  BY <1>2 DEF SnapshotForDelete, Arrive
<1>3. ASSUME NEW q \in Requests, NEW u \in Users, NEW r \in Revisions, BeginSubmit(q, u, r)
      PROVE  TypeOK'
  BY <1>3 DEF BeginSubmit, Arrive
<1>4. ASSUME NEW q \in Requests, NEW u \in Users, NEW r \in Revisions, NEW d \in Decisions,
             BeginReview(q, u, r, d)
      PROVE  TypeOK'
  BY <1>4 DEF BeginReview, Reviewable, Arrive
<1>5. ASSUME NEW q \in Requests, NEW u \in Users, NEW r \in Revisions, ClaimPublish(q, u, r)
      PROVE  TypeOK'
  BY <1>5 DEF ClaimPublish, MayPublish, Reviewed, Arrive
<1>6. ASSUME NEW q \in Requests, NEW u \in Users, NEW r \in Revisions, BeginRestore(q, u, r)
      PROVE  TypeOK'
  BY <1>6 DEF BeginRestore, Arrive
<1>7. ASSUME NEW q \in Requests, InsertDraft(q) PROVE TypeOK'
  <2>1. PICK r \in Revisions : Insert(r, user[q], note[q], known[q])
    BY <1>7 DEF InsertDraft
  <2>2. user[q] \in Users /\ note[q] \in Actions /\ known[q] \in Nat
    BY <1>7 DEF InsertDraft
  <2>3. /\ status' \in [Revisions -> Statuses] /\ action' \in [Revisions -> Actions]
        /\ baseline' \in [Revisions -> Nat] /\ author' \in [Revisions -> Users \cup {Nobody}]
        /\ claimed' = claimed /\ reviews' = reviews
    BY <2>1, <2>2, InsertTypes
  <2> QED
    BY <2>3, <1>7 DEF InsertDraft, Answer
<1>8. ASSUME NEW q \in Requests, SaveSubmit(q) PROVE TypeOK'
  BY <1>8 DEF SaveSubmit, Answer
<1>9. ASSUME NEW q \in Requests, RecordReview(q) PROVE TypeOK'
  BY <1>9 DEF RecordReview, Go
<1>10. ASSUME NEW q \in Requests, SaveReview(q) PROVE TypeOK'
  BY <1>10 DEF SaveReview, Answer
<1>11. ASSUME NEW q \in Requests, ReadRule(q) PROVE TypeOK'
  <2>1. PICK p \in {"apply", "end"}, n \in {"none", "error"}, v \in Nat : Go(q, "read", p, n, v)
    <3>1. target[q] \in Revisions /\ baseline[target[q]] \in Nat
      BY <1>11 DEF ReadRule, Go
    <3> QED BY <3>1, <1>11 DEF ReadRule, Precondition
  <2> QED
    BY <2>1, <1>11 DEF ReadRule, Go
<1>12. ASSUME NEW q \in Requests, ApplyRevision(q) PROVE TypeOK'
  <2>1. PICK n \in {"ok", "error"} : Go(q, "apply", "end", n, 0)
    BY <1>12 DEF ApplyRevision
  <2>2. rule' \in Nat /\ latest' \in Nat
    BY <1>12 DEF ApplyRevision
  <2>3. changes' \in [Revisions -> Nat]
    <3>1. target[q] \in Revisions
      BY <1>12 DEF ApplyRevision
    <3> QED BY <3>1, <1>12 DEF ApplyRevision
  <2>4. UNCHANGED <<rowVars, crashes, elsewhere, orphans>>
    BY <1>12 DEF ApplyRevision
  <2> QED
    BY <2>1, <2>2, <2>3, <2>4 DEF Go
<1>13. ASSUME NEW q \in Requests, ApplyFails(q) PROVE TypeOK'
  BY <1>13 DEF ApplyFails, Go
<1>14. ASSUME NEW q \in Requests, FinishPublish(q) PROVE TypeOK'
  BY <1>14 DEF FinishPublish, Answer, Outcome, ClaimAfter
<1>15. ASSUME NEW q \in Requests, ReadCurrent(q) PROVE TypeOK'
  BY <1>15 DEF ReadCurrent, Go
<1>16. ASSUME NEW q \in Requests, RestoreFails(q) PROVE TypeOK'
  BY <1>16 DEF RestoreFails, Answer
<1>17. ASSUME NEW q \in Requests, Crash(q) PROVE TypeOK'
  <2>1. orphans' \subseteq Revisions
    BY <1>17 DEF Crash
  <2> QED
    BY <2>1, <1>17 DEF Crash, Answer
<1>18. ASSUME EditElsewhere PROVE TypeOK'
  BY <1>18 DEF EditElsewhere
<1>19. CASE UNCHANGED vars
  BY <1>19 DEF vars
<1> HIDE DEF TypeOK, Held, rowVars, ruleVars, requestVars, history, Decisions, Actions, Statuses,
   Phases, Writing, Publishing
<1> QED BY <1>1, <1>2, <1>3, <1>4, <1>5, <1>6, <1>7, <1>8, <1>9, <1>10, <1>11, <1>12, <1>13,
   <1>14, <1>15, <1>16, <1>17, <1>18, <1>19 DEF Next, Ask, Proceed

\* What a request holds at each step.  Other requests change statuses, but never back to
\* "none", and a row that exists keeps its author.
LEMMA HeldStep ==
  ASSUME Held, TypeOK, [Next]_vars PROVE Held'
PROOF
<1> USE DEF Held, TypeOK, rowVars, ruleVars, requestVars, history, Actions, Writing, Publishing
<1>1. ASSUME NEW u \in Users, NEW r \in Revisions, DraftChange(u, r)
      PROVE  Held'
  BY <1>1 DEF DraftChange, Insert
<1>2. ASSUME NEW q \in Requests, NEW u \in Users, SnapshotForDelete(q, u)
      PROVE  Held'
  BY <1>2 DEF SnapshotForDelete, Arrive
<1>3. ASSUME NEW q \in Requests, NEW u \in Users, NEW r \in Revisions, BeginSubmit(q, u, r)
      PROVE  Held'
  BY <1>3 DEF BeginSubmit, Arrive
<1>4. ASSUME NEW q \in Requests, NEW u \in Users, NEW r \in Revisions, NEW d \in Decisions,
             BeginReview(q, u, r, d)
      PROVE  Held'
  BY <1>4 DEF BeginReview, Reviewable, Arrive
<1>5. ASSUME NEW q \in Requests, NEW u \in Users, NEW r \in Revisions, ClaimPublish(q, u, r)
      PROVE  Held'
  BY <1>5 DEF ClaimPublish, MayPublish, Reviewed, Arrive
<1>6. ASSUME NEW q \in Requests, NEW u \in Users, NEW r \in Revisions, BeginRestore(q, u, r)
      PROVE  Held'
  BY <1>6 DEF BeginRestore, Arrive
<1>7. ASSUME NEW q \in Requests, InsertDraft(q) PROVE Held'
  BY <1>7 DEF InsertDraft, Insert, Answer
<1>8. ASSUME NEW q \in Requests, SaveSubmit(q) PROVE Held'
  BY <1>8 DEF SaveSubmit, Answer
<1>9. ASSUME NEW q \in Requests, RecordReview(q) PROVE Held'
  BY <1>9 DEF RecordReview, Go
<1>10. ASSUME NEW q \in Requests, SaveReview(q) PROVE Held'
  BY <1>10 DEF SaveReview, Answer
<1>11. ASSUME NEW q \in Requests, ReadRule(q) PROVE Held'
  <2>1. PICK p \in {"apply", "end"}, n \in {"none", "error"}, v \in Nat : Go(q, "read", p, n, v)
    <3>1. target[q] \in Revisions /\ baseline[target[q]] \in Nat
      BY <1>11 DEF ReadRule, Go
    <3> QED BY <3>1, <1>11 DEF ReadRule, Precondition
  <2> QED
    BY <2>1, <1>11 DEF ReadRule, Go
<1>12. ASSUME NEW q \in Requests, ApplyRevision(q) PROVE Held'
  <2>1. PICK n \in {"ok", "error"} : Go(q, "apply", "end", n, 0)
    BY <1>12 DEF ApplyRevision
  <2> QED
    BY <2>1, <1>12 DEF ApplyRevision, Go, Accepts, Matches
<1>13. ASSUME NEW q \in Requests, ApplyFails(q) PROVE Held'
  BY <1>13 DEF ApplyFails, Go
<1>14. ASSUME NEW q \in Requests, FinishPublish(q) PROVE Held'
  BY <1>14 DEF FinishPublish, Answer, Outcome, ClaimAfter
<1>15. ASSUME NEW q \in Requests, ReadCurrent(q) PROVE Held'
  BY <1>15 DEF ReadCurrent, Go
<1>16. ASSUME NEW q \in Requests, RestoreFails(q) PROVE Held'
  BY <1>16 DEF RestoreFails, Answer
<1>17. ASSUME NEW q \in Requests, Crash(q) PROVE Held'
  BY <1>17 DEF Crash, Answer
<1>18. ASSUME EditElsewhere PROVE Held'
  BY <1>18 DEF EditElsewhere
<1>19. CASE UNCHANGED vars
  BY <1>19 DEF vars
<1> HIDE DEF Held, TypeOK, rowVars, ruleVars, requestVars, history, Actions, Writing, Publishing
<1> QED BY <1>1, <1>2, <1>3, <1>4, <1>5, <1>6, <1>7, <1>8, <1>9, <1>10, <1>11, <1>12, <1>13,
   <1>14, <1>15, <1>16, <1>17, <1>18, <1>19 DEF Next, Ask, Proceed

\* Approved is written by a review only, whose row is already there.
LEMMA ApprovalsStep ==
  ASSUME Approvals, TypeOK, Held, [Next]_vars PROVE Approvals'
PROOF
<1> USE DEF Approvals, TypeOK, Held, rowVars, ruleVars, requestVars, history, Writing, Publishing
<1>1. ASSUME NEW u \in Users, NEW r \in Revisions, DraftChange(u, r)
      PROVE  Approvals'
  BY <1>1 DEF DraftChange, Insert
<1>2. ASSUME NEW q \in Requests, NEW u \in Users, SnapshotForDelete(q, u)
      PROVE  Approvals'
  BY <1>2 DEF SnapshotForDelete, Arrive
<1>3. ASSUME NEW q \in Requests, NEW u \in Users, NEW r \in Revisions, BeginSubmit(q, u, r)
      PROVE  Approvals'
  BY <1>3 DEF BeginSubmit, Arrive
<1>4. ASSUME NEW q \in Requests, NEW u \in Users, NEW r \in Revisions, NEW d \in Decisions,
             BeginReview(q, u, r, d)
      PROVE  Approvals'
  BY <1>4 DEF BeginReview, Reviewable, Arrive
<1>5. ASSUME NEW q \in Requests, NEW u \in Users, NEW r \in Revisions, ClaimPublish(q, u, r)
      PROVE  Approvals'
  BY <1>5 DEF ClaimPublish, MayPublish, Reviewed, Arrive
<1>6. ASSUME NEW q \in Requests, NEW u \in Users, NEW r \in Revisions, BeginRestore(q, u, r)
      PROVE  Approvals'
  BY <1>6 DEF BeginRestore, Arrive
<1>7. ASSUME NEW q \in Requests, InsertDraft(q) PROVE Approvals'
  BY <1>7 DEF InsertDraft, Insert, Answer
<1>8. ASSUME NEW q \in Requests, SaveSubmit(q) PROVE Approvals'
  BY <1>8 DEF SaveSubmit, Answer
<1>9. ASSUME NEW q \in Requests, RecordReview(q) PROVE Approvals'
  BY <1>9 DEF RecordReview, Go
<1>10. ASSUME NEW q \in Requests, SaveReview(q) PROVE Approvals'
  <2> SUFFICES ASSUME NEW r \in Revisions, status'[r] = "approved"
               PROVE  \E v \in reviews : /\ v.revision = r /\ v.decision = "approve"
                                        /\ v.reviewer # author[r]
    BY <1>10 DEF SaveReview
  <2>1. CASE r = target[q]
    <3> DEFINE w == [revision |-> target[q], reviewer |-> user[q], decision |-> note[q]]
    <3>1. note[q] = "approve"
      BY <2>1, <1>10 DEF SaveReview
    <3>2. w \in reviews /\ user[q] # author[r]
      BY <2>1, <1>10 DEF SaveReview
    <3> QED
      BY <2>1, <3>1, <3>2
  <2>2. CASE r # target[q]
    BY <2>2, <1>10 DEF SaveReview
  <2> QED BY <2>1, <2>2
<1>11. ASSUME NEW q \in Requests, ReadRule(q) PROVE Approvals'
  BY <1>11 DEF ReadRule, Go
<1>12. ASSUME NEW q \in Requests, ApplyRevision(q) PROVE Approvals'
  BY <1>12 DEF ApplyRevision, Go, Accepts, Matches
<1>13. ASSUME NEW q \in Requests, ApplyFails(q) PROVE Approvals'
  BY <1>13 DEF ApplyFails, Go
<1>14. ASSUME NEW q \in Requests, FinishPublish(q) PROVE Approvals'
  BY <1>14 DEF FinishPublish, Answer, Outcome, ClaimAfter
<1>15. ASSUME NEW q \in Requests, ReadCurrent(q) PROVE Approvals'
  BY <1>15 DEF ReadCurrent, Go
<1>16. ASSUME NEW q \in Requests, RestoreFails(q) PROVE Approvals'
  BY <1>16 DEF RestoreFails, Answer
<1>17. ASSUME NEW q \in Requests, Crash(q) PROVE Approvals'
  BY <1>17 DEF Crash, Answer
<1>18. ASSUME EditElsewhere PROVE Approvals'
  BY <1>18 DEF EditElsewhere
<1>19. CASE UNCHANGED vars
  BY <1>19 DEF vars
<1> HIDE DEF Approvals, TypeOK, Held, rowVars, ruleVars, requestVars, history, Writing, Publishing
<1> QED BY <1>1, <1>2, <1>3, <1>4, <1>5, <1>6, <1>7, <1>8, <1>9, <1>10, <1>11, <1>12, <1>13,
   <1>14, <1>15, <1>16, <1>17, <1>18, <1>19 DEF Next, Ask, Proceed

\* The claim outlives its publisher's steps because nobody else is publishing.
LEMMA ClaimsStep ==
  ASSUME Claims, TypeOK, Held, OnePublisher, [Next]_vars PROVE Claims'
PROOF
<1> USE DEF Claims, TypeOK, Held, OnePublisher, rowVars, ruleVars, requestVars, history, Writing,
   Publishing
<1>1. ASSUME NEW u \in Users, NEW r \in Revisions, DraftChange(u, r)
      PROVE  Claims'
  BY <1>1 DEF DraftChange, Insert
<1>2. ASSUME NEW q \in Requests, NEW u \in Users, SnapshotForDelete(q, u)
      PROVE  Claims'
  BY <1>2 DEF SnapshotForDelete, Arrive
<1>3. ASSUME NEW q \in Requests, NEW u \in Users, NEW r \in Revisions, BeginSubmit(q, u, r)
      PROVE  Claims'
  BY <1>3 DEF BeginSubmit, Arrive
<1>4. ASSUME NEW q \in Requests, NEW u \in Users, NEW r \in Revisions, NEW d \in Decisions,
             BeginReview(q, u, r, d)
      PROVE  Claims'
  BY <1>4 DEF BeginReview, Reviewable, Arrive
<1>5. ASSUME NEW q \in Requests, NEW u \in Users, NEW r \in Revisions, ClaimPublish(q, u, r)
      PROVE  Claims'
  BY <1>5 DEF ClaimPublish, MayPublish, Reviewed, Arrive
<1>6. ASSUME NEW q \in Requests, NEW u \in Users, NEW r \in Revisions, BeginRestore(q, u, r)
      PROVE  Claims'
  BY <1>6 DEF BeginRestore, Arrive
<1>7. ASSUME NEW q \in Requests, InsertDraft(q) PROVE Claims'
  BY <1>7 DEF InsertDraft, Insert, Answer
<1>8. ASSUME NEW q \in Requests, SaveSubmit(q) PROVE Claims'
  BY <1>8 DEF SaveSubmit, Answer
<1>9. ASSUME NEW q \in Requests, RecordReview(q) PROVE Claims'
  BY <1>9 DEF RecordReview, Go
<1>10. ASSUME NEW q \in Requests, SaveReview(q) PROVE Claims'
  BY <1>10 DEF SaveReview, Answer
<1>11. ASSUME NEW q \in Requests, ReadRule(q) PROVE Claims'
  BY <1>11 DEF ReadRule, Go
<1>12. ASSUME NEW q \in Requests, ApplyRevision(q) PROVE Claims'
  BY <1>12 DEF ApplyRevision, Go, Accepts, Matches
<1>13. ASSUME NEW q \in Requests, ApplyFails(q) PROVE Claims'
  BY <1>13 DEF ApplyFails, Go
<1>14. ASSUME NEW q \in Requests, FinishPublish(q) PROVE Claims'
  BY <1>14 DEF FinishPublish, Answer, Outcome, ClaimAfter
<1>15. ASSUME NEW q \in Requests, ReadCurrent(q) PROVE Claims'
  BY <1>15 DEF ReadCurrent, Go
<1>16. ASSUME NEW q \in Requests, RestoreFails(q) PROVE Claims'
  BY <1>16 DEF RestoreFails, Answer
<1>17. ASSUME NEW q \in Requests, Crash(q) PROVE Claims'
  BY <1>17 DEF Crash, Answer
<1>18. ASSUME EditElsewhere PROVE Claims'
  BY <1>18 DEF EditElsewhere
<1>19. CASE UNCHANGED vars
  BY <1>19 DEF vars
<1> HIDE DEF Claims, TypeOK, Held, OnePublisher, rowVars, ruleVars, requestVars, history, Writing,
   Publishing
<1> QED BY <1>1, <1>2, <1>3, <1>4, <1>5, <1>6, <1>7, <1>8, <1>9, <1>10, <1>11, <1>12, <1>13,
   <1>14, <1>15, <1>16, <1>17, <1>18, <1>19 DEF Next, Ask, Proceed

\* The publisher is taken on while an approval of somebody else is there, and reviews are
\* never removed.
LEMMA ThreePersonsStep ==
  ASSUME ThreePersons, TypeOK, Held, Approvals, [Next]_vars PROVE ThreePersons'
PROOF
<1> USE DEF ThreePersons, TypeOK, Held, Approvals, rowVars, ruleVars, requestVars, history, Writing,
   Publishing
<1>1. ASSUME NEW u \in Users, NEW r \in Revisions, DraftChange(u, r)
      PROVE  ThreePersons'
  <2>1. \E a \in Actions, v \in Nat : Insert(r, u, a, v)
    BY <1>1 DEF DraftChange, Actions
  <2>2. ASSUME NEW p \in Requests, phase'[p] \in Publishing
        PROVE  /\ phase[p] \in Publishing /\ target'[p] = target[p] /\ user'[p] = user[p]
               /\ author'[target[p]] = author[target[p]]
    <3>1. phase[p] \in Publishing /\ target'[p] = target[p] /\ user'[p] = user[p]
      BY <2>2, <1>1 DEF DraftChange
    <3>2. target[p] \in Revisions /\ status[target[p]] # "none"
      BY <3>1
    <3> QED
      BY <2>1, <3>1, <3>2, InsertKeeps
  <2>3. reviews' = reviews
    BY <2>1 DEF Insert
  <2> QED
    BY <2>2, <2>3
<1>2. ASSUME NEW q \in Requests, NEW u \in Users, SnapshotForDelete(q, u)
      PROVE  ThreePersons'
  BY <1>2 DEF SnapshotForDelete, Arrive
<1>3. ASSUME NEW q \in Requests, NEW u \in Users, NEW r \in Revisions, BeginSubmit(q, u, r)
      PROVE  ThreePersons'
  BY <1>3 DEF BeginSubmit, Arrive
<1>4. ASSUME NEW q \in Requests, NEW u \in Users, NEW r \in Revisions, NEW d \in Decisions,
             BeginReview(q, u, r, d)
      PROVE  ThreePersons'
  BY <1>4 DEF BeginReview, Reviewable, Arrive
<1>5. ASSUME NEW q \in Requests, NEW u \in Users, NEW r \in Revisions, ClaimPublish(q, u, r)
      PROVE  ThreePersons'
  BY <1>5 DEF ClaimPublish, MayPublish, Reviewed, Arrive
<1>6. ASSUME NEW q \in Requests, NEW u \in Users, NEW r \in Revisions, BeginRestore(q, u, r)
      PROVE  ThreePersons'
  BY <1>6 DEF BeginRestore, Arrive
<1>7. ASSUME NEW q \in Requests, InsertDraft(q) PROVE ThreePersons'
  <2>1. \E r \in Revisions : Insert(r, user[q], note[q], known[q])
    BY <1>7 DEF InsertDraft
  <2>2. ASSUME NEW p \in Requests, phase'[p] \in Publishing
        PROVE  /\ phase[p] \in Publishing /\ target'[p] = target[p] /\ user'[p] = user[p]
               /\ author'[target[p]] = author[target[p]]
    <3>1. phase[p] \in Publishing /\ target'[p] = target[p] /\ user'[p] = user[p]
      BY <2>2, <1>7 DEF InsertDraft, Answer
    <3>2. target[p] \in Revisions /\ status[target[p]] # "none"
      BY <3>1
    <3> QED
      BY <2>1, <3>1, <3>2, InsertKeeps
  <2>3. reviews' = reviews
    BY <2>1 DEF Insert
  <2> QED
    BY <2>2, <2>3
<1>8. ASSUME NEW q \in Requests, SaveSubmit(q) PROVE ThreePersons'
  BY <1>8 DEF SaveSubmit, Answer
<1>9. ASSUME NEW q \in Requests, RecordReview(q) PROVE ThreePersons'
  BY <1>9 DEF RecordReview, Go
<1>10. ASSUME NEW q \in Requests, SaveReview(q) PROVE ThreePersons'
  BY <1>10 DEF SaveReview, Answer
<1>11. ASSUME NEW q \in Requests, ReadRule(q) PROVE ThreePersons'
  BY <1>11 DEF ReadRule, Go
<1>12. ASSUME NEW q \in Requests, ApplyRevision(q) PROVE ThreePersons'
  BY <1>12 DEF ApplyRevision, Go, Accepts, Matches
<1>13. ASSUME NEW q \in Requests, ApplyFails(q) PROVE ThreePersons'
  BY <1>13 DEF ApplyFails, Go
<1>14. ASSUME NEW q \in Requests, FinishPublish(q) PROVE ThreePersons'
  BY <1>14 DEF FinishPublish, Answer, Outcome, ClaimAfter
<1>15. ASSUME NEW q \in Requests, ReadCurrent(q) PROVE ThreePersons'
  BY <1>15 DEF ReadCurrent, Go
<1>16. ASSUME NEW q \in Requests, RestoreFails(q) PROVE ThreePersons'
  BY <1>16 DEF RestoreFails, Answer
<1>17. ASSUME NEW q \in Requests, Crash(q) PROVE ThreePersons'
  BY <1>17 DEF Crash, Answer
<1>18. ASSUME EditElsewhere PROVE ThreePersons'
  BY <1>18 DEF EditElsewhere
<1>19. CASE UNCHANGED vars
  BY <1>19 DEF vars
<1> HIDE DEF ThreePersons, TypeOK, Held, Approvals, rowVars, ruleVars, requestVars, history, Writing,
   Publishing
<1> QED BY <1>1, <1>2, <1>3, <1>4, <1>5, <1>6, <1>7, <1>8, <1>9, <1>10, <1>11, <1>12, <1>13,
   <1>14, <1>15, <1>16, <1>17, <1>18, <1>19 DEF Next, Ask, Proceed

\* Who publishes holds the claim, whatever late reviews write into the status.
LEMMA OnePublisherStep ==
  ASSUME OnePublisher, TypeOK, Held, Claims, [Next]_vars PROVE OnePublisher'
PROOF
<1> USE DEF OnePublisher, TypeOK, Held, Claims, rowVars, ruleVars, requestVars, history, Writing,
   Publishing
<1>1. ASSUME NEW u \in Users, NEW r \in Revisions, DraftChange(u, r)
      PROVE  OnePublisher'
  BY <1>1 DEF DraftChange, Insert
<1>2. ASSUME NEW q \in Requests, NEW u \in Users, SnapshotForDelete(q, u)
      PROVE  OnePublisher'
  BY <1>2 DEF SnapshotForDelete, Arrive
<1>3. ASSUME NEW q \in Requests, NEW u \in Users, NEW r \in Revisions, BeginSubmit(q, u, r)
      PROVE  OnePublisher'
  BY <1>3 DEF BeginSubmit, Arrive
<1>4. ASSUME NEW q \in Requests, NEW u \in Users, NEW r \in Revisions, NEW d \in Decisions,
             BeginReview(q, u, r, d)
      PROVE  OnePublisher'
  BY <1>4 DEF BeginReview, Reviewable, Arrive
<1>5. ASSUME NEW q \in Requests, NEW u \in Users, NEW r \in Revisions, ClaimPublish(q, u, r)
      PROVE  OnePublisher'
  BY <1>5 DEF ClaimPublish, MayPublish, Reviewed, Arrive
<1>6. ASSUME NEW q \in Requests, NEW u \in Users, NEW r \in Revisions, BeginRestore(q, u, r)
      PROVE  OnePublisher'
  BY <1>6 DEF BeginRestore, Arrive
<1>7. ASSUME NEW q \in Requests, InsertDraft(q) PROVE OnePublisher'
  BY <1>7 DEF InsertDraft, Insert, Answer
<1>8. ASSUME NEW q \in Requests, SaveSubmit(q) PROVE OnePublisher'
  BY <1>8 DEF SaveSubmit, Answer
<1>9. ASSUME NEW q \in Requests, RecordReview(q) PROVE OnePublisher'
  BY <1>9 DEF RecordReview, Go
<1>10. ASSUME NEW q \in Requests, SaveReview(q) PROVE OnePublisher'
  BY <1>10 DEF SaveReview, Answer
<1>11. ASSUME NEW q \in Requests, ReadRule(q) PROVE OnePublisher'
  <2>1. PICK p \in {"apply", "end"}, n \in {"none", "error"}, v \in Nat : Go(q, "read", p, n, v)
    <3>1. target[q] \in Revisions /\ baseline[target[q]] \in Nat
      BY <1>11 DEF ReadRule, Go
    <3> QED BY <3>1, <1>11 DEF ReadRule, Precondition
  <2> QED
    BY <2>1, <1>11 DEF ReadRule, Go
<1>12. ASSUME NEW q \in Requests, ApplyRevision(q) PROVE OnePublisher'
  <2>1. PICK n \in {"ok", "error"} : Go(q, "apply", "end", n, 0)
    BY <1>12 DEF ApplyRevision
  <2> QED
    BY <2>1, <1>12 DEF ApplyRevision, Go, Accepts, Matches
<1>13. ASSUME NEW q \in Requests, ApplyFails(q) PROVE OnePublisher'
  BY <1>13 DEF ApplyFails, Go
<1>14. ASSUME NEW q \in Requests, FinishPublish(q) PROVE OnePublisher'
  BY <1>14 DEF FinishPublish, Answer, Outcome, ClaimAfter
<1>15. ASSUME NEW q \in Requests, ReadCurrent(q) PROVE OnePublisher'
  BY <1>15 DEF ReadCurrent, Go
<1>16. ASSUME NEW q \in Requests, RestoreFails(q) PROVE OnePublisher'
  BY <1>16 DEF RestoreFails, Answer
<1>17. ASSUME NEW q \in Requests, Crash(q) PROVE OnePublisher'
  BY <1>17 DEF Crash, Answer
<1>18. ASSUME EditElsewhere PROVE OnePublisher'
  BY <1>18 DEF EditElsewhere
<1>19. CASE UNCHANGED vars
  BY <1>19 DEF vars
<1> HIDE DEF OnePublisher, TypeOK, Held, Claims, rowVars, ruleVars, requestVars, history, Writing,
   Publishing
<1> QED BY <1>1, <1>2, <1>3, <1>4, <1>5, <1>6, <1>7, <1>8, <1>9, <1>10, <1>11, <1>12, <1>13,
   <1>14, <1>15, <1>16, <1>17, <1>18, <1>19 DEF Next, Ask, Proceed

\* A request reports success only after its change.
LEMMA AppliedStep ==
  ASSUME Applied, TypeOK, Held, [Next]_vars PROVE Applied'
PROOF
<1> USE DEF Applied, TypeOK, Held, rowVars, ruleVars, requestVars, history, Writing, Publishing
<1>1. ASSUME NEW u \in Users, NEW r \in Revisions, DraftChange(u, r)
      PROVE  Applied'
  BY <1>1 DEF DraftChange, Insert
<1>2. ASSUME NEW q \in Requests, NEW u \in Users, SnapshotForDelete(q, u)
      PROVE  Applied'
  BY <1>2 DEF SnapshotForDelete, Arrive
<1>3. ASSUME NEW q \in Requests, NEW u \in Users, NEW r \in Revisions, BeginSubmit(q, u, r)
      PROVE  Applied'
  BY <1>3 DEF BeginSubmit, Arrive
<1>4. ASSUME NEW q \in Requests, NEW u \in Users, NEW r \in Revisions, NEW d \in Decisions,
             BeginReview(q, u, r, d)
      PROVE  Applied'
  BY <1>4 DEF BeginReview, Reviewable, Arrive
<1>5. ASSUME NEW q \in Requests, NEW u \in Users, NEW r \in Revisions, ClaimPublish(q, u, r)
      PROVE  Applied'
  BY <1>5 DEF ClaimPublish, MayPublish, Reviewed, Arrive
<1>6. ASSUME NEW q \in Requests, NEW u \in Users, NEW r \in Revisions, BeginRestore(q, u, r)
      PROVE  Applied'
  BY <1>6 DEF BeginRestore, Arrive
<1>7. ASSUME NEW q \in Requests, InsertDraft(q) PROVE Applied'
  BY <1>7 DEF InsertDraft, Insert, Answer
<1>8. ASSUME NEW q \in Requests, SaveSubmit(q) PROVE Applied'
  BY <1>8 DEF SaveSubmit, Answer
<1>9. ASSUME NEW q \in Requests, RecordReview(q) PROVE Applied'
  BY <1>9 DEF RecordReview, Go
<1>10. ASSUME NEW q \in Requests, SaveReview(q) PROVE Applied'
  BY <1>10 DEF SaveReview, Answer
<1>11. ASSUME NEW q \in Requests, ReadRule(q) PROVE Applied'
  <2>1. PICK p \in {"apply", "end"}, n \in {"none", "error"}, v \in Nat : Go(q, "read", p, n, v)
    <3>1. target[q] \in Revisions /\ baseline[target[q]] \in Nat
      BY <1>11 DEF ReadRule, Go
    <3> QED BY <3>1, <1>11 DEF ReadRule, Precondition
  <2> QED
    BY <2>1, <1>11 DEF ReadRule, Go
<1>12. ASSUME NEW q \in Requests, ApplyRevision(q) PROVE Applied'
  <2>1. PICK n \in {"ok", "error"} : Go(q, "apply", "end", n, 0)
    BY <1>12 DEF ApplyRevision
  <2>2. target[q] \in Revisions
    BY <1>12 DEF ApplyRevision
  <2>3. /\ changes'[target[q]] > 0
        /\ \A k \in Revisions : changes'[k] >= changes[k]
    BY <2>2, <1>12 DEF ApplyRevision
  <2> SUFFICES ASSUME NEW p \in Requests, phase'[p] = "end", note'[p] = "ok"
               PROVE  changes'[target'[p]] > 0
    OBVIOUS
  <2>4. CASE p = q
    BY <2>1, <2>3, <2>4 DEF Go
  <2>5. CASE p # q
    <3>1. phase[p] = "end" /\ note[p] = "ok" /\ target'[p] = target[p]
      BY <2>1, <2>5 DEF Go
    <3>2. changes[target[p]] > 0 /\ target[p] \in Revisions
      BY <3>1
    <3>3. changes[target[p]] \in Nat /\ changes'[target[p]] >= changes[target[p]]
      BY <2>3, <3>2
    <3>4. changes'[target[p]] \in Nat
      BY <3>2, <1>12 DEF ApplyRevision
    <3> QED BY <3>1, <3>2, <3>3, <3>4
  <2> QED BY <2>4, <2>5
<1>13. ASSUME NEW q \in Requests, ApplyFails(q) PROVE Applied'
  BY <1>13 DEF ApplyFails, Go
<1>14. ASSUME NEW q \in Requests, FinishPublish(q) PROVE Applied'
  BY <1>14 DEF FinishPublish, Answer, Outcome, ClaimAfter
<1>15. ASSUME NEW q \in Requests, ReadCurrent(q) PROVE Applied'
  BY <1>15 DEF ReadCurrent, Go
<1>16. ASSUME NEW q \in Requests, RestoreFails(q) PROVE Applied'
  BY <1>16 DEF RestoreFails, Answer
<1>17. ASSUME NEW q \in Requests, Crash(q) PROVE Applied'
  BY <1>17 DEF Crash, Answer
<1>18. ASSUME EditElsewhere PROVE Applied'
  BY <1>18 DEF EditElsewhere
<1>19. CASE UNCHANGED vars
  BY <1>19 DEF vars
<1> HIDE DEF Applied, TypeOK, Held, rowVars, ruleVars, requestVars, history, Writing, Publishing
<1> QED BY <1>1, <1>2, <1>3, <1>4, <1>5, <1>6, <1>7, <1>8, <1>9, <1>10, <1>11, <1>12, <1>13,
   <1>14, <1>15, <1>16, <1>17, <1>18, <1>19 DEF Next, Ask, Proceed

\* Published is written for a request that reports success only.
LEMMA PublishedWasAppliedStep ==
  ASSUME PublishedWasApplied, TypeOK, Held, Applied, [Next]_vars PROVE PublishedWasApplied'
PROOF
<1> USE DEF PublishedWasApplied, TypeOK, Held, Applied, rowVars, ruleVars, requestVars, history,
   Writing, Publishing
<1>1. ASSUME NEW u \in Users, NEW r \in Revisions, DraftChange(u, r)
      PROVE  PublishedWasApplied'
  BY <1>1 DEF DraftChange, Insert
<1>2. ASSUME NEW q \in Requests, NEW u \in Users, SnapshotForDelete(q, u)
      PROVE  PublishedWasApplied'
  BY <1>2 DEF SnapshotForDelete, Arrive
<1>3. ASSUME NEW q \in Requests, NEW u \in Users, NEW r \in Revisions, BeginSubmit(q, u, r)
      PROVE  PublishedWasApplied'
  BY <1>3 DEF BeginSubmit, Arrive
<1>4. ASSUME NEW q \in Requests, NEW u \in Users, NEW r \in Revisions, NEW d \in Decisions,
             BeginReview(q, u, r, d)
      PROVE  PublishedWasApplied'
  BY <1>4 DEF BeginReview, Reviewable, Arrive
<1>5. ASSUME NEW q \in Requests, NEW u \in Users, NEW r \in Revisions, ClaimPublish(q, u, r)
      PROVE  PublishedWasApplied'
  BY <1>5 DEF ClaimPublish, MayPublish, Reviewed, Arrive
<1>6. ASSUME NEW q \in Requests, NEW u \in Users, NEW r \in Revisions, BeginRestore(q, u, r)
      PROVE  PublishedWasApplied'
  BY <1>6 DEF BeginRestore, Arrive
<1>7. ASSUME NEW q \in Requests, InsertDraft(q) PROVE PublishedWasApplied'
  BY <1>7 DEF InsertDraft, Insert, Answer
<1>8. ASSUME NEW q \in Requests, SaveSubmit(q) PROVE PublishedWasApplied'
  BY <1>8 DEF SaveSubmit, Answer
<1>9. ASSUME NEW q \in Requests, RecordReview(q) PROVE PublishedWasApplied'
  BY <1>9 DEF RecordReview, Go
<1>10. ASSUME NEW q \in Requests, SaveReview(q) PROVE PublishedWasApplied'
  BY <1>10 DEF SaveReview, Answer
<1>11. ASSUME NEW q \in Requests, ReadRule(q) PROVE PublishedWasApplied'
  BY <1>11 DEF ReadRule, Go
<1>12. ASSUME NEW q \in Requests, ApplyRevision(q) PROVE PublishedWasApplied'
  BY <1>12 DEF ApplyRevision, Go, Accepts, Matches
<1>13. ASSUME NEW q \in Requests, ApplyFails(q) PROVE PublishedWasApplied'
  BY <1>13 DEF ApplyFails, Go
<1>14. ASSUME NEW q \in Requests, FinishPublish(q) PROVE PublishedWasApplied'
  BY <1>14 DEF FinishPublish, Answer, Outcome, ClaimAfter
<1>15. ASSUME NEW q \in Requests, ReadCurrent(q) PROVE PublishedWasApplied'
  BY <1>15 DEF ReadCurrent, Go
<1>16. ASSUME NEW q \in Requests, RestoreFails(q) PROVE PublishedWasApplied'
  BY <1>16 DEF RestoreFails, Answer
<1>17. ASSUME NEW q \in Requests, Crash(q) PROVE PublishedWasApplied'
  BY <1>17 DEF Crash, Answer
<1>18. ASSUME EditElsewhere PROVE PublishedWasApplied'
  BY <1>18 DEF EditElsewhere
<1>19. CASE UNCHANGED vars
  BY <1>19 DEF vars
<1> HIDE DEF PublishedWasApplied, TypeOK, Held, Applied, rowVars, ruleVars, requestVars, history,
   Writing, Publishing
<1> QED BY <1>1, <1>2, <1>3, <1>4, <1>5, <1>6, <1>7, <1>8, <1>9, <1>10, <1>11, <1>12, <1>13,
   <1>14, <1>15, <1>16, <1>17, <1>18, <1>19 DEF Next, Ask, Proceed

\* What an insertion leaves of row r: a version given out unless it is a creation.
InsertedRow(r) ==
  /\ changes[r] = 0
  /\ action'[r] # "create" => baseline'[r] \in 1..latest
  /\ \A s \in Revisions \ {r} :
       status'[s] = status[s] /\ action'[s] = action[s] /\ baseline'[s] = baseline[s]
  /\ status[r] = "none"

\* Every version named by a row or a request was given out, and a write on its way carries
\* the version its author saw.
LEMMA VersionsStep ==
  ASSUME Versions, TypeOK, Held, [Next]_vars PROVE Versions'
PROOF
<1> USE DEF Versions, TypeOK, Held, rowVars, ruleVars, requestVars, history, Actions, Writing,
   Publishing
<1>1. ASSUME NEW u \in Users, NEW r \in Revisions, DraftChange(u, r)
      PROVE  Versions'
  <2>1. PICK a \in Actions, v \in Nat :
          Insert(r, u, a, v) /\ (a # "create" => v \in 1..latest)
    BY <1>1 DEF DraftChange
  <2>2. InsertedRow(r)
    BY <2>1 DEF Insert, InsertedRow
  <2>3. UNCHANGED <<ruleVars, requestVars, history>>
    BY <1>1 DEF DraftChange
  <2>4. \A p \in Requests : phase[p] = "apply" => target[p] \in Revisions \ {r}
    BY <2>2 DEF InsertedRow
  <2>5. \A s \in Revisions :
          /\ status'[s] = "none" => changes'[s] = 0
          /\ status'[s] # "none" /\ action'[s] # "create" => baseline'[s] \in 1..latest'
    BY <2>2, <2>3 DEF InsertedRow
  <2> QED BY <2>2, <2>3, <2>4, <2>5 DEF InsertedRow
<1>2. ASSUME NEW q \in Requests, NEW u \in Users, SnapshotForDelete(q, u)
      PROVE  Versions'
  BY <1>2 DEF SnapshotForDelete, Arrive
<1>3. ASSUME NEW q \in Requests, NEW u \in Users, NEW r \in Revisions, BeginSubmit(q, u, r)
      PROVE  Versions'
  BY <1>3 DEF BeginSubmit, Arrive
<1>4. ASSUME NEW q \in Requests, NEW u \in Users, NEW r \in Revisions, NEW d \in Decisions,
             BeginReview(q, u, r, d)
      PROVE  Versions'
  BY <1>4 DEF BeginReview, Reviewable, Arrive
<1>5. ASSUME NEW q \in Requests, NEW u \in Users, NEW r \in Revisions, ClaimPublish(q, u, r)
      PROVE  Versions'
  BY <1>5 DEF ClaimPublish, MayPublish, Reviewed, Arrive
<1>6. ASSUME NEW q \in Requests, NEW u \in Users, NEW r \in Revisions, BeginRestore(q, u, r)
      PROVE  Versions'
  BY <1>6 DEF BeginRestore, Arrive
<1>7. ASSUME NEW q \in Requests, InsertDraft(q) PROVE Versions'
  <2>1. PICK r \in Revisions : Insert(r, user[q], note[q], known[q])
    BY <1>7 DEF InsertDraft
  <2>2. note[q] # "create" /\ known[q] \in 1..latest
    BY <1>7 DEF InsertDraft
  <2>3. InsertedRow(r)
    BY <2>1, <2>2 DEF Insert, InsertedRow
  <2>4. \A p \in Requests : p # q => phase'[p] = phase[p] /\ note'[p] = note[p]
                                  /\ known'[p] = known[p] /\ target'[p] = target[p]
    BY <1>7 DEF InsertDraft, Answer
  <2>5. phase'[q] = "idle" /\ UNCHANGED <<ruleVars, history>>
    BY <1>7 DEF InsertDraft, Answer
  <2>6. \A p \in Requests : phase[p] = "apply" => target[p] \in Revisions \ {r}
    BY <2>3 DEF InsertedRow
  <2>7. \A s \in Revisions :
          /\ status'[s] = "none" => changes'[s] = 0
          /\ status'[s] # "none" /\ action'[s] # "create" => baseline'[s] \in 1..latest'
    BY <2>3, <2>5 DEF InsertedRow
  <2>8. \A p \in Requests :
          /\ phase'[p] = "insert" => note'[p] # "create" /\ known'[p] \in 1..latest'
          /\ phase'[p] = "apply" => known'[p] = baseline'[target'[p]]
    BY <2>3, <2>4, <2>5, <2>6 DEF InsertedRow
  <2> QED BY <2>5, <2>7, <2>8
<1>8. ASSUME NEW q \in Requests, SaveSubmit(q) PROVE Versions'
  BY <1>8 DEF SaveSubmit, Answer
<1>9. ASSUME NEW q \in Requests, RecordReview(q) PROVE Versions'
  BY <1>9 DEF RecordReview, Go
<1>10. ASSUME NEW q \in Requests, SaveReview(q) PROVE Versions'
  BY <1>10 DEF SaveReview, Answer
<1>11. ASSUME NEW q \in Requests, ReadRule(q) PROVE Versions'
  BY <1>11 DEF ReadRule, Go, Precondition
<1>12. ASSUME NEW q \in Requests, ApplyRevision(q) PROVE Versions'
  <2>1. /\ target[q] \in Revisions /\ status[target[q]] # "none"
        /\ changes' = [changes EXCEPT ![target[q]] = @ + 1]
        /\ rule' \in {0, latest + 1} /\ latest' \in {latest, latest + 1} /\ rule' <= latest'
        /\ UNCHANGED <<rowVars, elsewhere>>
    <3>1. target[q] \in Revisions /\ status[target[q]] # "none"
      BY <1>12 DEF ApplyRevision
    <3> QED BY <3>1, <1>12 DEF ApplyRevision
  <2>2. rule' \notin elsewhere' /\ \A v \in elsewhere' : v <= latest'
    <3>1. latest + 1 \notin elsewhere /\ 0 \notin elsewhere
      OBVIOUS
    <3> QED BY <2>1, <3>1
  <2>3. \A r \in Revisions :
          /\ status'[r] = "none" => changes'[r] = 0
          /\ status'[r] # "none" /\ action'[r] # "create" => baseline'[r] \in 1..latest'
    BY <2>1
  <2>4. PICK n \in {"ok", "error"} : Go(q, "apply", "end", n, 0)
    BY <1>12 DEF ApplyRevision
  <2>5. \A p \in Requests :
          /\ phase'[p] = "insert" => note'[p] # "create" /\ known'[p] \in 1..latest'
          /\ phase'[p] = "apply" => known'[p] = baseline'[target'[p]]
    BY <2>1, <2>4 DEF Go
  <2> QED BY <2>1, <2>2, <2>3, <2>5
<1>13. ASSUME NEW q \in Requests, ApplyFails(q) PROVE Versions'
  BY <1>13 DEF ApplyFails, Go
<1>14. ASSUME NEW q \in Requests, FinishPublish(q) PROVE Versions'
  BY <1>14 DEF FinishPublish, Answer, Outcome, ClaimAfter
<1>15. ASSUME NEW q \in Requests, ReadCurrent(q) PROVE Versions'
  BY <1>15 DEF ReadCurrent, Go
<1>16. ASSUME NEW q \in Requests, RestoreFails(q) PROVE Versions'
  BY <1>16 DEF RestoreFails, Answer
<1>17. ASSUME NEW q \in Requests, Crash(q) PROVE Versions'
  BY <1>17 DEF Crash, Answer
<1>18. ASSUME EditElsewhere PROVE Versions'
  BY <1>18 DEF EditElsewhere
<1>19. CASE UNCHANGED vars
  BY <1>19 DEF vars
<1> HIDE DEF Versions, TypeOK, Held, rowVars, ruleVars, requestVars, history, Actions, Writing,
   Publishing
<1> QED BY <1>1, <1>2, <1>3, <1>4, <1>5, <1>6, <1>7, <1>8, <1>9, <1>10, <1>11, <1>12, <1>13,
   <1>14, <1>15, <1>16, <1>17, <1>18, <1>19 DEF Next, Ask, Proceed

\* Only the steps that change the rule, or insert a row, are about what was changed.
LEMMA SpentStep ==
  ASSUME Spent, NoChangeLost, Versions, TypeOK, Held, [Next]_vars
  PROVE  Spent' /\ NoChangeLost'
PROOF
<1> USE DEF Spent, NoChangeLost, TypeOK, rowVars, ruleVars, requestVars, history
<1>1. ASSUME NEW u \in Users, NEW r \in Revisions, NEW a, NEW v, Insert(r, u, a, v),
             UNCHANGED <<ruleVars, history>>
      PROVE  Spent' /\ NoChangeLost'
  <2>1. changes[r] = 0
    BY <1>1 DEF Insert, Versions
  <2>2. \A s \in Revisions \ {r} : action'[s] = action[s] /\ baseline'[s] = baseline[s]
    BY <1>1 DEF Insert
  <2> QED BY <1>1, <2>1, <2>2
<1>2. ASSUME NEW q \in Requests, ApplyRevision(q) PROVE Spent' /\ NoChangeLost'
  <2> DEFINE r == target[q]
  <2>1. /\ r \in Revisions /\ status[r] # "none"
        /\ known[q] = baseline[r] /\ Accepts(action[r], known[q])
    BY <1>2 DEF ApplyRevision, Held, Versions, Writing, Publishing
  <2>2. /\ changes' = [changes EXCEPT ![r] = @ + 1]
        /\ rule' \in {0, latest + 1}
        /\ UNCHANGED <<action, baseline, status, elsewhere>>
    BY <1>2 DEF ApplyRevision
  <2>3. \A s \in Revisions : status[s] = "none" => changes'[s] = 0
    BY <2>1, <2>2 DEF Versions
  <2>4. \A s \in Revisions : status[s] # "none" /\ action[s] # "create" => baseline[s] # rule'
    BY <2>2 DEF Versions
  <2>5. Spent'
    BY <2>2, <2>3, <2>4
  <2>6. CASE action[r] = "create"
    <3>1. \A s \in Revisions : action[s] # "create" => changes'[s] = changes[s]
      BY <2>1, <2>2, <2>6
    <3> QED BY <2>2, <2>5, <3>1
  <2>7. CASE action[r] # "create"
    <3>1. baseline[r] = rule
      BY <2>1, <2>7 DEF Accepts, Versions
    <3>2. changes[r] = 0 /\ baseline[r] \notin elsewhere
      BY <2>1, <2>7, <3>1 DEF Versions
    <3>3. \A s \in Revisions : action[s] # "create" /\ changes[s] > 0 => baseline[s] # baseline[r]
      BY <3>1
    <3> QED BY <2>1, <2>2, <2>5, <3>2, <3>3
  <2> QED BY <2>5, <2>6, <2>7
<1>3. ASSUME EditElsewhere PROVE Spent' /\ NoChangeLost'
  <2>1. \A s \in Revisions : action[s] # "create" /\ changes[s] > 0 => baseline[s] \in 1..latest
    BY DEF Versions
  <2>2. /\ rule' \in {0, latest + 1}
        /\ elsewhere' = elsewhere \cup ({rule} \ {0})
        /\ UNCHANGED <<action, baseline, changes>>
    BY <1>3 DEF EditElsewhere
  <2> QED BY <2>1, <2>2
<1>4. CASE UNCHANGED <<action, baseline, rule, changes, elsewhere>>
  BY <1>4
<1>5. ASSUME NEW u \in Users, NEW r \in Revisions, DraftChange(u, r)
      PROVE  Spent' /\ NoChangeLost'
  BY <1>1, <1>5 DEF DraftChange
<1>6. ASSUME NEW q \in Requests, InsertDraft(q) PROVE Spent' /\ NoChangeLost'
  <2>1. user[q] \in Users /\ UNCHANGED <<ruleVars, history>>
    BY <1>6 DEF InsertDraft, Held
  <2> QED BY <1>1, <2>1, <1>6 DEF InsertDraft
<1>7. \/ \E q \in Requests : ApplyRevision(q) \/ InsertDraft(q)
      \/ EditElsewhere
      \/ \E u \in Users, r \in Revisions : DraftChange(u, r)
      \/ UNCHANGED <<action, baseline, rule, changes, elsewhere>>
  BY DEF Next, Ask, Proceed, vars, SnapshotForDelete, BeginSubmit, BeginReview, ClaimPublish,
    BeginRestore, SaveSubmit, RecordReview, SaveReview, ReadRule, ApplyFails, FinishPublish,
    ReadCurrent, RestoreFails, Crash
<1> QED BY <1>2, <1>3, <1>4, <1>5, <1>6, <1>7

\* No request takes up or writes a decided revision.
LEMMA DecidedStep ==
  ASSUME TypeOK, Held, [Next]_vars,
         NEW k \in Revisions, status[k] \in Decided, ~InFlight(k)
  PROVE status'[k] = status[k] /\ ~InFlight(k)'
PROOF
<1> USE DEF TypeOK, Held, InFlight, Decided, rowVars, ruleVars, requestVars, history, Writing,
   Publishing
<1>1. ASSUME NEW u \in Users, NEW r \in Revisions, DraftChange(u, r)
      PROVE  status'[k] = status[k] /\ ~InFlight(k)'
  BY <1>1 DEF DraftChange, Insert
<1>2. ASSUME NEW q \in Requests, NEW u \in Users, SnapshotForDelete(q, u)
      PROVE  status'[k] = status[k] /\ ~InFlight(k)'
  BY <1>2 DEF SnapshotForDelete, Arrive
<1>3. ASSUME NEW q \in Requests, NEW u \in Users, NEW r \in Revisions, BeginSubmit(q, u, r)
      PROVE  status'[k] = status[k] /\ ~InFlight(k)'
  BY <1>3 DEF BeginSubmit, Arrive
<1>4. ASSUME NEW q \in Requests, NEW u \in Users, NEW r \in Revisions, NEW d \in Decisions,
             BeginReview(q, u, r, d)
      PROVE  status'[k] = status[k] /\ ~InFlight(k)'
  BY <1>4 DEF BeginReview, Reviewable, Arrive
<1>5. ASSUME NEW q \in Requests, NEW u \in Users, NEW r \in Revisions, ClaimPublish(q, u, r)
      PROVE  status'[k] = status[k] /\ ~InFlight(k)'
  BY <1>5 DEF ClaimPublish, MayPublish, Reviewed, Arrive
<1>6. ASSUME NEW q \in Requests, NEW u \in Users, NEW r \in Revisions, BeginRestore(q, u, r)
      PROVE  status'[k] = status[k] /\ ~InFlight(k)'
  BY <1>6 DEF BeginRestore, Arrive
<1>7. ASSUME NEW q \in Requests, InsertDraft(q) PROVE status'[k] = status[k] /\ ~InFlight(k)'
  BY <1>7 DEF InsertDraft, Insert, Answer
<1>8. ASSUME NEW q \in Requests, SaveSubmit(q) PROVE status'[k] = status[k] /\ ~InFlight(k)'
  BY <1>8 DEF SaveSubmit, Answer
<1>9. ASSUME NEW q \in Requests, RecordReview(q) PROVE status'[k] = status[k] /\ ~InFlight(k)'
  BY <1>9 DEF RecordReview, Go
<1>10. ASSUME NEW q \in Requests, SaveReview(q) PROVE status'[k] = status[k] /\ ~InFlight(k)'
  BY <1>10 DEF SaveReview, Answer
<1>11. ASSUME NEW q \in Requests, ReadRule(q) PROVE status'[k] = status[k] /\ ~InFlight(k)'
  BY <1>11 DEF ReadRule, Go
<1>12. ASSUME NEW q \in Requests, ApplyRevision(q) PROVE status'[k] = status[k] /\ ~InFlight(k)'
  BY <1>12 DEF ApplyRevision, Go, Accepts, Matches
<1>13. ASSUME NEW q \in Requests, ApplyFails(q) PROVE status'[k] = status[k] /\ ~InFlight(k)'
  BY <1>13 DEF ApplyFails, Go
<1>14. ASSUME NEW q \in Requests, FinishPublish(q) PROVE status'[k] = status[k] /\ ~InFlight(k)'
  BY <1>14 DEF FinishPublish, Answer, Outcome, ClaimAfter
<1>15. ASSUME NEW q \in Requests, ReadCurrent(q) PROVE status'[k] = status[k] /\ ~InFlight(k)'
  BY <1>15 DEF ReadCurrent, Go
<1>16. ASSUME NEW q \in Requests, RestoreFails(q) PROVE status'[k] = status[k] /\ ~InFlight(k)'
  BY <1>16 DEF RestoreFails, Answer
<1>17. ASSUME NEW q \in Requests, Crash(q) PROVE status'[k] = status[k] /\ ~InFlight(k)'
  BY <1>17 DEF Crash, Answer
<1>18. ASSUME EditElsewhere PROVE status'[k] = status[k] /\ ~InFlight(k)'
  BY <1>18 DEF EditElsewhere
<1>19. CASE UNCHANGED vars
  BY <1>19 DEF vars
<1> HIDE DEF TypeOK, Held, InFlight, Decided, rowVars, ruleVars, requestVars, history, Writing,
   Publishing
<1> QED BY <1>1, <1>2, <1>3, <1>4, <1>5, <1>6, <1>7, <1>8, <1>9, <1>10, <1>11, <1>12, <1>13,
   <1>14, <1>15, <1>16, <1>17, <1>18, <1>19 DEF Next, Ask, Proceed

-----------------------------------------------------------------------------
\* The invariant holds in every state.
THEOREM RuleInvariant == Safety => []RuleInv
PROOF
<1>1. Init => RuleInv
  BY RevisionAssumption
  DEF Init, RuleInv, TypeOK, Held, Approvals, Claims, Versions, Spent, NoChangeLost, ThreePersons, OnePublisher, Applied,
      PublishedWasApplied, Revisions, Actions, Statuses, Phases, Writing, Publishing
<1>2. RuleInv /\ [Next]_vars => RuleInv'
  BY TypeOKStep, HeldStep, ApprovalsStep, ClaimsStep, VersionsStep, SpentStep,
     ThreePersonsStep, OnePublisherStep, AppliedStep, PublishedWasAppliedStep DEF RuleInv
<1> QED BY <1>1, <1>2, PTL DEF Safety

\* Rows, requests and the rule keep their types.
THEOREM TypeCorrect == Safety => []TypeOK
PROOF
<1>1. RuleInv => TypeOK BY DEF RuleInv
<1> QED BY <1>1, RuleInvariant, PTL

\* Author, approver and publisher of a change are three users, in whatever order late
\* reviews and claims are saved.
THEOREM PersonsAreThree == Safety => []ThreePersons
PROOF
<1>1. RuleInv => ThreePersons BY DEF RuleInv
<1> QED BY <1>1, RuleInvariant, PTL

\* A revision has one publisher at a time.
THEOREM PublisherIsOne == Safety => []OnePublisher
PROOF
<1>1. RuleInv => OnePublisher BY DEF RuleInv
<1> QED BY <1>1, RuleInvariant, PTL

\* What says it is published did change the rule.
THEOREM PublicationIsReal == Safety => []PublishedWasApplied
PROOF
<1>1. RuleInv => PublishedWasApplied BY DEF RuleInv
<1> QED BY <1>1, RuleInvariant, PTL

\* Of all revisions drafted for one version of the rule, and all changes made to that
\* version elsewhere, one took effect, and once.
THEOREM ChangesAreKept == Safety => []NoChangeLost
PROOF
<1>1. RuleInv => NoChangeLost BY DEF RuleInv
<1> QED BY <1>1, RuleInvariant, PTL

\* A decision stands once the requests that read the revision before are answered.
THEOREM DecisionIsFinal == Safety => DecidedStands
PROOF
<1> DEFINE Stands == \A r \in Revisions : status[r] \in Decided /\ ~InFlight(r) =>
             status'[r] = status[r] /\ ~InFlight(r)'
<1>1. ASSUME RuleInv, [Next]_vars PROVE Stands
  <2> SUFFICES ASSUME NEW r \in Revisions, status[r] \in Decided, ~InFlight(r)
               PROVE  status'[r] = status[r] /\ ~InFlight(r)'
    OBVIOUS
  <2> QED BY <1>1, DecidedStep DEF RuleInv
<1> QED BY <1>1, RuleInvariant, PTL DEF Safety, DecidedStands
=============================================================================
