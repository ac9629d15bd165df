# Verification project for centos-info-collect

TLA+ models, TLC configurations and TLAPS proofs for the operations core of this Django platform. The platform
inventories hosts, runs commands on them over SSH, releases applications to them, watches their alerts and asks
people for approval in between. On the server three kinds of processes share one database and nothing else: web requests
(gunicorn), queue workers (`devops_worker`) and schedulers (`devops_scheduler`). In the browser four pages are small
concurrent programs of their own: they fetch, poll and let the user act before the answers are back.

What can go wrong there is in how those processes interleave. An ORM call is its own transaction unless the code opens
one with `transaction.atomic`; a Python object read before an SSH session is saved after it; a timeout sweep fails
work that is still running; processes die between two writes. In these models **every ORM call that another process can
see is a step**, an `atomic` block or a conditional `UPDATE` is one step, and each actor has, besides its program
counter, the stale copy it works on. In the browser the steps are the stretches between two `await`s, and an answer
arrives whenever it likes, or as a failure.

## 1. Inventory

| Component | State | Operations and interactions | What makes it correct | Here |
|---|---|---|---|---|
| Background queue (`devops/services.py`, `devops_worker.py`) | `BackgroundJob` rows | enqueue from requests; workers sweep expired rows, list candidates, claim one by a conditional `UPDATE`, execute its target, close the row | a row has one holder, is handed out once, settles once, and every row settles | `WorkQueue`, `JobQueue` |
| Commands and runbooks | `CommandExecution`, `ApprovalRequest`, `RunbookHealthVerification` | submitted or approved in requests, executed in a worker or in the approving request, finalised, verified; may propose a rollback runbook | no replay, one executor, nothing unapproved reaches a host, an outcome in the end | `CommandWork` |
| Releases | `DeploymentRelease`, `DeploymentResult`, `ApprovalRequest`, CI deliveries | submitted, gated by CI, queued by webhook or approval, executed in batches under a health guard, rolled back | gate and forced approval hold on every path, one delivery queues, the status tells what happened | `Deployment` |
| Scheduler | `ScheduledTaskRun` rows | processes claim due tasks under a lease, run callbacks, close the row with the lease as token | runs overlap only after a lease is over; nobody closes another's run | `SchedulerLease` |
| Alerts and on-call | `AlertEvent`, `AlertOnCallEscalation` | reporters record, repeat, resolve; operators handle; the scheduler's scan escalates once after 15 minutes | one backup per escalation; none for an alert whose handling is complete; due escalations settle | `AlertOnCall` |
| Batch tasks, file distribution | `BatchTask`, `FileDistribution` and results | the queue's other two targets: claim, loop over hosts, save | as commands | planned |
| Prometheus rule governance (`devops/config_governance.py`) | `PrometheusRuleRevision`, its reviews, the live rule in Kubernetes | draft, submit, review, publish under a claim, restore; other people change the rule too | author, approver and publisher differ, one publisher at a time, no change of the rule lost or made twice, decisions stand | `RuleRevision` |
| CI orchestration | `CIDelivery` rows | signed callbacks decide the gate | see releases | partly, in `Deployment` |
| Integration health | event history, escalation rows | probes and thresholds in the scheduler | one escalation per outage | not modelled |
| Incidents, command center, postmortems | one row each | short request handlers | | not modelled |
| SLO, release impact, reliability, cost | read-only | aggregation for pages | arithmetic | not modelled |
| AIOps | read-only analysis | starts runbooks through `initiate_runbook`, which is modelled | | not modelled |
| Monitoring collection | metric samples | I/O against hosts and Prometheus | | not modelled |
| Browser pages (`static/js`) | the reactive data of one page, its timers and requests in flight | load, poll, switch source, search suggestions, open, create, submit | no answer of another source or an older click is shown, no spinner is orphaned, polling neither multiplies nor stops unexplained | `MetricQueryPage`, `MonitorDashboard`, `OpsConsole`, `InvestigationPage`, composed in `BrowserTab` |
| Host agents, SSH console, users, vault, local dashboard, backup scripts, templates | | I/O, CRUD, presentation | | not modelled |

`PROJECT.json` lists the sources of each component, and under "hazards" the places in the code that tests hardly
reach, each with the properties that watch it or the reason why none does yet.

## 2. Modules

```
WorkQueue  <-- implemented by -- JobQueue         (proofs: JobQueueProofs)
    ^
    |  EXTENDS
    +-- CommandWork   (proofs: CommandWorkProofs, CommandOutcomeProofs)
    +-- Deployment    (proofs: DeploymentProofs)
SchedulerLease        (proofs: SchedulerLeaseProofs)
AlertOnCall           (proofs: AlertOnCallProofs; its scanners are callbacks of SchedulerLease's processes)
RuleRevision          (proofs: RuleRevisionProofs)

MetricQueryPage   --+
MonitorDashboard  --+
OpsConsole        --+--> BrowserTab   (proofs of all: BrowserTabProofs)
InvestigationPage --+
```

**WorkQueue** is the abstract queue, what its clients may rely on: a worker takes a pending row, or marks one it has
just failed because it expired, and closes it. `duty` says which. `CommandWork` and `Deployment` are composed with this
abstraction, so that the polling loop does not multiply their states.

**JobQueue** is the loop of `devops_worker` as written: `fail_timed_out_background_jobs` lists a bounded number of
expired rows (`SweepList`) and fails them one by one (`SweepFail`, `SweepSkip`, `SweepResume`),
`claim_next_background_job` lists a bounded number of candidates (`PollList`) and tries a conditional `UPDATE` on each
(`TakeJob`, `SkipJob`, `PollEmpty`), `process_background_job` closes the row if it is still running (`CloseJob`).
`Restart` and `Die` are a process that ends. A row is a number; the order of the rows is the order of the numbers. The
time limit is the set `overdue`, which `Timeout` enlarges when it pleases: the code compares a start date with a limit,
and any running row may be on either side of it. `ImplementsWorkQueue` is the refinement, with `Duty` as mapping.

**CommandWork** follows a command through `execute_command_record` (`ClaimRecord`, `EvaluatePolicy`, `Attempt`,
`SaveRetry`, `SaveRecord`), `finalize_command_approval` (`Finalize`, `SaveApproval`) and
`verify_runbook_execution_health` (`Verify`, `FindHealth`, `InsertHealth`, `InsertRefused`). The same functions run in
a worker and in the request that approves a denied command, so both are actors. `seen` is the status in the actor's
Python object: `SaveRecord` writes it whatever the row says by then. `Fault` is a statement that raises,
`MarkFailure` is `mark_background_failure`. `sessions` and `granted` are histories that only properties read.

**Deployment** covers submission (`Submit`, `SubmitGate`, `Route`), CI (`DeliverCI`), the GitHub webhook
(`AcceptDelivery`, and `QueueDelivery` after the commit), approvals (`ReadApproval` .. `Settle`), the job
(`Load`, `Gate`, `Claim`, `FindResults`, `TakeOver`), batches of hosts (`RunHost`, `SaveResult`, `EvaluateHealth`),
the health guard (`Guard`, then `Propose`) and the final save of the whole object (`Store`). The command of one host is
its outcome. Administrators are those other than the requester, who cannot decide. Four simplifications: the settings
that force an approval of deployments and of rollbacks are one constant (`forced`); `Propose` looks for a rollback
approval and creates one in one step, though the code takes no lock there; `Refuse` inserts the result rows of all
hosts in one step; and `ClaimLost` is the failed conditional `UPDATE` together with the refresh that follows it.

**SchedulerLease** has one action per thing a process does with a task: read the clock (`Poll`), one conditional
`UPDATE` (`Claim`, or `Skip`), the callback (until `Return`), another conditional `UPDATE` (`Finish`). `Tick` is time:
between any two of these as much as it likes, so a process may claim with an old clock or outrun its lease. The
clocks of the processes are taken to agree, as they do on one host or under NTP; the code has no defence if they do not.

**AlertOnCall** has the two halves of every alert update as two steps (the row, then `Cancel`), the report that saves
the status it read (`Report`, `Repeat`), the insertion of escalations after the alert (`Create`, `Notify`) and the
scan that works on a list (`Scan`, `ScanHandled`, `ScanUnroutable`, `Claim`, `Send`, `Store`). The policy and channel a
scan finds switched off are a choice. The order of a scan's list is left open, which allows more than the code.

**RuleRevision** follows the requests about one PrometheusRule. `submit_revision` and `review_revision` work on the row
as it was read (`BeginSubmit`, `SaveSubmit`; `BeginReview`, `RecordReview`, `SaveReview`) without a lock, so a save may
come long after the row has moved on. `publish_revision` claims under a row lock (`ClaimPublish`), lets the lock go,
reads the rule (`ReadRule`), changes it (`ApplyRevision`, `ApplyFails`) and concludes under a lock (`FinishPublish`);
`restore_revision` reads the rule and drafts an update (`ReadCurrent`, `InsertDraft`, or `RestoreFails`).
A publisher reads the rule and writes it later; what protects the change in between is that the write carries the
version the revision was drafted for (`Precondition`: in the YAML of an update, as a parameter of a deletion).
Kubernetes is external: a resource version per state of the rule, refusal of a write whose version is not the rule's
(`Accepts`), answers that time out after the change was made, and other people's changes (`EditElsewhere`). YAML is
reduced to the version it carries; the version a person writes into the YAML of an update is one the rule has had.
`changes` (made for each revision), `elsewhere` (versions others replaced or deleted) and `orphans` are histories that
only properties read.

**MetricQueryPage** is the page of kind `alert-query` in `ops-vue-pages.js`. A panel has a version
(`metricSuggestionRequestVersion`), the word typed, a spinner and a 200 ms timer; a key (`UpdateMetricQuerySuggestions`)
raises the version and answers from the cache or arms the timer, the timer sends a search (`SearchMetricNames`) that
carries the version, source and word it was made for, and `SearchAnswered` compares all three (`SearchIsCurrent`)
before it shows anything. The labels of a source are fetched once (`LoadMetricMetadata`, `MetadataAnswered`). Queries
(`ExecuteMetricQuery`, `QueryAnswered`) and the lists (`LoadMetricResource`, `ResourceAnswered`) lock the two selects
while they run (`SourceLocked`); changing a source drops all that was shown or asked for (`PanelOfNewSource`,
`ClearMetricResource`). Texts are reduced to the keyword under the cursor, a table or a row to the source it was read
from. The server is taken to name the source it was asked for, or the answer counts as failed.

**MonitorDashboard** is the kind `monitor-dashboard`: one request fills the page. Menus are part of the state, because
`loadDashboard` refuses while a request is in flight and the options of an open menu are not disabled; what protects
the page is that a click on the refresh button also closes the menu (`HandleDocumentClick`). As on the metric page the
server is taken to name the source it was asked for; were it to name another, `loadDashboard` would drop the answer
and leave the page with neither data nor an error (`ops-vue-pages.js:1020`).

**OpsConsole** is `devops-vue.js`: `loadAll` in its two stages (`ListsLoaded`; `LoadSucceeded` or `LoadFailed`), the
5 s timer (`ScheduleStatusRefresh`, `TimerFires`) and the forms that read one list again (`Submit` .. `ListReloaded`).
`lastChange` is a history of what decided last about the lists and the timer.

**InvestigationPage** is the investigation workbench of `aiops-vue.js`. `requestId` is shared by list and details;
feedback requests have none. `lastOpened` (what the user opened or created last) and `crossed` (a feedback request of
another investigation was still in flight at the opening, or the investigation was just created) are histories.

**BrowserTab** puts the four together: `payload.kind` or the root element fixes the page for the life of the document,
and leaving it throws state and requests away, so a behaviour of the tab is one page's life.

The `Mut...` operators next to some definitions are faulty variants of them (a dropped guard, a wrong order). They are
used by no specification; put in place of the definition they show that a property notices.

## 3. Runs

| Run | Bounds | What it shows | States |
|---|---|---|---|
| `job_queue` | 2 workers, 3 rows, lists of 2 and 1, 1 death | `ExclusiveWork`, `ClaimedOnce`, `SettledForGood`, `RowsSettle`, the refinement of `WorkQueue` | 46 thousand |
| `command_runbooks` | a runbook and its rollback, 2 jobs, 2 workers, 2 administrators | `NoReplay`, `SoleExecutor`, `OnlyGranted`, `RollbackOnEvidence`, `EvidenceIsFinal`, `OutcomeStands` | 2.3 million |
| `command_liveness` | a direct command, a runbook, a denied command; 1 job, 1 retry, 1 death | every claimed command concludes, or a worker died | 336 thousand |
| `command_reflects` | one runbook, 2 workers | finding 1 | violated |
| `command_twice` | one denied command, 2 administrators | finding 2 | violated |
| `deployment_intake` | 1 release bound to CI, 2 deliveries, 2 CI results, 1 administrator, 1 worker | `ForcedApprovalRespected`, `GateRespected`, `QueuedByOneDelivery` | 2.0 million |
| `deployment_execution` | 3 hosts in batches of two, the last short, 2 workers, 2 jobs, 2 expiries, 1 fault | `StatusTellsHosts`, `GuardProposes`, `BlockedStands` | 3.9 million |
| `deployment_twice` | 2 hosts, 2 workers, 2 jobs, no expiry | finding 3 | violated |
| `scheduler_lease` | 2 processes, 2 tasks (interval 1 and 3), lease 2, 6 instants, 1 death | `OverlapOnlyAfterLease`, `LiveRunIsRecorded`, `ExpiredIsRetaken` | 0.8 million |
| `alerts_oncall` | 1 alert, 1 service, 1 reporter, 1 operator, 2 scans, 1 death | `BackupOnce`, `EscalatesOnlyOpen`, `SettledStands`, `DueSettles`, `ClaimedSettles` | 153 thousand |
| `rule_revision` | 1 revision, 3 users, 2 requests, 2 versions from elsewhere, 1 death | `ThreePersons`, `OnePublisher`, `NoChangeLost`, `ClaimSettles` | 0.6 million |
| `browser_pages` | 2 Prometheus sources, 1 Alertmanager, 2 panels, 1 word, 3 versions; 2 dashboard sources, 4 requests; 3 loads at a time; 3 investigations, 4 requests | `AnswersBelong`, `SpinnerHasCause`, `DashboardNeverBlank`, `OnePoller`, `PollingGoesOn`, `LatestOpenWins`, `FeedbackBelongs` | 3.2 million |

Why the bounds are enough: the conflicts are between two actors on one row, so two workers, two administrators or two
scans meet all of them, and a third row (or a list shorter than the table) is what a stale or truncated list needs. A
lease of two instants leaves room for a claim with an old clock inside it and after it; six instants let a task be
claimed, overrun, be retaken and be scheduled again. One death is enough for the questions that involve one, because
each property says what a death may leave behind. In `alerts_oncall` alerts do not interact except in "is there an
active one", so one alert is enough for the escalation properties; duplicates of one fingerprint are not covered.
In `rule_revision` another revision's publication is, for the one there is, a change made elsewhere, and a restored
draft is a draft like any other. Two revisions drafted for one version are therefore not a pair in the run (with two the
state space is beyond a run's time): that clause of `NoChangeLost` rests on its theorem. Two requests are a publisher and a late review or a second publisher
(all three at once have been checked too, and are proved below); three users are the least that can publish anything. In `browser_pages` three versions
are a word typed, the source changed away and changed back with the search still out; a second panel shares the cache
and can be removed under a search; `MaxOutstanding` lets the user act with one request in flight, so that two overlap
and answer in either order; three loads are a slow one, the timer's and the button's. The proofs below have none of
these bounds' values.
Symmetry is used for workers, administrators, deliveries and Prometheus sources, in runs without liveness. `CHECK_DEADLOCK FALSE` is set
where the system may have nothing more to do: all rows settled or the bounds spent.

Some properties carry an exception that is the code's own behaviour. `GateRespected` and `CommandsConclude` exempt
failure marks and dead workers: a job expires under a worker that is still running, and nothing in the code prevents
what follows. `SettledStands` exempts the outcome of a backup claimed before the alert was handled, `EscalatesOnlyOpen`
a handling whose cancellation is still to come, `GuardProposes` a failure between block and proposal, `ClaimedSettles`
and `ClaimSettles` the death of the process that holds the claim, `PollingGoesOn` failed loads and single reloads,
`FeedbackBelongs` feedback crossed by an opening. The exceptions are written as narrowly as TLC lets them be, so that such
a property says the exempted case is the only one; it does not watch that case itself, and "hazards" does not count it
as if it did.

**Fairness.** Weak fairness on each worker, scheduler and scan: these are loops that restart (`while True`, a process
manager) and whose steps do not wait for one another. Weak fairness on the expiry of a running job (`Timeout`): time
passes. None on requests, reports and operators: they are free to stop between any two writes, which is what a web
process does when it is killed. `RuleRevision` is the exception: there the death of a request is an action of its own,
so the others run to their answer (weak fairness on `Proceed`; each call to Kubernetes has an 8 s timeout), and
`ClaimSettles` says what a death may leave behind. `Deployment` is checked for safety only, and so are the browser pages: `fetch` has no
timeout there, so nothing says that a request is ever answered, and `SpinnerHasCause` says what can be said without that.

## 4. Proofs

Every invariant and every action property of a passing run is a theorem. TLAPS proves them for every number of
workers, rows, requests, commands, releases, hosts, alerts, tasks, processes and every list length, lease and retry
count allowed by the modules' assumptions:

* `JobQueueProofs`: `TypeCorrect`, `WorkIsExclusive`, `MarkIsExclusive`, `NothingReplayed`, `SettlementIsFinal`, and
  `LoopImplementsQueue`, that the loop implements the safety part of `WorkQueue`. The checked invariants are not
  inductive alone: that two workers do not hold one row follows only if a worker's phase limits what its row can be
  (running, or failed by a sweep under it) and `attempts` follows from the status. `QueueInvariant` states both.
* `CommandWorkProofs`: `TypeCorrect`, `NothingReplayed`, `ExecutorIsSole`, `ExecutionIsGranted`. The invariant has
  four layers. `Shape`: what an actor holds at each step. `Fresh`: rows not inserted yet are known to nobody, so an
  insert disturbs no one. `Once`: a pending row has no sessions, and an executor's own count is the row's. `Traced`:
  jobs and actors with a runbook in hand descend from an approval that was granted. `CommandsUseTheQueue` closes the
  composition: the queue's part of every behaviour of `CommandWork` is a behaviour of `WorkQueue`, which the loop
  implements.
* `CommandOutcomeProofs`: `SuccessHandsOver`, `RollbackHasEvidence`, `EvidenceStaysFinal`, `OutcomeIsFinal`, built on
  that invariant. The hard part is the failure mark, which writes whatever the row holds: `Late` says why it can hit
  an outcome only after an expiry or beside a second job. A worker at its claim or about to mark has an expired job,
  or is not the only one with a job for the row, or the row is unclaimed, or nobody executes it and it never
  succeeded. `InHand` and `TakenRows` tie rows to jobs for it. `TracedConclusions` adds to the provenance that a
  request that verifies a runbook's health had approved it.
* `SchedulerLeaseProofs`: `TypeCorrect`, `RowNamesLiveRun`, `NoOverlapUnderLease`, `StartsAreDue`. The row's lease is
  cleared when a run ends, so "every other run is older than the lease in the row" is not enough; `Traced` adds what
  holds between two recorded runs: an overdue run's lease is earlier than the next date plus a lease length. From that
  every new lease is different from all outstanding ones (`Distinct`), which is why the token that closes a row names
  one run.
* `DeploymentProofs`: `TypeCorrect`, `ForcedApprovalHolds`, `GateHolds`, `OneDeliveryQueues`, `StatusIsTrue`,
  `GuardAlwaysProposes`, `BlockedIsFinal`, and `ReleasesUseTheQueue` as for commands. The invariant (`Inv`, checked by
  TLC on the instances of both runs before it was proved) has six parts. `Shape`: what an actor holds at each step.
  `Known`: what a job, an approval, a delivery or an actor refers to was submitted, so that the INSERT of a release
  touches nothing under way. `Consent`: with the setting on there is no job and no queue marker at all, so whoever is
  past a decision was approved. `Cleared` is the hard one: an execution asks CI only for a release it saw pending, so
  the gate is passed legally with a stale status. It stays safe because whoever passes without asking meets a release
  that has left `pending`, and no step brings it back (`Stay`); a claim then needs `pending`, and is past CI, or a
  status that only a cleared release gets. A failure mark breaks that, hence the hypothesis of `GateRespected`.
  `Covered`: an actor ran the script on all hosts behind it. `Proposed`: one queue marker per release, and the
  proposal of the guard, which needs that a worker under way is not free. Two lemmas carry the proof: `Stay`, what no
  step undoes, settles the actors that rest, and `Writers` says which actions write a release, a host or a marker.
* `AlertOnCallProofs`: `TypeCorrect`, `BackupIsOne`, `HandledIsNotEscalated`, `SettlementStands`. Four parts:
  `Holding`, what a process has in hand; `Rows`, that the alerts are the first rows of their table and that nothing
  refers to a missing one; `Claims`, that only the holder of a claim is about to notify, that there is one, and that
  `backups` is 0 before it has and 1 after; `Listing`, that an entry of a scan's list seen open and still unclaimed
  has an excuse (its alert is open or was reopened, a process died, or the cancellation is on its way). The two helper
  lemmas `NewestExists` and `NextRow` say what the queries for the newest alert and the next id return.

* `BrowserTabProofs`, the pages: `NothingOfAnotherSource`, `NothingSpinsForGood` for the metric queries. The invariant
  (`PageInv`) says of a panel that a running query asks the selected source (the selects are locked), of a spinner
  that its search is out with the panel's version, and of a list that its rows and its current request are of the
  selected source; versions of requests are never ahead of their panel's or list's. `DashboardIsNeverBlank`,
  `PollerIsOne`, `PollingIsKept`, `OpenedLastIsShown`, `FeedbackIsOwn` for the other pages; `TabIsItsPages`, that a
  tab's behaviour is a behaviour of every page; `TabIsSafe`, all seven together. The dashboard needs that any request
  in flight is the one request, of the current version and of the selected source, and that no source menu is open
  meanwhile (the hand-written protection above).

* `RuleRevisionProofs`: `PersonsAreThree`, `PublisherIsOne`, `PublicationIsReal`, `ChangesAreKept`,
  `DecisionIsFinal`. None of them follows from the statuses, which late reviews overwrite. The invariant (`RuleInv`)
  rests on what is never taken back: review rows, of which an approved revision has one by somebody other than its
  author (`Approvals`), and the claim, which whoever publishes holds (`Claims`); it is released by its one holder
  only. `Held` ties each request to an existing row, and `Applied` a success to a change made. For `ChangesAreKept`:
  `Versions` says that versions only grow, so that a draft, a row and a write under way name a version given out before
  and the live rule has none that others replaced; `Spent` says that the version a revision changed is gone for good, so
  no late, repeated or rival write that carries it can be accepted. A write that carried no version would break it.

The assumptions are those named `...Assumption` in the modules, which TLC evaluates in the runs: non-empty bounds,
disjoint sets of processes, positive lease and intervals (settings.py refuses others), and for commands that a
rollback runbook undoes one runbook.

Only model-checked, since fairness and `ENABLED` are out of the prover's reach: all liveness (`RowsSettle`,
`CommandsConclude`, `ExpiryConcludes`, `ExpiredIsRetaken`, `DueSettles`, `ClaimedSettles`, `ClaimSettles`) and the
liveness part of `ImplementsWorkQueue`. Once checked, now proved and no longer run: the type invariants of `JobQueue`,
`SchedulerLease`, `CommandWork` and `RuleRevision`, `ExclusiveMark`, `SuccessWasClaimed`, `Restarts`,
`PublishedWasApplied` and `DecidedStands`.

## 5. Findings

Where the code and the repository's own words disagree; each has a run that exhibits it.

1. `command_reflects`: the sweep fails an expired job and its command while the worker still executes it. Both save
   and finalise; an approval ends as executed beside a failed command, or the reverse. The state-model reference
   (`.codex/skills/centos-feature-dev/references/devops-state-models.md:138`) says the two agree.
2. `command_twice`: `approval_decide` reads, checks and saves without lock or condition. Two administrators at once
   execute one denied command twice. README.md:92 says a repeated trigger produces no further execution.
3. `deployment_twice`: `claim_running_deployment_if_empty` gives a running release to a second job for as long as the first
   host has no result row. README.md:92 again.

Behaviour worth knowing, which the properties exempt by name or do not speak of, and which no run exhibits:

* The rollback that the health guard proposes can never run: the guard leaves the release `blocked`, the rollback claim
  does not accept that (`BlockedStands`), and its approval closes as executed all the same, against
  `devops-state-models.md:138`.
* An alert is saved as handled before its escalations are cancelled, and a scan that listed it as open may claim its
  backup in between (`EscalatesOnlyOpen`); README.md:138 says without exception that a handled alert is not escalated.
  The outcome of a backup sent meanwhile overwrites the acknowledgement (`SettledStands`), and a scanner that dies
  between claiming and notifying leaves the escalation active for ever (`ClaimedSettles`).
* A repeat saves the status it read together with count and message: it undoes an acknowledgement made in between, and
  the escalations, already ended, never fire. Two reports of one fingerprint that look at the same time create two
  active alerts, against `devops-state-models.md:169`.
* `attempts > max_attempts` in `process_next_background_job` is dead code, since no row is handed out twice.

In rule governance: a review read early and saved late turns a rejected, published or failed revision into an approved
one again, which may then be published if the rule still has the version it expects (a creation whenever there is no
rule); a person whose two requests run at once can end up as reviewer and publisher, which the message at
`config_governance.py:221` excludes, but never as the only reviewer (`ThreePersons`); a change whose answer timed out leaves a revision that says failed; a process that dies after the claim leaves it set for ever, and nothing
clears it. A published deletion can be restored only if somebody has created the rule again, because the restore
needs the live rule's version; the test `test_delete_snapshot_restores_as_new_draft` mocks a rule that is still there.
`docs/devops_json_api.md:43` says a deletion draft does not connect to Kubernetes; it reads the rule.

In the browser: `docs/devops_next_optimizations.md:50` says the console polls while there is pending or running work; it
does except after a refresh that failed and after a list read again for a submission, when nothing schedules the timer
(`PollingGoesOn` names these two cases and shows there is no third); of two overlapping loads the one that answers last decides the lists, even if it was sent first; a label list
that arrives after another word was typed is not merged into the suggestions shown; a late search reopens the suggestion
list after a choice; opening an investigation makes the page ignore a list still on its way, a list sent before a
creation can remove the created item again, and a created investigation shows the feedback of the one before it.

## 6. Plan

Done, most important first: the queue, commands with all their safety proved, releases, the scheduler's lease, alerts and
on-call, the browser pages, rule governance, and proofs of every safety property the runs check. What a continuation would take up:

1. `TaskWork`: batch tasks and file distribution as further targets of the queue, with the loop over hosts and
   partial results; the claim they share with commands stated once.
2. `AlertOnCall`: a run with two reporters and two alerts, for duplicates.
3. `Deployment`: fairness and the liveness of an approved release.
4. Pure operators checked against reference definitions: the health guard's threshold, SLO burn, release impact.
5. Integration health escalation, host agents.

Not modelled, and why: the request handlers of incidents, postmortems, the vault and the users work on one row each and
have no state of their own; SLO, reliability, cost and most of AIOps only read; SSH sessions, websockets, collectors and
backup scripts are I/O. Most JavaScript under `static/` is third-party (jQuery, Bootstrap, Popper, xterm) or
presentation; of the project's own pages the asynchronous parts are modelled.
