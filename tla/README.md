# Verification of the payment-failure remediation agent

TLA+ models, TLC runs and TLAPS proofs for the Python program under `src/`: a
Temporal workflow that takes a failed payment from the `payment.failed` event
through diagnosis, a deterministic policy engine, a human approval gate and an
action, with its state mirrored to two Postgres tables. Paths below without a
directory prefix are relative to `src/src/payment_failure_remediation_agent/`.

## 1. Inventory

| Component | State it keeps | Operations | Talks to |
|---|---|---|---|
| Case workflow (`workflows/payment_failure_case_workflow.py`) | `status`, two signal slots, the locals of `run()` (evidence, entry, policy decision, proposal, `attempt_count`) | `run`, `_transition`, `_audit`, `_collect_evidence`, `_await_approval`; signals `submit_approval`, `author_runbook`; query `get_status` | every activity, the review workflow (child) |
| Persistence activities (`activities/persistence.py`, `db/migrations/0001_init.sql`) | tables `cases`, `audit_events` | `persist_case_status`, `append_audit_event` | Postgres |
| Policy engine (`policy/rules_engine.py`) | none | `decide`, `evaluate_policy` | - |
| Proposal generator (`activities/remediation_proposal_agent.py`) | none | `propose_remediation` | - |
| Evidence connectors and gateway simulator (`activities/evidence_connectors/`, `simulator/`) | scripted scenarios | five `fetch_*` activities, `get_scenario` | - |
| Diagnosis agent (`activities/diagnosis_agent.py`) | none | `diagnose` (LLM call) | Anthropic API |
| Runbook retrieval (`activities/runbook_retrieval.py`, `runbook/`) | table `runbook_entries`, corpus | `retrieve_runbook_entry`, `pick_entry`, ranking | Postgres, Anthropic API |
| Actions (`actions/`) | none yet (stubs) | five `execute` activities, dispatched by name with an idempotency key | payment gateway, later |
| Verification, resolution analysis | none (stubs) | `verify_resolution`, `analyze_resolution` | - |
| Review workflow (`workflows/runbook_update_review_workflow.py`) | `status`, a decision slot | `run`, `submit_review_decision`, `get_status` | - |
| API (`api/main.py`) | none | ingestion, approve, reject, case, list, timeline, resolution | Postgres, Temporal |
| CLI (`cli.py`) | none | sends the two signals of the case workflow | Temporal |
| Customer page (`frontend/app/page.tsx`) | case id, resolution, poll timer | submit, poll, start over | API |
| Seed script (`scripts/seed_runbook_entries.py`) | an open transaction | upserts the corpus, commits | Postgres |
| Worker, config, other scripts | none | registration; evaluation by hand | - |

What is hard about it:

* **Signals at every await.** A decision may come before it is asked for, twice,
  or for a proposal that has been replaced; one slot holds the last.
* **At-least-once activities.** An attempt may fail, may commit and lose its
  acknowledgement, or may be timed out and commit later, after the workflow has
  moved on. Nothing in either persistence activity notices.
* **Errors that nobody catches.** `run()` never handles an `ActivityError`.
* **Nested loops.** The candidate loop is unbounded, the reinvestigation loop is
  capped; policy answer, proposal, approval and evidence must be of one round.
* **Two systems, no transaction.** The API commits a row, then starts a workflow.
* **Reads in two statements, over a lossy network.** What the customer page shows was
  true when it was read; cases move, customers start over, answers travel.
* **Copies of the corpus.** The worker, the seed script and the table each have one, of
  whatever release they come from.

What makes each component correct: the workflow never acts past policy or the
human gate, acts once per attempt, a bounded number of times, and ends; the tables
follow the workflow; the policy engine grants autonomy only when all it can check
was collected and speaks for it; ingestion starts one workflow per event and tells
every sender the same case; a review ends as the reviewer last said; the page shows
what is true of the case it watches, with one poll at a time, until the end; retrieval
never searches half a corpus, raises on no row as long as entries are only added, and shows
the judge what was evaluated.

## 2. Modules

| Module | Models | Uses |
|---|---|---|
| `PolicyEngine` | `decide`, its constants and its risk table, as pure operators | |
| `EvidenceConnectors` | the scenario table and the two evidence items the engine reads | |
| `CaseWorkflow` | one workflow execution, its activities, both tables, and who signals it | the two above |
| `CaseLifecycle` | abstract: the status graph and the counter | |
| `CaseRecord` | abstract: the two tables as whoever reads them sees them | `CaseLifecycle` |
| `CaseProperties` | the properties of `CaseWorkflow`, its inductive invariants, and the refinements `Lifecycle == INSTANCE CaseLifecycle WITH ...` and `Record == INSTANCE CaseRecord WITH ...` | `CaseWorkflow` |
| `MCCaseWorkflow` | the instances TLC checks | `CaseProperties` |
| `PolicyTable` | the policy engine over every combination of inputs | `PolicyEngine` |
| `CaseIntake` | abstract: what `POST /events/payment-failed` promises | |
| `Ingestion` | `receive_payment_failed`, concurrent deliveries, Postgres' unique key; implements `CaseIntake` | `CaseIntake` |
| `CustomerPortal` | the customer page and the resolution endpoint, composed with the intake and one record per case | `CaseIntake`, `CaseRecord` |
| `Ranking` | `rank_candidates` and `decide` of `runbook/ranking.py`, pure | |
| `RunbookRetrieval` | `retrieve_runbook_entry`, the judge, the table, the seed script, releases | `Ranking` |
| `MCRunbookRetrieval` | three releases of a small corpus | `RunbookRetrieval` |
| `RunbookReview` | the review workflow | |
| `CaseWorkflowProofs`, `CaseTablesProofs`, `CaseProgressProofs`, `PolicyTableProofs`, `IngestionProofs`, `CustomerPortalProofs`, `RunbookRetrievalProofs`, `RunbookReviewProofs` | theorems and proofs | the module named |

How the parts are composed. The two components that others depend on have an abstract
specification each, shown by TLC and by proof to be implemented, and the dependents are
built on the abstract one:

    CaseWorkflow --implements--> CaseRecord --walks--> CaseLifecycle
    Ingestion    --implements--> CaseIntake
    CustomerPortal = page + endpoint + CaseIntake + one CaseRecord per started case

so that the page is checked against every history of the tables that the workflow can
write and every answer that ingestion can give, and not against a third model of them.

Operators marked `mutant` are plausible wrong versions of the definition that
follows them. They are used nowhere; substituted for it, they make one property fail,
which shows that the property depends on that piece of code.

### CaseWorkflow and the code

`status`, `approval` and `authored` are the three fields of the workflow object;
`attempt_count`, `entry`, `policy`, `proposal`, `escalation_level` and `missing`
are locals of `run()` and `_await_approval`. `at` is the await `run()` is suspended
in: `persist` and `append` (the two activities of `_transition`; `_audit` has
only the second), `body` (the activity or `wait_condition` that follows the
transition in the part of `run()` belonging to `status`) or `child`. A step is what
the workflow does between two awaits, together with the activity result that
resumes it. `tries` counts the attempts of the awaited activity. `cases` is the
row; `audit` keeps the newest audit row, the action named by the newest approval packet
(which is what `GET /cases/{id}/resolution` reads) and, as history, `own`, the newest row
that was not late, and `copies`, how many more of it earlier attempts have inserted: every
attempt of `append_audit_event` that commits adds a row. `decision` and the `sent`
tag of a decision, `landed`, `charged` and `review` are history. The tag says whether a
decision was sent in the round, while an earlier proposal was carried out, or has been
taken by `run()` before.

| Action | Code |
|---|---|
| `PersistStatus`, `AppendAudit` (with `Continue`) | `_transition`, `_audit` and the two persistence activities, then what `run()` does next |
| `CollectEvidence` | `_collect_evidence`: any subset of the policy's sources may fail; an unknown scenario fails all |
| `Diagnose`, `Retrieve`, `TakeAuthored`, `Evaluate`, `Propose` | the parts of `run()` up to the approval packet |
| `TakeApproval`, `SlaTimeout` | `_await_approval` and the branches on its result |
| `Execute`, `Verify`, `Analyze`, `StartReview` | the rest of `run()` |
| `AttemptFails`, `AttemptUnacknowledged`, `AttemptOverruns`, `LateCommit` | the attempts that do not return a result in time |
| `approve_case`, `reject_case`, `cli_main` (with the handlers `submit_approval`, `author_runbook`) | the signals, from the two admin endpoints or the CLI |

Abstracted: the diagnosis is not in the model since neither the workflow nor the
engine branches on it. Retrieval may answer any corpus action or none. Amounts are
in cents. A worker crash is not an action of its own: the execution is
replayed from its history, so all it does to the state is to fail or
unacknowledge the attempt it was running. The two evidence connectors are
collected in one step because neither writes anything. An action's attempts never
overrun: all of them are given the key of the round, so a late effect is one with
that key, which `charged` already holds or soon will. A row's `created_at` is the time its
transaction began. `LateCommit` has the worse case, an attempt that was held up before that
(waiting for a connection), whose row is then the newest; a row that only committed late
sorts in where it belongs and changes less.

### Ingestion and the code

One delivery per request; `pc` is the await its handler is at (`select`, `insert`,
`commit`, `start`), or its answer. `holder` is the open transaction that has inserted a key,
which blocks a second `INSERT` of it. `DatabaseFails` is any query raising,
`Commit` may lose its answer, `StartFails` may or may not have reached Temporal, and
`Crash` kills every handler at once. The gateway's redelivery of an event is another
request with the same key.

### CustomerPortal and the code

`caseId`, `resolution` and `posting` are the page's state (`isSubmitting` is
`posting # NoCase`); `resolution` is tagged with the case it was read for, which the page
does not know. `polls` are the chains of `pollOnce`: a request at the first or second
statement of the endpoint, its answer on the way back, or a timer. `Watch` is
`setCaseId` with the effect it triggers (cleanup of the timer, a new chain), `Reload` the
mount of a page whose URL names the case, `StartOver` the button that comes with a final
answer. Each click is an event of its own (the key is `crypto.randomUUID()`), so
`Duplicate` of the intake does not occur here; the endpoint works on a `POST` whether or not
the page still waits for it. `CaseStep` is a step of the case's `CaseRecord`.

Left out: the form's text, error messages, and the development build, in which React's strict
mode runs the first effect twice.

### RunbookRetrieval and the code

`head` is the newest release, `worker` the one the worker was started from, `seeding` the
one the running script was started from; `table` is what is committed and `upserted` the
entries its open transaction has written. A row stands for the text whose embedding it stores
and for the action it recommends, both of the release that wrote it: until an entry is seeded
again, the search ranks an old text, although the judge is shown the new one. `Nearest` is
`ORDER BY embedding <=> ... LIMIT 3` over the similarities `score` of the texts to the
diagnosis, which are arbitrary; `FindCandidates` includes the lookup in
`CORPUS_BY_ID`, which raises on an unknown id and so ends the attempt. `Judge` may name a
candidate, `NONE`, another entry of the corpus (nobody checks that it was a candidate) or
an id that is none. Seeding never deletes a row. `rank_candidates` puts each candidate at the
place that the number of candidates ahead of it gives, which is where a stable sort puts it.

### RunbookReview and the code

`at` distinguishes a workflow that exists but has not processed its first task
(`scheduled`): signals delivered then are applied before `run()`, which clears the
slot. `heard` is history: the last decision since `run()` began.

## 3. What is checked

| Run | Module, config | Bounds | Shows |
|---|---|---|---|
| `gate` | `MCCaseWorkflow`, `CaseGate` | 4 scenarios (low-risk, over the limit, fraud, unknown), all forced branches, 2 attempts, 1 escalation, 1 reinvestigation, no late write | `TypeOK`, `HumanGate`, `UnattendedIsSafe`, `FraudActionIsBlind`, `OneEffectPerAttempt`, `AttemptsAreBounded`, `FollowsLifecycle`, `FollowsRecord`, `EveryStepCounts` |
| `tables` | `CaseTables` | 1 scenario, resolved or not, 2 attempts, no escalation before the case is escalated, 1 reinvestigation, 1 late write at a time | `RowKeepsUp`, `PacketNamesTheAction`, `TablesTellWhatRan`, `EndIsOnRecord`, `TrailIsContiguous` |
| `live` | `CaseLive` | 2 scenarios, resolved or not, limits as in `gate` | `ApprovalWaitEnds`, `CaseSettles` |
| `policy_table` | `PolicyTable` | amounts around $100, all actions and codes, absent fields | `AutonomyIffAllClear`, `HardBlockIffFraudSeen` |
| `ingestion` | `Ingestion` | 3 deliveries, 2 events, 1 crash | `TypeOK`, `OneWorkflowPerKey`, `SameCaseForSameKey`, `WorkflowHasRow`, `ImplementsIntake`, `EveryDeliveryEnds` |
| `portal` | `CustomerPortal` | 2 reports, 2 actions, no reinvestigation, any number of reloads and lost requests | `TypeOK`, `OnePoll`, `ShownIsWatched`, `ResolvedIsTrue`, `LeavesWhenOver`, `CustomerLearns` |
| `retrieval` | `MCRunbookRetrieval`, `RunbookRetrieval` | 4 entries, 3 releases (one adds an entry and rewrites another, one removes one), 5 texts, 2 seedings, 2 attempts, scores that tie | `TypeOK`, `WholeCorporaOnly`, `LookupsSucceed`, `DecideMeansClearWinner`, `EvaluationCarriesOver`, `RetrievalEnds` |
| `review` | `RunbookReview` | 2 cases | `TypeOK`, `OutcomeIsLastDecision`, `VerdictEndsReview` |

Why the bounds are enough. One escalation and one reinvestigation are the fewest that go
round each loop and then hit its cap, and the counters only meet those caps; the
theorems cover the source's values (3, 2, 3) and all others. Two attempts are one retry
and its exhaustion. `tables` leaves out the escalation notice, an audit row of the same
kind as the auto-approval row it has. Two rounds are what it takes for a decision to
outlive its round. One late write at a time is enough for a write to cross any number of
transitions. Three deliveries let two race and a third find what they left. Two reports are
what it takes for an answer about the first to meet the page of the second. Four entries
are one more than `CANDIDATE_COUNT`, and two seedings let an old table meet a new release.
In `portal` the cap of 0 makes `VERIFICATION` escalate; the loop of the record is
`gate`'s matter.
`CHECK_DEADLOCK FALSE` stands where the system really stops: an execution that has
ended, deliveries all answered, reviews decided.

Fairness. `FairSpec` of the case workflow is weak fairness of `Progress`: a
scheduled activity is attempted and answered or timed out, a timer fires, a satisfied
`wait_condition` resumes. Temporal redelivers each of these until a worker has
processed it. Progress includes failing attempts, so nothing assumes that an activity ever
succeeds; the retry limit is what ends it. Humans, signals and late writes
have no fairness. In `Ingestion` each handler that is not blocked goes on, and
failures are never owed. In `RunbookReview` the worker processes the first task and
wakes a satisfied wait. In `CustomerPortal` the browser's timer fires (weak), and a
statement or an answer that is reached again and again gets through in the end (strong):
requests may be lost any number of times, but not every one for ever; neither the case nor
the customer owes anything: `CustomerLearns` holds even for one who reloads for ever. In
`RunbookRetrieval` a scheduled attempt is run.

### Statements of the repository that the code does not keep

Each has a run whose one property is that statement; TLC's counterexample is the
execution described.

| Run | Statement | What the code does |
|---|---|---|
| `broken_execution` | `DESIGN.md:57`: exhausted execution retries escalate | the `ActivityError` is not caught; the execution fails in `EXECUTING` |
| `broken_round` | `test_workflow_branches.py:427-430`: one approval per round | a second approval of one round is taken in the next |
| `broken_repeat` | `DESIGN.md:218`: a repeat goes to a human | the case history does not know what this case has done |
| `broken_acknowledge` | `api/main.py:4-6`: dedupes, inserts, starts | after a failure between commit and start no delivery starts the workflow |

More sentences that do not describe the code, with no run of their own:

* `activities/persistence.py:5-6`, the tables mirror the workflow's state: the `UPDATE` of a
  timed-out attempt commits after the retry and a later transition and puts the row
  back. `RowKeepsUp` holds only until one lands.
* `DESIGN.md:123`, one row per transition: an insert whose acknowledgement was lost is
  inserted again, and a late one is a row more. `TrailIsContiguous` says what remains: a row
  that does not continue the trail is a copy of the row before it, by a further attempt of the
  same call and no more of them than attempts, or the late row of a timed-out attempt.
* `api/main.py:59-61`, fraud never passes `AWAITING_APPROVAL`: without gateway
  evidence the fail-safe rule asks a human. `FraudActionIsBlind` allows for it.
* `DESIGN.md:81`, all human gates have SLA timers: authoring and review wait for ever.
  `CaseSettles` has to except the first.
* `api/main.py:253-255`, a resolved case names the action taken: a late packet of an
  earlier round is the newest. `PacketNamesTheAction` holds only until one lands, and
  `ResolvedIsTrue` is about the newest packet.
* `api/main.py:197-199`, a packet is logged for every case: a case that policy rejects has none.
* `runbook/corpus.py:32`, the category is a hard pre-filter at retrieval: the query has no
  `WHERE`, and only the offline evaluation filters (`rank_candidates`' third argument).
* `activities/runbook_retrieval.py:22-24`, recall@3 was measured, so three candidates are enough:
  what `scripts/eval_runbook_retrieval.py` ranks is `CORPUS` as checked out, never the table. Its
  figures (variant B: `situation`, no prefix, no filter) carry over to the running system only
  while the table was last seeded from the worker's release and no entry was ever removed from
  the corpus, which is the condition of `EvaluationCarriesOver`. Before the script is run
  again the search ranks the embeddings of old texts, and a removed entry keeps its row, and
  its place among the three, for ever.
* `db/migrations/0002_runbook_entries.sql:23`, the body is what is embedded: the seed script
  embeds `situation`.
* `frontend/app/page.tsx:74-76`, one request at a time: true of the production build
  (`OnePoll`); a development build starts two chains.

`HumanGate` is what remains true of approvals once `broken_round` has shown that one may be
taken in a later round than it was sent for: none is ever taken twice.
`FraudActionIsBlind` is what remains true of fraud: an action needs missing
gateway evidence and a human who approved. `RowKeepsUp` and `PacketNamesTheAction` say what
remains true of the tables: they agree with the workflow until a timed-out write lands;
`TrailIsContiguous` holds beyond that. Until then a reader needs nothing but the tables:
`TablesTellWhatRan` is what may be concluded from the newest packet, the counter and the newest
audit row, and `EndIsOnRecord` that the end of a run is there to be read.

`LeavesWhenOver` and `CustomerLearns` are about cases that end. A case whose execution failed, or
whose workflow was never started (`broken_execution`, `broken_acknowledge`), is shown as in progress
for ever: the page has no way to tell, and no property claims that it does.

## 4. What is proved

All theorems hold for every value of the constants: any scenarios, actions and
limits, subject to `LimitsAssumption` (`MAXIMUM_ATTEMPTS` positive, the other
limits natural numbers), `AmountsAssumption`, `NoRequestAssumption`,
`MaxCrashesAssumption`, those of the portal (no click is `NoCase`, the cap is a natural
number) and `RetrievalAssumption` (a corpus is finite and its scores are integers, since only
their order and differences matter; the rest says what a release is).

* `CaseWorkflowProofs`. `TypeCorrect` is inductive as it stands. `HumanGate` is not:
  that an approved round reached `EXECUTING` says nothing unless the auto-approval row
  belongs to a policy answer that needs no human, and nothing about the evidence unless
  the answer is still the engine's answer for the entry that was proposed. `GateInv` adds
  exactly that: from `REMEDIATION_PROPOSED` on, `policy` is
  `decide` of the current entry and evidence, the proposal is that entry, a
  pending packet or auto-approval row pins the place in `run()`, and the slot holds no decision
  that was taken before. `GateStep` goes through
  the actions one by one. `UnattendedIsSafeHolds` and `FraudActionIsBlindHolds` then
  follow from `GateInv` and the rules (`AutoApprovedIsSafe`).
* `CaseTablesProofs`. The four table properties from `TableInv`: until a late write lands
  the row is the workflow's state or, while it is being written, one step of the graph behind
  it (`RowIsOneStepBehind`). `TrailInv` needs no such condition: the trail ends where the pending
  row starts, or with copies of that row, one for an earlier attempt each. `ImplementsRecord` assumes
  `MaxLate = 0`, the case in which the tables have something to promise.
* `CaseProgressProofs`, on top of the two. `ImplementsLifecycle`: every step is a move along the
  graph of `CaseLifecycle`, a change of its counter, an end, or leaves status, counter
  and outcome alone; it needs `GateInv` for what a pending row says of the
  status. `OneEffectPerAttemptHolds` and `AttemptsAreBoundedHolds` rest on
  `AttemptInv`, which says at each place of the loop which keys have been drawn and used:
  as many as attempts made, one more between the draw and the verification, and for an
  escalated case which of the two it was. `TablesTellWhatRanHolds` reads that through the tables,
  and needs `RefusalInv`: a refusal is the last audit row of a case, so one that is the
  newest row is about the round the counter stands at. `EndIsOnRecordHolds` needs `EndInv`:
  `run()` returns from a terminal status only and is never suspended in one.
  `EveryStepCountsHolds` is the safety half of `CaseSettles`, for all limits:
  `WorkLeft`, five natural numbers (reinvestigations, statuses of the round, escalations,
  awaits of the status, attempts of the activity), is lowered lexicographically by every step of a
  running case that does not end it, except by the rejection that asks for another
  candidate; signals and late writes leave it and the place in `run()` alone.
  A lemma (`CountsRunOut`) has that order well-founded; it counts its way to a least number,
  since the library's induction theorems cannot be instantiated. `WaitsForAuthorOnly`: a running
  case that waits for no author has a step due by that step's own guard (`StepIsDue`): an attempt,
  the child's start, a decision in the slot or, whenever there is none, the armed timer.
  What `CaseSettles` says beyond these is that due steps are taken, and the passage from
  steps to behaviours; both speak of fairness and stay with TLC.
* `PolicyTableProofs`. Both readings of the rule table for arbitrary actions, codes
  and amounts.
* `IngestionProofs`. `RowInv` ties the open transaction to the handler about to
  commit and the committed row to its only handler. It is also what `ImplementsIntakeHolds`
  needs: a commit is an `Accept` because no row was there, an answer a `Created` or a
  `Duplicate` because of whose the row is. `DeliveriesMoveOn` is the safety half of
  `EveryDeliveryEnds`: nobody waits for one who waits, and no step takes a handler back.
* `CustomerPortalProofs`. `PortalInv`: at most one chain, for the watched case; what it
  has read so far is true of the case, and stays true because a closed or escalated
  case moves no more (this is where the status graph is used); a case is watched only after
  it was acknowledged, and acknowledged only once started. `LeavesWhenOverHolds` reads the same
  invariant for the steps that end a chain. That the composition is one of the abstract
  specifications needs no theorem: its server and case steps are their actions.
* `RunbookRetrievalProofs`. `RetrievalInv`: an open transaction has written entries of
  its release only, what is committed are unions of whole corpora, and the rows of the release
  seeded last are as that release has them and, if entries are only added, all there are
  (seedings never go back: the script is started from the newest release); without an early
  seeding or a removal such a table holds nothing the worker does not know. The ranking:
  being ahead is a strict total order even with ties (`AheadIsAnOrder`), so places are distinct
  (`PlacesAreOrdered`), all of them taken because there are as many as candidates
  (`PlacesAreTaken`), and the list sorted and complete (`RankedIsSorted`). From these
  `EvaluationCarriesOverHolds` (the table is searched as if it were the corpus, `SeededIsCorpus`,
  and the nearest of a corpus hold its first places, `NearestAreFirst`) and
  `DecideMeansClearWinnerHolds` (the first rival is the strongest one).
* `RunbookReviewProofs`. `SlotInv`: a waiting slot is empty or holds the last decision heard.

`CaseTablesProofs` and `CustomerPortalProofs` together say, for every value of the constants,
that a customer who is shown "resolved" has a closed case whose newest packet is the one
named, and that this packet names the action that ran, as long as no timed-out write lands.

Only model-checked: the liveness properties (`ApprovalWaitEnds`, `CaseSettles`,
`EveryDeliveryEnds`, `VerdictEndsReview`, `CustomerLearns`, `RetrievalEnds`), because the prover
does not reason about fairness, and that the four statements above are not kept. Every other
property of a run is a theorem.

## 5. Not modelled

* The LLM calls (diagnosis, judge) beyond their effect on control, and embeddings: the
  models allow any answer and any similarities.
* The admin queue, `GET /cases/{id}` and the timeline: one read-only statement each, over
  tables that are modelled.
* The fixture and evaluation scripts, but for the ranking they share with the package.
* Process start-up and configuration.
* A URL that names a case that does not exist (the page polls it for ever).
* `DESIGN.md:78` lets a human signal an escalated case as resolved, and no code does; there is
  nothing to model.

## 6. Plan

1. *Done:* the case workflow with its tables, policy engine, status graph, ingestion and
   review; core theorems.
2. *Done:* the tables as an abstract record that the workflow implements, the intake's promise
   that ingestion implements, the customer page composed with both, retrieval with releases and
   seeding, ranking; their theorems.
3. *Done:* ranking, what the tables tell, and the safety half of termination proved; every
   invariant and action property of a run is a theorem.
4. *Left:* the safety halves of `RetrievalEnds` and `CustomerLearns`; the review workflow
   composed with the case that starts it (a child id in use when a reset case starts it again);
   an abstract specification of retrieval for `CaseWorkflow`'s `Retrieve` step, which is now the
   free choice that such a specification would allow.
