--------------------------- MODULE CaseProperties ---------------------------
(***************************************************************************)
(* What the case workflow must guarantee, over the state of CaseWorkflow.  *)
(* Statements that fail are at the end: each is a sentence of the          *)
(* repository that the code does not keep.                                 *)
(***************************************************************************)
EXTENDS CaseWorkflow

Writes == {"persist", "append"}

\* The workflow's fields, its two tables and the ghosts hold their types, and no
\* activity is attempted more often than the retry policy allows.
TypeOK ==
    /\ scenario \in Scenarios /\ force_scenario \in ForceScenarios
    /\ status \in CaseStatus
    /\ attempt_count \in Nat
    /\ missing \subseteq PolicySources
    /\ entry \in Actions /\ proposal \in Actions
    /\ policy \in [approved : BOOLEAN, requires_approval : BOOLEAN,
                   rule_fired : Rules \cup {"undecided"}]
    /\ decision \in Decision /\ approval \in Decision
    /\ escalation_level \in Nat
    /\ authored \in Actions
    /\ at \in Writes \cup {"body", "child"}
    /\ tries \in Nat /\ tries < MAXIMUM_ATTEMPTS
    /\ pending \in AuditRow
    /\ outcome \in Terminal \cup {"running", "failed"}
    /\ cases \in CaseRow
    /\ audit \in [last : AuditRow, packet : Actions, own : AuditRow, copies : Nat]
    /\ late_status \subseteq CaseRow /\ late_audit \subseteq AuditRow
    /\ landed \in BOOLEAN
    /\ key \in Nat /\ charged \subseteq Nat
    /\ review \in Nat

-----------------------------------------------------------------------------
\* Statuses from which the action of the current round has been dispatched.
Acted == {"EXECUTING", "VERIFICATION", "RESOLUTION_ANALYSIS", "CASE_CLOSED"}

IsFraud == KnownScenario(scenario) /\ SCENARIOS[scenario].decline_code \in FRAUD_DECLINE_CODES

\* No action is dispatched that policy refused, nor, when policy asked for a
\* human, without an approval that run() took in this round and in no other: a
\* decision counts once, so the approval of one proposal is not that of the next
\* candidate or reinvestigation.  One sent, but not taken, while an earlier
\* proposal was carried out does count: OneApprovalPerRound, below, is about it.
HumanGate ==
    status \in Acted =>
        /\ policy.approved
        /\ policy.requires_approval =>
             decision.decision = "approve" /\ decision.sent # "taken"

\* Autonomy is only ever granted on what is true of the case: an action that
\* runs with no human involved is a low-risk one, both evidence items the
\* policy relies on were collected, and the payment is no fraud and under the
\* limit.  It is the proposal, not the entry policy looked at, that runs.
UnattendedIsSafe ==
    (status \in Acted /\ ~policy.requires_approval) =>
        /\ missing = {}
        /\ KnownScenario(scenario) /\ ~IsFraud
        /\ SCENARIOS[scenario].amount < AUTO_APPROVE_BELOW_AMOUNT
        /\ RiskTier(proposal) = "low"

\* An action runs on a payment the gateway declined as fraud only if the
\* gateway evidence was missing and a human approved: the hard block cannot be
\* passed by an authored entry, another candidate or a reinvestigation.
FraudActionIsBlind ==
    (status \in Acted /\ IsFraud) =>
        "gateway" \in missing /\ decision.decision = "approve"

\* Why the three hold: the strengthening that each step of run() preserves.
\* From REMEDIATION_PROPOSED on, the policy decision is the engine's answer for
\* the entry and the evidence at hand, and the proposal is that same entry.
Diagnosed == {"DIAGNOSIS", "RUNBOOK_RETRIEVAL", "HUMAN_RUNBOOK_AUTHORING", "POLICY_RISK_CHECK"}
Proposed  == {"REMEDIATION_PROPOSED", "AWAITING_APPROVAL"} \cup Acted

GateInv ==
    /\ status \in Diagnosed \cup Proposed => Broken(scenario) \subseteq missing
    /\ status \in Proposed =>
         /\ policy.approved
         /\ policy = decide(entry, GatewayEvidence(scenario, missing),
                                   CaseHistoryEvidence(scenario, missing))
    /\ status \in Proposed \ {"REMEDIATION_PROPOSED"} => proposal = entry
    /\ pending.event \in {"approval_packet", "policy_auto_approved"} =>
         status = "REMEDIATION_PROPOSED" /\ proposal = entry
    /\ pending.event = "policy_auto_approved" => ~policy.requires_approval
    /\ pending.event = "created" => status = "CASE_CREATED"
    /\ at = "child" => status = "RESOLUTION_ANALYSIS"
    /\ approval.sent # "taken"
    /\ HumanGate

\* Reasons to escalate a case without acting on it in the current round.
Refused == {"policy_hard_reject", "approval_reject_no_automation",
            "approval_sla_escalations_exhausted"}

\* Retries of an action reuse the key of the round, so an adapter that dedupes
\* on it acts once per attempt; a case that policy or a human refused, or that
\* nobody answered for, has acted for its earlier attempts and no more.
OneEffectPerAttempt ==
    /\ charged \subseteq 1..(attempt_count + 1)
    /\ status \in Acted \ {"EXECUTING"} => charged = 1..(attempt_count + 1)
    /\ (status = "CASE_ESCALATED" /\ pending.event \in Refused) => charged = 1..attempt_count

\* The reinvestigation cap bounds what a case can ever do: once the counter is
\* past it the case is escalated and no further key is drawn.
AttemptsAreBounded ==
    /\ attempt_count > MAX_REINVESTIGATION_ATTEMPTS =>
         attempt_count = MAX_REINVESTIGATION_ATTEMPTS + 1 /\ status = "CASE_ESCALATED"
    /\ key <= MAX_REINVESTIGATION_ATTEMPTS + 1

\* Why the two hold: the keys drawn and used, as run() goes round its loop.
KeysUsed(n) == key = n /\ charged = 1..n

AttemptInv ==
    /\ attempt_count > MAX_REINVESTIGATION_ATTEMPTS =>
         /\ attempt_count = MAX_REINVESTIGATION_ATTEMPTS + 1
         /\ status = "CASE_ESCALATED" /\ KeysUsed(attempt_count)
    /\ status \notin Acted \cup {"CASE_ESCALATED"} => KeysUsed(attempt_count)
    /\ (status = "EXECUTING" /\ at # "body") => KeysUsed(attempt_count)
    /\ (status = "EXECUTING" /\ at = "body") =>
         /\ key = attempt_count + 1
         /\ charged \in {1..attempt_count, 1..(attempt_count + 1)}
    /\ status \in Acted \ {"EXECUTING"} => KeysUsed(attempt_count + 1)
    /\ status = "CASE_ESCALATED" =>
         KeysUsed(attempt_count) \/ (pending.event \notin Refused /\ KeysUsed(attempt_count + 1))

\* Unless the write of a timed-out attempt lands late, the case row is the
\* workflow's state, or its previous state while the row is being written.
RowKeepsUp ==
    ~landed =>
        \/ cases = [status |-> status, attempt_count |-> attempt_count]
        \/ at = "persist" /\ cases.status = pending.from

\* The packet an approver sees is that of the proposal they decide on, and the
\* newest packet, which the customer is told of, names the action that ran.
PacketNamesTheAction ==
    (~landed /\ status \in Acted \cup {"AWAITING_APPROVAL"}) => audit.packet = proposal

TrailEnd == IF audit.own = NoRow THEN NoStatus ELSE audit.own.to

\* An attempt inserts its row before it is timed out.
RowInTime == AppendAudit \/ (AttemptUnacknowledged /\ at = "append")

\* The audit trail has no gap, and no copies but those of retries: a row inserted
\* in time starts in the status the last such row ended in and, if no late write
\* has touched the case row, ends in the one that has; or it is a copy of that
\* last row, by a further attempt of the same call, while no attempt of it has
\* been answered.  Any other row is the late one of a timed-out attempt.
TrailIsContiguous ==
    [][/\ RowInTime =>
            \/ /\ audit'.own # audit.own
               /\ audit'.own.from = TrailEnd
               /\ ~landed => audit'.own.to = cases.status
            \/ /\ audit'.own = audit.own
               /\ audit.copies \in 1..tries
       /\ (audit' # audit /\ ~RowInTime) =>
            audit'.last \in late_audit /\ audit'.own = audit.own]_vars

Lifecycle ==
    INSTANCE CaseLifecycle WITH status <- status, attempt_count <- attempt_count,
                                outcome <- outcome

\* The statuses a case goes through are those of the status graph.
FollowsLifecycle == Lifecycle!Spec

Record ==
    INSTANCE CaseRecord WITH status <- cases.status, attempt_count <- cases.attempt_count,
                             packet <- audit.packet, Packets <- Actions, NoPacket <- NoAction

\* With no late write, whoever reads the two tables sees the case walk the same
\* graph, status and counter in step, and the packet stand from the request for
\* approval to the end of the round: no status is skipped or seen again because
\* an attempt was repeated or given up.
FollowsRecord == Record!Spec

\* Why the four hold: until a late write lands the row is the workflow's state or
\* one step of the graph behind it, and the trail ends where the next row starts,
\* unless copies of that row are in, one for an earlier attempt each.
RowIsOneStepBehind ==
    /\ cases.status = pending.from
    /\ \/ /\ status \in Lifecycle!Successors(cases.status)
          /\ attempt_count = cases.attempt_count
       \/ /\ cases.status = "VERIFICATION"
          /\ attempt_count = cases.attempt_count + 1
          /\ status = IF attempt_count > MAX_REINVESTIGATION_ATTEMPTS
                        THEN "CASE_ESCALATED" ELSE "REINVESTIGATION"

PendingInv ==
    /\ pending.to = status
    /\ pending.from = NoStatus => pending.event = "created"
    /\ pending.event \in {"approval_packet", "policy_auto_approved"} => at = "append"
    /\ pending.event = "approval_packet" => pending.action = proposal
    /\ pending.event = "sla_escalation" => pending.level = escalation_level

TableInv ==
    ~landed =>
        /\ cases = CurrentRow \/ (at = "persist" /\ RowIsOneStepBehind)
        /\ (status \in Acted \cup {"AWAITING_APPROVAL"} \/ pending.event = "policy_auto_approved")
              => audit.packet = proposal

TrailInv ==
    /\ at \in Writes =>
         \/ pending.from = TrailEnd /\ audit.own # pending /\ audit.copies = 0
         \/ /\ at = "append" /\ audit.own = pending /\ audit.copies > 0
            /\ outcome = "running" => audit.copies <= tries
    /\ at \notin Writes => audit.own = pending /\ audit.copies = 0
    /\ ~landed => audit.last = audit.own

\* What a reader may conclude from the tables alone, until a late write lands.
\* The newest packet is that of the proposal the row's status is about; a closed
\* case has acted once more than its counter says, and one that the newest audit
\* row says was refused has not.
TablesTellWhatRan ==
    ~landed =>
        /\ cases.status \in Acted \cup {"AWAITING_APPROVAL"} => audit.packet = proposal
        /\ cases.status = "CASE_CLOSED" => charged = 1..(cases.attempt_count + 1)
        /\ (cases.status = "CASE_ESCALATED" /\ audit.last.event \in Refused)
              => charged = 1..cases.attempt_count

\* Why it holds: a refusal is the last thing a case puts on record.
RefusalInv ==
    /\ pending.event \in Refused => status = "CASE_ESCALATED"
    /\ (~landed /\ audit.last.event \in Refused) => audit.last = pending

\* run() returns with its result in both tables, and goes no further than that:
\* who polls the row for the end of a case waits for no status that run() has
\* passed without writing it, nor for one that it never returned with.
EndIsOnRecord ==
    /\ outcome \in Terminal =>
         /\ status = outcome
         /\ ~landed => cases = CurrentRow /\ audit.last.to = outcome
    /\ outcome = "running" => ~(at = "body" /\ status \in Terminal)

\* Why, with TableInv: where run() is when it returns, and that it stops nowhere else.
EndInv ==
    /\ outcome \in Terminal => status = outcome /\ at = "body"
    /\ (outcome = "running" /\ at = "body") =>
         status \notin Terminal \cup {"CASE_CREATED", "REINVESTIGATION"}
    /\ status = "CASE_CREATED" => pending.event = "created"

\* What lies ahead of run(), the most significant first: reinvestigations, statuses
\* of the round, escalations, awaits within the status, attempts of the activity.
StatusesLeft ==
    [CASE_CREATED |-> 12, REINVESTIGATION |-> 12, EVIDENCE_COLLECTION |-> 11,
     DIAGNOSIS |-> 10, RUNBOOK_RETRIEVAL |-> 9, HUMAN_RUNBOOK_AUTHORING |-> 8,
     POLICY_RISK_CHECK |-> 7, REMEDIATION_PROPOSED |-> 6, AWAITING_APPROVAL |-> 5,
     EXECUTING |-> 4, VERIFICATION |-> 3, RESOLUTION_ANALYSIS |-> 2,
     CASE_CLOSED |-> 1, CASE_ESCALATED |-> 1]

AwaitsLeft ==
    CASE at = "persist" -> 5
      [] at = "append" /\ pending.event = "approval_packet" -> 2
      [] at = "append" /\ pending.event = "policy_auto_approved" -> 1
      [] at = "append" /\ pending.event \notin {"approval_packet", "policy_auto_approved"} -> 4
      [] at = "body" -> 3
      [] at = "child" -> 0

WorkLeft ==
    << MAX_REINVESTIGATION_ATTEMPTS + 1 - attempt_count,
       StatusesLeft[status],
       IF status = "AWAITING_APPROVAL" THEN MAX_APPROVAL_ESCALATIONS - escalation_level ELSE 0,
       AwaitsLeft,
       MAXIMUM_ATTEMPTS - tries >>

Counts == Nat \X Nat \X Nat \X Nat \X Nat

\* Lexicographically less.
Less(a, b) == \E i \in 1..5 : a[i] < b[i] /\ \A j \in 1..5 : j < i => a[j] = b[j]

\* The safety half of CaseSettles, for any limits: what lies ahead of a run are
\* five natural numbers, and every step of Temporal's or the worker's that does not
\* end it lowers them, but for the rejection that asks for another candidate; no
\* signal, however many arrive, and no late write puts the end off.
EveryStepCounts ==
    [][outcome = "running" =>
          /\ WorkLeft \in Counts
          /\ \/ UNCHANGED control /\ Environment /\ WorkLeft' = WorkLeft
             \/ Less(WorkLeft', WorkLeft)
             \/ outcome' # "running"
             \/ TakeApproval /\ approval.decision = "reject_try_different"]_vars

\* An approval request is answered, escalated or ended by a failure: run()
\* never waits in AWAITING_APPROVAL for ever.
ApprovalWaitEnds ==
    (status = "AWAITING_APPROVAL" /\ outcome = "running")
        ~> (status # "AWAITING_APPROVAL" \/ outcome # "running")

\* Every case ends, unless it waits for a runbook author for ever or a human
\* rejects one candidate after another for ever.
CaseSettles ==
    \/ <>(outcome # "running")
    \/ <>[](status = "HUMAN_RUNBOOK_AUTHORING" /\ authored = NoMatch)
    \/ []<><<TakeApproval /\ approval.decision = "reject_try_different">>_vars

-----------------------------------------------------------------------------
\* DESIGN.md:57: an action whose retries are exhausted escalates the case.
FailedExecutionEscalates == outcome = "failed" => ~(status = "EXECUTING" /\ at = "body")

\* test_workflow_branches.py:427-430: every round needs an approval of its own.
OneApprovalPerRound ==
    (status = "EXECUTING" /\ policy.requires_approval) => decision.sent = "current"

\* DESIGN.md:218: a repeat of a remediation goes to a human.
RepeatNeedsHuman == (status = "EXECUTING" /\ attempt_count > 0) => policy.requires_approval
=============================================================================
