---------------------------- MODULE CaseWorkflow ----------------------------
(***************************************************************************)
(* One execution of PaymentFailureCaseWorkflow, the activities it runs and *)
(* the two tables those activities write.                                  *)
(*                                                                         *)
(* Temporal runs an activity at least once: an attempt may fail before it  *)
(* has done anything, may take effect and lose its acknowledgement, or may *)
(* be timed out while it is still running and take effect later.  After    *)
(* MAXIMUM_ATTEMPTS attempts the error reaches run(), which catches none,  *)
(* so the execution fails.  A worker that crashes is replaced and replays  *)
(* its history: workflow state survives, and the attempt the worker was    *)
(* running is one of the failed or unacknowledged attempts above.          *)
(*                                                                         *)
(* Signals are handled at every await; each handler overwrites one slot.   *)
(***************************************************************************)
EXTENDS PolicyEngine, EvidenceConnectors, FiniteSets

CONSTANTS
    Scenarios,           \* event_payload["scenario"] of the cases considered
    ForceScenarios,      \* CaseInput.force_scenario values considered
    RunbookActions,      \* recommended_action of the runbook corpus entries
    AuthoredActions,     \* recommended_action a human may write in an entry
    RegisteredActions,   \* action activities the worker registers
    MAXIMUM_ATTEMPTS,              \* DEFAULT_RETRY_POLICY
    MAX_APPROVAL_ESCALATIONS,
    MAX_REINVESTIGATION_ATTEMPTS,
    MaxLate              \* bound: timed-out attempts still running at a time

ASSUME LimitsAssumption ==
    /\ MAXIMUM_ATTEMPTS \in Nat \ {0}
    /\ MAX_APPROVAL_ESCALATIONS \in Nat
    /\ MAX_REINVESTIGATION_ATTEMPTS \in Nat
    /\ MaxLate \in Nat

VARIABLES
    scenario, force_scenario,   \* case_input
    status,                     \* self.status
    attempt_count,
    missing,                    \* evidence: the policy sources that failed
    entry,                      \* runbook_entry.recommended_action, or NoMatch
    policy,                     \* policy_decision
    proposal,                   \* proposal.action_name
    decision,                   \* approval_decision consumed in this round
    escalation_level,
    approval,                   \* self._approval_decision
    authored,                   \* self._runbook_authoring_entry
    at,                         \* the await run() is suspended in
    tries,                      \* attempts made of the activity awaited
    pending,                    \* arguments of the append_audit_event call
    outcome,                    \* of the execution: "running" or its result
    cases, audit,               \* the tables: this case's row, its trail
    late_status, late_audit,    \* writes of timed-out attempts, uncommitted
    landed,                     \* history: such a write has been committed
    key, charged,               \* keys drawn; keys an action ran with
    review                      \* history: child workflows started

inputs  == <<scenario, force_scenario>>
locals  == <<missing, entry, policy, proposal, decision, escalation_level>>
slots   == <<approval, authored>>
control == <<status, at, tries, pending>>
tables  == <<cases, audit, late_status, late_audit, landed>>
effects == <<key, charged, review>>
vars    == <<inputs, control, attempt_count, locals, slots, outcome, tables, effects>>

-----------------------------------------------------------------------------
NoMatch  == "no match"
NoAction == "no action"
NoStatus == "NULL"

CaseStatus ==
    {"CASE_CREATED", "EVIDENCE_COLLECTION", "DIAGNOSIS", "RUNBOOK_RETRIEVAL",
     "HUMAN_RUNBOOK_AUTHORING", "POLICY_RISK_CHECK", "REMEDIATION_PROPOSED",
     "AWAITING_APPROVAL", "EXECUTING", "VERIFICATION", "RESOLUTION_ANALYSIS",
     "REINVESTIGATION", "CASE_CLOSED", "CASE_ESCALATED"}

Terminal == {"CASE_CLOSED", "CASE_ESCALATED"}

\* What an audit row's detail says, as far as the properties tell rows apart.
Events ==
    {"created", "none", "approval_packet", "sla_escalation",
     "policy_auto_approved", "policy_hard_reject", "approval_reject_no_automation",
     "approval_sla_escalations_exhausted", "execution_retries_exhausted",
     "max_reinvestigation_attempts_exceeded"}

Actions == RunbookActions \cup AuthoredActions \cup {NoAction, NoMatch}

AuditRow == [from : CaseStatus \cup {NoStatus}, to : CaseStatus,
             event : Events, action : Actions, level : Nat]
NoRow    == [from |-> NoStatus, to |-> "CASE_CREATED", event |-> "none",
             action |-> NoAction, level |-> 0]
CaseRow  == [status : CaseStatus, attempt_count : Nat]

Decisions == {"approve", "reject_try_different", "reject_no_automation"}

\* A decision and, as history, its age: sent in this round, while an earlier
\* proposal was carried out, or one that run() has already taken once.
Ages         == {"current", "earlier", "taken"}
Decision     == [decision : Decisions \cup {"none"}, sent : Ages]
NoDecision   == [decision |-> "none", sent |-> "current"]
Aged(d, age) == IF d.decision = "none" \/ d.sent = "taken" THEN d ELSE [d EXCEPT !.sent = age]

\* Before evaluate_policy has answered.
Undecided == [approved |-> FALSE, requires_approval |-> TRUE, rule_fired |-> "undecided"]

-----------------------------------------------------------------------------
\* execute_activity(name): the first attempt of the activity is scheduled.
Schedule(name) == at' = name /\ tries' = 0

Transition_FromRow(to, event) ==  \* mutant: from_status is read from the case row
    /\ status' = to
    /\ pending' = [from |-> cases.status, to |-> to, event |-> event,
                    action |-> NoAction, level |-> 0]
    /\ Schedule("persist")

\* _transition: self.status changes at once, the two writes follow.
Transition(to, event) ==
    /\ status' = to
    /\ pending' = [from |-> status, to |-> to, event |-> event,
                    action |-> NoAction, level |-> 0]
    /\ Schedule("persist")

\* _audit: a row of its own, the status stays.
Audit(event, action, level) ==
    /\ pending' = [from |-> status, to |-> status, event |-> event,
                    action |-> action, level |-> level]
    /\ Schedule("append")
    /\ UNCHANGED status

\* run() is past the writes of its last transition, in the part of its body
\* that belongs to status s.
InBody(s) == outcome = "running" /\ at = "body" /\ status = s

\* A worker picks up the activity scheduled under that name.
Awaiting(name) == outcome = "running" /\ at = name

\* Statuses whose body awaits an activity, as opposed to a signal or nothing.
RunsActivity == {"DIAGNOSIS", "RUNBOOK_RETRIEVAL", "POLICY_RISK_CHECK",
                 "REMEDIATION_PROPOSED", "EXECUTING", "VERIFICATION",
                 "RESOLUTION_ANALYSIS"}

RetryOrFail_ThenOnce ==  \* mutant: MAXIMUM_ATTEMPTS counts the retries
    \/ tries < MAXIMUM_ATTEMPTS /\ tries' = tries + 1 /\ UNCHANGED outcome
    \/ tries >= MAXIMUM_ATTEMPTS /\ outcome' = "failed" /\ UNCHANGED tries

RetryOrFail_ForEver ==  \* mutant: no maximum_attempts, the count only wraps
    tries' = (tries + 1) % MAXIMUM_ATTEMPTS /\ UNCHANGED outcome

\* DEFAULT_RETRY_POLICY: another attempt, or the ActivityError that ends run().
RetryOrFail ==
    \/ /\ tries + 1 < MAXIMUM_ATTEMPTS
       /\ tries' = tries + 1
       /\ UNCHANGED outcome
    \/ /\ tries + 1 >= MAXIMUM_ATTEMPTS
       /\ outcome' = "failed"
       /\ UNCHANGED tries

-----------------------------------------------------------------------------
\* The case row as receive_payment_failed commits it, and the execution it
\* starts, at the first await of run().
Init ==
    /\ scenario \in Scenarios
    /\ force_scenario \in ForceScenarios
    /\ status = "CASE_CREATED"
    /\ attempt_count = 0
    /\ missing = {}
    /\ entry = NoMatch
    /\ policy = Undecided
    /\ proposal = NoAction
    /\ decision = NoDecision
    /\ escalation_level = 0
    /\ approval = NoDecision
    /\ authored = NoMatch
    /\ at = "persist"
    /\ tries = 0
    /\ pending = [from |-> NoStatus, to |-> "CASE_CREATED", event |-> "created",
                   action |-> NoAction, level |-> 0]
    /\ outcome = "running"
    /\ cases = [status |-> "CASE_CREATED", attempt_count |-> 0]
    /\ audit = [last |-> NoRow, packet |-> NoAction, own |-> NoRow, copies |-> 0]
    /\ late_status = {}
    /\ late_audit = {}
    /\ landed = FALSE
    /\ key = 0
    /\ charged = {}
    /\ review = 0

-----------------------------------------------------------------------------
UpdateCases_StatusOnly(row) ==  \* mutant: the UPDATE forgets attempt_count
    cases' = [cases EXCEPT !.status = row.status]

\* persist_case_status: what it commits.
UpdateCases(row) == cases' = row

CurrentRow == [status |-> status, attempt_count |-> attempt_count]

PacketOf_KeepsFirst(row) ==  \* mutant: the first packet is the one found
    IF row.event = "approval_packet" /\ audit.packet = NoAction THEN row.action ELSE audit.packet

\* The newest packet once a row is in.
PacketOf(row) == IF row.event = "approval_packet" THEN row.action ELSE audit.packet

\* append_audit_event: every attempt that commits adds a row, so an attempt made
\* again after one that took effect adds a copy.  Of the rows the model keeps the
\* newest and, as history, the newest one that was not late, with the number of
\* its copies of which run() has heard nothing.
InsertAudit(row, copies) ==
    audit' = [last |-> row, packet |-> PacketOf(row), own |-> row, copies |-> copies]

\* The same INSERT, committed after its attempt has timed out.
InsertLate(row) == audit' = [audit EXCEPT !.last = row, !.packet = PacketOf(row)]

PersistStatus ==
    /\ Awaiting("persist")
    /\ UpdateCases(CurrentRow)
    /\ Schedule("append")
    /\ UNCHANGED <<inputs, status, pending, attempt_count, locals, slots, outcome,
                   audit, late_status, late_audit, landed, effects>>

DrawKey_Once ==  \* mutant: one key per case
    key' = IF status = "EXECUTING" /\ key = 0 THEN 1 ELSE key

\* A fresh uuid4 each time run() reaches the dispatch in EXECUTING.
DrawKey == key' = IF status = "EXECUTING" THEN key + 1 ELSE key

\* What run() does next once the row of its last transition or _audit is in.
Continue ==
    \/ /\ pending.event = "created" \/ status = "REINVESTIGATION"
       /\ Transition("EVIDENCE_COLLECTION", "none")
       /\ UNCHANGED <<locals, outcome, key>>
    \/ /\ pending.event = "approval_packet" /\ policy.requires_approval
       /\ Transition("AWAITING_APPROVAL", "none")
       /\ escalation_level' = 0
       /\ UNCHANGED <<missing, entry, policy, proposal, decision, outcome, key>>
    \/ /\ pending.event = "approval_packet" /\ ~policy.requires_approval
       /\ Audit("policy_auto_approved", NoAction, 0)
       /\ UNCHANGED <<locals, outcome, key>>
    \/ /\ pending.event = "policy_auto_approved"
       /\ Transition("EXECUTING", "none")
       /\ UNCHANGED <<locals, outcome, key>>
    \/ /\ pending.event \notin {"created", "approval_packet", "policy_auto_approved"}
       /\ status # "REINVESTIGATION"
       /\ Schedule("body")
       /\ outcome' = IF status \in Terminal THEN status ELSE outcome
       /\ DrawKey
       /\ UNCHANGED <<status, pending, locals>>

AppendAudit ==
    /\ Awaiting("append")
    /\ InsertAudit(pending, 0)
    /\ Continue
    /\ UNCHANGED <<inputs, attempt_count, slots, cases, late_status, late_audit,
                   landed, charged, review>>

-----------------------------------------------------------------------------
\* The parts of run()'s body, one per activity result or signal consumed.

\* _collect_evidence: every connector is tried on its own and a failure only
\* marks its source missing, so the gather as a whole never raises.
CollectEvidence ==
    /\ InBody("EVIDENCE_COLLECTION")
    /\ \E failed \in SUBSET PolicySources : missing' = failed \cup Broken(scenario)
    /\ Transition("DIAGNOSIS", "none")
    /\ UNCHANGED <<inputs, attempt_count, entry, policy, proposal, decision,
                   escalation_level, slots, outcome, tables, effects>>

Diagnose_Cached ==  \* mutant: a diagnosis seen before skips retrieval
    /\ InBody("DIAGNOSIS")
    /\ Transition("POLICY_RISK_CHECK", "none")
    /\ UNCHANGED <<inputs, attempt_count, locals, slots, outcome, tables, effects>>

Diagnose ==
    /\ InBody("DIAGNOSIS")
    /\ Transition("RUNBOOK_RETRIEVAL", "none")
    /\ UNCHANGED <<inputs, attempt_count, locals, slots, outcome, tables, effects>>

\* The judge may choose any entry of the corpus, or none.
Retrieve ==
    /\ InBody("RUNBOOK_RETRIEVAL")
    /\ \E action \in RunbookActions \cup {NoMatch} :
          /\ entry' = IF force_scenario = "no_runbook_match" THEN NoMatch ELSE action
          /\ Transition(IF entry' = NoMatch THEN "HUMAN_RUNBOOK_AUTHORING"
                                            ELSE "POLICY_RISK_CHECK", "none")
    /\ UNCHANGED <<inputs, attempt_count, missing, policy, proposal, decision,
                   escalation_level, slots, outcome, tables, effects>>

\* wait_condition without a timeout; the slot is cleared after it is read.
TakeAuthored ==
    /\ InBody("HUMAN_RUNBOOK_AUTHORING")
    /\ authored # NoMatch
    /\ entry' = authored
    /\ authored' = NoMatch
    /\ Transition("POLICY_RISK_CHECK", "none")
    /\ UNCHANGED <<inputs, attempt_count, missing, policy, proposal, decision,
                   escalation_level, approval, outcome, tables, effects>>

Evaluate ==
    /\ InBody("POLICY_RISK_CHECK")
    /\ LET answer == decide(entry, GatewayEvidence(scenario, missing),
                                   CaseHistoryEvidence(scenario, missing))
       IN  policy' = IF force_scenario = "policy_hard_reject"
                       THEN [answer EXCEPT !.approved = FALSE, !.rule_fired = "forced_scenario"]
                       ELSE answer
    /\ IF policy'.approved THEN Transition("REMEDIATION_PROPOSED", "none")
                           ELSE Transition("CASE_ESCALATED", "policy_hard_reject")
    /\ UNCHANGED <<inputs, attempt_count, missing, entry, proposal, decision,
                   escalation_level, slots, outcome, tables, effects>>

\* propose_remediation, then the approval packet.
Propose ==
    /\ InBody("REMEDIATION_PROPOSED")
    /\ proposal' = entry
    /\ Audit("approval_packet", proposal', 0)
    /\ UNCHANGED <<inputs, attempt_count, missing, entry, policy, decision,
                   escalation_level, slots, outcome, tables, effects>>

ClearedSlot_Kept == approval  \* mutant: the decision stays in the slot

\* self._approval_decision = None, once the decision is read.
ClearedSlot == NoDecision

\* _await_approval: wait_condition is satisfied.  The slot is cleared only now.
TakeApproval ==
    /\ InBody("AWAITING_APPROVAL")
    /\ approval.decision # "none"
    /\ approval' = Aged(ClearedSlot, "taken")
    /\ \/ /\ approval.decision = "approve"
          /\ decision' = approval
          /\ Transition("EXECUTING", "none")
       \/ /\ approval.decision = "reject_try_different"
          /\ decision' = NoDecision
          /\ Transition("RUNBOOK_RETRIEVAL", "none")
       \/ /\ approval.decision = "reject_no_automation"
          /\ decision' = approval
          /\ Transition("CASE_ESCALATED", "approval_reject_no_automation")
    /\ UNCHANGED <<inputs, attempt_count, missing, entry, policy, proposal,
                   escalation_level, authored, outcome, tables, effects>>

SlaExpires_ArmedOnce ==  \* mutant: the timer is not armed again
    approval.decision = "none" /\ escalation_level = 0

\* _await_approval: APPROVAL_SLA passes with the slot still empty.
SlaExpires == approval.decision = "none"

SlaTimeout ==
    /\ InBody("AWAITING_APPROVAL")
    /\ SlaExpires
    /\ escalation_level' = escalation_level + 1
    /\ IF escalation_level' > MAX_APPROVAL_ESCALATIONS
         THEN Transition("CASE_ESCALATED", "approval_sla_escalations_exhausted")
         ELSE Audit("sla_escalation", NoAction, escalation_level')
    /\ UNCHANGED <<inputs, attempt_count, missing, entry, policy, proposal, decision,
                   slots, outcome, tables, effects>>

\* The action activity is dispatched by name; the registered ones report
\* success.  Every attempt is given the key drawn on entering EXECUTING.
Execute ==
    /\ InBody("EXECUTING")
    /\ proposal \in RegisteredActions
    /\ charged' = charged \cup {key}
    /\ IF force_scenario = "execution_fails"
         THEN Transition("CASE_ESCALATED", "execution_retries_exhausted")
         ELSE Transition("VERIFICATION", "none")
    /\ UNCHANGED <<inputs, attempt_count, locals, slots, outcome, tables, key, review>>

NextAttempt == attempt_count + 1

CapReached_Late(n) == n > MAX_REINVESTIGATION_ATTEMPTS + 1  \* mutant: off by one

CapReached(n) == n > MAX_REINVESTIGATION_ATTEMPTS

\* The stubbed verification reports "resolved" unless the case forces it not
\* to.  The counter is advanced before the next transition persists it.
Verify ==
    /\ InBody("VERIFICATION")
    /\ \/ /\ force_scenario # "verification_not_resolved"
          /\ Transition("RESOLUTION_ANALYSIS", "none")
          /\ UNCHANGED <<attempt_count, approval, decision>>
       \/ /\ force_scenario = "verification_not_resolved"
          /\ attempt_count' = NextAttempt
          /\ IF CapReached(attempt_count')
               THEN Transition("CASE_ESCALATED", "max_reinvestigation_attempts_exceeded")
               ELSE Transition("REINVESTIGATION", "none")
          /\ approval' = Aged(approval, "earlier")
          /\ decision' = NoDecision
    /\ UNCHANGED <<inputs, missing, entry, policy, proposal, escalation_level,
                   authored, outcome, tables, effects>>

\* The stubbed analysis finds nothing new unless the case forces it to.
Analyze ==
    /\ InBody("RESOLUTION_ANALYSIS")
    /\ \/ /\ force_scenario = "new_runbook_info"
          /\ Schedule("child")
          /\ UNCHANGED <<status, pending>>
       \/ /\ force_scenario # "new_runbook_info"
          /\ Transition("CASE_CLOSED", "none")
    /\ UNCHANGED <<inputs, attempt_count, locals, slots, outcome, tables, effects>>

\* start_child_workflow returns once runbook-review-<case_id> has started; the
\* child is abandoned, so the case closes whatever becomes of the review.
StartReview ==
    /\ Awaiting("child")
    /\ review' = review + 1
    /\ Transition("CASE_CLOSED", "none")
    /\ UNCHANGED <<inputs, attempt_count, locals, slots, outcome, tables, key, charged>>

-----------------------------------------------------------------------------
\* Attempts that do not return a result in time.

\* The activity raised, or its worker died, before anything was committed.
AttemptFails ==
    /\ \/ Awaiting("persist")
       \/ Awaiting("append")
       \/ Awaiting("body") /\ status \in RunsActivity
    /\ RetryOrFail
    /\ UNCHANGED <<inputs, status, at, pending, attempt_count, locals, slots,
                   tables, effects>>

\* The effect is in, but the completion never reached the server.
AttemptUnacknowledged ==
    /\ \/ Awaiting("persist") /\ UpdateCases(CurrentRow) /\ UNCHANGED <<audit, charged>>
       \/ Awaiting("append") /\ InsertAudit(pending, audit.copies + 1)
                             /\ UNCHANGED <<cases, charged>>
       \/ /\ InBody("EXECUTING") /\ proposal \in RegisteredActions
          /\ charged' = charged \cup {key}
          /\ UNCHANGED <<cases, audit>>
    /\ RetryOrFail
    /\ UNCHANGED <<inputs, status, at, pending, attempt_count, locals, slots,
                   late_status, late_audit, landed, key, review>>

\* start_to_close_timeout expires on an attempt that is still running.  The
\* next attempt does not wait for it: the attempt may get its connection, and
\* its write may begin and commit, at any later time.
AttemptOverruns ==
    /\ Cardinality(late_status) + Cardinality(late_audit) < MaxLate
    /\ \/ /\ Awaiting("persist")
          /\ late_status' = late_status \cup {CurrentRow}
          /\ UNCHANGED late_audit
       \/ /\ Awaiting("append")
          /\ late_audit' = late_audit \cup {pending}
          /\ UNCHANGED late_status
    /\ RetryOrFail
    /\ UNCHANGED <<inputs, status, at, pending, attempt_count, locals, slots,
                   cases, audit, landed, effects>>

LateCommit ==
    /\ \/ \E row \in late_status :
             /\ UpdateCases(row)
             /\ late_status' = late_status \ {row}
             /\ UNCHANGED <<audit, late_audit>>
       \/ \E row \in late_audit :
             /\ InsertLate(row)
             /\ late_audit' = late_audit \ {row}
             /\ UNCHANGED <<cases, late_status>>
    /\ landed' = TRUE
    /\ UNCHANGED <<inputs, control, attempt_count, locals, slots, outcome, effects>>

-----------------------------------------------------------------------------
\* Signals.  Each handler overwrites its slot, whatever run() is waiting for.
submit_approval(choice) ==
    approval' = [decision |-> choice, sent |-> "current"] /\ UNCHANGED authored

author_runbook(action) ==
    authored' = action /\ UNCHANGED approval

\* handle.signal: refused, with nothing changed, unless the execution runs.
Signal ==
    /\ outcome = "running"
    /\ UNCHANGED <<inputs, control, attempt_count, locals, outcome, tables, effects>>

\* Who sends them: two admin endpoints, and a CLI that can send all there is.
approve_case == Signal /\ submit_approval("approve")

reject_case == Signal /\ \E choice \in Decisions \ {"approve"} : submit_approval(choice)

cli_main ==
    /\ Signal
    /\ \/ \E choice \in Decisions : submit_approval(choice)
       \/ \E action \in AuthoredActions : author_runbook(action)

-----------------------------------------------------------------------------
\* What Temporal, its timers and the worker do.
Progress ==
    \/ PersistStatus \/ AppendAudit
    \/ CollectEvidence \/ Diagnose \/ Retrieve \/ TakeAuthored \/ Evaluate \/ Propose
    \/ TakeApproval \/ SlaTimeout
    \/ Execute \/ Verify \/ Analyze \/ StartReview
    \/ AttemptFails \/ AttemptUnacknowledged \/ AttemptOverruns

\* What nobody is obliged to do.
Environment == approve_case \/ reject_case \/ cli_main \/ LateCommit

Next == Progress \/ Environment

Spec == Init /\ [][Next]_vars

\* A scheduled activity is attempted and answered or timed out, a timer fires
\* and a satisfied wait_condition resumes: Temporal redelivers each of these
\* until a worker has processed it.  No fairness on humans or late writes.
FairSpec == Spec /\ WF_vars(Progress)
=============================================================================
