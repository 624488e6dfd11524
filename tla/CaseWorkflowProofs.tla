------------------------- MODULE CaseWorkflowProofs -------------------------
(***************************************************************************)
(* For every corpus of scenarios and actions and every limit: the case     *)
(* workflow is type correct, and no action gets past the policy engine and *)
(* the human gate.  The inductive invariant is TypeOK /\ GateInv; a step   *)
(* lemma has one case per action of CaseWorkflow.                          *)
(***************************************************************************)
EXTENDS CaseProperties, TLAPS

\* An execution as receive_payment_failed starts it is well typed.
LEMMA TypeInit == Init => TypeOK
<1> SUFFICES ASSUME Init PROVE TypeOK
  OBVIOUS
<1>1. pending \in AuditRow /\ NoRow \in AuditRow
  BY DEF Init, AuditRow, CaseStatus, Events, Actions, NoRow
<1>2. policy \in [approved : BOOLEAN, requires_approval : BOOLEAN,
                  rule_fired : Rules \cup {"undecided"}]
  BY DEF Init, Undecided
<1>3. audit \in [last : AuditRow, packet : Actions, own : AuditRow, copies : Nat]
  BY <1>1 DEF Init, Actions
<1>4. cases \in CaseRow /\ status \in CaseStatus
  BY DEF Init, CaseRow, CaseStatus
<1>5. decision \in Decision /\ approval \in Decision
  BY DEF Init, Decision, NoDecision, Ages
<1>6. entry \in Actions /\ proposal \in Actions /\ authored \in Actions
  BY DEF Init, Actions
<1>7. tries \in Nat /\ tries < MAXIMUM_ATTEMPTS
  BY LimitsAssumption DEF Init
<1>8. QED
  BY <1>1, <1>2, <1>3, <1>4, <1>5, <1>6, <1>7 DEF Init, TypeOK, Writes, Terminal

\* _transition and _audit write rows of the audit table's type.
LEMMA TransitionType ==
    ASSUME TypeOK, NEW to \in CaseStatus, NEW event \in Events, Transition(to, event)
    PROVE  /\ status' \in CaseStatus /\ pending' \in AuditRow
           /\ at' = "persist" /\ tries' = 0
  BY DEF TypeOK, Transition, Schedule, AuditRow, Actions

\* _audit likewise, for the row it adds without moving the case.
LEMMA AuditType ==
    ASSUME TypeOK, NEW event \in Events, NEW action \in Actions, NEW level \in Nat,
           Audit(event, action, level)
    PROVE  /\ status' \in CaseStatus /\ pending' \in AuditRow
           /\ at' = "append" /\ tries' = 0
  BY DEF TypeOK, Audit, Schedule, AuditRow

\* append_audit_event keeps the trail's summary well typed, on time or late.
LEMMA InsertAuditType ==
    ASSUME TypeOK, NEW row \in AuditRow, NEW copies \in Nat,
           InsertAudit(row, copies) \/ InsertLate(row)
    PROVE  audit' \in [last : AuditRow, packet : Actions, own : AuditRow, copies : Nat]
<1>1. PacketOf(row) \in Actions
  BY DEF TypeOK, PacketOf, AuditRow
<1>2. CASE InsertAudit(row, copies)
  BY <1>1, <1>2 DEF InsertAudit
<1>3. CASE InsertLate(row)
  <2>1. audit \in [last : AuditRow, packet : Actions, own : AuditRow, copies : Nat]
    BY DEF TypeOK
  <2>2. audit' = [audit EXCEPT !.last = row, !.packet = PacketOf(row)]
    BY <1>3 DEF InsertLate
  <2>3. QED
    BY <1>1, <2>1, <2>2
<1>4. QED
  BY <1>2, <1>3

\* A decision stays one as it ages, and one that was not taken is not now either.
LEMMA AgedType ==
    ASSUME NEW d \in Decision, NEW age \in Ages
    PROVE  /\ Aged(d, age) \in Decision
           /\ (d.sent # "taken" /\ age # "taken") => Aged(d, age).sent # "taken"
  BY DEF Decision, Aged

\* What TakeApproval leaves in the slot: nothing.
LEMMA SlotIsCleared == Aged(ClearedSlot, "taken") = NoDecision /\ NoDecision \in Decision
  BY DEF Aged, ClearedSlot, NoDecision, Decision, Ages

\* A failed attempt is retried within the policy or ends the execution.
LEMMA RetryType ==
    ASSUME TypeOK, RetryOrFail
    PROVE  tries' \in Nat /\ tries' < MAXIMUM_ATTEMPTS
           /\ outcome' \in Terminal \cup {"running", "failed"}
  BY LimitsAssumption DEF TypeOK, RetryOrFail

\* A decision of the engine keeps its type when run() overrides it for
\* the forced policy_hard_reject case.
LEMMA PolicyType ==
    ASSUME NEW answer \in PolicyDecision
    PROVE  /\ answer \in [approved : BOOLEAN, requires_approval : BOOLEAN,
                          rule_fired : Rules \cup {"undecided"}]
           /\ [answer EXCEPT !.approved = FALSE, !.rule_fired = "forced_scenario"]
                \in [approved : BOOLEAN, requires_approval : BOOLEAN,
                     rule_fired : Rules \cup {"undecided"}]
  BY DEF PolicyDecision, Rules

\* The engine answers with a PolicyDecision whatever it is asked.
LEMMA DecideType ==
    ASSUME NEW action, NEW gateway, NEW history
    PROVE  decide(action, gateway, history) \in PolicyDecision
<1>1. RuleFired(action, gateway, history) \in Rules
  BY DEF RuleFired, Rules
<1>2. QED
  BY <1>1 DEF decide, PolicyDecision

\* Every step of run(), of its activities and of the signals keeps the types.
LEMMA TypeStep == TypeOK /\ [Next]_vars => TypeOK'
<1> SUFFICES ASSUME TypeOK, [Next]_vars PROVE TypeOK'
  OBVIOUS
<1> USE LimitsAssumption DEF TypeOK, inputs, locals, slots, control, tables, effects
<1>1. CASE PersistStatus
  BY <1>1 DEF PersistStatus, Awaiting, UpdateCases, CurrentRow, CaseRow, Schedule, Writes
<1>2. CASE AppendAudit
  <2>1. audit' \in [last : AuditRow, packet : Actions, own : AuditRow, copies : Nat]
    BY <1>2, InsertAuditType DEF AppendAudit
  <2>2. QED
    BY <1>2, <2>1, TransitionType, AuditType DEF AppendAudit, Continue, DrawKey, Schedule, Writes, Events, CaseStatus, Actions, Terminal
<1>3. CASE CollectEvidence
  BY <1>3, TransitionType DEF CollectEvidence, Events, CaseStatus, Writes, Broken
<1>4. CASE Diagnose
  BY <1>4, TransitionType DEF Diagnose, Events, CaseStatus, Writes
<1>5. CASE Retrieve
  BY <1>5, TransitionType DEF Retrieve, Events, CaseStatus, Writes, Actions
<1>6. CASE TakeAuthored
  BY <1>6, TransitionType DEF TakeAuthored, Events, CaseStatus, Writes, Actions
<1>7. CASE Evaluate
  <2>1. policy' \in [approved : BOOLEAN, requires_approval : BOOLEAN,
                      rule_fired : Rules \cup {"undecided"}]
    BY <1>7, DecideType, PolicyType DEF Evaluate
  <2>2. QED
    BY <1>7, <2>1, TransitionType DEF Evaluate, Events, CaseStatus, Writes
<1>8. CASE Propose
  BY <1>8, AuditType DEF Propose, Events, Writes
<1>9. CASE TakeApproval
  BY <1>9, TransitionType, SlotIsCleared DEF TakeApproval, Events, CaseStatus, Writes
<1>10. CASE SlaTimeout
  BY <1>10, TransitionType, AuditType DEF SlaTimeout, Events, CaseStatus, Writes, Actions
<1>11. CASE Execute
  BY <1>11, TransitionType DEF Execute, Events, CaseStatus, Writes
<1>12. CASE Verify
  BY <1>12, TransitionType, AgedType, SlotIsCleared
     DEF Verify, NextAttempt, Events, CaseStatus, Writes, Ages
<1>13. CASE Analyze
  BY <1>13, TransitionType DEF Analyze, Schedule, Events, CaseStatus, Writes
<1>14. CASE StartReview
  BY <1>14, TransitionType DEF StartReview, Events, CaseStatus, Writes
<1>15. CASE AttemptFails
  BY <1>15, RetryType DEF AttemptFails
<1>16. CASE AttemptUnacknowledged
  <2>1. /\ cases' \in CaseRow
        /\ audit' \in [last : AuditRow, packet : Actions, own : AuditRow, copies : Nat]
        /\ charged' \subseteq Nat
    <3>1. CASE UpdateCases(CurrentRow) /\ UNCHANGED <<audit, charged>>
      BY <3>1 DEF UpdateCases, CurrentRow, CaseRow
    <3>2. CASE InsertAudit(pending, audit.copies + 1) /\ UNCHANGED <<cases, charged>>
      BY <3>2, InsertAuditType
    <3>3. CASE charged' = charged \cup {key} /\ UNCHANGED <<cases, audit>>
      BY <3>3
    <3>4. QED
      BY <1>16, <3>1, <3>2, <3>3 DEF AttemptUnacknowledged
  <2>2. tries' \in Nat /\ tries' < MAXIMUM_ATTEMPTS
        /\ outcome' \in Terminal \cup {"running", "failed"}
    BY <1>16, RetryType DEF AttemptUnacknowledged
  <2>3. UNCHANGED <<inputs, status, at, pending, attempt_count, locals, slots,
                    late_status, late_audit, landed, key, review>>
    BY <1>16 DEF AttemptUnacknowledged
  <2>4. QED
    BY <2>1, <2>2, <2>3
<1>17. CASE AttemptOverruns
  BY <1>17, RetryType DEF AttemptOverruns, CurrentRow, CaseRow
<1>18. CASE LateCommit
  BY <1>18, InsertAuditType DEF LateCommit, UpdateCases
<1>19. CASE approve_case \/ reject_case
  <2>1. \A choice \in Decisions : [decision |-> choice, sent |-> "current"] \in Decision
    BY DEF Decision, Ages
  <2>2. PICK choice \in Decisions : Signal /\ submit_approval(choice)
    BY <1>19 DEF approve_case, reject_case, Decisions
  <2>3. QED
    BY <2>1, <2>2 DEF Signal, submit_approval
<1>20. CASE cli_main
  BY <1>20 DEF cli_main, Signal, submit_approval, author_runbook, Actions,
     Decision, Decisions, Ages
<1>21. CASE UNCHANGED vars
  BY <1>21 DEF vars
<1>22. QED
  BY <1>1, <1>2, <1>3, <1>4, <1>5, <1>6, <1>7, <1>8, <1>9, <1>10, <1>11, <1>12, <1>13,
     <1>14, <1>15, <1>16, <1>17, <1>18, <1>19, <1>20, <1>21 DEF Next, Progress, Environment

\* Workflow, tables and late writes hold values of their types in every
\* execution, whatever the limits of the retry policy and of the loops.
THEOREM TypeCorrect == Spec => []TypeOK
<1>1. QED
  BY TypeInit, TypeStep, PTL DEF Spec

-----------------------------------------------------------------------------
\* What Transition and Audit leave behind, for the steps below.
LEMMA TransitionSays ==
    ASSUME NEW to, NEW event, Transition(to, event)
    PROVE  status' = to /\ pending'.event = event /\ at' = "persist"
  BY DEF Transition, Schedule

\* Likewise for _audit, which leaves the case in the status it is in.
LEMMA AuditSays ==
    ASSUME NEW event, NEW action, NEW level, Audit(event, action, level)
    PROVE  status' = status /\ pending'.event = event /\ at' = "append"
  BY DEF Audit, Schedule

\* Nothing has been decided when run() starts.
LEMMA GateInit == Init => GateInv
  BY DEF Init, NoDecision, GateInv, HumanGate, Diagnosed, Proposed, Acted

\* Every step keeps the policy answer, the proposal and the approval of the
\* round in agreement: GateInv is inductive given the types.
LEMMA GateStep == TypeOK /\ GateInv /\ [Next]_vars => GateInv'
<1> SUFFICES ASSUME TypeOK, GateInv, [Next]_vars PROVE GateInv'
  OBVIOUS
<1> USE DEF GateInv, HumanGate, Diagnosed, Proposed, Acted, inputs, locals, slots, control,
            tables, effects, InBody, Awaiting
<1>1. CASE PersistStatus
  BY <1>1 DEF PersistStatus, Schedule
<1>2. CASE AppendAudit
  BY <1>2, TransitionSays, AuditSays DEF AppendAudit, Continue, Schedule
<1>3. CASE CollectEvidence
  BY <1>3, TransitionSays DEF CollectEvidence
<1>4. CASE Diagnose
  BY <1>4, TransitionSays DEF Diagnose
<1>5. CASE Retrieve
  BY <1>5, TransitionSays DEF Retrieve
<1>6. CASE TakeAuthored
  BY <1>6, TransitionSays DEF TakeAuthored
<1>7. CASE Evaluate
  BY <1>7, TransitionSays DEF Evaluate
<1>8. CASE Propose
  BY <1>8, AuditSays DEF Propose
<1>9. CASE TakeApproval
  BY <1>9, TransitionSays, SlotIsCleared DEF TakeApproval, NoDecision
<1>10. CASE SlaTimeout
  BY <1>10, TransitionSays, AuditSays DEF SlaTimeout
<1>11. CASE Execute
  BY <1>11, TransitionSays DEF Execute
<1>12. CASE Verify
  BY <1>12, TransitionSays, AgedType DEF Verify, TypeOK, Ages
<1>13. CASE Analyze
  BY <1>13, TransitionSays DEF Analyze, Schedule
<1>14. CASE StartReview
  BY <1>14, TransitionSays DEF StartReview
<1>15. CASE AttemptFails
  BY <1>15 DEF AttemptFails
<1>16. CASE AttemptUnacknowledged
  BY <1>16 DEF AttemptUnacknowledged
<1>17. CASE AttemptOverruns
  BY <1>17 DEF AttemptOverruns
<1>18. CASE LateCommit
  BY <1>18 DEF LateCommit
<1>19. CASE approve_case \/ reject_case
  BY <1>19 DEF approve_case, reject_case, Signal, submit_approval
<1>20. CASE cli_main
  BY <1>20 DEF cli_main, Signal, submit_approval, author_runbook
<1>21. CASE UNCHANGED vars
  BY <1>21 DEF vars
<1>22. QED
  BY <1>1, <1>2, <1>3, <1>4, <1>5, <1>6, <1>7, <1>8, <1>9, <1>10, <1>11, <1>12, <1>13,
     <1>14, <1>15, <1>16, <1>17, <1>18, <1>19, <1>20, <1>21 DEF Next, Progress, Environment

\* No action is dispatched without the approval that policy asked for.
THEOREM HumanGateHolds == Spec => []HumanGate
<1>1. GateInv => HumanGate
  BY DEF GateInv
<1>2. QED
  BY <1>1, TypeCorrect, GateInit, GateStep, PTL DEF Spec

\* What the auto-approve rule says of the case, in terms of its scenario.
LEMMA AutoApprovedIsSafe ==
    ASSUME TypeOK, GateInv, status \in Acted, ~policy.requires_approval
    PROVE  /\ "gateway" \notin missing /\ "case_history" \notin missing
           /\ KnownScenario(scenario) /\ ~IsFraud
           /\ SCENARIOS[scenario].amount < AUTO_APPROVE_BELOW_AMOUNT
           /\ RiskTier(entry) = "low"
<1> DEFINE gateway == GatewayEvidence(scenario, missing)
           history == CaseHistoryEvidence(scenario, missing)
<1>1. policy = decide(entry, gateway, history) /\ Broken(scenario) \subseteq missing
  BY DEF GateInv, Proposed
<1>2. RuleFired(entry, gateway, history) = "auto_approve_low_risk_first_attempt"
  BY <1>1 DEF decide
<1>3. /\ DeclineCode(gateway) \notin FRAUD_DECLINE_CODES
      /\ DeclineCode(gateway) # NoCode
      /\ ~(Amount(gateway) >= AUTO_APPROVE_BELOW_AMOUNT)
      /\ RiskTier(entry) = "low"
      /\ FirstAttempt(history)
  BY <1>2 DEF RuleFired
<1>4. "gateway" \notin missing
  BY <1>3 DEF DeclineCode, GatewayEvidence, NoCode
<1>5. "case_history" \notin missing
  BY <1>3 DEF FirstAttempt, CaseHistoryEvidence
<1>6. KnownScenario(scenario)
  BY <1>1, <1>4 DEF Broken, PolicySources
<1>7. /\ DeclineCode(gateway) = SCENARIOS[scenario].decline_code
      /\ Amount(gateway) = SCENARIOS[scenario].amount
  BY <1>4 DEF DeclineCode, Amount, GatewayEvidence
<1>8. SCENARIOS[scenario].amount \in Int
  BY <1>6 DEF KnownScenario, SCENARIOS
<1>9. QED
  BY <1>3, <1>4, <1>5, <1>6, <1>7, <1>8 DEF IsFraud, AUTO_APPROVE_BELOW_AMOUNT

\* An action that runs with no human involved is low-risk, on complete
\* evidence of a payment that is no fraud and under the limit.
THEOREM UnattendedIsSafeHolds == Spec => []UnattendedIsSafe
<1>1. TypeOK /\ GateInv => UnattendedIsSafe
  <2> SUFFICES ASSUME TypeOK, GateInv, status \in Acted, ~policy.requires_approval
               PROVE  /\ missing = {}
                      /\ KnownScenario(scenario) /\ ~IsFraud
                      /\ SCENARIOS[scenario].amount < AUTO_APPROVE_BELOW_AMOUNT
                      /\ RiskTier(proposal) = "low"
    BY DEF UnattendedIsSafe
  <2>1. missing = {}
    BY AutoApprovedIsSafe DEF TypeOK, PolicySources
  <2>2. proposal = entry
    BY DEF GateInv, Proposed, Acted
  <2>3. QED
    BY <2>1, <2>2, AutoApprovedIsSafe
<1>2. QED
  BY <1>1, TypeCorrect, GateInit, GateStep, PTL DEF Spec

\* An action on a payment declined as fraud was approved by a human and the
\* gateway evidence was missing.
THEOREM FraudActionIsBlindHolds == Spec => []FraudActionIsBlind
<1>1. TypeOK /\ GateInv => FraudActionIsBlind
  <2> SUFFICES ASSUME TypeOK, GateInv, status \in Acted, IsFraud
               PROVE  "gateway" \in missing /\ decision.decision = "approve"
    BY DEF FraudActionIsBlind
  <2> DEFINE gateway == GatewayEvidence(scenario, missing)
             history == CaseHistoryEvidence(scenario, missing)
  <2>1. policy = decide(entry, gateway, history) /\ policy.approved
    BY DEF GateInv, Proposed
  <2>2. DeclineCode(gateway) \notin FRAUD_DECLINE_CODES
    BY <2>1 DEF decide, RuleFired
  <2>3. "gateway" \in missing
    BY <2>2 DEF DeclineCode, GatewayEvidence, IsFraud
  <2>4. policy.requires_approval
    BY <2>3, AutoApprovedIsSafe DEF TypeOK
  <2>5. QED
    BY <2>3, <2>4 DEF GateInv, HumanGate
<1>2. QED
  BY <1>1, TypeCorrect, GateInit, GateStep, PTL DEF Spec
=============================================================================
