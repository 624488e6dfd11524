---------------------------- MODULE PolicyEngine ----------------------------
(***************************************************************************)
(* The deterministic policy/risk engine (policy/rules_engine.py) and the   *)
(* proposal generator that shares its risk table.  Both are pure: a        *)
(* decision depends on the recommended action and on two evidence items,   *)
(* never on the diagnosis.                                                 *)
(*                                                                         *)
(* An evidence item is a record.  gateway has the fields missing,          *)
(* decline_code and amount (in cents); case_history has missing and        *)
(* prior_remediation_attempted.  NoCode, NoAmount and "unknown" stand for  *)
(* what dict.get returns for an absent key.                                *)
(***************************************************************************)
EXTENDS Integers

NoCode   == "none"
NoAmount == -1

FRAUD_DECLINE_CODES == {"fraudulent", "stolen_card"}

AUTO_APPROVE_BELOW_AMOUNT_Inclusive == 10001  \* mutant: $100 itself is below

\* $100, in cents.
AUTO_APPROVE_BELOW_AMOUNT == 10000

\* The other entries of ACTION_RISK_TIERS are high.
LowRiskActions == {"retry_payment", "request_card_update"}

\* ACTION_RISK_TIERS.get(action, "high"): so is an unlisted action.
RiskTier(action) == IF action \in LowRiskActions THEN "low" ELSE "high"

\* What is read of a gateway item: nothing when the connector failed.
DeclineCode(gateway) == IF gateway.missing THEN NoCode ELSE gateway.decline_code
Amount(gateway)      == IF gateway.missing THEN NoAmount ELSE gateway.amount

FirstAttempt_Truthy(case_history) ==  \* mutant: unknown history reads as none
    case_history.prior_remediation_attempted # "yes"

FirstAttempt(case_history) ==
    /\ ~case_history.missing
    /\ case_history.prior_remediation_attempted = "no"

RuleFired_EvidenceFirst(action, gateway, case_history) ==  \* mutant: order swapped
    IF DeclineCode(gateway) = NoCode \/ Amount(gateway) = NoAmount
      THEN "evidence_missing_fail_safe"
    ELSE IF DeclineCode(gateway) \in FRAUD_DECLINE_CODES
      THEN "fraud_hard_block"
    ELSE "high_risk_action"

\* The fixed rule order; the first rule that matches names the decision.
RuleFired(action, gateway, case_history) ==
    IF DeclineCode(gateway) \in FRAUD_DECLINE_CODES
      THEN "fraud_hard_block"
    ELSE IF DeclineCode(gateway) = NoCode \/ Amount(gateway) = NoAmount
      THEN "evidence_missing_fail_safe"
    ELSE IF RiskTier(action) # "low"
      THEN "high_risk_action"
    ELSE IF Amount(gateway) >= AUTO_APPROVE_BELOW_AMOUNT
      THEN "amount_at_or_above_threshold"
    ELSE IF ~FirstAttempt(case_history)
      THEN "not_first_attempt_or_unknown_history"
    ELSE "auto_approve_low_risk_first_attempt"

Rules == {"fraud_hard_block", "evidence_missing_fail_safe", "high_risk_action",
          "amount_at_or_above_threshold", "not_first_attempt_or_unknown_history",
          "auto_approve_low_risk_first_attempt", "forced_scenario"}

PolicyDecision == [approved : BOOLEAN, requires_approval : BOOLEAN, rule_fired : Rules]

decide_NoHardBlock(action, gateway, case_history) ==  \* mutant: fraud asks a human
    LET rule == RuleFired(action, gateway, case_history)
    IN  [approved          |-> TRUE,
         requires_approval |-> rule # "auto_approve_low_risk_first_attempt",
         rule_fired        |-> rule]

decide(action, gateway, case_history) ==
    LET rule == RuleFired(action, gateway, case_history)
    IN  [approved          |-> rule # "fraud_hard_block",
         requires_approval |-> rule # "auto_approve_low_risk_first_attempt",
         rule_fired        |-> rule]
=============================================================================
