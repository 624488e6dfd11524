------------------------- MODULE PolicyTableProofs -------------------------
(***************************************************************************)
(* The policy engine's ordered rules, for every action, every decline code *)
(* and every amount: what they grant and what they refuse.                 *)
(***************************************************************************)
EXTENDS PolicyTable, TLAPS

\* The inputs of the engine keep their types as the evidence changes.
LEMMA InputsTyped == Spec => []TypeOK
<1>1. Init => TypeOK
  BY DEF Init, TypeOK
<1>2. TypeOK /\ [Next]_vars => TypeOK'
  BY DEF TypeOK, Next, Rematch, CollectGateway, CollectHistory, vars
<1>3. QED
  BY <1>1, <1>2, PTL DEF Spec

\* The last rule is reached exactly when each earlier one has been passed.
LEMMA LastRule ==
    ASSUME TypeOK
    PROVE  RuleFired(action, gateway, case_history) = "auto_approve_low_risk_first_attempt" <=>
             /\ DeclineCode(gateway) \notin FRAUD_DECLINE_CODES \cup {NoCode}
             /\ Amount(gateway) # NoAmount /\ Amount(gateway) < 10000
             /\ action \in LowRiskActions
             /\ FirstAttempt(case_history)
<1>1. Amount(gateway) \in Int
  <2>1. gateway.amount \in Amounts \cup {NoAmount}
    BY DEF TypeOK, GatewayItems
  <2>2. NoAmount \in Int /\ Amounts \subseteq Int
    BY AmountsAssumption DEF NoAmount
  <2>3. QED
    BY <2>1, <2>2 DEF Amount
<1>2. QED
  BY <1>1 DEF RuleFired, RiskTier, AUTO_APPROVE_BELOW_AMOUNT

\* An action runs unattended iff all the policy can check speaks for it.
THEOREM AutonomyIffAllClearHolds == Spec => []AutonomyIffAllClear
<1>1. TypeOK => AutonomyIffAllClear
  <2> SUFFICES ASSUME TypeOK PROVE AutonomyIffAllClear
    OBVIOUS
  <2>1. ~Answer.requires_approval
          <=> RuleFired(action, gateway, case_history) = "auto_approve_low_risk_first_attempt"
    BY DEF Answer, decide
  <2>2. QED
    BY <2>1, LastRule
       DEF AutonomyIffAllClear, DeclineCode, Amount, FirstAttempt, NoCode, NoAmount
<1>2. QED
  BY <1>1, InputsTyped, PTL

\* The engine refuses iff the gateway said fraud, whatever else is known.
THEOREM HardBlockIffFraudSeenHolds == Spec => []HardBlockIffFraudSeen
<1>1. HardBlockIffFraudSeen
  BY DEF HardBlockIffFraudSeen, Answer, decide, RuleFired, DeclineCode, NoCode,
         FRAUD_DECLINE_CODES
<1>2. QED
  BY <1>1, PTL
=============================================================================
