----------------------------- MODULE PolicyTable -----------------------------
(***************************************************************************)
(* The policy engine over every input: an action, a gateway item and a     *)
(* case-history item, each of which may change from one call to the next.  *)
(***************************************************************************)
EXTENDS PolicyEngine

CONSTANTS Actions, DeclineCodes, Amounts

ASSUME AmountsAssumption == Amounts \subseteq Nat

VARIABLES action, gateway, case_history

vars == <<action, gateway, case_history>>

\* A connector that succeeded may still lack a field: .get answers None.
GatewayItems == [missing : BOOLEAN, decline_code : DeclineCodes \cup {NoCode},
                 amount : Amounts \cup {NoAmount}]
HistoryItems == [missing : BOOLEAN, prior_remediation_attempted : {"yes", "no", "unknown"}]

Init == action \in Actions /\ gateway \in GatewayItems /\ case_history \in HistoryItems

Rematch        == action' \in Actions /\ UNCHANGED <<gateway, case_history>>
CollectGateway == gateway' \in GatewayItems /\ UNCHANGED <<action, case_history>>
CollectHistory == case_history' \in HistoryItems /\ UNCHANGED <<action, gateway>>

Next == Rematch \/ CollectGateway \/ CollectHistory

Spec == Init /\ [][Next]_vars

-----------------------------------------------------------------------------
\* What run() and its connectors may hand the engine.
TypeOK == action \in Actions /\ gateway \in GatewayItems /\ case_history \in HistoryItems

Answer == decide(action, gateway, case_history)

\* The ordered rules amount to one conjunction: an action runs unattended if
\* and only if everything the policy can check was collected and speaks for
\* it.  $100 itself, an unlisted action, an absent field and an unknown history
\* all go to a human.
AutonomyIffAllClear ==
    ~Answer.requires_approval <=>
        /\ ~gateway.missing
        /\ gateway.decline_code \notin FRAUD_DECLINE_CODES \cup {NoCode}
        /\ gateway.amount # NoAmount /\ gateway.amount < 10000
        /\ action \in LowRiskActions
        /\ ~case_history.missing
        /\ case_history.prior_remediation_attempted = "no"

\* The hard block depends on the raw decline code alone: neither a missing
\* amount, nor the action, nor the history lifts it or brings it about.
HardBlockIffFraudSeen ==
    ~Answer.approved <=> (~gateway.missing /\ gateway.decline_code \in FRAUD_DECLINE_CODES)
=============================================================================
