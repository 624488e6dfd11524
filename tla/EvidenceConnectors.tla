------------------------- MODULE EvidenceConnectors -------------------------
(***************************************************************************)
(* The Payment Gateway Simulator's scenarios and the evidence items that   *)
(* the connectors build from them, as far as the policy engine reads them: *)
(* the gateway item and the case-history item.  The customer-data,         *)
(* observability and complaint items only reach the LLM diagnosis, whose   *)
(* answer the case workflow leaves unconstrained.                          *)
(***************************************************************************)
EXTENDS Integers

\* decline_code and amount (in cents) of each scripted scenario.  Every one
\* of them says prior_remediation_attempted = False.
SCENARIOS ==
    [insufficient_funds_standard_customer   |-> [decline_code |-> "insufficient_funds", amount |-> 4900],
     insufficient_funds_high_value_customer |-> [decline_code |-> "insufficient_funds", amount |-> 24900],
     insufficient_funds_with_backup_card    |-> [decline_code |-> "insufficient_funds", amount |-> 7900],
     fraud_hold_stolen_card                 |-> [decline_code |-> "stolen_card", amount |-> 50000],
     expired_card_no_backup                 |-> [decline_code |-> "expired_card", amount |-> 9900],
     expired_card_with_backup               |-> [decline_code |-> "expired_card", amount |-> 9900],
     fraudulent_charge_flagged              |-> [decline_code |-> "fraudulent", amount |-> 65000],
     processing_error_transient             |-> [decline_code |-> "processing_error", amount |-> 5900],
     try_again_later_transient              |-> [decline_code |-> "try_again_later", amount |-> 3900]]

\* get_scenario raises on a name that is not in the table, on every attempt.
KnownScenario(name) == name \in DOMAIN SCENARIOS

\* The two sources that policy/rules_engine.py looks up.
PolicySources == {"gateway", "case_history"}

\* Sources whose connector raises for this scenario however often it is tried.
Broken(name) == IF KnownScenario(name) THEN {} ELSE PolicySources

\* The item found by _find_evidence(evidence, "gateway").  A connector that
\* succeeded reports source "gateway" and one that failed is recorded as
\* "fetch_gateway_evidence" with no data: the keyword is in both names.
GatewayEvidence(name, missing) ==
    IF "gateway" \in missing
      THEN [missing |-> TRUE, decline_code |-> "none", amount |-> -1]
      ELSE [missing |-> FALSE,
            decline_code |-> SCENARIOS[name].decline_code,
            amount |-> SCENARIOS[name].amount]

CaseHistoryEvidence(name, missing) ==
    IF "case_history" \in missing
      THEN [missing |-> TRUE, prior_remediation_attempted |-> "unknown"]
      ELSE [missing |-> FALSE, prior_remediation_attempted |-> "no"]
=============================================================================
