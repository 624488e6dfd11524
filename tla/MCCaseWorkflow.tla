--------------------------- MODULE MCCaseWorkflow ---------------------------
(***************************************************************************)
(* Instances of the case workflow for TLC: which cases, which forced       *)
(* branches and which actions each run considers.                          *)
(***************************************************************************)
EXTENDS CaseProperties

\* One scenario per rule the policy engine can fire, and one the gateway
\* simulator does not know, for which every connector fails.
RepresentativeScenarios ==
    {"processing_error_transient", "insufficient_funds_high_value_customer",
     "fraud_hold_stolen_card", "no_such_scenario"}

\* A payment that policy lets run unattended, and one it does not.
TwoScenarios == {"processing_error_transient", "insufficient_funds_high_value_customer"}

UnattendedScenario == {"processing_error_transient"}

AllForced ==
    {"none", "no_runbook_match", "policy_hard_reject", "execution_fails",
     "verification_not_resolved", "new_runbook_info"}

\* Of the actions runbook/corpus.py recommends, one of each risk tier.  The
\* worker registers these and three more that no case here can name.
CorpusActions == {"retry_payment", "switch_backup_payment_method"}

\* A human may recommend a registered action or one no worker knows.
HumanActions == {"retry_payment", "call_customer"}
=============================================================================
