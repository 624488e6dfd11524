--------------------------- MODULE CaseLifecycle ---------------------------
(***************************************************************************)
(* The promise of the case workflow: the status graph of docs/DESIGN.md as *)
(* run() walks it, with the reinvestigation counter that bounds it.        *)
(* CaseWorkflow, with its activities, retries, signals and timers,         *)
(* implements this specification.                                          *)
(***************************************************************************)
EXTENDS Integers

CONSTANT MAX_REINVESTIGATION_ATTEMPTS

VARIABLES status, attempt_count, outcome

vars == <<status, attempt_count, outcome>>

\* Where a case may go next, the counter staying as it is.
Successors(s) ==
    CASE s = "CASE_CREATED"           -> {"EVIDENCE_COLLECTION"}
      [] s = "EVIDENCE_COLLECTION"    -> {"DIAGNOSIS"}
      [] s = "DIAGNOSIS"              -> {"RUNBOOK_RETRIEVAL"}
      [] s = "RUNBOOK_RETRIEVAL"      -> {"POLICY_RISK_CHECK", "HUMAN_RUNBOOK_AUTHORING"}
      [] s = "HUMAN_RUNBOOK_AUTHORING" -> {"POLICY_RISK_CHECK"}
      [] s = "POLICY_RISK_CHECK"      -> {"REMEDIATION_PROPOSED", "CASE_ESCALATED"}
      [] s = "REMEDIATION_PROPOSED"   -> {"AWAITING_APPROVAL", "EXECUTING"}
      [] s = "AWAITING_APPROVAL"      -> {"EXECUTING", "RUNBOOK_RETRIEVAL", "CASE_ESCALATED"}
      [] s = "EXECUTING"              -> {"VERIFICATION", "CASE_ESCALATED"}
      [] s = "VERIFICATION"           -> {"RESOLUTION_ANALYSIS"}
      [] s = "RESOLUTION_ANALYSIS"    -> {"CASE_CLOSED"}
      [] s = "REINVESTIGATION"        -> {"EVIDENCE_COLLECTION"}
      [] OTHER                        -> {}

Init == status = "CASE_CREATED" /\ attempt_count = 0 /\ outcome = "running"

Move ==
    /\ outcome = "running"
    /\ status' \in Successors(status)
    /\ UNCHANGED <<attempt_count, outcome>>

\* The action did not resolve the case: another pass, or a human.
Unresolved ==
    /\ outcome = "running" /\ status = "VERIFICATION"
    /\ attempt_count' = attempt_count + 1
    /\ status' = IF attempt_count' > MAX_REINVESTIGATION_ATTEMPTS
                   THEN "CASE_ESCALATED" ELSE "REINVESTIGATION"
    /\ UNCHANGED outcome

\* run() returns its terminal status.
Finish ==
    /\ outcome = "running" /\ status \in {"CASE_CLOSED", "CASE_ESCALATED"}
    /\ outcome' = status
    /\ UNCHANGED <<status, attempt_count>>

\* An activity failed for good: the execution ends where it stands.
Fail ==
    /\ outcome = "running"
    /\ outcome' = "failed"
    /\ UNCHANGED <<status, attempt_count>>

Next == Move \/ Unresolved \/ Finish \/ Fail

Spec == Init /\ [][Next]_vars
=============================================================================
