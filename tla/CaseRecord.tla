----------------------------- MODULE CaseRecord -----------------------------
(***************************************************************************)
(* What the two tables promise whoever reads them, as long as no write of  *)
(* a timed-out attempt lands: the status column walks the status graph,    *)
(* and the newest approval packet changes in REMEDIATION_PROPOSED only.    *)
(* CaseWorkflow, through its persistence activities, implements this       *)
(* specification; CustomerPortal is built on it.                           *)
(***************************************************************************)
EXTENDS Integers

CONSTANTS
    MAX_REINVESTIGATION_ATTEMPTS,
    Packets,     \* actions an approval packet may name
    NoPacket

VARIABLES
    status, attempt_count,  \* of the case's row
    packet                  \* what its newest approval packet names

vars == <<status, attempt_count, packet>>

\* The tables do not show whether the execution has ended or failed: to a
\* reader the case is for ever running.
Graph == INSTANCE CaseLifecycle WITH outcome <- "running"

Init == Graph!Init /\ packet = NoPacket

\* persist_case_status: one UPDATE for the status and the counter.
UpdateRow == (Graph!Move \/ Graph!Unresolved) /\ UNCHANGED packet

\* append_audit_event with the approval packet of a proposal.
NewPacket ==
    /\ status = "REMEDIATION_PROPOSED"
    /\ packet' \in Packets
    /\ UNCHANGED <<status, attempt_count>>

Next == UpdateRow \/ NewPacket

Spec == Init /\ [][Next]_vars
=============================================================================
