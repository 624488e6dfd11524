-------------------------- MODULE CaseTablesProofs --------------------------
(***************************************************************************)
(* What the tables hold while the workflow runs, for every retry policy    *)
(* and every limit: until a late write lands they agree with the workflow, *)
(* and with no late write they implement CaseRecord.  The inductive        *)
(* invariant is TypeOK /\ GateInv /\ PendingInv /\ TableInv /\ TrailInv.   *)
(***************************************************************************)
EXTENDS CaseWorkflowProofs, FiniteSetTheorems

\* All that Transition leaves behind, for the writes that follow it.
LEMMA TransitionWrites ==
    ASSUME NEW to, NEW event, Transition(to, event)
    PROVE  /\ status' = to /\ at' = "persist"
           /\ pending' = [from |-> status, to |-> to, event |-> event,
                           action |-> NoAction, level |-> 0]
  BY DEF Transition, Schedule

\* Likewise for _audit.
LEMMA AuditWrites ==
    ASSUME NEW event, NEW action, NEW level, Audit(event, action, level)
    PROVE  /\ status' = status /\ at' = "append"
           /\ pending' = [from |-> status, to |-> status, event |-> event,
                           action |-> action, level |-> level]
  BY DEF Audit, Schedule

\* NULL is the from_status of the first row only.
LEMMA NoStatusIsNone == NoStatus \notin CaseStatus
  BY DEF NoStatus, CaseStatus

\* The row and the trail as receive_payment_failed leaves them.
LEMMA TableInit == Init => PendingInv /\ TableInv /\ TrailInv
  BY DEF Init, PendingInv, TableInv, TrailInv, NoRow, CurrentRow, TrailEnd, Acted, Writes

\* The arguments of the next write belong to the status the case is in.
LEMMA PendingStep == TypeOK /\ GateInv /\ PendingInv /\ [Next]_vars => PendingInv'
<1> SUFFICES ASSUME TypeOK, GateInv, PendingInv, [Next]_vars PROVE PendingInv'
  OBVIOUS
<1> USE NoStatusIsNone DEF PendingInv, inputs, locals, slots, control, tables, effects,
        InBody, Awaiting
<1>0. status # NoStatus
  BY DEF TypeOK
<1>1. CASE PersistStatus
  BY <1>1 DEF PersistStatus, Schedule
<1>2. CASE AppendAudit
  BY <1>0, <1>2, TransitionWrites, AuditWrites DEF AppendAudit, Continue, Schedule
<1>3. CASE CollectEvidence
  BY <1>0, <1>3, TransitionWrites DEF CollectEvidence
<1>4. CASE Diagnose
  BY <1>0, <1>4, TransitionWrites DEF Diagnose
<1>5. CASE Retrieve
  BY <1>0, <1>5, TransitionWrites DEF Retrieve
<1>6. CASE TakeAuthored
  BY <1>0, <1>6, TransitionWrites DEF TakeAuthored
<1>7. CASE Evaluate
  BY <1>0, <1>7, TransitionWrites DEF Evaluate
<1>8. CASE Propose
  BY <1>0, <1>8, AuditWrites DEF Propose
<1>9. CASE TakeApproval
  BY <1>0, <1>9, TransitionWrites DEF TakeApproval
<1>10. CASE SlaTimeout
  BY <1>0, <1>10, TransitionWrites, AuditWrites DEF SlaTimeout
<1>11. CASE Execute
  BY <1>0, <1>11, TransitionWrites DEF Execute
<1>12. CASE Verify
  BY <1>0, <1>12, TransitionWrites DEF Verify
<1>13. CASE Analyze
  BY <1>0, <1>13, TransitionWrites DEF Analyze, Schedule
<1>14. CASE StartReview
  BY <1>0, <1>14, TransitionWrites DEF StartReview
<1>15. CASE AttemptFails
  BY <1>15 DEF AttemptFails
<1>16. CASE AttemptUnacknowledged
  BY <1>16 DEF AttemptUnacknowledged
<1>17. CASE AttemptOverruns
  BY <1>17 DEF AttemptOverruns
<1>18. CASE LateCommit
  BY <1>18 DEF LateCommit
<1>19. CASE approve_case \/ reject_case
  BY <1>19 DEF approve_case, reject_case, Signal, submit_approval
<1>20. CASE cli_main
  BY <1>20 DEF cli_main, Signal, submit_approval, author_runbook
<1>21. CASE UNCHANGED vars
  BY <1>21 DEF vars
<1>22. QED
  BY <1>1, <1>2, <1>3, <1>4, <1>5, <1>6, <1>7, <1>8, <1>9, <1>10, <1>11, <1>12, <1>13,
     <1>14, <1>15, <1>16, <1>17, <1>18, <1>19, <1>20, <1>21 DEF Next, Progress, Environment

-----------------------------------------------------------------------------
\* Between two writes the tables are those of the status the case is in.
LEMMA QuietTables ==
    ASSUME TableInv, at \notin Writes
    PROVE  ~landed =>
             /\ cases = CurrentRow
             /\ status \in Acted \cup {"AWAITING_APPROVAL"} => audit.packet = proposal
  BY DEF TableInv, Writes

\* A transition out of a part of run()'s body that follows the status graph, and
\* leaves the proposal alone if the case has one, keeps the tables in agreement.
LEMMA MoveKeepsTables ==
    ASSUME TypeOK, TableInv, at \notin Writes,
           NEW to \in Lifecycle!Successors(status), NEW event, Transition(to, event),
           attempt_count' = attempt_count, UNCHANGED tables,
           event # "policy_auto_approved",
           to \in Acted \cup {"AWAITING_APPROVAL"} =>
             status \in Acted \cup {"AWAITING_APPROVAL"} /\ proposal' = proposal
    PROVE  TableInv'
  BY QuietTables, TransitionWrites
     DEF TableInv, tables, CurrentRow, RowIsOneStepBehind, Writes

\* _audit from the body: the row stays the workflow's state.
LEMMA NoteKeepsTables ==
    ASSUME TypeOK, TableInv, at \notin Writes, NEW event, NEW action, NEW level,
           Audit(event, action, level),
           attempt_count' = attempt_count, UNCHANGED tables,
           event # "policy_auto_approved",
           status \in Acted \cup {"AWAITING_APPROVAL"} => proposal' = proposal
    PROVE  TableInv'
  BY QuietTables, AuditWrites DEF TableInv, tables, CurrentRow, Writes

\* The audit row of the last write is in: the trail ends in the case's status.
LEMMA AppendedTrail ==
    ASSUME TypeOK, PendingInv, NEW copies, InsertAudit(pending, copies)
    PROVE  /\ TrailEnd' = status
           /\ audit'.own = pending /\ audit'.last = pending /\ pending # NoRow
           /\ audit'.copies = copies
           /\ audit'.packet = IF pending.event = "approval_packet"
                                THEN pending.action ELSE audit.packet
<1>1. audit' = [last |-> pending, packet |-> PacketOf(pending), own |-> pending,
                copies |-> copies]
  BY DEF InsertAudit
<1>2. pending # NoRow
  BY DEF PendingInv, NoRow
<1>3. QED
  BY <1>1, <1>2 DEF TrailEnd, PendingInv, PacketOf

\* AppendAudit with whatever run() does next.
LEMMA AppendKeepsTables ==
    ASSUME TypeOK, GateInv, PendingInv, TableInv, AppendAudit
    PROVE  TableInv'
<1> SUFFICES ASSUME ~landed PROVE TableInv'
  BY DEF AppendAudit, TableInv
<1>1. /\ at = "append" /\ cases = CurrentRow
      /\ UNCHANGED <<attempt_count, cases, landed>>
      /\ audit'.packet = IF pending.event = "approval_packet"
                           THEN pending.action ELSE audit.packet
  BY AppendedTrail DEF AppendAudit, Awaiting, TableInv
<1>2. CASE /\ pending.event = "created" \/ status = "REINVESTIGATION"
           /\ Transition("EVIDENCE_COLLECTION", "none")
           /\ UNCHANGED <<locals, outcome, key>>
  <2>1. "EVIDENCE_COLLECTION" \in Lifecycle!Successors(status)
    BY <1>2 DEF GateInv, Lifecycle!Successors
  <2>2. QED
    BY <1>1, <1>2, <2>1, TransitionWrites
       DEF TableInv, CurrentRow, RowIsOneStepBehind, Writes, Acted
<1>3. CASE /\ pending.event = "approval_packet" /\ policy.requires_approval
           /\ Transition("AWAITING_APPROVAL", "none")
           /\ UNCHANGED <<missing, entry, policy, proposal, decision, outcome, key>>
  <2>1. "AWAITING_APPROVAL" \in Lifecycle!Successors(status)
    BY <1>3 DEF GateInv, Lifecycle!Successors
  <2>2. QED
    BY <1>1, <1>3, <2>1, TransitionWrites
       DEF TableInv, PendingInv, CurrentRow, RowIsOneStepBehind, Writes, Acted
<1>4. CASE /\ pending.event = "approval_packet" /\ ~policy.requires_approval
           /\ Audit("policy_auto_approved", NoAction, 0)
           /\ UNCHANGED <<locals, outcome, key>>
  BY <1>1, <1>4, AuditWrites DEF TableInv, PendingInv, CurrentRow, Writes, Acted, locals
<1>5. CASE /\ pending.event = "policy_auto_approved"
           /\ Transition("EXECUTING", "none")
           /\ UNCHANGED <<locals, outcome, key>>
  <2>1. "EXECUTING" \in Lifecycle!Successors(status)
    BY <1>5 DEF GateInv, Lifecycle!Successors
  <2>2. QED
    BY <1>1, <1>5, <2>1, TransitionWrites
       DEF TableInv, CurrentRow, RowIsOneStepBehind, Writes, Acted, locals
<1>6. CASE /\ pending.event \notin {"created", "approval_packet", "policy_auto_approved"}
           /\ Schedule("body")
           /\ UNCHANGED <<status, pending, locals>>
  BY <1>1, <1>6 DEF TableInv, PendingInv, CurrentRow, Schedule, Writes, locals
<1>7. QED
  BY <1>2, <1>3, <1>4, <1>5, <1>6 DEF AppendAudit, Continue

\* Every step keeps row, packet and trail in agreement with the workflow until a
\* late write lands: TableInv is inductive given the other three.
LEMMA TableStep == TypeOK /\ GateInv /\ PendingInv /\ TableInv /\ [Next]_vars => TableInv'
<1> SUFFICES ASSUME TypeOK, GateInv, PendingInv, TableInv, [Next]_vars PROVE TableInv'
  OBVIOUS
<1> USE DEF inputs, locals, slots, control, effects, InBody, Awaiting
<1>1. CASE PersistStatus
  BY <1>1 DEF PersistStatus, UpdateCases, Schedule, TableInv, CurrentRow, Writes
<1>2. CASE AppendAudit
  BY <1>2, AppendKeepsTables
<1> USE DEF Lifecycle!Successors, Acted, Writes
<1>3. CASE CollectEvidence
  BY <1>3, MoveKeepsTables DEF CollectEvidence
<1>4. CASE Diagnose
  BY <1>4, MoveKeepsTables DEF Diagnose
<1>5. CASE Retrieve
  BY <1>5, MoveKeepsTables DEF Retrieve
<1>6. CASE TakeAuthored
  BY <1>6, MoveKeepsTables DEF TakeAuthored
<1>7. CASE Evaluate
  BY <1>7, MoveKeepsTables DEF Evaluate
<1>8. CASE Propose
  BY <1>8, NoteKeepsTables DEF Propose
<1>9. CASE TakeApproval
  BY <1>9, MoveKeepsTables DEF TakeApproval
<1>10. CASE SlaTimeout
  BY <1>10, MoveKeepsTables, NoteKeepsTables DEF SlaTimeout
<1>11. CASE Execute
  BY <1>11, MoveKeepsTables DEF Execute
<1>12. CASE Verify
  <2>1. CASE Transition("RESOLUTION_ANALYSIS", "none") /\ UNCHANGED attempt_count
    BY <1>12, <2>1, MoveKeepsTables DEF Verify
  <2>2. CASE /\ attempt_count' = NextAttempt
             /\ IF CapReached(attempt_count')
                  THEN Transition("CASE_ESCALATED", "max_reinvestigation_attempts_exceeded")
                  ELSE Transition("REINVESTIGATION", "none")
    BY <1>12, <2>2, QuietTables, TransitionWrites
       DEF Verify, NextAttempt, CapReached, TableInv, tables, CurrentRow, RowIsOneStepBehind
  <2>3. QED
    BY <1>12, <2>1, <2>2 DEF Verify
<1>13. CASE Analyze
  <2>1. CASE Transition("CASE_CLOSED", "none")
    BY <1>13, <2>1, MoveKeepsTables DEF Analyze
  <2>2. CASE Schedule("child") /\ UNCHANGED <<status, pending>>
    BY <1>13, <2>2 DEF Analyze, Schedule, TableInv, tables, CurrentRow
  <2>3. QED
    BY <1>13, <2>1, <2>2 DEF Analyze
<1>14. CASE StartReview
  BY <1>14, MoveKeepsTables DEF StartReview, GateInv
<1>15. CASE AttemptFails
  BY <1>15 DEF AttemptFails, TableInv, tables, CurrentRow, RowIsOneStepBehind
<1>16. CASE AttemptUnacknowledged
  <2>1. CASE Awaiting("append") /\ InsertAudit(pending, audit.copies + 1) /\ UNCHANGED cases
    <3>1. UNCHANGED <<status, at, pending, attempt_count, proposal, landed, cases>>
      BY <1>16, <2>1 DEF AttemptUnacknowledged
    <3>2. QED
      BY <2>1, <3>1, AppendedTrail DEF TableInv, PendingInv, CurrentRow, RowIsOneStepBehind
  <2>2. CASE (UpdateCases(CurrentRow) \/ UNCHANGED cases) /\ UNCHANGED audit
    BY <1>16, <2>2
       DEF AttemptUnacknowledged, UpdateCases, TableInv, CurrentRow, RowIsOneStepBehind
  <2>3. QED
    BY <1>16, <2>1, <2>2 DEF AttemptUnacknowledged
<1>17. CASE AttemptOverruns
  BY <1>17 DEF AttemptOverruns, TableInv, CurrentRow, RowIsOneStepBehind
<1>18. CASE LateCommit
  BY <1>18 DEF LateCommit, TableInv
<1>19. CASE approve_case \/ reject_case
  BY <1>19 DEF approve_case, reject_case, Signal, submit_approval, TableInv, tables, CurrentRow, RowIsOneStepBehind
<1>20. CASE cli_main
  BY <1>20 DEF cli_main, Signal, submit_approval, author_runbook, TableInv, tables, CurrentRow, RowIsOneStepBehind
<1>21. CASE UNCHANGED vars
  BY <1>21 DEF vars, TableInv, tables, CurrentRow, RowIsOneStepBehind
<1>22. QED
  BY <1>1, <1>2, <1>3, <1>4, <1>5, <1>6, <1>7, <1>8, <1>9, <1>10, <1>11, <1>12, <1>13,
     <1>14, <1>15, <1>16, <1>17, <1>18, <1>19, <1>20, <1>21 DEF Next, Progress, Environment

-----------------------------------------------------------------------------
\* A row that differs from the last one scheduled has no copies in the trail yet.
LEMMA ScheduledTrail ==
    ASSUME PendingInv, TrailInv, at \notin Writes, UNCHANGED audit,
           at' \in Writes, pending'.from = status, pending' # pending, pending # NoRow,
           landed' = landed
    PROVE  TrailInv'
  BY DEF TrailInv, PendingInv, TrailEnd

\* A transition out of the body of run() writes a row that is not in yet.
LEMMA MoveKeepsTrail ==
    ASSUME TypeOK, PendingInv, TrailInv, at \notin Writes,
           NEW to, NEW event, Transition(to, event), to # status, UNCHANGED tables
    PROVE  TrailInv'
<1>1. pending # NoRow
  BY DEF PendingInv, NoRow
<1>2. at' \in Writes /\ pending'.from = status /\ pending' # pending
  BY TransitionWrites DEF PendingInv, Writes
<1>3. QED
  BY <1>1, <1>2, ScheduledTrail DEF tables

\* So does _audit, whose notes differ in their event or level from the row before.
LEMMA NoteKeepsTrail ==
    ASSUME TypeOK, PendingInv, TrailInv, at \notin Writes,
           NEW event, NEW action, NEW level, Audit(event, action, level), UNCHANGED tables,
           pending.event # event \/ pending.level # level
    PROVE  TrailInv'
<1>1. pending # NoRow
  BY DEF PendingInv, NoRow
<1>2. at' \in Writes /\ pending'.from = status /\ pending' # pending
  BY AuditWrites DEF Writes
<1>3. QED
  BY <1>1, <1>2, ScheduledTrail DEF tables

\* AppendAudit, with whatever run() writes next: another row, or none.
LEMMA AppendKeepsTrail ==
    ASSUME TypeOK, GateInv, PendingInv, TrailInv, AppendAudit
    PROVE  TrailInv'
<1>1. /\ TrailEnd' = status /\ pending # NoRow /\ audit'.copies = 0
      /\ audit'.own = pending /\ audit'.last = pending
  BY AppendedTrail DEF AppendAudit
<1>2. CASE \/ /\ pending.event = "created" \/ status = "REINVESTIGATION"
              /\ Transition("EVIDENCE_COLLECTION", "none")
           \/ /\ pending.event = "approval_packet"
              /\ Transition("AWAITING_APPROVAL", "none")
           \/ /\ pending.event = "policy_auto_approved"
              /\ Transition("EXECUTING", "none")
  <2>1. at' = "persist" /\ pending'.from = status /\ pending'.to # status
    BY <1>2, TransitionWrites DEF GateInv
  <2>2. QED
    BY <1>1, <2>1 DEF TrailInv, PendingInv, Writes
<1>3. CASE pending.event = "approval_packet" /\ Audit("policy_auto_approved", NoAction, 0)
  BY <1>1, <1>3, AuditWrites DEF TrailInv, Writes
<1>4. CASE Schedule("body") /\ UNCHANGED pending
  BY <1>1, <1>4 DEF TrailInv, Schedule, Writes
<1>5. QED
  BY <1>2, <1>3, <1>4 DEF AppendAudit, Continue

\* An attempt that is repeated leaves one copy at most: TrailInv is inductive.
LEMMA TrailInvStep ==
    TypeOK /\ GateInv /\ PendingInv /\ TrailInv /\ [Next]_vars => TrailInv'
<1> SUFFICES ASSUME TypeOK, GateInv, PendingInv, TrailInv, [Next]_vars PROVE TrailInv'
  OBVIOUS
<1> USE DEF inputs, locals, slots, control, effects, InBody, Awaiting
<1>1. CASE PersistStatus
  BY <1>1 DEF PersistStatus, Schedule, TrailInv, TrailEnd, Writes
<1>2. CASE AppendAudit
  BY <1>2, AppendKeepsTrail
<1>3. CASE CollectEvidence
  BY <1>3, MoveKeepsTrail DEF CollectEvidence, Writes
<1>4. CASE Diagnose
  BY <1>4, MoveKeepsTrail DEF Diagnose, Writes
<1>5. CASE Retrieve
  BY <1>5, MoveKeepsTrail DEF Retrieve, Writes
<1>6. CASE TakeAuthored
  BY <1>6, MoveKeepsTrail DEF TakeAuthored, Writes
<1>7. CASE Evaluate
  BY <1>7, MoveKeepsTrail DEF Evaluate, Writes
<1>8. CASE Propose
  BY <1>8, NoteKeepsTrail DEF Propose, PendingInv, Writes
<1>9. CASE TakeApproval
  BY <1>9, MoveKeepsTrail DEF TakeApproval, Writes
<1>10. CASE SlaTimeout
  <2>1. pending.event # "sla_escalation" \/ pending.level # escalation_level'
    BY <1>10 DEF SlaTimeout, PendingInv, TypeOK
  <2>2. QED
    BY <1>10, <2>1, MoveKeepsTrail, NoteKeepsTrail DEF SlaTimeout, Writes
<1>11. CASE Execute
  BY <1>11, MoveKeepsTrail DEF Execute, Writes
<1>12. CASE Verify
  BY <1>12, MoveKeepsTrail DEF Verify, Writes
<1>13. CASE Analyze
  <2>1. CASE Transition("CASE_CLOSED", "none")
    BY <1>13, <2>1, MoveKeepsTrail DEF Analyze, Writes
  <2>2. CASE Schedule("child") /\ UNCHANGED pending
    BY <1>13, <2>2 DEF Analyze, Schedule, TrailInv, tables, Writes
  <2>3. QED
    BY <1>13, <2>1, <2>2 DEF Analyze
<1>14. CASE StartReview
  BY <1>14, MoveKeepsTrail DEF StartReview, GateInv, Writes
<1>15. CASE AttemptFails \/ AttemptOverruns
  <2>1. UNCHANGED <<at, pending, audit, landed>>
    BY <1>15 DEF AttemptFails, AttemptOverruns, tables
  <2>2. outcome' = "running" => tries' = tries + 1
    BY <1>15 DEF AttemptFails, AttemptOverruns, RetryOrFail
  <2>3. outcome = "running" /\ tries \in Nat /\ audit.copies \in Nat
    BY <1>15 DEF AttemptFails, AttemptOverruns, TypeOK
  <2>4. QED
    BY <2>1, <2>2, <2>3 DEF TrailInv, TrailEnd
<1>16. CASE AttemptUnacknowledged
  <2>1. UNCHANGED <<at, pending, landed>> /\ outcome = "running"
    BY <1>16 DEF AttemptUnacknowledged
  <2>2. outcome' = "running" => tries' = tries + 1
    BY <1>16 DEF AttemptUnacknowledged, RetryOrFail
  <2>3. tries \in Nat /\ audit.copies \in Nat
    BY DEF TypeOK
  <2>4. CASE at = "append" /\ InsertAudit(pending, audit.copies + 1)
    BY <2>1, <2>2, <2>3, <2>4, AppendedTrail DEF TrailInv, Writes
  <2>5. CASE UNCHANGED audit
    BY <2>1, <2>2, <2>3, <2>5 DEF TrailInv, TrailEnd
  <2>6. QED
    BY <1>16, <2>4, <2>5 DEF AttemptUnacknowledged
<1>17. CASE LateCommit
  <2>1. audit'.own = audit.own /\ audit'.copies = audit.copies /\ landed'
    BY <1>17 DEF LateCommit, InsertLate, TypeOK
  <2>2. UNCHANGED <<at, pending, tries, outcome>>
    BY <1>17 DEF LateCommit
  <2>3. QED
    BY <2>1, <2>2 DEF TrailInv, TrailEnd
<1>18. CASE approve_case \/ reject_case \/ cli_main
  BY <1>18 DEF approve_case, reject_case, cli_main, Signal, tables, TrailInv, TrailEnd
<1>19. CASE UNCHANGED vars
  BY <1>19 DEF vars, tables, TrailInv, TrailEnd
<1>20. QED
  BY <1>1, <1>2, <1>3, <1>4, <1>5, <1>6, <1>7, <1>8, <1>9, <1>10, <1>11, <1>12, <1>13,
     <1>14, <1>15, <1>16, <1>17, <1>18, <1>19 DEF Next, Progress, Environment

\* The tables agree with the workflow in every execution, the row and the packet
\* until a late write.
LEMMA TablesAgree == Spec => [](TypeOK /\ GateInv /\ PendingInv /\ TableInv /\ TrailInv)
  BY TypeInit, TypeStep, GateInit, GateStep, TableInit, PendingStep, TableStep, TrailInvStep,
     PTL DEF Spec

\* The row a poller reads is the workflow's state or the one it is leaving,
\* however often attempts fail or are repeated.
THEOREM RowKeepsUpHolds == Spec => []RowKeepsUp
<1>1. TableInv => RowKeepsUp
  BY DEF TableInv, RowKeepsUp, CurrentRow, RowIsOneStepBehind
<1>2. QED
  BY <1>1, TablesAgree, PTL

\* The newest packet is that of the proposal awaiting approval, executed or closed.
THEOREM PacketNamesTheActionHolds == Spec => []PacketNamesTheAction
<1>1. TableInv => PacketNamesTheAction
  BY DEF TableInv, PacketNamesTheAction
<1>2. QED
  BY <1>1, TablesAgree, PTL

\* What one step does to the trail.
LEMMA TrailStep ==
    ASSUME TypeOK, PendingInv, TableInv, TrailInv, [Next]_vars
    PROVE  /\ RowInTime =>
                \/ /\ audit'.own # audit.own
                   /\ audit'.own.from = TrailEnd
                   /\ ~landed => audit'.own.to = cases.status
                \/ /\ audit'.own = audit.own
                   /\ audit.copies \in 1..tries
           /\ (audit' # audit /\ ~RowInTime) =>
                audit'.last \in late_audit /\ audit'.own = audit.own
<1>1. ASSUME RowInTime
      PROVE  \/ /\ audit'.own # audit.own
                /\ audit'.own.from = TrailEnd
                /\ ~landed => audit'.own.to = cases.status
             \/ /\ audit'.own = audit.own
                /\ audit.copies \in 1..tries
  <2>1. PICK copies : outcome = "running" /\ at = "append" /\ InsertAudit(pending, copies)
    BY <1>1 DEF RowInTime, AppendAudit, AttemptUnacknowledged, Awaiting, InBody
  <2>2. audit'.own = pending
    BY <2>1, AppendedTrail
  <2>3. ~landed => pending.to = cases.status
    BY <2>1 DEF TableInv, PendingInv, CurrentRow
  <2>4. audit.copies \in Nat /\ tries \in Nat
    BY DEF TypeOK
  <2>5. QED
    BY <2>1, <2>2, <2>3, <2>4 DEF TrailInv, Writes
<1>2. ASSUME audit' # audit, ~RowInTime
      PROVE  audit'.last \in late_audit /\ audit'.own = audit.own
  <2>1. PICK row \in late_audit : InsertLate(row)
    BY <1>2 DEF RowInTime, Next, Progress, Environment, PersistStatus, CollectEvidence,
       Diagnose, Retrieve, TakeAuthored, Evaluate, Propose, TakeApproval, SlaTimeout, Execute,
       Verify, Analyze, StartReview, AttemptFails, AttemptUnacknowledged, AttemptOverruns,
       LateCommit, approve_case, reject_case, cli_main, Signal, Awaiting, vars, tables
  <2>2. QED
    BY <2>1 DEF InsertLate, TypeOK
<1>3. QED
  BY <1>1, <1>2

\* The audit trail is one chain of rows inserted in time, with the copies that
\* retries make of the newest one, and the rows of timed-out attempts.
THEOREM TrailIsContiguousHolds == Spec => TrailIsContiguous
<1>1. TypeOK /\ PendingInv /\ TableInv /\ TrailInv /\ [Next]_vars =>
        [/\ RowInTime =>
              \/ /\ audit'.own # audit.own
                 /\ audit'.own.from = TrailEnd
                 /\ ~landed => audit'.own.to = cases.status
              \/ /\ audit'.own = audit.own
                 /\ audit.copies \in 1..tries
         /\ (audit' # audit /\ ~RowInTime) =>
              audit'.last \in late_audit /\ audit'.own = audit.own]_vars
  BY TrailStep
<1>2. QED
  BY <1>1, TablesAgree, PTL DEF Spec, TrailIsContiguous

-----------------------------------------------------------------------------
\* With no late write allowed, none is ever pending or lands.
NoLate == late_status = {} /\ late_audit = {} /\ ~landed

\* Where MaxLate is 0, AttemptOverruns and LateCommit never happen.
LEMMA NoLateStep ==
    ASSUME MaxLate = 0
    PROVE  TypeOK /\ NoLate /\ [Next]_vars => NoLate'
<1> SUFFICES ASSUME TypeOK, NoLate, [Next]_vars PROVE NoLate'
  OBVIOUS
<1>1. ~AttemptOverruns
  BY FS_EmptySet DEF AttemptOverruns, NoLate
<1>2. ~LateCommit
  BY DEF LateCommit, NoLate
<1>3. QED
  BY <1>1, <1>2 DEF NoLate, Next, Progress, Environment, PersistStatus, AppendAudit,
     CollectEvidence, Diagnose, Retrieve, TakeAuthored, Evaluate, Propose, TakeApproval,
     SlaTimeout, Execute, Verify, Analyze, StartReview, AttemptFails, AttemptUnacknowledged,
     approve_case, reject_case, cli_main, Signal, submit_approval, author_runbook, vars,
     tables

\* One step of the workflow as the tables' readers see it: an UPDATE along the
\* graph, the packet of a new proposal, or nothing.
LEMMA RecordStep ==
    TypeOK /\ GateInv /\ PendingInv /\ TableInv /\ NoLate /\ [Next]_vars /\ NoLate'
      => [Record!Next]_Record!vars
<1> SUFFICES ASSUME TypeOK, GateInv, PendingInv, TableInv, NoLate, [Next]_vars, NoLate'
             PROVE  Record!Next \/ UNCHANGED <<cases, audit.packet>>
  BY DEF Record!vars
<1>1. CASE UNCHANGED <<cases, audit>>
  BY <1>1
<1>2. CASE Awaiting("persist") /\ UpdateCases(CurrentRow) /\ UNCHANGED audit
  <2>1. cases = CurrentRow \/ RowIsOneStepBehind
    BY DEF TableInv, NoLate
  <2>2. cases' = CurrentRow /\ cases \in CaseRow
    BY <1>2 DEF UpdateCases, TypeOK
  <2>3. CASE RowIsOneStepBehind
    <3>1. Record!Graph!Move \/ Record!Graph!Unresolved
      BY <2>2, <2>3
         DEF RowIsOneStepBehind, CurrentRow, Lifecycle!Successors, Record!Graph!Successors,
             Record!Graph!Move, Record!Graph!Unresolved
    <3>2. QED
      BY <1>2, <3>1 DEF Record!Next, Record!UpdateRow
  <2>4. QED
    BY <1>2, <2>1, <2>2, <2>3
<1>3. ASSUME Awaiting("append"), NEW copies, InsertAudit(pending, copies), UNCHANGED cases
      PROVE  Record!Next \/ UNCHANGED <<cases, audit.packet>>
  <2>1. cases.status = status
    BY <1>3 DEF Awaiting, TableInv, NoLate, CurrentRow
  <2>2. CASE pending.event = "approval_packet"
    <3>1. audit'.packet = pending.action /\ pending.action \in Actions
      BY <1>3, <2>2, AppendedTrail DEF TypeOK, AuditRow
    <3>2. cases.status = "REMEDIATION_PROPOSED"
      BY <2>1, <2>2 DEF GateInv
    <3>3. QED
      BY <1>3, <3>1, <3>2 DEF Record!Next, Record!NewPacket
  <2>3. CASE pending.event # "approval_packet"
    BY <1>3, <2>3, AppendedTrail
  <2>4. QED
    BY <2>2, <2>3
<1>4. ~LateCommit
  BY DEF LateCommit, NoLate
<1>5. \/ UNCHANGED <<cases, audit>>
      \/ Awaiting("persist") /\ UpdateCases(CurrentRow) /\ UNCHANGED audit
      \/ Awaiting("append") /\ UNCHANGED cases /\ \E copies : InsertAudit(pending, copies)
  BY <1>4 DEF Next, Progress, Environment, PersistStatus, AppendAudit,
     CollectEvidence, Diagnose, Retrieve, TakeAuthored, Evaluate, Propose, TakeApproval,
     SlaTimeout, Execute, Verify, Analyze, StartReview, AttemptFails, AttemptUnacknowledged,
     AttemptOverruns, approve_case, reject_case, cli_main, Signal, submit_approval,
     author_runbook, vars, tables
<1>6. QED
  BY <1>1, <1>2, <1>3, <1>5

\* If no attempt outlives its timeout, the two tables implement CaseRecord: their
\* readers see the status graph walked step by step and no packet out of turn.
THEOREM ImplementsRecord ==
    ASSUME MaxLate = 0
    PROVE  Spec => FollowsRecord
<1>1. Init => NoLate /\ Record!Init
  BY DEF Init, NoLate, Record!Init, Record!Graph!Init
<1>2. QED
  BY <1>1, NoLateStep, RecordStep, TablesAgree, PTL DEF Spec, FollowsRecord, Record!Spec
=============================================================================
