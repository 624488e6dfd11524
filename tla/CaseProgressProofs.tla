------------------------- MODULE CaseProgressProofs -------------------------
(***************************************************************************)
(* Where a case goes, for every limit: it walks the status graph of        *)
(* CaseLifecycle, the reinvestigation cap bounds what it does, each step   *)
(* brings the end nearer, and the end is on record.  All rests on the      *)
(* invariants of CaseWorkflowProofs and CaseTablesProofs.                  *)
(***************************************************************************)
EXTENDS CaseTablesProofs

\* A case starts where the status graph does.
LEMMA LifecycleInit == Init => Lifecycle!Init
  BY DEF Init, Lifecycle!Init

\* Every step of the workflow is a move along the graph, a change of counter
\* the graph allows, an end of the execution, or changes none of the three.
LEMMA LifecycleStep ==
    TypeOK /\ GateInv /\ [Next]_vars => [Lifecycle!Next]_Lifecycle!vars
<1> SUFFICES ASSUME TypeOK, GateInv, [Next]_vars
             PROVE  Lifecycle!Next \/ UNCHANGED <<status, attempt_count, outcome>>
  BY DEF Lifecycle!vars
<1> USE DEF inputs, locals, slots, control, tables, effects, InBody, Awaiting,
            Lifecycle!Next, Lifecycle!Move, Lifecycle!Successors
<1>1. CASE PersistStatus
  BY <1>1 DEF PersistStatus
<1>2. CASE AppendAudit
  BY <1>2, TransitionSays, AuditSays
     DEF AppendAudit, Continue, GateInv, Terminal, Lifecycle!Finish
<1>3. CASE CollectEvidence
  BY <1>3, TransitionSays DEF CollectEvidence
<1>4. CASE Diagnose
  BY <1>4, TransitionSays DEF Diagnose
<1>5. CASE Retrieve
  BY <1>5, TransitionSays DEF Retrieve
<1>6. CASE TakeAuthored
  BY <1>6, TransitionSays DEF TakeAuthored
<1>7. CASE Evaluate
  BY <1>7, TransitionSays DEF Evaluate
<1>8. CASE Propose
  BY <1>8, AuditSays DEF Propose
<1>9. CASE TakeApproval
  BY <1>9, TransitionSays DEF TakeApproval
<1>10. CASE SlaTimeout
  BY <1>10, TransitionSays, AuditSays DEF SlaTimeout
<1>11. CASE Execute
  BY <1>11, TransitionSays DEF Execute
<1>12. CASE Verify
  BY <1>12, TransitionSays DEF Verify, NextAttempt, CapReached, Lifecycle!Unresolved
<1>13. CASE Analyze
  BY <1>13, TransitionSays DEF Analyze
<1>14. CASE StartReview
  BY <1>14, TransitionSays DEF StartReview, GateInv
<1>15. CASE AttemptFails
  BY <1>15 DEF AttemptFails, RetryOrFail, Lifecycle!Fail
<1>16. CASE AttemptUnacknowledged
  BY <1>16 DEF AttemptUnacknowledged, RetryOrFail, Lifecycle!Fail
<1>17. CASE AttemptOverruns
  BY <1>17 DEF AttemptOverruns, RetryOrFail, Lifecycle!Fail
<1>18. CASE LateCommit
  BY <1>18 DEF LateCommit
<1>19. CASE approve_case \/ reject_case
  BY <1>19 DEF approve_case, reject_case, Signal, submit_approval
<1>20. CASE cli_main
  BY <1>20 DEF cli_main, Signal, submit_approval, author_runbook
<1>21. CASE UNCHANGED vars
  BY <1>21 DEF vars
<1>22. QED
  BY <1>1, <1>2, <1>3, <1>4, <1>5, <1>6, <1>7, <1>8, <1>9, <1>10, <1>11, <1>12, <1>13,
     <1>14, <1>15, <1>16, <1>17, <1>18, <1>19, <1>20, <1>21 DEF Next, Progress, Environment

\* Through activities, retries, signals and timers the case only ever moves
\* along the status graph, and its counter only as the graph says.
THEOREM ImplementsLifecycle == Spec => FollowsLifecycle
<1>1. QED
  BY LifecycleInit, LifecycleStep, TypeCorrect, GateInit, GateStep, PTL
     DEF Spec, FollowsLifecycle, Lifecycle!Spec

-----------------------------------------------------------------------------
\* No key has been drawn when run() starts.
LEMMA AttemptInit == Init => AttemptInv
  BY LimitsAssumption DEF Init, AttemptInv, KeysUsed, Acted

\* Adding the key just drawn to the keys used so far, once or again.
LEMMA NextInterval ==
    ASSUME NEW n \in Nat
    PROVE  1..n \cup {n + 1} = 1..(n + 1) /\ 1..(n + 1) \cup {n + 1} = 1..(n + 1)
  OBVIOUS

\* Every step keeps the keys drawn and used in line with the attempt counter:
\* AttemptInv is inductive given the types and GateInv.
LEMMA AttemptStep == TypeOK /\ GateInv /\ AttemptInv /\ [Next]_vars => AttemptInv'
<1> SUFFICES ASSUME TypeOK, GateInv, AttemptInv, [Next]_vars PROVE AttemptInv'
  OBVIOUS
<1>0. attempt_count \in Nat /\ MAX_REINVESTIGATION_ATTEMPTS \in Nat
  BY LimitsAssumption DEF TypeOK
<1> USE <1>0 DEF AttemptInv, KeysUsed, Acted, Refused, inputs, locals, slots, control,
            tables, effects, InBody, Awaiting
<1>1. CASE PersistStatus
  BY <1>1 DEF PersistStatus, Schedule
<1>2. CASE AppendAudit
  BY <1>2, TransitionSays, AuditSays
     DEF AppendAudit, Continue, DrawKey, Schedule, GateInv, Terminal
<1>3. CASE CollectEvidence
  BY <1>3, TransitionSays DEF CollectEvidence
<1>4. CASE Diagnose
  BY <1>4, TransitionSays DEF Diagnose
<1>5. CASE Retrieve
  BY <1>5, TransitionSays DEF Retrieve
<1>6. CASE TakeAuthored
  BY <1>6, TransitionSays DEF TakeAuthored
<1>7. CASE Evaluate
  BY <1>7, TransitionSays DEF Evaluate
<1>8. CASE Propose
  BY <1>8, AuditSays DEF Propose
<1>9. CASE TakeApproval
  BY <1>9, TransitionSays DEF TakeApproval
<1>10. CASE SlaTimeout
  BY <1>10, TransitionSays, AuditSays DEF SlaTimeout
<1>11. CASE Execute
  BY <1>11, TransitionSays, NextInterval DEF Execute
<1>12. CASE Verify
  BY <1>12, TransitionSays DEF Verify, NextAttempt, CapReached
<1>13. CASE Analyze
  BY <1>13, TransitionSays DEF Analyze, Schedule
<1>14. CASE StartReview
  BY <1>14, TransitionSays DEF StartReview, GateInv
<1>15. CASE AttemptFails
  BY <1>15 DEF AttemptFails
<1>16. CASE AttemptUnacknowledged
  BY <1>16, NextInterval DEF AttemptUnacknowledged
<1>17. CASE AttemptOverruns
  BY <1>17 DEF AttemptOverruns
<1>18. CASE LateCommit
  BY <1>18 DEF LateCommit
<1>19. CASE approve_case \/ reject_case
  BY <1>19 DEF approve_case, reject_case, Signal, submit_approval
<1>20. CASE cli_main
  BY <1>20 DEF cli_main, Signal, submit_approval, author_runbook
<1>21. CASE UNCHANGED vars
  BY <1>21 DEF vars
<1>22. QED
  BY <1>1, <1>2, <1>3, <1>4, <1>5, <1>6, <1>7, <1>8, <1>9, <1>10, <1>11, <1>12, <1>13,
     <1>14, <1>15, <1>16, <1>17, <1>18, <1>19, <1>20, <1>21 DEF Next, Progress, Environment

\* One key, and so at most one effect, per attempt; none for a refused round.
THEOREM OneEffectPerAttemptHolds == Spec => []OneEffectPerAttempt
<1>1. TypeOK /\ AttemptInv => OneEffectPerAttempt
  BY DEF TypeOK, AttemptInv, KeysUsed, OneEffectPerAttempt, Acted, Refused
<1>2. QED
  BY <1>1, TypeCorrect, GateInit, GateStep, AttemptInit, AttemptStep, PTL DEF Spec

\* The cap bounds the counter and the keys a case can draw.
THEOREM AttemptsAreBoundedHolds == Spec => []AttemptsAreBounded
<1>1. TypeOK /\ AttemptInv => AttemptsAreBounded
  BY LimitsAssumption DEF TypeOK, AttemptInv, KeysUsed, AttemptsAreBounded, Acted
<1>2. QED
  BY <1>1, TypeCorrect, GateInit, GateStep, AttemptInit, AttemptStep, PTL DEF Spec

-----------------------------------------------------------------------------
\* Nothing is over when run() starts.
LEMMA EndInit == Init => EndInv
  BY DEF Init, EndInv, Terminal

\* run() leaves every status but a final one for an await, and returns only from
\* a final status whose row is in: EndInv is inductive given GateInv.
LEMMA EndStep == TypeOK /\ GateInv /\ EndInv /\ [Next]_vars => EndInv'
<1> SUFFICES ASSUME TypeOK, GateInv, EndInv, [Next]_vars PROVE EndInv'
  OBVIOUS
<1> USE DEF EndInv, Terminal, inputs, locals, slots, control, tables, effects, InBody, Awaiting
<1>1. CASE PersistStatus
  BY <1>1 DEF PersistStatus, Schedule
<1>2. CASE AppendAudit
  BY <1>2, TransitionSays, AuditSays DEF AppendAudit, Continue, Schedule, GateInv
<1>3. CASE CollectEvidence
  BY <1>3, TransitionSays DEF CollectEvidence
<1>4. CASE Diagnose
  BY <1>4, TransitionSays DEF Diagnose
<1>5. CASE Retrieve
  BY <1>5, TransitionSays DEF Retrieve
<1>6. CASE TakeAuthored
  BY <1>6, TransitionSays DEF TakeAuthored
<1>7. CASE Evaluate
  BY <1>7, TransitionSays DEF Evaluate
<1>8. CASE Propose
  BY <1>8, AuditSays DEF Propose
<1>9. CASE TakeApproval
  BY <1>9, TransitionSays DEF TakeApproval
<1>10. CASE SlaTimeout
  BY <1>10, TransitionSays, AuditSays DEF SlaTimeout
<1>11. CASE Execute
  BY <1>11, TransitionSays DEF Execute
<1>12. CASE Verify
  BY <1>12, TransitionSays DEF Verify
<1>13. CASE Analyze
  BY <1>13, TransitionSays DEF Analyze, Schedule
<1>14. CASE StartReview
  BY <1>14, TransitionSays DEF StartReview
<1>15. CASE AttemptFails \/ AttemptUnacknowledged \/ AttemptOverruns
  BY <1>15 DEF AttemptFails, AttemptUnacknowledged, AttemptOverruns, RetryOrFail
<1>16. CASE Environment
  BY <1>16 DEF Environment, LateCommit, approve_case, reject_case, cli_main, Signal,
     submit_approval, author_runbook
<1>17. CASE UNCHANGED vars
  BY <1>17 DEF vars
<1>18. QED
  BY <1>1, <1>2, <1>3, <1>4, <1>5, <1>6, <1>7, <1>8, <1>9, <1>10, <1>11, <1>12, <1>13,
     <1>14, <1>15, <1>16, <1>17 DEF Next, Progress

\* The invariants on which the rest of the module stands, together.
LEMMA CaseInvHolds ==
    Spec => [](TypeOK /\ GateInv /\ PendingInv /\ TableInv /\ TrailInv /\ AttemptInv /\ EndInv)
  BY TablesAgree, AttemptInit, AttemptStep, EndInit, EndStep, PTL DEF Spec

\* A finished case has its result in both tables, and nobody waits for a result
\* that run() has reached and not returned.
THEOREM EndIsOnRecordHolds == Spec => []EndIsOnRecord
<1>1. PendingInv /\ TableInv /\ TrailInv /\ EndInv => EndIsOnRecord
  BY DEF PendingInv, TableInv, TrailInv, EndInv, EndIsOnRecord, Writes
<1>2. QED
  BY <1>1, CaseInvHolds, PTL

\* What may wake run() without an author, by the guard of the step that does: an
\* attempt of an activity awaited, the start of the child, a decision in the slot,
\* or the timer of the approval wait, which must be armed whenever there is none.
StepIsDue ==
    \/ at \in Writes \cup {"child"}
    \/ InBody("EVIDENCE_COLLECTION")
    \/ Awaiting("body") /\ status \in RunsActivity
    \/ InBody("AWAITING_APPROVAL") /\ (approval.decision \in Decisions \/ SlaExpires)
    \/ InBody("HUMAN_RUNBOOK_AUTHORING") /\ authored # NoMatch

\* A running execution can always go on by itself, whatever humans do or leave
\* undone, but for one that waits for an author, whom no timer replaces.
THEOREM WaitsForAuthorOnly ==
    Spec => [](outcome = "running" =>
                 StepIsDue \/ (InBody("HUMAN_RUNBOOK_AUTHORING") /\ authored = NoMatch))
<1>1. TypeOK /\ EndInv =>
        (outcome = "running" =>
           StepIsDue \/ (InBody("HUMAN_RUNBOOK_AUTHORING") /\ authored = NoMatch))
  <2> SUFFICES ASSUME TypeOK, EndInv, outcome = "running"
               PROVE  StepIsDue \/ (InBody("HUMAN_RUNBOOK_AUTHORING") /\ authored = NoMatch)
    OBVIOUS
  <2>1. CASE at # "body"
    BY <2>1 DEF TypeOK, StepIsDue
  <2>2. CASE at = "body" /\ status = "AWAITING_APPROVAL"
    BY <2>2 DEF TypeOK, Decision, StepIsDue, InBody, SlaExpires
  <2>3. CASE at = "body" /\ status # "AWAITING_APPROVAL"
    BY <2>3 DEF TypeOK, EndInv, StepIsDue, InBody, Awaiting, Terminal, RunsActivity, CaseStatus
  <2>4. QED
    BY <2>1, <2>2, <2>3
<1>2. QED
  BY <1>1, CaseInvHolds, PTL

-----------------------------------------------------------------------------
\* No refusal is on record when run() starts.
LEMMA RefusalInit == Init => RefusalInv
  BY DEF Init, RefusalInv, Refused, NoRow

\* A refusal escalates the case, and what is escalated writes no other row.
LEMMA RefusalStep == TypeOK /\ GateInv /\ PendingInv /\ RefusalInv /\ [Next]_vars => RefusalInv'
<1> SUFFICES ASSUME TypeOK, GateInv, PendingInv, RefusalInv, [Next]_vars PROVE RefusalInv'
  OBVIOUS
<1> USE DEF RefusalInv, Refused, inputs, locals, slots, control, tables, effects, InBody, Awaiting
<1>1. CASE PersistStatus
  BY <1>1 DEF PersistStatus, Schedule
<1>2. CASE AppendAudit
  BY <1>2, TransitionSays, AuditSays, AppendedTrail DEF AppendAudit, Continue, Schedule
<1>3. CASE CollectEvidence
  BY <1>3, TransitionSays DEF CollectEvidence
<1>4. CASE Diagnose
  BY <1>4, TransitionSays DEF Diagnose
<1>5. CASE Retrieve
  BY <1>5, TransitionSays DEF Retrieve
<1>6. CASE TakeAuthored
  BY <1>6, TransitionSays DEF TakeAuthored
<1>7. CASE Evaluate
  BY <1>7, TransitionSays DEF Evaluate
<1>8. CASE Propose
  BY <1>8, AuditSays DEF Propose
<1>9. CASE TakeApproval
  BY <1>9, TransitionSays DEF TakeApproval
<1>10. CASE SlaTimeout
  BY <1>10, TransitionSays, AuditSays DEF SlaTimeout
<1>11. CASE Execute
  BY <1>11, TransitionSays DEF Execute
<1>12. CASE Verify
  BY <1>12, TransitionSays DEF Verify
<1>13. CASE Analyze
  BY <1>13, TransitionSays DEF Analyze, Schedule
<1>14. CASE StartReview
  BY <1>14, TransitionSays DEF StartReview, GateInv
<1>15. CASE AttemptFails \/ AttemptOverruns
  BY <1>15 DEF AttemptFails, AttemptOverruns
<1>16. CASE AttemptUnacknowledged
  BY <1>16, AppendedTrail DEF AttemptUnacknowledged
<1>17. CASE Environment
  BY <1>17 DEF Environment, LateCommit, approve_case, reject_case, cli_main, Signal,
     submit_approval, author_runbook
<1>18. CASE UNCHANGED vars
  BY <1>18 DEF vars
<1>19. QED
  BY <1>1, <1>2, <1>3, <1>4, <1>5, <1>6, <1>7, <1>8, <1>9, <1>10, <1>11, <1>12, <1>13,
     <1>14, <1>15, <1>16, <1>17, <1>18 DEF Next, Progress

\* The first claim of TablesTellWhatRan, which is inductive given the others.
PacketStands ==
    (~landed /\ cases.status \in Acted \cup {"AWAITING_APPROVAL"}) => audit.packet = proposal

\* The row a new proposal is made under asks nobody for anything yet.
LEMMA PacketStep ==
    TypeOK /\ GateInv /\ PendingInv /\ TableInv /\ PacketStands /\ [Next]_vars => PacketStands'
<1> SUFFICES ASSUME TypeOK, GateInv, PendingInv, TableInv, PacketStands, [Next]_vars, ~landed'
             PROVE  PacketStands'
  BY DEF PacketStands
<1> USE DEF PacketStands, inputs, locals, slots, control, tables, effects, InBody, Awaiting
<1>1. CASE PersistStatus
  BY <1>1 DEF PersistStatus, UpdateCases, CurrentRow, TableInv
<1>2. CASE AppendAudit
  <2>1. UNCHANGED <<cases, landed, proposal>>
    BY <1>2 DEF AppendAudit, Continue
  <2>2. audit'.packet = IF pending.event = "approval_packet" THEN proposal ELSE audit.packet
    BY <1>2, AppendedTrail DEF AppendAudit, PendingInv
  <2>3. QED
    BY <2>1, <2>2
<1>3. CASE Propose
  BY <1>3 DEF Propose, TableInv, CurrentRow, Writes, Acted
<1>4. CASE AttemptUnacknowledged
  <2>1. UNCHANGED <<landed, proposal, status>>
    BY <1>4 DEF AttemptUnacknowledged
  <2>2. CASE UpdateCases(CurrentRow) /\ UNCHANGED audit
    BY <2>1, <2>2 DEF UpdateCases, CurrentRow, TableInv
  <2>3. CASE InsertAudit(pending, audit.copies + 1) /\ UNCHANGED cases
    BY <2>1, <2>3, AppendedTrail DEF PendingInv
  <2>4. CASE UNCHANGED <<cases, audit>>
    BY <2>1, <2>4
  <2>5. QED
    BY <1>4, <2>2, <2>3, <2>4 DEF AttemptUnacknowledged
<1>5. CASE LateCommit
  BY <1>5 DEF LateCommit
<1>6. CASE UNCHANGED <<cases, audit, proposal, landed>>
  BY <1>6
<1>7. QED
  BY <1>1, <1>2, <1>3, <1>4, <1>5, <1>6 DEF Next, Progress, Environment, CollectEvidence,
     Diagnose, Retrieve, TakeAuthored, Evaluate, TakeApproval, SlaTimeout, Execute, Verify,
     Analyze, StartReview, AttemptFails, AttemptOverruns, approve_case, reject_case, cli_main,
     Signal, submit_approval, author_runbook, vars

\* What the two tables say of a case's action and of its charges is so, for every
\* limit and retry policy, until the write of a timed-out attempt lands.
THEOREM TablesTellWhatRanHolds == Spec => []TablesTellWhatRan
<1>1. Init => PacketStands
  BY DEF Init, PacketStands, Acted
<1>2. TypeOK /\ TableInv /\ AttemptInv /\ PacketStands /\ RefusalInv => TablesTellWhatRan
  <2> SUFFICES ASSUME TypeOK, TableInv, AttemptInv, PacketStands, RefusalInv, ~landed
               PROVE  TablesTellWhatRan
    BY DEF TablesTellWhatRan
  <2>1. OneEffectPerAttempt
    BY DEF TypeOK, AttemptInv, KeysUsed, OneEffectPerAttempt, Acted, Refused
  <2>2. cases.status \in {"CASE_CLOSED", "CASE_ESCALATED"} => cases = CurrentRow
    BY DEF TableInv, RowIsOneStepBehind, Lifecycle!Successors
  <2>3. cases.status = "CASE_CLOSED" => charged = 1..(cases.attempt_count + 1)
    BY <2>1, <2>2 DEF CurrentRow, OneEffectPerAttempt, Acted
  <2>4. ASSUME cases.status = "CASE_ESCALATED", audit.last.event \in Refused
        PROVE  charged = 1..cases.attempt_count
    BY <2>1, <2>2, <2>4 DEF CurrentRow, OneEffectPerAttempt, RefusalInv
  <2>5. QED
    BY <2>3, <2>4 DEF TablesTellWhatRan, PacketStands
<1>3. QED
  BY <1>1, <1>2, CaseInvHolds, PacketStep, RefusalInit, RefusalStep, PTL DEF Spec

-----------------------------------------------------------------------------
\* One component is lower, and those before it are no higher.
LEMMA LessSays ==
    ASSUME NEW a, NEW b
    PROVE  /\ a[1] < b[1] => Less(a, b)
           /\ a[1] = b[1] /\ a[2] < b[2] => Less(a, b)
           /\ a[1] = b[1] /\ a[2] = b[2] /\ a[3] < b[3] => Less(a, b)
           /\ a[1] = b[1] /\ a[2] = b[2] /\ a[3] = b[3] /\ a[4] < b[4] => Less(a, b)
           /\ a[1] = b[1] /\ a[2] = b[2] /\ a[3] = b[3] /\ a[4] = b[4] /\ a[5] < b[5]
                => Less(a, b)
  BY DEF Less

\* The components of WorkLeft, now and after a step.
LEMMA WorkLeftIs ==
    /\ WorkLeft[1] = MAX_REINVESTIGATION_ATTEMPTS + 1 - attempt_count
    /\ WorkLeft[2] = StatusesLeft[status]
    /\ WorkLeft[3] = IF status = "AWAITING_APPROVAL"
                       THEN MAX_APPROVAL_ESCALATIONS - escalation_level ELSE 0
    /\ WorkLeft[4] = AwaitsLeft
    /\ WorkLeft[5] = MAXIMUM_ATTEMPTS - tries
    /\ WorkLeft'[1] = MAX_REINVESTIGATION_ATTEMPTS + 1 - attempt_count'
    /\ WorkLeft'[2] = StatusesLeft[status']
    /\ WorkLeft'[3] = IF status' = "AWAITING_APPROVAL"
                        THEN MAX_APPROVAL_ESCALATIONS - escalation_level' ELSE 0
    /\ WorkLeft'[4] = AwaitsLeft'
    /\ WorkLeft'[5] = MAXIMUM_ATTEMPTS - tries'
  BY DEF WorkLeft

\* A transition to a status nearer the end is progress, whatever comes after it.
LEMMA MoveCounts ==
    ASSUME NEW to, NEW event, Transition(to, event), UNCHANGED attempt_count,
           StatusesLeft[to] < StatusesLeft[status]
    PROVE  Less(WorkLeft', WorkLeft)
<1>1. status' = to
  BY TransitionSays
<1>2. WorkLeft'[1] = WorkLeft[1] /\ WorkLeft'[2] < WorkLeft[2]
  BY <1>1, WorkLeftIs
<1>3. QED
  BY <1>2, LessSays

\* So is another await within the status.
LEMMA AwaitCounts ==
    ASSUME UNCHANGED <<status, attempt_count, escalation_level>>, AwaitsLeft' < AwaitsLeft
    PROVE  Less(WorkLeft', WorkLeft)
<1>1. /\ WorkLeft'[1] = WorkLeft[1] /\ WorkLeft'[2] = WorkLeft[2]
      /\ WorkLeft'[3] = WorkLeft[3] /\ WorkLeft'[4] < WorkLeft[4]
  BY WorkLeftIs
<1>2. QED
  BY <1>1, LessSays

\* And another attempt, of which there are so many only.
LEMMA RetryCounts ==
    ASSUME TypeOK, RetryOrFail, outcome = "running", outcome' = "running",
           UNCHANGED <<status, at, pending, attempt_count, escalation_level>>
    PROVE  Less(WorkLeft', WorkLeft)
<1>1. tries' = tries + 1 /\ tries \in Nat /\ MAXIMUM_ATTEMPTS \in Nat
  BY LimitsAssumption DEF TypeOK, RetryOrFail
<1>2. AwaitsLeft' = AwaitsLeft
  BY DEF AwaitsLeft
<1>3. /\ WorkLeft'[1] = WorkLeft[1] /\ WorkLeft'[2] = WorkLeft[2]
      /\ WorkLeft'[3] = WorkLeft[3] /\ WorkLeft'[4] = WorkLeft[4]
      /\ WorkLeft'[5] < WorkLeft[5]
  BY <1>1, <1>2, WorkLeftIs
<1>4. QED
  BY <1>3, LessSays

\* The timer of an approval request is armed so many times only.
EscalationsLeft == status = "AWAITING_APPROVAL" => escalation_level <= MAX_APPROVAL_ESCALATIONS

\* Escalations are counted from 0 for each request, and the last one ends the wait.
LEMMA EscalationsStep == TypeOK /\ EscalationsLeft /\ [Next]_vars => EscalationsLeft'
<1> SUFFICES ASSUME TypeOK, EscalationsLeft, [Next]_vars PROVE EscalationsLeft'
  OBVIOUS
<1> USE LimitsAssumption DEF EscalationsLeft, TypeOK, inputs, locals, slots, control, tables,
        effects, InBody, Awaiting
<1>1. CASE AppendAudit
  BY <1>1, TransitionSays, AuditSays DEF AppendAudit, Continue
<1>2. CASE SlaTimeout
  BY <1>2, TransitionSays, AuditSays DEF SlaTimeout
<1>3. CASE Retrieve \/ TakeAuthored \/ Evaluate \/ TakeApproval \/ Verify
  BY <1>3, TransitionSays DEF Retrieve, TakeAuthored, Evaluate, TakeApproval, Verify
<1>4. CASE CollectEvidence \/ Diagnose \/ Propose \/ Execute \/ Analyze \/ StartReview
  BY <1>4, TransitionSays, AuditSays
     DEF CollectEvidence, Diagnose, Propose, Execute, Analyze, StartReview
<1>5. CASE UNCHANGED <<status, escalation_level>>
  BY <1>5
<1>6. QED
  BY <1>1, <1>2, <1>3, <1>4, <1>5 DEF Next, Progress, Environment, PersistStatus,
     AttemptFails, AttemptUnacknowledged, AttemptOverruns, LateCommit, approve_case,
     reject_case, cli_main, Signal, vars

\* What lies ahead are five natural numbers.
LEMMA WorkLeftType == TypeOK /\ AttemptInv /\ EscalationsLeft => WorkLeft \in Counts
<1> SUFFICES ASSUME TypeOK, AttemptInv, EscalationsLeft PROVE WorkLeft \in Counts
  OBVIOUS
<1>1. attempt_count <= MAX_REINVESTIGATION_ATTEMPTS + 1 /\ attempt_count \in Nat
  BY LimitsAssumption DEF TypeOK, AttemptInv
<1>2. MAX_REINVESTIGATION_ATTEMPTS + 1 - attempt_count \in Nat
  BY <1>1, LimitsAssumption
<1>3. StatusesLeft[status] \in Nat
  BY DEF TypeOK, CaseStatus, StatusesLeft
<1>4. (IF status = "AWAITING_APPROVAL" THEN MAX_APPROVAL_ESCALATIONS - escalation_level ELSE 0)
        \in Nat
  BY LimitsAssumption DEF TypeOK, EscalationsLeft
<1>5. AwaitsLeft \in Nat
  BY DEF TypeOK, AwaitsLeft, Writes
<1>6. MAXIMUM_ATTEMPTS - tries \in Nat
  BY LimitsAssumption DEF TypeOK
<1>7. QED
  BY <1>2, <1>3, <1>4, <1>5, <1>6 DEF WorkLeft, Counts

\* What one step does to the work left, the end and the rejections apart.
Counted ==
    \/ UNCHANGED control /\ Environment /\ WorkLeft' = WorkLeft
    \/ Less(WorkLeft', WorkLeft)
    \/ outcome' # "running"
    \/ TakeApproval /\ approval.decision = "reject_try_different"

\* Where run() goes on after a row is in, the work left is less.
LEMMA AppendCounts ==
    ASSUME TypeOK, GateInv, EndInv, outcome = "running", AppendAudit
    PROVE  Counted
<1> USE DEF Counted, Awaiting, locals
<1>1. at = "append" /\ UNCHANGED attempt_count
  BY DEF AppendAudit
<1>2. CASE /\ pending.event = "created" \/ status = "REINVESTIGATION"
           /\ Transition("EVIDENCE_COLLECTION", "none")
  <2>1. StatusesLeft["EVIDENCE_COLLECTION"] < StatusesLeft[status]
    BY <1>2 DEF GateInv, StatusesLeft
  <2>2. QED
    BY <1>1, <1>2, <2>1, MoveCounts
<1>3. CASE pending.event = "approval_packet" /\ Transition("AWAITING_APPROVAL", "none")
  <2>1. StatusesLeft["AWAITING_APPROVAL"] < StatusesLeft[status]
    BY <1>3 DEF GateInv, StatusesLeft
  <2>2. QED
    BY <1>1, <1>3, <2>1, MoveCounts
<1>4. CASE /\ pending.event = "approval_packet" /\ Audit("policy_auto_approved", NoAction, 0)
           /\ UNCHANGED locals
  <2>1. AwaitsLeft' < AwaitsLeft
    BY <1>1, <1>4, AuditSays DEF AwaitsLeft
  <2>2. QED
    BY <1>1, <1>4, <2>1, AuditSays, AwaitCounts
<1>5. CASE pending.event = "policy_auto_approved" /\ Transition("EXECUTING", "none")
  <2>1. StatusesLeft["EXECUTING"] < StatusesLeft[status]
    BY <1>5 DEF GateInv, StatusesLeft
  <2>2. QED
    BY <1>1, <1>5, <2>1, MoveCounts
<1>6. CASE /\ pending.event \notin {"created", "approval_packet", "policy_auto_approved"}
           /\ Schedule("body") /\ UNCHANGED <<status, pending, locals>>
  <2>1. AwaitsLeft' < AwaitsLeft
    BY <1>1, <1>6 DEF AwaitsLeft, Schedule
  <2>2. QED
    BY <1>1, <1>6, <2>1, AwaitCounts
<1>7. QED
  BY <1>2, <1>3, <1>4, <1>5, <1>6 DEF AppendAudit, Continue

\* Every step of a running execution is counted.
LEMMA StepCounts ==
    ASSUME TypeOK, GateInv, AttemptInv, EndInv, EscalationsLeft, outcome = "running", [Next]_vars,
           vars' # vars
    PROVE  Counted
<1> USE DEF Counted, inputs, locals, slots, control, tables, effects, InBody, Awaiting
<1>1. CASE PersistStatus
  <2>1. AwaitsLeft' < AwaitsLeft
    BY <1>1 DEF PersistStatus, Schedule, AwaitsLeft
  <2>2. QED
    BY <1>1, <2>1, AwaitCounts DEF PersistStatus
<1>2. CASE AppendAudit
  BY <1>2, AppendCounts
<1>3. CASE CollectEvidence
  BY <1>3, MoveCounts DEF CollectEvidence, StatusesLeft
<1>4. CASE Diagnose
  BY <1>4, MoveCounts DEF Diagnose, StatusesLeft
<1>5. CASE Retrieve
  BY <1>5, MoveCounts DEF Retrieve, StatusesLeft
<1>6. CASE TakeAuthored
  BY <1>6, MoveCounts DEF TakeAuthored, StatusesLeft
<1>7. CASE Evaluate
  BY <1>7, MoveCounts DEF Evaluate, StatusesLeft
<1>8. CASE Propose
  <2>1. AwaitsLeft' < AwaitsLeft
    BY <1>8, AuditSays DEF Propose, AwaitsLeft
  <2>2. QED
    BY <1>8, <2>1, AuditSays, AwaitCounts DEF Propose
<1>9. CASE TakeApproval
  BY <1>9, MoveCounts DEF TakeApproval, StatusesLeft
<1>10. CASE SlaTimeout
  <2>1. CASE Transition("CASE_ESCALATED", "approval_sla_escalations_exhausted")
    BY <1>10, <2>1, MoveCounts DEF SlaTimeout, StatusesLeft
  <2>2. CASE Audit("sla_escalation", NoAction, escalation_level')
    <3>1. /\ WorkLeft'[1] = WorkLeft[1] /\ WorkLeft'[2] = WorkLeft[2]
          /\ WorkLeft'[3] < WorkLeft[3]
      BY <1>10, <2>2, AuditSays, WorkLeftIs, LimitsAssumption DEF SlaTimeout, TypeOK
    <3>2. QED
      BY <3>1, LessSays
  <2>3. QED
    BY <1>10, <2>1, <2>2 DEF SlaTimeout
<1>11. CASE Execute
  BY <1>11, MoveCounts DEF Execute, StatusesLeft
<1>12. CASE Verify
  <2>1. CASE attempt_count' = NextAttempt
    <3>1. WorkLeft'[1] < WorkLeft[1]
      BY <2>1, WorkLeftIs, LimitsAssumption DEF NextAttempt, TypeOK
    <3>2. QED
      BY <3>1, LessSays
  <2>2. CASE Transition("RESOLUTION_ANALYSIS", "none") /\ UNCHANGED attempt_count
    BY <1>12, <2>2, MoveCounts DEF Verify, StatusesLeft
  <2>3. QED
    BY <1>12, <2>1, <2>2 DEF Verify
<1>13. CASE Analyze
  <2>1. CASE Transition("CASE_CLOSED", "none")
    BY <1>13, <2>1, MoveCounts DEF Analyze, StatusesLeft
  <2>2. CASE Schedule("child") /\ UNCHANGED <<status, pending>>
    <3>1. AwaitsLeft' < AwaitsLeft
      BY <1>13, <2>2 DEF Analyze, Schedule, AwaitsLeft
    <3>2. QED
      BY <1>13, <2>2, <3>1, AwaitCounts DEF Analyze
  <2>3. QED
    BY <1>13, <2>1, <2>2 DEF Analyze
<1>14. CASE StartReview
  BY <1>14, MoveCounts DEF StartReview, StatusesLeft, GateInv
<1>15. CASE AttemptFails \/ AttemptUnacknowledged \/ AttemptOverruns
  BY <1>15, RetryCounts DEF AttemptFails, AttemptUnacknowledged, AttemptOverruns
<1>16. CASE Environment
  <2>1. UNCHANGED <<control, attempt_count, escalation_level>>
    BY <1>16 DEF Environment, LateCommit, approve_case, reject_case, cli_main, Signal
  <2>2. WorkLeft' = WorkLeft
    BY <2>1 DEF WorkLeft, AwaitsLeft
  <2>3. QED
    BY <1>16, <2>1, <2>2
<1>17. QED
  BY <1>1, <1>2, <1>3, <1>4, <1>5, <1>6, <1>7, <1>8, <1>9, <1>10, <1>11, <1>12, <1>13,
     <1>14, <1>15, <1>16 DEF Next, Progress

\* A running execution comes nearer its end with every step, in a well-founded
\* order, unless a human asks for another candidate; nothing else puts it off.
THEOREM EveryStepCountsHolds == Spec => EveryStepCounts
<1>1. Init => EscalationsLeft
  BY DEF Init, EscalationsLeft
<1>2. TypeOK /\ GateInv /\ AttemptInv /\ EndInv /\ EscalationsLeft /\ [Next]_vars =>
        [outcome = "running" =>
            /\ WorkLeft \in Counts
            /\ \/ UNCHANGED control /\ Environment /\ WorkLeft' = WorkLeft
               \/ Less(WorkLeft', WorkLeft)
               \/ outcome' # "running"
               \/ TakeApproval /\ approval.decision = "reject_try_different"]_vars
  BY WorkLeftType, StepCounts DEF Counted
<1>3. QED
  BY <1>1, <1>2, CaseInvHolds, EscalationsStep, PTL DEF Spec, EveryStepCounts

\* Natural numbers have a least one: count, for each that is no higher than a
\* chosen one, how many are no higher than it; one of them counts itself only.
LEMMA LeastNatural ==
  ASSUME NEW S \in SUBSET Nat, S # {}
  PROVE  \E x \in S : \A y \in S : x <= y
<1>1. PICK s \in S : TRUE
  OBVIOUS
<1> DEFINE T == {x \in S : x <= s}
           Low(x) == {y \in T : y <= x}
           n == Cardinality(T)
           P == [x \in T |-> Cardinality(Low(x))]
<1>2. IsFiniteSet(T) /\ s \in T
  <2>1. T \in SUBSET Nat /\ s \in Nat /\ \A x \in T : x <= s
    OBVIOUS
  <2>2. QED
    BY <2>1, FS_BoundedSetOfNaturals
<1>3. ASSUME NEW x \in T
      PROVE  IsFiniteSet(Low(x)) /\ Cardinality(Low(x)) \in 1..n /\ n \in Nat
  <2>1. Low(x) \in SUBSET T /\ x \in Low(x)
    OBVIOUS
  <2>2. IsFiniteSet(Low(x)) /\ Cardinality(Low(x)) <= n
    BY <1>2, <2>1, FS_Subset
  <2>3. Cardinality(Low(x)) \in Nat /\ n \in Nat
    BY <1>2, <2>2, FS_CardinalityType
  <2>4. Cardinality(Low(x)) # 0
    BY <2>1, <2>2, FS_EmptySet
  <2>5. QED
    BY <2>2, <2>3, <2>4
<1>4. ASSUME NEW x \in T, NEW y \in T, x < y
      PROVE  P[x] # P[y]
  <2>1. Low(x) \in SUBSET Low(y) /\ y \in Low(y) /\ y \notin Low(x)
    <3>1. x \in Nat /\ y \in Nat /\ T \subseteq Nat
      OBVIOUS
    <3>2. \A z \in T : z <= x => z <= y
      BY <1>4, <3>1
    <3>3. y <= y /\ ~(y <= x)
      BY <1>4, <3>1
    <3>4. QED
      BY <3>2, <3>3
  <2>2. IsFiniteSet(Low(y))
    BY <1>3
  <2>3. Cardinality(Low(x)) # Cardinality(Low(y))
    BY <2>1, <2>2, FS_Subset
  <2>4. P[x] = Cardinality(Low(x)) /\ P[y] = Cardinality(Low(y))
    OBVIOUS
  <2>5. QED
    BY <2>3, <2>4
<1>5. P \in Injection(T, 1..n)
  <2>1. \A x, y \in T : P[x] = P[y] => x = y
    <3> SUFFICES ASSUME NEW x \in T, NEW y \in T, x # y PROVE P[x] # P[y]
      OBVIOUS
    <3>1. x < y \/ y < x
      OBVIOUS
    <3>2. QED
      BY <1>4, <3>1
  <2>2. P \in [T -> 1..n]
    BY <1>3
  <2>3. QED
    BY <2>1, <2>2 DEF Injection, IsInjective
<1>6. n \in Nat /\ 1 \in 1..n
  BY <1>2, <1>3
<1>7. PICK x \in T : Cardinality(Low(x)) = 1
  <2>1. IsFiniteSet(1..n) /\ Cardinality(1..n) = n
    BY <1>6, FS_Interval
  <2>2. P \in Surjection(T, 1..n)
    BY <1>5, <2>1, FS_Injection
  <2>3. \E x \in T : P[x] = 1
    BY <1>6, <2>2 DEF Surjection
  <2>4. QED
    BY <2>3
<1>8. ASSUME NEW y \in T PROVE x <= y
  <2>1. {x} \in SUBSET Low(x) /\ IsFiniteSet(Low(x)) /\ Cardinality({x}) = 1
    <3>1. x <= x
      OBVIOUS
    <3>2. QED
      BY <1>3, <3>1, FS_Singleton
  <2>2. Low(x) = {x}
    BY <1>7, <2>1, FS_Subset
  <2>3. CASE y <= x
    <3>1. y \in Low(x)
      BY <2>3
    <3>2. QED
      BY <2>2, <3>1
  <2>4. QED
    BY <2>3
<1>9. \A y \in S : x <= y
  BY <1>8
<1>10. QED
  BY <1>9

\* T has the counts of S that are lowest in one component.
Lowest(T, S, i) == \A x \in T, y \in S : y[i] >= x[i] /\ (y[i] = x[i] => y \in T)

\* Every set of counts has some of these.
LEMMA LowestIn ==
  ASSUME NEW S \in SUBSET Counts, S # {}, NEW i \in 1..5
  PROVE  \E T \in SUBSET S : T # {} /\ Lowest(T, S, i)
<1> DEFINE N == {x[i] : x \in S}
<1>1. N \in SUBSET Nat /\ N # {}
  BY DEF Counts
<1>2. PICK n \in N : \A k \in N : n <= k
  BY <1>1, LeastNatural
<1> DEFINE T == {x \in S : x[i] = n}
<1>3. T \in SUBSET S /\ T # {}
  OBVIOUS
<1>4. Lowest(T, S, i)
  <2>1. \A y \in S : n <= y[i] /\ y[i] \in Nat /\ n \in Nat
    BY <1>1, <1>2
  <2>2. QED
    BY <2>1 DEF Lowest
<1>5. QED
  BY <1>3, <1>4

\* Counts cannot be lowered for ever: of any of them one has none below it.  So
\* the steps that EveryStepCounts speaks of come to an end between two
\* rejections, whatever the limits are.
LEMMA CountsRunOut ==
    \A S \in SUBSET Counts : S # {} => \E x \in S : \A y \in S : ~Less(y, x)
<1> SUFFICES ASSUME NEW S \in SUBSET Counts, S # {}
             PROVE  \E x \in S : \A y \in S : ~Less(y, x)
  OBVIOUS
<1>1. PICK S1 \in SUBSET S : S1 # {} /\ Lowest(S1, S, 1)
  <2>1. S \in SUBSET Counts /\ S # {} /\ 1 \in 1..5
    OBVIOUS
  <2>2. QED
    BY <2>1, LowestIn
<1>2. PICK S2 \in SUBSET S1 : S2 # {} /\ Lowest(S2, S1, 2)
  <2>1. S1 \in SUBSET Counts /\ S1 # {} /\ 2 \in 1..5
    BY <1>1
  <2>2. QED
    BY <2>1, LowestIn
<1>3. PICK S3 \in SUBSET S2 : S3 # {} /\ Lowest(S3, S2, 3)
  <2>1. S2 \in SUBSET Counts /\ S2 # {} /\ 3 \in 1..5
    BY <1>2
  <2>2. QED
    BY <2>1, LowestIn
<1>4. PICK S4 \in SUBSET S3 : S4 # {} /\ Lowest(S4, S3, 4)
  <2>1. S3 \in SUBSET Counts /\ S3 # {} /\ 4 \in 1..5
    BY <1>3
  <2>2. QED
    BY <2>1, LowestIn
<1>5. PICK S5 \in SUBSET S4 : S5 # {} /\ Lowest(S5, S4, 5)
  <2>1. S4 \in SUBSET Counts /\ S4 # {} /\ 5 \in 1..5
    BY <1>4
  <2>2. QED
    BY <2>1, LowestIn
<1>6. PICK x \in S5 : TRUE
  BY <1>5
<1>7. ASSUME NEW y \in S PROVE ~Less(y, x)
  <2>1. x \in Counts /\ y \in Counts
    OBVIOUS
  <2>2. \A i \in 1..5 : x[i] \in Nat /\ y[i] \in Nat
    BY <2>1 DEF Counts
  <2>3. ~(y[1] < x[1]) /\ (y[1] = x[1] => y \in S1)
    BY <1>1, <2>2 DEF Lowest
  <2>4. y \in S1 => ~(y[2] < x[2]) /\ (y[2] = x[2] => y \in S2)
    BY <1>2, <2>2 DEF Lowest
  <2>5. y \in S2 => ~(y[3] < x[3]) /\ (y[3] = x[3] => y \in S3)
    BY <1>3, <2>2 DEF Lowest
  <2>6. y \in S3 => ~(y[4] < x[4]) /\ (y[4] = x[4] => y \in S4)
    BY <1>4, <2>2 DEF Lowest
  <2>7. y \in S4 => ~(y[5] < x[5])
    BY <1>5, <2>2 DEF Lowest
  <2>8. QED
    <3> SUFFICES ASSUME NEW i \in 1..5, y[i] < x[i], \A j \in 1..5 : j < i => y[j] = x[j]
                 PROVE  FALSE
      BY DEF Less
    <3>1. i = 1 \/ i = 2 \/ i = 3 \/ i = 4 \/ i = 5
      OBVIOUS
    <3>2. QED
      BY <2>3, <2>4, <2>5, <2>6, <2>7, <3>1
<1>8. QED
  BY <1>6, <1>7
=============================================================================
