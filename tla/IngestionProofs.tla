-------------------------- MODULE IngestionProofs --------------------------
(***************************************************************************)
(* Ingestion, for any number of deliveries, keys and crashes: one workflow *)
(* per event, the same case named in every acknowledgement, no workflow    *)
(* without its row, and the promise of CaseIntake.  The inductive          *)
(* invariant is TypeOK /\ RowInv.                                          *)
(***************************************************************************)
EXTENDS Ingestion, TLAPS

\* The API starts with no request, no row and no workflow.
LEMMA IngestionInit == Init => TypeOK /\ RowInv
  BY NoRequestAssumption, MaxCrashesAssumption DEF Init, TypeOK, RowInv

\* Every step of a handler, failure or crash keeps the types.
LEMMA IngestionTypeStep == TypeOK /\ [Next]_vars => TypeOK'
<1> SUFFICES ASSUME TypeOK, [Next]_vars PROVE TypeOK'
  OBVIOUS
<1> USE MaxCrashesAssumption DEF TypeOK, Goto, Respond, Handling, Over
<1>1. CASE Crash
  BY <1>1 DEF Crash
<1>2. ASSUME NEW r \in Requests, Deliver(r) PROVE TypeOK'
  BY <1>2 DEF Deliver
<1>3. ASSUME NEW r \in Requests, Select(r) PROVE TypeOK'
  BY <1>3 DEF Select
<1>4. ASSUME NEW r \in Requests, Insert(r) PROVE TypeOK'
  BY <1>4 DEF Insert
<1>5. ASSUME NEW r \in Requests, Commit(r) PROVE TypeOK'
  BY <1>5 DEF Commit
<1>6. ASSUME NEW r \in Requests, Start(r) PROVE TypeOK'
  BY <1>6 DEF Start
<1>7. ASSUME NEW r \in Requests, DatabaseFails(r) PROVE TypeOK'
  BY <1>7 DEF DatabaseFails, Released
<1>8. ASSUME NEW r \in Requests, StartFails(r) PROVE TypeOK'
  BY <1>8 DEF StartFails
<1>9. CASE UNCHANGED vars
  BY <1>9 DEF vars
<1>10. QED
  BY <1>1, <1>2, <1>3, <1>4, <1>5, <1>6, <1>7, <1>8, <1>9 DEF Next, Handle

\* Every step keeps transactions, rows, workflows and answers in agreement.
LEMMA IngestionStep == TypeOK /\ RowInv /\ [Next]_vars => RowInv'
<1> SUFFICES ASSUME TypeOK, RowInv, [Next]_vars PROVE RowInv'
  OBVIOUS
<1> USE NoRequestAssumption DEF TypeOK, RowInv, Goto, Respond
<1>1. CASE Crash
  BY <1>1 DEF Crash, Handling
<1>2. ASSUME NEW r \in Requests, Deliver(r) PROVE RowInv'
  BY <1>2 DEF Deliver
<1>3. ASSUME NEW r \in Requests, Select(r) PROVE RowInv'
  BY <1>3 DEF Select
<1>4. ASSUME NEW r \in Requests, Insert(r) PROVE RowInv'
  BY <1>4 DEF Insert
<1>5. ASSUME NEW r \in Requests, Commit(r) PROVE RowInv'
  BY <1>5 DEF Commit
<1>6. ASSUME NEW r \in Requests, Start(r) PROVE RowInv'
  BY <1>6 DEF Start
<1>7. ASSUME NEW r \in Requests, DatabaseFails(r) PROVE RowInv'
  BY <1>7 DEF DatabaseFails, Released
<1>8. ASSUME NEW r \in Requests, StartFails(r) PROVE RowInv'
  BY <1>8 DEF StartFails
<1>9. CASE UNCHANGED vars
  BY <1>9 DEF vars
<1>10. QED
  BY <1>1, <1>2, <1>3, <1>4, <1>5, <1>6, <1>7, <1>8, <1>9 DEF Next, Handle

\* Transactions, rows and answers agree in every state of every execution.
LEMMA RowInvHolds == Spec => [](TypeOK /\ RowInv)
  BY IngestionInit, IngestionTypeStep, IngestionStep, PTL DEF Spec

\* However many deliveries of one event race, at most one workflow starts.
THEOREM OneWorkflowPerKeyHolds == Spec => []OneWorkflowPerKey
<1>1. TypeOK /\ RowInv => OneWorkflowPerKey
  BY DEF TypeOK, RowInv, OneWorkflowPerKey
<1>2. QED
  BY <1>1, RowInvHolds, PTL

\* Every acknowledgement of an event names the case of its committed row.
THEOREM SameCaseForSameKeyHolds == Spec => []SameCaseForSameKey
<1>1. RowInv => SameCaseForSameKey
  BY DEF RowInv, SameCaseForSameKey
<1>2. QED
  BY <1>1, RowInvHolds, PTL

\* A workflow that has been started has its committed row.
THEOREM WorkflowHasRowHolds == Spec => []WorkflowHasRow
<1>1. RowInv => WorkflowHasRow
  BY DEF RowInv, WorkflowHasRow
<1>2. QED
  BY <1>1, RowInvHolds, PTL

\* Handlers, rows, transactions and workflows hold their types in every state.
THEOREM IngestionTypeCorrect == Spec => []TypeOK
  BY RowInvHolds, PTL

\* Before the first delivery no event has a row and nobody has been told.
LEMMA IntakeInit == Init => Intake!Init
  BY DEF Init, Intake!Init

\* The commit accepts the event, the start or the second look at the row answers
\* the delivery, a lost start or a crash may start cases whose row is there;
\* every other step of a handler changes nothing CaseIntake speaks of.
LEMMA IntakeStep == TypeOK /\ RowInv /\ [Next]_vars => [Intake!Next]_(Intake!vars)
<1> SUFFICES ASSUME TypeOK, RowInv, [Next]_vars PROVE [Intake!Next]_(Intake!vars)
  OBVIOUS
<1> USE NoRequestAssumption DEF TypeOK, RowInv, Intake!Next, Intake!vars
<1>1. CASE Crash
  <2>1. PICK sent \in SUBSET {r \in Requests : pc[r] = "start"} : workflows' = workflows \cup sent
    BY <1>1 DEF Crash
  <2>2. sent \in SUBSET {r \in Requests : cases[key[r]] = r}
    OBVIOUS
  <2>3. Intake!StartCases
    BY <1>1, <2>1, <2>2 DEF Crash, Intake!StartCases
  <2>4. QED
    BY <2>3
<1>2. ASSUME NEW r \in Requests, Deliver(r) PROVE UNCHANGED Intake!vars
  BY <1>2 DEF Deliver
<1>3. ASSUME NEW r \in Requests, Select(r) PROVE [Intake!Next]_(Intake!vars)
  <2>1. CASE cases[key[r]] # NoRequest
    BY <1>3, <2>1 DEF Select, Respond, Intake!Duplicate
  <2>2. CASE cases[key[r]] = NoRequest
    BY <1>3, <2>2 DEF Select
  <2>3. QED
    BY <2>1, <2>2
<1>4. ASSUME NEW r \in Requests, Insert(r) PROVE UNCHANGED Intake!vars
  BY <1>4 DEF Insert
<1>5. ASSUME NEW r \in Requests, Commit(r) PROVE Intake!Accept(r)
  BY <1>5 DEF Commit, Intake!Accept
<1>6. ASSUME NEW r \in Requests, Start(r) PROVE Intake!Created(r)
  BY <1>6 DEF Start, Respond, Intake!Created
<1>7. ASSUME NEW r \in Requests, DatabaseFails(r) PROVE UNCHANGED Intake!vars
  BY <1>7 DEF DatabaseFails
<1>8. ASSUME NEW r \in Requests, StartFails(r) PROVE Intake!StartCases
  <2>1. PICK creators \in SUBSET {r} : workflows' = workflows \cup creators
    BY <1>8, workflows \cup {} = workflows DEF StartFails
  <2>2. cases[key[r]] = r
    BY <1>8 DEF StartFails
  <2>3. creators \in SUBSET {d \in Requests : cases[key[d]] = d}
    BY <2>2
  <2>4. QED
    BY <1>8, <2>1, <2>3 DEF StartFails, Intake!StartCases
<1>9. CASE UNCHANGED vars
  BY <1>9 DEF vars
<1>10. QED
  BY <1>1, <1>2, <1>3, <1>4, <1>5, <1>6, <1>7, <1>8, <1>9 DEF Next, Handle

\* The endpoint keeps the promise of CaseIntake for any number of deliveries,
\* events and crashes.
THEOREM ImplementsIntakeHolds == Spec => ImplementsIntake
  BY RowInvHolds, IntakeInit, IntakeStep, PTL DEF Spec, ImplementsIntake, Intake!Spec

\* The statements a handler has before it, at most.
StatementsLeft ==
    [idle |-> 5, select |-> 4, insert |-> 3, commit |-> 2, start |-> 1,
     created |-> 0, duplicate |-> 0, error |-> 0]

\* The safety half of EveryDeliveryEnds, for any number of deliveries: who waits
\* for a key waits for a handler that is about to commit, and so for nobody in
\* turn; and no step of any handler, failure or crash gives a delivery statements
\* back, while each but a crash of an idle API takes some from one.
THEOREM DeliveriesMoveOn ==
    Spec => /\ [](\A r \in Requests :
                     pc[r] = "insert" /\ holder[key[r]] # NoRequest
                       => holder[key[r]] \in Requests \ {r} /\ pc[holder[key[r]]] = "commit")
            /\ [][/\ \A r \in Requests :
                        pc'[r] = pc[r] \/ StatementsLeft[pc'[r]] < StatementsLeft[pc[r]]
                  /\ Crash \/ \E r \in Requests : pc'[r] # pc[r]]_vars
<1> DEFINE Blocked == \A r \in Requests :
               pc[r] = "insert" /\ holder[key[r]] # NoRequest
                 => holder[key[r]] \in Requests \ {r} /\ pc[holder[key[r]]] = "commit"
           Forward == /\ \A r \in Requests :
                            pc'[r] = pc[r] \/ StatementsLeft[pc'[r]] < StatementsLeft[pc[r]]
                      /\ Crash \/ \E r \in Requests : pc'[r] # pc[r]
<1>1. TypeOK /\ RowInv => Blocked
  BY DEF TypeOK, RowInv
<1>2. TypeOK /\ [Next]_vars => [Forward]_vars
  <2> SUFFICES ASSUME TypeOK, Next PROVE Forward
    OBVIOUS
  <2>1. CASE Crash
    <3>1. \A r \in Requests : pc'[r] = pc[r] \/ (pc[r] \in Handling /\ pc'[r] = "error")
      BY <2>1 DEF Crash, TypeOK
    <3>2. \A p \in Handling : StatementsLeft["error"] < StatementsLeft[p]
      BY DEF StatementsLeft, Handling
    <3>3. QED
      BY <2>1, <3>1, <3>2
  <2>2. ASSUME NEW r \in Requests, Deliver(r) \/ Handle(r) \/ DatabaseFails(r) \/ StartFails(r)
        PROVE  /\ \A s \in Requests \ {r} : pc'[s] = pc[s]
               /\ pc'[r] # pc[r] /\ StatementsLeft[pc'[r]] < StatementsLeft[pc[r]]
    BY <2>2 DEF TypeOK, StatementsLeft, Deliver, Handle, Select, Insert, Commit, Start,
       DatabaseFails, StartFails, Goto
  <2>3. QED
    BY <2>1, <2>2 DEF Next
<1>3. QED
  BY <1>1, <1>2, RowInvHolds, PTL DEF Spec
=============================================================================
