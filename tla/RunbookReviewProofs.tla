------------------------ MODULE RunbookReviewProofs ------------------------
(***************************************************************************)
(* The review workflow, for any number of cases: its outcome is the last   *)
(* decision it heard.  The inductive invariant is TypeOK /\ SlotInv.       *)
(***************************************************************************)
EXTENDS RunbookReview, TLAPS

\* No review exists at first.
LEMMA ReviewInit == Init => TypeOK /\ SlotInv
  BY DEF Init, TypeOK, SlotInv

\* Every signal and every step of run() keeps the types and the slot's meaning.
LEMMA ReviewStep == TypeOK /\ SlotInv /\ [Next]_vars => TypeOK' /\ SlotInv'
<1> SUFFICES ASSUME TypeOK, SlotInv, [Next]_vars PROVE TypeOK' /\ SlotInv'
  OBVIOUS
<1> USE DEF TypeOK, SlotInv, Decisions
<1>1. ASSUME NEW c \in Cases, StartReview(c) PROVE TypeOK' /\ SlotInv'
  BY <1>1 DEF StartReview
<1>2. ASSUME NEW c \in Cases, BeginRun(c) PROVE TypeOK' /\ SlotInv'
  BY <1>2 DEF BeginRun
<1>3. ASSUME NEW c \in Cases, submit_review_decision(c) PROVE TypeOK' /\ SlotInv'
  BY <1>3 DEF submit_review_decision
<1>4. ASSUME NEW c \in Cases, Decide(c) PROVE TypeOK' /\ SlotInv'
  BY <1>4 DEF Decide
<1>5. CASE UNCHANGED vars
  BY <1>5 DEF vars
<1>6. QED
  BY <1>1, <1>2, <1>3, <1>4, <1>5 DEF Next

\* An entry is merged or discarded on the last decision heard and on no other.
THEOREM OutcomeIsLastDecisionHolds == Spec => []OutcomeIsLastDecision
<1>1. TypeOK /\ SlotInv => OutcomeIsLastDecision
  BY DEF TypeOK, SlotInv, OutcomeIsLastDecision
<1>2. QED
  BY <1>1, ReviewInit, ReviewStep, PTL DEF Spec

\* Statuses and slots hold their types in every state.
THEOREM ReviewTypeCorrect == Spec => []TypeOK
  BY ReviewInit, ReviewStep, PTL DEF Spec
=============================================================================
