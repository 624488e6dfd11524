------------------------ MODULE CustomerPortalProofs ------------------------
(***************************************************************************)
(* The customer page, for any number of submissions and actions and every  *)
(* reinvestigation cap: one poll at a time, nothing shown of another case, *)
(* nothing shown that is not so.  The inductive invariant is               *)
(* TypeOK /\ PortalInv.                                                    *)
(***************************************************************************)
EXTENDS CustomerPortal, FiniteSetTheorems, TLAPS

\* A closed or escalated case writes neither its row nor a packet again, so what
\* has been read of it stays true.
LEMMA TerminalStays ==
  ASSUME NEW c \in Clicks, record[c].status \in {"CASE_CLOSED", "CASE_ESCALATED"}
  PROVE  ~Record(c)!Next
  BY DEF Record!Next, Record!UpdateRow, Record!NewPacket, Record!Graph!Move,
         Record!Graph!Successors, Record!Graph!Unresolved

\* A new page, no row, no case.
LEMMA PortalInit == Init => TypeOK /\ PortalInv
<1> SUFFICES ASSUME Init PROVE TypeOK /\ PortalInv
  OBVIOUS
<1>1. record \in [Clicks -> CaseRecords]
  BY CapAssumption DEF Init, CaseRecords, Statuses
<1>2. TypeOK
  BY <1>1 DEF Init, TypeOK, Intake!Init
<1>3. PortalInv
  BY NoCaseAssumption DEF Init, Intake!Init, PortalInv, PollInv, ChainInv, ShownIsWatched,
     ResolvedIsTrue
<1>4. QED
  BY <1>2, <1>3

\* What the endpoint tells of a case that is not closed is one of its four words
\* and not "resolved"; only an escalated case is told to be so.
LEMMA CustomerViewIs ==
  ASSUME NEW s
  PROVE  /\ CustomerView(s) \in CustomerStatus \ {"resolved"}
         /\ CustomerView(s) = "escalated" => s = "CASE_ESCALATED"
  BY DEF CustomerView, CustomerStatus

\* The chains that a poll leaves or becomes are chains.
LEMMA ChainTypes ==
  /\ \A c \in Clicks : Ask(c) \in Chain /\ Wait(c) \in Chain
  /\ \A p \in Chain : p.about \in Clicks /\ p.answer \in Answer
  /\ \A p \in Chain : [p EXCEPT !.at = "packet"] \in Chain
  /\ \A p \in Chain, a \in Answer : Answering(p, a) \in Chain
  /\ \A s \in CustomerStatus, a \in Packets \cup {NoPacket} : Say(s, a) \in Answer
<1>1. \A s \in CustomerStatus, a \in Packets \cup {NoPacket} : Say(s, a) \in Answer
  BY DEF Say, Answer
<1>2. NoAnswer \in Answer
  BY <1>1 DEF NoAnswer, CustomerStatus
<1>3. \A c \in Clicks : Ask(c) \in Chain /\ Wait(c) \in Chain
  BY <1>2 DEF Ask, Wait, Chain
<1>4. QED
  BY <1>1, <1>3 DEF Chain, Answering

\* Every step of the customer, the page and the server keeps the types.
LEMMA PortalTypeStep == TypeOK /\ PortalInv /\ [Next]_vars => TypeOK'
<1> SUFFICES ASSUME TypeOK, PortalInv, [Next]_vars PROVE TypeOK'
  OBVIOUS
<1> USE NoCaseAssumption DEF TypeOK, server, page
<1>1. ASSUME NEW c \in Clicks, Submit(c) PROVE TypeOK'
  BY <1>1 DEF Submit
<1>2. ASSUME NEW c \in Clicks, Watch(c) PROVE TypeOK'
  BY <1>2, ChainTypes DEF Watch
<1>3. ASSUME NEW c \in Clicks, CaseStep(c) PROVE TypeOK'
  BY <1>3 DEF CaseStep
<1>4. CASE SubmitFails
  BY <1>4 DEF SubmitFails
<1>5. CASE Reload
  BY <1>5, ChainTypes DEF Reload
<1>6. CASE StartOver
  BY <1>6 DEF StartOver
<1>7. ASSUME NEW p \in polls, ReadStatus(p) PROVE TypeOK'
  <2> DEFINE view == Say(CustomerView(record[p.about].status), NoPacket)
  <2>1. p \in Chain /\ view \in Answer
    BY ChainTypes, CustomerViewIs
  <2>2. [p EXCEPT !.at = "packet"] \in Chain /\ Answering(p, view) \in Chain
    BY <2>1, ChainTypes
  <2> HIDE DEF view
  <2>3. \/ polls' = (polls \ {p}) \cup {[p EXCEPT !.at = "packet"]}
        \/ polls' = (polls \ {p}) \cup {Answering(p, view)}
    BY <1>7 DEF ReadStatus, Becomes, view
  <2>4. QED
    BY <1>7, <2>2, <2>3 DEF ReadStatus
<1>8. ASSUME NEW p \in polls, ReadPacket(p) PROVE TypeOK'
  <2>1. p \in Chain /\ record[p.about].packet \in Packets \cup {NoPacket}
    BY ChainTypes DEF CaseRecords
  <2>2. Answering(p, Say("resolved", record[p.about].packet)) \in Chain
    BY <2>1, ChainTypes DEF CustomerStatus
  <2>3. QED
    BY <1>8, <2>2 DEF ReadPacket, Becomes
<1>9. ASSUME NEW p \in polls, Apply(p) PROVE TypeOK'
  <2>1. Wait(p.about) \in Chain
    BY ChainTypes
  <2>2. [about |-> p.about, answer |-> p.answer] \in Shown
    BY ChainTypes DEF Shown
  <2>3. QED
    BY <1>9, <2>1, <2>2 DEF Apply
<1>10. ASSUME NEW p \in polls, PollFails(p) PROVE TypeOK'
  <2>1. Wait(p.about) \in Chain
    BY ChainTypes
  <2>2. QED
    BY <1>10, <2>1 DEF PollFails, Becomes
<1>11. ASSUME NEW p \in polls, Timer(p) PROVE TypeOK'
  <2>1. Ask(p.about) \in Chain
    BY ChainTypes
  <2>2. QED
    BY <1>11, <2>1 DEF Timer, Becomes
<1>12. CASE ServePost
  BY <1>12 DEF ServePost, Intake!Accept, Intake!Created
<1>13. CASE StartLate
  BY <1>13 DEF StartLate, Intake!StartCases
<1>14. CASE UNCHANGED vars
  BY <1>14 DEF vars
<1>15. QED
  BY <1>1, <1>2, <1>3, <1>4, <1>5, <1>6, <1>7, <1>8, <1>9, <1>10, <1>11, <1>12, <1>13, <1>14
     DEF Next

\* Where there is a chain it is the only one, for the case watched, and no final
\* answer is shown.
LEMMA TheOneChain ==
  ASSUME PollInv, NEW p \in polls
  PROVE  /\ polls = {p} /\ p.about = caseId /\ caseId # NoCase
         /\ ~(resolution # NotShown /\ isTerminal(resolution.answer))
  BY DEF PollInv

\* What was read of a case stays true of it, whatever the case does next.
LEMMA TruthLasts ==
  ASSUME TypeOK, NEW c \in Clicks, CaseStep(c), NEW d \in Clicks
  PROVE  /\ record[d].status \in {"CASE_CLOSED", "CASE_ESCALATED"} => record'[d] = record[d]
         /\ \A answer : IsTrueOf(answer, record[d]) => IsTrueOf(answer, record'[d])
<1>1. record[d].status \in {"CASE_CLOSED", "CASE_ESCALATED"} => record'[d] = record[d]
  <2>1. PICK new \in CaseRecords : record' = [record EXCEPT ![c] = new] /\ Record(c)!Next
    BY DEF CaseStep
  <2>2. CASE c = d
    BY <2>1, <2>2, TerminalStays
  <2>3. CASE c # d
    BY <2>1, <2>3 DEF TypeOK
  <2>4. QED
    BY <2>2, <2>3
<1>2. ASSUME NEW answer, IsTrueOf(answer, record[d]) PROVE IsTrueOf(answer, record'[d])
  BY <1>1, <1>2 DEF IsTrueOf
<1>3. QED
  BY <1>1, <1>2

\* Every step keeps the one chain, what it has read and what is shown in
\* agreement with the case that is watched.
LEMMA PortalStep == TypeOK /\ PortalInv /\ [Next]_vars => PortalInv'
<1> SUFFICES ASSUME TypeOK, PortalInv, [Next]_vars PROVE PortalInv'
  OBVIOUS
<1> USE NoCaseAssumption DEF PortalInv, server, page
<1>0. resolution = NotShown \/ resolution.about \in Clicks
  BY DEF TypeOK, Shown
<1>1. ASSUME NEW c \in Clicks, Submit(c) PROVE PortalInv'
  BY <1>1 DEF Submit, PollInv, ChainInv, ShownIsWatched, ResolvedIsTrue
<1>2. ASSUME NEW c \in Clicks, Watch(c) PROVE PortalInv'
  <2>1. polls = {} /\ caseId = NoCase /\ resolution = NotShown
    BY <1>0, <1>2 DEF Watch, PollInv, ShownIsWatched
  <2>2. told[c] # NoCase
    BY <1>2 DEF Watch
  <2>3. polls' = {Ask(told[c])} /\ caseId' = told[c] /\ resolution' = NotShown /\ posting' = NoCase
    BY <1>2, <2>1 DEF Watch
  <2>4. PollInv'
    BY <2>2, <2>3 DEF PollInv, Ask
  <2>5. ChainInv'
    BY <2>3 DEF ChainInv, Ask
  <2>6. QED
    BY <1>2, <2>2, <2>3, <2>4, <2>5 DEF Watch, ShownIsWatched, ResolvedIsTrue
<1>3. ASSUME NEW c \in Clicks, CaseStep(c) PROVE PortalInv'
  <2>1. UNCHANGED <<row, told, started, caseId, resolution, polls, posting, used>>
    BY <1>3 DEF CaseStep
  <2>2. ChainInv'
    BY <1>3, <2>1, TruthLasts, ChainTypes DEF ChainInv, TypeOK
  <2>3. ResolvedIsTrue'
    BY <1>0, <1>3, <2>1, TruthLasts DEF ResolvedIsTrue
  <2>4. QED
    BY <2>1, <2>2, <2>3 DEF PollInv, ShownIsWatched
<1>4. CASE SubmitFails
  BY <1>4 DEF SubmitFails, PollInv, ChainInv, ShownIsWatched, ResolvedIsTrue
<1>5. CASE Reload
  <2>1. /\ resolution' = NotShown /\ caseId' = caseId
        /\ polls' = IF caseId = NoCase THEN {} ELSE {Ask(caseId)}
    BY <1>5 DEF Reload
  <2>2. PollInv'
    BY <2>1 DEF PollInv, Ask
  <2>3. ChainInv'
    BY <2>1 DEF ChainInv, Ask
  <2>4. QED
    BY <1>5, <2>2, <2>3 DEF Reload, ShownIsWatched, ResolvedIsTrue
<1>6. CASE StartOver
  <2>1. polls = {} /\ polls' = {}
    BY <1>6 DEF StartOver, PollInv
  <2>2. QED
    BY <1>6, <2>1 DEF StartOver, PollInv, ChainInv, ShownIsWatched, ResolvedIsTrue
<1>7. ASSUME NEW p \in polls, NEW q, Becomes(p, q), q.about = p.about,
             UNCHANGED <<server, caseId, resolution, posting, used>>
      PROVE  /\ polls' = {q} /\ PollInv'
             /\ ShownIsWatched' /\ ResolvedIsTrue'
             /\ posting' # NoCase => caseId' = NoCase
  <2>1. polls' = {q}
    BY <1>7, TheOneChain DEF Becomes
  <2>2. UNCHANGED <<server, caseId, resolution, posting, used>>
    BY <1>7
  <2>3. PollInv'
    BY <1>7, <2>1, <2>2, TheOneChain DEF PollInv
  <2>4. QED
    BY <2>1, <2>2, <2>3 DEF ShownIsWatched, ResolvedIsTrue
<1>8. ASSUME NEW p \in polls, ReadStatus(p) PROVE PortalInv'
  <2> DEFINE s == record[p.about].status
             view == Say(CustomerView(s), NoPacket)
             q == IF s = "CASE_CLOSED" THEN [p EXCEPT !.at = "packet"] ELSE Answering(p, view)
  <2>1. Becomes(p, q) /\ UNCHANGED <<server, caseId, resolution, posting, used>>
    BY <1>8 DEF ReadStatus
  <2>2. p \in Chain
    BY DEF TypeOK
  <2>3. q.about = p.about
    BY <2>2 DEF Chain, Answering
  <2>4. s = "CASE_CLOSED" => q.at = "packet"
    BY <2>2 DEF Chain
  <2>5. s # "CASE_CLOSED" => q.at = "answer" /\ q.answer = view
    BY <2>2 DEF Chain, Answering
  <2>6. s # "CASE_CLOSED" => IsTrueOf(view, record[p.about])
    BY CustomerViewIs DEF IsTrueOf, Say
  <2> HIDE DEF q, view
  <2>7. polls' = {q} /\ UNCHANGED record
    BY <1>7, <2>1, <2>3
  <2>8. ChainInv'
    BY <2>3, <2>4, <2>5, <2>6, <2>7 DEF ChainInv
  <2>9. QED
    BY <1>7, <2>1, <2>3, <2>8
<1>9. ASSUME NEW p \in polls, ReadPacket(p) PROVE PortalInv'
  <2> DEFINE said == Say("resolved", record[p.about].packet)
             q == Answering(p, said)
  <2>1. Becomes(p, q) /\ UNCHANGED <<server, caseId, resolution, posting, used>>
    BY <1>9 DEF ReadPacket
  <2>2. q.about = p.about /\ q.at = "answer" /\ q.answer = said
    BY DEF TypeOK, Chain, Answering
  <2>3. IsTrueOf(said, record[p.about])
    BY <1>9 DEF ReadPacket, ChainInv, IsTrueOf, Say
  <2> HIDE DEF q, said
  <2>4. polls' = {q} /\ UNCHANGED record
    BY <1>7, <2>1, <2>2
  <2>5. ChainInv'
    BY <2>2, <2>3, <2>4 DEF ChainInv
  <2>6. QED
    BY <1>7, <2>1, <2>2, <2>5
<1>10. ASSUME NEW p \in polls, Apply(p) PROVE PortalInv'
  <2>1. polls = {p} /\ p.about = caseId /\ caseId # NoCase
    BY TheOneChain
  <2>2. UNCHANGED <<server, caseId, posting, used>>
    BY <1>10 DEF Apply
  <2>3. resolution'.about = p.about /\ resolution'.answer = p.answer /\ resolution' # NotShown
    BY <1>10, <2>1 DEF Apply, NotShown
  <2>4. polls' = IF isTerminal(p.answer) THEN {} ELSE {Wait(p.about)}
    BY <1>10, <2>1 DEF Apply
  <2>5. PollInv'
    BY <2>1, <2>2, <2>3, <2>4 DEF PollInv, Wait, Ask
  <2>6. ChainInv'
    BY <2>4 DEF ChainInv, Wait, Ask
  <2>7. ResolvedIsTrue'
    BY <1>10, <2>2, <2>3 DEF Apply, ResolvedIsTrue, ChainInv
  <2>8. QED
    BY <2>1, <2>2, <2>3, <2>5, <2>6, <2>7 DEF ShownIsWatched
<1>11. ASSUME NEW p \in polls, PollFails(p) PROVE PortalInv'
  <2>1. Wait(p.about).about = p.about /\ Wait(p.about).at = "timer"
        /\ Wait(p.about).answer = NoAnswer
    BY DEF Wait, Ask
  <2>2. Becomes(p, Wait(p.about)) /\ UNCHANGED <<server, caseId, resolution, posting, used>>
    BY <1>11 DEF PollFails
  <2>3. polls' = {Wait(p.about)}
    BY <1>7, <2>1, <2>2
  <2>4. ChainInv'
    BY <2>1, <2>3 DEF ChainInv
  <2>5. QED
    BY <1>7, <2>1, <2>2, <2>4
<1>12. ASSUME NEW p \in polls, Timer(p) PROVE PortalInv'
  <2>1. Ask(p.about).about = p.about /\ Ask(p.about).at = "status"
        /\ Ask(p.about).answer = NoAnswer
    BY DEF Ask
  <2>2. Becomes(p, Ask(p.about)) /\ UNCHANGED <<server, caseId, resolution, posting, used>>
    BY <1>12 DEF Timer
  <2>3. polls' = {Ask(p.about)}
    BY <1>7, <2>1, <2>2
  <2>4. ChainInv'
    BY <2>1, <2>3 DEF ChainInv
  <2>5. QED
    BY <1>7, <2>1, <2>2, <2>4
<1>13. CASE ServePost \/ StartLate
  <2>1. UNCHANGED <<record, page>>
    BY <1>13 DEF ServePost, StartLate
  <2>2. QED
    BY <2>1 DEF PollInv, ChainInv, ShownIsWatched, ResolvedIsTrue
<1>14. CASE UNCHANGED vars
  BY <1>14 DEF vars, PollInv, ChainInv, ShownIsWatched, ResolvedIsTrue
<1>15. QED
  BY <1>1, <1>2, <1>3, <1>4, <1>5, <1>6, <1>8, <1>9, <1>10, <1>11, <1>12, <1>13, <1>14
     DEF Next

\* The page and what it knows agree in every state of every execution.
LEMMA PortalInvHolds == Spec => [](TypeOK /\ PortalInv)
  BY PortalInit, PortalTypeStep, PortalStep, PTL DEF Spec

\* Rows, cases, requests and what is shown hold their shapes in every state.
THEOREM PortalTypeCorrect == Spec => []TypeOK
  BY PortalInvHolds, PTL

\* One status request or timer at a time, for the case watched, until it is over.
THEOREM OnePollHolds == Spec => []OnePoll
<1>1. ASSUME NEW p PROVE Cardinality({p}) = 1
  BY FS_Singleton
<1>2. PortalInv => OnePoll
  BY <1>1 DEF PortalInv, PollInv, OnePoll
<1>3. QED
  BY <1>2, PortalInvHolds, PTL

\* Nothing is ever shown of a case other than the one watched.
THEOREM ShownIsWatchedHolds == Spec => []ShownIsWatched
<1>1. PortalInv => ShownIsWatched
  BY DEF PortalInv
<1>2. QED
  BY <1>1, PortalInvHolds, PTL

\* A customer is told "resolved" or "escalated" only when it is so.
THEOREM ResolvedIsTrueHolds == Spec => []ResolvedIsTrue
<1>1. PortalInv => ResolvedIsTrue
  BY DEF PortalInv
<1>2. QED
  BY <1>1, PortalInvHolds, PTL

\* The page lets go of a case, or stops asking about it, only once it is over.
THEOREM LeavesWhenOverHolds == Spec => LeavesWhenOver
<1>1. TypeOK /\ PortalInv /\ PortalInv' /\ [Next]_vars =>
        [(caseId # NoCase /\ (caseId' # caseId \/ polls' = {})) =>
            record[caseId].status \in {"CASE_CLOSED", "CASE_ESCALATED"}]_vars
  <2> SUFFICES ASSUME TypeOK, PortalInv, PortalInv', [Next]_vars, caseId # NoCase,
                      caseId' # caseId \/ polls' = {}
               PROVE  record[caseId].status \in {"CASE_CLOSED", "CASE_ESCALATED"}
    OBVIOUS
  <2>1. posting = NoCase
    BY DEF PortalInv
  <2>2. CASE StartOver
    BY <2>2 DEF StartOver, PortalInv, ShownIsWatched, ResolvedIsTrue, IsTrueOf, isTerminal
  <2>3. CASE caseId' = caseId /\ polls' = {} /\ UNCHANGED record
    BY <2>3 DEF PortalInv, PollInv, ShownIsWatched, ResolvedIsTrue, IsTrueOf, isTerminal
  <2>4. CASE caseId' = caseId /\ polls' = {} /\ UNCHANGED <<polls, resolution>>
    BY <2>4 DEF PortalInv, PollInv, ShownIsWatched, ResolvedIsTrue, IsTrueOf, isTerminal
  <2>5. \/ StartOver
        \/ caseId' = caseId /\ UNCHANGED record
        \/ caseId' = caseId /\ UNCHANGED <<polls, resolution>>
    BY <2>1, NoCaseAssumption DEF Next, vars, server, page, Submit, Watch, SubmitFails, Reload,
       ReadStatus, ReadPacket, Apply, PollFails, Timer, ServePost, StartLate, CaseStep
  <2>6. QED
    BY <2>2, <2>3, <2>4, <2>5
<1>2. QED
  BY <1>1, PortalInvHolds, PTL DEF Spec, LeavesWhenOver
=============================================================================
