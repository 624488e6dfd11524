--------------------------- MODULE CustomerPortal ---------------------------
(***************************************************************************)
(* A customer in front of the page that reports a payment issue, the two   *)
(* endpoints it calls and the cases behind them.                           *)
(*                                                                         *)
(* POST /events/payment-failed is its promise, CaseIntake, which Ingestion *)
(* implements; each started case is its two tables as readers see them,    *)
(* CaseRecord, which CaseWorkflow implements as long as no write of a      *)
(* timed-out attempt lands.  The page is the production build: React runs  *)
(* the effect once per change of caseId.  The URL's ?case= always equals   *)
(* caseId, so a reload keeps the case.                                     *)
(***************************************************************************)
EXTENDS FiniteSets, Integers

CONSTANTS
    Clicks,      \* bound: submissions; each click draws an idempotency key
    NoCase,
    Packets, NoPacket,
    MAX_REINVESTIGATION_ATTEMPTS

ASSUME NoCaseAssumption == NoCase \notin Clicks

ASSUME CapAssumption == MAX_REINVESTIGATION_ATTEMPTS \in Nat

VARIABLES
    row, told, started,   \* the endpoint, per click and key
    record,               \* per case, its row and its newest approval packet
    caseId,               \* useState(readCaseIdFromUrl)
    resolution,           \* what is shown, tagged with the case it is about
    polls,                \* chains of pollOnce: requests and timers
    posting,              \* the click whose POST is awaited: isSubmitting
    used                  \* clicks made

server == <<row, told, started, record>>
page   == <<caseId, resolution, polls, posting, used>>
vars   == <<server, page>>

Intake ==
    INSTANCE CaseIntake WITH Deliveries <- Clicks, Events <- Clicks,
                             event <- [c \in Clicks |-> c]

Record(c) ==
    INSTANCE CaseRecord WITH status <- record[c].status,
                             attempt_count <- record[c].attempt_count,
                             packet <- record[c].packet

-----------------------------------------------------------------------------
Statuses ==
    {"CASE_CREATED", "EVIDENCE_COLLECTION", "DIAGNOSIS", "RUNBOOK_RETRIEVAL",
     "HUMAN_RUNBOOK_AUTHORING", "POLICY_RISK_CHECK", "REMEDIATION_PROPOSED",
     "AWAITING_APPROVAL", "EXECUTING", "VERIFICATION", "RESOLUTION_ANALYSIS",
     "REINVESTIGATION", "CASE_CLOSED", "CASE_ESCALATED"}

HUMAN_REVIEW_STATUSES == {"AWAITING_APPROVAL", "HUMAN_RUNBOOK_AUTHORING"}

CaseRecords ==
    [status : Statuses, attempt_count : 0..(MAX_REINVESTIGATION_ATTEMPTS + 1),
     packet : Packets \cup {NoPacket}]

CustomerStatus == {"in_progress", "being_reviewed", "resolved", "escalated"}

\* A ResolutionResponse; the message is named by the action it is about.
Answer   == [customer_status : CustomerStatus, action : Packets \cup {NoPacket}]
Say(status, action) == [customer_status |-> status, action |-> action]
NoAnswer == Say("in_progress", NoPacket)

Shown    == [about : Clicks, answer : Answer]
NotShown == [about |-> NoCase, answer |-> NoAnswer]

\* A chain is at the first or the second statement of the endpoint, has its
\* answer on the way back, or waits for its timer.
Chain == [about : Clicks, at : {"status", "packet", "answer", "timer"}, answer : Answer]
Ask(c) == [about |-> c, at |-> "status", answer |-> NoAnswer]
Wait(c) == [Ask(c) EXCEPT !.at = "timer"]
Answering(p, answer) == [p EXCEPT !.at = "answer", !.answer = answer]

isTerminal_NotInProgress(answer) ==  \* mutant: whatever is not in progress is over
    answer.customer_status # "in_progress"

isTerminal(answer) == answer.customer_status \in {"resolved", "escalated"}

\* Rows, cases, requests and what is shown have the shapes of the code.
TypeOK ==
    /\ row \in [Clicks -> Clicks \cup {NoCase}]
    /\ told \in [Clicks -> Clicks \cup {NoCase}]
    /\ started \subseteq Clicks
    /\ record \in [Clicks -> CaseRecords]
    /\ caseId \in Clicks \cup {NoCase}
    /\ resolution \in Shown \cup {NotShown}
    /\ polls \subseteq Chain
    /\ posting \in Clicks \cup {NoCase}
    /\ used \subseteq Clicks

Init ==
    /\ Intake!Init
    /\ record = [c \in Clicks |->
                    [status |-> "CASE_CREATED", attempt_count |-> 0, packet |-> NoPacket]]
    /\ caseId = NoCase
    /\ resolution = NotShown
    /\ polls = {}
    /\ posting = NoCase
    /\ used = {}

-----------------------------------------------------------------------------
\* handleSubmit: the form is there while no case is watched; the button is
\* disabled while a POST is awaited.
Submit(c) ==
    /\ caseId = NoCase /\ posting = NoCase
    /\ c \notin used
    /\ posting' = c
    /\ used' = used \cup {c}
    /\ UNCHANGED <<server, caseId, resolution, polls>>

\* The 201 arrives: setCaseId, whose effect clears the timer and starts a chain.
Watch(c) ==
    /\ posting = c /\ told[c] # NoCase
    /\ caseId' = told[c]
    /\ posting' = NoCase
    /\ polls' = {p \in polls : p.at # "timer"} \cup {Ask(told[c])}
    /\ UNCHANGED <<server, resolution, used>>

\* The POST fails, or its answer is lost: the customer may try again.
SubmitFails ==
    /\ posting # NoCase
    /\ posting' = NoCase
    /\ UNCHANGED <<server, caseId, resolution, polls, used>>

\* The browser loads the page anew: only the URL survives.
Reload ==
    /\ resolution' = NotShown
    /\ polls' = IF caseId = NoCase THEN {} ELSE {Ask(caseId)}
    /\ posting' = NoCase
    /\ UNCHANGED <<server, caseId, used>>

Becomes(p, q) == polls' = (polls \ {p}) \cup {q}

CustomerView_Raw(status) == status  \* mutant: the status itself is told

\* What the endpoint tells a customer of a case that is not closed.
CustomerView(status) ==
    IF status = "CASE_ESCALATED" THEN "escalated"
    ELSE IF status \in HUMAN_REVIEW_STATUSES THEN "being_reviewed"
    ELSE "in_progress"

ReadStatus_Early(p) ==  \* mutant: a verified action counts as resolved
    /\ p.at = "status"
    /\ LET status == record[p.about].status
       IN  Becomes(p, IF status \in {"RESOLUTION_ANALYSIS", "CASE_CLOSED"} THEN [p EXCEPT !.at = "packet"]
                      ELSE Answering(p, Say(CustomerView(status), NoPacket)))
    /\ UNCHANGED <<server, caseId, resolution, posting, used>>

\* SELECT status: only a closed case needs the second statement.
ReadStatus(p) ==
    /\ p.at = "status"
    /\ LET status == record[p.about].status
       IN  Becomes(p, IF status = "CASE_CLOSED" THEN [p EXCEPT !.at = "packet"]
                      ELSE Answering(p, Say(CustomerView(status), NoPacket)))
    /\ UNCHANGED <<server, caseId, resolution, posting, used>>

\* SELECT detail ... ORDER BY created_at DESC LIMIT 1, in a snapshot of its own.
ReadPacket(p) ==
    /\ p.at = "packet"
    /\ Becomes(p, Answering(p, Say("resolved", record[p.about].packet)))
    /\ UNCHANGED <<server, caseId, resolution, posting, used>>

Apply_Always(p) ==  \* mutant: a terminal answer arms the timer, too
    /\ p.at = "answer"
    /\ resolution' = [about |-> p.about, answer |-> p.answer]
    /\ Becomes(p, Wait(p.about))
    /\ UNCHANGED <<server, caseId, posting, used>>

\* setResolution, whatever case is watched by now; the next poll is armed
\* unless the answer is final.
Apply(p) ==
    /\ p.at = "answer"
    /\ resolution' = [about |-> p.about, answer |-> p.answer]
    /\ polls' = (polls \ {p}) \cup (IF isTerminal(p.answer) THEN {} ELSE {Wait(p.about)})
    /\ UNCHANGED <<server, caseId, posting, used>>

PollFails_GivesUp(p) ==  \* mutant: the catch shows the error and arms no timer
    /\ p.at # "timer"
    /\ polls' = polls \ {p}
    /\ UNCHANGED <<server, caseId, resolution, posting, used>>

\* The request or its answer is lost, or the server answers with an error.
PollFails(p) ==
    /\ p.at # "timer"
    /\ Becomes(p, Wait(p.about))
    /\ UNCHANGED <<server, caseId, resolution, posting, used>>

\* POLL_DELAY_MS are over.
Timer(p) ==
    /\ p.at = "timer"
    /\ Becomes(p, Ask(p.about))
    /\ UNCHANGED <<server, caseId, resolution, posting, used>>

StartOver_Always ==  \* mutant: the button is there before the case has ended
    /\ caseId # NoCase
    /\ caseId' = NoCase
    /\ resolution' = NotShown
    /\ polls' = {p \in polls : p.at # "timer"}
    /\ UNCHANGED <<server, posting, used>>

\* handleStartOver: the button comes with a final answer.  The effect's cleanup
\* clears a timer; it cannot recall a request.
StartOver ==
    /\ caseId # NoCase
    /\ resolution # NotShown /\ isTerminal(resolution.answer)
    /\ caseId' = NoCase
    /\ resolution' = NotShown
    /\ polls' = {p \in polls : p.at # "timer"}
    /\ UNCHANGED <<server, posting, used>>

\* The endpoint works on a POST that has been sent, awaited or not.  Every
\* event has one delivery, so none is ever answered as a duplicate.
ServePost ==
    /\ \E c \in used : Intake!Accept(c) \/ Intake!Created(c)
    /\ UNCHANGED <<record, page>>

\* Whoever made the POST, a call of start_workflow may still go through.
StartLate == Intake!StartCases /\ UNCHANGED <<record, page>>

\* A started case writes its row or a new approval packet.
CaseStep(c) ==
    /\ c \in started
    /\ \E new \in CaseRecords : record' = [record EXCEPT ![c] = new] /\ Record(c)!Next
    /\ UNCHANGED <<row, told, started, page>>

Next ==
    \/ \E c \in Clicks : Submit(c) \/ Watch(c) \/ CaseStep(c)
    \/ SubmitFails \/ Reload \/ StartOver
    \/ \E p \in polls :
          ReadStatus(p) \/ ReadPacket(p) \/ Apply(p) \/ PollFails(p) \/ Timer(p)
    \/ ServePost \/ StartLate

Spec == Init /\ [][Next]_vars

\* A timer of the browser fires.  Any one request may be lost, but not every
\* one for ever: a statement that is reached again and again is answered in
\* the end, and so is the request.  Nothing is assumed of the case or of the
\* customer, who may reload as often as they like.
FairSpec ==
    /\ Spec
    /\ WF_vars(\E p \in polls : Timer(p))
    /\ SF_vars(\E p \in polls : ReadStatus(p))
    /\ SF_vars(\E p \in polls : ReadPacket(p))
    /\ SF_vars(\E p \in polls : Apply(p))

-----------------------------------------------------------------------------
\* page.tsx:74-76: "One in-flight status request at a time".  While a case is
\* watched and has not been shown to be over there is exactly one request or
\* timer, and it is for that case; after that, and without a case, none.
OnePoll ==
    IF caseId = NoCase \/ (resolution # NotShown /\ isTerminal(resolution.answer))
    THEN polls = {}
    ELSE Cardinality(polls) = 1 /\ \A p \in polls : p.about = caseId

\* What is shown is about the case that is watched: no answer of an earlier
\* report arrives after the customer has started over.
ShownIsWatched == resolution # NotShown => resolution.about = caseId

IsTrueOf(answer, case) ==
    /\ answer.customer_status = "resolved" =>
          case.status = "CASE_CLOSED" /\ answer.action = case.packet
    /\ answer.customer_status = "escalated" => case.status = "CASE_ESCALATED"

\* "resolved" is said only of a closed case and with the action of its newest
\* packet, although status and packet are read in two statements and the answer
\* travels while the case moves on; "escalated" only of an escalated one.
ResolvedIsTrue ==
    resolution # NotShown => IsTrueOf(resolution.answer, record[resolution.about])

\* The page stops asking about a case, and lets the customer go on to another
\* report, only once the case is over: it goes by an answer that is older than the
\* row and, for a closed case, was made of two reads.
LeavesWhenOver ==
    [][(caseId # NoCase /\ (caseId' # caseId \/ polls' = {})) =>
          record[caseId].status \in {"CASE_CLOSED", "CASE_ESCALATED"}]_vars

\* Why the four hold: the one chain, what it has read so far and what is shown.
PollInv ==
    IF caseId = NoCase \/ (resolution # NotShown /\ isTerminal(resolution.answer))
    THEN polls = {}
    ELSE \E p \in polls : polls = {p} /\ p.about = caseId

ChainInv ==
    \A p \in polls :
        /\ p.at \in {"status", "timer"} => p.answer = NoAnswer
        /\ p.at = "packet" => record[p.about].status = "CASE_CLOSED"
        /\ p.at = "answer" => IsTrueOf(p.answer, record[p.about])

PortalInv ==
    /\ PollInv /\ ChainInv
    /\ ShownIsWatched /\ ResolvedIsTrue
    /\ posting # NoCase => caseId = NoCase

\* A customer who keeps watching is told when the case is over.
CustomerLearns ==
    \A c \in Clicks :
        (caseId = c /\ record[c].status \in {"CASE_CLOSED", "CASE_ESCALATED"})
            ~> (caseId # c \/ (resolution # NotShown /\ isTerminal(resolution.answer)))
=============================================================================
