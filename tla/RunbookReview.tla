---------------------------- MODULE RunbookReview ----------------------------
(***************************************************************************)
(* RunbookUpdateReviewWorkflow, one execution per case, started by that    *)
(* case's workflow and abandoned by it.                                    *)
(*                                                                         *)
(* A signal can be delivered as soon as the execution exists.  Those that  *)
(* arrive before a worker has processed the first workflow task are        *)
(* applied before run() begins, and run() begins by clearing the slot.     *)
(***************************************************************************)
CONSTANT Cases

VARIABLES
    at,         \* "absent", "scheduled" (no first task yet), "waiting", "done"
    status,     \* self.status
    decision,   \* self._decision, or "none"
    heard       \* history: last decision delivered since run() began

vars == <<at, status, decision, heard>>

Decisions == {"approve", "reject", "request_changes"}

\* The review's three statuses and its slot hold what the code puts in them.
TypeOK ==
    /\ at \in [Cases -> {"absent", "scheduled", "waiting", "done"}]
    /\ status \in [Cases -> {"UnderReview", "Merged", "Discarded"}]
    /\ decision \in [Cases -> Decisions \cup {"none"}]
    /\ heard \in [Cases -> Decisions \cup {"none"}]

Init ==
    /\ at = [c \in Cases |-> "absent"]
    /\ status = [c \in Cases |-> "UnderReview"]
    /\ decision = [c \in Cases |-> "none"]
    /\ heard = [c \in Cases |-> "none"]

\* start_child_workflow in RESOLUTION_ANALYSIS.
StartReview(c) ==
    /\ at[c] = "absent"
    /\ at' = [at EXCEPT ![c] = "scheduled"]
    /\ UNCHANGED <<status, decision, heard>>

\* The first workflow task: run() clears the slot and waits.
BeginRun(c) ==
    /\ at[c] = "scheduled"
    /\ at' = [at EXCEPT ![c] = "waiting"]
    /\ decision' = [decision EXCEPT ![c] = "none"]
    /\ UNCHANGED <<status, heard>>

submit_review_decision(c) ==
    /\ at[c] \in {"scheduled", "waiting"}
    /\ \E d \in Decisions :
          /\ decision' = [decision EXCEPT ![c] = d]
          /\ heard' = IF at[c] = "waiting" THEN [heard EXCEPT ![c] = d] ELSE heard
    /\ UNCHANGED <<at, status>>

Decide_Verbatim(c) ==  \* mutant: self.status = decision.decision
    /\ at[c] = "waiting" /\ decision[c] # "none"
    /\ at' = [at EXCEPT ![c] = "done"]
    /\ status' = [status EXCEPT ![c] = decision[c]]
    /\ UNCHANGED <<decision, heard>>

Decide_ApproveElse(c) ==  \* mutant: whatever is not a rejection merges
    /\ at[c] = "waiting" /\ decision[c] # "none"
    /\ at' = [at EXCEPT ![c] = "done"]
    /\ status' = [status EXCEPT ![c] = IF decision[c] = "reject" THEN "Discarded" ELSE "Merged"]
    /\ UNCHANGED <<decision, heard>>

Decide_Ignores(c) ==  \* mutant: a rejection is one more round of changes
    /\ at[c] = "waiting" /\ decision[c] # "none"
    /\ \/ /\ decision[c] = "approve"
          /\ at' = [at EXCEPT ![c] = "done"]
          /\ status' = [status EXCEPT ![c] = "Merged"]
          /\ UNCHANGED decision
       \/ /\ decision[c] # "approve"
          /\ decision' = [decision EXCEPT ![c] = "none"]
          /\ UNCHANGED <<at, status>>
    /\ UNCHANGED heard

\* wait_condition is satisfied: the review ends, or loops and clears the slot.
Decide(c) ==
    /\ at[c] = "waiting" /\ decision[c] # "none"
    /\ \/ /\ decision[c] = "approve"
          /\ at' = [at EXCEPT ![c] = "done"]
          /\ status' = [status EXCEPT ![c] = "Merged"]
          /\ UNCHANGED decision
       \/ /\ decision[c] = "reject"
          /\ at' = [at EXCEPT ![c] = "done"]
          /\ status' = [status EXCEPT ![c] = "Discarded"]
          /\ UNCHANGED decision
       \/ /\ decision[c] = "request_changes"
          /\ decision' = [decision EXCEPT ![c] = "none"]
          /\ UNCHANGED <<at, status>>
    /\ UNCHANGED heard

Next == \E c \in Cases :
    StartReview(c) \/ BeginRun(c) \/ submit_review_decision(c) \/ Decide(c)

Spec == Init /\ [][Next]_vars

\* The worker processes the first task and wakes a satisfied wait.
FairSpec == Spec /\ \A c \in Cases : WF_vars(BeginRun(c)) /\ WF_vars(Decide(c))

-----------------------------------------------------------------------------
\* The entry is merged or discarded only on the word of the last decision the
\* running review was given: an approval that was taken back by a later signal
\* before the workflow woke merges nothing, nor does one sent too early.
OutcomeIsLastDecision ==
    \A c \in Cases :
        /\ at[c] = "done" => heard[c] \in {"approve", "reject"}
        /\ status[c] = "Merged" <=> (at[c] = "done" /\ heard[c] = "approve")
        /\ status[c] = "Discarded" <=> (at[c] = "done" /\ heard[c] = "reject")

\* Why it holds: a waiting review's slot is empty or holds the last decision
\* heard, and nothing is heard before run() begins.
SlotInv ==
    \A c \in Cases :
        /\ at[c] = "waiting" => decision[c] \in {"none", heard[c]}
        /\ at[c] # "done" => status[c] = "UnderReview"
        /\ at[c] = "done" =>
              \/ heard[c] = "approve" /\ status[c] = "Merged"
              \/ heard[c] = "reject" /\ status[c] = "Discarded"

\* A verdict given to a running review ends it, unless the reviewer changes
\* their mind before the workflow wakes.
VerdictEndsReview ==
    \A c \in Cases : \A d \in {"approve", "reject"} :
        (at[c] = "waiting" /\ decision[c] = d) ~> (at[c] = "done" \/ heard[c] # d)
=============================================================================
