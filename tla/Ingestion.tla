------------------------------ MODULE Ingestion ------------------------------
(***************************************************************************)
(* POST /events/payment-failed: concurrent deliveries of payment.failed    *)
(* events, each handled by one coroutine of the API over a database        *)
(* connection of its own, and the Temporal client that starts a case.      *)
(*                                                                         *)
(* Postgres (external): at READ COMMITTED a SELECT sees committed rows     *)
(* only; an INSERT whose idempotency_key another open transaction holds    *)
(* waits for it and then fails if that one committed.  A connection that   *)
(* is closed, or dies with its process, rolls its transaction back.        *)
(***************************************************************************)
EXTENDS FiniteSets, Integers

CONSTANTS
    Requests,    \* deliveries; the case id a handler draws is named for it
    Keys,        \* idempotency keys
    MaxCrashes,  \* bound: crashes of the API process
    NoRequest

ASSUME NoRequestAssumption == NoRequest \notin Requests

ASSUME MaxCrashesAssumption == MaxCrashes \in Nat

VARIABLES
    key,       \* event.idempotency_key of each delivery
    pc,        \* where its handler is
    reply,     \* history: the case named in a 201, or NoRequest
    cases,     \* per key, the case of the committed row, or NoRequest
    holder,    \* per key, the delivery whose uncommitted INSERT holds it
    workflows, \* cases whose workflow has been started
    crashes

vars == <<key, pc, reply, cases, holder, workflows, crashes>>

Handling == {"select", "insert", "commit", "start"}
Over     == {"created", "duplicate", "error"}

\* Handlers, rows, transactions and workflows are what the API can make them.
TypeOK ==
    /\ key \in [Requests -> Keys]
    /\ pc \in [Requests -> {"idle"} \cup Handling \cup Over]
    /\ reply \in [Requests -> Requests \cup {NoRequest}]
    /\ cases \in [Keys -> Requests \cup {NoRequest}]
    /\ holder \in [Keys -> Requests \cup {NoRequest}]
    /\ workflows \subseteq Requests
    /\ crashes \in 0..MaxCrashes

Init ==
    /\ key \in [Requests -> Keys]
    /\ pc = [r \in Requests |-> "idle"]
    /\ reply = [r \in Requests |-> NoRequest]
    /\ cases = [k \in Keys |-> NoRequest]
    /\ holder = [k \in Keys |-> NoRequest]
    /\ workflows = {}
    /\ crashes = 0

Goto(r, next) == pc' = [pc EXCEPT ![r] = next]

\* The gateway delivers an event, or delivers it again.
Deliver(r) ==
    /\ pc[r] = "idle"
    /\ Goto(r, "select")
    /\ UNCHANGED <<key, reply, cases, holder, workflows, crashes>>

Respond_Key(r, case) == reply' = [reply EXCEPT ![r] = key[r]]  \* mutant: names the key

Respond_OwnId(r, case) == reply' = [reply EXCEPT ![r] = r]  \* mutant: names a case of its own

\* A 201 that names the case.
Respond(r, case) == reply' = [reply EXCEPT ![r] = case]

Select(r) ==
    /\ pc[r] = "select"
    /\ \/ /\ cases[key[r]] # NoRequest
          /\ Respond(r, cases[key[r]])
          /\ Goto(r, "duplicate")
       \/ /\ cases[key[r]] = NoRequest
          /\ Goto(r, "insert")
          /\ UNCHANGED reply
    /\ UNCHANGED <<key, cases, holder, workflows, crashes>>

Insert_NotUnique(r) ==  \* mutant: idempotency_key is not UNIQUE
    /\ pc[r] = "insert"
    /\ holder' = [holder EXCEPT ![key[r]] = r]
    /\ Goto(r, "commit")
    /\ UNCHANGED <<key, reply, cases, workflows, crashes>>

\* The INSERT, which waits while another transaction holds the key and raises
\* UniqueViolation, answered with a 500, when the key is taken.
Insert(r) ==
    /\ pc[r] = "insert"
    /\ holder[key[r]] = NoRequest
    /\ \/ /\ cases[key[r]] = NoRequest
          /\ holder' = [holder EXCEPT ![key[r]] = r]
          /\ Goto(r, "commit")
       \/ /\ cases[key[r]] # NoRequest
          /\ Goto(r, "error")
          /\ UNCHANGED holder
    /\ UNCHANGED <<key, reply, cases, workflows, crashes>>

Commit_Later(r) ==  \* mutant: the row is left uncommitted when the case starts
    /\ pc[r] = "commit"
    /\ Goto(r, "start")
    /\ UNCHANGED <<key, reply, cases, holder, workflows, crashes>>

\* The row is committed; the answer to the COMMIT may be lost, which raises.
Commit(r) ==
    /\ pc[r] = "commit"
    /\ cases' = [cases EXCEPT ![key[r]] = r]
    /\ holder' = [holder EXCEPT ![key[r]] = NoRequest]
    /\ Goto(r, "start") \/ Goto(r, "error")
    /\ UNCHANGED <<key, reply, workflows, crashes>>

Start_InBackground(r) ==  \* mutant: acknowledged with start_workflow not awaited
    /\ pc[r] = "start"
    /\ workflows' \in {workflows, workflows \cup {r}}
    /\ Respond(r, r)
    /\ Goto(r, "created")
    /\ UNCHANGED <<key, cases, holder, crashes>>

\* start_workflow returns and the case is acknowledged.
Start(r) ==
    /\ pc[r] = "start"
    /\ workflows' = workflows \cup {r}
    /\ Respond(r, r)
    /\ Goto(r, "created")
    /\ UNCHANGED <<key, cases, holder, crashes>>

DatabaseFails_KeepsOpen(r) ==  \* mutant: an error leaves the connection open
    /\ pc[r] \in {"select", "insert", "commit"}
    /\ Goto(r, "error")
    /\ UNCHANGED <<key, reply, cases, holder, workflows, crashes>>

Released(r) == [k \in Keys |-> IF holder[k] = r THEN NoRequest ELSE holder[k]]

\* A query raises: the connection is closed and the client gets a 500.
DatabaseFails(r) ==
    /\ pc[r] \in {"select", "insert", "commit"}
    /\ holder' = Released(r)
    /\ Goto(r, "error")
    /\ UNCHANGED <<key, reply, cases, workflows, crashes>>

\* start_workflow raises, whether or not the server started the workflow.
StartFails(r) ==
    /\ pc[r] = "start"
    /\ workflows' \in {workflows, workflows \cup {r}}
    /\ Goto(r, "error")
    /\ UNCHANGED <<key, reply, cases, holder, crashes>>

\* The API process dies: every request it was handling is dropped.  A
\* start_workflow call in flight may have reached the server.
Crash ==
    /\ crashes < MaxCrashes
    /\ crashes' = crashes + 1
    /\ pc' = [r \in Requests |-> IF pc[r] \in Handling THEN "error" ELSE pc[r]]
    /\ holder' = [k \in Keys |-> NoRequest]
    /\ \E sent \in SUBSET {r \in Requests : pc[r] = "start"} :
          workflows' = workflows \cup sent
    /\ UNCHANGED <<key, reply, cases>>

Handle(r) == Select(r) \/ Insert(r) \/ Commit(r) \/ Start(r)

Next ==
    \/ Crash
    \/ \E r \in Requests : Deliver(r) \/ Handle(r) \/ DatabaseFails(r) \/ StartFails(r)

Spec == Init /\ [][Next]_vars

\* A query or call that is not blocked is answered and its coroutine resumed.
\* Failures are possible, never owed: a wait must end without one.
FairSpec == Spec /\ \A r \in Requests : WF_vars(Handle(r))

-----------------------------------------------------------------------------
\* Why the four properties below hold: a transaction holds a key as long as its
\* handler is about to commit, and the key is then free in the table; once
\* committed, a row stays, and only its own handler starts or names its case.
RowInv ==
    /\ \A k \in Keys : holder[k] # NoRequest =>
          key[holder[k]] = k /\ pc[holder[k]] = "commit" /\ cases[k] = NoRequest
    /\ \A r \in Requests : pc[r] = "commit" => holder[key[r]] = r
    /\ \A r \in Requests : pc[r] = "start" => cases[key[r]] = r
    /\ \A r \in Requests : pc[r] \in {"idle", "select", "insert"} => cases[key[r]] # r
    /\ \A r \in workflows : cases[key[r]] = r
    /\ \A r \in Requests : reply[r] # NoRequest => reply[r] = cases[key[r]]

\* Duplicate deliveries, however they interleave, start one workflow per event.
OneWorkflowPerKey ==
    \A r, s \in workflows : key[r] = key[s] => r = s

\* All deliveries of an event that are acknowledged are told the same case,
\* and it is the one in the table.
SameCaseForSameKey ==
    \A r \in Requests : reply[r] # NoRequest => reply[r] = cases[key[r]]

\* A workflow never runs without its row, which its every activity updates.
WorkflowHasRow == \A r \in workflows : cases[key[r]] = r

Intake ==
    INSTANCE CaseIntake WITH Deliveries <- Requests, Events <- Keys, NoCase <- NoRequest,
                             event <- key, row <- cases, told <- reply, started <- workflows

\* Whatever the transactions, failures and crashes in between, the endpoint does
\* what CaseIntake promises; in particular whoever creates a case is told only
\* once its workflow runs, and an answer that was given is never changed.
ImplementsIntake == Intake!Spec

\* No delivery waits for ever on the key another one holds.
EveryDeliveryEnds ==
    \A r \in Requests : (pc[r] = "select") ~> (pc[r] \in Over)

\* api/main.py:4-6: the endpoint "dedupes on idempotency_key, inserts the
\* cases row, and starts the case workflow": an event that was acknowledged and
\* has no delivery in progress has a workflow.
AcknowledgedHasWorkflow ==
    \A r \in Requests :
        (/\ reply[r] # NoRequest
         /\ \A s \in Requests : key[s] = key[r] => pc[s] \notin Handling)
            => reply[r] \in workflows
=============================================================================
