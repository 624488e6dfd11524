----------------------------- MODULE CaseIntake -----------------------------
(***************************************************************************)
(* The promise of POST /events/payment-failed: an event has one case,      *)
(* named for the delivery that created it; every acknowledgement of the    *)
(* event names that case; a case runs only once its row is there, and the  *)
(* delivery that created it is told so only once it runs.  Ingestion, with *)
(* its transactions, failures and crashes, implements this specification;  *)
(* CustomerPortal is built on it.                                          *)
(***************************************************************************)
CONSTANTS Deliveries, Events, NoCase

VARIABLES
    event,     \* of each delivery
    row,       \* per event, the case of its row, or NoCase
    told,      \* per delivery, the case its 201 names, or NoCase
    started    \* cases whose workflow runs

vars == <<event, row, told, started>>

Init ==
    /\ event \in [Deliveries -> Events]
    /\ row = [e \in Events |-> NoCase]
    /\ told = [d \in Deliveries |-> NoCase]
    /\ started = {}

\* The row of an event that has none.
Accept(d) ==
    /\ row[event[d]] = NoCase
    /\ row' = [row EXCEPT ![event[d]] = d]
    /\ UNCHANGED <<event, told, started>>

\* Cases of deliveries that created their row start, whoever gets to hear of it.
StartCases ==
    /\ \E creators \in SUBSET {d \in Deliveries : row[event[d]] = d} :
          started' = started \cup creators
    /\ UNCHANGED <<event, row, told>>

\* The delivery that created the case starts it and is told.
Created(d) ==
    /\ row[event[d]] = d
    /\ started' = started \cup {d}
    /\ told' = [told EXCEPT ![d] = d]
    /\ UNCHANGED <<event, row>>

\* Another delivery of the event is told of the case, started or not.
Duplicate(d) ==
    /\ row[event[d]] \notin {NoCase, d}
    /\ told' = [told EXCEPT ![d] = row[event[d]]]
    /\ UNCHANGED <<event, row, started>>

Next ==
    \/ StartCases
    \/ \E d \in Deliveries : Accept(d) \/ Created(d) \/ Duplicate(d)

Spec == Init /\ [][Next]_vars
=============================================================================
