------------------------ MODULE IOReadEngineAbstract ------------------------
(***************************************************************************)
(* What the read path of IOBase promises its caller, without threads,      *)
(* queue or semaphore: reads are submitted in order while the IO is open;  *)
(* each one completes with a result (data or an exception) or, once close  *)
(* has begun, may be cancelled; every outcome is retrieved at most once;   *)
(* at most ResultBound results wait for retrieval at any time (the         *)
(* backpressure of the semaphore); and close() returns only after every    *)
(* submitted read's outcome has been retrieved.                            *)
(***************************************************************************)
EXTENDS Naturals, FiniteSets

CONSTANTS
    ResultBound,  \* results that may wait for retrieval at once
    MaxReads      \* bound on the number of submitted reads

Reads == 1..MaxReads

\* none: not submitted; pending: submitted, no outcome yet; result: done
\* with data or an exception; cancelled: cancelled by close; retrieved:
\* handed to the caller by the drain.
Outcomes == {"none", "pending", "result", "cancelled", "retrieved"}

VARIABLES
    status,   \* "unopened", "open", "closing" or "closed"
    outcome   \* outcome[r] for each read r

vars == <<status, outcome>>

\* The results waiting for retrieval.
Waiting == {r \in Reads : outcome[r] = "result"}

Init ==
    /\ status = "unopened"
    /\ outcome = [r \in Reads |-> "none"]

Open ==
    /\ status = "unopened"
    /\ status' = "open"
    /\ UNCHANGED outcome

Submit(r) ==
    /\ status = "open"
    /\ outcome[r] = "none"
    /\ \A q \in 1..(r - 1) : outcome[q] # "none"
    /\ outcome' = [outcome EXCEPT ![r] = "pending"]
    /\ UNCHANGED status

Complete(r) ==
    /\ outcome[r] = "pending"
    /\ Cardinality(Waiting) < ResultBound
    /\ outcome' = [outcome EXCEPT ![r] = "result"]
    /\ UNCHANGED status

Cancel(r) ==
    /\ status = "closing"
    /\ outcome[r] = "pending"
    /\ outcome' = [outcome EXCEPT ![r] = "cancelled"]
    /\ UNCHANGED status

Retrieve(r) ==
    /\ status \in {"open", "closing"}
    /\ outcome[r] \in {"result", "cancelled"}
    /\ outcome' = [outcome EXCEPT ![r] = "retrieved"]
    /\ UNCHANGED status

\* close() on an IO that was never opened returns at once.
Close ==
    /\ status \in {"unopened", "open"}
    /\ status' = IF status = "unopened" THEN "closed" ELSE "closing"
    /\ UNCHANGED outcome

\* close() returns: no outcome is left unretrieved.
Closed ==
    /\ status = "closing"
    /\ \A r \in Reads : outcome[r] \in {"none", "retrieved"}
    /\ status' = "closed"
    /\ UNCHANGED outcome

Next ==
    \/ Open \/ Close \/ Closed
    \/ \E r \in Reads : Submit(r) \/ Complete(r) \/ Cancel(r) \/ Retrieve(r)

Spec == Init /\ [][Next]_vars

=============================================================================
