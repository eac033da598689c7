----------------------------- MODULE FuturePool -----------------------------
(* What the pool of engines promises of the requests given to it, whatever  *)
(* becomes of its threads and processes: none is accepted once the pool is  *)
(* closed, no more run than there are slots, each is settled once and for   *)
(* good, its answer is its own, and only one that no slot has begun is      *)
(* cancelled, by a close that was asked to. EnginePool implements it.       *)
EXTENDS Naturals, FiniteSets

CONSTANTS
    Requests,  \* the requests there are
    Capacity   \* how many may run at once

VARIABLES
    future,     \* per request: its state, and its value once it is answered
    closed,     \* the pool accepts no more requests
    cancelling  \* a close was asked to cancel what waits

vars == <<future, closed, cancelling>>

Init ==
    /\ future = [q \in Requests |-> [state |-> "none", value |-> 0]]
    /\ closed = FALSE /\ cancelling = FALSE

Running == {q \in Requests : future[q].state = "running"}

Submit(q) ==
    /\ ~closed
    /\ future[q].state = "none"
    /\ future' = [future EXCEPT ![q].state = "queued"]
    /\ UNCHANGED <<closed, cancelling>>

Start(q) ==
    /\ future[q].state = "queued"
    /\ Cardinality(Running) < Capacity
    /\ future' = [future EXCEPT ![q].state = "running"]
    /\ UNCHANGED <<closed, cancelling>>

Answer(q) ==
    /\ future[q].state = "running"
    /\ future' = [future EXCEPT ![q] = [state |-> "answered", value |-> q]]
    /\ UNCHANGED <<closed, cancelling>>

Fail(q) ==
    /\ future[q].state = "running"
    /\ future' = [future EXCEPT ![q].state = "failed"]
    /\ UNCHANGED <<closed, cancelling>>

Cancel(q) ==
    /\ cancelling
    /\ future[q].state = "queued"
    /\ future' = [future EXCEPT ![q].state = "cancelled"]
    /\ UNCHANGED <<closed, cancelling>>

Close ==
    /\ closed' = TRUE
    /\ cancelling' \in {cancelling, TRUE}
    /\ UNCHANGED future

Next ==
    \/ \E q \in Requests : Submit(q) \/ Start(q) \/ Answer(q) \/ Fail(q) \/ Cancel(q)
    \/ Close

Spec == Init /\ [][Next]_vars
=============================================================================
