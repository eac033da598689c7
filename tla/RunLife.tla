------------------------------ MODULE RunLife -------------------------------
(* What the web workbench promises of one client's runs, whatever loops,    *)
(* handlers and timers work on them: at most one is live, a run that ended  *)
(* never lives again, hours are simulated only for a live run that has not  *)
(* been reported, and each run is reported at most once and for good.       *)
(* WebRuns implements it.                                                   *)
EXTENDS Naturals

CONSTANTS
    Runs,     \* the runs of the client
    Reports,  \* reports of a run: [lifecycle, status]
    NoReport  \* none of them

VARIABLES
    phase,    \* per run: "new", "live" or "ended"
    hours,    \* per run: hours simulated
    report    \* per run: its stored report, or NoReport

vars == <<phase, hours, report>>

Init ==
    /\ phase = [r \in Runs |-> "new"]
    /\ hours = [r \in Runs |-> 0]
    /\ report = [r \in Runs |-> NoReport]

Launch(r) ==
    /\ phase[r] = "new"
    /\ \A q \in Runs : phase[q] # "live"
    /\ phase' = [phase EXCEPT ![r] = "live"]
    /\ UNCHANGED <<hours, report>>

Hour(r) ==
    /\ phase[r] = "live"
    /\ report[r] = NoReport
    /\ hours' = [hours EXCEPT ![r] = @ + 1]
    /\ UNCHANGED <<phase, report>>

(* Only a live run completes; a run that ended unreported may still be      *)
(* filed as cancelled.                                                      *)
File(r) ==
    /\ report[r] = NoReport
    /\ phase[r] # "new"
    /\ \E rep \in Reports :
          /\ rep.lifecycle = "complete" => phase[r] = "live"
          /\ report' = [report EXCEPT ![r] = rep]
    /\ UNCHANGED <<phase, hours>>

End(r) ==
    /\ phase[r] = "live"
    /\ phase' = [phase EXCEPT ![r] = "ended"]
    /\ UNCHANGED <<hours, report>>

Next == \E r \in Runs : Launch(r) \/ Hour(r) \/ File(r) \/ End(r)

Spec == Init /\ [][Next]_vars
=============================================================================
