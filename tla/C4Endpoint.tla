---------------------------- MODULE C4Endpoint ----------------------------
(***************************************************************************)
(* The endpoint clock of campaign C4 (magnesium pyrolysis), evaluated once *)
(* per simulated hour by CampaignManager.check_endpoint                    *)
(* (simulator/campaigns.py).  The plant decides the melt temperature, the  *)
(* transport throttle and the Mg rate; the clock decides when C4 is over   *)
(* and whether it ended or was refused.                                    *)
(*                                                                         *)
(* Hours are counted in whole simulated hours; a fractional limit behaves  *)
(* like the next whole hour, because every clock below is a whole number.  *)
(***************************************************************************)
EXTENDS Integers

CONSTANTS
    AcquisitionLimit, \* max_target_acquisition_hr: preheat hours granted
    ProcessLimit,     \* max_process_wall_clock_hr: hours after acquisition
    MinHold,          \* min_hold_hr: in-window hours before depletion counts
    MaxHold           \* max_hold_hr: in-window hours after which C4 ends

ASSUME LimitsAssumption ==
    /\ AcquisitionLimit \in Nat \ {0}
    /\ ProcessLimit \in Nat \ {0}
    /\ MinHold \in Nat
    /\ MaxHold \in Nat

VARIABLES
    hours,       \* C4 hours recorded: melt.campaign_hour, one snapshot each
    opportunity, \* recorded hours that were not transport holds
    acquiredAt,  \* hour of the first snapshot at or above the window, 0: none
    inWindow,    \* recorded hours inside the temperature window
    armed,       \* an in-window hour had a rate above the threshold
    outcome      \* "running", or how C4 was closed

vars == <<hours, opportunity, acquiredAt, inWindow, armed, outcome>>

\* Melt temperature against temp_range_C, and the Mg rate against
\* threshold_kg_hr.  "invalid" is a NaN or negative sample, "infinite" one
\* that still compares above the threshold.
Bands == {"below", "in", "above"}
Rates == {"above", "at", "under", "invalid", "infinite"}

Ended   == {"depleted", "max_hold"}
Refused == {"preheat_wall_clock", "window_acquisition", "signal_invalid",
            "process_wall_clock", "process_window_lost"}

---------------------------------------------------------------------------
(* The clocks, as check_endpoint reads them for the hour being closed.     *)

Completed == hours + 1

\* A throttled hour counts as preheat opportunity only once acquired.
CountsAsOpportunity(band, held) == band # "below" \/ ~held

\* Mutant: the hour being closed is left out of the preheat budget.
OpportunityOfPastHours(band, held) == opportunity

OpportunityHours(band, held) ==
    opportunity + (IF CountsAsOpportunity(band, held) THEN 1 ELSE 0)

\* Mutant: transport holds are on no clock, as before the held-hours bound.
HeldHoursUnbounded(band, held) == 0

HeldHours(band, held) == Completed - OpportunityHours(band, held)

Preheating(band) == acquiredAt = 0 /\ band = "below"

WindowHours(band) == inWindow + (IF band = "in" THEN 1 ELSE 0)

\* Mutant: the acquisition hour is taken from the index before the snapshot.
AcquisitionHourOffByOne == IF acquiredAt # 0 THEN acquiredAt ELSE hours - 1

AcquisitionHour == IF acquiredAt # 0 THEN acquiredAt ELSE Completed

ProcessElapsed == Completed - AcquisitionHour + 1

Armed(band, rate) == armed \/ (band = "in" /\ rate \in {"above", "infinite"})

\* The hour's Mg rate is compared with the threshold.
SignalRead(band, rate) ==
    /\ band = "in"
    /\ Armed(band, rate)
    /\ WindowHours(band) >= MinHold

SignalDecides(band, rate) ==
    SignalRead(band, rate) /\ rate \in {"invalid", "infinite", "under"}

\* Mutant: the hold is over an hour after max_hold_hr.
HoldExhaustedLate(band) == band = "in" /\ WindowHours(band) > MaxHold

HoldExhausted(band) == band = "in" /\ WindowHours(band) >= MaxHold

---------------------------------------------------------------------------
Init ==
    /\ hours = 0
    /\ opportunity = 0
    /\ acquiredAt = 0
    /\ inWindow = 0
    /\ armed = FALSE
    /\ outcome = "running"

\* The snapshot appended for the hour, whatever the verdict was, except that
\* a transport hold is recognised from the recorded ramp alone.
Record(band, held, rate) ==
    /\ outcome = "running"
    /\ hours' = Completed
    /\ opportunity' = opportunity + (IF held THEN 0 ELSE 1)
    /\ acquiredAt' = IF band = "below" THEN acquiredAt ELSE AcquisitionHour
    /\ inWindow' = WindowHours(band)
    /\ armed' = Armed(band, rate)

\* An hour of preheat with both budgets left.
Preheat(band, held, rate) ==
    /\ Preheating(band)
    /\ HeldHours(band, held) < AcquisitionLimit + ProcessLimit
    /\ OpportunityHours(band, held) < AcquisitionLimit
    /\ Record(band, held, rate)
    /\ UNCHANGED outcome

\* A plant held by transport for too long is refused before the preheat
\* budget is looked at.
RefuseHeldPreheat(band, held, rate) ==
    /\ Preheating(band)
    /\ HeldHours(band, held) >= AcquisitionLimit + ProcessLimit
    /\ Record(band, held, rate)
    /\ outcome' = "preheat_wall_clock"

\* The preheat budget is spent and the window was never reached.
RefuseAcquisition(band, held, rate) ==
    /\ Preheating(band)
    /\ HeldHours(band, held) < AcquisitionLimit + ProcessLimit
    /\ OpportunityHours(band, held) >= AcquisitionLimit
    /\ Record(band, held, rate)
    /\ outcome' = "window_acquisition"

\* The armed signal must be a finite non-negative sample to be compared.
RefuseSignal(band, held, rate) ==
    /\ ~Preheating(band)
    /\ SignalRead(band, rate)
    /\ rate \in {"invalid", "infinite"}
    /\ Record(band, held, rate)
    /\ outcome' = "signal_invalid"

EndDepleted(band, held, rate) ==
    /\ ~Preheating(band)
    /\ SignalRead(band, rate)
    /\ rate = "under"
    /\ Record(band, held, rate)
    /\ outcome' = "depleted"

EndMaxHold(band, held, rate) ==
    /\ ~Preheating(band)
    /\ ~SignalDecides(band, rate)
    /\ HoldExhausted(band)
    /\ Record(band, held, rate)
    /\ outcome' = "max_hold"

RefuseProcess(band, held, rate) ==
    /\ ~Preheating(band)
    /\ ~SignalDecides(band, rate)
    /\ ~HoldExhausted(band)
    /\ ProcessElapsed >= ProcessLimit
    /\ Record(band, held, rate)
    /\ outcome' = IF band = "in" THEN "process_wall_clock"
                                 ELSE "process_window_lost"

\* An hour of processing that decides nothing.
Process(band, held, rate) ==
    /\ ~Preheating(band)
    /\ ~SignalDecides(band, rate)
    /\ ~HoldExhausted(band)
    /\ ProcessElapsed < ProcessLimit
    /\ Record(band, held, rate)
    /\ UNCHANGED outcome

\* One simulated hour of C4, for any melt temperature, throttle and rate.
Hour ==
    \E band \in Bands, held \in BOOLEAN, rate \in Rates :
        \/ Preheat(band, held, rate)
        \/ RefuseHeldPreheat(band, held, rate)
        \/ RefuseAcquisition(band, held, rate)
        \/ RefuseSignal(band, held, rate)
        \/ EndDepleted(band, held, rate)
        \/ EndMaxHold(band, held, rate)
        \/ RefuseProcess(band, held, rate)
        \/ Process(band, held, rate)

\* C4 is over: the manager is not asked about this campaign again.
Closed == outcome # "running" /\ UNCHANGED vars

Next == Hour \/ Closed

Spec == Init /\ [][Next]_vars

---------------------------------------------------------------------------
TypeOK ==
    /\ hours \in Nat
    /\ opportunity \in Nat
    /\ acquiredAt \in Nat
    /\ inWindow \in Nat
    /\ armed \in BOOLEAN
    /\ outcome \in {"running"} \cup Ended \cup Refused

Held == hours - opportunity

\* C4 cannot spin: however the plant holds the ramp, drifts out of the window
\* or never shows a signal, a C4 that is still running has used fewer hours
\* than its three clocks allow together.
HourBound ==
    outcome = "running" => hours + 3 <= 2 * AcquisitionLimit + 2 * ProcessLimit

\* A preheat refusal is never early and never late.  The acquisition refusal
\* comes in the very hour the preheat budget is spent, transport holds not
\* counted; the held-hours refusal in the very hour the holds reach their own
\* budget, while preheat opportunity was still left.
RefusedAtBudget ==
    /\ outcome = "window_acquisition" =>
          /\ acquiredAt = 0
          /\ opportunity = AcquisitionLimit
          /\ Held < AcquisitionLimit + ProcessLimit
    /\ outcome = "preheat_wall_clock" =>
          /\ acquiredAt = 0
          /\ Held = AcquisitionLimit + ProcessLimit
          /\ opportunity < AcquisitionLimit

\* A melt that stayed inside the window from the hour it arrived is refused
\* for wall clock only if the configured hold is longer than the process wall:
\* otherwise max_hold closes C4 normally first.
WallClockTruthful ==
    (outcome = "process_wall_clock" /\ inWindow = hours - acquiredAt + 1)
        => MaxHold > ProcessLimit
===========================================================================
