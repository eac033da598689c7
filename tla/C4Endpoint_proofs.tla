------------------------- MODULE C4Endpoint_proofs -------------------------
(***************************************************************************)
(* Proofs about the C4 clock, for every value of the four limits.          *)
(*                                                                         *)
(* None of the three safety properties is inductive: a state knows how     *)
(* many hours were used, not that every one of them passed the guard that  *)
(* kept C4 running.  IndInv says, for a running C4, what the last guards   *)
(* left on each clock; the properties follow from it arithmetically.       *)
(***************************************************************************)
EXTENDS C4Endpoint, TLAPS

\* Hours since the melt reached the window, the hour of arrival included.
SinceArrival == hours - acquiredAt + 1

\* How the clocks relate, whatever the outcome.
ClocksNested ==
    /\ opportunity <= hours
    /\ acquiredAt <= hours
    /\ acquiredAt = 0 => inWindow = 0
    /\ acquiredAt # 0 => inWindow <= SinceArrival

\* What a C4 in preheat has left on its two budgets.
PreheatWithinBudget ==
    outcome = "running" /\ acquiredAt = 0 =>
        /\ opportunity < AcquisitionLimit
        /\ Held < AcquisitionLimit + ProcessLimit

\* The window was reached before the preheat budgets ran out, and the process
\* clock is still below its limit.
ProcessWithinBudget ==
    outcome = "running" /\ acquiredAt # 0 =>
        /\ acquiredAt + 1 <= 2 * AcquisitionLimit + ProcessLimit
        /\ SinceArrival < ProcessLimit

\* A melt that never left the window has not used up max_hold_hr.
HoldWithinBudget ==
    (outcome = "running" /\ acquiredAt # 0 /\ inWindow = SinceArrival)
        => inWindow < MaxHold

IndInv ==
    /\ TypeOK
    /\ ClocksNested
    /\ PreheatWithinBudget
    /\ ProcessWithinBudget
    /\ HoldWithinBudget
    /\ RefusedAtBudget
    /\ WallClockTruthful

---------------------------------------------------------------------------
\* The clocks hold numbers and the outcome is a known one after any hour: what
\* every action shares.
LEMMA RecordTypes ==
    ASSUME TypeOK, NEW band \in Bands, NEW held \in BOOLEAN, NEW rate \in Rates,
           Record(band, held, rate)
    PROVE  /\ hours' \in Nat /\ opportunity' \in Nat /\ acquiredAt' \in Nat
           /\ inWindow' \in Nat /\ armed' \in BOOLEAN
  BY DEF TypeOK, Record, Completed, AcquisitionHour, WindowHours, Armed

\* An hour adds one to the wall clock, at most one to each other clock, and
\* fixes the hour of arrival once.
LEMMA RecordNests ==
    ASSUME TypeOK, ClocksNested,
           NEW band \in Bands, NEW held \in BOOLEAN, NEW rate \in Rates,
           Record(band, held, rate)
    PROVE  ClocksNested'
  <1>1. hours' = hours + 1 /\ opportunity' <= opportunity + 1
    BY DEF TypeOK, Record, Completed
  <1>2. CASE band = "below"
    BY <1>1, <1>2 DEF TypeOK, ClocksNested, SinceArrival, Record, WindowHours
  <1>3. CASE band # "below"
    BY <1>1, <1>3
    DEF TypeOK, ClocksNested, SinceArrival, Record, WindowHours,
        AcquisitionHour, Completed
  <1> QED
    BY <1>2, <1>3

LEMMA InitIndInv == Init => IndInv
  <1> SUFFICES ASSUME Init
               PROVE  IndInv
    OBVIOUS
  <1>1. TypeOK
    BY DEF Init, TypeOK
  <1>2. ClocksNested
    BY DEF Init, ClocksNested
  <1>3. PreheatWithinBudget
    BY LimitsAssumption DEF Init, PreheatWithinBudget, Held
  <1> QED
    BY <1>1, <1>2, <1>3
    DEF Init, IndInv, ProcessWithinBudget, HoldWithinBudget, RefusedAtBudget,
        WallClockTruthful

---------------------------------------------------------------------------
\* An hour of C4 keeps the invariant.  The preheat actions are bounded by
\* their own guards; in the processing ones the clock since arrival was below
\* its limit, so it is at most at the limit now.
LEMMA HourIndInv == IndInv /\ Hour => IndInv'
  <1> SUFFICES ASSUME IndInv,
                      NEW band \in Bands, NEW held \in BOOLEAN, NEW rate \in Rates,
                      \/ Preheat(band, held, rate)
                      \/ RefuseHeldPreheat(band, held, rate)
                      \/ RefuseAcquisition(band, held, rate)
                      \/ RefuseSignal(band, held, rate)
                      \/ EndDepleted(band, held, rate)
                      \/ EndMaxHold(band, held, rate)
                      \/ RefuseProcess(band, held, rate)
                      \/ Process(band, held, rate)
               PROVE  IndInv'
    BY DEF Hour
  <1>a. Record(band, held, rate)
    BY DEF Preheat, RefuseHeldPreheat, RefuseAcquisition, RefuseSignal,
           EndDepleted, EndMaxHold, RefuseProcess, Process
  <1>b. TypeOK /\ ClocksNested /\ outcome = "running"
    BY <1>a DEF IndInv, Record
  <1>c. ClocksNested'
    BY <1>a, <1>b, RecordNests
  <1>d. /\ hours' \in Nat /\ opportunity' \in Nat /\ acquiredAt' \in Nat
        /\ inWindow' \in Nat /\ armed' \in BOOLEAN
    BY <1>a, <1>b, RecordTypes
  <1>e. hours' = hours + 1
    BY <1>a DEF Record, Completed
  <1>f. ~Preheating(band) =>
            /\ acquiredAt' # 0
            /\ acquiredAt' + 1 <= 2 * AcquisitionLimit + ProcessLimit
            /\ SinceArrival' <= ProcessLimit
            /\ SinceArrival' = ProcessElapsed
    <2> SUFFICES ASSUME ~Preheating(band)
                 PROVE  /\ acquiredAt' # 0
                        /\ acquiredAt' + 1 <= 2 * AcquisitionLimit + ProcessLimit
                        /\ SinceArrival' <= ProcessLimit
                        /\ SinceArrival' = ProcessElapsed
      OBVIOUS
    <2>1. CASE acquiredAt = 0
      <3>1. acquiredAt' = hours + 1 /\ AcquisitionHour = hours + 1
        BY <1>a, <2>1 DEF Preheating, Record, AcquisitionHour, Completed
      <3>2. /\ opportunity < AcquisitionLimit
            /\ Held < AcquisitionLimit + ProcessLimit
        BY <1>b, <2>1 DEF IndInv, PreheatWithinBudget
      <3> QED
        BY <3>1, <3>2, <1>b, <1>e, LimitsAssumption
        DEF TypeOK, Held, SinceArrival, ProcessElapsed, Completed
    <2>2. CASE acquiredAt # 0
      <3>1. acquiredAt' = acquiredAt /\ AcquisitionHour = acquiredAt
        BY <1>a, <2>2 DEF Record, AcquisitionHour
      <3>2. /\ acquiredAt + 1 <= 2 * AcquisitionLimit + ProcessLimit
            /\ SinceArrival < ProcessLimit
        BY <1>b, <2>2 DEF IndInv, ProcessWithinBudget
      <3> QED
        BY <3>1, <3>2, <2>2, <1>b, <1>e, LimitsAssumption
        DEF TypeOK, SinceArrival, ProcessElapsed, Completed
    <2> QED
      BY <2>1, <2>2
  <1>1. CASE Preheat(band, held, rate)
    <2>1. /\ acquiredAt' = 0 /\ outcome' = "running"
          /\ band = "below" /\ acquiredAt = 0
      BY <1>1, <1>b DEF Preheat, Preheating, Record
    <2>2. PreheatWithinBudget'
      BY <1>1, <1>b, <1>e, <2>1, LimitsAssumption
      DEF Preheat, PreheatWithinBudget, Held, HeldHours, OpportunityHours,
          CountsAsOpportunity, Record, Completed, TypeOK
    <2> QED
      BY <1>c, <1>d, <2>1, <2>2
      DEF IndInv, TypeOK, ProcessWithinBudget, HoldWithinBudget,
          RefusedAtBudget, WallClockTruthful
  <1>2. CASE RefuseHeldPreheat(band, held, rate)
    <2>1. /\ acquiredAt' = 0 /\ outcome' = "preheat_wall_clock"
          /\ band = "below" /\ acquiredAt = 0
      BY <1>2 DEF RefuseHeldPreheat, Preheating, Record
    <2>2. /\ opportunity < AcquisitionLimit
          /\ Held < AcquisitionLimit + ProcessLimit
      BY <1>b, <2>1 DEF IndInv, PreheatWithinBudget
    <2>3. Held' = AcquisitionLimit + ProcessLimit /\ opportunity' < AcquisitionLimit
      BY <1>2, <1>b, <1>e, <2>1, <2>2, LimitsAssumption
      DEF RefuseHeldPreheat, Held, HeldHours, OpportunityHours,
          CountsAsOpportunity, Record, Completed, TypeOK
    <2> QED
      BY <1>c, <1>d, <2>1, <2>3
      DEF IndInv, TypeOK, PreheatWithinBudget, ProcessWithinBudget,
          HoldWithinBudget, RefusedAtBudget, WallClockTruthful, Refused
  <1>3. CASE RefuseAcquisition(band, held, rate)
    <2>1. /\ acquiredAt' = 0 /\ outcome' = "window_acquisition"
          /\ band = "below" /\ acquiredAt = 0
      BY <1>3 DEF RefuseAcquisition, Preheating, Record
    <2>2. /\ opportunity < AcquisitionLimit
          /\ Held < AcquisitionLimit + ProcessLimit
      BY <1>b, <2>1 DEF IndInv, PreheatWithinBudget
    <2>3. opportunity' = AcquisitionLimit /\ Held' < AcquisitionLimit + ProcessLimit
      BY <1>3, <1>b, <1>e, <2>1, <2>2, LimitsAssumption
      DEF RefuseAcquisition, Held, HeldHours, OpportunityHours,
          CountsAsOpportunity, Record, Completed, TypeOK
    <2> QED
      BY <1>c, <1>d, <2>1, <2>3
      DEF IndInv, TypeOK, PreheatWithinBudget, ProcessWithinBudget,
          HoldWithinBudget, RefusedAtBudget, WallClockTruthful, Refused
  <1>4. CASE \/ RefuseSignal(band, held, rate)
             \/ EndDepleted(band, held, rate)
             \/ EndMaxHold(band, held, rate)
    <2>1. outcome' \in {"signal_invalid", "depleted", "max_hold"}
      BY <1>4 DEF RefuseSignal, EndDepleted, EndMaxHold
    <2> QED
      BY <1>c, <1>d, <2>1
      DEF IndInv, TypeOK, PreheatWithinBudget, ProcessWithinBudget,
          HoldWithinBudget, RefusedAtBudget, WallClockTruthful, Refused, Ended
  <1>5. CASE RefuseProcess(band, held, rate)
    <2>1. /\ outcome' = IF band = "in" THEN "process_wall_clock"
                                       ELSE "process_window_lost"
          /\ ~Preheating(band) /\ ProcessElapsed >= ProcessLimit
          /\ ~HoldExhausted(band)
      BY <1>5 DEF RefuseProcess
    <2>2. WallClockTruthful'
      <3> SUFFICES ASSUME band = "in", inWindow' = SinceArrival'
                   PROVE  MaxHold > ProcessLimit
        BY <2>1 DEF WallClockTruthful, SinceArrival
      <3>1. inWindow' < MaxHold
        BY <1>a, <1>b, <1>d, <2>1, LimitsAssumption
        DEF HoldExhausted, Record, WindowHours, TypeOK
      <3>2. SinceArrival' = ProcessLimit
        <4>1. SinceArrival' <= ProcessLimit /\ SinceArrival' = ProcessElapsed
          BY <1>f, <2>1
        <4>2. ProcessElapsed >= ProcessLimit
          BY <2>1
        <4>3. SinceArrival' \in Int
          BY <1>d DEF SinceArrival
        <4> QED
          BY <4>1, <4>2, <4>3, LimitsAssumption
      <3> QED
        BY <3>1, <3>2, <1>d, LimitsAssumption
    <2> QED
      BY <1>c, <1>d, <2>1, <2>2
      DEF IndInv, TypeOK, PreheatWithinBudget, ProcessWithinBudget,
          HoldWithinBudget, RefusedAtBudget, Refused
  <1>6. CASE Process(band, held, rate)
    <2>1. /\ outcome' = "running" /\ ~Preheating(band)
          /\ ProcessElapsed < ProcessLimit /\ ~HoldExhausted(band)
      BY <1>6, <1>b DEF Process
    <2>2. ProcessWithinBudget' /\ PreheatWithinBudget'
      BY <1>f, <2>1 DEF ProcessWithinBudget, PreheatWithinBudget
    <2>3. HoldWithinBudget'
      <3> SUFFICES ASSUME inWindow' = SinceArrival'
                   PROVE  inWindow' < MaxHold
        BY DEF HoldWithinBudget
      <3>1. band = "in"
        <4>1. inWindow' = inWindow \/ band = "in"
          BY <1>a, <1>b DEF Record, WindowHours, TypeOK
        <4>2. CASE acquiredAt = 0
          BY <4>1, <4>2, <1>a, <1>b, <1>d, <1>e, <2>1
          DEF ClocksNested, SinceArrival, Record, AcquisitionHour, Completed,
              Preheating, TypeOK
        <4>3. CASE acquiredAt # 0
          <5>1. acquiredAt' = acquiredAt
            BY <4>3, <1>a DEF Record, AcquisitionHour
          <5> QED
            BY <4>1, <4>3, <5>1, <1>b, <1>d, <1>e
            DEF ClocksNested, SinceArrival, TypeOK
        <4> QED
          BY <4>2, <4>3
      <3> QED
        BY <3>1, <1>a, <1>b, <1>d, <2>1, LimitsAssumption
        DEF HoldExhausted, Record, WindowHours, TypeOK
    <2> QED
      BY <1>c, <1>d, <2>1, <2>2, <2>3
      DEF IndInv, TypeOK, RefusedAtBudget, WallClockTruthful
  <1> QED
    BY <1>1, <1>2, <1>3, <1>4, <1>5, <1>6

LEMMA NextIndInv == IndInv /\ [Next]_vars => IndInv'
  <1>1. IndInv /\ UNCHANGED vars => IndInv'
    BY DEF vars, IndInv, TypeOK, ClocksNested, PreheatWithinBudget,
           ProcessWithinBudget, HoldWithinBudget, RefusedAtBudget,
           WallClockTruthful, Held, SinceArrival
  <1> QED
    BY <1>1, HourIndInv DEF Next, Closed

\* The inductive invariant holds of every behaviour.
THEOREM IndInvHolds == Spec => []IndInv
  <1> QED
    BY InitIndInv, NextIndInv, PTL DEF Spec

---------------------------------------------------------------------------
\* Every clock of a C4 holds a number and every outcome is a known one.
THEOREM TypesCorrect == Spec => []TypeOK
  <1>1. IndInv => TypeOK
    BY DEF IndInv
  <1> QED
    BY <1>1, IndInvHolds, PTL

\* For every setting of the limits, a C4 that is still running has used fewer
\* hours than its three clocks allow together.
THEOREM HourBoundHolds == Spec => []HourBound
  <1>1. IndInv => HourBound
    <2> SUFFICES ASSUME IndInv, outcome = "running"
                 PROVE  hours + 3 <= 2 * AcquisitionLimit + 2 * ProcessLimit
      BY DEF HourBound
    <2>1. CASE acquiredAt = 0
      BY <2>1, LimitsAssumption DEF IndInv, TypeOK, PreheatWithinBudget, Held
    <2>2. CASE acquiredAt # 0
      BY <2>2, LimitsAssumption
      DEF IndInv, TypeOK, ProcessWithinBudget, SinceArrival
    <2> QED
      BY <2>1, <2>2
  <1> QED
    BY <1>1, IndInvHolds, PTL

\* For every setting of the limits, a preheat refusal comes in the very hour
\* its budget is spent.
THEOREM RefusedAtBudgetHolds == Spec => []RefusedAtBudget
  <1>1. IndInv => RefusedAtBudget
    BY DEF IndInv
  <1> QED
    BY <1>1, IndInvHolds, PTL

\* For every setting of the limits, a melt that never left the window is
\* refused for wall clock only if max_hold_hr exceeds the process wall.
THEOREM WallClockTruthfulHolds == Spec => []WallClockTruthful
  <1>1. IndInv => WallClockTruthful
    BY DEF IndInv
  <1> QED
    BY <1>1, IndInvHolds, PTL
===========================================================================
