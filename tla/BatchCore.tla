----------------------------- MODULE BatchCore -----------------------------
(***************************************************************************)
(* One batch as its session sees it: PyrolysisSimulator.step with the      *)
(* rollback of a refused hour and the poisoning of a half-committed one,   *)
(* start_campaign and apply_decision (simulator/core.py), behind the       *)
(* guards of SimSession.advance and decide (simulator/session.py).         *)
(*                                                                         *)
(* An hour is a single call, but almost anything in it can raise.  It is   *)
(* modelled as the stretches between its state changes (phase), so that an *)
(* exception strikes between any two of them.  What the physics computes   *)
(* is abstracted to whether it committed ledger transitions and whether    *)
(* the campaign's endpoint was met.                                        *)
(***************************************************************************)
EXTENDS CampaignGraph, Integers

CONSTANTS
    Starts,     \* campaigns a session may be started on
    HoldLimit,  \* hours after which each campaign's endpoint is met
    MaxAborts,  \* bound: exceptions, refused hours and refused polls explored
    MaxSilent   \* bound: hours that pass without a ledger transition

ASSUME BatchAssumption ==
    /\ Starts \subseteq Campaigns
    /\ HoldLimit \in [Campaigns -> Nat \ {0}]
    /\ MaxAborts \in Nat
    /\ MaxSilent \in Nat

VARIABLES
    plan,       \* what the session was configured with
    melt,       \* campaign, campaign_hour and hour of the melt
    record,     \* BatchRecord: routing fields and decisions, see CampaignGraph
    snapshots,  \* record.snapshots: the hours recorded
    ledger,     \* AtomLedger.transitions: hours whose attempt left some, in order
    pending,    \* pending_decision, or "none"
    paused,     \* paused_for_decision
    refusedC4,  \* _c4_campaign_refused
    refusedC6,  \* _c6_campaign_refused
    poisoned,   \* _poisoned_hour is set
    projection, \* SimSession._poisoned_error is set
    phase,      \* where the running hour is, "idle" between calls
    next,       \* what the endpoint decided: a phase, "stay", "stop" or "decide"
    saved,      \* the state step() restores after a terminal refusal
    returned,   \* how the last call of the session ended
    entered,    \* history: the campaigns started, in order
    aborts      \* bound: calls that did not complete an hour

state == <<melt, record, snapshots, ledger, pending, paused, refusedC4,
           refusedC6, entered>>
vars == <<plan, state, poisoned, projection, phase, next, saved, returned, aborts>>

Saving == [melt |-> melt, record |-> record, snapshots |-> snapshots,
           ledger |-> ledger, pending |-> pending, paused |-> paused,
           refusedC4 |-> refusedC4, refusedC6 |-> refusedC6, entered |-> entered]

IsComplete == melt.campaign = "COMPLETE" \/ refusedC4

\* Mutant: answering a decision leaves the batch paused.
ResumeStillPaused == pending' = "none" /\ UNCHANGED paused

Resume == pending' = "none" /\ paused' = FALSE

Clear(campaign) == [melt EXCEPT !.campaign = campaign, !.campaignHour = 0]

---------------------------------------------------------------------------
\* A started session: the first campaign is entered, hour 0.
Init ==
    /\ plan \in Plans
    /\ \E start \in Starts, track \in Tracks :
          /\ melt = [campaign |-> start, campaignHour |-> 0, hour |-> 0]
          /\ record = EmptyRecord(track)
          /\ entered = <<start>>
    /\ snapshots = << >>
    /\ ledger = << >>
    /\ pending = "none"
    /\ paused = FALSE
    /\ refusedC4 = FALSE
    /\ refusedC6 = FALSE
    /\ poisoned = FALSE
    /\ projection = FALSE
    /\ phase = "idle"
    /\ next = "stay"
    /\ saved = Saving
    /\ returned = "none"
    /\ aborts = 0

---------------------------------------------------------------------------
(* Committing: one entry of the ledger stands for an attempt's transitions. *)

Committed == Len(ledger) > Len(saved.ledger)

Commit ==
    \/ UNCHANGED ledger
    \/ ~Committed /\ ledger' = Append(ledger, saved.melt.hour)

---------------------------------------------------------------------------
(* The hour, stretch by stretch.                                            *)

\* Mutant: a poisoned batch is stepped again.
MayAdvancePoisoned == phase = "idle" /\ ~projection /\ ~IsComplete

\* SimSession.advance, and step() behind it, take the call.
MayAdvance == phase = "idle" /\ ~projection /\ ~IsComplete /\ ~poisoned

\* step() saves what a terminal refusal restores.
BeginHour ==
    /\ MayAdvance
    /\ ~paused
    /\ saved' = Saving
    /\ phase' = "physics"
    /\ next' = "stay"
    /\ returned' = "running"
    /\ UNCHANGED <<plan, state, poisoned, projection, aborts>>

\* A paused batch, or one whose O2 bubbler setting is refused, is only
\* looked at: no hour passes. The session projects what it saw, or fails to.
PollHour ==
    /\ MayAdvance
    /\ aborts < MaxAborts
    /\ projection' \in BOOLEAN
    /\ returned' = IF projection' THEN "projection"
                   ELSE IF paused THEN "paused" ELSE "bubbler_refused"
    /\ aborts' = aborts + 1
    /\ UNCHANGED <<plan, state, poisoned, phase, next, saved>>

\* Everything up to the endpoint check, with whatever it commits.
Physics ==
    /\ phase = "physics"
    /\ Commit
    /\ phase' = "endpoint"
    /\ UNCHANGED <<plan, melt, record, snapshots, pending, paused, refusedC4,
                   refusedC6, entered, poisoned, projection, next, saved,
                   returned, aborts>>

\* The campaign goes on.
EndpointNotMet ==
    /\ phase = "endpoint"
    /\ ~refusedC4
    /\ ~(melt.campaign = "C6" /\ refusedC6)
    /\ melt.campaignHour + 1 < HoldLimit[melt.campaign]
    /\ phase' = "boundary"
    /\ UNCHANGED <<plan, state, poisoned, projection, next, saved, returned, aborts>>

\* Mutant: routing goes on as after any campaign.
AfterRefusedC4Routed == NextCampaign(plan, melt.campaign, record)

AfterRefusedC4 == "stop"

\* A refused C4 latches: nothing follows it, and no decision is offered.
EndpointRefusesC4 ==
    /\ phase = "endpoint"
    /\ refusedC4 \/ melt.campaign = "C4"
    /\ refusedC4' = TRUE
    /\ next' = AfterRefusedC4
    /\ Resume
    /\ phase' = "boundary"
    /\ UNCHANGED <<plan, melt, record, snapshots, ledger, refusedC6, entered,
                   poisoned, projection, saved, returned, aborts>>

\* The campaign is over, or C6 is refused: routing picks what follows, and
\* writes its markers and automatic decisions to the record at once.
EndpointMet ==
    /\ phase = "endpoint"
    /\ ~refusedC4
    /\ refusedC6' \in IF melt.campaign = "C6" THEN {refusedC6, TRUE} ELSE {refusedC6}
    /\ next' = NextCampaign(plan, melt.campaign, record)
    /\ record' = RoutedRecord(plan, melt.campaign, record)
    /\ phase' = "boundary"
    /\ UNCHANGED <<plan, melt, snapshots, ledger, pending, paused, refusedC4,
                   entered, poisoned, projection, saved, returned, aborts>>

\* The stratification at the hour's end may commit too; then the hour counts.
AdvanceClock ==
    /\ phase = "boundary"
    /\ Commit
    /\ melt.hour + 1 - Len(ledger') <= MaxSilent
    /\ melt' = [melt EXCEPT !.hour = @ + 1, !.campaignHour = @ + 1]
    /\ phase' = "advanced"
    /\ UNCHANGED <<plan, record, snapshots, pending, paused, refusedC4, refusedC6,
                   entered, poisoned, projection, next, saved, returned, aborts>>

\* The snapshot is appended; the batch completes, pauses for the operator,
\* goes on, or is about to start the next campaign.
Book ==
    /\ phase = "advanced"
    /\ snapshots' = Append(snapshots, saved.melt.hour)
    /\ phase' = IF next \in Campaigns THEN "starting" ELSE "booked"
    /\ melt' = IF next = "COMPLETE" THEN [melt EXCEPT !.campaign = next] ELSE melt
    /\ IF next = "decide"
       THEN /\ pending' = DecisionFor(plan, melt.campaign, record)
            /\ paused' = TRUE
       ELSE UNCHANGED <<pending, paused>>
    /\ UNCHANGED <<plan, record, ledger, refusedC4, refusedC6, entered, poisoned,
                   projection, next, saved, returned, aborts>>

\* The assignments of start_campaign; the configuration after them may raise.
StartNext ==
    /\ phase = "starting"
    /\ melt' = Clear(next)
    /\ entered' = Append(entered, next)
    /\ Resume
    /\ refusedC4' = IF next = "C4" THEN FALSE ELSE refusedC4
    /\ refusedC6' = IF next = "C6" THEN FALSE ELSE refusedC6
    /\ phase' = "booked"
    /\ UNCHANGED <<plan, record, snapshots, ledger, poisoned, projection, next,
                   saved, returned, aborts>>

\* step() returns its snapshot and the session projects it, or fails to.
EndHour ==
    /\ phase = "booked"
    /\ projection' \in BOOLEAN
    /\ returned' = IF projection' THEN "projection" ELSE "ok"
    /\ phase' = "idle"
    /\ UNCHANGED <<plan, state, poisoned, next, saved, aborts>>

---------------------------------------------------------------------------
(* The exceptions of an hour.                                               *)

RestoreButLedger ==
    /\ melt' = saved.melt
    /\ record' = saved.record
    /\ snapshots' = saved.snapshots
    /\ pending' = saved.pending
    /\ paused' = saved.paused
    /\ refusedC4' = saved.refusedC4
    /\ refusedC6' = saved.refusedC6
    /\ entered' = saved.entered

\* Mutant: the ledger is left as the refused hour made it.
RestoreWithoutLedger == RestoreButLedger /\ UNCHANGED ledger

Restore == RestoreButLedger /\ ledger' = saved.ledger

\* Once the hour is booked only the start of a campaign and the final figures
\* of a complete batch can still raise.
CanRaise ==
    /\ phase # "idle"
    /\ phase = "booked" => next \in Campaigns \/ IsComplete
    /\ aborts < MaxAborts

\* A terminal refusal undoes the attempted hour.
RefuseHour ==
    /\ CanRaise
    /\ Restore
    /\ phase' = "idle"
    /\ returned' = "terminal_refusal"
    /\ aborts' = aborts + 1
    /\ UNCHANGED <<plan, poisoned, projection, next, saved>>

\* Mutant: an attempt that committed is as free to be retried as any other.
PoisonNever == UNCHANGED poisoned

Poison == poisoned' = (poisoned \/ Committed)

\* Any other exception, a typed refusal that is not terminal included, leaves
\* the hour as it is and poisons it when the attempt committed something.
AbortHour ==
    /\ CanRaise
    /\ Poison
    /\ phase' = "idle"
    /\ returned' \in {"typed_refusal", "error"}
    /\ aborts' = aborts + 1
    /\ UNCHANGED <<plan, state, projection, next, saved>>

---------------------------------------------------------------------------
(* The operator's decision.                                                 *)

\* SimSession.decide checks the choice against the pending decision.
CanDecide(choice) ==
    /\ phase = "idle"
    /\ ~refusedC4
    /\ pending # "none"
    /\ choice \in Options[pending]

Enter(campaign) ==
    /\ melt' = IF campaign = "COMPLETE"
               THEN [melt EXCEPT !.campaign = campaign] ELSE Clear(campaign)
    /\ entered' = IF campaign = "COMPLETE" THEN entered ELSE Append(entered, campaign)
    /\ refusedC6' = IF campaign = "C6" THEN FALSE ELSE refusedC6

Decide(choice) ==
    /\ CanDecide(choice)
    /\ Enter(Chosen(plan, pending, choice))
    /\ record' = ChosenRecord(record, pending, choice)
    /\ Resume
    /\ returned' = "decided"
    /\ UNCHANGED <<plan, snapshots, ledger, refusedC4, poisoned, projection,
                   phase, next, saved, aborts>>

\* start_campaign raises: before its first assignment, which changes nothing,
\* or after it. Then the campaign has changed and nothing is pending, but the
\* choice is not in the record. Or the final figures of a batch that the
\* choice completes raise, when all the rest is done.
DecideAborts(choice) ==
    LET chosen == Chosen(plan, pending, choice) IN
    /\ CanDecide(choice)
    /\ aborts < MaxAborts
    /\ \/ chosen # "COMPLETE" /\ Enter(chosen) /\ Resume /\ UNCHANGED record
       \/ /\ chosen # "COMPLETE"
          /\ UNCHANGED <<melt, record, entered, refusedC6, pending, paused>>
       \/ /\ chosen = "COMPLETE" /\ Enter(chosen) /\ Resume
          /\ record' = ChosenRecord(record, pending, choice)
    /\ returned' \in {"typed_refusal", "terminal_refusal", "error"}
    /\ aborts' = aborts + 1
    /\ UNCHANGED <<plan, snapshots, ledger, refusedC4, poisoned, projection,
                   phase, next, saved>>

---------------------------------------------------------------------------
Hour ==
    \/ BeginHour
    \/ Physics
    \/ EndpointNotMet
    \/ EndpointRefusesC4
    \/ EndpointMet
    \/ AdvanceClock
    \/ Book
    \/ StartNext
    \/ EndHour

Next ==
    \/ Hour
    \/ PollHour
    \/ RefuseHour
    \/ AbortHour
    \/ \E choice \in UNION Range(Options) : Decide(choice) \/ DecideAborts(choice)

Spec == Init /\ [][Next]_vars

\* A driver that steps while it can, and answers what it is asked.
FairSpec ==
    /\ Spec
    /\ WF_vars(Hour)
    /\ WF_vars(\E choice \in UNION Range(Options) : Decide(choice))

---------------------------------------------------------------------------
TypeOK ==
    /\ plan \in Plans
    /\ melt \in [campaign : Phases, campaignHour : Nat, hour : Nat]
    /\ record.track \in Tracks /\ record.path \in Paths /\ record.branch \in Branches
    /\ record.decisions \in Seq(DecisionTypes \X UNION Range(Options))
    /\ snapshots \in Seq(Nat)
    /\ ledger \in Seq(Nat)
    /\ pending \in DecisionTypes \cup {"none"}
    /\ {paused, refusedC4, refusedC6, poisoned, projection} \subseteq BOOLEAN
    /\ phase \in {"idle", "physics", "endpoint", "boundary", "advanced",
                  "starting", "booked"}
    /\ next \in Phases \cup {"stay", "stop", "decide"}
    /\ entered \in Seq(Campaigns)
    /\ aborts \in 0 .. MaxAborts

\* No hour is in the ledger twice: a retried attempt never adds its
\* transitions to those of one that failed.
NoHourTwice == \A i \in 1 .. Len(ledger) - 1 : ledger[i] < ledger[i + 1]

\* Between calls, unless the batch is poisoned, the ledger holds no
\* transition of an hour the record does not have.
LedgerAccounted ==
    phase = "idle" /\ ~poisoned => Range(ledger) \subseteq Range(snapshots)

\* The two flags of a pause agree, and what the operator is asked is the
\* question this campaign ends in - never the choice of a track, which would
\* park the session for good.
AskedTheRightQuestion ==
    phase = "idle" =>
        /\ paused <=> pending # "none"
        /\ pending = "PATH_AB" => melt.campaign = "C0B"
        /\ pending = "BRANCH_ONE_TWO" => melt.campaign = "C3_NA"
        /\ pending = "C6_PROCEED" => melt.campaign \in {"C2A", "C5"}
        /\ pending \notin {"ROOT_BRANCH", "C7_PROCEED"}

Visits(campaign) == {i \in 1 .. Len(entered) : entered[i] = campaign}

\* A batch never comes back to a campaign, whatever failed on the way, with
\* one exception: C2A is run again as the final pass, and only after C4.
NoCampaignLoop ==
    \A i, j \in 1 .. Len(entered) :
        i < j /\ entered[i] = entered[j] =>
            /\ entered[j] = "C2A"
            /\ entered[j - 1] = "C4"
            /\ Visits("C2A") = {i, j}

\* No question is answered twice, by the operator or by the batch itself.
DecidedOnce ==
    \A i, j \in 1 .. Len(record.decisions) :
        record.decisions[i][1] = record.decisions[j][1] => i = j

\* The operator's path is what the record says; only an A path may be marked
\* as the final pass, and only once C4 has run.
PathKept ==
    \A choice \in Options["PATH_AB"] :
        <<"PATH_AB", choice>> \in Range(record.decisions) =>
            \/ record.path = choice
            \/ /\ choice # "B"
               /\ record.path = "A_post_mg_boiloff"
               /\ Visits("C4") # {}

\* Skipping the electrolysis does not skip C6: a branch-two batch completes
\* only through C6 or an operator who declined it.
C6NotSkipped ==
    melt.campaign = "COMPLETE" /\ record.branch = "two" =>
        Visits("C6") # {} \/ <<"C6_PROCEED", "no">> \in Range(record.decisions)

\* A refused C4 is the end: no later campaign, no decision.
C4RefusalFinal ==
    refusedC4 => melt.campaign = "C4" /\ pending = "none" /\ ~paused

\* A poisoned batch is never touched again.
PoisonSticks == [][poisoned => UNCHANGED <<state, poisoned>>]_vars

\* With no end of failures ruled out by MaxAborts, every batch ends: complete,
\* refused in C4, or unable to go on.
BatchEnds == <>(IsComplete \/ poisoned \/ projection)
===========================================================================
