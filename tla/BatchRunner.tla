---------------------------- MODULE BatchRunner ----------------------------
(***************************************************************************)
(* A batch run from the shell: RunExecutor.execute_session                 *)
(* (simulator/run_executor.py) driving SimSession through drive_session    *)
(* (simulator/session.py) with the AUTO_APPLY policy.  The runner answers  *)
(* every decision with the recommendation, rolls the melt and the ledger   *)
(* back when an hour is refused with a type it knows, and gives the run    *)
(* its final status.                                                       *)
(***************************************************************************)
EXTENDS BatchCore

CONSTANT MaxHours   \* the hour budgets explored are 0 .. MaxHours

ASSUME BudgetAssumption == MaxHours \in Nat

VARIABLES
    budget,      \* hours asked for
    stage0Only,  \* stop_at_stage0_exit
    left,        \* iterations of drive_session left
    perHour,     \* summaries of the steps that returned
    before,      \* ledger and melt as they were before this iteration
    at,          \* where the driver is
    raised,      \* an exception of a known physics refusal stopped the run
    status       \* "running", then the run's status

runner == <<budget, stage0Only, left, perHour, before, at, raised, status>>
rvars == <<vars, runner>>

Final == {"ok", "partial", "refused", "failed"}

AtStage0Exit ==
    \/ pending = "PATH_AB" /\ melt.campaign = "C0B"
    \/ melt.campaign \notin {"C0", "C0B"}

RInit ==
    /\ Init
    /\ budget \in 0 .. MaxHours
    /\ stage0Only \in BOOLEAN
    /\ left = budget
    /\ perHour = 0
    /\ before = [melt |-> melt, ledger |-> ledger]
    /\ at = "top"
    /\ raised = FALSE
    /\ status = "running"

---------------------------------------------------------------------------
(* drive_session                                                            *)

\* Mutant: the hour budget is not looked at.
DriverReturnsAtCompletion == IsComplete \/ (stage0Only /\ AtStage0Exit)

DriverReturns == left = 0 \/ IsComplete \/ (stage0Only /\ AtStage0Exit)

\* The surfaces a typed refusal rolls back are copied before each iteration.
TopOfLoop ==
    /\ at = "top"
    /\ before' = [melt |-> melt, ledger |-> ledger]
    /\ at' = CASE DriverReturns -> "ended"
               [] ~DriverReturns /\ pending # "none" -> "deciding"
               [] OTHER -> "advancing"
    /\ UNCHANGED <<vars, budget, stage0Only, left, perHour, raised, status>>

AutoApply ==
    /\ at = "deciding"
    /\ Decide(Recommended[pending])
    /\ at' = "decided"
    /\ UNCHANGED <<budget, stage0Only, left, perHour, before, raised, status>>

AutoApplyRaises ==
    /\ at = "deciding"
    /\ DecideAborts(Recommended[pending])
    /\ at' = "judging"
    /\ UNCHANGED <<budget, stage0Only, left, perHour, before, raised, status>>

AfterDecision ==
    /\ at = "decided"
    /\ at' = IF IsComplete \/ (stage0Only /\ AtStage0Exit) THEN "ended" ELSE "advancing"
    /\ UNCHANGED <<vars, budget, stage0Only, left, perHour, before, raised, status>>

\* session.advance(): one hour, one refused poll, or an exception.
Advance ==
    /\ at = "advancing"
    /\ \/ Hour
       \/ PollHour
       \/ RefuseHour
       \/ AbortHour
    /\ at' = IF phase' = "idle" THEN "judging" ELSE "advancing"
    /\ UNCHANGED <<budget, stage0Only, left, perHour, before, raised, status>>

---------------------------------------------------------------------------
(* execute_session, judging what the iteration returned or raised           *)

\* Mutant: the status is given before the simulator is asked if it is poisoned.
PoisonWinsNever(verdict) == verdict

\* A poisoned simulator overrides whatever the run would have reported.
PoisonWins(verdict) == IF poisoned THEN "failed" ELSE verdict

\* Mutant: a refused C4 is taken for a campaign like any other.
RefusedByBubblerOnly == returned = "bubbler_refused"

\* A refused bubbler setting and a refused C4 end the run; a refused C6 does
\* not.
RefusedByStep == returned = "bubbler_refused" \/ refusedC4

\* A step that returned is summarised, whether or not it ran an hour.
JudgeStep ==
    /\ at = "judging"
    /\ returned \in {"ok", "paused", "bubbler_refused"}
    /\ perHour' = perHour + 1
    /\ IF RefusedByStep
       THEN /\ at' = "closed"
            /\ status' = PoisonWins("refused")
            /\ left' = left
       ELSE /\ at' = IF stage0Only /\ AtStage0Exit THEN "ended" ELSE "top"
            /\ status' = status
            /\ left' = left - 1
    /\ UNCHANGED <<vars, budget, stage0Only, before, raised>>

\* Mutant: only the melt goes back.
RollBackMelt == melt' = before.melt /\ UNCHANGED ledger

RollBack == melt' = before.melt /\ ledger' = before.ledger

\* An exception of a listed refusal type: melt and ledger go back to the
\* start of the iteration, the run is refused - unless the hour is poisoned.
JudgeTypedRefusal ==
    /\ at = "judging"
    /\ returned \in {"typed_refusal", "terminal_refusal"}
    /\ RollBack
    /\ raised' = TRUE
    /\ status' = PoisonWins("refused")
    /\ at' = "closed"
    /\ UNCHANGED <<plan, record, snapshots, pending, paused, refusedC4, refusedC6,
                   entered, poisoned, projection, phase, next, saved, returned,
                   aborts, budget, stage0Only, left, perHour, before>>

\* Any other exception, a terminal refusal of an unlisted type included.
JudgeFailure ==
    /\ at = "judging"
    /\ returned \in {"error", "projection", "terminal_refusal"}
    /\ status' = "failed"
    /\ at' = "closed"
    /\ UNCHANGED <<vars, budget, stage0Only, left, perHour, before, raised>>

\* The driver ran out: a run is ok when it has used its budget.
Conclude ==
    /\ at = "ended"
    /\ status' = PoisonWins(
                   IF stage0Only /\ AtStage0Exit THEN "ok"
                   ELSE IF pending # "none" \/ melt.hour < budget THEN "partial"
                   ELSE "ok")
    /\ at' = "closed"
    /\ UNCHANGED <<vars, budget, stage0Only, left, perHour, before, raised>>

Closed == at = "closed" /\ UNCHANGED rvars

RNext ==
    \/ TopOfLoop
    \/ AutoApply
    \/ AutoApplyRaises
    \/ AfterDecision
    \/ Advance
    \/ JudgeStep
    \/ JudgeTypedRefusal
    \/ JudgeFailure
    \/ Conclude
    \/ Closed

RSpec == RInit /\ [][RNext]_rvars

---------------------------------------------------------------------------
RTypeOK ==
    /\ budget \in 0 .. MaxHours
    /\ left \in 0 .. budget
    /\ perHour \in 0 .. budget
    /\ at \in {"top", "deciding", "decided", "advancing", "judging", "ended", "closed"}
    /\ status \in {"running"} \cup Final
    /\ raised \in BOOLEAN
    /\ at = "closed" <=> status # "running"

\* After a rollback the melt and the ledger are back in the same hour: the
\* ledger has no transition of the hour the melt says has not been run.
RolledBackTogether ==
    raised => \A hour \in Range(ledger) : hour < melt.hour

\* A run that reports success or a budget not used up has no half-committed
\* hour and no refused C4 behind it, and summarised every hour it ran.
CleanVerdict ==
    status \in {"ok", "partial"} =>
        ~poisoned /\ ~refusedC4 /\ perHour = melt.hour

\* A refused run still summarises exactly the hours it kept, but for the
\* summary of the poll that found the O2 bubbler setting refused.
RefusedVerdict ==
    status = "refused" =>
        /\ ~poisoned
        /\ perHour = melt.hour + (IF returned = "bubbler_refused" THEN 1 ELSE 0)

\* docs/output-interpretation.md:62: a KnudsenRegimeRefusal - a typed refusal
\* like any other the runner lists - escalates the run to status refused.
TypedRefusalReported == raised => status = "refused"
===========================================================================
