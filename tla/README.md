# Verification of the regolith pyrolysis simulator

TLA+ specifications of the control logic of the simulator, the TLC models that
check them, and TLAPS proofs about them. The physics (floating-point models of
one hour) is abstracted to what the control logic asks of it: did the hour
commit ledger transitions, was the endpoint met, was something refused.

## 1. The system

A *batch* is a sequence of *campaigns* (C0, C0B, C2A, ... C7, COMPLETE), each of
them a number of simulated hours. An hour is one call of
`PyrolysisSimulator.step`; a campaign ends when its endpoint is met; some ends
pause the batch for a decision of the operator. `SimSession` guards the calls,
`RunExecutor` runs a whole batch from the shell, the web workbench runs batches
in background loops that viewers watch and steer, the optimizer runs many of
them in worker processes, launched by the web server as command-line jobs.

| component | source | state it keeps | operations | what is hard | what makes it correct |
|---|---|---|---|---|---|
| C4 endpoint clock | `campaigns.py` 792-890, 2406-2608 | snapshots of past hours | `check_endpoint` | four clocks over different subsets of hours, boundary hours | ends within its budgets, refused at the right hour for the right reason |
| campaign graph | `campaigns.py` 2776-3010 | fields of the batch record | `get_next_campaign`, `get_decision` | one campaign visited twice, routing and question computed apart | no loop, the right question, no stage skipped |
| batch core | `core.py` 11790-12830, 13190-13600 | melt, record, ledger, pending decision, refusal latches, poisoned hour | `step`, `start_campaign`, `apply_decision` | an exception between any two state changes | no hour counted twice, ledger and record agree, the batch ends |
| session | `session.py` | poisoned error | `start`, `advance`, `decide`, `pause`, `resume`, `drive_session` | a failed projection of a committed hour | nothing is done to a dead session |
| executor | `run_executor.py` | per-hour summaries, copies of melt and ledger | `execute_session` | its own rollback on top of the core's | verdict and state left behind agree |
| run store | `web/run_store.py` | artifacts, sidecars, lock file | `save`, `update_meta`, `list_runs`, `load_*` | several processes, death between renames, damaged files | lineage and stars survive, the first write wins, the oldest go |
| job runner and optimizer command line | `optimize/job_runner.py`, `optimize/cli.py` | meta files, status markers, process handles | `submit`, `list_jobs`, `cli.main` | server crash with live children, success without results | one process at a time, truthful verdicts, the queue drains |
| web workbench | `web/events.py` | table of runs, locks, loop generations, idempotency table | start, pause, resume, decide, cancel, disconnect, reclaim | loops, handlers and timers over one run | one artifact and one end per run, no stuck run |
| warm engine pool | `engine_pool.py` | worker process, pipe, processes to reap | `start`, `call`, `request_disable`, `close` | timeout against a late answer, close against start | no answer to the wrong call, no process left |
| atom ledger and kernel | `accounting/`, `chemistry/kernel/` | balances, lots with origins, transitions | `apply`, `project`, `commit_batch` | all or nothing over many accounts, lots that split | atoms and origins conserved |
| evaluation pool | `optimize/pool.py` | futures, retries | `evaluate_batch` | worker death, fallback | each candidate evaluated and reported once |
| result store | `optimize/results_store.py` | sqlite file, write lock | `store`, `migrate` | writers against migration | no result lost or overwritten |
| study, strategies, evaluation | `optimize/study.py`, `evaluate.py`, `strategy/` | search state | `run` | numerical | not modelled |
| runner payload, routes, reports | `runner/`, `web/routes.py` | none | rendering | none of its own | not modelled |
| melt back ends, hourly physics | `melt_backend/`, `engines/`, `condensation.py`, `extraction.py`, ... | numerical | one hour | real arithmetic | abstracted |

How they interact: the executor and the web loops call the session, the session
the core, the core the campaign manager (endpoint and routing) and the ledger.
The web loops and the executor hand finished runs to the run store. The web
server's job runner starts optimizer processes and learns how they ended only
from exit codes, pids and files. The hazards this list leads to are in
`PROJECT.json`, each with the line where it bites and the properties that cover
it, or the reason why none does yet.

## 2. The modules

| module | models | extends |
|---|---|---|
| `C4Endpoint` | the endpoint clock of C4, one step per hour | - |
| `C4Endpoint_proofs` | its theorems | `C4Endpoint`, `TLAPS` |
| `CampaignGraph` | routing, decisions and record updates as operators | - |
| `BatchCore` | one batch with its hour split at every state change | `CampaignGraph` |
| `BatchRunner` | the executor driving `BatchCore` | `BatchCore` |
| `Batch_proofs` | the theorems of the batch and of its executor | `BatchRunner`, `SequenceTheorems`, `TLAPS` |
| `RunStore` | the artifact store under concurrent writers, deaths and damage | - |
| `Extremes` | lemmas: the least and greatest elements of finite sets of numbers | `FiniteSetTheorems`, `TLAPS` |
| `RunStore_proofs` | the theorems of the store | `RunStore`, `Extremes` |
| `JobRunner` | launch queue, optimizer processes and server crashes | - |
| `JobRunner_proofs` | its theorems | `JobRunner`, `Extremes` |
| `RunLife` | abstract: what the workbench promises of the life of a run | - |
| `WebRuns` | loops, handlers and the reclaim timer over one client's runs; refines `RunLife` | `RunLife` (INSTANCE) |
| `WebRuns_proofs` | its theorems, the refinement among them | `WebRuns`, `TLAPS` |
| `FuturePool` | abstract: what the warm pool promises of a request | - |
| `EnginePool` | slot threads, engine processes and closers of the warm pool; refines `FuturePool` | `FuturePool` (INSTANCE) |
| `EnginePool_proofs` | its theorems | `EnginePool`, `SequenceTheorems`, `FiniteSetTheorems`, `TLAPS` |
| `AtomLedger` | balances, origins and attribution debt under loads, moves and splits | - |
| `AtomLedger_proofs` | its theorems | `AtomLedger`, `FiniteSetTheorems`, `TLAPS` |
| `MCBatchCore`, `MCBatchRunner`, `MCAtomLedger` | instances for TLC | |

**C4Endpoint.** The code recomputes its clocks from the snapshots of past hours;
the model keeps them as counters: `hours` is `melt.campaign_hour`,
`opportunity` the hours `_c4_acquisition_opportunity_hr` counts, `acquiredAt`
the index of the first snapshot at or above the temperature window, `inWindow`
and `armed` what the loop over the snapshots finds. The operators of the second
section are the values `check_endpoint` computes for the hour being closed, and
each action is one of its returns or raises, in the code's order, followed by
the snapshot the step appends (`Record`). Temperature is below, in or above the
window; the Mg rate is above, at or below its threshold, invalid or infinite;
both and the transport throttle are free in every hour.

**CampaignGraph.** `NextCampaign` and `RoutedRecord` are the two results of
`get_next_campaign`: what it returns and what it writes to the record.
`DecisionFor` is `get_decision`; `Chosen` and `ChosenRecord` are the branches of
`apply_decision`.

**BatchCore.** `phase` is where the running hour is. `BeginHour` takes the copies
a terminal refusal restores, `Physics` may commit, the three endpoint actions
are the outcomes of `_check_campaign_endpoint` with the routing that follows,
`AdvanceClock` counts the hour, `Book` appends the snapshot and completes or
pauses the batch, `StartNext` is `start_campaign`. `RefuseHour` is an exception
with `terminal_refusal`, restored; `AbortHour` any other exception, which
poisons the hour when it has committed. Both can strike in every phase in which
code that can raise is left to run. `Decide` and `DecideAborts` are
`apply_decision`, the latter with `start_campaign` raising before or after its
assignments, or the final figures of a batch the choice completes raising after them.
Between the append of the snapshot (13282) and `start_campaign` (13298) there are only
assignments, so `Book` is one step: no exception can fall inside it. The history
variable `entered` lists the campaigns started.

**BatchRunner.** `at` is where `execute_session` and the generator
`drive_session` are. `TopOfLoop` makes the executor's copies of ledger and melt
and asks the driver's stop conditions, `Advance` runs the hour of `BatchCore`
to its end, the `Judge` actions and `Conclude` are the exception handlers and
the verdict. The poison override is `PoisonWins`.

**RunStore.** One entry per run for its artifact (absent, corrupt, or the writer that
published it) and its sidecar. `save` is the sequence `Claim`, `WriteLineage`,
`Publish`, `Scan`, `Evict`, `EvictMeta`, `Saved`, each ending in one change on disk;
`Abandon` is an exception or the death of the process at any of them. `UpdateMeta` of an
unreadable artifact or sidecar raises (364-371, 400) and changes nothing, so it is no
step. Renames of damaged files may fail one by one. Runs are numbered by start time, the
order in which retention sorts them. `asked` and `rewritten` are history: the star last
asked for, and the sidecars made anew after quarantine.

**JobRunner.** Jobs carry what is on disk (meta file, marker, stored results)
and the life of each process started for them. `Popen` and `RecordLaunch` are
the two halves of `_start_job_locked`; `Refresh` settles one job, as a child
(`LiveVerdict`) or as an orphan of an earlier server (`OrphanVerdict`). The
command line is `StoreResult`, `Settle`, `SettleUnmarked`, `Exit`. `Crash`
forgets what the server holds in memory and leaves disk and processes alone.

**RunLife** says what a client may rely on: one live run at a time, ended runs
stay ended, hours only while a run is live and unreported, one report per run.

**WebRuns.** Every background loop, handler and timer is a thread; the actions are the
stretches between its lock operations. `held` is the lock of a run with the reason it is
held for, `gen` its `loop_generation`, `due` the calls of `_start_background_loop` on
their way. `Enter`, `Drive`, `EmitHour`, `Park`, `Announce`, `Leave` are the worker's
loop; parking and leaving happen without the lock, as in the code. A run is filed in
three steps, `Publish` (the artifact is in place), `Saved` and `Close`; `SaveFails` is
an exception before or after the first of them (retention follows the publication), and
tells the viewer that the run was not saved. Whoever ends a run does so: the loop, the
viewer, a replacement (`Replace`, `Register`), a disconnect whose timer does not start
(`CancelUnscheduled`), the reclaim (`ReclaimDue`, `Reclaim`). `Disconnect`,
`ReadWaiting`, `ReadExited` and `Schedule` are the handler of a closing socket with its
two unlocked reads. The session is abstracted to what it answers the loop (an hour, a
gate, complete, refused, an exception), the store to its first write winning.
`LaterFails` is a later loop whose thread does not start, `AnswerRaises` and the second
alternative of `Answered` are exceptions of `decide` and of the emission after it: each may
leave the run live without a loop. `told` and `dropped` are history: the terminal
events sent, and the runs such an exception hit.

**EnginePool.** One thread per slot (`at`), one process per spawn (`life`), pipes in
both directions (`inbox`, `outbox`). The thread's steps are `Publish`, `StillOurs`,
`Spawn`, `Spawned`, `Boot`, `Take`, `Call`, `Send`, `Await`, `Discard`, `Stop`; the
constructor's `StartThread` and `ListThread`; a close is `BeginClose`, `CancelQueue`,
`Disable`, `Tell`, `Join`, `Reap`, `Wait`, and up to three of them run at once: the
constructor's, the cleanup's and the user's, who cancels what waits ("abort":
`optimize/pool.py` 482, back ends that are closed) or not ("user"). `CancelQueue` and
`Disable` are `_request_cancel_pending`, which holds no lock: one request or sentinel of
the queue at a time, then one worker. A process answers (`Answer`) or dies (`Die`) when
it likes, and every deadline may pass at any moment.

**FuturePool** says what a caller may rely on: nothing is accepted after the close, no
more requests run than there are slots, each is settled once and for good, an answer
is the request's own, and only one that no slot has begun is cancelled, by a close that
was asked to. It does not say that requests start in order, nor that none starts once a
close cancels: between taking a request and marking it the code promises neither.

**AtomLedger.** One element in one species, in whole atoms. `held` is what the
containers say of each account per origin and of no known one, `debt` what an overdrawn
reservoir owes without attribution. The actions are an external load and a transition of
one or several lots, whose debits may name their origin; a refused transition changes
nothing, since the code projects every container before it assigns one.

## 3. The runs

| run | shows | instance | distinct states |
|---|---|---|---|
| `c4_endpoint` | C4 ends within its budgets; a refusal is neither early nor late nor for the wrong reason | limits 3 and 4 hours, holds 2 and 4 | 2,119 |
| `batch_core` | no exception makes the ledger count an hour twice or run ahead of the record; routing never loops, asks the wrong question, decides twice or skips C6; a refused C4 and a poisoned hour are final; every batch ends | 8 plans, both tracks, 5 first campaigns, 2 failures, 1 silent hour | 1.3 million |
| `batch_runner` | rollback and verdict agree with the state left behind | budgets 0 to 6 hours, with and without the stage 0 stop, 1 failure | 131,472 |
| `run_store` | lineage, stars, the first writer and the order of eviction survive two writers, deaths and damage | 3 runs, 1 kept, 1 rerun, 2 writers, 2 damaged files | 632,436 |
| `job_runner` | recorded processes are serial, success rests on results, every queued job is settled | 2 jobs, 3 processes each, 2 server crashes | 452,606 |
| `web_runs` | the workbench implements `RunLife`; a live run has somebody to drive it unless an exception cut its restart short, and then not without viewer or reclaim; what the viewer is told is stored; a run nobody views ends | 2 runs, 2 hours and 1 hour, 4 loops per run | 796,708 |
| `engine_pool` | the pool implements `FuturePool`: own answers, no cancellation nobody asked for; a close that succeeded leaves no process; accepted requests are settled | 2 slots, 2 requests, 2 processes per slot, 1 death | 831,781 |
| `atom_ledger` | no origin gains material; what nobody can attribute is counted once | 4 accounts, 4 steps, up to 3 lots | 46,431 |
| `batch_runner_typed`, `job_runner_serial`, `job_runner_certify`, `web_runs_refused` | the four disagreements below | as their passing runs | violated |

**Why the bounds are enough.**
C4: each clock reaches its limit in every order, the limits differ from each
other, so a swapped limit or an off-by-one shows; the theorems remove the bound.
Batch core: the campaign graph has at most eleven campaigns in a row, all of
which are run; two failures allow one inside the retry of an hour that already
failed, or one in each of two hours. Campaigns last one hour, two for C0, C4 and
C6, where an hour that is neither first nor last matters. `MaxSilent` bounds the
hours without a ledger transition, which differ from the others only in what
an exception does to them. The first campaigns in `Starts` reach every other
one; starting late keeps long batches with failures affordable. Run store: with one
artifact kept, three runs are the fewest in which the order of eviction of two
can be wrong and a protected run stands between them. Job runner: two jobs
make a queue, two crashes a restart during the recovery from the first. Web
runs: two runs are a replacement; two hours let a gate come before and after an
hour; four loops per run allow a loop to leave while its successor, started by an
answer or a disconnect, is on its way, twice over. A call of `_start_background_loop`
that would need more loops than `MaxLoops` waits for ever; on this instance none does,
the same states are reached without that guard. `MaxStale` bounds the threads of
a replaced run still there when the next is registered; with one of them the
safety properties hold as well (3.24 million states, checked once, not a run).
Engine pool: two slots are the fewest in which one fails to come up while the other
already runs, two processes per slot a restart, two requests a late answer that
could go to the wrong one; the two safety properties are proved without bounds.
Atom ledger: a reservoir, a terminal, and two ordinary accounts; three lots split
and merge origins, four steps overdraw, repay and draw again.

**Fairness.** `batch_core` assumes a driver that takes the next stretch of an hour when
it can and answers what it is asked: the loops of `drive_session` and of the workbench
do exactly that under AUTO_APPLY, and for an operator it is the premise of any progress.
Nothing is assumed of failures, which are bounded. `job_runner` assumes the server acts
when polled (the jobs page polls, and a dead server is restarted) and that a process
ends some day, for its budget is finite and its evaluations have timeouts; nothing is
assumed of which outcome it has. `web_runs` assumes that every thread that can run does
(loops, handlers already called, the timer); steps of one thread that exclude each other
share a condition. Nobody has to click, so a viewed run may wait at its gate for good; a
thread's sleep ends, and the run lock is free some day, for nobody keeps it.
`engine_pool` assumes it of slot threads, the constructor and the closers, and that a
waiting thread's deadline passes some day; no engine has to answer. The other runs check
safety only and assume nothing.

**Deadlock** is checked in `c4_endpoint`, `batch_runner` and `run_store`, whose
ends are explicit (`Closed`) or which never end. It is not checked in the batch
core, where a batch that is complete, refused or poisoned really stops, in
the job runner, where an empty queue waits for the next submission, in `web_runs`
and `engine_pool`, which stop when all runs have ended and the pool is closed, nor
in `atom_ledger`, which stops at `MaxSteps`. That nobody waits for ever in those is
what `ViewerlessEnds` and `FuturesSettle` say.

**Refinement.** `web_runs` checks `RunsLiveAsPromised`, which is `RunLife!Spec` under
the mapping "live is `running`, new is never launched, ended is the rest"; hours
and reports map to themselves. `engine_pool` checks `FuturesAsPromised`, which is
`FuturePool!Spec` with the slots as its capacity; futures and the two flags of the
close map to themselves. Both are proved as well.

**What the four violations show.**
1. `batch_runner_typed`: `docs/output-interpretation.md:62` says that a
   `KnudsenRegimeRefusal` escalates the run to `refused`. If the hour had already
   committed a transition when it was refused, `step` poisons it and the
   executor reports `failed`, reason `poisoned_hour`.
2. `job_runner_serial`: the "Serial W=1 launcher" starts a process before it
   records it; a server that dies between the two makes the next one start the
   job again beside the first process.
3. `job_runner_certify`: a certification has no strategy, the command line looks
   its name up before it marks success, and a certification that stored its
   result is settled FAILED.
4. `web_runs_refused`: `web/events.py:2795` calls an endpoint refusal of C4 a
   terminal refusal. The loop files such a run as refused only after it has let go
   of the run lock to send the events of the hour; a cancellation, a replacement or
   a reclaim in between asks whether the session is complete, which a refused C4 is,
   and files the run as ok (688). The loop then finds it filed and says nothing.

## 4. The proofs

`C4Endpoint_proofs` proves, for every value of the four limits that satisfies
`LimitsAssumption` (positive wall-clock limits, natural holds),

- `TypesCorrect`: `Spec => []TypeOK`,
- `HourBoundHolds`: `Spec => []HourBound`: C4 cannot run on for ever, whatever the plant does,
- `RefusedAtBudgetHolds`: `Spec => []RefusedAtBudget`,
- `WallClockTruthfulHolds`: `Spec => []WallClockTruthful`.

None of the last three is inductive: a state says how many hours were used, not
that each of them passed the guard that kept C4 running. `IndInv` adds how the
clocks nest (`ClocksNested`) and what the last guards left of each budget while
C4 runs: the two preheat budgets before arrival, the hour of arrival and the
process clock after it, and `max_hold_hr` for a melt that never left the window.
`InitIndInv`, `HourIndInv` and `NextIndInv` are the three facts of the
induction; `RecordTypes` and `RecordNests` say what every action shares. The
properties follow from `IndInv` by arithmetic.

`Batch_proofs` proves, for every set of first campaigns, every length of the
campaigns and every number of failures (`BatchAssumption`),

- `TypesCorrect`: `Spec => []TypeOK`,
- `NoHourTwiceHolds`: `Spec => []NoHourTwice`,
- `LedgerAccountedHolds`: `Spec => []LedgerAccounted`,
- `C4RefusalFinalHolds`: `Spec => []C4RefusalFinal`,
- `PoisonSticksHolds`: `Spec => PoisonSticks`.

What makes the ledger right is not visible between calls: an interrupted hour is
harmless because of what it was when it began. `IndInv` therefore relates the
running hour to the copies `step` took. `HourAhead` says the ledger is the copy or
one transition ahead of it, the snapshots are behind the booking and the clock
behind its advance, and that the copies were `Settled`: hours in order, all past,
each with its snapshot. `HourSettled` says the same of an idle batch that is not
poisoned. `SettledGrows` carries this over the end of an hour and `HourLeaves` over
every way out of one. `Pausing`, `Refusing` and `Completing` tie pause, refusal
latch and completion to the phase of the hour; they are why a poisoned batch has
nothing pending that could be answered, and so why it is never touched again.
One lemma per action proves that `IndInv` is kept; the lemmas on `CampaignGraph`
(`NextCampaignNames`, `RoutedIsRecord`, `ChosenIsRecord`, ...) say what routing and
choices may produce.

Routing is proved from a second invariant, `Courses`, on top of the first:
`AskedTheRightQuestionHolds`, `DecidedOnceHolds`, `PathKeptHolds`,
`C6NotSkippedHolds`, `NoCampaignLoopHolds`. The campaigns are ranked, C2A a second
time once C4 has run, and the campaigns entered climb the ranks (`Climbs`), so none
comes twice. A note in the record is tied to the rank reached (`NotedInTime`): a
question can be asked only at its own rank, so it cannot be answered twice; `OnPath`
and `OnBranch` do the same for path and branch. The copies a refused hour restores
are on course too, and routing a second time, after an hour that was aborted
between routing and booking, writes nothing new (`RoutedBy`, `RoutingWrites`).

Of the executor the same module proves, for every hour budget, `RTypesCorrect`,
`RolledBackTogetherHolds`, `CleanVerdictHolds` and `RefusedVerdictHolds`. Until the
verdict every step of a run is one of its batch, so `IndInv` of the core holds;
`RunInv` adds what the driver knows: between two hours the batch is neither
poisoned nor refused and every hour run is summarised (`Clean`), no hour is asked
of a paused batch (`Answered`), the copies are settled ones of the running hour
(`CopiesKept`), and what the last call returned tells whether the clock moved
(`Returned`).

`RunStore_proofs` proves, for any number of runs, writers, kept runs and damaged
files, `TypesCorrect`, `LineageFirstHolds`, `TrimmedHolds`, `StarKeptHolds`,
`OldestGoHolds` and `FirstWriteWinsHolds`. The core is that what a save has read
under the lock stays true until it releases it, whatever readers, damage and a death
of the holder do: its victims have no star, the youngest of them has as many younger
unprotected artifacts as are kept, and those that remain besides the victims are no
more than are kept. `Extremes` supplies that finite sets of numbers have the minima
and maxima retention sorts by, by well-founded inclusion.

`JobRunner_proofs` proves, for any number of jobs, processes and server crashes,
`TypesCorrect`, `RecordedSerialHolds`, `SucceededHasResultsHolds`: a recorded
process lives only while its job is RUNNING, at most one job is RUNNING or being
launched, and a marker or verdict of success is only written over stored results.

`WebRuns_proofs` proves, for any number of runs, hours and loops, `RunsLive`
(`Spec => RunsLiveAsPromised`, the refinement), `TellsTruly` (`Spec => []ToldTruly`),
`TypesHold` and `NobodyStranded` (`Spec => []NotStranded`). The first invariant says
what the holder of a run's lock has made sure of and nobody else undoes: a loop that
drives found the run live and unfiled (`Driving`), who saves or closes files it once
(`FiledOnce`), a replacement registers only when the previous run is no longer live
(`Replacing`), and only the thread of a disconnect touches its own copy of the run
(`Detaching`). `StepRefines` maps every action to a step of `RunLife` or a stutter.

`ToldTruly` says that completion and refusal are told of runs filed so, that a viewer
hears one terminal event of a run at most, and only when the run is over. It does not
say that a run reported as unsaved has no artifact: `save_artifact` publishes before
it runs retention, which may raise. `ToldInv` adds that whoever is still to tell holds
the lock of a run nobody was told of.

`NotStranded` says that a live run has somebody to drive it, or waits at a gate its
viewer can still answer, or is one of those whose answer or restart an exception cut
short (`dropped`); such a run is never left without both a viewer and the reclaim
timer. It rests on three more invariants. `SizeInv`: a loop is in "held" exactly when
it holds the lock, and numbers above the generation are unused. `MoveInv`: every live
run that was not dropped is being pushed (a loop that will come to its gate, or a
call that starts one), or stands at its gate; and a run parked at its gate is in the
care of its viewer, of its last loop on the way out, or of the handler of its closed
socket. Loop and handler look for each other without the lock; the invariant says why
whoever looks last sees the other. `BackInv`: only runs of a socket are answered,
parked, dropped or lose their viewer, and a live run that lost it has the timer, or
the handler at work that starts it, or is filed (`DroppedBacked`).

`EnginePool_proofs` proves `NoProcessLeft` (`Spec => []NoneLeft`), `AnsweredOwn` (`Spec
=> []OwnAnswer`), `TypesHold` (`Spec => []TypeOK`) and `FaresAsPromised` (`Spec =>
FuturesAsPromised`, the refinement), for any number of slots, requests, processes and
deaths. For the first: a live process is the one its worker has published, is remembered
for reaping, or is about to be stopped by the thread that made it; a close that cancels
disables every worker before it reaps, a close that waits lets all threads end. For the
second: both pipes of the current process are empty unless its thread awaits an answer,
for a call that gives up discards the process with the answer in it. For the third: a
future is running exactly while it is the job of one slot (`Working`), and the queue
holds each waiting request once (`Queued`), whoever empties it. The refinement follows,
with `SaidSo` (a close that cancels has set the flag): what a slot settles is its job,
what is cancelled comes out of the queue, and a slot that starts a request has no other
(`SlotFree`, an injection of the running requests into the slots).

`AtomLedger_proofs` proves, for any accounts, origins, amounts, loads and number of
lots, `LedgerInvariant` (`Spec => []IInv`), `NoOriginMintedHolds` and
`CountedOnceHolds`. `LedgerAssumption` asks for finitely many accounts and origins, and
that "none" and "unresolved" are not names of origins. Neither property is inductive:
scaling what is tracked to what is there mints nothing only if the balance never exceeds
it (`Covered`), and atoms that leave beyond an account's debt are new to the count only
if what the account holds of them is within its debt (`Owed`); the count is then the
sum of the debts (`Counts`). `Total` is a cardinality, so the first part of the module
proves what sums over finite sets do when one summand, or all of them in proportion,
change (`SubsetInduction` replaces the induction by a minimal counterexample).

The inductive invariants were also checked by TLC on small instances.

Every invariant the passing runs check is proved, as are the action properties
(`PoisonSticks`, `StarKept`, `OldestGo`, `FirstWriteWins`) and the refinements
`RunsLiveAsPromised` and `FuturesAsPromised`. Only model-checked: the
liveness properties `BatchEnds`, `QueueDrains`, `ViewerlessEnds` and `FuturesSettle`,
since liveness under fairness and `ENABLED` are beyond the prover. What a recursive
definition computes for all inputs is too, but no module declares a RECURSIVE operator.
The four violations are
TLC's counterexamples; nothing is proved of them.

## 5. Not modelled, and why

Numerical physics, thermodynamic back ends and search strategies: real
arithmetic is out of TLC's reach, and their effect on control is kept as
nondeterminism. Payloads, routes and reports: rendering without state. Within
modelled components:

- Endpoints other than C4's are "met after so many hours".
- Run store and job runner: the fsync of directories, process identifier reuse and
  two servers over one jobs directory are left out and listed as hazards where they
  bite.
- `WebRuns`: one client; the limit on runs over all clients (878-891) and the table
  of idempotency tokens (894 onwards) are shared by clients and left out; so are
  `adjust_parameter`, draft runs and `connected`. The sleep of a loop and
  `session.resume` are taken not to raise. The branch for a drive that returns no
  step, no pending decision and no completion (2697-2704) cannot be reached:
  `drive_session` (`session.py` 669-712) returns nothing only of a complete session or
  at an operator's decision, and the loop asks under the run lock.
  Observations that no property states, because nothing promises otherwise: an answer
  accepted between the end of an hour and the loop's parking leaves an answered run
  parked, with its loop waiting, until it is resumed; a run paused by a request that
  was on its way while its socket closed is ended by the 300 s reclaim only; an answer
  whose emission or restart raises leaves a live run without a loop, which its viewer
  can only cancel or replace; an artifact may be stored although the viewer was told
  that the run was not saved.
- `EnginePool`: `Take` gets a request and marks it in one step, and `Reap` goes over
  the workers in one: nobody else touches the request meanwhile, and what is done to one
  worker does not depend on another. Futures
  cancelled by their holder and the shared time budget of `close_all` (1016 onwards)
  are left out, as is a close with a deadline that does not cancel: no caller makes
one. Running out of time before a request is sent (506) counts as running out of it
after. `NoneLeft` excepts a thread the constructor has started but not yet
  listed when the cleanup of the interpreter closes the pool.
- `AtomLedger`: one element of one species, exact divisions only, so no tolerances;
  attribution methods, gross flows, `set_account_policy`, the rework of terminal slag
  and the authority checks of the commit are left out. Atoms that repay an overdrawn
  reservoir lose their attribution, and what is drawn anew counts as unattributed
  again; the bound `drawn` in `CountedOnce` is for that. The debits of one transition
  name the same origin or none. An account that is debited and credited at once changes
  the species of its atoms, so its gross debit has to be there; a round trip of one
  species, of which the code looks at the net only (661-665), is left out.
- The chemistry kernel's `commit_batch`: an accepted proposal is one transition of
  `AtomLedger`; dispatch and the authority checks keep nothing that outlives a call.

Most of the repository is numerical (back ends, condensation, evaluation,
objectives), rendering, or scripts: the map names a small share of its lines,
those of the control logic.

## 6. Plan

Done: C4 clock, campaign graph, batch core, executor, run store, job runner, web
runs with their abstract life cycle, engine pool with its abstract one, atom ledger;
proofs of all their safety properties. Left, in this order:

1. The C6 clock beside C4's, with the latch of its refusal.
2. `EvalPool` (worker death, serial fallback, timeouts of a batch of evaluations) and
   `ResultStore` (write lock, first-write rules, migration) of the optimizer.
3. The table of idempotency tokens and the limit on runs, over several clients.
