------------------------------ MODULE WebRuns -------------------------------
(* The runs of one browser client of the web workbench (web/events.py):     *)
(* the background loops that drive a run's session an hour at a time, the   *)
(* handlers that start, pause, resume, answer, disconnect and cancel, and   *)
(* the timer that reclaims a run nobody views. All of them are threads.     *)
(*                                                                          *)
(* A run has a lock (held); parking, leaving a loop and the schedule of the *)
(* reclaim do not take it, and happen while somebody else holds it. The     *)
(* session (BatchCore) is abstracted to what it answers to the loop, and    *)
(* the artifact store (RunStore) to its first write winning.                *)
EXTENDS Integers, FiniteSets

CONSTANTS
    MaxRuns,   \* bound: runs the client starts
    FirstHours, LaterHours, \* bounds: hours of the first and of later runs; the
               \* last one completes or refuses the run
    MaxLoops,  \* bound: loops started for one run
    MaxStale   \* bound: threads of a run still there when the next is registered

ASSUME WebAssumption ==
    /\ MaxRuns \in Nat \ {0}
    /\ FirstHours \in Nat \ {0}
    /\ LaterHours \in Nat \ {0}
    /\ MaxLoops \in Nat /\ MaxStale \in Nat

Runs == 1..MaxRuns
Loops == 1..MaxLoops
MaxHours(r) == IF r = 1 THEN FirstHours ELSE LaterHours
NoReport == [lifecycle |-> "none", status |-> "none"]
Reports == [lifecycle : {"complete"}, status : {"ok", "failed", "refused"}]
           \cup [lifecycle : {"cancelled"}, status : {"ok", "partial"}]

VARIABLES
    cur,        \* the run in _simulations, 0 for none
    owner,      \* per run: "none" before its launch, "socket" or "http"
    running, paused, waiting, exited, gone, persisted, \* runs with that flag:
                \* running, paused, decision_waiting, loop_exited,
                \* client_disconnected, artifact_persisted
    gen,        \* per run: loop_generation
    held,       \* per run: who holds its lock, and what for
    loop,       \* per run and generation: where its loop is
    due,        \* per run: calls of _start_background_loop on their way
    sess,       \* per run: what its session answers
    hours,      \* per run: hours simulated
    report,     \* per run: its artifact in the store
    told,       \* history: terminal events sent to the viewer
    dropped,    \* history: whether an exception cut short an answer to the run,
                \* or the start of a later loop of it
    starting,   \* the start handler, which holds _run_command_lock
    leaving,    \* the disconnect handler: the run, its step, what it read
    reclaim     \* per run: the reclaim timer

flags == <<running, paused, waiting, exited, gone, persisted>>
session == <<sess, hours>>
handlers == <<starting, leaving, reclaim>>
history == <<told, dropped>>
vars == <<cur, owner, flags, gen, held, loop, due, session, report, history, handlers>>

Free == [by |-> "none", g |-> 0, stage |-> "none", status |-> "none"]
Holders == {"none", "loop", "answer", "leave", "client", "start", "reclaim"}
Idle == [step |-> "none", run |-> 0, parked |-> FALSE, restart |-> FALSE]
NoStart == [step |-> "none", owner |-> "none"]
Places == {"none", "top", "held", "plain", "gate", "refusal", "stalled", "park",
           "announce", "refusing", "failing", "crashed", "leave", "over"}

TypeOK ==
    /\ cur \in 0..MaxRuns
    /\ owner \in [Runs -> {"none", "socket", "http"}]
    /\ \A S \in {running, paused, waiting, exited, gone, persisted, dropped} : S \subseteq Runs
    /\ running \subseteq {cur}
    /\ gen \in [Runs -> 0..MaxLoops]
    /\ held \in [Runs -> [by : Holders, g : 0..MaxLoops,
                          stage : {"none", "drive", "save", "published", "close", "mid"},
                          status : {"none", "ok", "failed", "refused", "partial"}]]
    /\ \A r \in Runs : \A g \in Loops :
          /\ loop[r][g] \in Places
          /\ loop[r][g] = "held" <=> held[r].by = "loop" /\ held[r].g = g
    /\ due \in [Runs -> Nat]
    /\ sess \in [Runs -> {"going", "gate", "complete", "refused"}]
    /\ hours \in [Runs -> Nat] /\ \A r \in Runs : hours[r] <= MaxHours(r)
    /\ report \in [Runs -> Reports \cup {NoReport}]
    /\ \A r \in persisted : report[r] # NoReport
    /\ told \in [Runs -> SUBSET {"complete", "refused", "error", "unsaved"}]
    /\ starting \in [step : {"none", "replace", "cancel", "register", "launch"}, owner : {"none", "socket", "http"}]
    /\ leaving \in [step : {"none", "read", "decide", "schedule", "cancel"},
                    run : 0..MaxRuns, parked : BOOLEAN, restart : BOOLEAN]
    /\ reclaim \in [Runs -> {"off", "waiting", "firing"}]

Init ==
    /\ cur = 0
    /\ owner = [r \in Runs |-> "none"]
    /\ running = {} /\ paused = {} /\ waiting = {} /\ exited = {}
    /\ gone = {} /\ persisted = {}
    /\ gen = [r \in Runs |-> 0]
    /\ held = [r \in Runs |-> Free]
    /\ loop = [r \in Runs |-> [g \in Loops |-> "none"]]
    /\ due = [r \in Runs |-> 0]
    /\ sess = [r \in Runs |-> "going"]
    /\ hours = [r \in Runs |-> 0]
    /\ report = [r \in Runs |-> NoReport]
    /\ told = [r \in Runs |-> {}] /\ dropped = {}
    /\ starting = NoStart
    /\ leaving = Idle
    /\ reclaim = [r \in Runs |-> "off"]

Unlocked(r) == held[r] = Free
Viewerless(r) == owner[r] = "http" \/ r \in gone

\* Mutant: a run that is registered is taken to be running.
LiveIfCurrent(r) == cur = r

Live(r) == cur = r /\ r \in running
IsComplete(r) == sess[r] \in {"complete", "refused"}
CommandLock == starting.step # "none" \/ leaving.step \in {"read", "decide"}

Goes(r, g, place) == loop' = [loop EXCEPT ![r][g] = place]
Takes(r, by, g, stage, status) ==
    held' = [held EXCEPT ![r] = [by |-> by, g |-> g, stage |-> stage, status |-> status]]
Releases(r) == held' = [held EXCEPT ![r] = Free]

-----------------------------------------------------------------------------
(* Ending a run, under its lock: the artifact is written, then the state is *)
(* finished and the viewer told. A run without a viewer is forgotten.       *)

\* Mutant: the state is forgotten before the run is stopped.
FinishForgets(r) ==
    /\ IF cur = r /\ Viewerless(r) /\ r \in persisted
       THEN cur' = 0 /\ UNCHANGED running
       ELSE running' = running \ (IF cur = r THEN {r} ELSE {}) /\ UNCHANGED cur
    /\ paused' = paused \ (IF cur = r THEN {r} ELSE {})

Finish(r) ==
    /\ running' = running \ (IF cur = r THEN {r} ELSE {})
    /\ paused' = paused \ (IF cur = r THEN {r} ELSE {})
    /\ cur' = IF cur = r /\ Viewerless(r) /\ r \in persisted THEN 0 ELSE cur

(* The projection of a completed run may fail, which turns its report into  *)
(* a failed one.                                                            *)
Filed(r) ==
    LET s == held[r].status IN
    IF held[r].by # "loop" THEN {[lifecycle |-> "cancelled", status |-> s]}
    ELSE {[lifecycle |-> "complete", status |-> t] :
             t \in {s} \cup (IF s = "ok" THEN {"failed"} ELSE {})}

(* The artifact is in place, the call that placed it has not returned yet.  *)
Publish(r) ==
    /\ held[r].stage = "save"
    /\ report[r] = NoReport
    /\ \E rep \in Filed(r) : report' = [report EXCEPT ![r] = rep]
    /\ held' = [held EXCEPT ![r].stage = "published"]
    /\ UNCHANGED <<cur, owner, flags, gen, loop, due, session, history, handlers>>

Saved(r) ==
    /\ held[r].stage = "published"
    /\ persisted' = persisted \cup {r}
    /\ held' = [held EXCEPT ![r].stage = "close"]
    /\ UNCHANGED <<cur, owner, running, paused, waiting, exited, gone, gen,
                   loop, due, session, report, history, handlers>>

(* What follows for the thread that held the lock: a loop is left, a start  *)
(* goes on or is rejected, a disconnect whose timer did not start raises.   *)
HolderGoesOn(r, saved) ==
    LET by == held[r].by IN
    /\ loop' = IF by = "loop" THEN [loop EXCEPT ![r][held[r].g] = "leave"] ELSE loop
    /\ starting' = IF by # "start" THEN starting
                   ELSE IF saved THEN [starting EXCEPT !.step = "register"] ELSE NoStart
    /\ leaving' = IF by = "leave" THEN Idle ELSE leaving
    /\ reclaim' = IF by = "reclaim" THEN [reclaim EXCEPT ![r] = "off"] ELSE reclaim
    /\ Releases(r)

(* Any exception on the way, or an artifact already there. The viewer is    *)
(* told that the run was not saved, and it ends all the same; the exception *)
(* may come from the retention that follows the publication of the artifact.*)
SaveFails(r) ==
    /\ held[r].stage \in {"save", "published"}
    /\ Finish(r)
    /\ told' = IF cur = r THEN [told EXCEPT ![r] = @ \cup {"unsaved"}] ELSE told
    /\ HolderGoesOn(r, FALSE)
    /\ UNCHANGED <<owner, waiting, exited, gone, persisted, gen, due, session, report, dropped>>

(* The terminal event of a loop follows the stored verdict; when sending    *)
(* the completion fails, an error is sent. A cancellation sends none.       *)
Verdict(r) ==
    CASE held[r].status = "refused" -> {"refused"}
      [] held[r].status # "refused" /\ report[r].status = "ok" -> {"complete", "error"}
      [] OTHER                      -> {"error"}

Close(r) ==
    /\ held[r].stage = "close"
    /\ Finish(r)
    /\ IF held[r].by = "loop" /\ cur = r
       THEN \E e \in Verdict(r) : told' = [told EXCEPT ![r] = @ \cup {e}]
       ELSE UNCHANGED told
    /\ HolderGoesOn(r, TRUE)
    /\ UNCHANGED <<owner, waiting, exited, gone, persisted, gen, due, session, report, dropped>>

End(r) == Publish(r) \/ Saved(r) \/ SaveFails(r) \/ Close(r)

\* Mutant: nobody looks whether the run is filed.
CancelFiled(r, by) ==
    /\ Unlocked(r)
    /\ Takes(r, by, 0, "save", IF IsComplete(r) THEN "ok" ELSE "partial")
    /\ UNCHANGED <<cur, running, paused>>

(* A cancellation takes the lock and files the run unless it is filed.      *)
CancelUnder(r, by) ==
    /\ Unlocked(r)
    /\ IF r \in persisted
       THEN Finish(r) /\ UNCHANGED held
       ELSE /\ Takes(r, by, 0, "save", IF IsComplete(r) THEN "ok" ELSE "partial")
            /\ UNCHANGED <<cur, running, paused>>

-----------------------------------------------------------------------------
(* A background loop                                                        *)

(* POST /runs starts the first loop of its run under the command lock.      *)
LaunchOver(r) ==
    starting' = IF starting.step = "launch" /\ owner[r] = "http" THEN NoStart ELSE starting

(* The thread of a later loop may fail to start: the run stays as it is,    *)
(* without one. (For the first loop see LaunchFails.)                       *)
LaterFails(r) ==
    /\ gen[r] > 0
    /\ Goes(r, gen[r] + 1, "over")
    /\ exited' = exited \cup {r}
    /\ dropped' = dropped \cup {r}

(* _start_background_loop, called by some handler or loop before.           *)
StartLoop(r) ==
    /\ due[r] > 0
    /\ due' = [due EXCEPT ![r] = @ - 1]
    /\ \/ /\ cur # r
          /\ UNCHANGED <<gen, exited, loop, dropped>>
       \/ /\ cur = r /\ gen[r] < MaxLoops
          /\ gen' = [gen EXCEPT ![r] = @ + 1]
          /\ \/ /\ Goes(r, gen[r] + 1, "top")
                /\ exited' = exited \ {r}
                /\ UNCHANGED dropped
             \/ LaterFails(r)
    /\ LaunchOver(r)
    /\ UNCHANGED <<cur, owner, running, paused, waiting, gone, persisted, held,
                   session, report, told, leaving, reclaim>>

(* A paused run is waited for; one that ended or was replaced is left.      *)
Enter(r, g) ==
    /\ loop[r][g] = "top"
    /\ Unlocked(r)
    /\ \/ ~Live(r) /\ Goes(r, g, "leave") /\ UNCHANGED held
       \/ /\ Live(r) /\ r \notin paused
          /\ Goes(r, g, "held")
          /\ Takes(r, "loop", g, "drive", "none")
    /\ UNCHANGED <<cur, owner, flags, gen, due, session, report, history, handlers>>

HoldsToDrive(r, g) == loop[r][g] = "held" /\ held[r].stage = "drive"

(* A complete session is filed, as failed if its payload raises.            *)
Complete(r, g) ==
    /\ HoldsToDrive(r, g)
    /\ IsComplete(r)
    /\ \E s \in {"ok", "failed"} : Takes(r, "loop", g, "save", s)
    /\ UNCHANGED <<cur, owner, flags, gen, loop, due, session, report, history, handlers>>

(* drive_session: nothing at an operator's gate; a gate nobody views is     *)
(* answered, which may complete the batch; then an hour is simulated.       *)
Drive(r, g) ==
    /\ HoldsToDrive(r, g)
    /\ ~IsComplete(r)
    /\ Releases(r)
    /\ \/ /\ sess[r] = "gate"
          /\ \/ ~Viewerless(r) /\ UNCHANGED sess
             \/ Viewerless(r) /\ sess' = [sess EXCEPT ![r] = "complete"]
          /\ Goes(r, g, "stalled")
          /\ UNCHANGED hours
       \/ /\ sess[r] = "gate" => Viewerless(r)
          /\ hours' = [hours EXCEPT ![r] = @ + 1]
          /\ \E s \in {"complete", "refused"}
                 \cup (IF hours'[r] < MaxHours(r) THEN {"going", "gate"} ELSE {}) :
                /\ sess' = [sess EXCEPT ![r] = s]
                /\ Goes(r, g, CASE s = "gate"    -> "gate"
                                [] s = "refused" -> "refusal"
                                [] OTHER         -> "plain")
    /\ UNCHANGED <<cur, owner, flags, gen, due, report, history, handlers>>

(* A typed refusal, or any exception.                                       *)
DriveRaises(r, g) ==
    /\ HoldsToDrive(r, g)
    /\ ~IsComplete(r)
    /\ \E s \in {"refused", "failed"} : Takes(r, "loop", g, "save", s)
    /\ UNCHANGED <<cur, owner, flags, gen, loop, due, session, report, history, handlers>>

(* The hour's events, sent without the lock held over from the hour.        *)
EmitHour(r, g) ==
    /\ loop[r][g] \in {"plain", "gate", "refusal"}
    /\ Unlocked(r)
    /\ \/ ~Live(r) /\ Goes(r, g, "leave")
       \/ /\ Live(r)
          /\ \/ Goes(r, g, "failing")
             \/ Goes(r, g, CASE loop[r][g] = "gate"    -> "park"
                             [] loop[r][g] = "refusal" -> "refusing"
                             [] OTHER                  -> "top")
    /\ UNCHANGED <<cur, owner, flags, gen, held, due, session, report, history, handlers>>

Stall(r, g) ==
    /\ loop[r][g] = "stalled"
    /\ Goes(r, g, IF IsComplete(r) THEN "top" ELSE "park")
    /\ UNCHANGED <<cur, owner, flags, gen, held, due, session, report, history, handlers>>

(* At a gate the run is parked, unless nobody views it. Not under its lock. *)
Park(r, g) ==
    /\ loop[r][g] = "park"
    /\ \/ ~Live(r) /\ Goes(r, g, "leave") /\ UNCHANGED <<paused, waiting>>
       \/ /\ Live(r) /\ Viewerless(r)
          /\ paused' = paused \ {r}
          /\ Goes(r, g, "top")
          /\ UNCHANGED waiting
       \/ /\ Live(r) /\ ~Viewerless(r)
          /\ paused' = paused \cup {r}
          /\ waiting' = waiting \cup {r}
          /\ Goes(r, g, "announce")
    /\ UNCHANGED <<cur, owner, running, exited, gone, persisted, gen, held, due,
                   session, report, history, handlers>>

(* decision_required; an exception here is a crash of the worker.           *)
Announce(r, g) ==
    /\ loop[r][g] = "announce"
    /\ Unlocked(r)
    /\ Goes(r, g, "leave") \/ (Live(r) /\ Goes(r, g, "crashed"))
    /\ UNCHANGED <<cur, owner, flags, gen, held, due, session, report, history, handlers>>

(* A loop that ends its run takes the lock anew and looks again.            *)
Ends(r, g, still, status) ==
    /\ Unlocked(r)
    /\ IF Live(r) /\ r \notin persisted /\ still
       THEN Takes(r, "loop", g, "save", status) /\ Goes(r, g, "held")
       ELSE Goes(r, g, "leave") /\ UNCHANGED held
    /\ UNCHANGED <<cur, owner, flags, gen, due, session, report, history, handlers>>

(* A campaign of the hour was refused for good.                             *)
Refuse(r, g) == loop[r][g] = "refusing" /\ Ends(r, g, TRUE, "refused")

(* stop_for_failure and reconcile_worker_crash, which only ends the run of  *)
(* the last loop.                                                           *)
Stop(r, g) ==
    \/ loop[r][g] = "failing" /\ Ends(r, g, TRUE, "failed")
    \/ loop[r][g] = "crashed" /\ Ends(r, g, gen[r] = g, "failed")

\* Mutant: only HTTP runs are restarted.
TakesOverHttp(r) == r \in running /\ r \in waiting /\ owner[r] = "http"

TakesOver(r) == r \in running /\ r \in waiting /\ Viewerless(r)

(* The end of run_task: when the viewer left while the run was parked, the  *)
(* last loop starts the next one.                                           *)
Leave(r, g) ==
    /\ loop[r][g] = "leave"
    /\ Goes(r, g, "over")
    /\ IF cur = r /\ gen[r] = g
       THEN /\ exited' = exited \cup {r}
            /\ IF TakesOver(r)
               THEN /\ waiting' = waiting \ {r}
                    /\ paused' = paused \ {r}
                    /\ due' = [due EXCEPT ![r] = @ + 1]
               ELSE UNCHANGED <<waiting, paused, due>>
       ELSE UNCHANGED <<exited, waiting, paused, due>>
    /\ UNCHANGED <<cur, owner, running, gone, persisted, gen, held, session,
                   report, history, handlers>>

LoopStep(r, g) ==
    \/ Enter(r, g) \/ Complete(r, g) \/ Drive(r, g) \/ DriveRaises(r, g)
    \/ EmitHour(r, g) \/ Stall(r, g) \/ Park(r, g) \/ Announce(r, g)
    \/ Refuse(r, g) \/ Stop(r, g) \/ Leave(r, g)

-----------------------------------------------------------------------------
(* Handlers. Those of the viewer act on a run started from its socket, also *)
(* when they were on their way as it closed.                                *)

(* make_decision, in two steps of which parking may come in between. The    *)
(* session may raise with the decision half taken (DecideAborts of          *)
(* BatchCore), and telling the viewer may raise before the loop is started. *)
Answer(r) ==
    /\ Unlocked(r) /\ Live(r) /\ owner[r] = "socket"
    /\ sess[r] = "gate"
    /\ \E s \in {"going", "complete"} : sess' = [sess EXCEPT ![r] = s]
    /\ paused' = paused \ {r}
    /\ Takes(r, "answer", 0, "mid", "none")
    /\ UNCHANGED <<cur, owner, running, waiting, exited, gone, persisted, gen,
                   loop, due, hours, report, history, handlers>>

AnswerRaises(r) ==
    /\ Unlocked(r) /\ Live(r) /\ owner[r] = "socket"
    /\ sess[r] = "gate"
    /\ \E s \in {"going", "complete"} : sess' = [sess EXCEPT ![r] = s]
    /\ dropped' = dropped \cup {r}
    /\ UNCHANGED <<cur, owner, flags, gen, held, loop, due, hours, report, told,
                   handlers>>

Answered(r) ==
    /\ held[r].by = "answer"
    /\ waiting' = waiting \ {r}
    /\ Releases(r)
    /\ \/ due' = [due EXCEPT ![r] = @ + 1] /\ UNCHANGED dropped
       \/ dropped' = dropped \cup {r} /\ UNCHANGED due
    /\ UNCHANGED <<cur, owner, running, paused, exited, gone, persisted, gen,
                   loop, session, report, told, handlers>>

PauseOrResume(r) ==
    /\ Unlocked(r) /\ Live(r) /\ owner[r] = "socket"
    /\ paused' \in {paused \cup {r}, paused \ {r}}
    /\ UNCHANGED <<cur, owner, running, waiting, exited, gone, persisted, gen,
                   held, loop, due, session, report, history, handlers>>

ClientCancel(r) ==
    /\ cur = r
    /\ CancelUnder(r, "client")
    /\ UNCHANGED <<owner, waiting, exited, gone, persisted, gen, loop, due,
                   session, report, history, handlers>>

(* The socket of the run closes (one that comes back has another sid, and   *)
(* no run): under the command lock and the lock of the run. The flags       *)
(* decision_waiting and loop_exited are read one after the other, without   *)
(* the lock that a loop leaves under.                                       *)
Disconnect ==
    /\ ~CommandLock /\ leaving = Idle
    /\ cur # 0 /\ owner[cur] = "socket" /\ cur \notin gone
    /\ Unlocked(cur)
    /\ gone' = gone \cup {cur}
    /\ paused' = paused \ {cur}
    /\ IF cur \in persisted
       THEN /\ cur' = 0
            /\ running' = running \ {cur}
            /\ UNCHANGED <<held, leaving>>
       ELSE /\ Takes(cur, "leave", 0, "mid", "none")
            /\ leaving' = [Idle EXCEPT !.step = "read", !.run = cur]
            /\ UNCHANGED <<cur, running>>
    /\ UNCHANGED <<owner, waiting, exited, persisted, gen, loop, due, session,
                   report, history, starting, reclaim>>

ReadWaiting ==
    /\ leaving.step = "read"
    /\ leaving' = [leaving EXCEPT !.step = "decide", !.parked = leaving.run \in waiting]
    /\ UNCHANGED <<cur, owner, flags, gen, held, loop, due, session, report, history,
                   starting, reclaim>>

ReadExited ==
    LET r == leaving.run
        restart == leaving.parked /\ r \in exited IN
    /\ leaving.step = "decide"
    /\ waiting' = IF restart THEN waiting \ {r} ELSE waiting
    /\ leaving' = [leaving EXCEPT !.step = "schedule", !.restart = restart]
    /\ Releases(r)
    /\ UNCHANGED <<cur, owner, running, paused, exited, gone, persisted, gen, loop,
                   due, session, report, history, starting, reclaim>>

\* Mutant: a paused run is not reclaimed.
ReclaimableUnpaused(r) == Live(r) /\ r \notin persisted /\ r \notin paused

Reclaimable(r) == Live(r) /\ r \notin persisted

(* The reclaim timer is started, and the loop if it is this handler's turn. *)
(* If the timer does not start, the run is cancelled at once.               *)
Schedule ==
    LET r == leaving.run IN
    /\ leaving.step = "schedule"
    /\ \/ /\ reclaim' = IF Reclaimable(r) /\ reclaim[r] = "off"
                        THEN [reclaim EXCEPT ![r] = "waiting"] ELSE reclaim
          /\ due' = IF leaving.restart THEN [due EXCEPT ![r] = @ + 1] ELSE due
          /\ leaving' = Idle
       \/ /\ Reclaimable(r)
          /\ leaving' = [leaving EXCEPT !.step = "cancel"]
          /\ UNCHANGED <<reclaim, due>>
    /\ UNCHANGED <<cur, owner, flags, gen, held, loop, session, report, history,
                   starting>>

CancelUnscheduled ==
    LET r == leaving.run IN
    /\ leaving.step = "cancel"
    /\ held[r].by # "leave"
    /\ IF cur # r
       THEN leaving' = Idle /\ UNCHANGED <<cur, running, paused, held>>
       ELSE /\ CancelUnder(r, "leave")
            /\ leaving' = IF r \in persisted THEN Idle ELSE leaving
    /\ UNCHANGED <<owner, waiting, exited, gone, persisted, gen, loop, due,
                   session, report, history, starting, reclaim>>

(* The timer looks whether the run goes on still, then cancels it.          *)
ReclaimDue(r) ==
    /\ reclaim[r] = "waiting"
    /\ reclaim' = [reclaim EXCEPT ![r] =
                     IF Reclaimable(r) THEN "firing" ELSE "off"]
    /\ UNCHANGED <<cur, owner, flags, gen, held, loop, due, session, report, history,
                   starting, leaving>>

Reclaim(r) ==
    /\ reclaim[r] = "firing"
    /\ held[r].by # "reclaim"
    /\ IF cur # r
       THEN /\ reclaim' = [reclaim EXCEPT ![r] = "off"]
            /\ UNCHANGED <<cur, running, paused, held>>
       ELSE /\ CancelUnder(r, "reclaim")
            /\ reclaim' = IF r \in persisted THEN [reclaim EXCEPT ![r] = "off"] ELSE reclaim
    /\ UNCHANGED <<owner, waiting, exited, gone, persisted, gen, loop, due,
                   session, report, history, starting, leaving>>

-----------------------------------------------------------------------------
(* start_simulation and POST /runs, under the command lock: the client's    *)
(* run is cancelled, the new one registered, and its loop started.          *)

Start(o) ==
    /\ ~CommandLock
    /\ \E r \in Runs : owner[r] = "none"
    /\ starting' = [step |-> IF cur = 0 THEN "register" ELSE "replace", owner |-> o]
    /\ UNCHANGED <<cur, owner, flags, gen, held, loop, due, session, report, history,
                   leaving, reclaim>>

Replace ==
    /\ starting.step = "replace"
    /\ IF cur = 0
       THEN /\ starting' = [starting EXCEPT !.step = "register"]
            /\ UNCHANGED <<cur, running, paused, held>>
       ELSE /\ CancelUnder(cur, "start")
            /\ starting' = [starting EXCEPT
                              !.step = IF cur \in persisted THEN "register" ELSE "cancel"]
    /\ UNCHANGED <<owner, waiting, exited, gone, persisted, gen, loop, due,
                   session, report, history, leaving, reclaim>>

Stale(r) ==
    due[r] + Cardinality({g \in Loops : loop[r][g] \notin {"none", "over"}})
           + Cardinality({t \in {"timer"} : reclaim[r] # "off"})
           + Cardinality({t \in {"leave"} : leaving.run = r})

(* The state of the run is a new one, with none of its flags set.           *)
Register ==
    /\ starting.step = "register"
    /\ \A r \in Runs : Stale(r) <= MaxStale
    /\ cur # 0 => Unlocked(cur)
    /\ \E r \in Runs :
          /\ owner[r] = "none" /\ \A q \in Runs : q < r => owner[q] # "none"
          /\ cur' = r
          /\ owner' = [owner EXCEPT ![r] = starting.owner]
          /\ running' = {r}
          /\ due' = [due EXCEPT ![r] = @ + 1]
    /\ starting' = IF starting.owner = "http"
                   THEN [starting EXCEPT !.step = "launch"] ELSE NoStart
    /\ paused' = {} /\ waiting' = {} /\ exited' = {} /\ gone' = {} /\ dropped' = {}
    /\ UNCHANGED <<persisted, gen, held, loop, session, report, told, leaving,
                   reclaim>>

(* Between registration and the first loop anything may raise: the run is   *)
(* dropped, and leaves no report.                                           *)
LaunchFails(r) ==
    /\ due[r] > 0 /\ gen[r] = 0
    /\ due' = [due EXCEPT ![r] = @ - 1]
    /\ cur' = IF cur = r THEN 0 ELSE cur
    /\ running' = IF cur = r THEN running \ {r} ELSE running
    /\ LaunchOver(r)
    /\ UNCHANGED <<owner, paused, waiting, exited, gone, persisted, gen, held, loop,
                   session, report, history, leaving, reclaim>>

Client ==
    \/ \E r \in Runs : \/ Answer(r) \/ AnswerRaises(r)
                       \/ PauseOrResume(r) \/ ClientCancel(r)
    \/ \E o \in {"socket", "http"} : Start(o)
    \/ Disconnect

Server(r) == StartLoop(r) \/ Answered(r) \/ ReclaimDue(r) \/ Reclaim(r)

StartStep == Replace \/ Register
LeaveStep == ReadWaiting \/ ReadExited \/ Schedule \/ CancelUnscheduled

Next ==
    \/ Client \/ StartStep \/ LeaveStep
    \/ \E r \in Runs : End(r) \/ Server(r) \/ LaunchFails(r)
    \/ \E r \in Runs, g \in Loops : LoopStep(r, g)

(* Every thread that can run does; nobody has to click. The steps that      *)
(* share a condition here are steps of one thread, one after the other.     *)
Fairness ==
    /\ WF_vars(StartStep) /\ WF_vars(LeaveStep)
    /\ \A r \in Runs : /\ WF_vars(End(r) \/ Answered(r))
                       /\ WF_vars(StartLoop(r))
                       /\ WF_vars(ReclaimDue(r) \/ Reclaim(r))
    /\ \A r \in Runs, g \in Loops : WF_vars(LoopStep(r, g))

Spec == Init /\ [][Next]_vars /\ Fairness

-----------------------------------------------------------------------------
(* The runs live as RunLife promises, whoever cancels, completes, replaces  *)
(* or reclaims them (web/events.py 554, 674, 760): one at a time, each      *)
(* filed once, and not an hour simulated after that.                        *)
Life == INSTANCE RunLife WITH
    phase <- [r \in Runs |-> IF r \in running THEN "live"
                             ELSE IF owner[r] = "none" THEN "new" ELSE "ended"]

RunsLiveAsPromised == Life!Spec

(* A live run has somebody to drive it: a loop, or a call that is about to  *)
(* start one; or it waits at a gate its viewer can still answer. Nobody     *)
(* else starts a loop, whichever way parking, answering, disconnecting and  *)
(* leaving the loop fall (web/events.py 831, 2857, 2924). Only an exception *)
(* on the way to a restart (2939, 3613, 3632) leaves a live run to itself,  *)
(* and then its viewer can end it, or the reclaim timer will.               *)
Driven(r) ==
    \/ due[r] > 0
    \/ held[r] # Free
    \/ leaving.run = r /\ leaving.step # "none"
    \/ \E g \in Loops : loop[r][g] \notin {"none", "over"}

AwaitsViewer(r) == sess[r] = "gate" /\ r \in waiting /\ ~Viewerless(r)

NotStranded ==
    \A r \in running :
        \/ Driven(r) \/ AwaitsViewer(r)
        \/ r \in dropped /\ (Viewerless(r) => reclaim[r] # "off")

(* The viewer is told what is stored, and told once: completion and refusal *)
(* only of runs filed so, and nothing more of a run that was given up as    *)
(* unsaved, which is over. (An artifact may be there all the same, if the   *)
(* exception came after it was published, or a later cancellation files it.)*)
ToldTruly ==
    \A r \in Runs :
       /\ "complete" \in told[r] => report[r] = [lifecycle |-> "complete", status |-> "ok"]
       /\ "refused" \in told[r] => report[r] = [lifecycle |-> "complete", status |-> "refused"]
       /\ \A d, e \in told[r] : d = e
       /\ told[r] # {} => r \notin running

(* A run without a viewer ends: an HTTP run by itself, one whose socket     *)
(* closed by itself or by the reclaim, wherever its loop was just then.     *)
ViewerlessEnds ==
    \A r \in Runs : (r \in running /\ Viewerless(r)) ~> r \notin running

(* A batch refused for good at C4 (web/events.py 2795: "endpoint refusal is *)
(* NON-RESUMABLE terminal") is not filed as ok.                             *)
RefusedNotOk == \A r \in Runs : sess[r] = "refused" => report[r].status # "ok"
=============================================================================
