----------------------------- MODULE JobRunner ------------------------------
(* The optimizer's launch plane: a queue of jobs kept on disk, one meta     *)
(* file per job, and the web server's runner that starts one command-line   *)
(* study at a time and settles it from its exit code, its result store and  *)
(* its status marker (optimize/job_runner.py); and that command line        *)
(* (optimize/cli.py). The server may die at any moment; the studies it      *)
(* started live on and are orphans of the next server.                      *)
(*                                                                          *)
(* Jobs are numbered in the order they are submitted. A job that is started *)
(* again has a second process: attempts number them.                        *)
EXTENDS Integers, FiniteSets, FiniteSetsExt

CONSTANTS
    NJobs,        \* bound: jobs submitted
    MaxAttempts,  \* bound: processes started for one job
    MaxCrashes    \* bound: deaths of the server

ASSUME JobAssumption ==
    /\ NJobs \in Nat
    /\ MaxCrashes \in Nat
    /\ MaxAttempts \in Nat /\ MaxAttempts > MaxCrashes

Jobs == 1..NJobs
Attempts == 1..MaxAttempts
Success == {"SUCCEEDED", "completed-no-feasible-winner"}
Terminal == Success \cup {"FAILED"}

VARIABLES
    status,    \* per job: "status" of its meta file; "none" if not submitted
    kind,      \* per job: a study, or the certification of a stored result
    pid,       \* per job: the attempt its meta file names, 0 for None
    marker,    \* per job: job_status.json in its directory, or "none"
    results,   \* jobs whose cache.sqlite holds a result
    proc,      \* per job: the life of each attempt
    up,        \* the server runs
    handles,   \* jobs this server holds a Popen object for
    launched,  \* the job started but not yet recorded, 0 for none
    todo,      \* jobs a refresh has still to look at
    pump,      \* the operation under way ends by pumping the queue
    crashes,   \* deaths so far
    done       \* history: jobs whose search returned, and were not killed then

vars == <<status, kind, pid, marker, results, proc, up, handles, launched,
          todo, pump, crashes, done>>

(* Exit codes: 0, or any other.                                             *)
Lives == {"unborn", "searching", "settled", "exit0", "exit1"}
Alive(j, a) == proc[j][a] \in {"searching", "settled"}

TypeOK ==
    /\ status \in [Jobs -> {"none", "QUEUED", "RUNNING"} \cup Terminal]
    /\ kind \in [Jobs -> {"study", "certify"}]
    /\ pid \in [Jobs -> 0..MaxAttempts]
    /\ \A j \in Jobs : status[j] = "RUNNING" => pid[j] # 0
    /\ marker \in [Jobs -> {"none", "FAILED"} \cup Success]
    /\ results \subseteq Jobs
    /\ proc \in [Jobs -> [Attempts -> Lives]]
    /\ up \in BOOLEAN /\ pump \in BOOLEAN
    /\ handles \subseteq {j \in Jobs : status[j] = "RUNNING"}
    /\ launched \in 0..NJobs
    /\ todo \subseteq Jobs
    /\ crashes \in 0..MaxCrashes
    /\ done \subseteq Jobs

Init ==
    /\ status = [j \in Jobs |-> "none"]
    /\ kind = [j \in Jobs |-> "study"]
    /\ pid = [j \in Jobs |-> 0]
    /\ marker = [j \in Jobs |-> "none"]
    /\ results = {}
    /\ proc = [j \in Jobs |-> [a \in Attempts |-> "unborn"]]
    /\ up = TRUE
    /\ handles = {}
    /\ launched = 0
    /\ todo = {}
    /\ pump = FALSE
    /\ crashes = 0
    /\ done = {}

With(S) == {j \in Jobs : status[j] \in S}

-----------------------------------------------------------------------------
(* The command line (optimize/cli.py main)                                  *)

Goes(j, a, life) == proc' = [proc EXCEPT ![j][a] = life]

(* The search stores what it finds ...                                      *)
StoreResult(j, a) ==
    /\ proc[j][a] = "searching"
    /\ results' = results \cup {j}
    /\ UNCHANGED <<status, kind, pid, marker, proc, up, handles, launched,
                   todo, pump, crashes, done>>

(* ... and fails with an error the command line reports, or succeeds. Then  *)
(* it prints the name of the strategy. A certification has none: looking it *)
(* up raises, and the process exits before it marks its success.            *)
Settle(j, a) ==
    /\ proc[j][a] = "searching"
    /\ \/ /\ marker' = [marker EXCEPT ![j] = "FAILED"]
          /\ Goes(j, a, "exit1")
          /\ UNCHANGED done
       \/ /\ kind[j] = "study"
          /\ \E s \in Success : marker' = [marker EXCEPT ![j] = s]
          /\ Goes(j, a, "settled")
          /\ done' = done \cup {j}
       \/ /\ kind[j] = "certify"
          /\ Goes(j, a, "exit1")
          /\ done' = done \cup {j}
          /\ UNCHANGED marker
    /\ UNCHANGED <<status, kind, pid, results, up, handles, launched,
                   todo, pump, crashes>>

(* An error writing the marker is swallowed, and a killed or broken process *)
(* writes none.                                                             *)
SettleUnmarked(j, a) ==
    /\ proc[j][a] = "searching"
    /\ \/ Goes(j, a, "exit1")
       \/ kind[j] = "study" /\ Goes(j, a, "exit0")
    /\ UNCHANGED <<status, kind, pid, marker, results, up, handles, launched,
                   todo, pump, crashes, done>>

(* The end of the process, by itself or by a kill.                          *)
Exit(j, a) ==
    /\ proc[j][a] = "settled"
    /\ \/ Goes(j, a, "exit0") /\ UNCHANGED done
       \/ Goes(j, a, "exit1") /\ done' = done \ {j}
    /\ UNCHANGED <<status, kind, pid, marker, results, up, handles, launched,
                   todo, pump, crashes>>

Cli(j, a) == StoreResult(j, a) \/ Settle(j, a) \/ SettleUnmarked(j, a) \/ Exit(j, a)

-----------------------------------------------------------------------------
(* The runner                                                               *)

Idle == up /\ launched = 0 /\ todo = {} /\ ~pump

(* get_runner, list_jobs, get_job: refresh what runs, then pump the queue.  *)
Poll ==
    /\ Idle
    /\ With({"QUEUED", "RUNNING"}) # {}
    /\ todo' = With({"RUNNING"})
    /\ pump' = TRUE
    /\ UNCHANGED <<status, kind, pid, marker, results, proc, up, handles,
                   launched, crashes, done>>

(* submit: the meta file is written QUEUED, then the queue is pumped.       *)
Submit(k) ==
    /\ Idle
    /\ With({"none"}) # {}
    /\ LET j == Min(With({"none"}))
       IN  /\ status' = [status EXCEPT ![j] = "QUEUED"]
           /\ kind' = [kind EXCEPT ![j] = k]
    /\ pump' = TRUE
    /\ UNCHANGED <<pid, marker, results, proc, up, handles, launched, todo, crashes, done>>

(* _complete_job_locked: the verdict on a child of this server.             *)
LiveVerdict(j) ==
    CASE marker[j] = "FAILED"                               -> "FAILED"
      [] marker[j] # "FAILED" /\ proc[j][pid[j]] = "exit1"  -> "FAILED"
      [] marker[j] # "FAILED" /\ proc[j][pid[j]] = "exit0" ->
           IF j \notin results THEN "FAILED"
           ELSE IF marker[j] \in Success THEN marker[j] ELSE "SUCCEEDED"

(* The verdict on an orphan of an earlier server (_refresh_locked).         *)
OrphanVerdictByMarker(j) == IF marker[j] = "none" THEN "FAILED" ELSE marker[j]
OrphanVerdict(j) ==
    CASE marker[j] = "none"                           -> "FAILED"
      [] marker[j] = "SUCCEEDED" /\ j \notin results  -> "FAILED"
      [] marker[j] = "SUCCEEDED" /\ j \in results     -> "SUCCEEDED"
      [] OTHER                                        -> marker[j]

(* process.poll() of a child, os.kill(pid, 0) of an orphan.                 *)
HandleOnly(j) == j \in handles /\ Alive(j, pid[j])
OrphansForever(j) == j \notin handles \/ Alive(j, pid[j])
StillRuns(j) == Alive(j, pid[j])

HandleKept(j) == handles
WithoutHandle(j) == handles \ {j}

(* One job of a refresh. The live path polls first, an orphan's verdict     *)
(* needs no exit code.                                                      *)
Refresh(j) ==
    /\ up
    /\ j \in todo
    /\ todo' = todo \ {j}
    /\ IF StillRuns(j)
         THEN UNCHANGED <<status, handles>>
         ELSE /\ status' = [status EXCEPT ![j] = IF j \in handles THEN LiveVerdict(j)
                                                 ELSE OrphanVerdict(j)]
              /\ handles' = WithoutHandle(j)
    /\ UNCHANGED <<kind, pid, marker, results, proc, up, launched, pump, crashes, done>>

PumpDone ==
    /\ up /\ pump /\ todo = {}
    /\ With({"RUNNING"}) # {} \/ With({"QUEUED"}) = {}
    /\ pump' = FALSE
    /\ UNCHANGED <<status, kind, pid, marker, results, proc, up, handles,
                   launched, todo, crashes, done>>

(* _start_job_locked on the oldest queued job: Popen, and when that has     *)
(* returned the pid and the status go to disk.                              *)
Popen ==
    /\ up /\ pump /\ todo = {}
    /\ With({"RUNNING"}) = {}
    /\ With({"QUEUED"}) # {}
    /\ LET j == Min(With({"QUEUED"}))
       IN \/ \E a \in Attempts :
               /\ proc[j][a] = "unborn"
               /\ \A b \in 1..(a - 1) : proc[j][b] # "unborn"
               /\ Goes(j, a, "searching")
               /\ launched' = j
               /\ UNCHANGED status
          \/ /\ status' = [status EXCEPT ![j] = "FAILED"]
             /\ UNCHANGED <<proc, launched>>
    /\ pump' = FALSE
    /\ UNCHANGED <<kind, pid, marker, results, up, handles, todo, crashes, done>>

Newest(j) == Max({a \in Attempts : proc[j][a] # "unborn"})

RecordLaunch ==
    /\ up
    /\ launched # 0
    /\ status' = [status EXCEPT ![launched] = "RUNNING"]
    /\ pid' = [pid EXCEPT ![launched] = Newest(launched)]
    /\ handles' = handles \cup {launched}
    /\ launched' = 0
    /\ UNCHANGED <<kind, marker, results, proc, up, todo, pump, crashes, done>>

(* The server dies, its children live on; the next one reads the meta files *)
(* when it is first asked.                                                  *)
Crash ==
    /\ up
    /\ crashes < MaxCrashes
    /\ crashes' = crashes + 1
    /\ up' = FALSE
    /\ handles' = {} /\ launched' = 0 /\ todo' = {} /\ pump' = FALSE
    /\ UNCHANGED <<status, kind, pid, marker, results, proc, done>>

Restart ==
    /\ ~up
    /\ up' = TRUE
    /\ UNCHANGED <<status, kind, pid, marker, results, proc, handles, launched,
                   todo, pump, crashes, done>>

Server == Poll \/ (\E j \in Jobs : Refresh(j)) \/ PumpDone \/ Popen \/ RecordLaunch \/ Restart

Next ==
    \/ Server
    \/ Crash
    \/ \E k \in {"study", "certify"} : Submit(k)
    \/ \E j \in Jobs, a \in Attempts : Cli(j, a)

(* The jobs page asks again and again, dead servers are restarted, and a    *)
(* process ends: its budget is finite and each evaluation has a timeout.    *)
Spec ==
    /\ Init /\ [][Next]_vars
    /\ WF_vars(Server)
    /\ \A j \in Jobs, a \in Attempts :
         WF_vars(Settle(j, a) \/ SettleUnmarked(j, a) \/ Exit(j, a))

-----------------------------------------------------------------------------
(* Properties                                                               *)

Processes == {x \in Jobs \X Attempts : Alive(x[1], x[2])}

(* The attempts the launch plane knows of: recorded, or about to be.        *)
Known(j, a) == pid[j] = a \/ (launched = j /\ a = Newest(j))

(* Of the processes the meta files know of at most one is alive, over any   *)
(* number of restarts: an orphan holds the queue like a child of this       *)
(* server does.                                                             *)
RecordedSerial == Cardinality({x \in Processes : Known(x[1], x[2])}) <= 1

(* A job is advertised SUCCEEDED only over stored results, whether its own  *)
(* server settled it or a later one (_refresh_locked, _complete_job_locked).*)
SucceededHasResults == \A j \in Jobs : status[j] = "SUCCEEDED" => j \in results

(* Every queued job comes to a verdict, wherever the servers died: no       *)
(* orphan blocks the queue for good and no job is left behind.              *)
QueueDrains == \A j \in Jobs : status[j] = "QUEUED" ~> status[j] \in Terminal

(* "Serial W=1 launcher" (the docstring of OptimizerJobRunner): no two      *)
(* optimizer processes at a time. A server that dies between starting a     *)
(* process and writing its pid breaks it: the next one starts the job again.*)
SerialLauncher == Cardinality(Processes) <= 1

(* A certification that returned and stored its result is not reported as   *)
(* FAILED: with --certify there is no --strategy, and a success prints its  *)
(* summary and leaves its marker (docs/optimizer-user-guide.md).            *)
CertificationReported ==
    \A j \in Jobs : kind[j] = "certify" /\ j \in done /\ j \in results => status[j] # "FAILED"
=============================================================================
