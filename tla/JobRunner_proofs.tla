-------------------------- MODULE JobRunner_proofs --------------------------
(***************************************************************************)
(* What the launch plane promises of the processes it knows of and of the  *)
(* verdicts it writes, for any number of jobs, attempts and server deaths. *)
(*                                                                         *)
(* A recorded process lives only while its job is RUNNING, whichever       *)
(* server recorded it; only one job at a time is RUNNING or about to be.   *)
(***************************************************************************)
EXTENDS JobRunner, Extremes

Statuses == {"none", "QUEUED", "RUNNING", "SUCCEEDED", "completed-no-feasible-winner", "FAILED"}
Markers == {"none", "FAILED", "SUCCEEDED", "completed-no-feasible-winner"}

\* What a meta file says of its job is so.
Recorded(j) ==
    /\ status[j] \in {"none", "QUEUED"} => pid[j] = 0
    /\ status[j] = "RUNNING" => pid[j] # 0
    /\ pid[j] # 0 => proc[j][pid[j]] # "unborn"
    /\ pid[j] # 0 /\ Alive(j, pid[j]) => status[j] = "RUNNING"
    /\ status[j] = "SUCCEEDED" => j \in results

\* One job at a time is RUNNING, or started and about to be.
OneAtATime ==
    /\ \A j, k \in Jobs : status[j] = "RUNNING" /\ status[k] = "RUNNING" => j = k
    /\ pump => launched = 0
    /\ launched # 0 =>
          /\ status[launched] = "QUEUED"
          /\ \A j \in Jobs : status[j] # "RUNNING"
          /\ \E a \in Attempts : proc[launched][a] # "unborn"

Types ==
    /\ status \in [Jobs -> Statuses]
    /\ kind \in [Jobs -> {"study", "certify"}]
    /\ pid \in [Jobs -> 0..MaxAttempts]
    /\ marker \in [Jobs -> Markers]
    /\ results \subseteq Jobs
    /\ proc \in [Jobs -> [Attempts -> Lives]]
    /\ up \in BOOLEAN /\ pump \in BOOLEAN
    /\ handles \subseteq Jobs
    /\ launched \in 0..NJobs
    /\ todo \subseteq Jobs
    /\ crashes \in 0..MaxCrashes
    /\ done \subseteq Jobs

IndInv ==
    /\ Types
    /\ OneAtATime
    /\ \A j \in Jobs : Recorded(j)
    /\ \A j \in todo \cup handles : status[j] = "RUNNING"

---------------------------------------------------------------------------
\* No job has been submitted, so nothing is wrong.
THEOREM InitIndInv == Init => IndInv
  <1> SUFFICES ASSUME Init PROVE IndInv
    OBVIOUS
  <1>1. Types
    <2>1. proc \in [Jobs -> [Attempts -> Lives]]
      BY DEF Init, Lives
    <2>2. 0 \in 0..NJobs /\ 0 \in 0..MaxAttempts /\ 0 \in 0..MaxCrashes
      BY JobAssumption
    <2> QED
      BY <2>1, <2>2 DEF Init, Types, Statuses, Markers
  <1>2. OneAtATime /\ \A j \in Jobs : Recorded(j)
    BY DEF Init, OneAtATime, Recorded
  <1> QED
    BY <1>1, <1>2 DEF Init, IndInv

\* The oldest of some jobs is one of them.
LEMMA OldestJob ==
    ASSUME NEW S, S \subseteq Jobs, S # {}
    PROVE  Min(S) \in S
  BY JobAssumption, MinIsSmallest DEF Jobs

\* A process that was started has a newest attempt.
LEMMA NewestIsBorn ==
    ASSUME NEW j, \E a \in Attempts : proc[j][a] # "unborn"
    PROVE  Newest(j) \in Attempts /\ proc[j][Newest(j)] # "unborn"
  <1> DEFINE S == {a \in Attempts : proc[j][a] # "unborn"}
  <1>1. S \subseteq Attempts /\ S # {}
    OBVIOUS
  <1>2. Max(S) \in S
    <2> HIDE DEF S
    <2> QED
      BY <1>1, JobAssumption, MaxIsLargest DEF Attempts
  <1> QED
    BY <1>2 DEF Newest

\* What the command line may do to its process: it ages, and results are added.
LEMMA AgingKeeps ==
    ASSUME IndInv, NEW j \in Jobs, NEW a \in Attempts, Alive(j, a),
           NEW life \in Lives \ {"unborn"},
           proc' = [proc EXCEPT ![j][a] = life] \/ proc' = proc,
           marker' \in [Jobs -> Markers], results \subseteq results', results' \subseteq Jobs,
           done' \subseteq Jobs,
           UNCHANGED <<status, kind, pid, up, handles, launched, todo, pump, crashes>>
    PROVE  IndInv'
  <1>1. proc \in [Jobs -> [Attempts -> Lives]] /\ pid \in [Jobs -> 0..MaxAttempts]
    BY DEF IndInv, Types
  <1>2. /\ proc' \in [Jobs -> [Attempts -> Lives]]
        /\ \A k \in Jobs : \A b \in Attempts : proc'[k][b] = proc[k][b] \/ (k = j /\ b = a /\ proc'[k][b] = life)
    <2>1. CASE proc' = proc
      BY <1>1, <2>1
    <2>2. CASE proc' = [proc EXCEPT ![j][a] = life]
      <3>1. proc'[j] = [proc[j] EXCEPT ![a] = life] /\ \A k \in Jobs : k # j => proc'[k] = proc[k]
        BY <1>1, <2>2
      <3>2. proc' \in [Jobs -> [Attempts -> Lives]]
        BY <1>1, <2>2
      <3>3. \A b \in Attempts : proc'[j][b] = proc[j][b] \/ (b = a /\ proc'[j][b] = life)
        BY <1>1, <3>1
      <3> QED
        BY <3>1, <3>2, <3>3
    <2> QED
      BY <2>1, <2>2
  <1>3. Types'
    BY <1>2 DEF IndInv, Types
  <1>4. \A k \in Jobs : \A b \in Attempts :
          /\ proc[k][b] # "unborn" => proc'[k][b] # "unborn"
          /\ Alive(k, b)' => Alive(k, b)
    BY <1>2 DEF Alive
  <1>5. \A k \in Jobs : pid[k] # 0 => pid[k] \in Attempts
    BY <1>1, JobAssumption DEF Attempts
  <1>6. ASSUME NEW k \in Jobs PROVE Recorded(k)'
    <2>1. Recorded(k)
      BY DEF IndInv
    <2>2. pid'[k] = pid[k] /\ status'[k] = status[k]
      OBVIOUS
    <2>3. pid[k] # 0 => (Alive(k, pid[k])' => Alive(k, pid[k]))
      BY <1>4, <1>5
    <2> QED
      BY <1>4, <1>5, <2>1, <2>2, <2>3 DEF Recorded, Alive
  <1>7. OneAtATime'
    <2>1. launched # 0 => launched \in Jobs
      BY JobAssumption DEF IndInv, Types, Jobs
    <2> QED
      BY <1>4, <2>1 DEF IndInv, OneAtATime
  <1> QED
    BY <1>3, <1>6, <1>7 DEF IndInv

\* The command line.
LEMMA CliKeeps ==
    ASSUME IndInv, NEW j \in Jobs, NEW a \in Attempts, Cli(j, a)
    PROVE  IndInv'
  <1>1. results \subseteq Jobs /\ done \subseteq Jobs /\ marker \in [Jobs -> Markers]
    BY DEF IndInv, Types
  <1>2. CASE StoreResult(j, a)
    <2>1. Alive(j, a) /\ "exit1" \in Lives \ {"unborn"}
      BY <1>2 DEF StoreResult, Alive, Lives
    <2> QED
      BY <1>1, <1>2, <2>1, AgingKeeps DEF StoreResult
  <1>3. CASE Settle(j, a)
    <2>1. Alive(j, a)
      BY <1>3 DEF Settle, Alive
    <2>2. marker' \in [Jobs -> Markers] /\ done' \subseteq Jobs
      BY <1>1, <1>3 DEF Settle, Success, Markers
    <2>3. PICK life \in {"exit1", "settled"} : Goes(j, a, life)
      BY <1>3 DEF Settle
    <2> QED
      BY <1>1, <1>3, <2>1, <2>2, <2>3, AgingKeeps DEF Settle, Goes, Lives
  <1>4. CASE SettleUnmarked(j, a)
    <2>1. Alive(j, a)
      BY <1>4 DEF SettleUnmarked, Alive
    <2>2. PICK life \in {"exit1", "exit0"} : Goes(j, a, life)
      BY <1>4 DEF SettleUnmarked
    <2> QED
      BY <1>1, <1>4, <2>1, <2>2, AgingKeeps DEF SettleUnmarked, Goes, Lives
  <1>5. CASE Exit(j, a)
    <2>1. Alive(j, a)
      BY <1>5 DEF Exit, Alive
    <2>2. done' \subseteq Jobs
      BY <1>1, <1>5 DEF Exit
    <2>3. PICK life \in {"exit1", "exit0"} : Goes(j, a, life)
      BY <1>5 DEF Exit
    <2> QED
      BY <1>1, <1>5, <2>1, <2>2, <2>3, AgingKeeps DEF Exit, Goes, Lives
  <1> QED
    BY <1>2, <1>3, <1>4, <1>5 DEF Cli

\* The verdicts: a success is written over stored results only.
LEMMA VerdictsAreTrue ==
    ASSUME IndInv, NEW j \in Jobs, status[j] = "RUNNING", ~Alive(j, pid[j]),
           NEW verdict, verdict = IF j \in handles THEN LiveVerdict(j) ELSE OrphanVerdict(j)
    PROVE  /\ verdict \in {"SUCCEEDED", "completed-no-feasible-winner", "FAILED"}
           /\ verdict = "SUCCEEDED" => j \in results
  <1>1. marker[j] \in Markers
    BY DEF IndInv, Types
  <1>2. pid[j] \in Attempts /\ proc[j][pid[j]] \in {"exit0", "exit1"}
    <2>1. pid[j] # 0 /\ proc[j][pid[j]] # "unborn"
      BY DEF IndInv, Recorded
    <2>2. pid[j] \in Attempts
      BY <2>1, JobAssumption DEF IndInv, Types, Attempts
    <2>3. proc[j][pid[j]] \in Lives
      BY <2>2 DEF IndInv, Types
    <2> QED
      BY <2>1, <2>2, <2>3 DEF Alive, Lives
  <1>3. CASE j \in handles
    <2>1. verdict = LiveVerdict(j)
      BY <1>3
    <2> QED
      BY <1>1, <1>2, <2>1 DEF LiveVerdict, Markers, Success
  <1>4. CASE j \notin handles
    <2>1. verdict = OrphanVerdict(j)
      BY <1>4
    <2> QED
      BY <1>1, <2>1 DEF OrphanVerdict, Markers
  <1> QED
    BY <1>3, <1>4

\* A job that is settled, or goes on.
LEMMA RefreshKeeps ==
    ASSUME IndInv, NEW j \in Jobs, Refresh(j)
    PROVE  IndInv'
  <1>1. /\ j \in todo /\ status[j] = "RUNNING" /\ todo' = todo \ {j}
        /\ UNCHANGED <<kind, pid, marker, results, proc, up, launched, pump, crashes, done>>
    BY DEF Refresh, IndInv
  <1>2. CASE UNCHANGED <<status, handles>>
    <2>1. Types'
      BY <1>1, <1>2 DEF IndInv, Types
    <2>2. OneAtATime' /\ \A k \in Jobs : Recorded(k)'
      BY <1>1, <1>2 DEF IndInv, OneAtATime, Recorded, Alive
    <2> QED
      BY <1>1, <1>2, <2>1, <2>2 DEF IndInv
  <1>3. CASE ~StillRuns(j)
    <2> DEFINE v == IF j \in handles THEN LiveVerdict(j) ELSE OrphanVerdict(j)
    <2>1. v \in {"SUCCEEDED", "completed-no-feasible-winner", "FAILED"} /\ (v = "SUCCEEDED" => j \in results)
      BY <1>1, <1>3, VerdictsAreTrue DEF StillRuns
    <2>2. status' = [status EXCEPT ![j] = v] /\ handles' = handles \ {j}
      BY <1>3 DEF Refresh, WithoutHandle
    <2> HIDE DEF v
    <2>3. /\ status' \in [Jobs -> Statuses]
          /\ status'[j] = v
          /\ \A k \in Jobs : k # j => status'[k] = status[k]
      BY <2>1, <2>2 DEF IndInv, Types, Statuses
    <2>4. Types'
      BY <1>1, <2>2, <2>3 DEF IndInv, Types
    <2>5. OneAtATime'
      <3>1. launched = 0
        BY <1>1 DEF IndInv, OneAtATime
      <3> QED
        BY <1>1, <2>1, <2>3, <3>1 DEF IndInv, OneAtATime
    <2>6. ASSUME NEW k \in Jobs PROVE Recorded(k)'
      <3>1. Recorded(k) /\ Alive(k, pid[k])' = Alive(k, pid[k])
        BY <1>1 DEF IndInv, Alive
      <3> QED
        BY <1>1, <1>3, <2>1, <2>3, <3>1 DEF Recorded, StillRuns, Alive
    <2> QED
      BY <1>1, <2>2, <2>3, <2>4, <2>5, <2>6 DEF IndInv
  <1> QED
    BY <1>2, <1>3 DEF Refresh

\* Steps that leave jobs and processes alone: the invariant needs no more than
\* that nothing is pumped while a job is launched.
LEMMA PlaneKeeps ==
    ASSUME IndInv, UNCHANGED <<status, kind, pid, marker, results, proc, done>>,
           launched' \in {0, launched}, pump' \in BOOLEAN, up' \in BOOLEAN,
           pump' => launched' = 0,
           handles' \subseteq handles, crashes' \in 0..MaxCrashes,
           todo' \subseteq With({"RUNNING"})
    PROVE  IndInv'
  <1>1. todo' \subseteq Jobs /\ \A j \in todo' : status[j] = "RUNNING"
    BY DEF With
  <1>2. Types'
    BY <1>1, JobAssumption DEF IndInv, Types
  <1>3. OneAtATime' /\ \A j \in Jobs : Recorded(j)'
    BY DEF IndInv, OneAtATime, Recorded, Alive
  <1> QED
    BY <1>1, <1>2, <1>3 DEF IndInv

\* The queue is looked at, or found to be busy; a server dies, or starts.
LEMMA ServerStateKeeps ==
    ASSUME IndInv, Poll \/ PumpDone \/ Crash \/ Restart
    PROVE  IndInv'
  <1>1. todo \subseteq With({"RUNNING"}) /\ With({"RUNNING"}) \subseteq Jobs
    BY DEF IndInv, Types, With
  <1>2. crashes \in 0..MaxCrashes /\ up \in BOOLEAN /\ pump \in BOOLEAN
    BY DEF IndInv, Types
  <1>3. CASE Poll
    BY <1>1, <1>2, <1>3, PlaneKeeps DEF Poll, Idle
  <1>4. CASE PumpDone
    BY <1>1, <1>2, <1>4, PlaneKeeps DEF PumpDone
  <1>5. CASE Crash
    <2>1. crashes' \in 0..MaxCrashes
      BY <1>2, <1>5, JobAssumption DEF Crash
    <2> QED
      BY <1>1, <1>2, <1>5, <2>1, PlaneKeeps DEF Crash
  <1>6. CASE Restart
    <2>1. pump' => launched' = 0
      BY <1>6 DEF Restart, IndInv, OneAtATime
    <2> QED
      BY <1>1, <1>2, <1>6, <2>1, PlaneKeeps DEF Restart
  <1> QED
    BY <1>3, <1>4, <1>5, <1>6

\* A job is put into the queue.
LEMMA SubmitKeeps ==
    ASSUME IndInv, NEW k \in {"study", "certify"}, Submit(k)
    PROVE  IndInv'
  <1> DEFINE j == Min(With({"none"}))
  <1>1. j \in Jobs /\ status[j] = "none"
    <2>1. With({"none"}) \subseteq Jobs /\ With({"none"}) # {}
      BY DEF Submit, With
    <2>2. j \in With({"none"})
      BY <2>1, OldestJob
    <2> QED
      BY <2>2 DEF With
  <1>2. /\ status' = [status EXCEPT ![j] = "QUEUED"]
        /\ kind' = [kind EXCEPT ![j] = k]
        /\ pump' = TRUE /\ launched = 0
        /\ UNCHANGED <<pid, marker, results, proc, up, handles, launched, todo, crashes, done>>
    BY DEF Submit, Idle
  <1> HIDE DEF j
  <1>3. /\ status' \in [Jobs -> Statuses] /\ kind' \in [Jobs -> {"study", "certify"}]
        /\ status'[j] = "QUEUED" /\ \A i \in Jobs : i # j => status'[i] = status[i]
    BY <1>1, <1>2 DEF IndInv, Types, Statuses
  <1>4. Types'
    BY <1>2, <1>3 DEF IndInv, Types
  <1>5. OneAtATime'
    BY <1>1, <1>2, <1>3 DEF IndInv, OneAtATime
  <1>6. ASSUME NEW i \in Jobs PROVE Recorded(i)'
    <2>1. Recorded(i) /\ Alive(i, pid[i])' = Alive(i, pid[i])
      BY <1>2 DEF IndInv, Alive
    <2> QED
      BY <1>1, <1>2, <1>3, <2>1 DEF Recorded
  <1> QED
    BY <1>1, <1>2, <1>3, <1>4, <1>5, <1>6 DEF IndInv

\* A process is started for the oldest queued job, or cannot be.
LEMMA PopenKeeps ==
    ASSUME IndInv, Popen
    PROVE  IndInv'
  <1> DEFINE j == Min(With({"QUEUED"}))
  <1>1. /\ pump /\ launched = 0 /\ pump' = FALSE /\ todo = {}
        /\ UNCHANGED <<kind, pid, marker, results, up, handles, todo, crashes, done>>
        /\ \A i \in Jobs : status[i] # "RUNNING"
    BY DEF Popen, IndInv, OneAtATime, With
  <1>2. j \in Jobs /\ status[j] = "QUEUED" /\ pid[j] = 0
    <2>1. With({"QUEUED"}) \subseteq Jobs /\ With({"QUEUED"}) # {}
      BY DEF Popen, With
    <2>2. j \in With({"QUEUED"})
      BY <2>1, OldestJob
    <2> QED
      BY <2>2 DEF With, IndInv, Recorded
  <1>3. CASE \E a \in Attempts : /\ proc[j][a] = "unborn"
                                 /\ Goes(j, a, "searching") /\ launched' = j /\ UNCHANGED status
    <2>1. PICK a \in Attempts : /\ proc[j][a] = "unborn"
                                /\ Goes(j, a, "searching") /\ launched' = j /\ UNCHANGED status
      BY <1>3
    <2> HIDE DEF j
    <2>2. proc' = [proc EXCEPT ![j][a] = "searching"]
      BY <2>1 DEF Goes
    <2>3. proc' \in [Jobs -> [Attempts -> Lives]] /\ proc'[j][a] = "searching"
          /\ \A i \in Jobs : i # j => proc'[i] = proc[i]
      BY <1>2, <2>2 DEF IndInv, Types, Lives
    <2>4. Types'
      <3>1. launched' \in 0..NJobs
        BY <1>2, <2>1, JobAssumption DEF Jobs
      <3> QED
        BY <1>1, <2>1, <2>3, <3>1 DEF IndInv, Types
    <2>5. OneAtATime'
      BY <1>1, <1>2, <2>1, <2>3 DEF OneAtATime
    <2>6. ASSUME NEW i \in Jobs PROVE Recorded(i)'
      <3>1. Recorded(i)
        BY DEF IndInv
      <3> QED
        BY <1>1, <1>2, <2>1, <2>3, <3>1 DEF Recorded, Alive
    <2> QED
      BY <1>1, <2>1, <2>4, <2>5, <2>6 DEF IndInv
  <1>4. CASE status' = [status EXCEPT ![j] = "FAILED"] /\ UNCHANGED <<proc, launched>>
    <2> HIDE DEF j
    <2>1. /\ status' \in [Jobs -> Statuses] /\ status'[j] = "FAILED"
          /\ \A i \in Jobs : i # j => status'[i] = status[i]
      BY <1>2, <1>4 DEF IndInv, Types, Statuses
    <2>2. Types'
      BY <1>1, <1>4, <2>1 DEF IndInv, Types
    <2>3. OneAtATime'
      BY <1>1, <1>4, <2>1 DEF OneAtATime
    <2>4. ASSUME NEW i \in Jobs PROVE Recorded(i)'
      <3>1. Recorded(i) /\ Alive(i, pid[i])' = Alive(i, pid[i])
        BY <1>1, <1>4 DEF IndInv, Alive
      <3> QED
        BY <1>1, <1>2, <1>4, <2>1, <3>1 DEF Recorded
    <2>5. handles = {}
      BY <1>1 DEF IndInv, Types
    <2> QED
      BY <1>1, <2>2, <2>3, <2>4, <2>5 DEF IndInv
  <1> QED
    BY <1>3, <1>4 DEF Popen

\* The process that was started gets into the meta file.
LEMMA RecordLaunchKeeps ==
    ASSUME IndInv, RecordLaunch
    PROVE  IndInv'
  <1> DEFINE n == Newest(launched)
  <1>1. /\ launched \in Jobs /\ status[launched] = "QUEUED" /\ ~pump
        /\ \A i \in Jobs : status[i] # "RUNNING"
        /\ \E a \in Attempts : proc[launched][a] # "unborn"
    BY JobAssumption DEF RecordLaunch, IndInv, Types, OneAtATime, Jobs
  <1>2. n \in Attempts /\ proc[launched][n] # "unborn"
    BY <1>1, NewestIsBorn
  <1>3. /\ status' = [status EXCEPT ![launched] = "RUNNING"]
        /\ pid' = [pid EXCEPT ![launched] = n]
        /\ handles' = handles \cup {launched} /\ launched' = 0
        /\ UNCHANGED <<kind, marker, results, proc, up, todo, pump, crashes, done>>
    BY DEF RecordLaunch
  <1> HIDE DEF n
  <1>4. /\ status' \in [Jobs -> Statuses] /\ status'[launched] = "RUNNING"
        /\ \A i \in Jobs : i # launched => status'[i] = status[i]
    BY <1>1, <1>3 DEF IndInv, Types, Statuses
  <1>5. /\ pid' \in [Jobs -> 0..MaxAttempts] /\ pid'[launched] = n /\ n # 0
        /\ \A i \in Jobs : i # launched => pid'[i] = pid[i]
    BY <1>1, <1>2, <1>3, JobAssumption DEF IndInv, Types, Attempts
  <1>6. Types'
    <2>1. launched' \in 0..NJobs /\ handles' \subseteq Jobs
      BY <1>1, <1>3, JobAssumption DEF IndInv, Types
    <2> QED
      BY <1>3, <1>4, <1>5, <2>1 DEF IndInv, Types
  <1>7. OneAtATime'
    BY <1>1, <1>3, <1>4 DEF OneAtATime
  <1>8. ASSUME NEW i \in Jobs PROVE Recorded(i)'
    <2>1. Recorded(i)
      BY DEF IndInv
    <2> QED
      BY <1>2, <1>3, <1>4, <1>5, <2>1 DEF Recorded, Alive
  <1> QED
    BY <1>3, <1>4, <1>6, <1>7, <1>8 DEF IndInv

---------------------------------------------------------------------------
\* Every step keeps the invariant.
THEOREM NextKeeps == IndInv /\ [Next]_vars => IndInv'
  <1> SUFFICES ASSUME IndInv, [Next]_vars PROVE IndInv'
    OBVIOUS
  <1>1. CASE UNCHANGED vars
    BY <1>1 DEF vars, IndInv, Types, OneAtATime, Recorded, Alive
  <1>2. CASE Server
    BY <1>2, ServerStateKeeps, RefreshKeeps, PopenKeeps, RecordLaunchKeeps DEF Server
  <1>3. CASE Crash
    BY <1>3, ServerStateKeeps
  <1>4. ASSUME NEW k \in {"study", "certify"}, Submit(k) PROVE IndInv'
    BY <1>4, SubmitKeeps
  <1>5. ASSUME NEW j \in Jobs, NEW a \in Attempts, Cli(j, a) PROVE IndInv'
    BY <1>5, CliKeeps
  <1> QED
    BY <1>1, <1>2, <1>3, <1>4, <1>5 DEF Next

\* The invariant holds at all times.
THEOREM Invariant == Spec => []IndInv
  <1> QED
    BY InitIndInv, NextKeeps, PTL DEF Spec

\* Meta files, markers and processes are what they should be.
THEOREM TypesCorrect == Spec => []TypeOK
  <1>1. IndInv => TypeOK
    <2> SUFFICES ASSUME IndInv PROVE TypeOK
      OBVIOUS
    <2>1. Types /\ (\A j \in Jobs : status[j] = "RUNNING" => pid[j] # 0)
          /\ \A j \in handles : status[j] = "RUNNING"
      BY DEF IndInv, Recorded
    <2>2. handles \subseteq {j \in Jobs : status[j] = "RUNNING"}
      BY <2>1 DEF Types
    <2>3. /\ Statuses = {"none", "QUEUED", "RUNNING"} \cup Terminal
          /\ Markers = {"none", "FAILED"} \cup Success
      BY DEF Statuses, Markers, Terminal, Success
    <2> QED
      BY <2>1, <2>2, <2>3 DEF Types, TypeOK
  <1> QED
    BY <1>1, Invariant, PTL

\* Of the processes the meta files know of at most one is alive.
THEOREM RecordedSerialHolds == Spec => []RecordedSerial
  <1>1. IndInv => RecordedSerial
    <2> SUFFICES ASSUME IndInv PROVE RecordedSerial
      OBVIOUS
    <2> DEFINE S == {x \in Processes : Known(x[1], x[2])}
    <2>1. ASSUME NEW x \in S PROVE
            /\ x \in Jobs \X Attempts
            /\ \/ status[x[1]] = "RUNNING" /\ x[2] = pid[x[1]]
               \/ launched = x[1] /\ x[2] = Newest(x[1])
      <3>1. x \in Jobs \X Attempts /\ Alive(x[1], x[2]) /\ Known(x[1], x[2])
        BY DEF Processes
      <3>2. x[1] \in Jobs /\ x[2] \in Attempts /\ x[2] # 0
        BY <3>1 DEF Attempts
      <3>3. pid[x[1]] = x[2] => status[x[1]] = "RUNNING"
        BY <3>1, <3>2 DEF IndInv, Recorded
      <3> QED
        BY <3>1, <3>3 DEF Known
    <2>2. ASSUME NEW x \in S, NEW y \in S PROVE x = y
      <3>1. x \in Jobs \X Attempts /\ y \in Jobs \X Attempts
        BY <2>1
      <3>2. /\ \/ status[x[1]] = "RUNNING" /\ x[2] = pid[x[1]]
               \/ launched = x[1] /\ x[2] = Newest(x[1])
            /\ \/ status[y[1]] = "RUNNING" /\ y[2] = pid[y[1]]
               \/ launched = y[1] /\ y[2] = Newest(y[1])
        BY <2>1
      <3>3. x[1] \in Jobs /\ y[1] \in Jobs
        BY <3>1
      <3>4. launched # 0 => \A i \in Jobs : status[i] # "RUNNING"
        BY DEF IndInv, OneAtATime
      <3>5. 0 \notin Jobs
        BY DEF Jobs
      <3>6. x[1] = y[1] /\ x[2] = y[2]
        BY <3>2, <3>3, <3>4, <3>5 DEF IndInv, OneAtATime
      <3> QED
        BY <3>1, <3>6
    <2> HIDE DEF S
    <2>3. IsFiniteSet(S) /\ Cardinality(S) <= 1
      <3>1. CASE S = {}
        BY <3>1, FS_EmptySet
      <3>2. CASE S # {}
        <4>1. PICK x \in S : TRUE
          BY <3>2
        <4>2. S = {x}
          BY <2>2, <4>1
        <4>3. IsFiniteSet({x}) /\ Cardinality({x}) = 1
          BY FS_Singleton, Zenon
        <4> QED
          BY <4>2, <4>3
      <3> QED
        BY <3>1, <3>2
    <2> QED
      BY <2>3 DEF RecordedSerial, S
  <1> QED
    BY <1>1, Invariant, PTL

\* A job is advertised SUCCEEDED only over stored results.
THEOREM SucceededHasResultsHolds == Spec => []SucceededHasResults
  <1>1. IndInv => SucceededHasResults
    BY DEF IndInv, Recorded, SucceededHasResults
  <1> QED
    BY <1>1, Invariant, PTL
=============================================================================
