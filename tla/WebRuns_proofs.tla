-------------------------- MODULE WebRuns_proofs ---------------------------
(***************************************************************************)
(* The web workbench implements RunLife, for any number of runs, hours and *)
(* loops: a proof that the steps of its threads are steps of the life of a *)
(* run, or change nothing of it.                                           *)
(*                                                                         *)
(* What a step may do to a run depends on who holds the lock of the run,   *)
(* and for what: the invariant says what a holder has made sure of, and    *)
(* that nobody else can undo it.                                           *)
(*                                                                         *)
(* On top of that: what the viewer is told is what is stored, the types,   *)
(* and that no live run is left without somebody to drive it.              *)
(***************************************************************************)
EXTENDS WebRuns, TLAPS

Stages == {"none", "drive", "save", "published", "close", "mid"}
Verdicts == {"none", "ok", "failed", "refused", "partial"}

Locks == [by : Holders, g : Nat, stage : Stages, status : Verdicts]
Starts == [step : {"none", "replace", "cancel", "register", "launch"},
           owner : {"none", "socket", "http"}]
Leaves == [step : {"none", "read", "decide", "schedule", "cancel"},
           run : 0..MaxRuns, parked : BOOLEAN, restart : BOOLEAN]

Types ==
    /\ cur \in 0..MaxRuns
    /\ owner \in [Runs -> {"none", "socket", "http"}]
    /\ running \subseteq Runs
    /\ persisted \subseteq Runs
    /\ gen \in [Runs -> Nat]
    /\ held \in [Runs -> Locks]
    /\ loop \in [Runs -> [Loops -> Places]]
    /\ hours \in [Runs -> Nat]
    /\ report \in [Runs -> Reports \cup {NoReport}]
    /\ starting \in Starts
    /\ leaving \in Leaves

\* At most the current run is live, and whoever works on a run works on one
\* that was launched.
Launched ==
    /\ running \subseteq {cur}
    /\ cur # 0 => owner[cur] # "none"
    /\ \A r \in Runs :
          held[r] # Free \/ r \in persisted \/ report[r] # NoReport => owner[r] # "none"

\* A loop holds the lock of a live run only, and only loops that were started do.
Driving ==
    \A r \in Runs :
        /\ gen[r] = 0 => \A g \in Loops : loop[r][g] = "none"
        /\ held[r].by = "loop" => r \in running /\ gen[r] > 0
        /\ held[r].stage = "drive" => held[r].by = "loop"

\* A report is written by somebody who found none, and its run is live no more
\* when he lets go of the lock, also if an exception met him on the way.
FiledOnce ==
    \A r \in Runs :
        /\ report[r] # NoReport /\ r \in running => r \in persisted \/ held[r].stage = "published"
        /\ held[r].stage = "published" => report[r] # NoReport
        /\ r \in persisted => held[r].stage \notin {"drive", "save", "published"}
        /\ held[r].stage = "close" => r \in persisted
        /\ r \in persisted /\ r \in running => held[r].stage = "close"
        /\ held[r].by = "answer" => held[r].stage = "mid"
        /\ held[r].stage = "save" =>
              held[r].status \in IF held[r].by = "loop" THEN {"ok", "failed", "refused"}
                                 ELSE {"ok", "partial"}

\* A start handler goes on to register its run when none is live.
Replacing ==
    /\ starting.step = "register" => running = {}
    /\ starting.step # "none" => starting.owner # "none"
    /\ \A r \in Runs : held[r].by = "start" => starting.step = "cancel" /\ cur \in {0, r}
    /\ \A q, r \in Runs : held[q].by = "start" /\ held[r].by = "start" => q = r

\* A disconnect handler that reads the flags of a run holds its lock.
Detaching ==
    /\ leaving.step # "none" => leaving.run \in Runs
    /\ leaving.step \in {"read", "decide"} =>
        /\ held[leaving.run].by = "leave" /\ held[leaving.run].stage = "mid"

IndInv == Types /\ Launched /\ Driving /\ FiledOnce /\ Replacing /\ Detaching

---------------------------------------------------------------------------
\* At first no run was launched, and no lock is held.
THEOREM InitIndInv == Init => IndInv
  BY WebAssumption DEF Init, IndInv, Types, Launched, Driving, FiledOnce, Replacing, Detaching,
     Runs, Loops, Locks, Starts, Leaves, Stages, Verdicts, Holders, Places, Free, Idle, NoStart, NoReport, Reports

\* A report that is published: its holder has not heard of it yet.
LEMMA PublishKeeps ==
    ASSUME IndInv, NEW r \in Runs, Publish(r)
    PROVE  IndInv'
  <1> USE DEF IndInv, Locks, Starts, Leaves
  <1>h. /\ held' \in [Runs -> Locks]
        /\ held'[r].by = held[r].by /\ held'[r].stage = "published"
        /\ \A q \in Runs : q # r => held'[q] = held[q]
    BY DEF Publish, Types, Stages
  <1>p. /\ held[r].stage = "save"
        /\ report' \in [Runs -> Reports \cup {NoReport}]
        /\ report'[r] # NoReport
        /\ \A q \in Runs : q # r => report'[q] = report[q]
    BY DEF Publish, Types, Filed, FiledOnce, Reports, NoReport
  <1>u. UNCHANGED <<cur, owner, running, persisted, gen, loop, hours, starting, leaving>>
    BY DEF Publish, flags, session, handlers
  <1>1. Types'
    BY <1>h, <1>p, <1>u DEF Types
  <1>2. Launched'
    BY <1>h, <1>p, <1>u DEF Launched, Free
  <1>3. Driving'
    BY <1>h, <1>p, <1>u DEF Driving
  <1>4. FiledOnce'
    BY <1>h, <1>p, <1>u DEF FiledOnce
  <1>5. Replacing'
    BY <1>h, <1>u DEF Replacing
  <1>6. Detaching'
    BY <1>h, <1>p, <1>u DEF Detaching
  <1> QED
    BY <1>1, <1>2, <1>3, <1>4, <1>5, <1>6

\* The call returned: the run is filed, its holder goes on to close it.
LEMMA SavedKeeps ==
    ASSUME IndInv, NEW r \in Runs, Saved(r)
    PROVE  IndInv'
  <1> USE DEF IndInv, Locks, Starts, Leaves
  <1>h. /\ held' \in [Runs -> Locks]
        /\ held'[r].by = held[r].by /\ held'[r].stage = "close"
        /\ \A q \in Runs : q # r => held'[q] = held[q]
    BY DEF Saved, Types, Stages
  <1>p. held[r].stage = "published" /\ persisted' = persisted \cup {r}
    BY DEF Saved
  <1>u. UNCHANGED <<cur, owner, running, gen, loop, hours, report, starting, leaving>>
    BY DEF Saved, session, handlers
  <1>1. Types'
    BY <1>h, <1>p, <1>u DEF Types
  <1>2. Launched'
    BY <1>h, <1>p, <1>u DEF Launched, Free
  <1>3. Driving'
    BY <1>h, <1>p, <1>u DEF Driving
  <1>4. FiledOnce'
    BY <1>h, <1>p, <1>u DEF FiledOnce
  <1>5. Replacing'
    BY <1>h, <1>u DEF Replacing
  <1>6. Detaching'
    BY <1>h, <1>p, <1>u DEF Detaching
  <1> QED
    BY <1>1, <1>2, <1>3, <1>4, <1>5, <1>6

\* The end of a run, with its report or without.
LEMMA FinishKeeps ==
    ASSUME IndInv, NEW r \in Runs, NEW saved \in BOOLEAN,
           held[r].stage \in {"save", "published", "close"},
           Finish(r), HolderGoesOn(r, saved),
           UNCHANGED <<owner, persisted, gen, hours, report>>
    PROVE  IndInv'
  <1> USE DEF IndInv, Locks, Starts, Leaves
  <1>r. r # 0 /\ r \in 1..MaxRuns /\ 0 \in 0..MaxRuns /\ 0 \notin Runs
    BY WebAssumption DEF Runs
  <1>h. /\ held' \in [Runs -> Locks]
        /\ held'[r] = Free
        /\ \A q \in Runs : q # r => held'[q] = held[q]
    BY DEF HolderGoesOn, Releases, Types, Free, Holders, Stages, Verdicts
  <1>f. Free.by = "none" /\ Free.stage = "none"
    BY DEF Free
  <1>c. /\ cur' \in {cur, 0} /\ (cur' # cur => cur = r)
        /\ running' = running \ {r}
    BY DEF Finish, Launched
  <1>l. /\ loop' \in [Runs -> [Loops -> Places]]
        /\ \A q \in Runs : \A g \in Loops :
              loop'[q][g] # loop[q][g] => q = r /\ held[r].by = "loop"
    BY DEF HolderGoesOn, Types, Places
  <1>s. /\ starting' \in Starts
        /\ held[r].by # "start" => starting' = starting
        /\ held[r].by = "start" => starting'.step \in {"register", "none"}
        /\ starting'.step # "none" => starting'.owner = starting.owner /\ starting.step # "none"
    <2>1. starting' = IF held[r].by # "start" THEN starting
                      ELSE IF saved THEN [starting EXCEPT !.step = "register"] ELSE NoStart
      BY DEF HolderGoesOn
    <2>2. held[r].by = "start" => starting.step = "cancel"
      BY DEF Replacing
    <2>3. starting \in Starts /\ NoStart \in Starts /\ NoStart.step = "none"
      BY DEF Types, NoStart
    <2>4. CASE held[r].by # "start"
      BY <2>1, <2>3, <2>4
    <2>5. CASE held[r].by = "start" /\ saved
      BY <2>1, <2>2, <2>3, <2>5
    <2>6. CASE held[r].by = "start" /\ ~saved
      BY <2>1, <2>3, <2>6
    <2> QED
      BY <2>4, <2>5, <2>6
  <1>d. leaving' \in {leaving, Idle} /\ Idle.step = "none"
    BY DEF HolderGoesOn, Idle
  <1>1. Types'
    <2>1. cur' \in 0..MaxRuns
      BY <1>c, <1>r DEF Types
    <2>2. Idle \in Leaves
      BY <1>r DEF Idle, Types, Runs
    <2> QED
      BY <1>h, <1>c, <1>l, <1>s, <1>d, <2>1, <2>2 DEF Types
  <1>2. Launched'
    BY <1>h, <1>c, <1>r DEF Launched
  <1>3. Driving'
    BY <1>h, <1>c, <1>l, <1>f DEF Driving, Types
  <1>4. FiledOnce'
    BY <1>h, <1>c, <1>f DEF FiledOnce
  <1>5. Replacing'
    <2>1. CASE held[r].by = "start"
      <3>1. running' = {}
        BY <2>1, <1>c, <1>r DEF Replacing, Launched, Types
      <3> QED
        BY <3>1, <2>1, <1>h, <1>f, <1>s DEF Replacing
    <2>2. CASE held[r].by # "start"
      BY <2>2, <1>h, <1>c, <1>f, <1>s DEF Replacing
    <2> QED
      BY <2>1, <2>2
  <1>6. Detaching'
    BY <1>h, <1>d DEF Detaching
  <1> QED
    BY <1>1, <1>2, <1>3, <1>4, <1>5, <1>6

\* A cancellation by a handler or timer that is not a loop.
LEMMA CancelKeeps ==
    ASSUME IndInv, NEW r \in Runs, cur = r,
           NEW by \in {"client", "leave", "start", "reclaim"},
           CancelUnder(r, by),
           UNCHANGED <<owner, persisted, gen, loop, hours, report>>,
           IF by = "start"
             THEN /\ starting.step = "replace" 
                  /\ starting' = [starting EXCEPT !.step = IF r \in persisted THEN "register" ELSE "cancel"]
             ELSE starting' = starting,
           leaving' \in {leaving, Idle}
    PROVE  IndInv'
  <1> USE DEF IndInv, Locks, Starts, Leaves
  <1>r. r # 0 /\ r \in 1..MaxRuns /\ 0 \in 0..MaxRuns /\ 0 \notin Runs
    BY WebAssumption DEF Runs
  <1>f. /\ Free.by = "none" /\ Free.stage = "none"
        /\ held[r] = Free
    BY DEF Free, CancelUnder, Unlocked
  <1>d. /\ Idle.step = "none"
        /\ Idle \in Leaves
    BY <1>r DEF Idle
  <1>e. /\ starting' \in Starts
        /\ by = "start" => starting'.step = IF r \in persisted THEN "register" ELSE "cancel"
        /\ starting'.owner = starting.owner
        /\ by = "start" => starting.step # "none"
    BY DEF Types
  <1>1. CASE r \in persisted
    <2>1. /\ running' = running \ {r} /\ cur' \in {cur, 0} /\ held' = held
      BY <1>1 DEF CancelUnder, Finish, Launched
    <2>t. Types'
      BY <2>1, <1>r, <1>d, <1>e DEF Types
    <2>2. Launched'
      BY <2>1 DEF Launched
    <2>3. Driving'
      BY <2>1, <1>f DEF Driving
    <2>4. FiledOnce'
      BY <2>1 DEF FiledOnce
    <2>5. Replacing'
      BY <2>1, <1>1, <1>e DEF Replacing, Launched
    <2>6. Detaching'
      BY <2>1, <1>d DEF Detaching
    <2> QED
      BY <2>t, <2>2, <2>3, <2>4, <2>5, <2>6
  <1>2. CASE r \notin persisted
    <2>1. /\ running' = running /\ cur' = cur
          /\ held' \in [Runs -> Locks]
          /\ held'[r].by = by /\ held'[r].stage = "save" /\ held'[r].status \in {"ok", "partial"}
          /\ held'[r] # Free
          /\ \A q \in Runs : q # r => held'[q] = held[q]
      <3> DEFINE lock == [by |-> by, g |-> 0, stage |-> "save",
                          status |-> IF IsComplete(r) THEN "ok" ELSE "partial"]
      <3>1. /\ lock \in Locks /\ lock.by = by /\ lock.stage = "save" /\ lock.status \in {"ok", "partial"}
            /\ lock # Free
        BY DEF Holders, Stages, Verdicts, Free
      <3>2. running' = running /\ cur' = cur /\ held' = [held EXCEPT ![r] = lock]
        BY <1>2 DEF CancelUnder, Takes
      <3> HIDE DEF lock
      <3> QED
        BY <3>1, <3>2 DEF Types
    <2>t. Types'
      BY <2>1, <1>d, <1>e DEF Types
    <2>2. Launched'
      BY <2>1, <1>r DEF Launched
    <2>3. Driving'
      BY <2>1 DEF Driving
    <2>4. FiledOnce'
      BY <2>1, <1>2, <1>f DEF FiledOnce
    <2>5. Replacing'
      BY <2>1, <1>2, <1>e, <1>f DEF Replacing
    <2>6. Detaching'
      BY <2>1, <1>d, <1>f DEF Detaching
    <2> QED
      BY <2>t, <2>2, <2>3, <2>4, <2>5, <2>6
  <1> QED
    BY <1>1, <1>2

\* A step that leaves locks, live runs and reports alone.
LEMMA UntouchedKeeps ==
    ASSUME IndInv,
           UNCHANGED <<cur, owner, running, persisted, held, hours, report>>,
           gen' \in [Runs -> Nat], loop' \in [Runs -> [Loops -> Places]],
           \A r \in Runs : /\ gen[r] > 0 => gen'[r] > 0
                           /\ gen'[r] = 0 => loop'[r] = loop[r],
           starting' \in Starts,
           \/ starting' = starting
           \/ /\ starting.step # "cancel"
              /\ starting'.step = "register" => cur = 0
              /\ starting'.step # "none" => starting'.owner # "none",
           leaving' \in Leaves,
           \/ leaving' = leaving
           \/ leaving.step = "read" /\ leaving'.run = leaving.run
           \/ /\ leaving'.step \notin {"read", "decide"}
              /\ leaving'.step # "none" => leaving'.run \in Runs
    PROVE  IndInv'
  <1> USE DEF IndInv, Locks, Starts, Leaves
  <1>1. Types'
    BY DEF Types
  <1>2. Launched'
    BY DEF Launched
  <1>3. Driving'
    BY DEF Driving, Types
  <1>4. FiledOnce'
    BY DEF FiledOnce
  <1>5. Replacing'
    BY DEF Replacing, Launched, Types, Runs
  <1>6. Detaching'
    BY DEF Detaching
  <1> QED
    BY <1>1, <1>2, <1>3, <1>4, <1>5, <1>6

\* A step that takes, hands on or releases the lock of one run.
LEMMA LockKeeps ==
    ASSUME IndInv, NEW r \in Runs, NEW lock \in Locks,
           held' = [held EXCEPT ![r] = lock],
           UNCHANGED <<cur, owner, running, persisted, gen, report, starting>>,
           hours' \in [Runs -> Nat],
           loop' \in [Runs -> [Loops -> Places]],
           \A q \in Runs : gen[q] = 0 => loop'[q] = loop[q],
           lock.by \in {"none", "loop", "answer"},
           lock # Free => owner[r] # "none",
           lock.by = "loop" => r \in running /\ gen[r] > 0,
           lock.stage = "drive" => lock.by = "loop",
           lock.by = "answer" => lock.stage = "mid",
           lock.stage = "save" => lock.by = "loop" /\ lock.status \in {"ok", "failed", "refused"},
           lock.stage \notin {"published", "close"}, held[r].stage # "published",
           r \in persisted => lock = Free /\ r \notin running,
           leaving' \in Leaves,
           \/ leaving' = leaving /\ held[r].by # "leave"
           \/ leaving'.step = "schedule" /\ leaving'.run \in Runs
    PROVE  IndInv'
  <1> USE DEF IndInv, Locks, Starts, Leaves
  <1>h. /\ held' \in [Runs -> Locks]
        /\ held'[r] = lock
        /\ \A q \in Runs : q # r => held'[q] = held[q]
    BY DEF Types
  <1>f. Free.by = "none" /\ Free.stage = "none"
    BY DEF Free
  <1>1. Types'
    BY <1>h DEF Types
  <1>2. Launched'
    BY <1>h DEF Launched
  <1>3. Driving'
    BY <1>h DEF Driving, Types
  <1>4. FiledOnce'
    BY <1>h, <1>f DEF FiledOnce
  <1>5. Replacing'
    BY <1>h DEF Replacing
  <1>6. Detaching'
    BY <1>h DEF Detaching
  <1> QED
    BY <1>1, <1>2, <1>3, <1>4, <1>5, <1>6

\* A viewer that leaves takes the lock of its run, or ends it if it is filed.
LEMMA DisconnectKeeps ==
    ASSUME IndInv, Disconnect
    PROVE  IndInv'
  <1> USE DEF IndInv, Locks, Starts, Leaves
  <1>c. /\ cur \in Runs /\ cur # 0 /\ 0 \in 0..MaxRuns /\ 0 \notin Runs
        /\ owner[cur] # "none" /\ held[cur] = Free
    BY WebAssumption DEF Disconnect, Types, Runs, Unlocked
  <1>f. Free.by = "none" /\ Free.stage = "none"
    BY DEF Free
  <1>u. UNCHANGED <<owner, persisted, gen, loop, hours, report, starting>>
    BY DEF Disconnect, session
  <1>1. CASE cur \in persisted
    <2>1. cur' = 0 /\ running' = running \ {cur} /\ held' = held /\ leaving' = leaving
      BY <1>1 DEF Disconnect
    <2>t. Types'
      BY <1>u, <2>1, <1>c DEF Types
    <2>2. Launched'
      BY <1>u, <2>1, <1>c DEF Launched
    <2>3. Driving'
      BY <1>u, <2>1, <1>c, <1>f DEF Driving
    <2>4. FiledOnce'
      BY <1>u, <2>1 DEF FiledOnce
    <2>5. Replacing'
      BY <1>u, <2>1 DEF Replacing
    <2>6. Detaching'
      BY <1>u, <2>1 DEF Detaching
    <2> QED
      BY <2>t, <2>2, <2>3, <2>4, <2>5, <2>6
  <1>2. CASE cur \notin persisted
    <2>1. /\ cur' = cur /\ running' = running
          /\ held' \in [Runs -> Locks]
          /\ held'[cur].by = "leave" /\ held'[cur].stage = "mid"
          /\ \A q \in Runs : q # cur => held'[q] = held[q]
      <3>1. cur' = cur /\ running' = running /\ Takes(cur, "leave", 0, "mid", "none")
        BY <1>2 DEF Disconnect
      <3> QED
        BY <3>1, <1>c DEF Takes, Types, Holders, Stages, Verdicts
    <2>l. leaving' \in Leaves /\ leaving'.run = cur
      <3>1. leaving' = [Idle EXCEPT !.step = "read", !.run = cur]
        BY <1>2 DEF Disconnect
      <3> QED
        BY <3>1, <1>c DEF Idle, Types
    <2>t. Types'
      BY <1>u, <2>1, <2>l, <1>c DEF Types
    <2>2. Launched'
      BY <1>u, <2>1, <1>c DEF Launched
    <2>3. Driving'
      BY <1>u, <2>1, <1>c, <1>f DEF Driving
    <2>4. FiledOnce'
      BY <1>u, <2>1, <1>2, <1>c, <1>f DEF FiledOnce
    <2>5. Replacing'
      BY <1>u, <2>1 DEF Replacing
    <2>6. Detaching'
      BY <1>u, <2>1, <2>l, <1>c DEF Detaching
    <2> QED
      BY <2>t, <2>2, <2>3, <2>4, <2>5, <2>6
  <1> QED
    BY <1>1, <1>2

\* A run is registered when none is live.
LEMMA RegisterKeeps ==
    ASSUME IndInv, Register
    PROVE  IndInv'
  <1> USE DEF IndInv, Locks, Starts, Leaves
  <1>u. UNCHANGED <<persisted, gen, loop, held, hours, report, leaving>>
    BY DEF Register, session
  <1>1. PICK r \in Runs :
          /\ owner[r] = "none"
          /\ cur' = r
          /\ owner' = [owner EXCEPT ![r] = starting.owner]
          /\ running' = {r}
    BY DEF Register
  <1>2. /\ running = {} /\ starting.step = "register"
        /\ starting.owner # "none"
        /\ starting' \in Starts /\ starting'.step # "register"
        /\ starting'.step # "none" => starting'.owner # "none"
    BY DEF Register, Types, NoStart, Replacing
  <1>3. owner' \in [Runs -> {"none", "socket", "http"}] /\ \A q \in Runs : owner[q] # "none" \/ q = r => owner'[q] # "none"
    BY <1>1, <1>2 DEF Types
  <1>t. Types'
    BY <1>u, <1>1, <1>2, <1>3 DEF Types, Runs
  <1>4. Launched'
    BY <1>u, <1>1, <1>2, <1>3 DEF Launched
  <1>5. Driving'
    BY <1>u, <1>2 DEF Driving
  <1>6. FiledOnce'
    BY <1>u, <1>1 DEF FiledOnce, Launched
  <1>7. Replacing'
    BY <1>u, <1>2 DEF Replacing
  <1>8. Detaching'
    BY <1>u DEF Detaching
  <1> QED
    BY <1>t, <1>4, <1>5, <1>6, <1>7, <1>8

\* A run whose first loop cannot be started is dropped.
LEMMA LaunchFailsKeeps ==
    ASSUME IndInv, NEW r \in Runs, LaunchFails(r)
    PROVE  IndInv'
  <1> USE DEF IndInv, Locks, Starts, Leaves
  <1>u. UNCHANGED <<owner, persisted, gen, loop, held, hours, report, leaving>>
    BY DEF LaunchFails, session
  <1>1. /\ gen[r] = 0
        /\ cur' \in {cur, 0} /\ 0 \in 0..MaxRuns /\ 0 \notin Runs
        /\ running' = running \ {r}
        /\ cur' = cur => running' = running
        /\ cur' # cur => cur = r
    BY WebAssumption DEF LaunchFails, Launched, Runs
  <1>2. /\ starting' \in Starts
        /\ starting' = starting \/ (starting.step = "launch" /\ starting'.step = "none")
    BY DEF LaunchFails, LaunchOver, Types, NoStart
  <1>t. Types'
    BY <1>u, <1>1, <1>2 DEF Types
  <1>4. Launched'
    BY <1>u, <1>1 DEF Launched
  <1>5. Driving'
    BY <1>u, <1>1 DEF Driving
  <1>6. FiledOnce'
    BY <1>u, <1>1 DEF FiledOnce
  <1>7. Replacing'
    BY <1>u, <1>1, <1>2 DEF Replacing
  <1>8. Detaching'
    BY <1>u DEF Detaching
  <1> QED
    BY <1>t, <1>4, <1>5, <1>6, <1>7, <1>8

\* A loop moves itself, and no loop of another run.
LEMMA GoesFacts ==
    ASSUME IndInv, NEW r \in Runs, NEW g, NEW place \in Places, Goes(r, g, place)
    PROVE  /\ loop' \in [Runs -> [Loops -> Places]]
           /\ \A q \in Runs : q # r => loop'[q] = loop[q]
  BY DEF Goes, IndInv, Types

\* A loop that is somewhere was started.
LEMMA LoopStarted ==
    ASSUME IndInv, NEW r \in Runs, NEW g \in Loops, loop[r][g] # "none"
    PROVE  gen[r] > 0 /\ gen[r] # 0
  BY DEF IndInv, Types, Driving

\* A loop that moves on, or is left, touches neither lock nor report.
LEMMA MovesKeeps ==
    ASSUME IndInv, NEW r \in Runs, NEW g \in Loops, NEW place \in Places, Goes(r, g, place),
           loop[r][g] # "none",
           UNCHANGED <<cur, owner, running, persisted, gen, held, hours, report, starting, leaving>>
    PROVE  IndInv'
  <1>1. gen[r] > 0 /\ gen[r] # 0
    BY LoopStarted
  <1>2. /\ loop' \in [Runs -> [Loops -> Places]]
        /\ \A q \in Runs : q # r => loop'[q] = loop[q]
    BY GoesFacts
  <1> QED
    BY <1>1, <1>2, UntouchedKeeps DEF IndInv, Types

\* A loop that takes the lock of a run that is live and not filed.
LEMMA TakesKeeps ==
    ASSUME IndInv, NEW r \in Runs, NEW g \in Loops, NEW stage \in {"drive", "save"}, NEW status \in Verdicts,
           Takes(r, "loop", g, stage, status), held[r].by \in {"none", "loop"},
           held[r].stage # "published", r \in running, r \notin persisted, gen[r] > 0,
           stage = "save" => status \in {"ok", "failed", "refused"},
           loop' \in [Runs -> [Loops -> Places]],
           \A q \in Runs : q # r => loop'[q] = loop[q],
           UNCHANGED <<cur, owner, running, persisted, gen, hours, report, starting, leaving>>
    PROVE  IndInv'
  <1> DEFINE lock == [by |-> "loop", g |-> g, stage |-> stage, status |-> status]
  <1>1. lock \in Locks
    BY DEF Locks, Holders, Stages, Loops
  <1>2. held' = [held EXCEPT ![r] = lock]
    BY DEF Takes
  <1>3. owner[r] # "none"
    BY DEF IndInv, Launched, Types, Runs
  <1>4. /\ lock.by = "loop" /\ lock.stage = stage /\ lock.status = status
    OBVIOUS
  <1>5. gen[r] # 0 /\ hours' \in [Runs -> Nat] /\ leaving' \in Leaves
    BY DEF IndInv, Types
  <1>6. lock.stage \notin {"published", "close"}
    OBVIOUS
  <1> HIDE DEF lock
  <1> QED
    BY <1>1, <1>2, <1>3, <1>4, <1>5, <1>6, LockKeeps

\* The steps of a background loop.
LEMMA LoopStepKeeps ==
    ASSUME IndInv, NEW r \in Runs, NEW g \in Loops, LoopStep(r, g)
    PROVE  IndInv'
  <1> USE DEF flags, session, handlers, history, Places
  <1>h. /\ Unlocked(r) => /\ held[r].by = "none" /\ held[r].stage # "published"
                          /\ r \in running => r \notin persisted
        /\ held[r].stage = "drive" => /\ held[r].by = "loop" /\ r \in running /\ gen[r] > 0
                                      /\ r \notin persisted
    BY DEF IndInv, Unlocked, Free, Driving, FiledOnce
  <1>u. UNCHANGED loop => /\ loop' \in [Runs -> [Loops -> Places]]
                          /\ \A q \in Runs : q # r => loop'[q] = loop[q]
    BY DEF IndInv, Types
  <1>1. CASE Enter(r, g)
    <2>1. /\ loop[r][g] = "top" /\ Unlocked(r)
          /\ UNCHANGED <<cur, owner, running, persisted, gen, hours, report, starting, leaving>>
      BY <1>1 DEF Enter
    <2>2. CASE Goes(r, g, "leave") /\ UNCHANGED held
      BY <2>1, <2>2, MovesKeeps
    <2>3. CASE Live(r) /\ Goes(r, g, "held") /\ Takes(r, "loop", g, "drive", "none")
      <3>1. gen[r] > 0
        BY <2>1, LoopStarted
      <3>2. /\ loop' \in [Runs -> [Loops -> Places]]
            /\ \A q \in Runs : q # r => loop'[q] = loop[q]
        BY <2>3, GoesFacts
      <3>3. /\ r \in running /\ r \notin persisted /\ "none" \in Verdicts
            /\ held[r].by \in {"none", "loop"} /\ held[r].stage # "published"
        BY <1>h, <2>1, <2>3 DEF Live, Verdicts
      <3> QED
        BY <2>1, <2>3, <3>1, <3>2, <3>3, TakesKeeps
    <2> QED
      BY <1>1, <2>2, <2>3 DEF Enter
  <1>2. CASE Complete(r, g) \/ DriveRaises(r, g)
    <2>1. PICK s \in {"ok", "failed", "refused"} : Takes(r, "loop", g, "save", s)
      BY <1>2 DEF Complete, DriveRaises
    <2>2. /\ held[r].stage = "drive" /\ UNCHANGED loop
          /\ UNCHANGED <<cur, owner, running, persisted, gen, hours, report, starting, leaving>>
      BY <1>2 DEF Complete, DriveRaises, HoldsToDrive
    <2> QED
      BY <1>h, <1>u, <2>1, <2>2, TakesKeeps DEF Verdicts
  <1>3. CASE Drive(r, g)
    <2>1. /\ held[r].stage = "drive" /\ loop[r][g] # "none" /\ Releases(r)
          /\ UNCHANGED <<cur, owner, running, persisted, gen, report, starting, leaving>>
      BY <1>3 DEF Drive, HoldsToDrive
    <2>2. \E place \in Places : Goes(r, g, place)
      BY <1>3 DEF Drive
    <2>3. /\ loop' \in [Runs -> [Loops -> Places]]
          /\ \A q \in Runs : q # r => loop'[q] = loop[q]
      BY <2>2, GoesFacts
    <2>4. hours' \in [Runs -> Nat]
      BY <1>3 DEF Drive, IndInv, Types
    <2>5. Free \in Locks /\ Free.by = "none" /\ Free.stage = "none"
      BY DEF Free, Locks, Holders, Stages, Verdicts
    <2>6. held' = [held EXCEPT ![r] = Free] /\ gen[r] # 0 /\ leaving' \in Leaves /\ r \notin persisted
      BY <1>h, <2>1 DEF Releases, IndInv, Types
    <2> QED
      BY <1>h, <2>1, <2>3, <2>4, <2>5, <2>6, LockKeeps
  <1>4. CASE EmitHour(r, g) \/ Stall(r, g) \/ Park(r, g) \/ Announce(r, g) \/ Leave(r, g)
    <2>1. loop[r][g] # "none" /\ \E place \in Places : Goes(r, g, place)
      BY <1>4 DEF EmitHour, Stall, Park, Announce, Leave
    <2>2. UNCHANGED <<cur, owner, running, persisted, gen, held, hours, report, starting, leaving>>
      BY <1>4 DEF EmitHour, Stall, Park, Announce, Leave
    <2> QED
      BY <2>1, <2>2, MovesKeeps
  <1>5. CASE Refuse(r, g) \/ Stop(r, g)
    <2>1. /\ loop[r][g] # "none"
          /\ \E still \in BOOLEAN, status \in {"failed", "refused"} : Ends(r, g, still, status)
      BY <1>5 DEF Refuse, Stop
    <2>2. PICK still \in BOOLEAN, status \in {"failed", "refused"} : Ends(r, g, still, status)
      BY <2>1
    <2>3. /\ Unlocked(r)
          /\ UNCHANGED <<cur, owner, running, persisted, gen, hours, report, starting, leaving>>
      BY <2>2 DEF Ends
    <2>4. CASE Goes(r, g, "leave") /\ UNCHANGED held
      BY <2>1, <2>3, <2>4, MovesKeeps
    <2>5. CASE Live(r) /\ Takes(r, "loop", g, "save", status) /\ Goes(r, g, "held")
      <3>1. gen[r] > 0
        BY <2>1, LoopStarted
      <3>2. /\ loop' \in [Runs -> [Loops -> Places]]
            /\ \A q \in Runs : q # r => loop'[q] = loop[q]
        BY <2>5, GoesFacts
      <3>3. /\ r \in running /\ r \notin persisted /\ status \in Verdicts
            /\ held[r].by \in {"none", "loop"} /\ held[r].stage # "published"
        BY <1>h, <2>3, <2>5 DEF Live, Verdicts
      <3> QED
        BY <2>3, <2>5, <3>1, <3>2, <3>3, TakesKeeps
    <2> QED
      BY <2>2, <2>4, <2>5 DEF Ends
  <1> QED
    BY <1>1, <1>2, <1>3, <1>4, <1>5 DEF LoopStep

\* The steps of the start handler, before it registers its run.
LEMMA StartKeeps ==
    ASSUME IndInv, Replace \/ \E o \in {"socket", "http"} : Start(o)
    PROVE  IndInv'
  <1> USE DEF flags, session, handlers, history, Starts
  <1>t. /\ starting \in Starts /\ leaving \in Leaves /\ cur \in 0..MaxRuns
        /\ gen \in [Runs -> Nat] /\ loop \in [Runs -> [Loops -> Places]]
        /\ starting.step # "none" => starting.owner # "none"
    BY DEF IndInv, Types, Replacing
  <1>1. CASE \E o \in {"socket", "http"} : Start(o)
    <2>1. PICK o \in {"socket", "http"} : Start(o)
      BY <1>1
    <2>2. /\ starting.step = "none"
          /\ starting' \in Starts /\ starting'.owner # "none"
          /\ starting'.step = "register" => cur = 0
          /\ UNCHANGED <<cur, owner, running, persisted, held, gen, loop, hours, report, leaving>>
      BY <2>1 DEF Start, CommandLock
    <2> QED
      BY <1>t, <2>2, UntouchedKeeps
  <1>2. CASE Replace /\ cur = 0
    <2>1. /\ starting.step = "replace"
          /\ starting' = [starting EXCEPT !.step = "register"]
          /\ UNCHANGED <<cur, owner, running, persisted, held, gen, loop, hours, report, leaving>>
      BY <1>2 DEF Replace
    <2>2. starting' \in Starts /\ starting'.owner # "none"
      BY <1>t, <2>1
    <2> QED
      BY <1>t, <1>2, <2>1, <2>2, UntouchedKeeps
  <1>3. CASE Replace /\ cur # 0
    <2>1. /\ starting.step = "replace" /\ CancelUnder(cur, "start")
          /\ starting' = [starting EXCEPT !.step = IF cur \in persisted THEN "register" ELSE "cancel"]
          /\ UNCHANGED <<owner, persisted, gen, loop, hours, report, leaving>>
      BY <1>3 DEF Replace
    <2>2. cur \in Runs
      BY <1>3, <1>t, WebAssumption DEF Runs
    <2> QED
      BY <2>1, <2>2, CancelKeeps
  <1> QED
    BY <1>1, <1>2, <1>3

\* The steps of the disconnect handler, once it holds the lock of its run.
LEMMA LeaveStepKeeps ==
    ASSUME IndInv, LeaveStep
    PROVE  IndInv'
  <1> USE DEF flags, session, handlers, history, Leaves
  <1>t. /\ starting \in Starts /\ leaving \in Leaves
        /\ gen \in [Runs -> Nat] /\ loop \in [Runs -> [Loops -> Places]] /\ hours \in [Runs -> Nat]
        /\ Idle \in Leaves /\ Idle.step = "none"
    BY WebAssumption DEF IndInv, Types, Idle
  <1>r. leaving.step # "none" => leaving.run \in Runs
    BY DEF IndInv, Detaching
  <1>1. CASE ReadWaiting
    <2> DEFINE parked == leaving.run \in waiting
    <2>p. parked \in BOOLEAN
      OBVIOUS
    <2>l. leaving' = [leaving EXCEPT !.step = "decide", !.parked = parked]
      BY <1>1 DEF ReadWaiting
    <2> HIDE DEF parked
    <2>1. /\ leaving.step = "read"
          /\ UNCHANGED <<cur, owner, running, persisted, held, gen, loop, hours, report, starting>>
      BY <1>1 DEF ReadWaiting
    <2>2. leaving' \in Leaves /\ leaving'.run = leaving.run
      BY <1>t, <2>p, <2>l
    <2> QED
      BY <1>t, <2>1, <2>2, UntouchedKeeps
  <1>2. CASE ReadExited
    <2> DEFINE r == leaving.run
    <2>1. /\ leaving.step = "decide" /\ Releases(r)
          /\ \E restart \in BOOLEAN : leaving' = [leaving EXCEPT !.step = "schedule", !.restart = restart]
          /\ UNCHANGED <<cur, owner, running, persisted, gen, loop, hours, report, starting>>
      BY <1>2 DEF ReadExited
    <2>2. leaving' \in Leaves /\ leaving'.step = "schedule" /\ leaving'.run \in Runs /\ r \in Runs
      BY <1>t, <1>r, <2>1
    <2>3. held' = [held EXCEPT ![r] = Free] /\ Free \in Locks /\ Free.by = "none" /\ Free.stage = "none"
      BY <2>1 DEF Releases, Free, Locks, Holders, Stages, Verdicts
    <2>4. (r \in persisted => r \notin running) /\ held[r].stage # "published"
      BY <2>1, <2>2 DEF IndInv, Detaching, FiledOnce
    <2> HIDE DEF r
    <2> QED
      BY <1>t, <2>1, <2>2, <2>3, <2>4, LockKeeps
  <1>3. CASE Schedule
    <2>1. /\ leaving.step = "schedule"
          /\ leaving' \in {Idle, [leaving EXCEPT !.step = "cancel"]}
          /\ UNCHANGED <<cur, owner, running, persisted, held, gen, loop, hours, report, starting>>
      BY <1>3 DEF Schedule
    <2>2. /\ leaving' \in Leaves /\ leaving'.step \notin {"read", "decide"}
          /\ leaving'.step # "none" => leaving'.run \in Runs
      BY <1>t, <1>r, <2>1
    <2> QED
      BY <1>t, <2>1, <2>2, UntouchedKeeps
  <1>4. CASE CancelUnscheduled
    <2>1. /\ leaving.step = "cancel"
          /\ leaving' \in {leaving, Idle}
          /\ UNCHANGED <<owner, persisted, gen, loop, hours, report, starting>>
      BY <1>4 DEF CancelUnscheduled
    <2>2. CASE cur = leaving.run
      <3>1. CancelUnder(leaving.run, "leave")
        BY <1>4, <2>2 DEF CancelUnscheduled
      <3> QED
        BY <1>r, <2>1, <2>2, <3>1, CancelKeeps
    <2>3. CASE cur # leaving.run
      <3>1. leaving' = Idle /\ UNCHANGED <<cur, running, held>>
        BY <1>4, <2>3 DEF CancelUnscheduled
      <3> QED
        BY <1>t, <2>1, <3>1, UntouchedKeeps
    <2> QED
      BY <2>2, <2>3
  <1> QED
    BY <1>1, <1>2, <1>3, <1>4 DEF LeaveStep

\* The handlers and timers of a run other than these.
LEMMA RunStepKeeps ==
    ASSUME IndInv, NEW r \in Runs,
           \/ Answer(r) \/ AnswerRaises(r) \/ PauseOrResume(r) \/ ClientCancel(r) \/ Server(r)
    PROVE  IndInv'
  <1> USE DEF flags, session, handlers, history
  <1>t. /\ starting \in Starts /\ leaving \in Leaves
        /\ NoStart \in Starts /\ NoStart.step = "none"
        /\ gen \in [Runs -> Nat] /\ loop \in [Runs -> [Loops -> Places]] /\ hours \in [Runs -> Nat]
    BY DEF IndInv, Types, NoStart, Starts
  <1>1. CASE Answer(r)
    <2> DEFINE lock == [by |-> "answer", g |-> 0, stage |-> "mid", status |-> "none"]
    <2>1. /\ held[r].by = "none" /\ held[r].stage # "published"
          /\ r \notin persisted /\ owner[r] # "none"
          /\ held' = [held EXCEPT ![r] = lock]
          /\ UNCHANGED <<cur, owner, running, persisted, gen, loop, hours, report, starting, leaving>>
      <3>1. /\ held[r] = Free /\ r \in running /\ owner[r] = "socket"
            /\ Takes(r, "answer", 0, "mid", "none")
            /\ UNCHANGED <<cur, owner, running, persisted, gen, loop, hours, report, starting, leaving>>
        BY <1>1 DEF Answer, Unlocked, Live
      <3>2. held[r].by = "none" /\ held[r].stage \notin {"close", "published"}
        BY <3>1 DEF Free
      <3> QED
        BY <3>1, <3>2 DEF Takes, IndInv, FiledOnce
    <2>2. lock \in Locks /\ lock.by = "answer" /\ lock.stage = "mid"
      BY DEF Locks, Holders, Stages, Verdicts
    <2> HIDE DEF lock
    <2> QED
      BY <1>t, <2>1, <2>2, LockKeeps
  <1>2. CASE Answered(r)
    <2>1. /\ held[r].by = "answer" /\ held[r].stage # "published" /\ held' = [held EXCEPT ![r] = Free]
          /\ r \in persisted => r \notin running
          /\ UNCHANGED <<cur, owner, running, persisted, gen, loop, hours, report, starting, leaving>>
      BY <1>2 DEF Answered, Releases, IndInv, FiledOnce
    <2>2. Free \in Locks /\ Free.by = "none" /\ Free.stage = "none"
      BY DEF Free, Locks, Holders, Stages, Verdicts
    <2> QED
      BY <1>t, <2>1, <2>2, LockKeeps
  <1>3. CASE AnswerRaises(r) \/ PauseOrResume(r) \/ ReclaimDue(r)
    <2>1. UNCHANGED <<cur, owner, running, persisted, held, gen, loop, hours, report, starting, leaving>>
      BY <1>3 DEF AnswerRaises, PauseOrResume, ReclaimDue
    <2> QED
      BY <1>t, <2>1, UntouchedKeeps
  <1>4. CASE ClientCancel(r)
    BY <1>4, CancelKeeps DEF ClientCancel
  <1>5. CASE StartLoop(r)
    <2>1. UNCHANGED <<cur, owner, running, persisted, held, hours, report, leaving>>
      BY <1>5 DEF StartLoop, LaterFails
    <2>2. starting' \in {starting, NoStart} /\ (starting' # starting => starting.step = "launch")
      BY <1>5 DEF StartLoop, LaterFails, LaunchOver
    <2>3. CASE UNCHANGED <<gen, loop>>
      BY <1>t, <2>1, <2>2, <2>3, UntouchedKeeps
    <2>4. CASE gen' = [gen EXCEPT ![r] = @ + 1] /\ \E place \in {"top", "over"} : Goes(r, gen[r] + 1, place)
      <3>1. /\ loop' \in [Runs -> [Loops -> Places]]
            /\ \A q \in Runs : q # r => loop'[q] = loop[q]
        BY <2>4, GoesFacts DEF Places
      <3>2. gen' \in [Runs -> Nat] /\ gen'[r] > 0 /\ \A q \in Runs : q # r => gen'[q] = gen[q]
        BY <1>t, <2>4
      <3> QED
        BY <1>t, <2>1, <2>2, <3>1, <3>2, UntouchedKeeps
    <2> QED
      BY <1>5, <2>3, <2>4 DEF StartLoop, LaterFails
  <1>6. CASE Reclaim(r)
    <2>1. UNCHANGED <<owner, persisted, gen, loop, hours, report, starting, leaving>>
      BY <1>6 DEF Reclaim
    <2>2. CASE cur = r
      BY <1>6, <2>1, <2>2, CancelKeeps DEF Reclaim
    <2>3. CASE cur # r
      <3>1. UNCHANGED <<cur, running, held>>
        BY <1>6, <2>3 DEF Reclaim
      <3> QED
        BY <1>t, <2>1, <3>1, UntouchedKeeps
    <2> QED
      BY <2>2, <2>3
  <1> QED
    BY <1>1, <1>2, <1>3, <1>4, <1>5, <1>6 DEF Server

\* Every step of the workbench keeps the invariant.
THEOREM NextKeeps == IndInv /\ [Next]_vars => IndInv'
  <1> SUFFICES ASSUME IndInv, [Next]_vars PROVE IndInv'
    OBVIOUS
  <1>1. CASE UNCHANGED vars
    <2>1. UNCHANGED <<cur, owner, running, persisted, held, gen, loop, hours, report, starting, leaving>>
      BY <1>1 DEF vars, flags, session, handlers, history
    <2>2. /\ starting \in Starts /\ leaving \in Leaves
          /\ gen \in [Runs -> Nat] /\ loop \in [Runs -> [Loops -> Places]]
      BY DEF IndInv, Types
    <2> QED
      BY <2>1, <2>2, UntouchedKeeps
  <1>2. CASE \E r \in Runs : End(r)
    <2>1. PICK r \in Runs : End(r)
      BY <1>2
    <2>2. CASE Publish(r) \/ Saved(r)
      BY <2>2, PublishKeeps, SavedKeeps
    <2>3. CASE SaveFails(r)
      BY <2>3, FinishKeeps DEF SaveFails, session
    <2>4. CASE Close(r)
      BY <2>4, FinishKeeps DEF Close, session
    <2> QED
      BY <2>1, <2>2, <2>3, <2>4 DEF End
  <1>3. CASE Client
    BY <1>3, RunStepKeeps, StartKeeps, DisconnectKeeps DEF Client
  <1>4. CASE StartStep \/ LeaveStep
    BY <1>4, StartKeeps, RegisterKeeps, LeaveStepKeeps DEF StartStep
  <1>5. CASE \E r \in Runs : Server(r) \/ LaunchFails(r)
    BY <1>5, RunStepKeeps, LaunchFailsKeeps
  <1>6. CASE \E r \in Runs, g \in Loops : LoopStep(r, g)
    BY <1>6, LoopStepKeeps
  <1> QED
    BY <1>1, <1>2, <1>3, <1>4, <1>5, <1>6 DEF Next

---------------------------------------------------------------------------
\* A step that starts and ends no run, and neither simulates nor reports,
\* is nothing to RunLife.
LEMMA Stutters ==
    ASSUME UNCHANGED <<owner, running, hours, report>>
    PROVE  UNCHANGED Life!vars
  BY DEF Life!vars

\* A live run that lives no more has ended.
LEMMA Ending ==
    ASSUME IndInv, NEW r \in Runs, running' = running \ {r}, UNCHANGED <<owner, hours, report>>
    PROVE  [Life!Next]_(Life!vars)
  <1>1. CASE r \notin running
    <2>1. running' = running
      BY <1>1
    <2> QED
      BY <2>1, Stutters
  <1>2. CASE r \in running
    <2>1. owner[r] # "none"
      BY <1>2 DEF IndInv, Types, Launched, Runs
    <2>2. Life!End(r)
      BY <1>2, <2>1 DEF Life!End
    <2> QED
      BY <2>2 DEF Life!Next
  <1> QED
    BY <1>1, <1>2

\* The end of a run ends this one only.
LEMMA FinishEnds ==
    ASSUME IndInv, NEW r \in Runs, Finish(r)
    PROVE  running' = running \ {r}
  BY DEF IndInv, Launched, Finish

\* A cancellation ends its run, or leaves it live until its report is written.
LEMMA CancelEnds ==
    ASSUME IndInv, NEW r \in Runs, NEW by, CancelUnder(r, by)
    PROVE  running' \in {running, running \ {r}}
  BY FinishEnds DEF CancelUnder

\* Whoever publishes a report is the first: a loop for a live run, a
\* cancellation for one that was launched.
LEMMA Filing ==
    ASSUME IndInv, NEW r \in Runs, Publish(r)
    PROVE  [Life!Next]_(Life!vars)
  <1>1. PICK rep \in Filed(r) : report' = [report EXCEPT ![r] = rep]
    BY DEF Publish
  <1>2. /\ held[r].stage = "save" /\ report[r] = NoReport
        /\ UNCHANGED <<owner, running, hours>>
    BY DEF Publish, flags, session
  <1>3. owner[r] # "none"
    BY <1>2 DEF IndInv, Launched, Free
  <1>4. rep \in Reports /\ (rep.lifecycle = "complete" => r \in running)
    BY <1>1, <1>2 DEF Filed, IndInv, FiledOnce, Driving, Reports
  <1>5. Life!File(r)
    BY <1>1, <1>2, <1>3, <1>4 DEF Life!File
  <1> QED
    BY <1>5 DEF Life!Next

\* A loop drives a live run that has no report.
LEMMA Hours ==
    ASSUME IndInv, NEW r \in Runs, NEW g \in Loops, Drive(r, g)
    PROVE  [Life!Next]_(Life!vars)
  <1>1. /\ held[r].stage = "drive"
        /\ UNCHANGED <<owner, running, report>>
    BY DEF Drive, HoldsToDrive, flags
  <1>2. r \in running /\ report[r] = NoReport
    BY <1>1 DEF IndInv, Driving, FiledOnce
  <1>3. CASE UNCHANGED hours
    BY <1>1, <1>3, Stutters
  <1>4. CASE hours' = [hours EXCEPT ![r] = @ + 1]
    <2>1. Life!Hour(r)
      BY <1>1, <1>2, <1>4 DEF Life!Hour
    <2> QED
      BY <2>1 DEF Life!Next
  <1> QED
    BY <1>3, <1>4 DEF Drive

\* A run is registered when none is live, and was never before.
LEMMA Launching ==
    ASSUME IndInv, Register
    PROVE  [Life!Next]_(Life!vars)
  <1>1. PICK r \in Runs :
          /\ owner[r] = "none"
          /\ owner' = [owner EXCEPT ![r] = starting.owner]
          /\ running' = {r}
    BY DEF Register
  <1>2. running = {} /\ starting.owner # "none" /\ UNCHANGED <<hours, report>>
    BY DEF Register, IndInv, Replacing, session
  <1>3. Life!Launch(r)
    BY <1>1, <1>2 DEF Life!Launch, IndInv, Types
  <1> QED
    BY <1>3 DEF Life!Next

\* Every step of the workbench is a step of RunLife or a stutter.
THEOREM StepRefines == IndInv /\ [Next]_vars => [Life!Next]_(Life!vars)
  <1> SUFFICES ASSUME IndInv, [Next]_vars PROVE [Life!Next]_(Life!vars)
    OBVIOUS
  <1> USE DEF flags, session, handlers, history
  <1>1. CASE UNCHANGED <<owner, running, hours, report>>
    BY <1>1, Stutters
  <1>2. CASE UNCHANGED vars
    BY <1>1, <1>2 DEF vars
  <1>3. CASE \E r \in Runs : End(r)
    <2>1. PICK r \in Runs : End(r)
      BY <1>3
    <2>2. CASE Publish(r)
      BY <2>2, Filing
    <2>4. CASE Saved(r)
      BY <1>1, <2>4 DEF Saved
    <2>3. CASE SaveFails(r) \/ Close(r)
      BY <2>3, FinishEnds, Ending DEF SaveFails, Close
    <2> QED
      BY <2>1, <2>2, <2>3, <2>4 DEF End
  <1>4. CASE Client
    <2>1. CASE \E r \in Runs : Answer(r) \/ AnswerRaises(r) \/ PauseOrResume(r)
      BY <1>1, <2>1 DEF Answer, AnswerRaises, PauseOrResume
    <2>2. CASE \E r \in Runs : ClientCancel(r)
      <3>1. PICK r \in Runs : ClientCancel(r)
        BY <2>2
      <3>2. CancelUnder(r, "client") /\ UNCHANGED <<owner, hours, report>>
        BY <3>1 DEF ClientCancel
      <3> QED
        BY <1>1, <3>2, CancelEnds, Ending
    <2>3. CASE \E o \in {"socket", "http"} : Start(o)
      BY <1>1, <2>3 DEF Start
    <2>4. CASE Disconnect
      <3>1. /\ cur \in Runs /\ running' \in {running, running \ {cur}}
            /\ UNCHANGED <<owner, hours, report>>
        BY <2>4, WebAssumption DEF Disconnect, IndInv, Types, Runs
      <3> QED
        BY <1>1, <3>1, Ending
    <2> QED
      BY <1>4, <2>1, <2>2, <2>3, <2>4 DEF Client
  <1>5. CASE StartStep
    <2>1. CASE Replace
      <3>1. CASE cur = 0
        BY <1>1, <2>1, <3>1 DEF Replace
      <3>2. CASE cur # 0
        <4>1. cur \in Runs /\ CancelUnder(cur, "start") /\ UNCHANGED <<owner, hours, report>>
          BY <2>1, <3>2, WebAssumption DEF Replace, IndInv, Types, Runs
        <4> QED
          BY <1>1, <4>1, CancelEnds, Ending
      <3> QED
        BY <3>1, <3>2
    <2> QED
      BY <1>5, <2>1, Launching DEF StartStep
  <1>6. CASE LeaveStep
    <2>1. CASE ReadWaiting \/ ReadExited \/ Schedule
      BY <1>1, <2>1 DEF ReadWaiting, ReadExited, Schedule
    <2>2. CASE CancelUnscheduled
      <3>1. leaving.run \in Runs /\ UNCHANGED <<owner, hours, report>>
        BY <2>2 DEF CancelUnscheduled, IndInv, Detaching
      <3>2. UNCHANGED running \/ CancelUnder(leaving.run, "leave")
        BY <2>2 DEF CancelUnscheduled
      <3> QED
        BY <1>1, <3>1, <3>2, CancelEnds, Ending
    <2> QED
      BY <1>6, <2>1, <2>2 DEF LeaveStep
  <1>7. CASE \E r \in Runs : Server(r) \/ LaunchFails(r)
    <2>1. PICK r \in Runs : Server(r) \/ LaunchFails(r)
      BY <1>7
    <2>2. CASE StartLoop(r) \/ Answered(r) \/ ReclaimDue(r)
      BY <1>1, <2>2 DEF StartLoop, LaterFails, Answered, ReclaimDue
    <2>3. CASE Reclaim(r)
      <3>1. UNCHANGED <<owner, hours, report>> /\ (UNCHANGED running \/ CancelUnder(r, "reclaim"))
        BY <2>3 DEF Reclaim
      <3> QED
        BY <1>1, <3>1, CancelEnds, Ending
    <2>4. CASE LaunchFails(r)
      <3>1. UNCHANGED <<owner, hours, report>> /\ running' \in {running, running \ {r}}
        BY <2>4 DEF LaunchFails
      <3> QED
        BY <1>1, <3>1, Ending
    <2> QED
      BY <2>1, <2>2, <2>3, <2>4 DEF Server
  <1>8. CASE \E r \in Runs, g \in Loops : LoopStep(r, g)
    <2>1. PICK r \in Runs, g \in Loops : LoopStep(r, g)
      BY <1>8
    <2>2. CASE Drive(r, g)
      BY <2>2, Hours
    <2>3. CASE ~Drive(r, g)
      <3>1. UNCHANGED <<owner, running, hours, report>>
        BY <2>1, <2>3 DEF LoopStep, Enter, Complete, DriveRaises, EmitHour, Stall, Park, Announce,
           Refuse, Stop, Ends, Leave
      <3> QED
        BY <3>1, <1>1
    <2> QED
      BY <2>2, <2>3
  <1> QED
    BY <1>2, <1>3, <1>4, <1>5, <1>6, <1>7, <1>8 DEF Next

\* No run lives before it is launched.
THEOREM InitRefines == Init => Life!Init
  BY DEF Init, Life!Init

\* The invariant holds throughout.
THEOREM Invariant == Spec => []IndInv
  BY InitIndInv, NextKeeps, PTL DEF Spec

\* For any number of runs, hours and loops the runs live as RunLife promises,
\* whoever cancels, completes, replaces or reclaims them (web/events.py 554,
\* 674, 760).
THEOREM RunsLive == Spec => RunsLiveAsPromised
  <1>1. RunsLiveAsPromised <=> Life!Init /\ [][Life!Next]_(Life!vars)
    BY DEF RunsLiveAsPromised, Life!Spec
  <1> QED
    BY <1>1, Invariant, InitRefines, StepRefines, PTL DEF Spec

---------------------------------------------------------------------------
(***************************************************************************)
(* The viewer is told what is stored, once. A loop that is about to tell   *)
(* has filed what it tells, of a live run; a run the viewer was told about *)
(* is live no more, so that no loop tells of it again; and one that was    *)
(* told to have ended well was saved, so that nobody fails to save it.     *)
(***************************************************************************)
Telling(r) ==
    /\ "complete" \in told[r] => report[r] = [lifecycle |-> "complete", status |-> "ok"]
    /\ "refused" \in told[r] => report[r] = [lifecycle |-> "complete", status |-> "refused"]
    /\ \A d, e \in told[r] : d = e
    /\ told[r] # {} => r \notin running /\ owner[r] # "none"
    /\ told[r] \ {"unsaved"} # {} => r \in persisted
    /\ held[r].stage \in {"published", "close"} /\ held[r].by = "loop" =>
          /\ report[r].lifecycle = "complete"
          /\ report[r].status = "refused" <=> held[r].status = "refused"

ToldInv == DOMAIN told = Runs /\ \A r \in Runs : Telling(r)

\* At first nobody was told anything.
THEOREM InitTold == Init => ToldInv
  BY DEF Init, ToldInv, Telling, Free

\* The free lock is a lock.
LEMMA FreeLock == Free \in Locks
  BY DEF Free, Locks, Holders, Stages, Verdicts

\* Whoever neither files nor tells, and revives no run.
LEMMA QuietKeeps ==
    ASSUME IndInv, ToldInv, UNCHANGED <<told, report>>,
           persisted \subseteq persisted',
           \A r \in Runs : /\ held'[r].stage \in {"published", "close"} => held'[r] = held[r]
                           /\ owner[r] # "none" => owner'[r] # "none"
                           /\ r \in running' => r \in running \/ owner[r] = "none"
    PROVE  ToldInv'
  BY DEF ToldInv, Telling

\* Only a loop files a run as complete, and that one is live.
LEMMA PublishTold ==
    ASSUME IndInv, ToldInv, NEW r \in Runs, Publish(r)
    PROVE  ToldInv'
  <1>1. PICK rep \in Filed(r) : report' = [report EXCEPT ![r] = rep]
    BY DEF Publish
  <1>2. /\ held[r].stage = "save" /\ report[r] = NoReport
        /\ held' = [held EXCEPT ![r].stage = "published"]
        /\ UNCHANGED <<owner, running, persisted, told>>
    BY DEF Publish, flags, history
  <1>3. /\ held'[r].stage = "published" /\ held'[r].by = held[r].by /\ held'[r].status = held[r].status
        /\ report'[r] = rep
        /\ \A q \in Runs : q # r => held'[q] = held[q] /\ report'[q] = report[q]
    BY <1>1, <1>2 DEF IndInv, Types, Locks
  <1>4. held[r].by = "loop" => /\ rep.lifecycle = "complete"
                               /\ rep.status = "refused" <=> held[r].status = "refused"
    BY <1>1, <1>2 DEF Filed, IndInv, FiledOnce
  <1>5. Telling(r)'
    BY <1>2, <1>3, <1>4 DEF ToldInv, Telling, NoReport
  <1>6. \A q \in Runs : q # r => Telling(q)'
    BY <1>2, <1>3 DEF ToldInv, Telling
  <1> QED
    BY <1>2, <1>5, <1>6 DEF ToldInv

\* What was published is known to be saved.
LEMMA SavedTold ==
    ASSUME IndInv, ToldInv, NEW r \in Runs, Saved(r)
    PROVE  ToldInv'
  <1>1. /\ held[r].stage = "published" /\ held' = [held EXCEPT ![r].stage = "close"]
        /\ persisted' = persisted \cup {r}
        /\ UNCHANGED <<owner, running, report, told>>
    BY DEF Saved, history
  <1>2. /\ held'[r].stage = "close" /\ held'[r].by = held[r].by /\ held'[r].status = held[r].status
        /\ \A q \in Runs : q # r => held'[q] = held[q]
    BY <1>1 DEF IndInv, Types, Locks
  <1>3. Telling(r)'
    BY <1>1, <1>2 DEF ToldInv, Telling
  <1>4. \A q \in Runs : q # r => Telling(q)'
    BY <1>1, <1>2 DEF ToldInv, Telling
  <1> QED
    BY <1>1, <1>3, <1>4 DEF ToldInv

\* The end of a run is told, or the loss of its report: nothing was told of a
\* live run, and nothing but a loss of one that is not saved.
LEMMA EndTold ==
    ASSUME IndInv, ToldInv, NEW r \in Runs, SaveFails(r) \/ Close(r)
    PROVE  ToldInv'
  <1>1. /\ running' = running \ {r} /\ held' = [held EXCEPT ![r] = Free]
        /\ UNCHANGED <<owner, persisted, report>>
    BY FinishEnds DEF SaveFails, Close, HolderGoesOn, Releases
  <1>2. /\ held'[r].stage = "none" /\ \A q \in Runs : q # r => held'[q] = held[q]
    BY <1>1 DEF Free, IndInv, Types
  <1>3. CASE UNCHANGED told
    BY <1>1, <1>2, <1>3, QuietKeeps
  <1>4. CASE told' # told
    <2>1. PICK e : told' = [told EXCEPT ![r] = @ \cup {e}] /\
             \/ e = "unsaved" /\ held[r].stage \in {"save", "published"}
             \/ e \in Verdict(r) /\ held[r].stage = "close" /\ held[r].by = "loop"
      BY <1>4 DEF SaveFails, Close
    <2>2. told'[r] = told[r] \cup {e} /\ \A q \in Runs : q # r => told'[q] = told[q]
      BY <2>1 DEF ToldInv
    <2>3. told[r] \subseteq {e} /\ (e # "unsaved" => told[r] = {} /\ r \in persisted)
      <3>1. CASE e = "unsaved" /\ held[r].stage \in {"save", "published"}
        <4>1. r \notin persisted
          BY <3>1 DEF IndInv, FiledOnce
        <4> QED
          BY <3>1, <4>1 DEF ToldInv, Telling
      <3>2. CASE e \in Verdict(r) /\ held[r].stage = "close" /\ held[r].by = "loop"
        <4>1. r \in running
          BY <3>2 DEF IndInv, Driving
        <4>2. told[r] = {}
          BY <4>1 DEF ToldInv, Telling
        <4>3. r \in persisted
          BY <3>2, <4>1 DEF IndInv, FiledOnce
        <4> QED
          BY <4>2, <4>3
      <3> QED
        BY <2>1, <3>1, <3>2
    <2>4. /\ e = "complete" => report[r].lifecycle = "complete" /\ report[r].status = "ok"
          /\ e = "refused" => report[r].lifecycle = "complete" /\ report[r].status = "refused"
      BY <2>1 DEF Verdict, ToldInv, Telling
    <2>5. report[r] \in Reports \/ report[r] = NoReport
      BY DEF IndInv, Types
    <2>6. owner[r] # "none" /\ r \notin running'
      BY <1>1, <2>1 DEF IndInv, Launched, Free
    <2>7. Telling(r)'
      <3>1. /\ "complete" \in told'[r] => report'[r] = [lifecycle |-> "complete", status |-> "ok"]
            /\ "refused" \in told'[r] => report'[r] = [lifecycle |-> "complete", status |-> "refused"]
        BY <1>1, <2>2, <2>4, <2>5 DEF ToldInv, Telling, Reports, NoReport
      <3>2. told'[r] = {e}
        BY <2>2, <2>3
      <3>3. told'[r] \ {"unsaved"} # {} => r \in persisted'
        BY <1>1, <2>3, <3>2
      <3> QED
        BY <1>1, <1>2, <2>6, <3>1, <3>2, <3>3 DEF Telling
    <2>8. \A q \in Runs : q # r => Telling(q)'
      BY <1>1, <1>2, <2>2 DEF ToldInv, Telling
    <2> QED
      BY <2>1, <2>7, <2>8 DEF ToldInv
  <1> QED
    BY <1>3, <1>4

\* Every step tells the truth.
THEOREM ToldKept == IndInv /\ ToldInv /\ [Next]_vars => ToldInv'
  <1> SUFFICES ASSUME IndInv, ToldInv, [Next]_vars PROVE ToldInv'
    OBVIOUS
  <1> USE DEF flags, session, handlers, history
  <1>f. Free.stage = "none"
    BY DEF Free
  <1>1. CASE UNCHANGED <<told, report, held, owner, running, persisted>>
    BY <1>1, QuietKeeps
  <1>2. ASSUME NEW r \in Runs, NEW lock \in Locks, lock.stage \notin {"published", "close"},
               held' \in {held, [held EXCEPT ![r] = lock]}, running' \subseteq running,
               UNCHANGED <<told, report, owner, persisted>>
        PROVE  ToldInv'
    <2>1. \A q \in Runs : held'[q].stage \in {"published", "close"} => held'[q] = held[q]
      BY <1>2 DEF IndInv, Types
    <2> QED
      BY <1>2, <2>1, QuietKeeps
  <1>3. CASE \E r \in Runs : End(r)
    BY <1>3, PublishTold, SavedTold, EndTold DEF End
  <1>4. ASSUME NEW r \in Runs, NEW by \in {"client", "leave", "start", "reclaim"}, CancelUnder(r, by),
               UNCHANGED <<told, report, owner, persisted>>
        PROVE  ToldInv'
    <2>1. running' \subseteq running
      BY <1>4, CancelEnds
    <2>2. \E lock \in Locks : lock.stage \notin {"published", "close"} /\ held' \in {held, [held EXCEPT ![r] = lock]}
      <3> DEFINE lock == [by |-> by, g |-> 0, stage |-> "save",
                          status |-> IF IsComplete(r) THEN "ok" ELSE "partial"]
      <3>1. lock \in Locks /\ lock.stage \notin {"published", "close"}
        BY DEF Locks, Holders, Stages, Verdicts
      <3>2. held' \in {held, [held EXCEPT ![r] = lock]}
        BY <1>4 DEF CancelUnder, Takes
      <3> QED
        BY <3>1, <3>2
    <2> QED
      BY <1>2, <1>4, <2>1, <2>2
  <1>5. CASE Client
    <2>1. CASE \E r \in Runs : AnswerRaises(r) \/ PauseOrResume(r) \/ \E o \in {"socket", "http"} : Start(o)
      BY <1>1, <2>1 DEF AnswerRaises, PauseOrResume, Start
    <2>2. CASE \E r \in Runs : Answer(r)
      <3>1. PICK r \in Runs : Takes(r, "answer", 0, "mid", "none") /\ UNCHANGED <<told, report, owner, running, persisted>>
        BY <2>2 DEF Answer
      <3>2. [by |-> "answer", g |-> 0, stage |-> "mid", status |-> "none"] \in Locks
        BY DEF Locks, Holders, Stages, Verdicts
      <3> QED
        BY <1>2, <3>1, <3>2 DEF Takes
    <2>3. CASE \E r \in Runs : ClientCancel(r)
      BY <1>4, <2>3 DEF ClientCancel
    <2>4. CASE Disconnect
      <3>1. cur \in Runs
        BY <2>4 DEF Disconnect, IndInv, Types, Runs
      <3>2. /\ running' \subseteq running /\ UNCHANGED <<told, report, owner, persisted>>
            /\ held' = held \/ Takes(cur, "leave", 0, "mid", "none")
        BY <2>4 DEF Disconnect
      <3>3. [by |-> "leave", g |-> 0, stage |-> "mid", status |-> "none"] \in Locks
        BY DEF Locks, Holders, Stages, Verdicts
      <3> QED
        BY <1>2, <3>1, <3>2, <3>3 DEF Takes
    <2> QED
      BY <1>5, <2>1, <2>2, <2>3, <2>4 DEF Client, Start, AnswerRaises, PauseOrResume
  <1>6. CASE StartStep
    <2>1. CASE Replace
      <3>1. CASE cur = 0
        BY <1>1, <2>1, <3>1 DEF Replace
      <3>2. CASE cur # 0
        <4>1. cur \in Runs /\ CancelUnder(cur, "start") /\ UNCHANGED <<told, report, owner, persisted>>
          BY <2>1, <3>2, WebAssumption DEF Replace, IndInv, Types, Runs
        <4> QED
          BY <1>4, <4>1
      <3> QED
        BY <3>1, <3>2
    <2>2. CASE Register
      <3>1. PICK r \in Runs :
              /\ owner[r] = "none"
              /\ owner' = [owner EXCEPT ![r] = starting.owner]
              /\ running' = {r}
        BY <2>2 DEF Register
      <3>2. UNCHANGED <<told, report, held, persisted>>
        BY <2>2 DEF Register
      <3>3. \A q \in Runs : owner[q] # "none" => owner'[q] # "none"
        BY <3>1 DEF IndInv, Types
      <3> QED
        BY <3>1, <3>2, <3>3, QuietKeeps
    <2> QED
      BY <1>6, <2>1, <2>2 DEF StartStep
  <1>7. CASE LeaveStep
    <2>1. CASE ReadWaiting \/ Schedule
      BY <1>1, <2>1 DEF ReadWaiting, Schedule
    <2>2. CASE ReadExited
      <3>1. /\ leaving.run \in Runs /\ Releases(leaving.run)
            /\ UNCHANGED <<told, report, owner, running, persisted>>
        BY <2>2 DEF ReadExited, IndInv, Detaching
      <3> QED
        BY <1>2, <1>f, <3>1, FreeLock DEF Releases
    <2>3. CASE CancelUnscheduled
      <3>1. leaving.run \in Runs /\ UNCHANGED <<told, report, owner, persisted>>
        BY <2>3 DEF CancelUnscheduled, IndInv, Detaching
      <3>2. UNCHANGED <<held, running>> \/ CancelUnder(leaving.run, "leave")
        BY <2>3 DEF CancelUnscheduled
      <3> QED
        BY <1>1, <1>4, <3>1, <3>2
    <2> QED
      BY <1>7, <2>1, <2>2, <2>3 DEF LeaveStep
  <1>8. CASE \E r \in Runs : Server(r) \/ LaunchFails(r)
    <2>1. PICK r \in Runs : Server(r) \/ LaunchFails(r)
      BY <1>8
    <2>2. CASE StartLoop(r) \/ ReclaimDue(r)
      BY <1>1, <2>2 DEF StartLoop, LaterFails, ReclaimDue
    <2>3. CASE Answered(r)
      BY <1>2, <1>f, <2>3, FreeLock DEF Answered, Releases
    <2>4. CASE Reclaim(r)
      <3>1. UNCHANGED <<told, report, owner, persisted>> /\ (UNCHANGED <<held, running>> \/ CancelUnder(r, "reclaim"))
        BY <2>4 DEF Reclaim
      <3> QED
        BY <1>1, <1>4, <3>1
    <2>5. CASE LaunchFails(r)
      <3>1. UNCHANGED <<told, report, owner, held, persisted>> /\ running' \subseteq running
        BY <2>5 DEF LaunchFails
      <3> QED
        BY <3>1, QuietKeeps
    <2> QED
      BY <2>1, <2>2, <2>3, <2>4, <2>5 DEF Server
  <1>9. CASE \E r \in Runs, g \in Loops : LoopStep(r, g)
    <2>1. PICK r \in Runs, g \in Loops : LoopStep(r, g)
      BY <1>9
    <2>2. UNCHANGED <<told, report, owner, running, persisted>>
      BY <2>1 DEF LoopStep, Enter, Complete, Drive, DriveRaises, EmitHour, Stall, Park, Announce,
         Refuse, Stop, Ends, Leave
    <2>3. \/ held' = held \/ Releases(r)
          \/ \E stage \in {"drive", "save"}, status \in {"none", "ok", "failed", "refused"} :
                Takes(r, "loop", g, stage, status)
      BY <2>1 DEF LoopStep, Enter, Complete, Drive, DriveRaises, EmitHour, Stall, Park, Announce,
         Refuse, Stop, Ends, Leave
    <2>4. \A stage \in {"drive", "save"}, status \in {"none", "ok", "failed", "refused"} :
             [by |-> "loop", g |-> g, stage |-> stage, status |-> status] \in Locks
      BY DEF Locks, Holders, Stages, Verdicts, Loops
    <2>5. CASE held' = held \/ Releases(r)
      BY <1>2, <1>f, <2>2, <2>5, FreeLock DEF Releases
    <2>6. CASE \E stage \in {"drive", "save"}, status \in {"none", "ok", "failed", "refused"} :
                 Takes(r, "loop", g, stage, status)
      <3>1. PICK stage \in {"drive", "save"}, status \in {"none", "ok", "failed", "refused"} :
              Takes(r, "loop", g, stage, status)
        BY <2>6
      <3> DEFINE lock == [by |-> "loop", g |-> g, stage |-> stage, status |-> status]
      <3>2. lock \in Locks /\ lock.stage \notin {"published", "close"} /\ held' = [held EXCEPT ![r] = lock]
        BY <2>4, <3>1 DEF Takes
      <3> HIDE DEF lock
      <3> QED
        BY <1>2, <2>2, <3>2
    <2> QED
      BY <2>3, <2>5, <2>6
  <1>10. CASE UNCHANGED vars
    BY <1>1, <1>10 DEF vars
  <1> QED
    BY <1>3, <1>5, <1>6, <1>7, <1>8, <1>9, <1>10 DEF Next

\* The viewer is told what is stored, for any number of runs, hours and loops.
THEOREM TellsTruly == Spec => []ToldTruly
  <1>1. Spec => []ToldInv
    BY Invariant, InitTold, ToldKept, PTL DEF Spec
  <1>2. ToldInv => ToldTruly
    BY DEF ToldInv, Telling, ToldTruly
  <1> QED
    BY <1>1, <1>2, PTL

---------------------------------------------------------------------------
(***************************************************************************)
(* The types. A loop is inside the lock of its run exactly when it holds   *)
(* it: for that, no loop beyond the last one started may be anywhere.      *)
(***************************************************************************)
Sized ==
    /\ paused \subseteq Runs /\ waiting \subseteq Runs /\ exited \subseteq Runs /\ gone \subseteq Runs
    /\ dropped \subseteq Runs
    /\ gen \in [Runs -> 0..MaxLoops]
    /\ due \in [Runs -> Nat]
    /\ sess \in [Runs -> {"going", "gate", "complete", "refused"}]
    /\ told \in [Runs -> SUBSET {"complete", "refused", "error", "unsaved"}]
    /\ reclaim \in [Runs -> {"off", "waiting", "firing"}]

\* A loop is inside the lock when it is its holder, and loops are numbered in
\* the order of their starts.
Placed(r) ==
    /\ held[r].g \in 0..MaxLoops
    /\ \A g \in Loops : /\ loop[r][g] = "held" <=> held[r].by = "loop" /\ held[r].g = g
                        /\ g > gen[r] => loop[r][g] = "none"

\* An hour is simulated while there is one left; a filed run has its report.
Timed(r) ==
    /\ hours[r] <= MaxHours(r)
    /\ ~IsComplete(r) => hours[r] < MaxHours(r)
    /\ r \in persisted => report[r] # NoReport

SizeInv == Sized /\ \A r \in Runs : Placed(r) /\ Timed(r)

\* At first nothing runs, and there is an hour to simulate.
LEMMA InitSized == Init => SizeInv
  BY WebAssumption DEF Init, SizeInv, Sized, Placed, Timed, IsComplete, MaxHours, Free, Loops, Runs

\* A run that a step does not touch keeps its place.
LEMMA PlacedFrame ==
    ASSUME NEW r \in Runs, Placed(r), UNCHANGED <<held[r], loop[r], gen[r]>>
    PROVE  Placed(r)'
  BY DEF Placed

\* A lock that no loop had is taken or released by somebody who is no loop.
LEMMA PlacedPassed ==
    ASSUME NEW r \in Runs, Placed(r), UNCHANGED <<loop[r], gen[r]>>,
           held[r].by # "loop", held'[r].by # "loop", held'[r].g \in 0..MaxLoops
    PROVE  Placed(r)'
  BY DEF Placed

\* A loop outside the lock moves on.
LEMMA PlacedMoved ==
    ASSUME IndInv, NEW r \in Runs, NEW g \in Loops, NEW place \in Places, Placed(r),
           Goes(r, g, place), loop[r][g] \notin {"held", "none"}, place # "held",
           UNCHANGED <<held[r], gen[r]>>
    PROVE  Placed(r)'
  <1>1. loop'[r][g] = place /\ \A f \in Loops : f # g => loop'[r][f] = loop[r][f]
    BY DEF Goes, IndInv, Types
  <1>2. ~(g > gen[r])
    BY DEF Placed
  <1> QED
    BY <1>1, <1>2 DEF Placed

\* A loop takes the lock that was free.
LEMMA PlacedTaken ==
    ASSUME IndInv, NEW r \in Runs, NEW g \in Loops, NEW stage, NEW status, Placed(r),
           Goes(r, g, "held"), loop[r][g] # "none", Unlocked(r),
           Takes(r, "loop", g, stage, status), UNCHANGED gen[r]
    PROVE  Placed(r)'
  <1>1. loop'[r][g] = "held" /\ \A f \in Loops : f # g => loop'[r][f] = loop[r][f]
    BY DEF Goes, IndInv, Types
  <1>2. ~(g > gen[r]) /\ g \in 0..MaxLoops
    BY WebAssumption DEF Placed, Loops
  <1>3. held[r].by # "loop" /\ held'[r].by = "loop" /\ held'[r].g = g
    BY DEF Unlocked, Free, Takes, IndInv, Types
  <1> QED
    BY <1>1, <1>2, <1>3 DEF Placed

\* A loop that has the lock keeps it for another purpose.
LEMMA PlacedKept ==
    ASSUME IndInv, NEW r \in Runs, NEW g \in Loops, NEW stage, NEW status, Placed(r),
           loop[r][g] = "held", Takes(r, "loop", g, stage, status), UNCHANGED <<loop, gen[r]>>
    PROVE  Placed(r)'
  <1>1. held'[r].by = "loop" /\ held'[r].g = g
    BY DEF Takes, IndInv, Types
  <1>2. held[r].by = "loop" /\ held[r].g = g
    BY DEF Placed
  <1> QED
    BY <1>1, <1>2 DEF Placed

\* The holder of the lock releases it; a loop goes elsewhere.
LEMMA PlacedReleased ==
    ASSUME IndInv, NEW r \in Runs, Placed(r), Releases(r), UNCHANGED gen[r],
           NEW place \in Places, place # "held",
           loop' = IF held[r].by = "loop" THEN [loop EXCEPT ![r][held[r].g] = place] ELSE loop
    PROVE  Placed(r)'
  <1>1. held'[r] = Free /\ Free.by # "loop" /\ Free.g \in 0..MaxLoops
    BY WebAssumption DEF Releases, Free, IndInv, Types
  <1>2. \A f \in Loops : /\ loop[r][f] = "held" <=> held[r].by = "loop" /\ held[r].g = f
                         /\ f > gen[r] => loop[r][f] = "none"
    BY DEF Placed
  <1>3. CASE held[r].by # "loop"
    BY <1>1, <1>2, <1>3 DEF Placed
  <1>4. CASE held[r].by = "loop"
    <2>1. \A f \in Loops : loop'[r][f] = IF f = held[r].g THEN place ELSE loop[r][f]
      BY <1>4 DEF IndInv, Types
    <2> QED
      BY <1>1, <1>2, <1>4, <2>1 DEF Placed
  <1> QED
    BY <1>3, <1>4

\* A run that a step neither simulates nor files.
LEMMA TimedFrame ==
    ASSUME NEW r \in Runs, Timed(r), UNCHANGED <<hours[r], sess[r], report[r]>>, persisted' = persisted
    PROVE  Timed(r)'
  BY DEF Timed, IsComplete

\* The steps of a loop other than driving, which leave the clock alone.
LEMMA LoopPlaced ==
    ASSUME IndInv, SizeInv, NEW r \in Runs, NEW g \in Loops, LoopStep(r, g)
    PROVE  Placed(r)'
  <1> USE DEF flags, session, handlers, history, Places
  <1>p. Placed(r) /\ UNCHANGED gen
    BY DEF SizeInv, LoopStep, Enter, Complete, Drive, DriveRaises, EmitHour, Stall, Park, Announce,
       Refuse, Stop, Ends, Leave
  <1>1. CASE Enter(r, g)
    <2>1. loop[r][g] = "top" /\ Unlocked(r)
      BY <1>1 DEF Enter
    <2>2. CASE Goes(r, g, "leave") /\ UNCHANGED held
      BY <1>p, <2>1, <2>2, PlacedMoved
    <2>3. CASE Goes(r, g, "held") /\ Takes(r, "loop", g, "drive", "none")
      BY <1>p, <2>1, <2>3, PlacedTaken
    <2> QED
      BY <1>1, <2>2, <2>3 DEF Enter
  <1>2. CASE Complete(r, g) \/ DriveRaises(r, g)
    <2>1. PICK s \in {"ok", "failed", "refused"} : Takes(r, "loop", g, "save", s)
      BY <1>2 DEF Complete, DriveRaises
    <2>2. loop[r][g] = "held" /\ UNCHANGED loop
      BY <1>2 DEF Complete, DriveRaises, HoldsToDrive
    <2> QED
      BY <1>p, <2>1, <2>2, PlacedKept
  <1>3. CASE Drive(r, g)
    <2>1. loop[r][g] = "held" /\ Releases(r)
      BY <1>3 DEF Drive, HoldsToDrive
    <2>2. PICK place \in Places : Goes(r, g, place) /\ place # "held"
      BY <1>3 DEF Drive
    <2>3. held[r].by = "loop" /\ held[r].g = g
      BY <1>p, <2>1 DEF Placed
    <2> QED
      BY <1>p, <2>1, <2>2, <2>3, PlacedReleased DEF Goes
  <1>4. CASE EmitHour(r, g) \/ Stall(r, g) \/ Park(r, g) \/ Announce(r, g) \/ Leave(r, g)
    <2>1. loop[r][g] \notin {"none", "held"} /\ \E place \in Places : Goes(r, g, place) /\ place # "held"
      BY <1>4 DEF EmitHour, Stall, Park, Announce, Leave
    <2>2. UNCHANGED held
      BY <1>4 DEF EmitHour, Stall, Park, Announce, Leave
    <2> QED
      BY <1>p, <2>1, <2>2, PlacedMoved
  <1>5. CASE Refuse(r, g) \/ Stop(r, g)
    <2>1. loop[r][g] \notin {"none", "held"}
      BY <1>5 DEF Refuse, Stop
    <2>2. PICK still \in BOOLEAN, status \in {"failed", "refused"} : Ends(r, g, still, status)
      BY <1>5 DEF Refuse, Stop
    <2>3. Unlocked(r)
      BY <2>2 DEF Ends
    <2>4. CASE Goes(r, g, "leave") /\ UNCHANGED held
      BY <1>p, <2>1, <2>4, PlacedMoved
    <2>5. CASE Takes(r, "loop", g, "save", status) /\ Goes(r, g, "held")
      BY <1>p, <2>1, <2>3, <2>5, PlacedTaken
    <2> QED
      BY <2>2, <2>4, <2>5 DEF Ends
  <1> QED
    BY <1>1, <1>2, <1>3, <1>4, <1>5 DEF LoopStep

\* A step of a loop touches only its run.
LEMMA LoopElsewhere ==
    ASSUME IndInv, Sized, NEW r \in Runs, NEW g \in Loops, LoopStep(r, g), NEW q \in Runs, q # r
    PROVE  UNCHANGED <<held[q], loop[q], gen[q], hours[q], sess[q]>>
  <1>1. \/ held' = held
        \/ \E lock : held' = [held EXCEPT ![r] = lock]
    BY DEF LoopStep, Enter, Complete, Drive, DriveRaises, EmitHour, Stall, Park, Announce,
       Refuse, Stop, Ends, Leave, Takes, Releases
  <1>2. \/ loop' = loop
        \/ \E place : loop' = [loop EXCEPT ![r][g] = place]
    BY DEF LoopStep, Enter, Complete, Drive, DriveRaises, EmitHour, Stall, Park, Announce,
       Refuse, Stop, Ends, Leave, Goes
  <1>3. \/ UNCHANGED <<sess, hours>>
        \/ /\ \E s : sess' = [sess EXCEPT ![r] = s]
           /\ hours' = hours \/ hours' = [hours EXCEPT ![r] = @ + 1]
    BY DEF LoopStep, Enter, Complete, Drive, DriveRaises, EmitHour, Stall, Park, Announce,
       Refuse, Stop, Ends, Leave, session
  <1>4. UNCHANGED gen
    BY DEF LoopStep, Enter, Complete, Drive, DriveRaises, EmitHour, Stall, Park, Announce,
       Refuse, Stop, Ends, Leave
  <1>5. held'[q] = held[q]
    BY <1>1 DEF IndInv, Types
  <1>6. loop'[q] = loop[q]
    BY <1>2 DEF IndInv, Types
  <1> QED
    BY <1>3, <1>4, <1>5, <1>6 DEF IndInv, Types, Sized

\* An hour is simulated by the holder of the lock of a run that goes on.
LEMMA LoopTimed ==
    ASSUME IndInv, SizeInv, NEW r \in Runs, NEW g \in Loops, LoopStep(r, g)
    PROVE  Timed(r)'
  <1>t. Timed(r) /\ hours[r] \in Nat /\ MaxHours(r) \in Nat
    BY WebAssumption DEF SizeInv, IndInv, Types, MaxHours
  <1>u. UNCHANGED <<persisted, report>>
    BY DEF LoopStep, Enter, Complete, Drive, DriveRaises, EmitHour, Stall, Park, Announce,
       Refuse, Stop, Ends, Leave, flags
  <1>1. CASE UNCHANGED <<sess, hours>>
    BY <1>t, <1>u, <1>1 DEF Timed, IsComplete
  <1>2. CASE Drive(r, g)
    <2>1. hours[r] < MaxHours(r)
      BY <1>t, <1>2 DEF Timed, Drive
    <2>2. CASE UNCHANGED hours /\ sess' = [sess EXCEPT ![r] = "complete"]
      BY <1>t, <1>u, <2>2 DEF Timed, IsComplete, SizeInv, Sized
    <2>3. ASSUME hours' = [hours EXCEPT ![r] = @ + 1], NEW s, sess' = [sess EXCEPT ![r] = s],
                 s \in {"complete", "refused"} \/ hours'[r] < MaxHours(r)
          PROVE  Timed(r)'
      <3>1. hours'[r] = hours[r] + 1 /\ sess'[r] = s /\ hours[r] + 1 <= MaxHours(r)
        BY <1>t, <2>1, <2>3 DEF SizeInv, Sized, IndInv, Types
      <3>2. MaxHours(r)' = MaxHours(r)
        BY DEF MaxHours
      <3> QED
        BY <1>t, <1>u, <2>3, <3>1, <3>2 DEF Timed, IsComplete
    <2> QED
      BY <1>1, <1>2, <2>2, <2>3 DEF Drive
  <1> QED
    BY <1>1, <1>2 DEF LoopStep, Enter, Complete, DriveRaises, EmitHour, Stall, Park, Announce,
       Refuse, Stop, Ends, Leave, session

\* The variables of a loop's step have their types after it.
LEMMA LoopSized ==
    ASSUME IndInv, SizeInv, NEW r \in Runs, NEW g \in Loops, LoopStep(r, g)
    PROVE  Sized'
  <1> USE DEF flags, session, handlers, history, Sized, SizeInv
  <1>1. CASE Enter(r, g) \/ Complete(r, g) \/ DriveRaises(r, g) \/ EmitHour(r, g) \/ Stall(r, g)
             \/ Announce(r, g) \/ Refuse(r, g) \/ Stop(r, g)
    BY <1>1 DEF Enter, Complete, DriveRaises, EmitHour, Stall, Announce, Refuse, Stop, Ends
  <1>2. CASE Drive(r, g)
    BY <1>2 DEF Drive
  <1>3. CASE Park(r, g)
    BY <1>3 DEF Park
  <1>4. CASE Leave(r, g)
    BY <1>4 DEF Leave
  <1> QED
    BY <1>1, <1>2, <1>3, <1>4 DEF LoopStep

\* A step of a loop.
LEMMA LoopSizes ==
    ASSUME IndInv, SizeInv, NEW r \in Runs, NEW g \in Loops, LoopStep(r, g)
    PROVE  SizeInv'
  <1>1. UNCHANGED <<persisted, report>>
    BY DEF LoopStep, Enter, Complete, Drive, DriveRaises, EmitHour, Stall, Park, Announce,
       Refuse, Stop, Ends, Leave, flags
  <1>2. ASSUME NEW q \in Runs PROVE Placed(q)' /\ Timed(q)'
    <2>1. CASE q = r
      BY <2>1, LoopPlaced, LoopTimed
    <2>2. CASE q # r
      BY <1>1, <2>2, LoopElsewhere, PlacedFrame, TimedFrame DEF SizeInv
    <2> QED
      BY <2>1, <2>2
  <1> QED
    BY <1>2, LoopSized DEF SizeInv

\* A step that simulates and files nothing, and touches one lock, one loop.
LEMMA OneRunSizes ==
    ASSUME SizeInv, Sized', NEW r \in Runs, Placed(r)',
           \A q \in Runs : q # r => UNCHANGED <<held[q], loop[q], gen[q]>>,
           \A q \in Runs : IsComplete(q) => IsComplete(q)',
           UNCHANGED <<hours, report, persisted>>
    PROVE  SizeInv'
  <1>1. ASSUME NEW q \in Runs PROVE Placed(q)'
    <2>1. CASE q = r
      BY <2>1
    <2>2. CASE q # r
      BY <2>2, PlacedFrame DEF SizeInv
    <2> QED
      BY <2>1, <2>2
  <1>2. ASSUME NEW q \in Runs PROVE Timed(q)'
    <2>1. Timed(q) /\ MaxHours(q)' = MaxHours(q)
      BY DEF SizeInv, MaxHours
    <2> QED
      BY <2>1 DEF Timed
  <1> QED
    BY <1>1, <1>2 DEF SizeInv

\* A step that touches no lock and no loop, and simulates and files nothing.
LEMMA NoRunSizes ==
    ASSUME SizeInv, Sized', UNCHANGED <<held, loop, gen, sess, hours, report, persisted>>
    PROVE  SizeInv'
  <1>1. ASSUME NEW q \in Runs PROVE Placed(q)' /\ Timed(q)'
    BY PlacedFrame, TimedFrame DEF SizeInv
  <1> QED
    BY <1>1 DEF SizeInv

\* A lock that passes between a handler and nobody.
LEMMA PassedSizes ==
    ASSUME IndInv, SizeInv, Sized', NEW r \in Runs, NEW lock \in Locks,
           lock.by # "loop", lock.g = 0, held[r].by # "loop",
           held' = [held EXCEPT ![r] = lock],
           \A q \in Runs : IsComplete(q) => IsComplete(q)',
           UNCHANGED <<loop, gen, hours, report, persisted>>
    PROVE  SizeInv'
  <1>1. held'[r] = lock /\ \A q \in Runs : q # r => held'[q] = held[q]
    BY DEF IndInv, Types
  <1>2. Placed(r) /\ 0 \in 0..MaxLoops
    BY WebAssumption DEF SizeInv
  <1>3. Placed(r)'
    BY <1>1, <1>2, PlacedPassed
  <1> QED
    BY <1>1, <1>3, OneRunSizes

\* A report is published.
LEMMA PublishSizes ==
    ASSUME IndInv, SizeInv, NEW r \in Runs, Publish(r)
    PROVE  SizeInv'
  <1> USE DEF flags, session, handlers, history
  <1>1. PICK rep \in Filed(r) : report' = [report EXCEPT ![r] = rep]
    BY DEF Publish
  <1>2. rep # NoReport
    BY DEF Filed, NoReport
  <1>3. /\ report'[r] = rep /\ \A q \in Runs : q # r => report'[q] = report[q]
        /\ held'[r].by = held[r].by /\ held'[r].g = held[r].g
        /\ \A q \in Runs : q # r => held'[q] = held[q]
    BY <1>1 DEF Publish, IndInv, Types, Locks
  <1>4. UNCHANGED <<gen, loop, hours, sess, persisted>>
    BY DEF Publish
  <1>5. Sized'
    BY DEF SizeInv, Sized, Publish
  <1>6. ASSUME NEW q \in Runs PROVE Placed(q)'
    BY <1>3, <1>4 DEF SizeInv, Placed
  <1>7. ASSUME NEW q \in Runs PROVE Timed(q)'
    <2>1. Timed(q) /\ MaxHours(q)' = MaxHours(q) /\ IsComplete(q)' = IsComplete(q)
      BY <1>4 DEF SizeInv, MaxHours, IsComplete
    <2> QED
      BY <1>2, <1>3, <1>4, <2>1 DEF Timed
  <1> QED
    BY <1>5, <1>6, <1>7 DEF SizeInv

\* A run that is filed has its report.
LEMMA SavedSizes ==
    ASSUME IndInv, SizeInv, NEW r \in Runs, Saved(r)
    PROVE  SizeInv'
  <1> USE DEF session, handlers, history
  <1>1. /\ held'[r].by = held[r].by /\ held'[r].g = held[r].g
        /\ \A q \in Runs : q # r => held'[q] = held[q]
    BY DEF Saved, IndInv, Types, Locks
  <1>2. /\ UNCHANGED <<gen, loop, hours, sess, report>> /\ persisted' = persisted \cup {r}
        /\ report[r] # NoReport
    BY DEF Saved, IndInv, FiledOnce
  <1>3. Sized'
    BY DEF SizeInv, Sized, Saved
  <1>4. ASSUME NEW q \in Runs PROVE Placed(q)'
    BY <1>1, <1>2 DEF SizeInv, Placed
  <1>5. ASSUME NEW q \in Runs PROVE Timed(q)'
    <2>1. Timed(q) /\ MaxHours(q)' = MaxHours(q) /\ IsComplete(q)' = IsComplete(q)
      BY <1>2 DEF SizeInv, MaxHours, IsComplete
    <2> QED
      BY <1>2, <2>1 DEF Timed
  <1> QED
    BY <1>3, <1>4, <1>5 DEF SizeInv

\* The end of a run, with its report or without.
LEMMA FinishSizes ==
    ASSUME IndInv, SizeInv, NEW r \in Runs, SaveFails(r) \/ Close(r)
    PROVE  SizeInv'
  <1> USE DEF flags, session, handlers, history
  <1>1. PICK saved \in BOOLEAN : HolderGoesOn(r, saved)
    BY DEF SaveFails, Close
  <1>2. /\ Finish(r)
        /\ UNCHANGED <<owner, waiting, exited, gone, persisted, dropped, gen, due, sess, hours, report>>
    BY DEF SaveFails, Close
  <1>3. Releases(r) /\ loop' = IF held[r].by = "loop" THEN [loop EXCEPT ![r][held[r].g] = "leave"] ELSE loop
    BY <1>1 DEF HolderGoesOn
  <1>4. Placed(r)'
    BY <1>2, <1>3, PlacedReleased DEF SizeInv, Places
  <1>5. \A q \in Runs : q # r => UNCHANGED <<held[q], loop[q], gen[q]>>
    BY <1>2, <1>3 DEF Releases, IndInv, Types
  <1>6. Sized'
    <2>1. \/ told' = told
          \/ \E e \in {"complete", "refused", "error", "unsaved"} : told' = [told EXCEPT ![r] = @ \cup {e}]
      BY DEF SaveFails, Close, Verdict
    <2>2. told' \in [Runs -> SUBSET {"complete", "refused", "error", "unsaved"}]
      BY <2>1 DEF SizeInv, Sized
    <2>3. reclaim' \in [Runs -> {"off", "waiting", "firing"}]
      BY <1>1 DEF SizeInv, Sized, HolderGoesOn
    <2>4. paused' \subseteq Runs
      BY <1>2 DEF SizeInv, Sized, Finish
    <2> QED
      BY <1>2, <2>2, <2>3, <2>4 DEF SizeInv, Sized
  <1>7. \A q \in Runs : IsComplete(q) => IsComplete(q)'
    BY <1>2 DEF IsComplete
  <1> QED
    BY <1>2, <1>4, <1>5, <1>6, <1>7, OneRunSizes

\* A cancellation takes the lock, or ends a run that is filed.
LEMMA CancelSizes ==
    ASSUME IndInv, SizeInv, NEW r \in Runs, NEW by \in Holders \ {"loop"}, CancelUnder(r, by),
           UNCHANGED <<waiting, exited, gone, persisted, gen, loop, due, session, report, history>>,
           reclaim' \in [Runs -> {"off", "waiting", "firing"}]
    PROVE  SizeInv'
  <1>1. Sized'
    BY DEF SizeInv, Sized, CancelUnder, Finish, session, history
  <1>2. CASE r \in persisted
    BY <1>1, <1>2, NoRunSizes DEF CancelUnder, session
  <1>3. CASE r \notin persisted
    <2> DEFINE lock == [by |-> by, g |-> 0, stage |-> "save",
                        status |-> IF IsComplete(r) THEN "ok" ELSE "partial"]
    <2>1. lock \in Locks /\ lock.by # "loop" /\ lock.g = 0
      BY DEF Locks, Stages, Verdicts
    <2>2. held' = [held EXCEPT ![r] = lock] /\ held[r].by # "loop"
      BY <1>3 DEF CancelUnder, Takes, Unlocked, Free
    <2>3. \A q \in Runs : IsComplete(q) => IsComplete(q)'
      BY DEF IsComplete, session
    <2> HIDE DEF lock
    <2> QED
      BY <1>1, <2>1, <2>2, <2>3, PassedSizes DEF session
  <1> QED
    BY <1>2, <1>3

\* A viewer that leaves.
LEMMA DisconnectSizes ==
    ASSUME IndInv, SizeInv, Disconnect
    PROVE  SizeInv'
  <1> USE DEF flags, session, handlers, history
  <1>1. /\ cur \in Runs /\ held[cur] = Free
        /\ UNCHANGED <<loop, gen, sess, hours, report, persisted>>
    BY WebAssumption DEF Disconnect, IndInv, Types, Runs, Unlocked
  <1>2. Sized'
    BY <1>1 DEF SizeInv, Sized, Disconnect
  <1>3. CASE UNCHANGED held
    BY <1>1, <1>2, <1>3, NoRunSizes
  <1>4. CASE Takes(cur, "leave", 0, "mid", "none")
    <2>1. [by |-> "leave", g |-> 0, stage |-> "mid", status |-> "none"] \in Locks
      BY DEF Locks, Holders, Stages, Verdicts
    <2>2. held[cur].by # "loop"
      BY <1>1 DEF Free
    <2>3. \A q \in Runs : IsComplete(q) => IsComplete(q)'
      BY <1>1 DEF IsComplete
    <2> QED
      BY <1>1, <1>2, <1>4, <2>1, <2>2, <2>3, PassedSizes DEF Takes
  <1> QED
    BY <1>3, <1>4 DEF Disconnect

\* The other handlers and the timer of a run.
LEMMA RunStepSizes ==
    ASSUME IndInv, SizeInv, NEW r \in Runs,
           \/ Answer(r) \/ AnswerRaises(r) \/ PauseOrResume(r) \/ ClientCancel(r)
           \/ Server(r) \/ LaunchFails(r)
    PROVE  SizeInv'
  <1> USE DEF flags, session, handlers, history
  <1>1. CASE Answer(r)
    <2>1. Sized'
      BY <1>1 DEF SizeInv, Sized, Answer
    <2>2. /\ Takes(r, "answer", 0, "mid", "none") /\ held[r].by # "loop"
          /\ UNCHANGED <<loop, gen, hours, report, persisted>>
      BY <1>1 DEF Answer, Unlocked, Free
    <2>3. \A q \in Runs : IsComplete(q) => IsComplete(q)'
      BY <1>1 DEF IsComplete, Answer, SizeInv, Sized
    <2>4. [by |-> "answer", g |-> 0, stage |-> "mid", status |-> "none"] \in Locks
      BY DEF Locks, Holders, Stages, Verdicts
    <2> QED
      BY <2>1, <2>2, <2>3, <2>4, PassedSizes DEF Takes
  <1>2. CASE Answered(r)
    <2>1. Sized'
      BY <1>2 DEF SizeInv, Sized, Answered
    <2>2. /\ Releases(r) /\ held[r].by # "loop"
          /\ UNCHANGED <<loop, gen, sess, hours, report, persisted>>
      BY <1>2 DEF Answered
    <2>3. Free \in Locks /\ Free.by # "loop" /\ Free.g = 0
      BY DEF Free, Locks, Holders, Stages, Verdicts
    <2>4. \A q \in Runs : IsComplete(q) => IsComplete(q)'
      BY <2>2 DEF IsComplete
    <2> QED
      BY <2>1, <2>2, <2>3, <2>4, PassedSizes DEF Releases
  <1>3. CASE PauseOrResume(r) \/ ReclaimDue(r) \/ LaunchFails(r)
    <2>1. Sized'
      BY <1>3 DEF SizeInv, Sized, PauseOrResume, ReclaimDue, LaunchFails
    <2>2. UNCHANGED <<held, loop, gen, sess, hours, report, persisted>>
      BY <1>3 DEF PauseOrResume, ReclaimDue, LaunchFails
    <2> QED
      BY <2>1, <2>2, NoRunSizes
  <1>4. CASE ClientCancel(r)
    <2>1. reclaim' \in [Runs -> {"off", "waiting", "firing"}]
      BY <1>4 DEF ClientCancel, SizeInv, Sized
    <2> QED
      BY <1>4, <2>1, CancelSizes DEF ClientCancel, Holders
  <1>5. CASE StartLoop(r)
    <2>1. UNCHANGED <<held, sess, hours, report, persisted>>
      BY <1>5 DEF StartLoop, LaterFails
    <2>2. Sized'
      <3>1. gen' \in [Runs -> 0..MaxLoops]
        <4>1. gen' = gen \/ (gen[r] < MaxLoops /\ gen' = [gen EXCEPT ![r] = @ + 1])
          BY <1>5 DEF StartLoop, LaterFails
        <4>2. gen[r] < MaxLoops => gen[r] + 1 \in 0..MaxLoops
          BY WebAssumption DEF SizeInv, Sized
        <4> QED
          BY <4>1, <4>2 DEF SizeInv, Sized
      <3>2. due' \in [Runs -> Nat]
        <4>1. due[r] \in Nat /\ due[r] - 1 \in Nat /\ due' = [due EXCEPT ![r] = @ - 1]
          BY <1>5 DEF StartLoop, LaterFails, SizeInv, Sized
        <4> QED
          BY <4>1 DEF SizeInv, Sized
      <3>3. /\ exited' \subseteq exited \cup {r} /\ dropped' \subseteq dropped \cup {r}
            /\ UNCHANGED <<paused, waiting, gone, sess, told, reclaim>>
        BY <1>5 DEF StartLoop, LaterFails
      <3> QED
        BY <3>1, <3>2, <3>3 DEF SizeInv, Sized
    <2>3. CASE UNCHANGED <<gen, loop>>
      BY <2>1, <2>2, <2>3, NoRunSizes
    <2>4. CASE /\ gen' = [gen EXCEPT ![r] = @ + 1] /\ gen[r] < MaxLoops
               /\ \E place \in {"top", "over"} : Goes(r, gen[r] + 1, place)
      <3>p. PICK place \in {"top", "over"} : Goes(r, gen[r] + 1, place)
        BY <2>4
      <3>1. /\ gen'[r] = gen[r] + 1 /\ \A q \in Runs : q # r => gen'[q] = gen[q]
            /\ gen[r] \in Nat /\ gen[r] + 1 \in Loops
        BY <2>4, WebAssumption DEF SizeInv, Sized, Loops
      <3>2. /\ \A f \in Loops : loop'[r][f] = IF f = gen[r] + 1 THEN place ELSE loop[r][f]
            /\ \A q \in Runs : q # r => loop'[q] = loop[q]
        BY <3>p DEF Goes, IndInv, Types
      <3>3. Placed(r)'
        BY <2>1, <3>1, <3>2 DEF SizeInv, Placed, Loops
      <3>4. \A q \in Runs : IsComplete(q) => IsComplete(q)'
        BY <2>1 DEF IsComplete
      <3> QED
        BY <2>1, <2>2, <3>1, <3>2, <3>3, <3>4, OneRunSizes
    <2> QED
      BY <1>5, <2>3, <2>4 DEF StartLoop, LaterFails
  <1>7. CASE AnswerRaises(r)
    <2>1. Sized'
      BY <1>7 DEF SizeInv, Sized, AnswerRaises
    <2>2. UNCHANGED <<held, loop, gen, hours, report, persisted>>
      BY <1>7 DEF AnswerRaises
    <2>3. \A q \in Runs : IsComplete(q) => IsComplete(q)'
      BY <1>7 DEF IsComplete, AnswerRaises, SizeInv, Sized
    <2>4. Placed(r)'
      BY <2>2, PlacedFrame DEF SizeInv
    <2> QED
      BY <2>1, <2>2, <2>3, <2>4, OneRunSizes
  <1>6. CASE Reclaim(r)
    <2>1. Sized'
      BY <1>6 DEF SizeInv, Sized, Reclaim, CancelUnder, Finish
    <2>2. UNCHANGED <<waiting, exited, gone, persisted, gen, loop, due, session, report, history>>
      BY <1>6 DEF Reclaim
    <2>3. CASE UNCHANGED held
      BY <2>1, <2>2, <2>3, NoRunSizes
    <2>4. CASE CancelUnder(r, "reclaim")
      BY <2>1, <2>2, <2>4, CancelSizes DEF Sized, Holders
    <2> QED
      BY <1>6, <2>3, <2>4 DEF Reclaim
  <1> QED
    BY <1>1, <1>2, <1>3, <1>4, <1>5, <1>6, <1>7 DEF Server

\* The start handler and the disconnect handler.
LEMMA HandlerSizes ==
    ASSUME IndInv, SizeInv, StartStep \/ LeaveStep \/ \E o \in {"socket", "http"} : Start(o)
    PROVE  SizeInv'
  <1> USE DEF flags, session, handlers, history
  <1>1. CASE Register \/ ReadWaiting \/ Schedule \/ \E o \in {"socket", "http"} : Start(o)
    <2>1. Sized'
      <3>1. CASE Register
        BY <3>1 DEF SizeInv, Sized, Register
      <3>2. CASE ReadWaiting \/ Schedule \/ \E o \in {"socket", "http"} : Start(o)
        BY <3>2 DEF SizeInv, Sized, ReadWaiting, Schedule, Start
      <3> QED
        BY <1>1, <3>1, <3>2
    <2>2. UNCHANGED <<held, loop, gen, sess, hours, report, persisted>>
      BY <1>1 DEF Register, ReadWaiting, Schedule, Start
    <2> QED
      BY <2>1, <2>2, NoRunSizes
  <1>2. CASE Replace
    <2>1. /\ UNCHANGED <<waiting, exited, gone, persisted, gen, loop, due, session, report, history, reclaim>>
          /\ UNCHANGED <<cur, running, paused, held>> \/ (cur # 0 /\ CancelUnder(cur, "start"))
      BY <1>2 DEF Replace
    <2>2. reclaim' \in [Runs -> {"off", "waiting", "firing"}]
      BY <2>1 DEF SizeInv, Sized
    <2>3. CASE UNCHANGED <<cur, running, paused, held>>
      <3>1. Sized'
        BY <2>1, <2>3 DEF SizeInv, Sized
      <3> QED
        BY <2>1, <2>3, <3>1, NoRunSizes
    <2>4. CASE cur # 0 /\ CancelUnder(cur, "start")
      <3>1. cur \in Runs
        BY <2>4, WebAssumption DEF IndInv, Types, Runs
      <3> QED
        BY <2>1, <2>2, <2>4, <3>1, CancelSizes DEF Holders
    <2> QED
      BY <2>1, <2>3, <2>4
  <1>3. CASE ReadExited
    <2>1. /\ leaving.run \in Runs /\ held[leaving.run].by # "loop" /\ Releases(leaving.run)
          /\ UNCHANGED <<loop, gen, sess, hours, report, persisted>>
      BY <1>3 DEF ReadExited, IndInv, Detaching
    <2>2. Sized'
      BY <1>3, <2>1 DEF ReadExited, SizeInv, Sized
    <2>3. Free \in Locks /\ Free.by # "loop" /\ Free.g = 0
      BY DEF Free, Locks, Holders, Stages, Verdicts
    <2>4. \A q \in Runs : IsComplete(q) => IsComplete(q)'
      BY <2>1 DEF IsComplete
    <2> QED
      BY <2>1, <2>2, <2>3, <2>4, PassedSizes DEF Releases
  <1>4. CASE CancelUnscheduled
    <2>1. /\ UNCHANGED <<waiting, exited, gone, persisted, gen, loop, due, session, report, history, reclaim>>
          /\ UNCHANGED <<cur, running, paused, held>> \/ CancelUnder(leaving.run, "leave")
          /\ leaving.run \in Runs
      BY <1>4 DEF CancelUnscheduled, IndInv, Detaching
    <2>2. reclaim' \in [Runs -> {"off", "waiting", "firing"}]
      BY <2>1 DEF SizeInv, Sized
    <2>3. CASE UNCHANGED <<cur, running, paused, held>>
      <3>1. Sized'
        BY <2>1, <2>3 DEF SizeInv, Sized
      <3> QED
        BY <2>1, <2>3, <3>1, NoRunSizes
    <2>4. CASE CancelUnder(leaving.run, "leave")
      BY <2>1, <2>2, <2>4, CancelSizes DEF Holders
    <2> QED
      BY <2>1, <2>3, <2>4
  <1> QED
    BY <1>1, <1>2, <1>3, <1>4 DEF StartStep, LeaveStep

\* Every step keeps the sizes.
THEOREM NextSizes == IndInv /\ SizeInv /\ [Next]_vars => SizeInv'
  <1> SUFFICES ASSUME IndInv, SizeInv, [Next]_vars PROVE SizeInv'
    OBVIOUS
  <1>1. CASE UNCHANGED vars
    <2>1. Sized'
      BY <1>1 DEF SizeInv, Sized, vars, flags, session, handlers, history
    <2> QED
      BY <1>1, <2>1, NoRunSizes DEF vars, flags, session, handlers, history
  <1>2. CASE \E r \in Runs : End(r)
    BY <1>2, PublishSizes, SavedSizes, FinishSizes DEF End
  <1>3. CASE Client
    BY <1>3, RunStepSizes, HandlerSizes, DisconnectSizes DEF Client
  <1>4. CASE StartStep \/ LeaveStep
    BY <1>4, HandlerSizes
  <1>5. CASE \E r \in Runs : Server(r) \/ LaunchFails(r)
    BY <1>5, RunStepSizes
  <1>6. CASE \E r \in Runs, g \in Loops : LoopStep(r, g)
    BY <1>6, LoopSizes
  <1> QED
    BY <1>1, <1>2, <1>3, <1>4, <1>5, <1>6 DEF Next

\* Every variable of the workbench has its type throughout, a loop is inside
\* the lock exactly when it holds it, and no run is driven past its hours.
THEOREM TypesHold == Spec => []TypeOK
  <1>1. Spec => []SizeInv
    BY InitSized, Invariant, NextSizes, PTL DEF Spec
  <1>2. IndInv /\ SizeInv => TypeOK
    <2> SUFFICES ASSUME IndInv, SizeInv PROVE TypeOK
      OBVIOUS
    <2>1. held \in [Runs -> [by : Holders, g : 0..MaxLoops,
                             stage : {"none", "drive", "save", "published", "close", "mid"},
                             status : {"none", "ok", "failed", "refused", "partial"}]]
      BY DEF IndInv, Types, Locks, Stages, Verdicts, SizeInv, Placed
    <2>2. persisted \subseteq Runs /\ running \subseteq Runs /\ running \subseteq {cur}
      BY DEF IndInv, Types, Launched
    <2>3. \A S \in {running, paused, waiting, exited, gone, persisted, dropped} : S \subseteq Runs
      BY <2>2 DEF SizeInv, Sized
    <2>4. \A r \in Runs : \A g \in Loops :
            /\ loop[r][g] \in Places
            /\ loop[r][g] = "held" <=> held[r].by = "loop" /\ held[r].g = g
      BY DEF SizeInv, Placed, IndInv, Types
    <2>5. \A r \in Runs : hours[r] <= MaxHours(r)
      BY DEF SizeInv, Timed
    <2>6. \A r \in persisted : report[r] # NoReport
      BY <2>2 DEF SizeInv, Timed
    <2>7. /\ cur \in 0..MaxRuns
          /\ owner \in [Runs -> {"none", "socket", "http"}]
          /\ hours \in [Runs -> Nat] /\ report \in [Runs -> Reports \cup {NoReport}]
          /\ starting \in Starts /\ leaving \in Leaves
      BY DEF IndInv, Types
    <2> QED
      BY <2>1, <2>2, <2>3, <2>4, <2>5, <2>6, <2>7 DEF TypeOK, Starts, Leaves, SizeInv, Sized
  <1> QED
    BY <1>1, <1>2, Invariant, PTL

---------------------------------------------------------------------------
(***************************************************************************)
(* Nobody is stranded. A live run is pushed by somebody who will drive or  *)
(* end it, or its session is at a gate, and then either some loop is about *)
(* to park it, or it is parked and taken care of: by its viewer, by its    *)
(* last loop, which looks for the viewer on its way out, or by the handler *)
(* of the closed socket, which looks for the loop. Whoever of the two      *)
(* looks last sees the other.                                              *)
(***************************************************************************)
Parked == {"announce", "crashed", "leave"}
Cold == {"gate", "stalled", "park"}

\* A loop that will look at the run again before it is left.
Hot(r, g) ==
    \/ loop[r][g] \notin Parked \cup Cold \cup {"none", "over"}
    \/ loop[r][g] = "stalled" /\ IsComplete(r)

\* Somebody is about to drive the run or to end it.
Pushed(r) ==
    \/ due[r] > 0
    \/ held[r].by \notin {"none", "leave"}
    \/ held[r].stage \in {"save", "published", "close"}
    \/ leaving.run = r /\ leaving.step = "schedule" /\ leaving.restart
    \/ leaving.run = r /\ leaving.step = "cancel"
    \/ \E g \in Loops : Hot(r, g)

\* A parked run has its viewer, or somebody who is going to see that it has
\* none: its last loop on its way out, or the handler of the closed socket.
TakenCare(r) ==
    \/ ~Viewerless(r)
    \/ gen[r] > 0 /\ loop[r][gen[r]] \in Parked
    \/ leaving.run = r /\ leaving.step = "read"
    \/ leaving.run = r /\ leaving.step = "decide" /\ leaving.parked

\* The session is at a gate: a loop has seen it and is about to park the run,
\* or the run is parked.
AtGate(r) ==
    /\ sess[r] = "gate"
    /\ \/ \E g \in Loops : loop[r][g] \in Cold
       \/ r \in waiting /\ TakenCare(r)

\* An exception may have left it to itself.
Moving(r) == r \in running \ dropped => Pushed(r) \/ AtGate(r)

\* The last loop of a run was started, and is remembered when it is over; the
\* handler of a closed socket has the lock while it reads or cancels.
Counted(r) ==
    /\ owner[r] = "none" => gen[r] = 0
    /\ gen[r] > 0 => loop[r][gen[r]] # "none"
    /\ r \in waiting => gen[r] > 0
    /\ r \in running /\ gen[r] > 0 /\ loop[r][gen[r]] = "over" => r \in exited
    /\ held[r].by = "leave" =>
          /\ leaving.run = r
          /\ leaving.step \in IF held[r].stage = "mid" THEN {"read", "decide"} ELSE {"cancel"}

MoveInv == \A r \in Runs : Counted(r) /\ Moving(r)

(***************************************************************************)
(* A run whose viewer left is reclaimed, also if an exception left it to   *)
(* itself: only a run with a viewer is answered, parked or restarted.      *)
(***************************************************************************)
Backed(r) ==
    /\ held[r].by = "answer" \/ r \in waiting \cup dropped \cup gone => owner[r] = "socket"
    /\ leaving.step # "none" /\ leaving.run = r => owner[r] = "socket"
    /\ owner[r] = "none" => due[r] = 0
    /\ owner[r] = "http" => due[r] <= IF gen[r] = 0 THEN 1 ELSE 0
    /\ r \in running /\ r \in gone =>
          \/ reclaim[r] # "off"
          \/ leaving.run = r /\ leaving.step # "none"
          \/ r \in persisted

BackInv == \A r \in Runs : Backed(r)

---------------------------------------------------------------------------
\* At first nothing runs.
LEMMA InitMoves == Init => MoveInv
  BY DEF Init, MoveInv, Moving, Counted, Free

\* Nobody at work on a run, and no loop to look at it: then its viewer is there.
LEMMA MovingNotStranded ==
    ASSUME IndInv, SizeInv, NEW r \in running, r \notin dropped, Moving(r), ~Driven(r)
    PROVE  sess[r] = "gate" /\ r \in waiting /\ ~Viewerless(r)
  <1>r. r \in Runs
    BY DEF IndInv, Types
  <1>1. /\ ~(due[r] > 0) /\ held[r] = Free /\ ~(leaving.run = r /\ leaving.step # "none")
        /\ \A g \in Loops : loop[r][g] \in {"none", "over"}
    BY DEF Driven
  <1>2. held[r].by = "none" /\ held[r].stage = "none"
    BY <1>1 DEF Free
  <1>3. ~Pushed(r)
    BY <1>1, <1>2 DEF Pushed, Hot, Cold
  <1>4. AtGate(r)
    BY <1>3 DEF Moving
  <1>5. ~(\E g \in Loops : loop[r][g] \in Cold)
    BY <1>1 DEF Cold
  <1>6. gen[r] > 0 => gen[r] \in Loops
    BY <1>r, WebAssumption DEF SizeInv, Sized, Loops
  <1>7. ~(gen[r] > 0 /\ loop[r][gen[r]] \in Parked)
    BY <1>1, <1>6 DEF Parked
  <1> QED
    BY <1>1, <1>4, <1>5, <1>7 DEF AtGate, TakenCare

\* A run that a step does not touch, or ends.
LEMMA MoveFrame ==
    ASSUME NEW r \in Runs, Counted(r), Moving(r),
           UNCHANGED <<owner[r], gen[r], held[r], loop[r], due[r], sess[r]>>,
           r \in running' => r \in running,
           r \in waiting' <=> r \in waiting, r \in exited' <=> r \in exited,
           r \in gone' <=> r \in gone, r \in dropped => r \in dropped',
           leaving' = leaving \/ (leaving.run # r /\ leaving'.run # r)
    PROVE  Counted(r)' /\ Moving(r)'
  <1>1. Counted(r)'
    BY DEF Counted
  <1>2. Moving(r)'
    BY DEF Moving, Pushed, AtGate, Hot, TakenCare, IsComplete, Viewerless
  <1> QED
    BY <1>1, <1>2

\* A loop that moves goes where it says, and nowhere else moves one.
LEMMA Goings ==
    ASSUME IndInv, NEW r \in Runs, NEW g \in Loops, NEW place, Goes(r, g, place)
    PROVE  /\ loop'[r][g] = place
           /\ \A f \in Loops : f # g => loop'[r][f] = loop[r][f]
           /\ \A q \in Runs : q # r => loop'[q] = loop[q]
  BY DEF Goes, IndInv, Types

\* Who pushed a run still does when a loop moves that did not.
LEMMA PushStays ==
    ASSUME IndInv, NEW r \in Runs, NEW g \in Loops, NEW place, Goes(r, g, place),
           ~Hot(r, g), Pushed(r),
           UNCHANGED <<due[r], held[r], sess[r], leaving>>
    PROVE  Pushed(r)'
  <1>1. \A f \in Loops : f # g => loop'[r][f] = loop[r][f]
    BY Goings
  <1>2. CASE \E f \in Loops : Hot(r, f)
    <2>1. PICK f \in Loops : Hot(r, f)
      BY <1>2
    <2>2. Hot(r, f)'
      BY <1>1, <2>1 DEF Hot, IsComplete
    <2> QED
      BY <2>2 DEF Pushed
  <1>3. CASE ~\E f \in Loops : Hot(r, f)
    BY <1>3 DEF Pushed
  <1> QED
    BY <1>2, <1>3

\* A loop that turns to where it looks at the run again.
LEMMA HotMoves ==
    ASSUME IndInv, NEW r \in Runs, NEW g \in Loops,
           NEW place \in {"top", "held", "plain", "refusal", "refusing", "failing"}, Goes(r, g, place)
    PROVE  Pushed(r)'
  <1>1. loop'[r][g] = place
    BY Goings
  <1>2. Hot(r, g)'
    BY <1>1 DEF Hot, Parked, Cold
  <1> QED
    BY <1>2 DEF Pushed

\* A loop that was at the gate, or has just been left behind, goes on to park.
LEMMA ColdMoves ==
    ASSUME IndInv, NEW r \in Runs, NEW g \in Loops, Goes(r, g, "park"),
           ~Hot(r, g), Moving(r), UNCHANGED <<running, dropped>>,
           UNCHANGED <<due[r], held[r], sess[r], leaving>>
    PROVE  Moving(r)'
  <1>1. loop'[r][g] = "park"
    BY Goings
  <1>2. CASE Pushed(r)
    BY <1>2, PushStays DEF Moving
  <1>3. CASE AtGate(r)
    BY <1>1, <1>3 DEF Moving, AtGate, Cold
  <1> QED
    BY <1>2, <1>3 DEF Moving

\* A loop on its way out takes another step.
LEMMA ParkedMoves ==
    ASSUME IndInv, NEW r \in Runs, NEW g \in Loops, NEW place \in Parked, Goes(r, g, place),
           loop[r][g] \in Parked, Moving(r),
           UNCHANGED <<running, dropped, waiting, gone, owner, gen, due, held, sess, leaving>>
    PROVE  Moving(r)'
  <1>1. /\ loop'[r][g] = place
        /\ \A f \in Loops : f # g => loop'[r][f] = loop[r][f]
    BY Goings
  <1>2. ~Hot(r, g)
    BY DEF Hot, Parked, Cold
  <1>3. CASE Pushed(r)
    BY <1>2, <1>3, PushStays DEF Moving
  <1>4. CASE AtGate(r) /\ \E f \in Loops : loop[r][f] \in Cold
    <2>1. PICK f \in Loops : loop[r][f] \in Cold
      BY <1>4
    <2>2. f # g
      BY <2>1 DEF Cold, Parked
    <2> QED
      BY <1>1, <1>4, <2>1, <2>2 DEF Moving, AtGate
  <1>5. CASE AtGate(r) /\ r \in waiting /\ TakenCare(r)
    <2>1. TakenCare(r)'
      <3>1. CASE gen[r] > 0 /\ loop[r][gen[r]] \in Parked
        <4>1. loop'[r][gen[r]] \in Parked
          BY <1>1, <3>1 DEF Goes, IndInv, Types
        <4> QED
          BY <3>1, <4>1 DEF TakenCare
      <3>2. CASE ~(gen[r] > 0 /\ loop[r][gen[r]] \in Parked)
        BY <1>5, <3>2 DEF TakenCare, Viewerless
      <3> QED
        BY <3>1, <3>2
    <2> QED
      BY <1>5, <2>1 DEF Moving, AtGate
  <1> QED
    BY <1>3, <1>4, <1>5 DEF Moving, AtGate

\* A loop that moves, but is not left.
LEMMA CountMoves ==
    ASSUME IndInv, NEW r \in Runs, NEW g \in Loops, NEW place \in Places \ {"none", "over"},
           Goes(r, g, place), Counted(r), running' = running,
           UNCHANGED <<owner, gen>>, waiting' \subseteq waiting \cup {r}, exited' = exited,
           loop[r][g] # "none", leaving' = leaving,
           held'[r] = held[r] \/ held'[r].by # "leave"
    PROVE  Counted(r)'
  <1>1. /\ loop'[r][g] = place
        /\ \A f \in Loops : f # g => loop'[r][f] = loop[r][f]
    BY Goings
  <1>2. gen[r] > 0
    BY LoopStarted
  <1>3. loop'[r][gen[r]] # "none" /\ (loop'[r][gen[r]] = "over" => loop[r][gen[r]] = "over")
    BY <1>1, <1>2 DEF Counted, Goes, IndInv, Types
  <1> QED
    BY <1>2, <1>3 DEF Counted

\* A loop whose run is not locked, and lives, finds it not filed.
LEMMA NotFiled ==
    ASSUME IndInv, NEW r \in Runs, Unlocked(r), r \in running
    PROVE  r \notin persisted /\ cur = r /\ Live(r) /\ owner[r] # "none"
  BY DEF IndInv, FiledOnce, Launched, Unlocked, Free, Live, Types, Runs

\* The run of a loop that takes a step is driven as it was, or by the step.
LEMMA LoopMoves ==
    ASSUME IndInv, SizeInv, MoveInv, NEW r \in Runs, NEW g \in Loops, LoopStep(r, g)
    PROVE  Counted(r)' /\ Moving(r)'
  <1> USE DEF flags, session, handlers, history, Places
  <1>m. Counted(r) /\ Moving(r)
    BY DEF MoveInv
  <1>n. UNCHANGED <<running, owner, gen, leaving, gone, dropped>>
    BY DEF LoopStep, Enter, Complete, Drive, DriveRaises, EmitHour, Stall, Park, Announce,
       Refuse, Stop, Ends, Leave
  <1>h. held'[r] = held[r] \/ held'[r].by # "leave"
    <2>1. \/ held' = held \/ Releases(r)
          \/ \E stage, status : Takes(r, "loop", g, stage, status)
      BY DEF LoopStep, Enter, Complete, Drive, DriveRaises, EmitHour, Stall, Park, Announce,
         Refuse, Stop, Ends, Leave
    <2> QED
      BY <2>1 DEF Releases, Takes, Free, IndInv, Types
  <1>d. r \in running => cur = r
    BY DEF IndInv, Launched
  <1>1. CASE Enter(r, g)
    <2>1. loop[r][g] = "top" /\ UNCHANGED <<waiting, exited>>
          /\ \E place \in {"leave", "held"} : Goes(r, g, place)
      BY <1>1 DEF Enter
    <2>2. Counted(r)'
      BY <1>m, <1>n, <2>1, <1>h, CountMoves
    <2>3. CASE Goes(r, g, "held")
      BY <2>2, <2>3, HotMoves DEF Moving
    <2>4. CASE ~Live(r)
      BY <1>d, <1>n, <2>2, <2>4 DEF Moving, Live
    <2> QED
      BY <1>1, <2>3, <2>4 DEF Enter
  <1>2. CASE Complete(r, g) \/ DriveRaises(r, g)
    <2>1. PICK s \in {"ok", "failed", "refused"} : Takes(r, "loop", g, "save", s)
      BY <1>2 DEF Complete, DriveRaises
    <2>2. held'[r].stage = "save" /\ UNCHANGED <<loop, waiting, exited>>
      BY <1>2, <2>1 DEF Complete, DriveRaises, Takes, IndInv, Types
    <2> QED
      BY <1>h, <1>m, <1>n, <2>2 DEF Moving, Pushed, Counted
  <1>3. CASE Drive(r, g)
    <2>1. loop[r][g] = "held" /\ UNCHANGED <<waiting, exited>>
      BY <1>3 DEF Drive, HoldsToDrive
    <2>2. PICK place \in {"stalled", "gate", "refusal", "plain"} : Goes(r, g, place)
      BY <1>3 DEF Drive
    <2>3. Counted(r)'
      BY <1>m, <1>n, <2>1, <2>2, <1>h, CountMoves
    <2>4. CASE place \in {"refusal", "plain"}
      BY <2>2, <2>3, <2>4, HotMoves DEF Moving
    <2>5. loop'[r][g] = place
      BY <2>2, Goings
    <2>6. CASE place \in {"stalled", "gate"}
      <3>1. sess'[r] = "gate" \/ (sess'[r] = "complete" /\ place = "stalled")
        <4>1. CASE sess[r] = "gate" /\ UNCHANGED sess
          BY <4>1
        <4>2. CASE sess' = [sess EXCEPT ![r] = "complete"] /\ Goes(r, g, "stalled")
          <5>1. place = "stalled"
            BY <2>5, <4>2, Goings
          <5> QED
            BY <4>2, <5>1 DEF SizeInv, Sized
        <4>3. ASSUME NEW s \in {"complete", "refused", "going", "gate"},
                     sess' = [sess EXCEPT ![r] = s],
                     Goes(r, g, CASE s = "gate" -> "gate" [] s = "refused" -> "refusal" [] OTHER -> "plain")
              PROVE  sess'[r] = "gate"
          <5>1. loop'[r][g] = CASE s = "gate" -> "gate" [] s = "refused" -> "refusal" [] OTHER -> "plain"
            BY <4>3, Goings
          <5>2. s = "gate"
            BY <2>5, <2>6, <5>1
          <5> QED
            BY <4>3, <5>2 DEF SizeInv, Sized
        <4> QED
          BY <1>3, <4>1, <4>2, <4>3 DEF Drive
      <3>2. CASE sess'[r] = "gate"
        BY <2>3, <2>5, <2>6, <3>2 DEF Moving, AtGate, Cold
      <3>3. CASE sess'[r] = "complete" /\ place = "stalled"
        <4>1. Hot(r, g)'
          BY <2>5, <3>3 DEF Hot, IsComplete
        <4> QED
          BY <2>3, <4>1 DEF Moving, Pushed
      <3> QED
        BY <3>1, <3>2, <3>3
    <2> QED
      BY <2>4, <2>6
  <1>4. CASE EmitHour(r, g)
    <2>1. /\ loop[r][g] \in {"plain", "gate", "refusal"}
          /\ UNCHANGED <<waiting, exited, held, due, sess>>
          /\ \E place \in {"leave", "failing", "park", "refusing", "top"} : Goes(r, g, place)
      BY <1>4 DEF EmitHour
    <2>2. Counted(r)'
      BY <1>m, <1>n, <2>1, <1>h, CountMoves
    <2>3. CASE ~Live(r)
      BY <1>d, <1>n, <2>2, <2>3 DEF Moving, Live
    <2>4. CASE \E place \in {"failing", "refusing", "top"} : Goes(r, g, place)
      BY <2>2, <2>4, HotMoves DEF Moving
    <2>5. CASE loop[r][g] = "gate" /\ Goes(r, g, "park")
      <3>1. ~Hot(r, g)
        BY <2>5 DEF Hot, Cold
      <3> QED
        BY <1>m, <1>n, <2>1, <2>2, <2>5, <3>1, ColdMoves
    <2> QED
      BY <1>4, <2>3, <2>4, <2>5 DEF EmitHour
  <1>5. CASE Stall(r, g)
    <2>1. /\ loop[r][g] = "stalled"
          /\ UNCHANGED <<waiting, exited, held, due, sess>>
          /\ Goes(r, g, IF IsComplete(r) THEN "top" ELSE "park")
      BY <1>5 DEF Stall
    <2>2. Counted(r)'
      BY <1>m, <1>n, <2>1, <1>h, CountMoves
    <2>3. CASE IsComplete(r)
      BY <2>1, <2>2, <2>3, HotMoves DEF Moving
    <2>4. CASE ~IsComplete(r)
      <3>1. ~Hot(r, g)
        BY <2>1, <2>4 DEF Hot, Cold
      <3> QED
        BY <1>m, <1>n, <2>1, <2>2, <2>4, <3>1, ColdMoves
    <2> QED
      BY <2>3, <2>4
  <1>6. CASE Park(r, g)
    <2>1. /\ loop[r][g] = "park" /\ waiting' \subseteq waiting \cup {r}
          /\ UNCHANGED <<exited, held, due, sess>>
          /\ \E place \in {"leave", "top", "announce"} : Goes(r, g, place)
      BY <1>6 DEF Park
    <2>2. Counted(r)'
      BY <1>m, <1>n, <2>1, <1>h, CountMoves
    <2>3. CASE ~Live(r)
      BY <1>d, <1>n, <2>2, <2>3 DEF Moving, Live
    <2>4. CASE Goes(r, g, "top")
      BY <2>2, <2>4, HotMoves DEF Moving
    <2>5. CASE ~Viewerless(r) /\ waiting' = waiting \cup {r} /\ Goes(r, g, "announce")
      <3>1. ~Hot(r, g)
        BY <2>1 DEF Hot, Cold
      <3>2. CASE Pushed(r)
        BY <1>n, <2>1, <2>2, <2>5, <3>1, <3>2, PushStays DEF Moving
      <3>3. CASE AtGate(r)
        BY <1>n, <2>1, <2>2, <2>5, <3>3 DEF Moving, AtGate, TakenCare, Viewerless
      <3> QED
        BY <1>m, <1>n, <2>2, <3>2, <3>3 DEF Moving
    <2> QED
      BY <1>6, <2>3, <2>4, <2>5 DEF Park
  <1>7. CASE Announce(r, g)
    <2>1. /\ loop[r][g] = "announce" /\ UNCHANGED <<waiting, exited, held, due, sess>>
          /\ \E place \in {"leave", "crashed"} : Goes(r, g, place)
      BY <1>7 DEF Announce
    <2>2. Counted(r)'
      BY <1>m, <1>n, <2>1, <1>h, CountMoves
    <2> QED
      BY <1>m, <1>n, <2>1, <2>2, ParkedMoves DEF Parked
  <1>8. CASE Refuse(r, g) \/ Stop(r, g)
    <2>1. /\ loop[r][g] \in {"refusing", "failing", "crashed"}
          /\ UNCHANGED <<waiting, exited, due, sess>> /\ Unlocked(r)
          /\ \E place \in {"leave", "held"} : Goes(r, g, place)
      BY <1>8 DEF Refuse, Stop, Ends
    <2>2. Counted(r)'
      BY <1>m, <1>n, <2>1, <1>h, CountMoves
    <2>3. CASE Goes(r, g, "held")
      BY <2>2, <2>3, HotMoves DEF Moving
    <2>4. CASE r \notin running
      BY <1>n, <2>2, <2>4 DEF Moving
    <2>5. CASE r \in running /\ Goes(r, g, "leave") /\ UNCHANGED held /\ loop[r][g] = "crashed"
      BY <1>m, <1>n, <2>1, <2>2, <2>5, ParkedMoves DEF Parked
    <2>6. r \in running /\ loop[r][g] \in {"refusing", "failing"} => Goes(r, g, "held")
      BY <1>8, <2>1, NotFiled DEF Refuse, Stop, Ends
    <2> QED
      BY <1>8, <2>1, <2>3, <2>4, <2>5, <2>6 DEF Refuse, Stop, Ends
  <1> HIDE DEF Places
  <1>9. CASE Leave(r, g)
    <2>1. loop[r][g] = "leave" /\ Goes(r, g, "over") /\ UNCHANGED <<held, sess>>
      BY <1>9 DEF Leave
    <2>2. /\ loop'[r][g] = "over"
          /\ \A f \in Loops : f # g => loop'[r][f] = loop[r][f]
      BY <2>1, Goings
    <2>3. gen[r] > 0 /\ gen[r] \in Loops
      BY <2>1, LoopStarted, WebAssumption DEF SizeInv, Sized, Loops
    <2>4. Counted(r)'
      <3>1. loop'[r][gen[r]] # "none"
        BY <1>m, <2>2, <2>3 DEF Counted
      <3>2. owner'[r] = owner[r] /\ gen'[r] = gen[r]
        BY <1>n
      <3>3. r \in running' /\ loop'[r][gen[r]] = "over" => r \in exited'
        <4>1. CASE gen[r] = g
          BY <1>9, <1>n, <1>d, <4>1 DEF Leave
        <4>2. CASE gen[r] # g
          BY <1>9, <1>m, <1>n, <2>2, <2>3, <4>2 DEF Leave, Counted
        <4> QED
          BY <4>1, <4>2
      <3> QED
        BY <1>h, <1>m, <1>n, <2>3, <3>1, <3>2, <3>3 DEF Counted
    <2>5. ~Hot(r, g)
      BY <2>1 DEF Hot, Parked, Cold
    <2>6. CASE r \notin running
      BY <1>n, <2>4, <2>6 DEF Moving
    <2>7. CASE r \in running /\ gen[r] = g /\ TakesOver(r)
      <3>1. due' = [due EXCEPT ![r] = @ + 1]
        BY <1>9, <1>d, <2>7 DEF Leave
      <3>2. due'[r] > 0
        BY <3>1 DEF SizeInv, Sized
      <3> QED
        BY <2>4, <3>2 DEF Moving, Pushed
    <2>8. CASE r \in running /\ ~(gen[r] = g /\ TakesOver(r))
      <3>1. UNCHANGED <<waiting, due>>
        BY <1>9, <2>8 DEF Leave
      <3>2. CASE Pushed(r)
        BY <1>n, <2>1, <2>4, <2>5, <3>1, <3>2, PushStays DEF Moving
      <3>3. CASE AtGate(r) /\ \E f \in Loops : loop[r][f] \in Cold
        <4>1. PICK f \in Loops : loop[r][f] \in Cold
          BY <3>3
        <4>2. f # g
          BY <2>1, <4>1 DEF Cold
        <4> QED
          BY <2>1, <2>2, <2>4, <3>3, <4>1, <4>2 DEF Moving, AtGate
      <3>4. CASE AtGate(r) /\ r \in waiting /\ TakenCare(r)
        <4>1. TakenCare(r)'
          <5>1. CASE gen[r] = g
            BY <1>n, <2>8, <3>4, <5>1 DEF TakesOver, TakenCare, Viewerless
          <5>2. CASE gen[r] # g
            BY <1>n, <2>2, <2>3, <3>4, <5>2 DEF TakenCare, Viewerless
          <5> QED
            BY <5>1, <5>2
        <4> QED
          BY <2>1, <2>4, <3>1, <3>4, <4>1 DEF Moving, AtGate
      <3> QED
        BY <1>m, <1>n, <2>4, <2>8, <3>2, <3>3, <3>4 DEF Moving, AtGate
    <2> QED
      BY <2>6, <2>7, <2>8
  <1> QED
    BY <1>1, <1>2, <1>3, <1>4, <1>5, <1>6, <1>7, <1>8, <1>9 DEF LoopStep

\* A step of a loop does nothing to another run.
LEMMA LoopMovesAll ==
    ASSUME IndInv, SizeInv, MoveInv, NEW r \in Runs, NEW g \in Loops, LoopStep(r, g)
    PROVE  MoveInv'
  <1> USE DEF flags, session, handlers, history
  <1>1. UNCHANGED <<running, owner, leaving, gone, dropped>>
    BY DEF LoopStep, Enter, Complete, Drive, DriveRaises, EmitHour, Stall, Park, Announce,
       Refuse, Stop, Ends, Leave
  <1>2. /\ waiting' \in {waiting, waiting \cup {r}, waiting \ {r}}
        /\ exited' \in {exited, exited \cup {r}}
        /\ due' = due \/ due' = [due EXCEPT ![r] = @ + 1]
    BY DEF LoopStep, Enter, Complete, Drive, DriveRaises, EmitHour, Stall, Park, Announce,
       Refuse, Stop, Ends, Leave
  <1>3. ASSUME NEW q \in Runs, q # r PROVE Counted(q)' /\ Moving(q)'
    <2>1. UNCHANGED <<held[q], loop[q], gen[q], sess[q]>>
      BY <1>3, LoopElsewhere DEF SizeInv
    <2>2. due'[q] = due[q]
      BY <1>2, <1>3 DEF SizeInv, Sized
    <2>3. (q \in waiting' <=> q \in waiting) /\ (q \in exited' <=> q \in exited)
      BY <1>2, <1>3
    <2> QED
      BY <1>1, <2>1, <2>2, <2>3, MoveFrame DEF MoveInv
  <1> QED
    BY <1>3, LoopMoves DEF MoveInv

\* The flags, calls and locks that a step does not touch leave a run as it was.
LEMMA QuietMoves ==
    ASSUME MoveInv, UNCHANGED <<owner, gen, held, loop, due, sess, waiting, exited, gone, leaving>>,
           running' \subseteq running, dropped \subseteq dropped'
    PROVE  MoveInv'
  BY MoveFrame DEF MoveInv

\* A report that is written is about to be closed, and a run that is closed
\* lives no more.
LEMMA EndMoves ==
    ASSUME IndInv, SizeInv, MoveInv, NEW r \in Runs, End(r)
    PROVE  MoveInv'
  <1> USE DEF flags, session, handlers, history
  <1>1. CASE Publish(r) \/ Saved(r)
    <2>1. /\ UNCHANGED <<owner, gen, loop, due, sess, waiting, exited, gone, dropped, leaving, running>>
          /\ held[r].stage \in {"save", "published"}
          /\ \E stage \in {"published", "close"} : held' = [held EXCEPT ![r].stage = stage]
      BY <1>1 DEF Publish, Saved
    <2>2. /\ held'[r].stage \in {"published", "close"} /\ held'[r].by = held[r].by
          /\ \A q \in Runs : q # r => held'[q] = held[q]
      BY <2>1 DEF IndInv, Types, Locks
    <2>3. ASSUME NEW q \in Runs, q # r PROVE Counted(q)' /\ Moving(q)'
      BY <2>1, <2>2, <2>3, MoveFrame DEF MoveInv
    <2>4. Counted(r)' /\ Moving(r)'
      BY <2>1, <2>2 DEF MoveInv, Counted, Moving, Pushed
    <2> QED
      BY <2>3, <2>4 DEF MoveInv
  <1>2. CASE SaveFails(r) \/ Close(r)
    <2>1. PICK saved \in BOOLEAN : HolderGoesOn(r, saved)
      BY <1>2 DEF SaveFails, Close
    <2>2. /\ Finish(r) /\ held[r].stage \in {"save", "published", "close"}
          /\ UNCHANGED <<owner, gen, due, sess, waiting, exited, gone, dropped>>
      BY <1>2 DEF SaveFails, Close
    <2>3. /\ leaving' = IF held[r].by = "leave" THEN Idle ELSE leaving
          /\ loop' = IF held[r].by = "loop" THEN [loop EXCEPT ![r][held[r].g] = "leave"] ELSE loop
          /\ held' = [held EXCEPT ![r] = Free]
      BY <2>1 DEF HolderGoesOn, Releases
    <2>4. running' = running \ {r}
      BY <2>2, FinishEnds
    <2>5. Counted(r)' /\ Moving(r)'
      <3>1. gen[r] > 0 => loop'[r][gen[r]] # "none"
        <4>1. gen[r] > 0 => gen[r] \in Loops /\ loop[r][gen[r]] # "none"
          BY WebAssumption DEF SizeInv, Sized, Loops, MoveInv, Counted
        <4> QED
          BY <2>3, <4>1 DEF IndInv, Types
      <3> QED
        BY <2>2, <2>3, <2>4, <3>1 DEF MoveInv, Counted, Moving, Free, IndInv, Types
    <2>6. ASSUME NEW q \in Runs, q # r PROVE Counted(q)' /\ Moving(q)'
      <3>1. held'[q] = held[q] /\ loop'[q] = loop[q]
        BY <2>3, <2>6 DEF IndInv, Types
      <3>2. leaving' = leaving \/ (leaving.run # q /\ leaving'.run # q)
        BY <2>2, <2>3, <2>6, WebAssumption DEF MoveInv, Counted, Idle, Runs
      <3> QED
        BY <2>2, <2>4, <2>6, <3>1, <3>2, MoveFrame DEF MoveInv
    <2> QED
      BY <2>5, <2>6 DEF MoveInv
  <1> QED
    BY <1>1, <1>2 DEF End

\* Runs but one are left as they were.
LEMMA OneRunMoves ==
    ASSUME MoveInv, NEW r \in Runs, Counted(r)', Moving(r)',
           \A q \in Runs : q # r =>
              /\ UNCHANGED <<owner[q], gen[q], held[q], loop[q], due[q], sess[q]>>
              /\ q \in running' => q \in running
              /\ q \in waiting' <=> q \in waiting
              /\ q \in exited' <=> q \in exited
              /\ q \in gone' <=> q \in gone
              /\ q \in dropped => q \in dropped',
           leaving' = leaving \/ (leaving.run \in {0, r} /\ leaving'.run \in {0, r})
    PROVE  MoveInv'
  <1>1. ASSUME NEW q \in Runs, q # r PROVE Counted(q)' /\ Moving(q)'
    <2>1. leaving' = leaving \/ (leaving.run # q /\ leaving'.run # q)
      BY <1>1, WebAssumption DEF Runs
    <2> QED
      BY <1>1, <2>1, MoveFrame DEF MoveInv
  <1> QED
    BY <1>1 DEF MoveInv

\* A cancellation holds the lock of its run until it is filed, or ends it.
LEMMA CancelMoves ==
    ASSUME IndInv, SizeInv, MoveInv, NEW r \in Runs,
           NEW by \in {"client", "leave", "start", "reclaim"}, CancelUnder(r, by),
           UNCHANGED <<owner, waiting, exited, gone, dropped, gen, loop, due, sess>>,
           by = "leave" => leaving.run = r /\ leaving.step = "cancel",
           \/ leaving' = leaving
           \/ leaving.run = r /\ leaving' = Idle /\ r \in persisted
    PROVE  MoveInv'
  <1>1. Idle.run = 0 /\ held[r] = Free /\ Free.by = "none"
    BY DEF Idle, CancelUnder, Unlocked, Free
  <1>2. CASE r \in persisted
    <2>1. running' = running \ {r} /\ held' = held
      BY <1>2, FinishEnds DEF CancelUnder
    <2>2. Counted(r)' /\ Moving(r)'
      BY <1>1, <2>1 DEF MoveInv, Counted, Moving
    <2> QED
      BY <1>1, <2>1, <2>2, OneRunMoves
  <1>3. CASE r \notin persisted
    <2>1. /\ running' = running /\ leaving' = leaving
          /\ held'[r].by = by /\ held'[r].stage = "save"
          /\ \A q \in Runs : q # r => held'[q] = held[q]
      BY <1>3 DEF CancelUnder, Takes, IndInv, Types
    <2>2. Counted(r)' /\ Moving(r)'
      BY <2>1 DEF MoveInv, Counted, Moving, Pushed
    <2> QED
      BY <2>1, <2>2, OneRunMoves
  <1> QED
    BY <1>2, <1>3

\* The handler of a closed socket looks after the run it takes the lock of.
LEMMA DisconnectMoves ==
    ASSUME IndInv, SizeInv, MoveInv, Disconnect
    PROVE  MoveInv'
  <1> USE DEF flags, session, handlers, history
  <1>r. PICK r \in Runs : r = cur
    BY WebAssumption DEF Disconnect, IndInv, Types, Runs
  <1>1. /\ held[r] = Free /\ leaving = Idle
        /\ UNCHANGED <<owner, waiting, exited, dropped, gen, loop, due, sess>>
        /\ gone' = gone \cup {r}
    BY <1>r DEF Disconnect, Unlocked
  <1>2. Idle.run = 0 /\ Idle.step = "none" /\ Free.by = "none"
    BY DEF Idle, Free
  <1>3. CASE r \in persisted
    <2>1. running' = running \ {r} /\ UNCHANGED <<held, leaving>>
      BY <1>r, <1>3 DEF Disconnect
    <2>2. Counted(r)' /\ Moving(r)'
      BY <1>1, <1>2, <2>1 DEF MoveInv, Counted, Moving
    <2> QED
      BY <1>1, <2>1, <2>2, OneRunMoves
  <1>4. CASE r \notin persisted
    <2>1. /\ Takes(r, "leave", 0, "mid", "none") /\ running' = running
          /\ leaving' = [Idle EXCEPT !.step = "read", !.run = r]
      BY <1>r, <1>4 DEF Disconnect
    <2>2. /\ held'[r].by = "leave" /\ held'[r].stage = "mid"
          /\ \A q \in Runs : q # r => held'[q] = held[q]
          /\ leaving'.run = r /\ leaving'.step = "read"
      BY <1>1, <2>1 DEF Takes, Idle, IndInv, Types
    <2>3. Counted(r)' /\ Moving(r)'
      <3>1. Counted(r)'
        BY <1>1, <2>1, <2>2 DEF MoveInv, Counted
      <3>2. CASE Pushed(r)
        <4>1. Pushed(r)'
          <5>1. \A g \in Loops : Hot(r, g)' <=> Hot(r, g)
            BY <1>1 DEF Hot, IsComplete
          <5>2. due[r] > 0 \/ \E g \in Loops : Hot(r, g)
            BY <1>1, <1>2, <3>2 DEF Pushed, Free, Idle
          <5> QED
            BY <1>1, <5>1, <5>2 DEF Pushed
        <4> QED
          BY <3>1, <4>1 DEF Moving
      <3>3. CASE AtGate(r)
        BY <1>1, <2>2, <3>1, <3>3 DEF Moving, AtGate, TakenCare
      <3> QED
        BY <1>1, <2>1, <3>1, <3>2, <3>3 DEF MoveInv, Moving
    <2> QED
      BY <1>1, <1>2, <2>1, <2>2, <2>3, OneRunMoves
  <1> QED
    BY <1>3, <1>4

\* A viewer's answer, and the loop it starts, unless an exception drops it.
LEMMA AnswerMoves ==
    ASSUME IndInv, SizeInv, MoveInv, NEW r \in Runs, Answer(r) \/ AnswerRaises(r) \/ Answered(r)
    PROVE  MoveInv'
  <1> USE DEF flags, session, handlers, history
  <1>1. CASE Answer(r)
    <2>1. /\ Takes(r, "answer", 0, "mid", "none") /\ \E s : sess' = [sess EXCEPT ![r] = s]
          /\ UNCHANGED <<owner, running, waiting, exited, gone, dropped, gen, loop, due, leaving>>
      BY <1>1 DEF Answer
    <2>2. /\ held'[r].by = "answer"
          /\ \A q \in Runs : q # r => held'[q] = held[q] /\ sess'[q] = sess[q]
      BY <2>1 DEF Takes, IndInv, Types, SizeInv, Sized
    <2>3. Counted(r)' /\ Moving(r)'
      BY <2>1, <2>2 DEF MoveInv, Counted, Moving, Pushed
    <2> QED
      BY <2>1, <2>2, <2>3, OneRunMoves
  <1>2. CASE AnswerRaises(r)
    <2>1. /\ r \in dropped' /\ dropped \subseteq dropped' /\ \E s : sess' = [sess EXCEPT ![r] = s]
          /\ UNCHANGED <<owner, running, waiting, exited, gone, gen, held, loop, due, leaving>>
      BY <1>2 DEF AnswerRaises
    <2>2. \A q \in Runs : q # r => sess'[q] = sess[q]
      BY <2>1 DEF SizeInv, Sized
    <2>3. Counted(r)' /\ Moving(r)'
      BY <2>1 DEF MoveInv, Counted, Moving
    <2> QED
      BY <2>1, <2>2, <2>3, OneRunMoves
  <1>3. CASE Answered(r)
    <2>1. /\ Releases(r) /\ waiting' = waiting \ {r} /\ dropped \subseteq dropped'
          /\ (r \in dropped' /\ due' = due) \/ due' = [due EXCEPT ![r] = @ + 1]
          /\ UNCHANGED <<owner, running, exited, gone, gen, loop, sess, leaving>>
      BY <1>3 DEF Answered
    <2>2. /\ held'[r].by = "none" /\ (r \in dropped' \/ due'[r] > 0)
          /\ \A q \in Runs : q # r => held'[q] = held[q] /\ due'[q] = due[q]
      BY <2>1 DEF Releases, Free, IndInv, Types, SizeInv, Sized
    <2>3. Counted(r)' /\ Moving(r)'
      BY <2>1, <2>2 DEF MoveInv, Counted, Moving, Pushed
    <2> QED
      BY <2>1, <2>2, <2>3, OneRunMoves
  <1> QED
    BY <1>1, <1>2, <1>3

\* A loop that starts looks at its run; one that cannot be started drops it.
LEMMA StartMoves ==
    ASSUME IndInv, SizeInv, MoveInv, NEW r \in Runs, StartLoop(r) \/ LaunchFails(r)
    PROVE  MoveInv'
  <1> USE DEF flags, session, handlers, history
  <1>1. /\ due' = [due EXCEPT ![r] = @ - 1]
        /\ UNCHANGED <<owner, waiting, gone, held, sess, leaving>>
    BY DEF StartLoop, LaterFails, LaunchFails
  <1>2. \A q \in Runs : q # r => due'[q] = due[q]
    BY <1>1 DEF SizeInv, Sized
  <1>d. \A q \in Runs : q \in running => q = cur /\ owner[q] # "none"
    BY DEF IndInv, Launched, Types, Runs
  <1>3. CASE StartLoop(r) /\ cur = r
    <2>1. /\ gen[r] < MaxLoops /\ gen' = [gen EXCEPT ![r] = @ + 1] /\ running' = running
      BY <1>3 DEF StartLoop, LaterFails
    <2>p. PICK place \in {"top", "over"} :
            /\ Goes(r, gen[r] + 1, place)
            /\ exited' = IF place = "top" THEN exited \ {r} ELSE exited \cup {r}
            /\ dropped' = IF place = "top" THEN dropped ELSE dropped \cup {r}
      BY <1>3 DEF StartLoop, LaterFails
    <2>2. /\ gen[r] \in Nat /\ gen[r] + 1 \in Loops /\ gen'[r] = gen[r] + 1
          /\ \A q \in Runs : q # r => gen'[q] = gen[q]
      BY <2>1, WebAssumption DEF SizeInv, Sized, Loops
    <2>3. /\ loop'[r][gen[r] + 1] = place
          /\ \A q \in Runs : q # r => loop'[q] = loop[q]
      BY <2>p, <2>2, Goings
    <2>4. owner[r] # "none"
      BY <1>3, WebAssumption DEF IndInv, Launched, Runs
    <2>5. place = "top" => Pushed(r)'
      BY <2>p, <2>2, HotMoves
    <2>6. Counted(r)' /\ Moving(r)'
      BY <1>1, <2>p, <2>2, <2>3, <2>4, <2>5 DEF MoveInv, Counted, Moving
    <2> QED
      BY <1>1, <1>2, <2>1, <2>p, <2>2, <2>3, <2>6, OneRunMoves
  <1>4. CASE cur # r \/ LaunchFails(r)
    <2>1. /\ UNCHANGED <<gen, exited, loop, dropped>> /\ r \notin running'
          /\ running' \subseteq running
      BY <1>4, <1>d DEF StartLoop, LaterFails, LaunchFails
    <2>2. Counted(r)' /\ Moving(r)'
      BY <1>1, <2>1 DEF MoveInv, Counted, Moving
    <2>3. \A q \in Runs : q # r => (q \in running' => q \in running)
      BY <2>1
    <2> QED
      BY <1>1, <1>2, <2>1, <2>2, <2>3, OneRunMoves
  <1> QED
    BY <1>3, <1>4

\* A run that is registered has the call that starts its first loop.
LEMMA RegisterMoves ==
    ASSUME IndInv, SizeInv, MoveInv, Register
    PROVE  MoveInv'
  <1> USE DEF flags, session, handlers, history
  <1>1. PICK r \in Runs :
          /\ owner[r] = "none" /\ cur' = r
          /\ owner' = [owner EXCEPT ![r] = starting.owner]
          /\ running' = {r} /\ due' = [due EXCEPT ![r] = @ + 1]
    BY DEF Register
  <1>2. /\ UNCHANGED <<gen, held, loop, sess, leaving>>
        /\ waiting' = {}
    BY DEF Register
  <1>3. /\ due'[r] > 0 /\ gen[r] = 0
        /\ \A q \in Runs : q # r => due'[q] = due[q] /\ owner'[q] = owner[q] /\ q \notin running'
    BY <1>1 DEF SizeInv, Sized, IndInv, Types, MoveInv, Counted
  <1>4. Counted(r)' /\ Moving(r)'
    BY <1>2, <1>3 DEF MoveInv, Counted, Moving, Pushed
  <1>5. ASSUME NEW q \in Runs, q # r PROVE Counted(q)' /\ Moving(q)'
    BY <1>1, <1>2, <1>3, <1>5 DEF MoveInv, Counted, Moving
  <1> QED
    BY <1>4, <1>5 DEF MoveInv

\* A timer and the handlers that start, pause and cancel.
LEMMA OtherMoves ==
    ASSUME IndInv, SizeInv, MoveInv, NEW r \in Runs,
           \/ PauseOrResume(r) \/ ReclaimDue(r) \/ ClientCancel(r) \/ Reclaim(r)
           \/ Replace \/ \E o \in {"socket", "http"} : Start(o)
    PROVE  MoveInv'
  <1> USE DEF flags, session, handlers, history
  <1>1. UNCHANGED <<owner, waiting, exited, gone, dropped, gen, loop, due, sess, leaving>>
    BY DEF PauseOrResume, ReclaimDue, ClientCancel, Reclaim, Replace, Start
  <1>2. CASE UNCHANGED <<held, running>>
    BY <1>1, <1>2, QuietMoves
  <1>3. CASE CancelUnder(r, "client") \/ CancelUnder(r, "reclaim")
    BY <1>1, <1>3, CancelMoves
  <1>4. CASE cur # 0 /\ CancelUnder(cur, "start")
    <2>1. cur \in Runs
      BY <1>4, WebAssumption DEF IndInv, Types, Runs
    <2> QED
      BY <1>1, <1>4, <2>1, CancelMoves
  <1> QED
    BY <1>2, <1>3, <1>4 DEF PauseOrResume, ReclaimDue, ClientCancel, Reclaim, Replace, Start

\* The handler of a closed socket: it has read whether the run is parked; then
\* it restarts it, if its last loop is over, or that loop will.
LEMMA LeaveMoves ==
    ASSUME IndInv, SizeInv, MoveInv, LeaveStep
    PROVE  MoveInv'
  <1> USE DEF flags, session, handlers, history
  <1>r. PICK r \in Runs : r = leaving.run
    BY DEF LeaveStep, ReadWaiting, ReadExited, Schedule, CancelUnscheduled, IndInv, Detaching
  <1>t. leaving \in Leaves /\ Idle.run = 0 /\ Idle.step = "none"
    BY DEF IndInv, Types, Idle
  <1>m. Counted(r) /\ Moving(r)
    BY DEF MoveInv
  <1>1. CASE ReadWaiting
    <2>1. /\ leaving.step = "read"
          /\ leaving' = [leaving EXCEPT !.step = "decide", !.parked = leaving.run \in waiting]
          /\ UNCHANGED <<owner, running, waiting, exited, gone, dropped, gen, held, loop, due, sess>>
      BY <1>1 DEF ReadWaiting
    <2>2. leaving'.run = r /\ leaving'.step = "decide" /\ (r \in waiting => leaving'.parked)
      BY <1>r, <1>t, <2>1 DEF Leaves
    <2>3. Counted(r)'
      BY <1>m, <2>1, <2>2 DEF Counted
    <2>4. ASSUME Pushed(r) PROVE Moving(r)'
      <3>1. \A g \in Loops : Hot(r, g)' <=> Hot(r, g)
        BY <2>1 DEF Hot, IsComplete
      <3>2. Pushed(r)'
        BY <2>1, <2>4, <3>1 DEF Pushed
      <3> QED
        BY <3>2 DEF Moving
    <2>5. ASSUME AtGate(r) PROVE Moving(r)'
      BY <2>1, <2>2, <2>5 DEF Moving, AtGate, TakenCare
    <2>6. Moving(r)'
      BY <1>m, <2>1, <2>4, <2>5 DEF Moving
    <2> QED
      BY <1>r, <2>1, <2>2, <2>3, <2>6, OneRunMoves
  <1>2. CASE ReadExited
    <2> DEFINE restart == leaving.parked /\ r \in exited
    <2>1. /\ leaving.step = "decide" /\ Releases(r)
          /\ leaving' = [leaving EXCEPT !.step = "schedule", !.restart = restart]
          /\ waiting' = IF restart THEN waiting \ {r} ELSE waiting
          /\ UNCHANGED <<owner, running, exited, gone, dropped, gen, loop, due, sess>>
      BY <1>r, <1>2 DEF ReadExited
    <2>2. /\ leaving'.run = r /\ leaving'.step = "schedule" /\ leaving'.restart = restart
          /\ held'[r] = Free /\ \A q \in Runs : q # r => held'[q] = held[q]
      BY <1>r, <1>t, <2>1 DEF Leaves, Releases, IndInv, Types
    <2>3. held[r].by = "leave" /\ held[r].stage = "mid" /\ Free.by = "none"
      BY <1>r, <2>1 DEF IndInv, Detaching, Free
    <2>h. \A g \in Loops : Hot(r, g)' <=> Hot(r, g)
      BY <2>1 DEF Hot, IsComplete
    <2>4. Counted(r)'
      BY <1>m, <2>1, <2>2, <2>3 DEF Counted
    <2>5. ASSUME restart PROVE Moving(r)'
      BY <2>2, <2>4, <2>5 DEF Moving, Pushed
    <2>6. ASSUME ~restart PROVE Moving(r)'
      <3>1. CASE Pushed(r)
        <4>1. due[r] > 0 \/ \E g \in Loops : Hot(r, g)
          BY <2>1, <2>3, <3>1 DEF Pushed
        <4>2. Pushed(r)'
          BY <2>1, <2>h, <4>1 DEF Pushed
        <4> QED
          BY <4>2 DEF Moving
      <3>2. CASE AtGate(r) /\ \E g \in Loops : loop[r][g] \in Cold
        BY <2>1, <3>2 DEF Moving, AtGate
      <3>3. CASE AtGate(r) /\ r \in waiting /\ TakenCare(r) /\ r \in running
        <4>1. gen[r] > 0 /\ gen[r] \in Loops
          BY <1>m, <3>3, WebAssumption DEF Counted, SizeInv, Sized, Loops
        <4>2. CASE loop[r][gen[r]] \in Parked
          <5>1. TakenCare(r)'
            BY <2>1, <4>1, <4>2 DEF TakenCare
          <5> QED
            BY <2>1, <2>6, <3>3, <5>1 DEF Moving, AtGate
        <4>3. CASE loop[r][gen[r]] \in Cold
          BY <2>1, <3>3, <4>1, <4>3 DEF Moving, AtGate
        <4>4. CASE loop[r][gen[r]] \notin Parked \cup Cold \cup {"over"}
          <5>1. loop[r][gen[r]] # "none"
            BY <1>m, <4>1 DEF Counted
          <5>2. Hot(r, gen[r])
            BY <4>4, <5>1 DEF Hot
          <5> QED
            BY <2>h, <4>1, <5>2 DEF Moving, Pushed
        <4>5. CASE loop[r][gen[r]] = "over"
          <5>1. r \in exited /\ ~leaving.parked
            BY <1>m, <2>6, <3>3, <4>1, <4>5 DEF Counted
          <5>2. TakenCare(r)'
            BY <2>1, <3>3, <4>5, <5>1 DEF TakenCare, Viewerless, Parked
          <5> QED
            BY <2>1, <2>6, <3>3, <5>2 DEF Moving, AtGate
        <4> QED
          BY <4>2, <4>3, <4>4, <4>5
      <3> QED
        BY <1>m, <2>1, <3>1, <3>2, <3>3 DEF Moving, AtGate
    <2>7. Moving(r)'
      BY <2>5, <2>6
    <2>8. \A q \in Runs : q # r => (q \in waiting' <=> q \in waiting)
      BY <2>1
    <2> QED
      BY <1>r, <2>1, <2>2, <2>4, <2>7, <2>8, OneRunMoves
  <1>3. CASE Schedule
    <2>1. /\ leaving.step = "schedule"
          /\ UNCHANGED <<owner, running, waiting, exited, gone, dropped, gen, held, loop, sess>>
          /\ \/ /\ leaving' = Idle
                /\ due' = IF leaving.restart THEN [due EXCEPT ![r] = @ + 1] ELSE due
             \/ leaving' = [leaving EXCEPT !.step = "cancel"] /\ due' = due
      BY <1>r, <1>3 DEF Schedule
    <2>2. held[r].by # "leave"
      BY <1>m, <2>1 DEF Counted
    <2>3. Counted(r)'
      BY <1>m, <2>1, <2>2 DEF Counted
    <2>h. \A g \in Loops : Hot(r, g)' <=> Hot(r, g)
      BY <2>1 DEF Hot, IsComplete
    <2>4. CASE leaving' = [leaving EXCEPT !.step = "cancel"] /\ due' = due
      <3>1. leaving'.run = r /\ leaving'.step = "cancel"
        BY <1>r, <1>t, <2>4 DEF Leaves
      <3>2. Moving(r)'
        BY <3>1 DEF Moving, Pushed
      <3> QED
        BY <1>r, <2>1, <2>3, <2>4, <3>1, <3>2, OneRunMoves
    <2>5. CASE leaving' = Idle /\ leaving.restart /\ due' = [due EXCEPT ![r] = @ + 1]
      <3>1. due'[r] > 0 /\ \A q \in Runs : q # r => due'[q] = due[q]
        BY <2>5 DEF SizeInv, Sized
      <3>2. Moving(r)'
        BY <3>1 DEF Moving, Pushed
      <3> QED
        BY <1>r, <1>t, <2>1, <2>3, <2>5, <3>1, <3>2, OneRunMoves
    <2>6. CASE leaving' = Idle /\ ~leaving.restart /\ due' = due
      <3>1. Pushed(r) => Pushed(r)'
        BY <2>1, <2>6, <2>h DEF Pushed
      <3>2. AtGate(r) => AtGate(r)'
        <4>1. TakenCare(r) => TakenCare(r)'
          BY <2>1 DEF TakenCare, Viewerless
        <4> QED
          BY <2>1, <4>1 DEF AtGate
      <3>3. Moving(r)'
        BY <1>m, <2>1, <3>1, <3>2 DEF Moving
      <3> QED
        BY <1>r, <1>t, <2>1, <2>3, <2>6, <3>3, OneRunMoves
    <2> QED
      BY <2>1, <2>4, <2>5, <2>6
  <1>4. CASE CancelUnscheduled
    <2>1. /\ leaving.step = "cancel" /\ held[r].by # "leave"
          /\ UNCHANGED <<owner, waiting, exited, gone, dropped, gen, loop, due, sess>>
      BY <1>r, <1>4 DEF CancelUnscheduled
    <2>2. CASE cur = r
      <3>1. CancelUnder(r, "leave") /\ leaving' = IF r \in persisted THEN Idle ELSE leaving
        BY <1>r, <1>4, <2>2 DEF CancelUnscheduled
      <3>2. CASE r \in persisted
        BY <1>r, <2>1, <3>1, <3>2, CancelMoves
      <3>3. CASE r \notin persisted
        BY <1>r, <2>1, <3>1, <3>3, CancelMoves
      <3> QED
        BY <3>2, <3>3
    <2>3. CASE cur # r
      <3>1. leaving' = Idle /\ UNCHANGED <<running, held>> /\ r \notin running
        BY <1>r, <1>4, <2>3 DEF CancelUnscheduled, IndInv, Launched
      <3>2. Counted(r)' /\ Moving(r)'
        BY <1>m, <2>1, <3>1 DEF Counted, Moving
      <3> QED
        BY <1>r, <1>t, <2>1, <3>1, <3>2, OneRunMoves
    <2> QED
      BY <2>2, <2>3
  <1> QED
    BY <1>1, <1>2, <1>3, <1>4 DEF LeaveStep

\* Every step leaves a live run with somebody to drive it.
THEOREM NextMoves == IndInv /\ SizeInv /\ MoveInv /\ [Next]_vars => MoveInv'
  <1> SUFFICES ASSUME IndInv, SizeInv, MoveInv, [Next]_vars PROVE MoveInv'
    OBVIOUS
  <1>1. CASE UNCHANGED vars
    BY <1>1, QuietMoves DEF vars, flags, session, handlers, history
  <1>2. CASE \E r \in Runs : End(r)
    BY <1>2, EndMoves
  <1>3. ASSUME Replace \/ \E o \in {"socket", "http"} : Start(o)
        PROVE  MoveInv'
    <2>1. PICK r : r \in Runs
      BY WebAssumption DEF Runs
    <2> QED
      BY <1>3, <2>1, OtherMoves
  <1>4. CASE Client
    BY <1>3, <1>4, AnswerMoves, OtherMoves, DisconnectMoves DEF Client
  <1>5. CASE StartStep \/ LeaveStep
    BY <1>3, <1>5, RegisterMoves, LeaveMoves DEF StartStep
  <1>6. CASE \E r \in Runs : Server(r) \/ LaunchFails(r)
    BY <1>6, StartMoves, AnswerMoves, OtherMoves DEF Server
  <1>7. CASE \E r \in Runs, g \in Loops : LoopStep(r, g)
    BY <1>7, LoopMovesAll
  <1> QED
    BY <1>1, <1>2, <1>4, <1>5, <1>6, <1>7 DEF Next

---------------------------------------------------------------------------
\* At first there is nothing to reclaim.
LEMMA InitBacks == Init => BackInv
  BY DEF Init, BackInv, Backed, Free, Idle

\* A run keeps its owner, and what only a run with a viewer may have.
LEMMA BackFrame ==
    ASSUME NEW r \in Runs, Backed(r), owner'[r] = owner[r],
           held'[r].by = "answer" => held[r].by = "answer" \/ owner[r] = "socket",
           r \in waiting' \cup dropped' \cup gone' =>
              r \in waiting \cup dropped \cup gone \/ owner[r] = "socket",
           leaving'.step # "none" /\ leaving'.run = r =>
              (leaving.step # "none" /\ leaving.run = r) \/ owner[r] = "socket",
           UNCHANGED <<due[r], gen[r]>> \/ owner[r] = "socket",
           r \in running' /\ r \in gone' =>
              \/ reclaim'[r] # "off"
              \/ leaving'.run = r /\ leaving'.step # "none"
              \/ r \in persisted'
    PROVE  Backed(r)'
  BY DEF Backed

\* A step that neither reclaims, nor leaves, nor launches a run.
LEMMA BackQuiet ==
    ASSUME BackInv, UNCHANGED <<owner, gone, leaving, reclaim>>,
           running' \subseteq running, persisted \subseteq persisted',
           \A r \in Runs :
              /\ held'[r].by = "answer" => held[r].by = "answer" \/ owner[r] = "socket"
              /\ r \in waiting' \cup dropped' => r \in waiting \cup dropped \/ owner[r] = "socket"
              /\ UNCHANGED <<due[r], gen[r]>> \/ owner[r] = "socket"
    PROVE  BackInv'
  <1>1. ASSUME NEW r \in Runs PROVE Backed(r)'
    <2>1. Backed(r)
      BY DEF BackInv
    <2>2. r \in running' /\ r \in gone' =>
              \/ reclaim'[r] # "off"
              \/ leaving'.run = r /\ leaving'.step # "none"
              \/ r \in persisted'
      BY <2>1 DEF Backed
    <2> QED
      BY <2>1, <2>2, BackFrame
  <1> QED
    BY <1>1 DEF BackInv

\* A loop parks a run only if it has a viewer, and restarts a parked one.
LEMMA LoopBacks ==
    ASSUME IndInv, SizeInv, BackInv, NEW r \in Runs, NEW g \in Loops, LoopStep(r, g)
    PROVE  BackInv'
  <1> USE DEF flags, session, handlers, history
  <1>1. UNCHANGED <<owner, gone, leaving, reclaim, running, persisted, dropped, gen>>
    BY DEF LoopStep, Enter, Complete, Drive, DriveRaises, EmitHour, Stall, Park, Announce,
       Refuse, Stop, Ends, Leave
  <1>2. \A q \in Runs : held'[q].by = "answer" => held[q].by = "answer"
    <2>1. \/ held' = held \/ Releases(r)
          \/ \E stage, status : Takes(r, "loop", g, stage, status)
      BY DEF LoopStep, Enter, Complete, Drive, DriveRaises, EmitHour, Stall, Park, Announce,
         Refuse, Stop, Ends, Leave
    <2>2. CASE held' = held
      BY <2>2
    <2>3. CASE Releases(r)
      BY <2>3 DEF Releases, Free, IndInv, Types
    <2>4. CASE \E stage, status : Takes(r, "loop", g, stage, status)
      <3>1. held'[r].by = "loop" /\ \A q \in Runs : q # r => held'[q] = held[q]
        BY <2>4 DEF Takes, IndInv, Types
      <3> QED
        BY <3>1
    <2> QED
      BY <2>1, <2>2, <2>3, <2>4
  <1>3. \/ waiting' \subseteq waiting
        \/ Park(r, g) /\ Live(r) /\ ~Viewerless(r) /\ waiting' = waiting \cup {r}
    BY DEF LoopStep, Enter, Complete, Drive, DriveRaises, EmitHour, Stall, Park, Announce,
       Refuse, Stop, Ends, Leave
  <1>4. Live(r) /\ ~Viewerless(r) => owner[r] = "socket"
    BY WebAssumption DEF Live, Viewerless, IndInv, Types, Launched, Runs
  <1>5. \/ due' = due
        \/ r \in waiting /\ due' = [due EXCEPT ![r] = @ + 1]
    BY DEF LoopStep, Enter, Complete, Drive, DriveRaises, EmitHour, Stall, Park, Announce,
       Refuse, Stop, Ends, Leave, TakesOver
  <1>6. r \in waiting => owner[r] = "socket"
    BY DEF BackInv, Backed
  <1>7. \A q \in Runs : due'[q] = due[q] \/ owner[q] = "socket"
    BY <1>5, <1>6 DEF SizeInv, Sized
  <1> QED
    BY <1>1, <1>2, <1>3, <1>4, <1>7, BackQuiet

\* A cancellation takes the lock, or ends a run.
LEMMA CancelLocks ==
    ASSUME IndInv, NEW r \in Runs, NEW by \in {"client", "leave", "start", "reclaim"}, CancelUnder(r, by)
    PROVE  /\ running' \subseteq running
           /\ r \in persisted => running' = running \ {r}
           /\ \A q \in Runs : held'[q].by = "answer" => held[q].by = "answer"
  <1>1. running' \in {running, running \ {r}}
    BY CancelEnds
  <1>2. r \in persisted => running' = running \ {r} /\ held' = held
    BY FinishEnds DEF CancelUnder
  <1>3. r \notin persisted => held' = [held EXCEPT ![r] = held'[r]] /\ held'[r].by = by
    BY DEF CancelUnder, Takes, IndInv, Types
  <1>4. \A q \in Runs : held'[q].by = "answer" => held[q].by = "answer"
    BY <1>2, <1>3 DEF IndInv, Types
  <1> QED
    BY <1>1, <1>2, <1>4

\* Whoever starts, answers, pauses or cancels a run.
LEMMA HandlerBacks ==
    ASSUME IndInv, SizeInv, BackInv, NEW r \in Runs,
           \/ Answer(r) \/ AnswerRaises(r) \/ Answered(r) \/ PauseOrResume(r) \/ ClientCancel(r)
           \/ Publish(r) \/ Saved(r) \/ Replace \/ \E o \in {"socket", "http"} : Start(o)
    PROVE  BackInv'
  <1> USE DEF flags, session, handlers, history
  <1>1. UNCHANGED <<owner, gone, leaving, reclaim, gen>> /\ persisted \subseteq persisted'
    BY DEF Answer, AnswerRaises, Answered, PauseOrResume, ClientCancel, Publish, Saved, Replace, Start
  <1>2. CASE UNCHANGED <<running, held, waiting, dropped, due>>
    BY <1>1, <1>2, BackQuiet
  <1>3. CASE Answer(r)
    <2>1. /\ owner[r] = "socket" /\ UNCHANGED <<running, waiting, dropped, due>>
          /\ \A q \in Runs : q # r => held'[q] = held[q]
      BY <1>3 DEF Answer, Takes, IndInv, Types
    <2> QED
      BY <1>1, <2>1, BackQuiet
  <1>4. CASE AnswerRaises(r) \/ Answered(r)
    <2>1. owner[r] = "socket"
      BY <1>4 DEF AnswerRaises, Answered, BackInv, Backed
    <2>2. /\ running' = running /\ waiting' \subseteq waiting /\ dropped' \subseteq dropped \cup {r}
          /\ held' = held \/ Releases(r)
          /\ due' = due \/ due' = [due EXCEPT ![r] = @ + 1]
      BY <1>4 DEF AnswerRaises, Answered
    <2>3. \A q \in Runs : q # r => held'[q] = held[q] /\ due'[q] = due[q]
      BY <2>2 DEF Releases, IndInv, Types, SizeInv, Sized
    <2> QED
      BY <1>1, <2>1, <2>2, <2>3, BackQuiet
  <1>5. CASE Publish(r) \/ Saved(r)
    <2>1. /\ UNCHANGED <<running, waiting, dropped, due>>
          /\ \E stage \in {"published", "close"} : held' = [held EXCEPT ![r].stage = stage]
      BY <1>5 DEF Publish, Saved
    <2>2. \A q \in Runs : held'[q].by = held[q].by
      BY <2>1 DEF IndInv, Types, Locks
    <2> QED
      BY <1>1, <2>1, <2>2, BackQuiet
  <1>6. ASSUME NEW q \in Runs, NEW by \in {"client", "start"}, CancelUnder(q, by),
               UNCHANGED <<waiting, dropped, due>>
        PROVE  BackInv'
    <2>1. /\ running' \subseteq running
          /\ \A p \in Runs : held'[p].by = "answer" => held[p].by = "answer"
      BY <1>6, CancelLocks
    <2> QED
      BY <1>1, <1>6, <2>1, BackQuiet
  <1>7. CASE ClientCancel(r)
    BY <1>6, <1>7 DEF ClientCancel
  <1>8. CASE Replace
    <2>1. CASE cur = 0
      BY <1>2, <1>8, <2>1 DEF Replace
    <2>2. CASE cur # 0
      <3>1. cur \in Runs /\ CancelUnder(cur, "start") /\ UNCHANGED <<waiting, dropped, due>>
        BY <1>8, <2>2, WebAssumption DEF Replace, IndInv, Types, Runs
      <3> QED
        BY <1>6, <3>1
    <2> QED
      BY <2>1, <2>2
  <1> QED
    BY <1>2, <1>3, <1>4, <1>5, <1>7, <1>8 DEF PauseOrResume, Start

\* A call to start a loop is used up. An HTTP run has one, for its first loop.
LEMMA StartBacks ==
    ASSUME IndInv, SizeInv, BackInv, NEW r \in Runs, StartLoop(r) \/ LaunchFails(r)
    PROVE  BackInv'
  <1> USE DEF flags, session, handlers, history
  <1>1. /\ UNCHANGED <<owner, gone, leaving, reclaim, held, waiting, persisted>>
        /\ running' \subseteq running
        /\ due[r] > 0 /\ due' = [due EXCEPT ![r] = @ - 1]
        /\ gen' = gen \/ gen' = [gen EXCEPT ![r] = @ + 1]
        /\ dropped' = dropped \/ (gen[r] > 0 /\ dropped' = dropped \cup {r})
    BY DEF StartLoop, LaterFails, LaunchFails
  <1>2. /\ Backed(r) /\ due[r] \in Nat /\ gen[r] \in Nat /\ owner[r] \in {"none", "socket", "http"}
        /\ due'[r] = due[r] - 1 /\ gen'[r] \in Nat
        /\ \A q \in Runs : q # r => due'[q] = due[q] /\ gen'[q] = gen[q]
    BY <1>1 DEF BackInv, SizeInv, Sized, IndInv, Types
  <1>3. CASE owner[r] = "socket"
    BY <1>1, <1>2, <1>3, BackQuiet
  <1>4. CASE owner[r] # "socket"
    <2>1. owner[r] = "http" /\ due[r] = 1 /\ gen[r] = 0
      BY <1>1, <1>2, <1>4 DEF Backed
    <2>2. Backed(r)'
      BY <1>1, <1>2, <2>1 DEF Backed
    <2>3. ASSUME NEW q \in Runs, q # r PROVE Backed(q)'
      BY <1>1, <1>2, <2>1, <2>3 DEF BackInv, Backed
    <2> QED
      BY <2>2, <2>3 DEF BackInv
  <1> QED
    BY <1>3, <1>4

\* The end of a run: its disconnect handler and its timer have nothing to do.
LEMMA EndBacks ==
    ASSUME IndInv, SizeInv, MoveInv, BackInv, NEW r \in Runs, SaveFails(r) \/ Close(r)
    PROVE  BackInv'
  <1> USE DEF flags, session, handlers, history
  <1>1. PICK saved \in BOOLEAN : HolderGoesOn(r, saved)
    BY DEF SaveFails, Close
  <1>2. /\ running' = running \ {r}
        /\ UNCHANGED <<owner, gen, due, waiting, gone, dropped, persisted>>
    BY FinishEnds DEF SaveFails, Close
  <1>3. /\ leaving' = IF held[r].by = "leave" THEN Idle ELSE leaving
        /\ reclaim' = IF held[r].by = "reclaim" THEN [reclaim EXCEPT ![r] = "off"] ELSE reclaim
        /\ held' = [held EXCEPT ![r] = Free]
    BY <1>1 DEF HolderGoesOn, Releases
  <1>4. /\ held[r].by = "leave" => leaving.run = r
        /\ Idle.step = "none" /\ Free.by = "none"
        /\ held'[r] = Free /\ \A q \in Runs : q # r => held'[q] = held[q] /\ reclaim'[q] = reclaim[q]
    BY <1>3 DEF MoveInv, Counted, Idle, Free, IndInv, Types, SizeInv, Sized
  <1>5. ASSUME NEW q \in Runs PROVE Backed(q)'
    <2>1. Backed(q)
      BY DEF BackInv
    <2>2. q \in running' /\ q \in gone' =>
              \/ reclaim'[q] # "off"
              \/ leaving'.run = q /\ leaving'.step # "none"
              \/ q \in persisted'
      BY <1>2, <1>3, <1>4, <2>1 DEF Backed
    <2> QED
      BY <1>2, <1>3, <1>4, <2>1, <2>2, BackFrame
  <1> QED
    BY <1>5 DEF BackInv

\* The handler of a closed socket, until it has started the timer.
LEMMA LeaveBacks ==
    ASSUME IndInv, SizeInv, BackInv, Disconnect \/ LeaveStep
    PROVE  BackInv'
  <1> USE DEF flags, session, handlers, history
  <1>i. Idle.step = "none" /\ Free.by = "none" /\ leaving \in Leaves
    BY DEF Idle, Free, IndInv, Types
  <1>1. CASE Disconnect
    <2>r. PICK r \in Runs : r = cur
      BY <1>1, WebAssumption DEF Disconnect, IndInv, Types, Runs
    <2>1. /\ owner[r] = "socket" /\ gone' = gone \cup {r} /\ leaving = Idle
          /\ UNCHANGED <<owner, waiting, dropped, persisted, gen, due, reclaim>>
      BY <1>1, <2>r DEF Disconnect
    <2>2. /\ running' \subseteq running
          /\ \A q \in Runs : held'[q].by = "answer" => held[q].by = "answer"
          /\ \/ leaving' = Idle /\ r \notin running'
             \/ leaving'.run = r /\ leaving'.step = "read"
      <3>1. CASE r \in persisted
        BY <1>1, <2>r, <2>1, <3>1 DEF Disconnect
      <3>2. CASE r \notin persisted
        <4>1. /\ Takes(r, "leave", 0, "mid", "none") /\ running' = running
              /\ leaving' = [Idle EXCEPT !.step = "read", !.run = r]
          BY <1>1, <2>r, <3>2 DEF Disconnect
        <4> QED
          BY <4>1 DEF Takes, Idle, IndInv, Types
      <3> QED
        BY <3>1, <3>2
    <2>3. ASSUME NEW q \in Runs PROVE Backed(q)'
      <3>1. Backed(q)
        BY DEF BackInv
      <3>2. q \in running' /\ q \in gone' =>
                \/ reclaim'[q] # "off"
                \/ leaving'.run = q /\ leaving'.step # "none"
                \/ q \in persisted'
        BY <1>i, <2>1, <2>2, <3>1 DEF Backed
      <3> QED
        BY <1>i, <2>1, <2>2, <3>1, <3>2, BackFrame
    <2> QED
      BY <2>3 DEF BackInv
  <1>2. CASE LeaveStep
    <2>r. PICK r \in Runs : r = leaving.run
      BY <1>2 DEF LeaveStep, ReadWaiting, ReadExited, Schedule, CancelUnscheduled, IndInv, Detaching
    <2>1. /\ leaving.step # "none" /\ owner[r] = "socket"
          /\ UNCHANGED <<owner, gone, dropped, persisted, gen>>
          /\ waiting' \subseteq waiting
      <3>1. leaving.step # "none"
        BY <1>2 DEF LeaveStep, ReadWaiting, ReadExited, Schedule, CancelUnscheduled
      <3> QED
        BY <1>2, <2>r, <3>1 DEF LeaveStep, ReadWaiting, ReadExited, Schedule, CancelUnscheduled,
           BackInv, Backed
    <2>2. /\ running' \subseteq running
          /\ \A q \in Runs : held'[q].by = "answer" => held[q].by = "answer"
      <3>1. CASE CancelUnder(r, "leave")
        BY <3>1, CancelLocks
      <3>2. CASE running' = running /\ (held' = held \/ Releases(r))
        BY <1>i, <3>2 DEF Releases, IndInv, Types
      <3> QED
        BY <1>2, <2>r, <3>1, <3>2 DEF LeaveStep, ReadWaiting, ReadExited, Schedule, CancelUnscheduled
    <2>3. /\ leaving'.run = r \/ leaving' = Idle
          /\ \A q \in Runs : q # r => reclaim'[q] = reclaim[q] /\ due'[q] = due[q]
      <3>1. CASE ReadWaiting \/ ReadExited \/ CancelUnscheduled
        <4>1. /\ UNCHANGED <<reclaim, due>>
              /\ \/ leaving' \in {leaving, Idle}
                 \/ \E parked : leaving' = [leaving EXCEPT !.step = "decide", !.parked = parked]
                 \/ \E restart : leaving' = [leaving EXCEPT !.step = "schedule", !.restart = restart]
          BY <3>1 DEF ReadWaiting, ReadExited, CancelUnscheduled
        <4> QED
          BY <1>i, <2>r, <4>1 DEF Leaves
      <3>2. CASE Schedule
        <4>1. /\ reclaim' = reclaim \/ reclaim' = [reclaim EXCEPT ![r] = "waiting"]
              /\ due' = due \/ due' = [due EXCEPT ![r] = @ + 1]
              /\ leaving' = Idle \/ leaving' = [leaving EXCEPT !.step = "cancel"]
          BY <2>r, <3>2 DEF Schedule
        <4> QED
          BY <1>i, <2>r, <4>1 DEF Leaves, SizeInv, Sized
      <3> QED
        BY <1>2, <3>1, <3>2 DEF LeaveStep
    <2>4. leaving'.step = "none" /\ r \in running' => reclaim'[r] # "off" \/ r \in persisted'
      <3>1. CASE ReadWaiting \/ ReadExited
        <4>1. leaving'.step \in {"decide", "schedule"}
          BY <1>i, <3>1 DEF ReadWaiting, ReadExited, Leaves
        <4> QED
          BY <4>1
      <3>2. CASE Schedule
        <4>1. CASE Reclaimable(r)
          BY <1>i, <2>r, <3>2, <4>1 DEF Schedule, Leaves, SizeInv, Sized
        <4>2. CASE ~Reclaimable(r)
          BY <2>1, <2>2, <4>2 DEF Reclaimable, Live, IndInv, Launched
        <4> QED
          BY <4>1, <4>2
      <3>3. CASE CancelUnscheduled
        <4>1. CASE cur # r
          BY <2>2, <4>1 DEF IndInv, Launched
        <4>2. CASE cur = r
          <5>1. CancelUnder(r, "leave") /\ leaving' = IF r \in persisted THEN Idle ELSE leaving
            BY <2>r, <3>3, <4>2 DEF CancelUnscheduled
          <5> QED
            BY <2>1, <5>1, CancelLocks
        <4> QED
          BY <4>1, <4>2
      <3> QED
        BY <1>2, <3>1, <3>2, <3>3 DEF LeaveStep
    <2>5. ASSUME NEW q \in Runs PROVE Backed(q)'
      <3>1. Backed(q)
        BY DEF BackInv
      <3>2. q \in running' /\ q \in gone' =>
                \/ reclaim'[q] # "off"
                \/ leaving'.run = q /\ leaving'.step # "none"
                \/ q \in persisted'
        BY <1>i, <2>r, <2>1, <2>2, <2>3, <2>4, <3>1 DEF Backed
      <3> QED
        BY <1>i, <2>1, <2>2, <2>3, <3>1, <3>2, BackFrame
    <2> QED
      BY <2>5 DEF BackInv
  <1> QED
    BY <1>1, <1>2

\* The timer gives up only a run that is filed, or lives no more.
LEMMA TimerBacks ==
    ASSUME IndInv, SizeInv, BackInv, NEW r \in Runs, ReclaimDue(r) \/ Reclaim(r)
    PROVE  BackInv'
  <1> USE DEF flags, session, handlers, history
  <1>1. /\ UNCHANGED <<owner, gone, leaving, waiting, dropped, persisted, due, gen>>
        /\ reclaim' = reclaim \/ \E c \in {"off", "firing"} : reclaim' = [reclaim EXCEPT ![r] = c]
    BY DEF ReclaimDue, Reclaim
  <1>2. \A q \in Runs : q # r => reclaim'[q] = reclaim[q]
    BY <1>1 DEF SizeInv, Sized
  <1>3. /\ running' \subseteq running
        /\ \A q \in Runs : held'[q].by = "answer" => held[q].by = "answer"
    BY CancelLocks DEF ReclaimDue, Reclaim
  <1>4. r \in running' => reclaim'[r] # "off" \/ r \in persisted'
    <2>1. CASE ReclaimDue(r)
      <3>1. CASE Reclaimable(r)
        BY <2>1, <3>1 DEF ReclaimDue, SizeInv, Sized
      <3>2. CASE ~Reclaimable(r)
        BY <1>1, <1>3, <3>2 DEF Reclaimable, Live, IndInv, Launched
      <3> QED
        BY <3>1, <3>2
    <2>2. CASE Reclaim(r) /\ cur # r
      BY <1>3, <2>2 DEF IndInv, Launched
    <2>3. CASE Reclaim(r) /\ cur = r
      <3>1. /\ reclaim[r] = "firing" /\ CancelUnder(r, "reclaim")
            /\ r \notin persisted => reclaim' = reclaim
        BY <2>3 DEF Reclaim
      <3> QED
        BY <3>1, CancelLocks
    <2> QED
      BY <2>1, <2>2, <2>3
  <1>5. ASSUME NEW q \in Runs PROVE Backed(q)'
    <2>1. Backed(q)
      BY DEF BackInv
    <2>2. q \in running' /\ q \in gone' =>
              \/ reclaim'[q] # "off"
              \/ leaving'.run = q /\ leaving'.step # "none"
              \/ q \in persisted'
      BY <1>1, <1>2, <1>3, <1>4, <2>1 DEF Backed
    <2> QED
      BY <1>1, <1>3, <2>1, <2>2, BackFrame
  <1> QED
    BY <1>5 DEF BackInv

\* A run that is registered is a new one.
LEMMA RegisterBacks ==
    ASSUME IndInv, SizeInv, MoveInv, BackInv, Register
    PROVE  BackInv'
  <1> USE DEF flags, session, handlers, history
  <1>1. PICK r \in Runs :
          /\ owner[r] = "none"
          /\ owner' = [owner EXCEPT ![r] = starting.owner]
          /\ running' = {r} /\ due' = [due EXCEPT ![r] = @ + 1]
    BY DEF Register
  <1>2. /\ waiting' = {} /\ gone' = {} /\ dropped' = {}
        /\ UNCHANGED <<gen, held, leaving, reclaim, persisted>>
    BY DEF Register
  <1>3. /\ owner'[r] = starting.owner /\ starting.owner # "none" /\ due'[r] = due[r] + 1
        /\ \A q \in Runs : q # r => owner'[q] = owner[q] /\ due'[q] = due[q]
    BY <1>1 DEF Register, IndInv, Types, Replacing, SizeInv, Sized
  <1>4. /\ due[r] = 0 /\ gen[r] = 0 /\ held[r] = Free /\ Free.by = "none"
        /\ ~(leaving.step # "none" /\ leaving.run = r)
    BY <1>1 DEF BackInv, Backed, MoveInv, Counted, IndInv, Launched, Free
  <1>5. Backed(r)'
    BY <1>2, <1>3, <1>4 DEF Backed
  <1>6. ASSUME NEW q \in Runs, q # r PROVE Backed(q)'
    <2>1. Backed(q)
      BY DEF BackInv
    <2> QED
      BY <1>2, <1>3, <1>6, <2>1, BackFrame
  <1> QED
    BY <1>5, <1>6 DEF BackInv

\* Every step leaves a run whose viewer left with somebody to reclaim it.
THEOREM NextBacks == IndInv /\ SizeInv /\ MoveInv /\ BackInv /\ [Next]_vars => BackInv'
  <1> SUFFICES ASSUME IndInv, SizeInv, MoveInv, BackInv, [Next]_vars PROVE BackInv'
    OBVIOUS
  <1>1. CASE UNCHANGED vars
    BY <1>1, BackQuiet DEF vars, flags, session, handlers, history
  <1>2. CASE \E r \in Runs : End(r)
    BY <1>2, HandlerBacks, EndBacks DEF End
  <1>3. ASSUME Replace \/ \E o \in {"socket", "http"} : Start(o)
        PROVE  BackInv'
    <2>1. PICK r : r \in Runs
      BY WebAssumption DEF Runs
    <2> QED
      BY <1>3, <2>1, HandlerBacks
  <1>4. CASE Client
    BY <1>3, <1>4, HandlerBacks, LeaveBacks DEF Client
  <1>5. CASE StartStep \/ LeaveStep
    BY <1>3, <1>5, RegisterBacks, LeaveBacks DEF StartStep
  <1>6. CASE \E r \in Runs : Server(r) \/ LaunchFails(r)
    BY <1>6, StartBacks, HandlerBacks, TimerBacks DEF Server
  <1>7. CASE \E r \in Runs, g \in Loops : LoopStep(r, g)
    BY <1>7, LoopBacks
  <1> QED
    BY <1>1, <1>2, <1>4, <1>5, <1>6, <1>7 DEF Next

\* A run that an exception left to itself, with nobody at work on it, was not
\* left by its viewer, or waits for its reclaim.
LEMMA DroppedBacked ==
    ASSUME IndInv, BackInv, NEW r \in running, r \in dropped, ~Driven(r), Viewerless(r)
    PROVE  reclaim[r] # "off"
  <1>1. r \in Runs /\ Backed(r)
    BY DEF IndInv, Types, BackInv
  <1>2. r \in gone
    BY <1>1 DEF Backed, Viewerless
  <1>3. held[r].stage = "none" /\ ~(leaving.run = r /\ leaving.step # "none")
    BY DEF Driven, Free
  <1>4. r \notin persisted
    BY <1>1, <1>3 DEF IndInv, FiledOnce
  <1> QED
    BY <1>1, <1>2, <1>3, <1>4 DEF Backed

\* A live run has somebody to drive it, or waits for its viewer; one that an
\* exception left to itself has its viewer or its reclaim to end it; for any
\* number of runs, hours and loops (web/events.py 831, 2857, 2924).
THEOREM NobodyStranded == Spec => []NotStranded
  <1>1. Spec => [](IndInv /\ SizeInv /\ MoveInv /\ BackInv)
    BY InitIndInv, InitSized, InitMoves, InitBacks, NextKeeps, NextSizes, NextMoves, NextBacks,
       PTL DEF Spec
  <1>2. IndInv /\ SizeInv /\ MoveInv /\ BackInv => NotStranded
    <2> SUFFICES ASSUME IndInv, SizeInv, MoveInv, BackInv, NEW r \in running, ~Driven(r)
                 PROVE  \/ AwaitsViewer(r)
                        \/ r \in dropped /\ (Viewerless(r) => reclaim[r] # "off")
      BY DEF NotStranded
    <2>1. CASE r \in dropped
      BY <2>1, DroppedBacked
    <2>2. CASE r \notin dropped
      <3>1. Moving(r)
        BY DEF MoveInv, IndInv, Types
      <3> QED
        BY <2>2, <3>1, MovingNotStranded DEF AwaitsViewer
    <2> QED
      BY <2>1, <2>2
  <1> QED
    BY <1>1, <1>2, PTL
=============================================================================
