------------------------- MODULE EnginePool_proofs --------------------------
(***************************************************************************)
(* Four facts about the pool of engines, for any number of slots, requests *)
(* and processes: a close that did not time out leaves no process behind,  *)
(* an answered request got the answer to itself, every variable has its    *)
(* type, and requests fare as FuturePool promises.                         *)
(*                                                                         *)
(* A process that lives is the current one of its worker, is remembered to *)
(* be reaped, or is about to be stopped by its thread; so whoever forgets  *)
(* the current one and kills what is remembered has killed them all, if no *)
(* thread can make another.                                                *)
(***************************************************************************)
EXTENDS EnginePool, SequenceTheorems, FiniteSetTheorems, TLAPS

Lives == {"none", "made", "alive", "dead"}
Steps == {"none", "cancel", "disable", "tell", "join", "wait", "reap", "done"}

Closings == [Closers -> [step : Steps, owns : BOOLEAN, kept : Nat, joins : SUBSET Slots,
                         timedOut : BOOLEAN]]

Types ==
    /\ at \in [Slots -> Places]
    /\ mine \in [Slots -> 0..MaxProcs]
    /\ proc \in [Slots -> 0..MaxProcs]
    /\ reaping \in [Slots -> SUBSET Procs]
    /\ life \in [Slots -> [Procs -> Lives]]
    /\ disabled \subseteq Slots
    /\ listed \subseteq Slots
    /\ ctor \in 1..(NSlots + 1)
    /\ closer \in Closings

\* Where the processes of a worker are to be found.
Known(w) ==
    /\ w \in disabled \/ at[w] \in {"unborn", "start", "restart"} => proc[w] = 0
    /\ at[w] \in {"ours", "spawn"} => mine[w] \in Procs /\ life[w][mine[w]] = "made"
    /\ at[w] = "spawned" => mine[w] \in Procs /\ life[w][mine[w]] # "made"
    /\ \A p \in Procs :
          /\ life[w][p] = "made" => p \in reaping[w]
          /\ life[w][p] = "alive" =>
                p = proc[w] \/ p \in reaping[w] \/ (at[w] = "stop" /\ mine[w] = p)
          /\ life[w][p] = "alive" /\ p \in reaping[w] =>
                at[w] \in {"spawned", "stop"} /\ mine[w] = p

Processes == \A w \in Slots : Known(w)

\* How far a close has come: one that cancels disables the workers, the other
\* waits until all threads are over; and then it kills what is left.
Closing(c) ==
    /\ closer[c].owns => closer[c].step # "wait"
    /\ closer[c].step \in {"cancel", "disable"} => Cancels(c)
    /\ Cancels(c) /\ closer[c].step \notin {"none", "cancel", "disable"} => disabled = Slots
    /\ Cancels(c) /\ closer[c].owns /\ closer[c].step = "done" /\ ~closer[c].timedOut
          => \A w \in Slots : reaping[w] = {}
    /\ ~Cancels(c) /\ closer[c].step = "tell" => listed = Slots
    /\ ~Cancels(c) /\ closer[c].step = "join" =>
          \A w \in Slots : at[w] = "over" \/ w \in closer[c].joins
    /\ ~Cancels(c) /\ closer[c].step = "reap" => \A w \in Slots : at[w] = "over"
    /\ ~Cancels(c) /\ closer[c].owns /\ closer[c].step = "done" =>
          \A w \in Slots : at[w] = "over" /\ proc[w] = 0

Closes ==
    /\ \A w \in Slots : w < ctor => w \in listed
    /\ \A c \in Closers : Closing(c)

IndInv == Types /\ Processes /\ Closes

---------------------------------------------------------------------------
\* At first there is no process, and nobody closes.
THEOREM InitIndInv == Init => IndInv
  BY PoolAssumption DEF Init, IndInv, Types, Processes, Known, Closes, Closing, Slots, Procs,
     Places, Lives, Steps, Closers, Cancels, Closings

\* The invariant has the property: what lives is found nowhere else.
THEOREM NoneIsLeft == IndInv => NoneLeft
  <1> SUFFICES ASSUME IndInv,
                      NEW c \in Closers, closer[c].owns, closer[c].step = "done", ~closer[c].timedOut,
                      NEW w \in Slots, NEW p \in Procs, Alive(w, p)
               PROVE  at[w] = "stop" /\ mine[w] = p
    BY DEF NoneLeft
  <1>1. p # 0 /\ life[w][p] = "alive"
    BY DEF Alive
  <1>2. CASE Cancels(c)
    <2>1. reaping[w] = {} /\ disabled = Slots
      BY <1>2 DEF IndInv, Closes, Closing
    <2>2. proc[w] = 0
      BY <2>1 DEF IndInv, Processes, Known
    <2> QED
      BY <1>1, <2>1, <2>2 DEF IndInv, Processes, Known
  <1>3. CASE ~Cancels(c)
    <2>1. at[w] = "over" /\ proc[w] = 0
      BY <1>3 DEF IndInv, Closes, Closing
    <2> QED
      BY <1>1, <2>1 DEF IndInv, Processes, Known
  <1> QED
    BY <1>2, <1>3

\* What a step of a slot's thread may do: it works on its own worker only, and
\* has nothing to publish or to keep once that is disabled.
Within(w) ==
    /\ at[w] # "over"
    /\ UNCHANGED <<disabled, listed, ctor, closer>>
    /\ at' \in [Slots -> Places]
    /\ mine' \in [Slots -> 0..MaxProcs]
    /\ proc' \in [Slots -> 0..MaxProcs]
    /\ reaping' \in [Slots -> SUBSET Procs]
    /\ life' \in [Slots -> [Procs -> Lives]]
    /\ \A v \in Slots : v # w => /\ at'[v] = at[v] /\ mine'[v] = mine[v] /\ proc'[v] = proc[v]
                                 /\ reaping'[v] = reaping[v] /\ life'[v] = life[v]
    /\ w \in disabled => reaping'[w] \subseteq reaping[w]
    /\ Known(w)'

\* A thread that stays within its worker keeps the invariant.
LEMMA WithinKeeps ==
    ASSUME IndInv, NEW w \in Slots, Within(w)
    PROVE  IndInv'
  <1>1. Types'
    BY DEF Within, IndInv, Types
  <1>2. Processes'
    <2> SUFFICES ASSUME NEW v \in Slots, v # w PROVE Known(v)'
      BY DEF Processes, Within
    <2> QED
      BY DEF Within, IndInv, Processes, Known
  <1>3. Closes'
    <2>1. ASSUME NEW c \in Closers PROVE Closing(c)'
      <3>1. UNCHANGED <<closer[c], disabled, listed>> /\ Closing(c)
        BY DEF Within, IndInv, Closes
      <3>2. \A v \in Slots : at[v] = "over" => at'[v] = at[v] /\ proc'[v] = proc[v]
        BY DEF Within
      <3>3. disabled = Slots => \A v \in Slots : reaping[v] = {} => reaping'[v] = {}
        BY DEF Within
      <3> QED
        BY <3>1, <3>2, <3>3 DEF Closing, Cancels
    <2> QED
      BY <2>1 DEF Within, IndInv, Closes
  <1> QED
    BY <1>1, <1>2, <1>3 DEF IndInv

\* The thread goes on, or raises: its processes stay where they are.
LEMMA MovesWithin ==
    ASSUME IndInv, NEW w \in Slots, NEW place \in Places \ {"unborn", "start", "ours", "spawn", "spawned"},
           NEW p \in 0..MaxProcs,
           at[w] \notin {"over", "spawned", "stop"},
           at' = [at EXCEPT ![w] = place], mine' = [mine EXCEPT ![w] = p],
           proc' \in {proc, [proc EXCEPT ![w] = 0]},
           proc' # proc => ~Alive(w, proc[w]) \/ (place = "stop" /\ proc[w] = p),
           place = "restart" => proc'[w] = 0,
           UNCHANGED <<disabled, reaping, life, listed, ctor, closer>>
    PROVE  Within(w)
  <1>1. Known(w)
    BY DEF IndInv, Processes
  <1>2. /\ at'[w] = place /\ mine'[w] = p /\ proc'[w] \in {proc[w], 0}
        /\ proc'[w] # proc[w] => ~Alive(w, proc[w]) \/ (place = "stop" /\ proc[w] = p)
        /\ proc' \in [Slots -> 0..MaxProcs]
        /\ reaping'[w] = reaping[w] /\ life'[w] = life[w]
    BY PoolAssumption DEF IndInv, Types
  <1>3. Known(w)'
    <2>1. \A q \in Procs : life[w][q] = "alive" =>
             /\ q # 0 /\ q \notin reaping[w]
             /\ proc'[w] = q \/ (place = "stop" /\ p = q)
      BY <1>1, <1>2, PoolAssumption DEF Known, Alive, Procs
    <2>2. w \in disabled \/ place \in {"unborn", "start", "restart"} => proc'[w] = 0
      BY <1>1, <1>2 DEF Known
    <2> QED
      BY <1>1, <1>2, <2>1, <2>2 DEF Known
  <1> QED
    BY <1>2, <1>3 DEF Within, IndInv, Types

\* Raising moves the thread, and the thread only.
LEMMA RaiseMoves ==
    ASSUME NEW w, Raise(w)
    PROVE  /\ \E place \in {"over", "consume"} : at' = [at EXCEPT ![w] = place]
           /\ mine' = [mine EXCEPT ![w] = 0]
           /\ UNCHANGED listed
  BY DEF Raise, Goes

\* So does discarding the current process, which is then to be stopped.
LEMMA DiscardMoves ==
    ASSUME IndInv, NEW w \in Slots, Discard(w)
    PROVE  /\ UNCHANGED listed
           /\ \E place \in {"over", "consume", "stop"}, p \in 0..MaxProcs :
                 /\ at' = [at EXCEPT ![w] = place]
                 /\ mine' = [mine EXCEPT ![w] = p]
                 /\ proc' \in {proc, [proc EXCEPT ![w] = 0]}
                 /\ proc' # proc => place = "stop" /\ proc[w] = p
  <1>1. CASE proc[w] = mine[w]
    <2>1. /\ proc' = [proc EXCEPT ![w] = 0]
          /\ at' = [at EXCEPT ![w] = "stop"]
          /\ mine' = mine /\ listed' = listed
      BY <1>1 DEF Discard, Goes, pool
    <2>2. mine[w] \in 0..MaxProcs /\ mine' = [mine EXCEPT ![w] = mine[w]]
      BY <2>1 DEF IndInv, Types
    <2> QED
      BY <1>1, <2>1, <2>2
  <1>2. CASE proc[w] # mine[w]
    <2>1. Raise(w) /\ proc' = proc
      BY <1>2 DEF Discard
    <2> QED
      BY <2>1, RaiseMoves, PoolAssumption
  <1> QED
    BY <1>1, <1>2

\* A thread publishes its process, or raises.
LEMMA PublishWithin ==
    ASSUME IndInv, NEW w \in Slots, Publish(w)
    PROVE  Within(w)
  <1> USE DEF IndInv, Types, Places
  <1>1. /\ at[w] \in {"start", "restart"}
        /\ UNCHANGED <<disabled, listed, ctor, closer>>
        /\ Known(w) /\ 0 \in 0..MaxProcs
    BY PoolAssumption DEF Publish, Raise, pool, Processes
  <1>2. CASE w \in disabled /\ reaping' = [reaping EXCEPT ![w] = Unborn(w)] /\ Raise(w)
             /\ UNCHANGED <<proc, life>>
    <2>1. PICK place \in {"over", "consume"} : at' = [at EXCEPT ![w] = place]
      BY <1>2, RaiseMoves
    <2>2. mine' = [mine EXCEPT ![w] = 0]
      BY <1>2, RaiseMoves
    <2>3. Unborn(w) = {p \in reaping[w] : life[w][p] = "made"} /\ Unborn(w) \in SUBSET Procs
      BY DEF Unborn
    <2>4. Known(w)'
      BY <1>1, <1>2, <2>1, <2>2, <2>3 DEF Known
    <2> QED
      BY <1>1, <1>2, <2>1, <2>2, <2>3, <2>4 DEF Within
  <1>3. CASE w \notin disabled /\ \E p \in Procs :
               /\ life[w][p] = "none"
               /\ life' = [life EXCEPT ![w][p] = "made"]
               /\ proc' = [proc EXCEPT ![w] = p]
               /\ reaping' = [reaping EXCEPT ![w] = Unborn(w) \cup {p}]
               /\ mine' = [mine EXCEPT ![w] = p]
               /\ Goes(w, "ours")
    <2>1. PICK p \in Procs :
               /\ life[w][p] = "none"
               /\ life' = [life EXCEPT ![w][p] = "made"]
               /\ proc' = [proc EXCEPT ![w] = p]
               /\ reaping' = [reaping EXCEPT ![w] = Unborn(w) \cup {p}]
               /\ mine' = [mine EXCEPT ![w] = p]
               /\ at' = [at EXCEPT ![w] = "ours"]
      BY <1>3 DEF Goes
    <2>2. p \in 0..MaxProcs
      BY PoolAssumption DEF Procs
    <2>3. Unborn(w) = {q \in reaping[w] : life[w][q] = "made"} /\ Unborn(w) \cup {p} \in SUBSET Procs
      BY DEF Unborn
    <2>4. \A q \in Procs : life[w][q] # "alive"
      <3>1. proc[w] = 0 /\ 0 \notin Procs
        BY <1>1, PoolAssumption DEF Known, Procs
      <3> QED
        BY <1>1, <3>1 DEF Known
    <2>5. Known(w)'
      BY <1>1, <1>3, <2>1, <2>2, <2>3, <2>4 DEF Known
    <2> QED
      BY <1>1, <1>3, <2>1, <2>2, <2>3, <2>5 DEF Within, Lives
  <1>4. CASE Raise(w) /\ UNCHANGED <<proc, reaping, life>>
    BY <1>1, <1>4, RaiseMoves, MovesWithin
  <1> QED
    BY <1>2, <1>3, <1>4 DEF Publish, MayPublish

\* The steps of a start, after it published its process.
LEMMA StartWithin ==
    ASSUME IndInv, NEW w \in Slots, StillOurs(w) \/ Spawn(w) \/ Spawned(w) \/ Stop(w)
    PROVE  Within(w)
  <1> USE DEF IndInv, Types, Places
  <1>1. Known(w) /\ mine[w] \in 0..MaxProcs /\ proc[w] \in 0..MaxProcs /\ 0 \in 0..MaxProcs
    BY PoolAssumption DEF Processes
  <1>2. CASE StillOurs(w)
    <2>1. at[w] = "ours" /\ UNCHANGED <<disabled, proc, reaping, life, ctor, closer>>
      BY <1>2 DEF StillOurs, worker
    <2>2. CASE at' = [at EXCEPT ![w] = "spawn"] /\ UNCHANGED <<listed, mine>>
      <3>1. Known(w)'
        BY <1>1, <2>1, <2>2 DEF Known
      <3> QED
        BY <1>1, <2>1, <2>2, <3>1 DEF Within
    <2>3. CASE Raise(w)
      BY <1>1, <2>1, <2>3, RaiseMoves, MovesWithin
    <2> QED
      BY <1>2, <2>2, <2>3 DEF StillOurs, Goes, pool
  <1>3. CASE Spawn(w)
    <2>1. at[w] = "spawn" /\ UNCHANGED <<disabled, reaping, ctor, closer>>
      BY <1>3 DEF Spawn
    <2>2. mine[w] \in Procs /\ life[w][mine[w]] = "made" /\ mine[w] \in reaping[w]
      BY <1>1, <2>1 DEF Known
    <2>3. CASE /\ life' = [life EXCEPT ![w][mine[w]] = "alive"]
               /\ at' = [at EXCEPT ![w] = "spawned"]
               /\ UNCHANGED <<listed, mine, proc>>
      <3>1. Known(w)'
        BY <1>1, <2>1, <2>2, <2>3 DEF Known
      <3> QED
        BY <1>1, <2>1, <2>2, <2>3, <3>1 DEF Within, Lives
    <2>4. CASE /\ proc' = IF proc[w] = mine[w] THEN [proc EXCEPT ![w] = 0] ELSE proc
               /\ Raise(w) /\ UNCHANGED life
      <3>1. proc' \in {proc, [proc EXCEPT ![w] = 0]} /\ (proc' # proc => ~Alive(w, proc[w]))
        BY <2>2, <2>4 DEF Alive
      <3> QED
        BY <1>1, <2>1, <2>4, <3>1, RaiseMoves, MovesWithin
    <2> QED
      BY <1>3, <2>3, <2>4 DEF Spawn, Goes, pool
  <1>4. CASE Spawned(w)
    <2>1. at[w] = "spawned" /\ UNCHANGED <<disabled, proc, life, mine, listed, ctor, closer>>
      BY <1>4 DEF Spawned, pool
    <2>2. CASE /\ KeepsIt(w)
               /\ reaping' = [reaping EXCEPT ![w] = @ \ {mine[w]}]
               /\ at' = [at EXCEPT ![w] = "boot"]
      <3>1. Known(w)'
        BY <1>1, <2>1, <2>2 DEF Known, KeepsIt, Current
      <3> QED
        BY <1>1, <2>1, <2>2, <3>1 DEF Within
    <2>3. CASE at' = [at EXCEPT ![w] = "stop"] /\ UNCHANGED reaping
      <3>1. Known(w)'
        BY <1>1, <2>1, <2>3 DEF Known
      <3> QED
        BY <1>1, <2>1, <2>3, <3>1 DEF Within
    <2> QED
      BY <1>4, <2>2, <2>3 DEF Spawned, Goes
  <1>5. CASE Stop(w)
    <2>1. /\ at[w] = "stop"
          /\ life' = [life EXCEPT ![w][mine[w]] = "dead"]
          /\ Raise(w)
          /\ UNCHANGED <<disabled, proc, reaping, ctor, closer>>
      BY <1>5 DEF Stop
    <2>2. PICK place \in {"over", "consume"} : at' = [at EXCEPT ![w] = place]
      BY <2>1, RaiseMoves
    <2>3. mine' = [mine EXCEPT ![w] = 0] /\ UNCHANGED listed
      BY <2>1, RaiseMoves
    <2>4. Known(w)'
      BY <1>1, <2>1, <2>2, <2>3 DEF Known
    <2> QED
      BY <1>1, <2>1, <2>2, <2>3, <2>4 DEF Within, Lives
  <1> QED
    BY <1>2, <1>3, <1>4, <1>5

\* The steps of a thread whose process is up.
LEMMA WorkWithin ==
    ASSUME IndInv, NEW w \in Slots, Boot(w) \/ Take(w) \/ Call(w) \/ Send(w) \/ Await(w)
    PROVE  Within(w)
  <1> USE DEF IndInv, Types, Places
  <1>1. mine[w] \in 0..MaxProcs /\ proc[w] \in 0..MaxProcs /\ 0 \in 0..MaxProcs
        /\ mine = [mine EXCEPT ![w] = mine[w]] /\ at = [at EXCEPT ![w] = at[w]]
    BY PoolAssumption
  <1>2. /\ at[w] \in {"boot", "consume", "call", "send", "await"}
        /\ UNCHANGED <<disabled, reaping, life, ctor, closer>>
    BY DEF Boot, Take, Call, Send, Await, worker
  <1>3. CASE Raise(w) /\ UNCHANGED proc
    BY <1>1, <1>2, <1>3, RaiseMoves, MovesWithin
  <1>4. CASE Discard(w)
    <2>1. /\ UNCHANGED listed
          /\ \E place \in {"over", "consume", "stop"}, p \in 0..MaxProcs :
                 /\ at' = [at EXCEPT ![w] = place]
                 /\ mine' = [mine EXCEPT ![w] = p]
                 /\ proc' \in {proc, [proc EXCEPT ![w] = 0]}
                 /\ proc' # proc => place = "stop" /\ proc[w] = p
      BY <1>4, DiscardMoves
    <2> QED
      BY <1>2, <2>1, MovesWithin
  <1>5. CASE /\ \E place \in {at[w], "consume", "call", "send", "await", "over"} : at' = [at EXCEPT ![w] = place]
             /\ \E p \in 0..MaxProcs : mine' = [mine EXCEPT ![w] = p]
             /\ UNCHANGED <<listed, proc>>
    BY <1>2, <1>5, MovesWithin
  <1>6. CASE /\ at' = [at EXCEPT ![w] = "restart"] /\ UNCHANGED <<listed, mine>>
             /\ ~Alive(w, proc[w]) /\ proc' = [proc EXCEPT ![w] = 0]
    BY <1>1, <1>2, <1>6, MovesWithin
  <1>b. CASE Boot(w)
    BY <1>1, <1>b, <1>3, <1>4, <1>5 DEF Boot, Goes
  <1>t. CASE Take(w)
    <2>1. \E place \in {at[w], "over", "call"} : at' = [at EXCEPT ![w] = place]
      BY <1>1, <1>t DEF Take, Goes
    <2>2. UNCHANGED <<listed, mine, proc>>
      BY <1>t DEF Take, worker
    <2> QED
      BY <1>1, <1>5, <2>1, <2>2
  <1>c. CASE Call(w)
    BY <1>1, <1>c, <1>3, <1>5, <1>6 DEF Call, Goes, pool
  <1>s. CASE Send(w)
    BY <1>1, <1>s, <1>3, <1>5 DEF Send, Goes, pool
  <1>a. CASE Await(w)
    BY <1>1, <1>a, <1>3, <1>4, <1>5 DEF Await, DropLate, Goes
  <1> QED
    BY <1>b, <1>t, <1>c, <1>s, <1>a

\* A step that touches neither threads, nor processes, nor closers.
LEMMA UntouchedKeeps ==
    ASSUME IndInv,
           UNCHANGED <<at, mine, proc, reaping, life, disabled, listed, ctor, closer>>
    PROVE  IndInv'
  BY DEF IndInv, Types, Processes, Known, Closes, Closing, Cancels

\* A process dies.
LEMMA DieKeeps ==
    ASSUME IndInv, NEW w \in Slots, NEW p \in Procs, Die(w, p)
    PROVE  IndInv'
  <1>1. /\ life' = [life EXCEPT ![w][p] = "dead"]
        /\ life[w][p] = "alive"
        /\ UNCHANGED <<at, mine, proc, reaping, disabled, listed, ctor, closer>>
    BY DEF Die, Alive, pool, thread
  <1>2. Types'
    BY <1>1 DEF IndInv, Types, Lives
  <1>3. Processes'
    BY <1>1 DEF IndInv, Types, Processes, Known
  <1>4. Closes'
    BY <1>1 DEF IndInv, Closes, Closing, Cancels
  <1> QED
    BY <1>2, <1>3, <1>4 DEF IndInv

\* The constructor starts a thread, then lists it.
LEMMA ConstructorKeeps ==
    ASSUME IndInv, StartThread \/ ListThread
    PROVE  IndInv'
  <1> USE DEF IndInv, Slots
  <1>1. CASE StartThread
    <2>1. /\ ctor \in Slots /\ at[ctor] = "unborn"
          /\ at' = [at EXCEPT ![ctor] = "start"]
          /\ UNCHANGED <<mine, proc, reaping, life, disabled, listed, ctor, closer>>
      BY <1>1 DEF StartThread, Goes, pool, worker
    <2>2. Types'
      BY <2>1 DEF Types, Places
    <2>3. Processes'
      BY <2>1 DEF Types, Processes, Known
    <2>4. Closes'
      BY <2>1 DEF Types, Closes, Closing, Cancels
    <2> QED
      BY <2>2, <2>3, <2>4
  <1>2. CASE ListThread
    <2>1. /\ ctor \in Slots /\ listed' = listed \cup {ctor} /\ ctor' = ctor + 1
          /\ UNCHANGED <<at, mine, proc, reaping, life, disabled, closer>>
      BY <1>2 DEF ListThread, worker, thread
    <2>2. Types'
      BY <2>1, PoolAssumption DEF Types
    <2>3. Processes'
      BY <2>1 DEF Processes, Known
    <2>4. \A w \in Slots : w < ctor' => w \in listed'
      BY <2>1 DEF Closes, Types
    <2>5. listed = Slots => listed' = Slots
      BY <2>1
    <2>6. \A c \in Closers : Closing(c)'
      BY <2>1, <2>5 DEF Closes, Closing, Cancels
    <2> QED
      BY <2>2, <2>3, <2>4, <2>6 DEF Closes
  <1> QED
    BY <1>1, <1>2

\* What a closer may make of its own state: the others' does not change.
LEMMA CloserKeeps ==
    ASSUME IndInv, NEW c \in Closers,
           closer' \in Closings, \A d \in Closers : d # c => closer'[d] = closer[d],
           UNCHANGED <<at, mine, listed, ctor>>,
           proc' \in [Slots -> 0..MaxProcs], reaping' \in [Slots -> SUBSET Procs],
           life' \in [Slots -> [Procs -> Lives]],
           disabled' \subseteq Slots, disabled \subseteq disabled',
           Processes', Closing(c)',
           \A w \in Slots : proc'[w] \in {proc[w], 0},
           disabled = Slots => \A w \in Slots : reaping'[w] \subseteq reaping[w]
    PROVE  IndInv'
  <1>1. Types'
    BY DEF IndInv, Types
  <1>2. ASSUME NEW d \in Closers, d # c PROVE Closing(d)'
    <2>1. closer'[d] = closer[d] /\ Closing(d)
      BY <1>2 DEF IndInv, Types, Closes
    <2>2. disabled = Slots => disabled' = Slots /\ \A w \in Slots : reaping[w] = {} => reaping'[w] = {}
      OBVIOUS
    <2> QED
      BY <2>1, <2>2 DEF Closing, Cancels
  <1> QED
    BY <1>1, <1>2 DEF IndInv, Closes

\* A close begins: the user's only when all threads are listed.
LEMMA BeginCloseKeeps ==
    ASSUME IndInv, NEW c \in Closers, BeginClose(c)
    PROVE  IndInv'
  <1> DEFINE mark == [step |-> IF Cancels(c) THEN "cancel" ELSE IF closed THEN "wait" ELSE "tell",
                      owns |-> ~closed, kept |-> 0, joins |-> {}, timedOut |-> FALSE]
  <1>1. /\ closer' = [closer EXCEPT ![c] = mark]
        /\ UNCHANGED <<at, mine, proc, reaping, life, disabled, listed, ctor>>
    BY DEF BeginClose, worker, thread
  <1>2. /\ mark.step \in {"cancel", "wait", "tell"}
        /\ mark.step = "cancel" <=> Cancels(c)
        /\ mark.step = "wait" => ~mark.owns
        /\ mark \in [step : Steps, owns : BOOLEAN, kept : Nat, joins : SUBSET Slots,
                   timedOut : BOOLEAN]
    BY DEF Steps
  <1>3. closer'[c] = mark
    BY <1>1 DEF IndInv, Types, Closings
  <1>4. ~Cancels(c) => listed = Slots
    <2>1. SUFFICES ASSUME ~Cancels(c) PROVE listed = Slots
      OBVIOUS
    <2>2. ctor = NSlots + 1
      BY <2>1 DEF BeginClose, MayClose, Constructed, Cancels
    <2>3. \A w \in Slots : w < ctor
      BY <2>2, PoolAssumption DEF Slots
    <2> QED
      BY <2>3 DEF IndInv, Types, Closes
  <1> HIDE DEF mark
  <1>5. Closing(c)'
    BY <1>1, <1>2, <1>3, <1>4 DEF Closing, Cancels
  <1>6. Processes'
    BY <1>1 DEF IndInv, Processes, Known
  <1> QED
    <2>1. closer' \in Closings /\ \A d \in Closers : d # c => closer'[d] = closer[d]
      BY <1>1, <1>2 DEF IndInv, Types, Closings
    <2> QED
      BY <1>1, <1>5, <1>6, <2>1, CloserKeeps DEF IndInv, Types

\* A closer takes a step and leaves all else as it is.
LEMMA StepKeeps ==
    ASSUME IndInv, NEW c \in Closers,
           closer' \in Closings, \A d \in Closers : d # c => closer'[d] = closer[d],
           UNCHANGED <<at, mine, proc, reaping, life, disabled, listed, ctor>>,
           Closing(c)'
    PROVE  IndInv'
  <1>1. Processes'
    BY DEF IndInv, Processes, Known
  <1> QED
    BY <1>1, CloserKeeps DEF IndInv, Types

\* A close that cancels empties the queue.
LEMMA CancelKeeps ==
    ASSUME IndInv, NEW c \in Closers, CancelQueue(c)
    PROVE  IndInv'
  <1>1. /\ closer[c].step = "cancel" /\ Cancels(c) /\ Closing(c)
        /\ UNCHANGED <<at, mine, proc, reaping, life, disabled, listed, ctor>>
    BY DEF CancelQueue, worker, thread, IndInv, Closes, Closing
  <1>2. /\ closer' \in Closings /\ \A d \in Closers : d # c => closer'[d] = closer[d]
        /\ closer'[c].step \in {"cancel", "disable"} /\ closer'[c].owns = closer[c].owns
    <2>1. CASE UNCHANGED closer
      BY <1>1, <2>1 DEF IndInv, Types
    <2>2. CASE closer' = [closer EXCEPT ![c].kept = @ + 1]
      BY <1>1, <2>2 DEF IndInv, Types, Closings
    <2>3. CASE closer' = [closer EXCEPT ![c].step = "disable", ![c].kept = 0]
      BY <2>3 DEF IndInv, Types, Closings, Steps
    <2> QED
      BY <2>1, <2>2, <2>3 DEF CancelQueue
  <1>3. Closing(c)'
    BY <1>1, <1>2 DEF Closing, Cancels
  <1> QED
    BY <1>1, <1>2, <1>3, StepKeeps

\* Disabling a worker forgets and kills its current process, and remembers it.
LEMMA DisableKeeps ==
    ASSUME IndInv, NEW c \in Closers, Disable(c)
    PROVE  IndInv'
  <1>1. closer[c].step = "disable" /\ Cancels(c) /\ Closing(c)
        /\ UNCHANGED <<at, mine, listed, ctor>>
    BY DEF Disable, pool, thread, IndInv, Closes, Closing
  <1>2. ASSUME NEW w \in Slots \ disabled,
               disabled' = disabled \cup {w},
               proc' = [proc EXCEPT ![w] = 0],
               reaping' = [reaping EXCEPT ![w] = @ \cup ({proc[w]} \ {0})],
               life' = IF Alive(w, proc[w]) THEN [life EXCEPT ![w][proc[w]] = "dead"] ELSE life,
               UNCHANGED closer
        PROVE  IndInv'
    <2>1. /\ proc' \in [Slots -> 0..MaxProcs]
          /\ proc'[w] = 0 /\ \A v \in Slots : v # w => proc'[v] = proc[v]
      BY <1>2, PoolAssumption DEF IndInv, Types
    <2>2. proc[w] # 0 => proc[w] \in Procs
      BY PoolAssumption DEF IndInv, Types, Procs
    <2>3. /\ reaping' \in [Slots -> SUBSET Procs]
          /\ reaping'[w] = reaping[w] \cup ({proc[w]} \ {0})
          /\ \A v \in Slots : v # w => reaping'[v] = reaping[v]
      BY <1>2, <2>2 DEF IndInv, Types
    <2>4. /\ life' \in [Slots -> [Procs -> Lives]]
          /\ \A v \in Slots : v # w => life'[v] = life[v]
          /\ \A p \in Procs :
                life'[w][p] = IF p = proc[w] /\ life[w][p] = "alive" THEN "dead" ELSE life[w][p]
      <3>0. life \in [Slots -> [Procs -> Lives]] /\ "dead" \in Lives /\ w \in Slots
        BY <1>2 DEF IndInv, Types, Lives
      <3>1. CASE Alive(w, proc[w])
        <4>1. proc[w] \in Procs /\ life[w][proc[w]] = "alive"
          BY <2>2, <3>1 DEF Alive
        <4>2. life' = [life EXCEPT ![w][proc[w]] = "dead"]
          BY <1>2, <3>1
        <4> QED
          BY <3>0, <4>1, <4>2
      <3>2. CASE ~Alive(w, proc[w])
        <4>1. life' = life /\ \A p \in Procs : ~(p = proc[w] /\ life[w][p] = "alive")
          BY <1>2, <3>2, PoolAssumption DEF Alive, Procs
        <4> QED
          BY <3>0, <4>1
      <3> QED
        BY <3>1, <3>2
    <2>5. Known(w)'
      <3>1. Known(w)
        BY DEF IndInv, Processes
      <3> QED
        BY <1>1, <1>2, <2>1, <2>3, <2>4, <3>1 DEF Known
    <2>6. \A v \in Slots : v # w => Known(v)'
      BY <1>1, <1>2, <2>1, <2>3, <2>4 DEF IndInv, Processes, Known
    <2>7. disabled' \subseteq Slots /\ disabled \subseteq disabled' /\ disabled # Slots
      BY <1>2 DEF IndInv, Types
    <2>8. Closing(c)'
      BY <1>1, <1>2 DEF Closing, Cancels
    <2>9. closer' \in Closings /\ \A d \in Closers : d # c => closer'[d] = closer[d]
      BY <1>2 DEF IndInv, Types
    <2> QED
      BY <1>1, <2>1, <2>3, <2>4, <2>5, <2>6, <2>7, <2>8, <2>9, CloserKeeps DEF Processes
  <1>3. ASSUME disabled = Slots,
               At(c, IF closer[c].timedOut THEN "reap" ELSE IF closer[c].owns THEN "tell" ELSE "wait"),
               UNCHANGED <<disabled, proc, reaping, life>>
        PROVE  IndInv'
    <2>1. /\ closer' \in Closings /\ \A d \in Closers : d # c => closer'[d] = closer[d]
          /\ closer'[c].step \in {"reap", "tell", "wait"} /\ closer'[c].owns = closer[c].owns
          /\ closer'[c].step = "wait" => ~closer[c].owns
      <3> DEFINE next == IF closer[c].timedOut THEN "reap"
                         ELSE IF closer[c].owns THEN "tell" ELSE "wait"
      <3>1. /\ next \in {"reap", "tell", "wait"} /\ next \in Steps
            /\ next = "wait" => ~closer[c].owns
        BY DEF Steps
      <3>2. closer \in Closings /\ closer' = [closer EXCEPT ![c].step = next]
        BY <1>3 DEF At, IndInv, Types
      <3> HIDE DEF next
      <3>3. /\ closer' \in Closings /\ \A d \in Closers : d # c => closer'[d] = closer[d]
            /\ closer'[c].step = next /\ closer'[c].owns = closer[c].owns
        BY <3>1, <3>2 DEF Closings
      <3> QED
        BY <3>1, <3>3
    <2>2. Closing(c)'
      BY <1>1, <1>3, <2>1 DEF Closing, Cancels
    <2> QED
      BY <1>1, <1>3, <2>1, <2>2, StepKeeps
  <1> QED
    BY <1>2, <1>3 DEF Disable

\* A close tells the threads to end, and waits for those it told.
LEMMA TellKeeps ==
    ASSUME IndInv, NEW c \in Closers, Tell(c)
    PROVE  IndInv'
  <1>1. /\ closer[c].step = "tell"
        /\ closer' = [closer EXCEPT ![c].step = "join", ![c].joins = LiveThreads]
        /\ UNCHANGED <<at, mine, proc, reaping, life, disabled, listed, ctor>>
    BY DEF Tell, worker, thread
  <1>2. LiveThreads \in SUBSET Slots /\ Closing(c)
    BY DEF LiveThreads, IndInv, Types, Closes
  <1>3. /\ closer' \in Closings /\ \A d \in Closers : d # c => closer'[d] = closer[d]
        /\ closer'[c].step = "join" /\ closer'[c].joins = LiveThreads
    BY <1>1, <1>2 DEF IndInv, Types, Closings, Steps
  <1>4. listed = Slots => \A w \in Slots : at[w] = "over" \/ w \in LiveThreads
    BY DEF LiveThreads
  <1>5. Closing(c)'
    BY <1>1, <1>2, <1>3, <1>4 DEF Closing, Cancels
  <1> QED
    BY <1>1, <1>3, <1>5, StepKeeps

\* The threads it waited for are over, or it cancels again.
LEMMA JoinKeeps ==
    ASSUME IndInv, NEW c \in Closers, Join(c)
    PROVE  IndInv'
  <1> DEFINE late == {w \in closer[c].joins : at[w] # "over"}
  <1>1. CASE late = {} /\ At(c, "reap")
    <2>1. /\ closer[c].step = "join" /\ closer' = [closer EXCEPT ![c].step = "reap"]
          /\ UNCHANGED <<at, mine, proc, reaping, life, disabled, listed, ctor>>
      BY <1>1 DEF Join, At, worker, thread
    <2>2. /\ closer' \in Closings /\ \A d \in Closers : d # c => closer'[d] = closer[d]
          /\ closer'[c].step = "reap"
      BY <2>1 DEF IndInv, Types, Closings, Steps
    <2>3. Closing(c) /\ \A w \in Slots : w \in closer[c].joins => at[w] = "over"
      BY <1>1 DEF IndInv, Closes
    <2>4. Closing(c)'
      BY <2>1, <2>2, <2>3 DEF Closing, Cancels
    <2> QED
      BY <2>1, <2>2, <2>4, StepKeeps
  <1>2. CASE Cancels(c) /\ closer' = [closer EXCEPT ![c].step = "cancel", ![c].timedOut = TRUE]
    <2>1. UNCHANGED <<at, mine, proc, reaping, life, disabled, listed, ctor>>
      BY DEF Join, worker, thread
    <2>2. /\ closer' \in Closings /\ \A d \in Closers : d # c => closer'[d] = closer[d]
          /\ closer'[c].step = "cancel" /\ closer'[c].owns = closer[c].owns
      BY <1>2 DEF IndInv, Types, Closings, Steps
    <2>3. Closing(c)'
      BY <1>2, <2>2 DEF Closing, Cancels
    <2> QED
      BY <2>1, <2>2, <2>3, StepKeeps
  <1> QED
    BY <1>1, <1>2 DEF Join

\* What is left is killed.
LEMMA ReapKeeps ==
    ASSUME IndInv, NEW c \in Closers, Reap(c)
    PROVE  IndInv'
  <1> DEFINE doomed(w) == reaping[w] \cup (IF Cancels(c) THEN {} ELSE {proc[w]} \ {0})
             late == Cancels(c) /\ \E w \in Slots : Unborn(w) # {}
  <1>1. /\ closer[c].step = "reap"
        /\ life' = [w \in Slots |-> [p \in Procs |->
                     IF p \in doomed(w) /\ life[w][p] = "alive" THEN "dead" ELSE life[w][p]]]
        /\ reaping' = [w \in Slots |-> Unborn(w)]
        /\ proc' = IF Cancels(c) THEN proc ELSE [w \in Slots |-> 0]
        /\ closer' = [closer EXCEPT ![c].step = "done", ![c].timedOut = @ \/ late]
        /\ UNCHANGED <<at, mine, disabled, listed, ctor>>
    BY DEF Reap, thread
  <1>2. Closing(c) /\ closer[c].timedOut \in BOOLEAN /\ late \in BOOLEAN
    BY DEF IndInv, Types, Closings, Closes
  <1>3. /\ closer' \in Closings /\ \A d \in Closers : d # c => closer'[d] = closer[d]
        /\ closer'[c].step = "done" /\ closer'[c].owns = closer[c].owns
        /\ ~closer'[c].timedOut => ~late
    <2> HIDE DEF late
    <2> QED
      BY <1>1, <1>2 DEF IndInv, Types, Closings, Steps
  <1>4. \A w \in Slots : Unborn(w) = {p \in reaping[w] : life[w][p] = "made"}
    BY DEF Unborn
  <1>5. /\ proc' \in [Slots -> 0..MaxProcs] /\ \A w \in Slots : proc'[w] \in {proc[w], 0}
        /\ ~Cancels(c) => \A w \in Slots : proc'[w] = 0
    BY <1>1, PoolAssumption DEF IndInv, Types
  <1>6. /\ reaping' \in [Slots -> SUBSET Procs]
        /\ \A w \in Slots : reaping'[w] = Unborn(w) /\ reaping'[w] \subseteq reaping[w]
    BY <1>1, <1>4 DEF IndInv, Types
  <1>7. life' \in [Slots -> [Procs -> Lives]]
    BY <1>1 DEF IndInv, Types, Lives
  <1>8. ASSUME NEW w \in Slots PROVE Known(w)'
    <2>1. Known(w)
      BY DEF IndInv, Processes
    <2>2. \A p \in Procs :
             life'[w][p] = IF p \in doomed(w) /\ life[w][p] = "alive" THEN "dead" ELSE life[w][p]
      BY <1>1
    <2>3. \A p \in reaping[w] : p \in doomed(w)
      OBVIOUS
    <2>4. proc'[w] = proc[w] \/ (proc'[w] = 0 /\ \A p \in Procs : p = proc[w] => p \in doomed(w))
      BY <1>1, PoolAssumption DEF Procs
    <2> HIDE DEF doomed
    <2> QED
      BY <1>1, <1>4, <1>5, <1>6, <2>1, <2>2, <2>3, <2>4 DEF Known
  <1>9. Closing(c)'
    BY <1>1, <1>2, <1>3, <1>5, <1>6 DEF Closing, Cancels
  <1> QED
    <2>1. disabled' \subseteq Slots /\ disabled \subseteq disabled'
      BY <1>1 DEF IndInv, Types
    <2> QED
      BY <1>1, <1>3, <1>5, <1>6, <1>7, <1>8, <1>9, <2>1, CloserKeeps DEF Processes

\* A close that comes second is done with the first, or times out.
LEMMA WaitKeeps ==
    ASSUME IndInv, NEW c \in Closers, Wait(c)
    PROVE  IndInv'
  <1>1. /\ closer[c].step = "wait"
        /\ UNCHANGED <<at, mine, proc, reaping, life, disabled, listed, ctor>>
        /\ \/ closer' = [closer EXCEPT ![c].step = "done"]
           \/ closer' = [closer EXCEPT ![c].step = "done", ![c].timedOut = TRUE]
    BY DEF Wait, At, pool, worker, thread
  <1>2. /\ closer' \in Closings /\ \A d \in Closers : d # c => closer'[d] = closer[d]
        /\ closer'[c].step = "done" /\ closer'[c].owns = closer[c].owns
    <2>1. CASE closer' = [closer EXCEPT ![c].step = "done"]
      BY <2>1 DEF IndInv, Types, Closings, Steps
    <2>2. CASE closer' = [closer EXCEPT ![c].step = "done", ![c].timedOut = TRUE]
      BY <2>2 DEF IndInv, Types, Closings, Steps
    <2> QED
      BY <1>1, <2>1, <2>2
  <1>3. Closing(c)
    BY DEF IndInv, Closes
  <1>4. Closing(c)'
    BY <1>1, <1>2, <1>3 DEF Closing, Cancels
  <1> QED
    BY <1>1, <1>2, <1>4, StepKeeps

\* Every step of the pool keeps the invariant.
THEOREM NextKeeps == IndInv /\ [Next]_vars => IndInv'
  <1> SUFFICES ASSUME IndInv, [Next]_vars PROVE IndInv'
    OBVIOUS
  <1> USE DEF pool, worker, thread
  <1>1. CASE UNCHANGED vars
    BY <1>1, UntouchedKeeps DEF vars
  <1>2. CASE StartThread \/ ListThread
    BY <1>2, ConstructorKeeps
  <1>3. CASE \E w \in Slots : SlotStep(w)
    BY <1>3, PublishWithin, StartWithin, WorkWithin, WithinKeeps DEF SlotStep
  <1>4. CASE \E w \in Slots, p \in Procs : Answer(w, p) \/ Die(w, p)
    <2>1. PICK w \in Slots, p \in Procs : Answer(w, p) \/ Die(w, p)
      BY <1>4
    <2>2. CASE Answer(w, p)
      BY <2>2, UntouchedKeeps DEF Answer
    <2> QED
      BY <2>1, <2>2, DieKeeps
  <1>5. CASE \E q \in Requests : Submit(q)
    BY <1>5, UntouchedKeeps DEF Submit
  <1>6. CASE \E c \in Closers : BeginClose(c) \/ CloseStep(c)
    <2>1. PICK c \in Closers : BeginClose(c) \/ CloseStep(c)
      BY <1>6
    <2> QED
      BY <2>1, BeginCloseKeeps, CancelKeeps, DisableKeeps, TellKeeps, JoinKeeps, ReapKeeps,
         WaitKeeps DEF CloseStep
  <1> QED
    BY <1>1, <1>2, <1>3, <1>4, <1>5, <1>6 DEF Next

\* Once the close that owns the cleanup is done without a timeout, no process
\* lives, but for one that its thread is about to stop (engine_pool.py 312,
\* 735, 762, 920).
THEOREM NoProcessLeft == Spec => []NoneLeft
  <1>1. Spec => []IndInv
    BY InitIndInv, NextKeeps, PTL DEF Spec
  <1> QED
    BY <1>1, NoneIsLeft, PTL

---------------------------------------------------------------------------
(***************************************************************************)
(* The second fact. A thread that goes on to another request has let go of *)
(* a process that may still answer the last one: nothing is under way to   *)
(* or from the current process of a worker, unless its thread awaits it.   *)
(***************************************************************************)
Empty(w, p) == inbox[w][p] = <<>> /\ outbox[w][p] = <<>>

\* One request to the current process, or one answer, and it is the thread's.
UnderWay(w) ==
    \/ Empty(w, proc[w])
    \/ inbox[w][proc[w]] = <<job[w]>> /\ outbox[w][proc[w]] = <<>>
    \/ inbox[w][proc[w]] = <<>> /\ outbox[w][proc[w]] = <<job[w]>>

Boxes(w) ==
    /\ \A p \in Procs : life[w][p] = "none" => Empty(w, p)
    /\ proc[w] # 0 /\ at[w] # "await" => Empty(w, proc[w])
    /\ at[w] = "await" => mine[w] # 0 /\ proc[w] \in {0, mine[w]}
    /\ at[w] = "await" /\ proc[w] # 0 => UnderWay(w)
    /\ proc[w] # 0 => life[w][proc[w]] # "none"

Outcomes ==
    /\ future \in [Requests -> [state : Futures, value : 0..NRequests]]
    /\ DOMAIN job = Slots
    /\ OwnAnswer

AllBoxes ==
    /\ DOMAIN inbox = Slots /\ \A w \in Slots : DOMAIN inbox[w] = Procs
    /\ DOMAIN outbox = Slots /\ \A w \in Slots : DOMAIN outbox[w] = Procs

OwnInv ==
    /\ AllBoxes
    /\ \A w \in Slots : Boxes(w)

\* At first nothing was asked.
THEOREM InitOwnInv == Init => OwnInv /\ Outcomes
  BY PoolAssumption DEF Init, OwnInv, AllBoxes, Boxes, Empty, Outcomes, OwnAnswer, Futures, Slots, Procs

\* A queue of one.
LEMMA One ==
    ASSUME NEW x
    PROVE  Append(<<>>, x) = <<x>> /\ Tail(<<x>>) = <<>> /\ Head(<<x>>) = x /\ <<x>> # <<>>
  OBVIOUS

\* A worker whose boxes nobody touches, and whose thread awaits nothing.
LEMMA IdleBoxes ==
    ASSUME IndInv, NEW w \in Slots, Boxes(w),
           inbox'[w] = inbox[w], outbox'[w] = outbox[w],
           \A p \in Procs : life'[w][p] = "none" => life[w][p] = "none",
           at'[w] # "await",
           \/ proc'[w] = 0
           \/ proc'[w] = proc[w] /\ at[w] # "await"
           \/ proc'[w] \in Procs /\ life[w][proc'[w]] = "none" /\ life'[w][proc'[w]] # "none"
    PROVE  Boxes(w)'
  <1>1. proc[w] # 0 => proc[w] \in Procs
    BY PoolAssumption DEF IndInv, Types, Procs
  <1> QED
    BY <1>1 DEF Boxes, Empty

\* A worker whose current process is taken away, if anything.
LEMMA StillBoxes ==
    ASSUME IndInv, NEW w \in Slots, Boxes(w),
           inbox'[w] = inbox[w], outbox'[w] = outbox[w], job'[w] = job[w],
           at'[w] = at[w], mine'[w] = mine[w],
           \A p \in Procs : life'[w][p] = "none" <=> life[w][p] = "none",
           proc'[w] \in {proc[w], 0}
    PROVE  Boxes(w)'
  <1>1. proc[w] # 0 => proc[w] \in Procs
    BY PoolAssumption DEF IndInv, Types, Procs
  <1> QED
    BY <1>1 DEF Boxes, Empty, UnderWay

\* A request fares otherwise than being answered.
LEMMA FaresOtherwise ==
    ASSUME Outcomes, NEW q, NEW state \in Futures \ {"answered"},
           future' = [future EXCEPT ![q].state = state], DOMAIN job' = Slots
    PROVE  Outcomes'
  <1>1. future' \in [Requests -> [state : Futures, value : 0..NRequests]]
    BY DEF Outcomes
  <1>2. \A r \in Requests : future'[r] = future[r] \/ future'[r].state = state
    BY DEF Outcomes
  <1> QED
    BY <1>1, <1>2 DEF Outcomes, OwnAnswer

\* No request fares anyhow.
LEMMA SameOutcomes ==
    ASSUME Outcomes, UNCHANGED future, DOMAIN job' = Slots
    PROVE  Outcomes'
  BY DEF Outcomes, OwnAnswer

\* Raising fails the request, if there is one.
LEMMA RaiseOutcomes ==
    ASSUME Outcomes, NEW w, Raise(w)
    PROVE  Outcomes'
  <1>1. DOMAIN job' = Slots
    BY DEF Raise, Outcomes
  <1>2. CASE UNCHANGED future
    BY <1>1, <1>2, SameOutcomes
  <1>3. CASE future' = [future EXCEPT ![job[w]].state = "failed"]
    BY <1>1, <1>3, FaresOtherwise DEF Futures, Settled
  <1> QED
    BY <1>2, <1>3 DEF Raise

\* A thread that works on its own worker, whose boxes it leaves in order.
LEMMA OwnWithin ==
    ASSUME IndInv, OwnInv, NEW w \in Slots, Within(w), Boxes(w)', AllBoxes',
           \A v \in Slots : v # w => /\ inbox'[v] = inbox[v] /\ outbox'[v] = outbox[v]
                                    /\ job'[v] = job[v]
    PROVE  OwnInv'
  <1>1. ASSUME NEW v \in Slots, v # w PROVE Boxes(v)'
    <2>1. at'[v] = at[v] /\ mine'[v] = mine[v] /\ proc'[v] = proc[v] /\ life'[v] = life[v]
      BY <1>1 DEF Within
    <2> QED
      BY <1>1, <2>1, StillBoxes DEF OwnInv
  <1> QED
    BY <1>1 DEF OwnInv

\* The boxes of a worker are left alone by a thread that starts its process.
LEMMA StartOwn ==
    ASSUME IndInv, OwnInv, Outcomes, NEW w \in Slots,
           Publish(w) \/ StillOurs(w) \/ Spawn(w) \/ Spawned(w) \/ Stop(w)
    PROVE  OwnInv' /\ Outcomes'
  <1> USE DEF IndInv, Types
  <1>1. Within(w) /\ Boxes(w) /\ Known(w) /\ UNCHANGED <<inbox, outbox>> /\ 0 \in 0..MaxProcs
    BY PublishWithin, StartWithin, PoolAssumption
       DEF OwnInv, Processes, Publish, StillOurs, Spawn, Spawned, Stop, worker
  <1>2. at[w] \in {"start", "restart", "ours", "spawn", "spawned", "stop"}
    BY DEF Publish, StillOurs, Spawn, Spawned, Stop
  <1>3. Raise(w) \/ UNCHANGED <<future, job>>
    BY DEF Publish, StillOurs, Spawn, Spawned, Stop, pool
  <1>4. /\ Raise(w) => job' = [job EXCEPT ![w] = 0]
        /\ DOMAIN job' = Slots /\ \A v \in Slots : v # w => job'[v] = job[v]
    BY <1>3 DEF Raise, Outcomes
  <1>5. Outcomes'
    BY <1>3, <1>4, RaiseOutcomes, SameOutcomes
  <1>6. at'[w] # "await"
    <2>1. \E place \in Places \ {"await"} : at' = [at EXCEPT ![w] = place]
      BY DEF Publish, StillOurs, Spawn, Spawned, Stop, Raise, Goes, Places
    <2> QED
      BY <2>1
  <1>7. Boxes(w)'
    <2>1. CASE \E p \in Procs :
                 /\ life[w][p] = "none"
                 /\ life' = [life EXCEPT ![w][p] = "made"]
                 /\ proc' = [proc EXCEPT ![w] = p]
      <3>1. /\ proc'[w] \in Procs /\ life[w][proc'[w]] = "none" /\ life'[w][proc'[w]] # "none"
            /\ \A q \in Procs : life'[w][q] = "none" => life[w][q] = "none"
        BY <2>1
      <3> QED
        BY <1>1, <1>6, <3>1, IdleBoxes
    <2>2. CASE /\ proc' \in {proc, [proc EXCEPT ![w] = 0]}
               /\ life' \in {life, [life EXCEPT ![w][mine[w]] = "alive"],
                             [life EXCEPT ![w][mine[w]] = "dead"]}
      <3>1. /\ proc'[w] \in {proc[w], 0}
            /\ \A q \in Procs : life'[w][q] = "none" => life[w][q] = "none"
        BY <2>2
      <3> QED
        BY <1>1, <1>2, <1>6, <3>1, IdleBoxes
    <2> QED
      BY <2>1, <2>2 DEF Publish, StillOurs, Spawn, Spawned, Stop, worker
  <1>8. AllBoxes'
    BY <1>1 DEF OwnInv, AllBoxes
  <1> QED
    BY <1>1, <1>4, <1>5, <1>7, <1>8, OwnWithin

\* A thread whose process is up, and that is not waiting for it.
LEMMA WorkOwn ==
    ASSUME IndInv, OwnInv, Outcomes, NEW w \in Slots, Boot(w) \/ Take(w) \/ Call(w)
    PROVE  OwnInv' /\ Outcomes'
  <1> USE DEF IndInv, Types
  <1>1. /\ Within(w) /\ Boxes(w) /\ UNCHANGED <<inbox, outbox, life>>
        /\ at[w] \in {"boot", "consume", "call"}
    BY WorkWithin DEF OwnInv, Boot, Take, Call, worker
  <1>2. proc'[w] \in {proc[w], 0} /\ at'[w] # "await"
    BY PoolAssumption DEF Boot, Take, Call, Discard, Raise, Goes, worker
  <1>3. DOMAIN job' = Slots /\ \A v \in Slots : v # w => job'[v] = job[v]
    BY DEF Boot, Take, Call, Discard, Raise, Outcomes, pool
  <1>4. Outcomes'
    <2>1. CASE Raise(w)
      BY <2>1, RaiseOutcomes
    <2>2. CASE UNCHANGED future
      BY <1>3, <2>2, SameOutcomes
    <2>3. CASE \E q : \E state \in {"cancelled", "running"} : future' = [future EXCEPT ![q].state = state]
      BY <1>3, <2>3, FaresOtherwise DEF Futures, Settled
    <2>4. CASE Take(w)
      BY <2>2, <2>3, <2>4 DEF Take
    <2> QED
      BY <2>1, <2>2, <2>4 DEF Boot, Call, Discard, pool
  <1>5. Boxes(w)'
    BY <1>1, <1>2, IdleBoxes
  <1>6. AllBoxes'
    BY <1>1 DEF OwnInv, AllBoxes
  <1> QED
    BY <1>1, <1>3, <1>4, <1>5, <1>6, OwnWithin

\* The request is sent to the current process, which nobody asked anything.
LEMMA SendOwn ==
    ASSUME IndInv, OwnInv, Outcomes, NEW w \in Slots, Send(w)
    PROVE  OwnInv' /\ Outcomes'
  <1> USE DEF IndInv, Types
  <1>1. /\ Within(w) /\ Boxes(w) /\ at[w] = "send"
        /\ UNCHANGED <<outbox, life, proc>>
    BY WorkWithin DEF OwnInv, Send
  <1>2. CASE Raise(w) /\ UNCHANGED inbox
    <2>1. at'[w] # "await" /\ \A v \in Slots : v # w => job'[v] = job[v]
      BY <1>2 DEF Raise, Goes, Outcomes
    <2>2. Boxes(w)'
      BY <1>1, <1>2, <2>1, IdleBoxes
    <2>3. AllBoxes'
      BY <1>1, <1>2 DEF OwnInv, AllBoxes
    <2> QED
      BY <1>1, <1>2, <2>1, <2>2, <2>3, RaiseOutcomes, OwnWithin
  <1>3. CASE /\ proc[w] # 0
             /\ inbox' = [inbox EXCEPT ![w][proc[w]] = Append(@, job[w])]
             /\ mine' = [mine EXCEPT ![w] = proc[w]]
             /\ Goes(w, "await")
             /\ UNCHANGED <<pool, job>>
    <2> DEFINE p == proc[w]
    <2>1. p \in Procs /\ Empty(w, p) /\ life[w][p] # "none"
      BY <1>1, <1>3, PoolAssumption DEF Boxes, Procs
    <2>2. /\ at'[w] = "await" /\ mine'[w] = p /\ proc'[w] = p /\ job'[w] = job[w]
          /\ inbox'[w][p] = <<job[w]>> /\ outbox'[w][p] = <<>>
          /\ \A q \in Procs : q # p => inbox'[w][q] = inbox[w][q] /\ outbox'[w][q] = outbox[w][q]
      BY <1>1, <1>3, <2>1, One DEF Goes, Empty, OwnInv, AllBoxes
    <2>3. Boxes(w)'
      BY <1>1, <1>3, <2>1, <2>2 DEF Boxes, Empty, UnderWay
    <2>4. Outcomes'
      BY <1>3, SameOutcomes DEF pool, Outcomes
    <2>5. AllBoxes' /\ \A v \in Slots : v # w => inbox'[v] = inbox[v] /\ outbox'[v] = outbox[v]
      BY <1>1, <1>3 DEF OwnInv, AllBoxes
    <2> QED
      BY <1>1, <1>3, <2>3, <2>4, <2>5, OwnWithin
  <1> QED
    BY <1>2, <1>3 DEF Send

\* What is read from the current process is the answer to the request.
LEMMA AwaitOwn ==
    ASSUME IndInv, OwnInv, Outcomes, NEW w \in Slots, Await(w)
    PROVE  OwnInv' /\ Outcomes'
  <1> USE DEF IndInv, Types
  <1>1. /\ Within(w) /\ Boxes(w) /\ Known(w) /\ at[w] = "await" /\ mine[w] \in 0..MaxProcs
        /\ UNCHANGED <<inbox, life>>
        /\ proc[w] \in {0, mine[w]} /\ mine[w] # 0
    BY WorkWithin DEF OwnInv, Processes, Await, Boxes
  <1>2. CASE Raise(w) /\ UNCHANGED <<proc, outbox>> /\ ~Current(w)
    <2>1. at'[w] # "await" /\ \A v \in Slots : v # w => job'[v] = job[v]
      BY <1>2 DEF Raise, Goes, Outcomes
    <2>2. proc'[w] = 0
      BY <1>1, <1>2 DEF Current, Known
    <2>3. Boxes(w)'
      BY <1>1, <1>2, <2>1, <2>2, IdleBoxes
    <2>4. AllBoxes'
      BY <1>1, <1>2 DEF OwnInv, AllBoxes
    <2> QED
      BY <1>1, <1>2, <2>1, <2>3, <2>4, RaiseOutcomes, OwnWithin
  <1>3. CASE Current(w) /\ Discard(w) /\ outbox' \in {outbox, [outbox EXCEPT ![w][mine[w]] = Tail(@)]}
    <2>1. proc[w] = mine[w] /\ proc[w] \in Procs
      BY <1>1, <1>3, PoolAssumption DEF Current, Procs
    <2>2. proc'[w] = 0 /\ at'[w] = "stop" /\ UNCHANGED <<pool, job>>
      BY <1>3, <2>1 DEF Discard, Goes
    <2>3. \A q \in Procs : life[w][q] = "none" => q # mine[w] /\ outbox'[w][q] = outbox[w][q]
      BY <1>1, <1>3, <2>1 DEF Boxes, OwnInv, AllBoxes
    <2>4. Boxes(w)'
      BY <1>1, <2>2, <2>3 DEF Boxes, Empty
    <2>5. Outcomes'
      BY <2>2, SameOutcomes DEF pool, Outcomes
    <2>6. AllBoxes' /\ \A v \in Slots : v # w => inbox'[v] = inbox[v] /\ outbox'[v] = outbox[v]
      BY <1>1, <1>3 DEF OwnInv, AllBoxes
    <2> QED
      BY <1>1, <2>2, <2>4, <2>5, <2>6, OwnWithin
  <1>4. CASE /\ Current(w) /\ outbox[w][mine[w]] # <<>>
             /\ outbox' = [outbox EXCEPT ![w][mine[w]] = Tail(@)]
             /\ future' = [future EXCEPT ![job[w]] =
                             [state |-> "answered", value |-> Head(outbox[w][mine[w]])]]
             /\ job' = [job EXCEPT ![w] = 0]
             /\ Goes(w, "consume")
             /\ UNCHANGED proc
    <2>1. proc[w] = mine[w] /\ proc[w] \in Procs
      BY <1>1, <1>4, PoolAssumption DEF Current, Procs
    <2>2. inbox[w][proc[w]] = <<>> /\ outbox[w][proc[w]] = <<job[w]>>
      BY <1>1, <1>4, <2>1 DEF Boxes, UnderWay, Empty
    <2>3. /\ outbox'[w][proc[w]] = <<>> /\ inbox'[w] = inbox[w]
          /\ at'[w] = "consume" /\ proc'[w] = proc[w]
          /\ \A q \in Procs : q # proc[w] => outbox'[w][q] = outbox[w][q]
      BY <1>1, <1>4, <2>1, <2>2, One DEF Goes, OwnInv, AllBoxes
    <2>4. Boxes(w)'
      BY <1>1, <2>1, <2>2, <2>3 DEF Boxes, Empty
    <2>5. future' = [future EXCEPT ![job[w]] = [state |-> "answered", value |-> job[w]]]
      BY <1>4, <2>1, <2>2, One
    <2>6. Outcomes'
      <3>1. DOMAIN job' = Slots /\ "answered" \in Futures
        BY <1>4 DEF Outcomes, Futures, Settled
      <3>2. future' \in [Requests -> [state : Futures, value : 0..NRequests]]
        <4>1. CASE job[w] \in Requests
          <5>1. [state |-> "answered", value |-> job[w]] \in [state : Futures, value : 0..NRequests]
            BY <3>1, <4>1, PoolAssumption DEF Requests
          <5> QED
            BY <2>5, <5>1 DEF Outcomes
        <4>2. CASE job[w] \notin Requests
          BY <2>5, <4>2 DEF Outcomes
        <4> QED
          BY <4>1, <4>2
      <3>3. \A q \in Requests : future'[q] = future[q] \/ (q = job[w] /\ future'[q].value = q)
        BY <2>5 DEF Outcomes
      <3> QED
        BY <3>1, <3>2, <3>3 DEF Outcomes, OwnAnswer
    <2>7. \A v \in Slots : v # w => job'[v] = job[v]
      BY <1>4 DEF Outcomes
    <2>8. AllBoxes' /\ \A v \in Slots : v # w => inbox'[v] = inbox[v] /\ outbox'[v] = outbox[v]
      BY <1>1, <1>4 DEF OwnInv, AllBoxes
    <2> QED
      BY <1>1, <2>4, <2>6, <2>7, <2>8, OwnWithin
  <1> QED
    BY <1>2, <1>3, <1>4 DEF Await, DropLate

\* The process answers what it was asked.
LEMMA AnswerOwn ==
    ASSUME IndInv, OwnInv, Outcomes, NEW w \in Slots, NEW p \in Procs, Answer(w, p)
    PROVE  OwnInv' /\ Outcomes'
  <1>1. /\ life[w][p] = "alive" /\ inbox[w][p] # <<>>
        /\ inbox' = [inbox EXCEPT ![w][p] = Tail(@)]
        /\ outbox' = [outbox EXCEPT ![w][p] = Append(@, Head(inbox[w][p]))]
        /\ UNCHANGED <<future, job, at, mine, proc, life>>
    BY DEF Answer, Alive, pool, thread
  <1>2. /\ AllBoxes'
        /\ \A v \in Slots, q \in Procs : v # w \/ q # p =>
              inbox'[v][q] = inbox[v][q] /\ outbox'[v][q] = outbox[v][q]
    BY <1>1 DEF OwnInv, AllBoxes
  <1>3. ASSUME NEW v \in Slots PROVE Boxes(v)'
    <2>1. Boxes(v) /\ Boxes(w) /\ (proc[v] # 0 => proc[v] \in Procs)
      BY PoolAssumption DEF OwnInv, IndInv, Types, Procs
    <2>2. CASE v # w \/ proc[v] # p
      BY <1>1, <1>2, <2>1, <2>2 DEF Boxes, Empty, UnderWay
    <2>3. CASE v = w /\ proc[v] = p
      <3>1. /\ at[w] = "await" /\ proc[w] # 0
            /\ inbox[w][p] = <<job[w]>> /\ outbox[w][p] = <<>>
        BY <1>1, <2>1, <2>3, PoolAssumption DEF Boxes, Empty, UnderWay, Procs
      <3>2. inbox'[w][p] = <<>> /\ outbox'[w][p] = <<job[w]>>
        BY <1>1, <3>1, One DEF OwnInv, AllBoxes
      <3> QED
        BY <1>1, <1>2, <2>1, <2>3, <3>1, <3>2 DEF Boxes, Empty, UnderWay
    <2> QED
      BY <2>2, <2>3
  <1>4. Outcomes'
    BY <1>1, SameOutcomes DEF Outcomes
  <1> QED
    BY <1>2, <1>3, <1>4 DEF OwnInv

\* All others may only take processes away, and requests from the queue.
LEMMA OthersOwn ==
    ASSUME IndInv, OwnInv, Outcomes,
           UNCHANGED <<inbox, outbox, job, mine>>,
           \A w \in Slots : /\ at'[w] = at[w] \/ (at[w] # "await" /\ at'[w] # "await")
                            /\ proc'[w] \in {proc[w], 0}
                            /\ \A p \in Procs : life'[w][p] = "none" <=> life[w][p] = "none",
           \/ UNCHANGED future
           \/ \E q : future' = Cancelled(q)
           \/ \E q : future' = [future EXCEPT ![q].state = "queued"]
    PROVE  OwnInv' /\ Outcomes'
  <1>0. DOMAIN job' = Slots
    BY DEF Outcomes
  <1>1. ASSUME NEW w \in Slots PROVE Boxes(w)'
    BY IdleBoxes, StillBoxes DEF OwnInv
  <1>o. OwnInv'
    BY <1>1 DEF OwnInv, AllBoxes
  <1>2. CASE UNCHANGED future
    BY <1>0, <1>o, <1>2, SameOutcomes
  <1>3. CASE \E q : future' = Cancelled(q)
    BY <1>0, <1>o, <1>3, FaresOtherwise DEF Cancelled, Futures, Settled
  <1>4. CASE \E q : future' = [future EXCEPT ![q].state = "queued"]
    BY <1>0, <1>o, <1>4, FaresOtherwise DEF Futures, Settled
  <1> QED
    BY <1>2, <1>3, <1>4

\* Every step of the pool keeps the answers where they belong.
THEOREM OwnKept == IndInv /\ OwnInv /\ Outcomes /\ [Next]_vars => OwnInv' /\ Outcomes'
  <1> SUFFICES ASSUME IndInv, OwnInv, Outcomes, [Next]_vars PROVE OwnInv' /\ Outcomes'
    OBVIOUS
  <1> USE DEF pool, worker, thread
  <1>1. CASE UNCHANGED <<inbox, outbox, job, mine, at, proc, life, future>>
    BY <1>1, OthersOwn
  <1>2. CASE StartThread
    <2>1. \A w \in Slots : at'[w] = at[w] \/ (at[w] # "await" /\ at'[w] # "await")
      BY <1>2 DEF StartThread, Goes, IndInv, Types
    <2> QED
      BY <1>2, <2>1, OthersOwn DEF StartThread
  <1>3. CASE \E w \in Slots : SlotStep(w)
    BY <1>3, StartOwn, WorkOwn, SendOwn, AwaitOwn DEF SlotStep
  <1>4. CASE \E w \in Slots, p \in Procs : Answer(w, p) \/ Die(w, p)
    <2>1. PICK w \in Slots, p \in Procs : Answer(w, p) \/ Die(w, p)
      BY <1>4
    <2>2. CASE Die(w, p)
      <3>1. \A v \in Slots : \A q \in Procs : life'[v][q] = "none" <=> life[v][q] = "none"
        BY <2>2 DEF Die, Alive, IndInv, Types
      <3> QED
        BY <2>2, <3>1, OthersOwn DEF Die
    <2> QED
      BY <2>1, <2>2, AnswerOwn
  <1>5. CASE \E q \in Requests : Submit(q)
    BY <1>5, OthersOwn DEF Submit
  <1>6. CASE \E c \in Closers : CloseStep(c)
    <2>1. PICK c \in Closers : CloseStep(c)
      BY <1>6
    <2>2. CASE Disable(c)
      <3>1. UNCHANGED <<at, job, mine, inbox, outbox, future>>
        BY <2>2 DEF Disable
      <3>2. \A w \in Slots : /\ proc'[w] \in {proc[w], 0}
                             /\ \A p \in Procs : life'[w][p] = "none" <=> life[w][p] = "none"
        BY <2>2 DEF Disable, Alive, IndInv, Types
      <3> QED
        BY <3>1, <3>2, OthersOwn
    <2>4. CASE CancelQueue(c)
      BY <2>4, OthersOwn DEF CancelQueue
    <2>3. CASE Reap(c)
      <3>1. \A w \in Slots : proc'[w] \in {proc[w], 0}
        BY <2>3 DEF Reap, IndInv, Types
      <3>2. \A w \in Slots : \A p \in Procs : life'[w][p] = "none" <=> life[w][p] = "none"
        BY <2>3 DEF Reap
      <3> QED
        BY <2>3, <3>1, <3>2, OthersOwn DEF Reap
    <2> QED
      BY <1>1, <2>1, <2>2, <2>3, <2>4 DEF CloseStep, Tell, Join, Wait
  <1> QED
    BY <1>1, <1>2, <1>3, <1>4, <1>5, <1>6 DEF Next, vars, ListThread, BeginClose

\* Whatever timed out, died or was restarted before, an answered request got
\* the answer to itself (engine_pool.py 457).
THEOREM AnsweredOwn == Spec => []OwnAnswer
  <1>1. Spec => [](IndInv /\ OwnInv /\ Outcomes)
    BY InitIndInv, NextKeeps, InitOwnInv, OwnKept, PTL DEF Spec
  <1>2. Outcomes => OwnAnswer
    BY DEF Outcomes
  <1> QED
    BY <1>1, <1>2, PTL

---------------------------------------------------------------------------
\* The requests in the queue wait, each at one place.
Queued ==
    /\ queue \in Seq(0..NRequests)
    /\ \A i \in 1..Len(queue) :
          queue[i] # 0 => queue[i] \in Requests /\ future[queue[i]].state = "queued"
    /\ \A i, j \in 1..Len(queue) : queue[i] = queue[j] /\ queue[i] # 0 => i = j

\* A request that runs is the job of one slot, which has it until it is settled.
Working ==
    /\ job \in [Slots -> 0..NRequests]
    /\ \A w \in Slots : /\ at[w] \in {"call", "send", "await"} => job[w] # 0
                        /\ at[w] = "consume" => job[w] = 0
    /\ \A v, w \in Slots : job[v] = job[w] /\ job[v] # 0 => v = w
    /\ \A q \in Requests : future[q].state = "running" <=> \E w \in Slots : job[w] = q

\* Only requests go to a process, and only answers to requests come back.
Posted ==
    \A w \in Slots : \A p \in Procs : inbox[w][p] \in Seq(Requests) /\ outbox[w][p] \in Seq(Requests)

\* The flags, what the constructor was told, and the count of deaths.
Flagged ==
    /\ closed \in BOOLEAN /\ cancelling \in BOOLEAN /\ complete \in BOOLEAN
    /\ ready \in [Slots -> {"none", "ok", "error"}]
    /\ deaths \in 0..MaxDeaths

\* A closer joins threads of the list.
Joining == \A c \in Closers : closer[c].joins \subseteq listed

\* What the types need besides the invariants above.
TypeInv == Queued /\ Working /\ Posted /\ Flagged /\ Joining

\* At first the queue is empty and nothing runs.
LEMMA InitTypeInv == Init => TypeInv
  <1> SUFFICES ASSUME Init PROVE TypeInv
    OBVIOUS
  <1>0. Requests = 1..NRequests /\ 0 \notin Requests /\ 0 \in 0..NRequests /\ 0 \in 0..MaxDeaths
    BY PoolAssumption DEF Requests
  <1>1. Queued
    BY DEF Init, Queued
  <1>2. Working
    BY <1>0 DEF Init, Working
  <1>3. Posted /\ Joining
    BY DEF Init, Posted, Joining
  <1>4. Flagged
    BY <1>0 DEF Init, Flagged
  <1> QED
    BY <1>1, <1>2, <1>3, <1>4 DEF TypeInv

\* The types the project's invariants add up to.
LEMMA TypesAdd == IndInv /\ Outcomes /\ TypeInv => TypeOK
  <1> SUFFICES ASSUME IndInv, Outcomes, TypeInv PROVE TypeOK
    OBVIOUS
  <1>1. \A q \in Requests : Contains(queue, q) => future[q].state = "queued"
    BY PoolAssumption DEF Contains, TypeInv, Queued, Requests
  <1>2. \A q \in Requests : future[q].state = "running" <=> \E w \in Slots : job[w] = q
    BY DEF TypeInv, Working
  <1>3. \A w \in disabled : proc[w] = 0
    BY DEF IndInv, Types, Processes, Known
  <1>4. closer \in [Closers -> [step : {"none", "cancel", "disable", "tell", "join", "wait",
                                        "reap", "done"},
                                owns : BOOLEAN, kept : Nat, joins : SUBSET listed,
                                timedOut : BOOLEAN]]
    BY DEF IndInv, Types, Closings, Steps, TypeInv, Joining
  <1>5. ctor \in Slots \cup {NSlots + 1}
    BY PoolAssumption DEF IndInv, Types, Slots
  <1>6. life \in [Slots -> [Procs -> {"none", "made", "alive", "dead"}]]
    BY DEF IndInv, Types, Lives
  <1> QED
    BY <1>1, <1>2, <1>3, <1>4, <1>5, <1>6
       DEF TypeOK, IndInv, Types, Outcomes, TypeInv, Queued, Working, Posted, Flagged

---------------------------------------------------------------------------
\* A slot goes on with its job, or without one.
LEMMA StayWorking ==
    ASSUME Working, NEW w \in Slots, NEW place, at \in [Slots -> Places], Goes(w, place),
           place = "consume" => job[w] = 0,
           place \in {"call", "send", "await"} => job[w] # 0,
           UNCHANGED <<future, job>>
    PROVE  Working'
  BY DEF Working, Goes

\* A slot settles its job, which waits no more.
LEMMA SettleWorking ==
    ASSUME Working, Queued, NEW w \in Slots, at \in [Slots -> Places], Goes(w, "consume"),
           job[w] # 0, job' = [job EXCEPT ![w] = 0],
           \A q \in Requests : q # job[w] => future'[q] = future[q],
           future'[job[w]].state # "running",
           UNCHANGED queue
    PROVE  Working' /\ Queued'
  <1>0. job[w] \in Requests /\ 0 \notin Requests /\ 0 \in 0..NRequests
    BY PoolAssumption DEF Working, Requests
  <1>1. future[job[w]].state = "running"
    BY <1>0 DEF Working
  <1>2. Queued'
    BY <1>1 DEF Queued
  <1>3. /\ job' \in [Slots -> 0..NRequests]
        /\ job'[w] = 0 /\ \A v \in Slots : v # w => job'[v] = job[v]
        /\ at'[w] = "consume" /\ \A v \in Slots : v # w => at'[v] = at[v]
    BY <1>0 DEF Working, Goes
  <1>4. \A q \in Requests : future'[q].state = "running" <=> \E v \in Slots : job'[v] = q
    BY <1>0, <1>1, <1>3 DEF Working
  <1>5. Working'
    BY <1>3, <1>4 DEF Working
  <1> QED
    BY <1>2, <1>5

\* A job that fails.
LEMMA RaiseWorking ==
    ASSUME IndInv, Outcomes, Working, Queued, Flagged, NEW w \in Slots, Raise(w)
    PROVE  Working' /\ Queued' /\ ready' \in [Slots -> {"none", "ok", "error"}]
  <1>t. at \in [Slots -> Places] /\ job' = [job EXCEPT ![w] = 0] /\ UNCHANGED queue
    BY DEF IndInv, Types, Raise
  <1>1. CASE job[w] = 0
    <2>1. UNCHANGED <<future, job>> /\ Goes(w, "over") /\ ready' = [ready EXCEPT ![w] = "error"]
      BY <1>1, <1>t DEF Raise, Working
    <2>2. Working'
      BY <1>t, <2>1, StayWorking
    <2> QED
      BY <1>t, <2>1, <2>2 DEF Queued, Flagged
  <1>2. CASE job[w] # 0
    <2>1. /\ future' = [future EXCEPT ![job[w]].state = "failed"]
          /\ Goes(w, "consume") /\ UNCHANGED ready
      BY <1>2 DEF Raise
    <2>2. job[w] \in Requests
      BY <1>2, PoolAssumption DEF Working, Requests
    <2>3. /\ \A q \in Requests : q # job[w] => future'[q] = future[q]
          /\ future'[job[w]].state # "running"
      BY <2>1, <2>2 DEF Outcomes
    <2> QED
      BY <1>2, <1>t, <2>1, <2>3, SettleWorking DEF Flagged
  <1> QED
    BY <1>1, <1>2

\* The queue without its first request.
LEMMA TailQueued ==
    ASSUME Queued, queue # <<>>, queue' = Tail(queue),
           \A q \in Requests : q # Head(queue) => future'[q] = future[q]
    PROVE  Queued'
  <1>1. /\ queue' \in Seq(0..NRequests) /\ Len(queue') = Len(queue) - 1 /\ Len(queue) \in Nat
        /\ Len(queue) > 0 /\ Head(queue) = queue[1]
        /\ \A i \in 1..Len(queue') : queue'[i] = queue[i + 1]
    BY HeadTailProperties, LenProperties DEF Queued
  <1>2. \A i \in 1..Len(queue') : i + 1 \in 1..Len(queue) /\ i + 1 # 1 /\ 1 \in 1..Len(queue)
    BY <1>1
  <1>3. \A i \in 1..Len(queue') : queue'[i] # 0 => queue'[i] \in Requests /\ queue'[i] # Head(queue)
    BY <1>1, <1>2 DEF Queued
  <1>4. \A i \in 1..Len(queue') : queue'[i] # 0 => future'[queue'[i]].state = "queued"
    BY <1>1, <1>2, <1>3 DEF Queued
  <1>5. \A i, j \in 1..Len(queue') : queue'[i] = queue'[j] /\ queue'[i] # 0 => i = j
    <2> SUFFICES ASSUME NEW i \in 1..Len(queue'), NEW j \in 1..Len(queue'),
                        queue'[i] = queue'[j], queue'[i] # 0
                 PROVE  i = j
      OBVIOUS
    <2>1. i + 1 = j + 1
      BY <1>1, <1>2 DEF Queued
    <2> QED
      BY <1>1, <2>1
  <1> QED
    BY <1>1, <1>3, <1>4, <1>5 DEF Queued

\* A slot takes what is first in the queue.
LEMMA TakeWorking ==
    ASSUME IndInv, Outcomes, Working, Queued, NEW w \in Slots, Take(w)
    PROVE  Working' /\ Queued'
  <1> DEFINE q == Head(queue)
  <1>1. at \in [Slots -> Places] /\ queue # <<>> /\ at[w] = "consume" /\ queue' = Tail(queue)
    BY DEF IndInv, Types, Take
  <1>2. /\ q # 0 => q \in Requests /\ future[q].state = "queued"
        /\ 0 \notin Requests
    <2>1. Head(queue) = queue[1] /\ 1 \in 1..Len(queue)
      BY <1>1, HeadTailProperties, EmptySeq, LenProperties DEF Queued
    <2> QED
      BY <2>1, PoolAssumption DEF Queued, Requests
  <1>3. CASE q = 0 /\ Goes(w, "over") /\ UNCHANGED <<future, job>>
    BY <1>1, <1>3, StayWorking, TailQueued
  <1>4. CASE q # 0 /\ future' = [future EXCEPT ![q].state = "cancelled"] /\ UNCHANGED <<at, job>>
    <2>1. /\ \A r \in Requests : r # q => future'[r] = future[r]
          /\ future'[q].state = "cancelled"
      BY <1>2, <1>4 DEF Outcomes
    <2>2. Queued'
      BY <1>1, <2>1, TailQueued
    <2>3. Working'
      BY <1>2, <1>4, <2>1 DEF Working
    <2> QED
      BY <2>2, <2>3
  <1>5. CASE /\ q # 0 /\ future' = [future EXCEPT ![q].state = "running"]
             /\ job' = [job EXCEPT ![w] = q] /\ Goes(w, "call")
    <2>1. /\ \A r \in Requests : r # q => future'[r] = future[r]
          /\ future'[q].state = "running"
      BY <1>2, <1>5 DEF Outcomes
    <2>2. Queued'
      BY <1>1, <2>1, TailQueued
    <2>3. /\ job[w] = 0 /\ \A v \in Slots : job[v] # q
      BY <1>1, <1>2, <1>5 DEF Working
    <2>4. q \in 0..NRequests
      BY <1>2, <1>5, PoolAssumption DEF Requests
    <2> HIDE DEF q
    <2>5. /\ job' \in [Slots -> 0..NRequests]
          /\ job'[w] = q /\ \A v \in Slots : v # w => job'[v] = job[v]
          /\ at'[w] = "call" /\ \A v \in Slots : v # w => at'[v] = at[v]
      BY <1>1, <1>5, <2>4 DEF Working, Goes
    <2>6. \A r \in Requests : future'[r].state = "running" <=> \E v \in Slots : job'[v] = r
      BY <1>2, <2>1, <2>3, <2>5 DEF Working
    <2>7. Working'
      BY <1>5, <2>3, <2>5, <2>6 DEF Working
    <2> QED
      BY <2>2, <2>7
  <1> QED
    BY <1>3, <1>4, <1>5 DEF Take

\* A letter that is put into one box, or taken out of it.
LEMMA BoxPosted ==
    ASSUME NEW box, DOMAIN box = Slots, \A w \in Slots : DOMAIN box[w] = Procs,
           NEW v \in Slots, NEW p \in Procs, NEW letters \in Seq(Requests),
           \A w \in Slots : \A q \in Procs : box[w][q] \in Seq(Requests)
    PROVE  \A w \in Slots : \A q \in Procs : [box EXCEPT ![v][p] = letters][w][q] \in Seq(Requests)
  OBVIOUS

\* A step of a slot's thread.
LEMMA SlotTyped ==
    ASSUME IndInv, OwnInv, Outcomes, TypeInv, NEW w \in Slots, SlotStep(w)
    PROVE  TypeInv'
  <1> USE DEF TypeInv
  <1>t. at \in [Slots -> Places] /\ UNCHANGED <<closer, listed, closed, cancelling, complete, deaths>>
    BY DEF IndInv, Types, SlotStep, Publish, StillOurs, Spawn, Spawned, Stop, Boot, Take, Call, Send,
       Await, Discard, DropLate, Raise, pool, worker
  <1>j. Joining'
    BY <1>t DEF Joining
  <1>1. Working' /\ Queued' /\ ready' \in [Slots -> {"none", "ok", "error"}]
    <2>1. CASE Raise(w)
      BY <2>1, RaiseWorking
    <2>2. CASE Take(w)
      BY <2>2, TakeWorking DEF Take, Flagged
    <2>3. ASSUME UNCHANGED pool, UNCHANGED job, NEW place, Goes(w, place),
                 place = "consume" => job[w] = 0,
                 place \in {"call", "send", "await"} => job[w] # 0
          PROVE  Working' /\ Queued' /\ ready' \in [Slots -> {"none", "ok", "error"}]
      BY <1>t, <2>3, StayWorking DEF pool, Queued, Flagged
    <2>4. CASE Boot(w) /\ Goes(w, "consume") /\ job[w] = 0
      <3>1. /\ ready' \in [Slots -> {"none", "ok", "error"}]
            /\ UNCHANGED <<queue, future, job>>
        BY <2>4 DEF Boot, Flagged, Discard, Raise, Goes, pool, IndInv, Types
      <3> QED
        BY <1>t, <2>4, <3>1, StayWorking DEF Queued
    <2>5. CASE Boot(w) /\ Goes(w, "send") /\ job[w] # 0
      <3>1. UNCHANGED pool /\ UNCHANGED job
        BY <1>t, <2>5 DEF Boot, Discard, Raise, Goes, pool
      <3> QED
        BY <2>3, <2>5, <3>1
    <2>6. CASE /\ future' = [future EXCEPT ![job[w]] =
                              [state |-> "answered", value |-> Head(outbox[w][mine[w]])]]
               /\ job' = [job EXCEPT ![w] = 0] /\ Goes(w, "consume") /\ UNCHANGED <<queue, ready>>
               /\ at[w] = "await"
      <3>1. job[w] # 0 /\ job[w] \in Requests
        BY <2>6, PoolAssumption DEF Working, Requests
      <3>2. /\ \A q \in Requests : q # job[w] => future'[q] = future[q]
            /\ future'[job[w]].state # "running"
        BY <2>6, <3>1 DEF Outcomes
      <3> QED
        BY <1>t, <2>6, <3>1, <3>2, SettleWorking DEF Flagged
    <2>7. CASE UNCHANGED pool /\ UNCHANGED job
               /\ \E place \in {"ours", "spawn", "spawned", "boot", "stop", "restart"} : Goes(w, place)
      BY <2>3, <2>7
    <2>8. CASE Publish(w) \/ StillOurs(w) \/ Spawn(w) \/ Spawned(w) \/ Stop(w)
      BY <2>1, <2>7, <2>8 DEF Publish, StillOurs, Spawn, Spawned, Stop
    <2>9. CASE Boot(w)
      BY <2>1, <2>4, <2>5, <2>7, <2>9 DEF Boot, Discard
    <2>10. CASE Call(w)
      <3>1. job[w] # 0
        BY <2>10 DEF Call, Working
      <3> QED
        BY <2>1, <2>3, <2>7, <2>10, <3>1 DEF Call
    <2>11. CASE Send(w)
      <3>1. job[w] # 0
        BY <2>11 DEF Send, Working
      <3> QED
        BY <2>1, <2>3, <2>11, <3>1 DEF Send
    <2>12. CASE Await(w)
      BY <2>1, <2>6, <2>7, <2>12 DEF Await, Discard, DropLate
    <2> QED
      BY <2>2, <2>8, <2>9, <2>10, <2>11, <2>12 DEF SlotStep
  <1>2. Flagged'
    BY <1>t, <1>1 DEF Flagged
  <1>3. Posted'
    <2>1. CASE UNCHANGED <<inbox, outbox>>
      BY <2>1 DEF Posted
    <2>2. CASE /\ Send(w) /\ proc[w] # 0 /\ UNCHANGED outbox
               /\ inbox' = [inbox EXCEPT ![w][proc[w]] = Append(@, job[w])]
      <3>1. proc[w] \in Procs /\ job[w] \in Requests
        BY <2>2, PoolAssumption DEF Send, Working, IndInv, Types, Procs, Requests
      <3>2. Append(inbox[w][proc[w]], job[w]) \in Seq(Requests)
        BY <3>1, AppendProperties DEF Posted
      <3>3. inbox' = [inbox EXCEPT ![w][proc[w]] = Append(inbox[w][proc[w]], job[w])]
        BY <2>2
      <3> QED
        BY <2>2, <3>1, <3>2, <3>3, BoxPosted DEF Posted, OwnInv, AllBoxes
    <2>3. CASE /\ Await(w) /\ outbox[w][mine[w]] # <<>> /\ UNCHANGED inbox
               /\ outbox' = [outbox EXCEPT ![w][mine[w]] = Tail(@)]
      <3>1. mine[w] \in Procs
        BY <2>3, PoolAssumption DEF Await, OwnInv, Boxes, IndInv, Types, Procs
      <3>2. Tail(outbox[w][mine[w]]) \in Seq(Requests)
        BY <2>3, <3>1, HeadTailProperties DEF Posted
      <3>3. outbox' = [outbox EXCEPT ![w][mine[w]] = Tail(outbox[w][mine[w]])]
        BY <2>3
      <3> QED
        BY <2>3, <3>1, <3>2, <3>3, BoxPosted DEF Posted, OwnInv, AllBoxes
    <2> QED
      BY <2>1, <2>2, <2>3 DEF SlotStep, Publish, StillOurs, Spawn, Spawned, Stop, Boot, Take, Call, Send, Await, worker
  <1> QED
    BY <1>1, <1>2, <1>3, <1>j

\* A process answers what it was asked, or dies.
LEMMA ProcTyped ==
    ASSUME OwnInv, TypeInv, NEW w \in Slots, NEW p \in Procs, Answer(w, p) \/ Die(w, p)
    PROVE  TypeInv'
  <1> USE DEF TypeInv
  <1>1. UNCHANGED <<queue, future, job, at, closed, cancelling, complete, ready, closer, listed>>
    BY DEF Answer, Die, pool, thread
  <1>2. Queued' /\ Working' /\ Joining'
    BY <1>1 DEF Queued, Working, Joining
  <1>3. Flagged'
    <2>1. deaths' \in 0..MaxDeaths
      BY PoolAssumption DEF Answer, Die, Flagged
    <2> QED
      BY <1>1, <2>1 DEF Flagged
  <1>4. Posted'
    <2>1. CASE Die(w, p)
      BY <2>1 DEF Die, Posted
    <2>2. CASE Answer(w, p)
      <3>1. /\ inbox[w][p] \in Seq(Requests) /\ inbox[w][p] # <<>> /\ outbox[w][p] \in Seq(Requests)
            /\ inbox' = [inbox EXCEPT ![w][p] = Tail(inbox[w][p])]
            /\ outbox' = [outbox EXCEPT ![w][p] = Append(outbox[w][p], Head(inbox[w][p]))]
        BY <2>2 DEF Answer, Posted
      <3>2. /\ Tail(inbox[w][p]) \in Seq(Requests)
            /\ Append(outbox[w][p], Head(inbox[w][p])) \in Seq(Requests)
        BY <3>1, HeadTailProperties, AppendProperties
      <3>3. \A v \in Slots : \A q \in Procs : inbox'[v][q] \in Seq(Requests)
        BY <3>1, <3>2, BoxPosted DEF Posted, OwnInv, AllBoxes
      <3>4. \A v \in Slots : \A q \in Procs : outbox'[v][q] \in Seq(Requests)
        BY <3>1, <3>2, BoxPosted DEF Posted, OwnInv, AllBoxes
      <3> QED
        BY <3>3, <3>4 DEF Posted
    <2> QED
      BY <2>1, <2>2
  <1> QED
    BY <1>2, <1>3, <1>4

\* The constructor.
LEMMA ConstructorTyped ==
    ASSUME IndInv, TypeInv, StartThread \/ ListThread
    PROVE  TypeInv'
  <1> USE DEF TypeInv
  <1>1. /\ UNCHANGED <<queue, future, job, closed, cancelling, complete, ready, deaths, inbox, outbox, closer>>
        /\ listed \subseteq listed'
    BY DEF StartThread, ListThread, pool, worker, thread
  <1>2. UNCHANGED at \/ (ctor \in Slots /\ Goes(ctor, "start"))
    BY DEF StartThread, ListThread, thread
  <1>3. Working'
    BY <1>1, <1>2, StayWorking DEF Working, IndInv, Types
  <1>4. Queued' /\ Posted' /\ Flagged' /\ Joining'
    BY <1>1 DEF Queued, Posted, Flagged, Joining
  <1> QED
    BY <1>3, <1>4

\* A request joins the queue.
LEMMA SubmitTyped ==
    ASSUME Outcomes, TypeInv, NEW q \in Requests, Submit(q)
    PROVE  TypeInv'
  <1> USE DEF TypeInv
  <1>1. /\ UNCHANGED <<job, at, closed, cancelling, complete, ready, deaths, inbox, outbox, closer, listed>>
        /\ future[q].state = "none" /\ queue' = Append(queue, q)
        /\ future' = [future EXCEPT ![q].state = "queued"]
    BY DEF Submit, worker, thread
  <1>2. q \in 0..NRequests /\ q # 0
    BY PoolAssumption DEF Requests
  <1>3. /\ queue' \in Seq(0..NRequests) /\ Len(queue') = Len(queue) + 1 /\ Len(queue) \in Nat
        /\ \A i \in 1..Len(queue) : queue'[i] = queue[i]
        /\ queue'[Len(queue) + 1] = q
    BY <1>1, <1>2, AppendProperties, LenProperties DEF Queued
  <1>4. future'[q].state = "queued" /\ \A r \in Requests : r # q => future'[r] = future[r]
    BY <1>1 DEF Outcomes
  <1>5. \A i \in 1..Len(queue) : queue[i] # q
    BY <1>1, <1>2 DEF Queued
  <1>6. \A i \in 1..Len(queue') : i \in 1..Len(queue) \/ (i = Len(queue) + 1 /\ queue'[i] = q)
    BY <1>3
  <1>7. \A i \in 1..Len(queue') : queue'[i] # 0 => queue'[i] \in Requests /\ future'[queue'[i]].state = "queued"
    BY <1>3, <1>4, <1>5, <1>6 DEF Queued
  <1>8. \A i, j \in 1..Len(queue') : queue'[i] = queue'[j] /\ queue'[i] # 0 => i = j
    BY <1>3, <1>5, <1>6 DEF Queued
  <1>9. Working'
    <2>1. \A r \in Requests : future'[r].state = "running" <=> future[r].state = "running"
      BY <1>1, <1>4
    <2> QED
      BY <1>1, <2>1 DEF Working
  <1> QED
    BY <1>1, <1>3, <1>7, <1>8, <1>9 DEF Queued, Posted, Flagged, Joining

\* A step of a close that leaves queue and futures alone.
LEMMA CloseTyped ==
    ASSUME TypeInv, UNCHANGED <<queue, future, job, at, ready, deaths, inbox, outbox, listed>>,
           closed' \in BOOLEAN, cancelling' \in BOOLEAN, complete' \in BOOLEAN, Joining'
    PROVE  TypeInv'
  BY DEF TypeInv, Queued, Working, Posted, Flagged

\* Sentinels are a sequence of none.
LEMMA SentinelSeq ==
    ASSUME NEW n \in Nat
    PROVE  /\ Sentinels(n) \in Seq(0..NRequests) /\ Len(Sentinels(n)) = n
           /\ \A i \in 1..n : Sentinels(n)[i] = 0
  <1>1. 0 \in 0..NRequests
    BY PoolAssumption
  <1>2. Sentinels(n) \in Seq(0..NRequests)
    BY <1>1, IsASeq DEF Sentinels
  <1> QED
    BY <1>2, LenProperties DEF Sentinels

\* A request taken out of the queue is cancelled, and the sentinels go back.
LEMMA CancelTyped ==
    ASSUME IndInv, Outcomes, TypeInv, NEW c \in Closers, CancelQueue(c), Joining'
    PROVE  TypeInv'
  <1> USE DEF TypeInv
  <1>1. UNCHANGED <<inbox, outbox, deaths, listed, ready, closed, cancelling, complete, at, job>>
    BY DEF CancelQueue, worker, thread
  <1>2. CASE queue # <<>> /\ queue' = Tail(queue) /\ Head(queue) # 0 /\ future' = Cancelled(Head(queue))
    <2>1. Head(queue) \in Requests /\ future[Head(queue)].state = "queued"
      <3>1. Head(queue) = queue[1] /\ 1 \in 1..Len(queue)
        BY <1>2, HeadTailProperties, EmptySeq, LenProperties DEF Queued
      <3> QED
        BY <1>2, <3>1 DEF Queued
    <2>2. /\ \A r \in Requests : r # Head(queue) => future'[r] = future[r]
          /\ future'[Head(queue)].state = "cancelled"
      BY <1>2, <2>1 DEF Cancelled, Outcomes
    <2>3. Queued'
      BY <1>2, <2>2, TailQueued
    <2>4. Working'
      BY <1>1, <2>1, <2>2 DEF Working
    <2> QED
      BY <1>1, <2>3, <2>4 DEF Posted, Flagged
  <1>3. CASE queue # <<>> /\ queue' = Tail(queue) /\ UNCHANGED future
    <2>1. Queued'
      BY <1>3, TailQueued
    <2> QED
      BY <1>1, <1>3, <2>1 DEF Working, Posted, Flagged
  <1>4. CASE queue' = Sentinels(closer[c].kept) /\ UNCHANGED future
    <2>1. closer[c].kept \in Nat
      BY DEF IndInv, Types, Closings
    <2> DEFINE n == closer[c].kept
    <2>2. queue' \in Seq(0..NRequests) /\ Len(queue') = n /\ \A i \in 1..n : queue'[i] = 0
      BY <1>4, <2>1, SentinelSeq
    <2> HIDE DEF n
    <2>3. Queued'
      BY <2>2 DEF Queued
    <2> QED
      BY <1>1, <1>4, <2>3 DEF Working, Posted, Flagged
  <1> QED
    BY <1>2, <1>3, <1>4 DEF CancelQueue

\* The sentinels of a close come last.
LEMMA TellTyped ==
    ASSUME IndInv, TypeInv, NEW c \in Closers, Tell(c)
    PROVE  TypeInv'
  <1> USE DEF TypeInv
  <1>1. /\ UNCHANGED <<future, closed, cancelling, complete, listed, ready, deaths, inbox, outbox, at, job>>
        /\ queue' = queue \o Sentinels(Cardinality(LiveThreads))
        /\ closer' = [closer EXCEPT ![c].step = "join", ![c].joins = LiveThreads]
    BY DEF Tell, worker, thread
  <1>2. Cardinality(LiveThreads) \in Nat
    <2>1. IsFiniteSet(Slots)
      BY FS_Interval, PoolAssumption DEF Slots
    <2>2. LiveThreads \subseteq Slots
      BY DEF LiveThreads, IndInv, Types
    <2> QED
      BY <2>1, <2>2, FS_Subset, FS_CardinalityType
  <1>3. Joining'
    BY <1>1 DEF Joining, LiveThreads, IndInv, Types, Closings
  <1>4. Queued'
    <2> DEFINE n == Cardinality(LiveThreads)
               tail == Sentinels(n)
               m == Len(queue)
    <2>1. tail \in Seq(0..NRequests) /\ Len(tail) = n /\ \A i \in 1..n : tail[i] = 0
      BY <1>2, SentinelSeq
    <2>2. queue \in Seq(0..NRequests) /\ m \in Nat /\ n \in Nat /\ queue' = queue \o tail
      BY <1>1, <1>2, LenProperties DEF Queued
    <2> HIDE DEF tail, n
    <2>3. /\ queue' \in Seq(0..NRequests) /\ Len(queue') = m + n
          /\ \A i \in 1..(m + n) : queue'[i] = IF i <= m THEN queue[i] ELSE tail[i - m]
      BY <2>1, <2>2, ConcatProperties
    <2>4. ASSUME NEW i \in 1..Len(queue'), queue'[i] # 0
          PROVE  i \in 1..m /\ queue'[i] = queue[i]
      <3>1. i \in 1..(m + n) /\ (~(i <= m) => i - m \in 1..n)
        BY <2>2, <2>3
      <3>2. i <= m
        BY <2>1, <2>3, <2>4, <3>1
      <3> QED
        BY <2>2, <2>3, <3>1, <3>2
    <2>5. \A i \in 1..Len(queue') :
             queue'[i] # 0 => queue'[i] \in Requests /\ future'[queue'[i]].state = "queued"
      BY <1>1, <2>4 DEF Queued
    <2>6. \A i, j \in 1..Len(queue') : queue'[i] = queue'[j] /\ queue'[i] # 0 => i = j
      BY <2>4 DEF Queued
    <2> QED
      BY <2>3, <2>5, <2>6 DEF Queued
  <1> QED
    BY <1>1, <1>3, <1>4 DEF Working, Posted, Flagged

\* Every step keeps the types.
THEOREM TypesKept ==
    IndInv /\ OwnInv /\ Outcomes /\ TypeInv /\ [Next]_vars => TypeInv'
  <1> SUFFICES ASSUME IndInv, OwnInv, Outcomes, TypeInv, [Next]_vars PROVE TypeInv'
    OBVIOUS
  <1> USE DEF pool, worker, thread
  <1>t. closed \in BOOLEAN /\ cancelling \in BOOLEAN /\ complete \in BOOLEAN /\ Joining
        /\ closer \in Closings
    BY DEF TypeInv, Flagged, IndInv, Types
  <1>1. CASE UNCHANGED vars
    BY <1>1, <1>t, CloseTyped DEF vars, Joining
  <1>2. CASE \E w \in Slots : SlotStep(w)
    BY <1>2, SlotTyped
  <1>3. CASE \E w \in Slots, p \in Procs : Answer(w, p) \/ Die(w, p)
    BY <1>3, ProcTyped
  <1>4. CASE StartThread \/ ListThread
    BY <1>4, ConstructorTyped
  <1>5. CASE \E q \in Requests : Submit(q)
    BY <1>5, SubmitTyped
  <1>6. CASE \E c \in Closers : BeginClose(c)
    <2>1. PICK c \in Closers : BeginClose(c)
      BY <1>6
    <2>2. /\ closed' \in BOOLEAN /\ cancelling' \in BOOLEAN
          /\ UNCHANGED <<queue, future, job, at, ready, deaths, inbox, outbox, listed, complete>>
      BY <1>t, <2>1 DEF BeginClose
    <2>3. Joining'
      BY <1>t, <2>1 DEF BeginClose, Joining, Closings
    <2> QED
      BY <1>t, <2>2, <2>3, CloseTyped
  <1>7. CASE \E c \in Closers : CloseStep(c)
    <2>1. PICK c \in Closers : CloseStep(c)
      BY <1>7
    <2>2. CASE Tell(c)
      BY <2>2, TellTyped
    <2>3. CASE ~Tell(c)
      <3>1. UNCHANGED <<at, job, listed>>
        BY <2>1, <2>3 DEF CloseStep, CancelQueue, Disable, Join, Reap, Wait
      <3>2. \A d \in Closers : closer'[d].joins = closer[d].joins
        BY <1>t, <2>1, <2>3 DEF CloseStep, CancelQueue, Disable, Join, Reap, Wait, At, Closings
      <3>3. Joining'
        BY <1>t, <3>1, <3>2 DEF Joining
      <3>4. CASE CancelQueue(c)
        BY <3>3, <3>4, CancelTyped
      <3>5. CASE ~CancelQueue(c)
        <4>1. /\ UNCHANGED <<queue, future, ready, deaths, inbox, outbox, closed>>
              /\ complete' \in BOOLEAN /\ cancelling' \in BOOLEAN
          BY <1>t, <2>1, <2>3, <3>5 DEF CloseStep, Disable, Join, Reap, Wait
        <4> QED
          BY <1>t, <3>1, <3>3, <4>1, CloseTyped
      <3> QED
        BY <3>4, <3>5
    <2> QED
      BY <2>2, <2>3
  <1> QED
    BY <1>1, <1>2, <1>3, <1>4, <1>5, <1>6, <1>7 DEF Next

\* Every variable of the pool has its type throughout: a request runs exactly
\* while it is the job of a slot, waits while it is in the queue, and only
\* requests go to and fro (engine_pool.py 902, 905).
THEOREM TypesHold == Spec => []TypeOK
  <1>1. Spec => [](IndInv /\ OwnInv /\ Outcomes /\ TypeInv)
    BY InitIndInv, NextKeeps, InitOwnInv, OwnKept, InitTypeInv, TypesKept, PTL DEF Spec
  <1> QED
    BY <1>1, TypesAdd, PTL
---------------------------------------------------------------------------
(***************************************************************************)
(* The fourth fact: the pool implements FuturePool. A request is started   *)
(* by a slot that has no other, fails or is answered as the job of a slot, *)
(* and is cancelled on its way out of the queue.                           *)
(***************************************************************************)

\* Whoever cancels has said so.
SaidSo == \A c \in Closers : Cancels(c) /\ closer[c].step # "none" => cancelling

\* At first nobody cancels.
LEMMA InitSaidSo == Init => SaidSo
  BY DEF Init, SaidSo

\* Nobody takes it back.
LEMMA SaidSoKept == IndInv /\ SaidSo /\ [Next]_vars => SaidSo'
  <1> SUFFICES ASSUME IndInv, SaidSo, [Next]_vars PROVE SaidSo'
    OBVIOUS
  <1> USE DEF pool, worker, thread
  <1>1. CASE UNCHANGED <<closer, cancelling>>
    BY <1>1 DEF SaidSo
  <1>2. CASE \E w \in Slots : SlotStep(w)
    <2>1. UNCHANGED <<closer, cancelling>>
      BY <1>2 DEF SlotStep, Publish, StillOurs, Spawn, Spawned, Stop, Boot, Take, Call, Send,
                  Await, DropLate, Discard, Raise
    <2> QED
      BY <2>1 DEF SaidSo
  <1>3. CASE \E c \in Closers : BeginClose(c)
    <2>1. PICK c \in Closers : BeginClose(c)
      BY <1>3
    <2>2. /\ cancelling' = (cancelling \/ Cancels(c))
          /\ \A d \in Closers : d # c => closer'[d] = closer[d]
      BY <2>1 DEF BeginClose, IndInv, Types, Closings
    <2> QED
      BY <2>2 DEF SaidSo, Cancels
  <1>4. CASE \E c \in Closers : CloseStep(c)
    <2>1. PICK c \in Closers : CloseStep(c)
      BY <1>4
    <2>2. /\ closer[c].step # "none"
          /\ \A d \in Closers : d # c => closer'[d] = closer[d]
          /\ cancelling => cancelling'
      BY <2>1 DEF CloseStep, CancelQueue, Disable, Tell, Join, Reap, Wait, At, IndInv, Types, Closings
    <2> QED
      BY <2>2 DEF SaidSo, Cancels
  <1> QED
    BY <1>1, <1>2, <1>3, <1>4 DEF Next, vars, StartThread, ListThread, Answer, Die, Submit

\* A slot without a job is not counted among those that run one.
LEMMA SlotFree ==
    ASSUME Working, NEW w \in Slots, job[w] = 0
    PROVE  Cardinality(Promise!Running) < NSlots
  <1> DEFINE S == Promise!Running
             T == Slots \ {w}
             f == [q \in S |-> CHOOSE v \in Slots : job[v] = q]
  <1>1. ASSUME NEW q \in S PROVE f[q] \in T /\ job[f[q]] = q
    <2>1. q \in Requests /\ q # 0 /\ \E v \in Slots : job[v] = q
      BY PoolAssumption DEF Promise!Running, Working, Requests
    <2> QED
      BY <2>1
  <1>2. IsFiniteSet(T) /\ Cardinality(T) = NSlots - 1
    <2>1. IsFiniteSet(Slots) /\ Cardinality(Slots) = NSlots
      BY FS_Interval, PoolAssumption DEF Slots
    <2> QED
      BY <2>1, FS_RemoveElement
  <1> HIDE DEF T
  <1>3. f \in Injection(S, T)
    BY <1>1 DEF Injection, IsInjective
  <1> HIDE DEF S, f
  <1>4. IsFiniteSet(S) /\ Cardinality(S) <= Cardinality(T)
    BY <1>2, <1>3, FS_Injection
  <1>5. Cardinality(S) \in Nat
    BY <1>4, FS_CardinalityType
  <1> QED
    BY <1>2, <1>4, <1>5, PoolAssumption DEF S

\* A job that fails.
LEMMA RaisePromised ==
    ASSUME TypeInv, NEW w \in Slots, Raise(w)
    PROVE  [Promise!Next]_(Promise!vars)
  <1>1. UNCHANGED <<closed, cancelling>>
    BY DEF Raise
  <1>2. CASE job[w] = 0
    BY <1>1, <1>2 DEF Raise, Promise!vars
  <1>3. CASE job[w] # 0
    <2>1. job[w] \in Requests
      BY <1>3, PoolAssumption DEF TypeInv, Working, Requests
    <2>2. future[job[w]].state = "running"
      BY <2>1 DEF TypeInv, Working
    <2>3. Promise!Fail(job[w])
      BY <1>1, <1>3, <2>2 DEF Raise, Promise!Fail
    <2> QED
      BY <2>1, <2>3 DEF Promise!Next
  <1> QED
    BY <1>2, <1>3

\* A slot takes what is first in the queue.
LEMMA TakePromised ==
    ASSUME IndInv, TypeInv, NEW w \in Slots, Take(w)
    PROVE  [Promise!Next]_(Promise!vars)
  <1> DEFINE q == Head(queue)
  <1>1. UNCHANGED <<closed, cancelling>> /\ job[w] = 0
    BY DEF Take, TypeInv, Working
  <1>2. q # 0 => q \in Requests /\ future[q].state = "queued"
    <2>1. queue # <<>>
      BY DEF Take
    <2>2. Head(queue) = queue[1] /\ 1 \in 1..Len(queue)
      BY <2>1, HeadTailProperties, EmptySeq, LenProperties DEF TypeInv, Queued
    <2> QED
      BY <2>2 DEF TypeInv, Queued
  <1>3. CASE UNCHANGED future
    BY <1>1, <1>3 DEF Promise!vars
  <1>4. CASE q # 0 /\ cancelling /\ future' = [future EXCEPT ![q].state = "cancelled"]
    <2>1. Promise!Cancel(q)
      BY <1>1, <1>2, <1>4 DEF Promise!Cancel
    <2> QED
      BY <1>2, <1>4, <2>1 DEF Promise!Next
  <1>5. CASE q # 0 /\ future' = [future EXCEPT ![q].state = "running"]
    <2>1. Promise!Cardinality(Promise!Running) < NSlots
      <3>1. Cardinality(Promise!Running) < NSlots
        BY <1>1, SlotFree DEF TypeInv
      <3>2. \A S : Promise!Cardinality(S) = Cardinality(S)
        BY DEF Promise!Cardinality, Cardinality
      <3> QED
        BY <3>1, <3>2
    <2>2. Promise!Start(q)
      BY <1>1, <1>2, <1>5, <2>1 DEF Promise!Start
    <2> QED
      BY <1>2, <1>5, <2>2 DEF Promise!Next
  <1> QED
    BY <1>3, <1>4, <1>5 DEF Take

\* A slot gets an answer, which is to its own request, or none.
LEMMA AwaitPromised ==
    ASSUME IndInv, OwnInv, TypeInv, NEW w \in Slots, Await(w)
    PROVE  [Promise!Next]_(Promise!vars)
  <1>1. CASE Raise(w)
    BY <1>1, RaisePromised
  <1>2. CASE Discard(w)
    <2>1. UNCHANGED pool \/ Raise(w)
      BY <1>2 DEF Discard
    <2> QED
      BY <2>1, RaisePromised DEF pool, Promise!vars
  <1>3. CASE /\ Current(w) /\ outbox[w][mine[w]] # <<>>
             /\ future' = [future EXCEPT ![job[w]] =
                             [state |-> "answered", value |-> Head(outbox[w][mine[w]])]]
             /\ UNCHANGED <<closed, cancelling>>
    <2>1. /\ at[w] = "await" /\ mine[w] # 0 /\ proc[w] = mine[w] /\ Boxes(w)
      BY <1>3 DEF Await, Current, OwnInv, Boxes
    <2>2. outbox[w][mine[w]] = <<job[w]>>
      BY <1>3, <2>1 DEF Boxes, UnderWay, Empty
    <2>3. Head(outbox[w][mine[w]]) = job[w]
      BY <2>2, One
    <2>4. job[w] \in Requests /\ future[job[w]].state = "running"
      BY <2>1, PoolAssumption DEF TypeInv, Working, Requests
    <2>5. Promise!Answer(job[w])
      BY <1>3, <2>3, <2>4 DEF Promise!Answer
    <2> QED
      BY <2>4, <2>5 DEF Promise!Next
  <1> QED
    BY <1>1, <1>2, <1>3 DEF Await, DropLate

\* Every step of a slot's thread.
LEMMA SlotPromised ==
    ASSUME IndInv, OwnInv, TypeInv, NEW w \in Slots, SlotStep(w)
    PROVE  [Promise!Next]_(Promise!vars)
  <1>1. CASE Take(w) \/ Await(w)
    BY <1>1, TakePromised, AwaitPromised
  <1>2. CASE ~ (Take(w) \/ Await(w))
    <2>1. Raise(w) \/ UNCHANGED <<future, closed, cancelling>>
      BY <1>2 DEF SlotStep, Publish, StillOurs, Spawn, Spawned, Stop, Boot, Call, Send, Discard, pool
    <2> QED
      BY <2>1, RaisePromised DEF Promise!vars
  <1> QED
    BY <1>1, <1>2

\* A closer cancels only what it takes out of the queue.
LEMMA ClosePromised ==
    ASSUME IndInv, TypeInv, SaidSo, NEW c \in Closers, CloseStep(c)
    PROVE  [Promise!Next]_(Promise!vars)
  <1>1. CASE CancelQueue(c)
    <2>1. UNCHANGED <<closed, cancelling>>
      BY <1>1 DEF CancelQueue
    <2>2. CASE UNCHANGED future
      BY <2>1, <2>2 DEF Promise!vars
    <2>3. CASE queue # <<>> /\ Head(queue) # 0 /\ future' = Cancelled(Head(queue))
      <3>1. Head(queue) = queue[1] /\ 1 \in 1..Len(queue)
        BY <2>3, HeadTailProperties, EmptySeq, LenProperties DEF TypeInv, Queued
      <3>2. Head(queue) \in Requests /\ future[Head(queue)].state = "queued"
        BY <2>3, <3>1 DEF TypeInv, Queued
      <3>3. cancelling
        BY <1>1 DEF CancelQueue, SaidSo, IndInv, Closes, Closing
      <3>4. Promise!Cancel(Head(queue))
        BY <2>1, <2>3, <3>2, <3>3 DEF Promise!Cancel, Cancelled
      <3> QED
        BY <3>2, <3>4 DEF Promise!Next
    <2> QED
      BY <1>1, <2>2, <2>3 DEF CancelQueue
  <1>2. CASE Join(c)
    <2>1. closer[c].step = "join" /\ (UNCHANGED cancelling \/ (Cancels(c) /\ cancelling' = TRUE))
      BY <1>2 DEF Join
    <2>2. cancelling \in BOOLEAN /\ (Cancels(c) => cancelling)
      BY <2>1 DEF TypeInv, Flagged, SaidSo
    <2>3. UNCHANGED <<future, closed, cancelling>>
      BY <1>2, <2>1, <2>2 DEF Join
    <2> QED
      BY <2>3 DEF Promise!vars
  <1>3. CASE Disable(c) \/ Tell(c) \/ Reap(c) \/ Wait(c)
    BY <1>3 DEF Disable, Tell, Reap, Wait, pool, Promise!vars
  <1> QED
    BY <1>1, <1>2, <1>3 DEF CloseStep

\* Every step of the pool is one of FuturePool, or changes nothing of it.
THEOREM StepPromised ==
    IndInv /\ OwnInv /\ TypeInv /\ SaidSo /\ [Next]_vars => [Promise!Next]_(Promise!vars)
  <1> SUFFICES ASSUME IndInv, OwnInv, TypeInv, SaidSo, [Next]_vars
               PROVE  [Promise!Next]_(Promise!vars)
    OBVIOUS
  <1> USE DEF pool
  <1>1. CASE UNCHANGED vars
    BY <1>1 DEF vars, Promise!vars
  <1>2. CASE StartThread \/ ListThread
    BY <1>2 DEF StartThread, ListThread, Promise!vars
  <1>3. CASE \E w \in Slots : SlotStep(w)
    BY <1>3, SlotPromised
  <1>4. CASE \E w \in Slots, p \in Procs : Answer(w, p) \/ Die(w, p)
    BY <1>4 DEF Answer, Die, Promise!vars
  <1>5. CASE \E q \in Requests : Submit(q)
    BY <1>5 DEF Submit, Promise!Submit, Promise!Next
  <1>6. CASE \E c \in Closers : BeginClose(c)
    <2>1. PICK c \in Closers : BeginClose(c)
      BY <1>6
    <2>2. closed' = TRUE /\ cancelling' = (cancelling \/ Cancels(c)) /\ UNCHANGED future
      BY <2>1 DEF BeginClose
    <2>3. cancelling' \in {cancelling, TRUE}
      BY <2>2 DEF TypeInv, Flagged, Cancels
    <2> QED
      BY <2>2, <2>3 DEF Promise!Close, Promise!Next
  <1>7. CASE \E c \in Closers : CloseStep(c)
    BY <1>7, ClosePromised
  <1> QED
    BY <1>1, <1>2, <1>3, <1>4, <1>5, <1>6, <1>7 DEF Next

\* For any number of slots, requests, processes and deaths requests fare as
\* FuturePool promises, whoever closes the pool meanwhile (engine_pool.py 457,
\* 859, 902, 926).
THEOREM FaresAsPromised == Spec => FuturesAsPromised
  <1>1. Init => Promise!Init
    BY DEF Init, Promise!Init
  <1>2. Spec => [](IndInv /\ OwnInv /\ Outcomes /\ TypeInv /\ SaidSo)
    BY InitIndInv, NextKeeps, InitOwnInv, OwnKept, InitTypeInv, TypesKept, InitSaidSo, SaidSoKept,
       PTL DEF Spec
  <1> QED
    BY <1>1, <1>2, StepPromised, PTL DEF Spec, FuturesAsPromised, Promise!Spec
=============================================================================
