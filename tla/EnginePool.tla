----------------------------- MODULE EnginePool -----------------------------
(* A pool of warm chemistry engines (simulator/engine_pool.py): a queue of  *)
(* requests, one thread per slot that starts its engine in a process of its *)
(* own and feeds it one request after the other, and whoever closes the     *)
(* pool: its constructor when a slot does not come up, its user, who waits  *)
(* for the requests or gives them up ("abort"), and the cleanup of the      *)
(* interpreter, possibly all at once.                                       *)
(*                                                                          *)
(* Deadlines may pass at any moment. A process that is killed is dead. The  *)
(* answers a process gave before it died by itself can still be read.       *)
EXTENDS Integers, Sequences, FiniteSets, SequencesExt

CONSTANTS
    NSlots,     \* workers of the pool
    NRequests,  \* bound: requests submitted
    MaxProcs,   \* bound: processes made for one slot; then none can be made
    MaxDeaths   \* bound: processes that die by themselves

ASSUME PoolAssumption ==
    /\ NSlots \in Nat \ {0}
    /\ NRequests \in Nat
    /\ MaxProcs \in Nat \ {0}
    /\ MaxDeaths \in Nat

Slots == 1..NSlots
Requests == 1..NRequests
Procs == 1..MaxProcs
Closers == {"ctor", "auto", "user", "abort"}
Cancels(c) == c # "user"

VARIABLES
    queue,     \* _queue: requests, and 0 for the sentinel None
    future,    \* per request: its future
    closed, cancelling, complete, \* _closed, _cancel_pending, _close_complete
    listed,    \* slots whose thread is in _threads
    at,        \* per slot: where its thread is
    job,       \* per slot: the request it works on, 0 while it starts up
    mine,      \* per slot: the process its thread works with, 0 for none
    ready,     \* per slot: what it reported to the constructor
    disabled,  \* workers that are disabled
    proc,      \* per worker: self.process, 0 for None
    reaping,   \* per worker: _pending_reap
    life,      \* per worker: its processes
    inbox, outbox,  \* per worker and process: requests sent, answers to read
    deaths,    \* bound: processes that died by themselves
    ctor,      \* the constructor: the slot it comes to; past the last, all are started
    closer     \* per closer: its step, whether it owns the close, the sentinels it
               \* took from the queue, the threads it waits for, how it ended

pool == <<queue, future, closed, cancelling, complete, listed, ready>>
worker == <<disabled, proc, reaping, life, inbox, outbox, deaths>>
thread == <<at, job, mine>>
vars == <<pool, worker, thread, ctor, closer>>

Settled == {"answered", "failed", "cancelled"}
Futures == {"none", "queued", "running"} \cup Settled
Places == {"unborn", "start", "ours", "spawn", "spawned", "boot", "stop",
           "restart", "consume", "call", "send", "await", "over"}

TypeOK ==
    /\ queue \in Seq(0..NRequests)
    /\ future \in [Requests -> [state : Futures, value : 0..NRequests]]
    /\ \A q \in Requests : Contains(queue, q) => future[q].state = "queued"
    /\ closed \in BOOLEAN /\ cancelling \in BOOLEAN /\ complete \in BOOLEAN
    /\ listed \subseteq Slots
    /\ at \in [Slots -> Places]
    /\ job \in [Slots -> 0..NRequests]
    /\ \A q \in Requests :
          future[q].state = "running" <=> \E w \in Slots : job[w] = q
    /\ mine \in [Slots -> 0..MaxProcs]
    /\ ready \in [Slots -> {"none", "ok", "error"}]
    /\ disabled \subseteq Slots
    /\ proc \in [Slots -> 0..MaxProcs]
    /\ \A w \in disabled : proc[w] = 0
    /\ reaping \in [Slots -> SUBSET Procs]
    /\ life \in [Slots -> [Procs -> {"none", "made", "alive", "dead"}]]
    /\ \A w \in Slots : \A p \in Procs :
          inbox[w][p] \in Seq(Requests) /\ outbox[w][p] \in Seq(Requests)
    /\ deaths \in 0..MaxDeaths
    /\ ctor \in Slots \cup {NSlots + 1}
    /\ closer \in [Closers -> [step : {"none", "cancel", "disable", "tell", "join",
                                       "wait", "reap", "done"},
                               owns : BOOLEAN, kept : Nat, joins : SUBSET listed,
                               timedOut : BOOLEAN]]

Init ==
    /\ queue = <<>>
    /\ future = [q \in Requests |-> [state |-> "none", value |-> 0]]
    /\ closed = FALSE /\ cancelling = FALSE /\ complete = FALSE
    /\ listed = {}
    /\ at = [w \in Slots |-> "unborn"]
    /\ job = [w \in Slots |-> 0]
    /\ mine = [w \in Slots |-> 0]
    /\ ready = [w \in Slots |-> "none"]
    /\ disabled = {}
    /\ proc = [w \in Slots |-> 0]
    /\ reaping = [w \in Slots |-> {}]
    /\ life = [w \in Slots |-> [p \in Procs |-> "none"]]
    /\ inbox = [w \in Slots |-> [p \in Procs |-> <<>>]]
    /\ outbox = inbox
    /\ deaths = 0
    /\ ctor = 1
    /\ closer = [c \in Closers |->
                   [step |-> "none", owns |-> FALSE, kept |-> 0, joins |-> {},
                    timedOut |-> FALSE]]

-----------------------------------------------------------------------------
(* A worker: start                                                          *)

Goes(w, place) == at' = [at EXCEPT ![w] = place]
Alive(w, p) == p # 0 /\ life[w][p] = "alive"
Current(w) == w \notin disabled /\ proc[w] = mine[w]

(* An exception of start or call: it is reported to the constructor, and    *)
(* the thread ends, or it becomes the outcome of the request.               *)
Raise(w) ==
    /\ IF job[w] = 0
       THEN /\ ready' = [ready EXCEPT ![w] = "error"]
            /\ Goes(w, "over")
            /\ UNCHANGED future
       ELSE /\ future' = [future EXCEPT ![job[w]].state = "failed"]
            /\ Goes(w, "consume")
            /\ UNCHANGED ready
    /\ job' = [job EXCEPT ![w] = 0]
    /\ mine' = [mine EXCEPT ![w] = 0]
    /\ UNCHANGED <<queue, closed, cancelling, complete, listed>>

\* Mutant: a worker that is disabled meanwhile publishes all the same.
MayPublishAlways(w) == TRUE

MayPublish(w) == w \notin disabled

\* What cannot be reaped yet, for it is not spawned.
Unborn(w) == {p \in reaping[w] : life[w][p] = "made"}

(* What a disable left is reaped. A process object is published before it   *)
(* is spawned, for a disable that comes in between to find.                 *)
Publish(w) ==
    /\ at[w] \in {"start", "restart"}
    /\ \/ /\ w \in disabled
          /\ reaping' = [reaping EXCEPT ![w] = Unborn(w)]
          /\ Raise(w)
          /\ UNCHANGED <<proc, life>>
       \/ /\ MayPublish(w)
          /\ \E p \in Procs :
                /\ life[w][p] = "none" /\ \A q \in Procs : q < p => life[w][q] # "none"
                /\ life' = [life EXCEPT ![w][p] = "made"]
                /\ proc' = [proc EXCEPT ![w] = p]
                /\ reaping' = [reaping EXCEPT ![w] = Unborn(w) \cup {p}]
                /\ mine' = [mine EXCEPT ![w] = p]
          /\ Goes(w, "ours")
          /\ UNCHANGED <<pool, job>>
       \/ /\ \A p \in Procs : life[w][p] # "none"
          /\ Raise(w)
          /\ UNCHANGED <<proc, reaping, life>>
    /\ UNCHANGED <<disabled, inbox, outbox, deaths, ctor, closer>>

StillOurs(w) ==
    /\ at[w] = "ours"
    /\ IF Current(w)
       THEN Goes(w, "spawn") /\ UNCHANGED <<pool, job, mine>>
       ELSE Raise(w)
    /\ UNCHANGED <<worker, ctor, closer>>

(* Process.start: it may raise, and leaves the object to be reaped.         *)
Spawn(w) ==
    /\ at[w] = "spawn"
    /\ \/ /\ life' = [life EXCEPT ![w][mine[w]] = "alive"]
          /\ Goes(w, "spawned")
          /\ UNCHANGED <<pool, job, mine, proc>>
       \/ /\ proc' = IF proc[w] = mine[w] THEN [proc EXCEPT ![w] = 0] ELSE proc
          /\ Raise(w)
          /\ UNCHANGED life
    /\ UNCHANGED <<disabled, reaping, inbox, outbox, deaths, ctor, closer>>

\* Mutant: a disable during the spawn goes unnoticed.
KeepsItAlways(w) == TRUE

KeepsIt(w) == Current(w)

(* Spawned: when it was disabled meanwhile, the process is killed here.     *)
Spawned(w) ==
    /\ at[w] = "spawned"
    /\ IF KeepsIt(w)
       THEN /\ reaping' = [reaping EXCEPT ![w] = @ \ {mine[w]}]
            /\ Goes(w, "boot")
       ELSE Goes(w, "stop") /\ UNCHANGED reaping
    /\ UNCHANGED <<pool, job, mine, disabled, proc, life, inbox, outbox, deaths,
                   ctor, closer>>

(* _discard_current forgets the process if it is still the current one, and *)
(* stops it; the next step raises.                                          *)
Discard(w) ==
    IF proc[w] = mine[w]
    THEN proc' = [proc EXCEPT ![w] = 0] /\ Goes(w, "stop") /\ UNCHANGED <<pool, job, mine>>
    ELSE Raise(w) /\ UNCHANGED proc

Stop(w) ==
    /\ at[w] = "stop"
    /\ life' = [life EXCEPT ![w][mine[w]] = "dead"]
    /\ Raise(w)
    /\ UNCHANGED <<disabled, proc, reaping, inbox, outbox, deaths, ctor, closer>>

(* The bootstrap is awaited: it is ready; or it fails, ends or is too slow. *)
Boot(w) ==
    /\ at[w] = "boot"
    /\ \/ /\ ~Current(w)
          /\ Raise(w)
          /\ UNCHANGED proc
       \/ /\ Current(w)
          /\ IF job[w] = 0
             THEN ready' = [ready EXCEPT ![w] = "ok"] /\ Goes(w, "consume")
             ELSE UNCHANGED ready /\ Goes(w, "send")
          /\ UNCHANGED <<queue, future, closed, cancelling, complete, listed,
                         job, mine, proc>>
       \/ Current(w) /\ Discard(w)
    /\ UNCHANGED <<disabled, reaping, life, inbox, outbox, deaths, ctor, closer>>

-----------------------------------------------------------------------------
(* A slot takes a request and calls its worker                              *)

Take(w) ==
    /\ at[w] = "consume"
    /\ queue # <<>>
    /\ queue' = Tail(queue)
    /\ LET q == Head(queue) IN
       \/ /\ q = 0
          /\ Goes(w, "over")
          /\ UNCHANGED <<future, job>>
       \/ /\ q # 0 /\ cancelling
          /\ future' = [future EXCEPT ![q].state = "cancelled"]
          /\ UNCHANGED <<at, job>>
       \/ /\ q # 0 /\ ~cancelling
          /\ future' = [future EXCEPT ![q].state = "running"]
          /\ job' = [job EXCEPT ![w] = q]
          /\ Goes(w, "call")
    /\ UNCHANGED <<closed, cancelling, complete, listed, ready, mine, worker, ctor, closer>>

(* A dead process is discarded and a new one started, within its own time.  *)
Call(w) ==
    /\ at[w] = "call"
    /\ \/ /\ w \in disabled
          /\ Raise(w)
          /\ UNCHANGED proc
       \/ /\ w \notin disabled /\ ~Alive(w, proc[w])
          /\ proc' = [proc EXCEPT ![w] = 0]
          /\ Goes(w, "restart")
          /\ UNCHANGED <<pool, job, mine>>
       \/ /\ w \notin disabled /\ Alive(w, proc[w])
          /\ Goes(w, "send")
          /\ UNCHANGED <<pool, job, mine, proc>>
    /\ UNCHANGED <<disabled, reaping, life, inbox, outbox, deaths, ctor, closer>>

(* The current process is looked up anew: there may be none any more, or    *)
(* the request may not be one that can be sent, which raises and leaves the *)
(* process to the next. Nothing reads what a dead one is sent, and waiting  *)
(* for its answer fails.                                                    *)
Send(w) ==
    /\ at[w] = "send"
    /\ \/ Raise(w) /\ UNCHANGED inbox
       \/ /\ proc[w] # 0
          /\ inbox' = [inbox EXCEPT ![w][proc[w]] = Append(@, job[w])]
          /\ mine' = [mine EXCEPT ![w] = proc[w]]
          /\ Goes(w, "await")
          /\ UNCHANGED <<pool, job>>
    /\ UNCHANGED <<disabled, proc, reaping, life, outbox, deaths, ctor, closer>>

\* Mutant: a call that times out leaves its process to the next one.
DropLateKept(w) == Raise(w) /\ UNCHANGED proc

(* A call that times out, and an engine that fails, take the process along. *)
DropLate(w) == Discard(w)

Await(w) ==
    /\ at[w] = "await"
    /\ \/ /\ ~Current(w)
          /\ Raise(w)
          /\ UNCHANGED <<proc, outbox>>
       \/ /\ Current(w)
          /\ outbox[w][mine[w]] # <<>>
          /\ outbox' = [outbox EXCEPT ![w][mine[w]] = Tail(@)]
          /\ \/ /\ future' = [future EXCEPT ![job[w]] =
                                [state |-> "answered", value |-> Head(outbox[w][mine[w]])]]
                /\ job' = [job EXCEPT ![w] = 0]
                /\ mine' = [mine EXCEPT ![w] = 0]
                /\ Goes(w, "consume")
                /\ UNCHANGED <<queue, closed, cancelling, complete, listed, ready, proc>>
             \/ Discard(w)
       \/ /\ Current(w) /\ DropLate(w)
          /\ UNCHANGED outbox
    /\ UNCHANGED <<disabled, reaping, life, inbox, deaths, ctor, closer>>

SlotStep(w) ==
    \/ Publish(w) \/ StillOurs(w) \/ Spawn(w) \/ Spawned(w) \/ Stop(w) \/ Boot(w)
    \/ Take(w) \/ Call(w) \/ Send(w) \/ Await(w)

(* The process: it answers in order, or dies.                               *)
Answer(w, p) ==
    /\ Alive(w, p)
    /\ inbox[w][p] # <<>>
    /\ inbox' = [inbox EXCEPT ![w][p] = Tail(@)]
    /\ outbox' = [outbox EXCEPT ![w][p] = Append(@, Head(inbox[w][p]))]
    /\ UNCHANGED <<pool, disabled, proc, reaping, life, deaths, thread, ctor, closer>>

Die(w, p) ==
    /\ Alive(w, p)
    /\ deaths < MaxDeaths
    /\ deaths' = deaths + 1
    /\ life' = [life EXCEPT ![w][p] = "dead"]
    /\ UNCHANGED <<pool, disabled, proc, reaping, inbox, outbox, thread, ctor, closer>>

-----------------------------------------------------------------------------
(* The constructor and the user                                             *)

(* One slot after the other: its thread is started, then listed.            *)
StartThread ==
    /\ ctor \in Slots
    /\ at[ctor] = "unborn"
    /\ Goes(ctor, "start")
    /\ UNCHANGED <<pool, worker, job, mine, ctor, closer>>

ListThread ==
    /\ ctor \in Slots
    /\ at[ctor] # "unborn"
    /\ listed' = listed \cup {ctor}
    /\ ctor' = ctor + 1
    /\ UNCHANGED <<queue, future, closed, cancelling, complete, ready, worker,
                   thread, closer>>

Constructed == ctor = NSlots + 1 /\ \A w \in Slots : ready[w] = "ok"

(* The pool belongs to the user once every slot has reported that it is up  *)
(* and the constructor has not given up before.                             *)
Submit(q) ==
    /\ Constructed /\ closer["ctor"].step = "none"
    /\ ~closed
    /\ future[q].state = "none" /\ \A r \in Requests : r < q => future[r].state # "none"
    /\ queue' = Append(queue, q)
    /\ future' = [future EXCEPT ![q].state = "queued"]
    /\ UNCHANGED <<closed, cancelling, complete, listed, ready, worker, thread, ctor, closer>>

-----------------------------------------------------------------------------
(* close                                                                    *)

MayClose(c) ==
    \/ c = "auto"
    \/ /\ c \in {"user", "abort"}
       /\ Constructed /\ closer["ctor"].step = "none"
       /\ \A d \in {"user", "abort"} : closer[d].step = "none"
    \/ c = "ctor" /\ ctor = NSlots + 1 /\ ~Constructed

At(c, step) == closer' = [closer EXCEPT ![c].step = step]

BeginClose(c) ==
    /\ closer[c].step = "none"
    /\ MayClose(c)
    /\ cancelling' = (cancelling \/ Cancels(c))
    /\ closed' = TRUE
    /\ closer' = [closer EXCEPT ![c] =
                    [step |-> IF Cancels(c) THEN "cancel" ELSE IF closed THEN "wait" ELSE "tell",
                     owns |-> ~closed, kept |-> 0, joins |-> {}, timedOut |-> FALSE]]
    /\ UNCHANGED <<queue, future, complete, listed, ready, worker, thread, ctor>>

\* Mutant: a request taken out of the queue is thrown away.
CancelledNone(q) == future

Cancelled(q) == [future EXCEPT ![q].state = "cancelled"]

\* n sentinels for the queue.
Sentinels(n) == [i \in 1..n |-> 0]

(* _request_cancel_pending: the queue is emptied while the slots may take   *)
(* from it as well, its futures are cancelled, its sentinels put back;      *)
CancelQueue(c) ==
    /\ closer[c].step = "cancel"
    /\ \/ /\ queue # <<>> /\ Head(queue) # 0
          /\ queue' = Tail(queue)
          /\ future' = Cancelled(Head(queue))
          /\ UNCHANGED closer
       \/ /\ queue # <<>> /\ Head(queue) = 0
          /\ queue' = Tail(queue)
          /\ closer' = [closer EXCEPT ![c].kept = @ + 1]
          /\ UNCHANGED future
       \/ /\ queue = <<>>
          /\ queue' = Sentinels(closer[c].kept)
          /\ closer' = [closer EXCEPT ![c].step = "disable", ![c].kept = 0]
          /\ UNCHANGED future
    /\ UNCHANGED <<closed, cancelling, complete, listed, ready, worker, thread, ctor>>

(* and the workers are disabled one after the other, each with its process  *)
(* killed if it is spawned already and left to be reaped. A worker that is  *)
(* disabled already has no process to lose.                                 *)
Disable(c) ==
    /\ closer[c].step = "disable"
    /\ \/ \E w \in Slots \ disabled :
             /\ \A v \in Slots : v < w => v \in disabled
             /\ disabled' = disabled \cup {w}
             /\ proc' = [proc EXCEPT ![w] = 0]
             /\ reaping' = [reaping EXCEPT ![w] = @ \cup ({proc[w]} \ {0})]
             /\ life' = IF Alive(w, proc[w]) THEN [life EXCEPT ![w][proc[w]] = "dead"]
                        ELSE life
             /\ UNCHANGED closer
       \/ /\ disabled = Slots
          /\ At(c, IF closer[c].timedOut THEN "reap"
                   ELSE IF closer[c].owns THEN "tell" ELSE "wait")
          /\ UNCHANGED <<disabled, proc, reaping, life>>
    /\ UNCHANGED <<pool, inbox, outbox, deaths, thread, ctor>>

LiveThreads == {w \in listed : at[w] # "over"}

(* One sentinel for every live thread that is listed.                       *)
Tell(c) ==
    /\ closer[c].step = "tell"
    /\ queue' = queue \o Sentinels(Cardinality(LiveThreads))
    /\ closer' = [closer EXCEPT ![c].step = "join", ![c].joins = LiveThreads]
    /\ UNCHANGED <<future, closed, cancelling, complete, listed, ready, worker, thread, ctor>>

(* These threads are awaited; a deadline, which only a cancelling close     *)
(* has, cancels again and is remembered.                                    *)
Join(c) ==
    /\ closer[c].step = "join"
    /\ LET late == {w \in closer[c].joins : at[w] # "over"} IN
       \/ late = {} /\ At(c, "reap") /\ UNCHANGED cancelling
       \/ /\ late # {} /\ Cancels(c)
          /\ cancelling' = TRUE
          /\ closer' = [closer EXCEPT ![c].step = "cancel", ![c].timedOut = TRUE]
    /\ UNCHANGED <<queue, future, closed, complete, listed, ready, worker, thread, ctor>>

(* What is left is killed: the processes to be reaped, by a cancelling      *)
(* close, of which one that is not spawned yet cannot be; or, by the other, *)
(* also the current ones.                                                   *)
Reap(c) ==
    /\ closer[c].step = "reap"
    /\ LET doomed(w) == reaping[w] \cup (IF Cancels(c) THEN {} ELSE {proc[w]} \ {0})
       IN
       /\ life' = [w \in Slots |-> [p \in Procs |->
                     IF p \in doomed(w) /\ life[w][p] = "alive" THEN "dead" ELSE life[w][p]]]
       /\ reaping' = [w \in Slots |-> Unborn(w)]
       /\ proc' = IF Cancels(c) THEN proc ELSE [w \in Slots |-> 0]
       /\ closer' = [closer EXCEPT ![c].step = "done",
                       ![c].timedOut = @ \/ (Cancels(c) /\ \E w \in Slots : Unborn(w) # {})]
    /\ complete' = TRUE
    /\ UNCHANGED <<queue, future, closed, cancelling, listed, ready, disabled,
                   inbox, outbox, deaths, thread, ctor>>

(* A close that comes second waits for the first one.                       *)
Wait(c) ==
    /\ closer[c].step = "wait"
    /\ \/ complete /\ At(c, "done")
       \/ /\ ~complete /\ Cancels(c)
          /\ closer' = [closer EXCEPT ![c].step = "done", ![c].timedOut = TRUE]
    /\ UNCHANGED <<pool, worker, thread, ctor>>

CloseStep(c) == CancelQueue(c) \/ Disable(c) \/ Tell(c) \/ Join(c) \/ Reap(c) \/ Wait(c)

Next ==
    \/ StartThread \/ ListThread
    \/ \E w \in Slots : SlotStep(w)
    \/ \E w \in Slots, p \in Procs : Answer(w, p) \/ Die(w, p)
    \/ \E q \in Requests : Submit(q)
    \/ \E c \in Closers : BeginClose(c) \/ CloseStep(c)

(* Threads run and deadlines pass: a slot's thread always comes on.         *)
Fairness ==
    /\ WF_vars(StartThread \/ ListThread)
    /\ \A w \in Slots : WF_vars(SlotStep(w))
    /\ \A c \in Closers : WF_vars(CloseStep(c))

Spec == Init /\ [][Next]_vars /\ Fairness

-----------------------------------------------------------------------------
(* Requests fare as FuturePool promises, whatever timed out, died or was    *)
(* restarted before and whoever closes the pool meanwhile (engine_pool.py   *)
(* 457, 859, 902, 926).                                                     *)
Promise == INSTANCE FuturePool WITH Capacity <- NSlots

FuturesAsPromised == Promise!Spec

(* In particular an answered request got the answer to itself.              *)
OwnAnswer == \A q \in Requests : future[q].state = "answered" => future[q].value = q

(* When the close that owns the cleanup returns without a timeout, no       *)
(* process lives, and none comes up afterwards (engine_pool.py 312, 735,    *)
(* 762, 920); but for one that its thread is about to stop itself, when the *)
(* cleanup came between the start of that thread and its listing (828).     *)
NoneLeft ==
    (\E c \in Closers : closer[c].owns /\ closer[c].step = "done" /\ ~closer[c].timedOut)
       => \A w \in Slots, p \in Procs :
             Alive(w, p) => at[w] = "stop" /\ mine[w] = p

(* Every request that was accepted is answered, fails or is cancelled,      *)
(* closing or not (engine_pool.py 888, 928).                                *)
FuturesSettle ==
    \A q \in Requests : future[q].state # "none" ~> future[q].state \in Settled
=============================================================================
