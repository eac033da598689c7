-------------------------- MODULE RunStore_proofs ---------------------------
(***************************************************************************)
(* The promises of the run store, for any number of runs and writers, any  *)
(* retention and any damage.                                               *)
(*                                                                         *)
(* What a save relies on between two of its changes on disk is true when   *)
(* it takes the lock and stays so while it holds it: nobody else writes,   *)
(* and damage from outside only makes files unreadable. A death between    *)
(* two changes leaves a store of which the same holds with nobody inside.  *)
(***************************************************************************)
EXTENDS RunStore, Extremes

HasLineage(r) == meta[r].parent \/ meta[r].file = "corrupt" \/ r \in quarantined

\* Retention may evict the run: it has no star, or a sidecar made anew hides it.
Fair(r) == ~asked[r] \/ r \in rewritten

\* The star last asked for is in the sidecar, or the sidecar is known to be lost.
StarFound(r) == asked[r] => meta[r].starred \/ MayHaveHadStar(r) \/ r \in rewritten

\* The younger artifacts that the pass of a writer will leave.
Survivors(w, r) == {s \in Runs : s > r /\ artifact[s] # "absent" /\ s \notin victims[w]}

\* What a writer relies on between two changes on disk.
Relies(w) ==
    /\ pc[w] # "idle" => lock = w
    /\ pc[w] \in {"temp", "publish"} => artifact[job[w]] = "absent"
    /\ pc[w] = "publish" /\ job[w] \in Reruns => HasLineage(job[w])
    /\ pc[w] \notin {"evict", "evictMeta"} => victims[w] = {}
    /\ \A r \in victims[w] : Fair(r)
    /\ pc[w] = "evictMeta" => victims[w] # {} /\ ~Readable(Max(victims[w]))
    /\ pc[w] \in {"evict", "evictMeta"} =>
          /\ \A r \in victims[w] : Cardinality(Survivors(w, r)) >= Keep
          /\ Cardinality(Evictable \ victims[w]) <= Keep

IndInv ==
    /\ TypeOK
    /\ LineageFirst
    /\ \A r \in Runs : StarFound(r)
    /\ \A w \in Writers : Relies(w)

---------------------------------------------------------------------------
\* An empty store needs nothing.
THEOREM InitIndInv == Init => IndInv
  BY StoreAssumption DEF Init, IndInv, TypeOK, LineageFirst, StarFound, Relies, HasLineage, Fair,
     Readable, MayHaveHadStar, Runs, Sidecar, NoMeta

\* Writers do not bear the names of the other marks.
LEMMA WritersAreNoMarks == "absent" \notin Writers /\ "corrupt" \notin Writers /\ "free" \notin Writers
  BY StoreAssumption

\* Any part of the runs is finite, and has at most the members of a larger part.
LEMMA RunsFinite ==
    ASSUME NEW S, S \subseteq Runs, NEW T, T \subseteq S
    PROVE  IsFiniteSet(S) /\ Cardinality(S) \in Nat /\ Cardinality(T) \in Nat
           /\ Cardinality(T) <= Cardinality(S)
  <1>1. IsFiniteSet(Runs)
    BY StoreAssumption, FS_Interval DEF Runs
  <1>2. IsFiniteSet(S)
    BY <1>1, FS_Subset
  <1>3. IsFiniteSet(T) /\ Cardinality(T) <= Cardinality(S)
    BY <1>2, FS_Subset
  <1> QED
    BY <1>2, <1>3, FS_CardinalityType

\* A set of runs that is not empty has a youngest ...
LEMMA Youngest ==
    ASSUME NEW S, S \subseteq Runs, S # {}
    PROVE  Max(S) \in S /\ \A r \in S : Max(S) >= r
  BY StoreAssumption, MaxIsLargest DEF Runs

\* ... and an oldest, which retention takes first.
LEMMA Oldest ==
    ASSUME NEW S, S \subseteq Runs, S # {}
    PROVE  Min(S) \in S /\ \A r \in S : Min(S) <= r
  BY StoreAssumption, MinIsSmallest DEF Runs

\* Retention leaves at most Keep of the runs it looked at ...
LEMMA FewAreKept ==
    ASSUME NEW E, E \subseteq Runs
    PROVE  Cardinality(E \ BeyondKeep(E)) <= Keep
  <1> DEFINE K == E \ BeyondKeep(E)
  <1>1. CASE K = {}
    BY <1>1, FS_EmptySet, StoreAssumption
  <1>2. CASE K # {}
    <2> DEFINE m == Min(K)
    <2>1. m \in K /\ \A r \in K : m <= r
      <3> HIDE DEF K
      <3>1. K \subseteq Runs
        BY DEF K
      <3> QED
        BY <1>2, <3>1, Oldest
    <2>2. m \in E /\ m \in Runs /\ Cardinality(NewerIn(m, E)) < Keep
      <3>1. m \in E /\ ~ (Cardinality(NewerIn(m, E)) >= Keep)
        BY <2>1 DEF BeyondKeep
      <3>2. NewerIn(m, E) \subseteq E
        BY DEF NewerIn
      <3>3. Cardinality(NewerIn(m, E)) \in Nat
        BY <3>2, RunsFinite
      <3> QED
        BY <3>1, <3>3, StoreAssumption
    <2> HIDE DEF m
    <2>3. K \subseteq NewerIn(m, E) \cup {m}
      <3> SUFFICES ASSUME NEW r \in K, r # m PROVE r \in NewerIn(m, E)
        OBVIOUS
      <3>1. r \in E /\ r \in Runs /\ m <= r
        BY <2>1
      <3> QED
        BY <2>2, <3>1 DEF NewerIn, Runs
    <2>4. NewerIn(m, E) \subseteq Runs /\ NewerIn(m, E) \cup {m} \subseteq Runs
      BY <2>2 DEF NewerIn
    <2>5. Cardinality(NewerIn(m, E) \cup {m}) <= Cardinality(NewerIn(m, E)) + 1
      <3>1. IsFiniteSet(NewerIn(m, E)) /\ Cardinality(NewerIn(m, E)) \in Nat
        BY <2>4, RunsFinite
      <3>2. Cardinality(NewerIn(m, E) \cup {m}) =
              IF m \in NewerIn(m, E) THEN Cardinality(NewerIn(m, E))
              ELSE Cardinality(NewerIn(m, E)) + 1
        BY <3>1, FS_AddElement, Zenon
      <3> QED
        BY <3>1, <3>2
    <2> HIDE DEF K
    <2>6. Cardinality(K) <= Cardinality(NewerIn(m, E) \cup {m})
          /\ Cardinality(K) \in Nat /\ Cardinality(NewerIn(m, E) \cup {m}) \in Nat
          /\ Cardinality(NewerIn(m, E)) \in Nat
      BY <2>3, <2>4, RunsFinite
    <2> QED
      BY <2>2, <2>5, <2>6, StoreAssumption DEF K
  <1> QED
    BY <1>1, <1>2

\* ... and at least Keep younger than any it gives up.
LEMMA YoungerAreKept ==
    ASSUME NEW E, E \subseteq Runs, NEW r \in BeyondKeep(E)
    PROVE  Cardinality({s \in E : s > r /\ s \notin BeyondKeep(E)}) >= Keep
  <1> DEFINE B == BeyondKeep(E)
             m == Max(B)
             L == {s \in E : s > r /\ s \notin B}
  <1>1. B \subseteq E /\ B # {}
    BY DEF BeyondKeep
  <1>2. m \in B /\ \A s \in B : m >= s
    <2> HIDE DEF B
    <2> QED
      BY <1>1, Youngest
  <1>3. Cardinality(NewerIn(m, E)) >= Keep
    BY <1>2 DEF BeyondKeep
  <1>4. NewerIn(m, E) \subseteq L /\ L \subseteq Runs
    <2>1. r \in B
      OBVIOUS
    <2> HIDE DEF B, m
    <2>2. r \in Runs /\ m \in Runs /\ E \subseteq Runs
      BY <1>1, <1>2, <2>1
    <2>3. r \in Int /\ m \in Int /\ E \subseteq Int /\ m >= r
      BY <1>2, <2>1, <2>2 DEF Runs
    <2>4. ASSUME NEW s \in NewerIn(m, E) PROVE s \in L
      <3>1. s \in E /\ s > m
        BY DEF NewerIn
      <3>2. s \notin B
        BY <1>2, <2>3, <3>1
      <3> QED
        BY <2>3, <3>1, <3>2
    <2>5. L \subseteq Runs
      OBVIOUS
    <2> QED
      BY <2>4, <2>5
  <1> HIDE DEF B, m, L
  <1>5. Cardinality(NewerIn(m, E)) <= Cardinality(L)
        /\ Cardinality(L) \in Nat /\ Cardinality(NewerIn(m, E)) \in Nat
    BY <1>4, RunsFinite
  <1> QED
    BY <1>3, <1>5, StoreAssumption DEF L, B

---------------------------------------------------------------------------
\* Whoever is inside holds the lock; the others are outside.
LEMMA OnlyHolderInside ==
    ASSUME IndInv, NEW w \in Writers, lock \in {w, "free"}, NEW v \in Writers, v # w
    PROVE  pc[v] = "idle"
  <1>1. pc[v] # "idle" => lock = v
    BY DEF IndInv, Relies
  <1> QED
    BY <1>1, WritersAreNoMarks

\* A writer that is outside relies on nothing.
LEMMA OutsiderRelies ==
    ASSUME IndInv, NEW v \in Writers, pc[v] = "idle", pc'[v] = "idle", victims'[v] = victims[v]
    PROVE  Relies(v)'
  <1>1. victims[v] = {}
    BY DEF IndInv, Relies
  <1> QED
    BY <1>1 DEF Relies

\* A sidecar that _write_meta_updates has written.
LEMMA MetaWritten ==
    ASSUME IndInv, NEW r \in Runs, NEW parent \in BOOLEAN, NEW starred \in BOOLEAN,
           WriteMeta(r, parent, starred)
    PROVE  /\ meta' \in [Runs -> Sidecar]
           /\ meta'[r] = [file |-> "ok", parent |-> parent, starred |-> starred]
           /\ \A s \in Runs : s # r => meta'[s] = meta[s]
           /\ \A s \in Runs : meta'[s].file # "ok" => ~meta'[s].parent /\ ~meta'[s].starred
           /\ rewritten' \subseteq Runs
           /\ rewritten \subseteq rewritten'
           /\ meta[r].file # "ok" /\ r \in quarantined => r \in rewritten'
           /\ meta[r].file # "corrupt"
  <1>1. meta \in [Runs -> Sidecar] /\ rewritten \subseteq Runs
        /\ \A s \in Runs : meta[s].file # "ok" => ~meta[s].parent /\ ~meta[s].starred
    BY DEF IndInv, TypeOK
  <1>2. meta' = [meta EXCEPT ![r] = [file |-> "ok", parent |-> parent, starred |-> starred]]
    BY DEF WriteMeta, Merged
  <1>3. [file |-> "ok", parent |-> parent, starred |-> starred] \in Sidecar
    BY DEF Sidecar
  <1>4. meta' \in [Runs -> Sidecar]
    BY <1>1, <1>2, <1>3
  <1>5. meta'[r] = [file |-> "ok", parent |-> parent, starred |-> starred]
        /\ \A s \in Runs : s # r => meta'[s] = meta[s]
    BY <1>1, <1>2
  <1>6. \A s \in Runs : meta'[s].file # "ok" => ~meta'[s].parent /\ ~meta'[s].starred
    BY <1>1, <1>5
  <1>7. meta[r].file \in {"absent", "ok", "corrupt"} /\ meta[r].file # "corrupt"
    BY <1>1 DEF Sidecar, WriteMeta
  <1> QED
    BY <1>1, <1>4, <1>5, <1>6, <1>7 DEF WriteMeta

\* Sidecars that were renamed away.
LEMMA SidecarsMoved ==
    ASSUME IndInv, NEW moved \in SUBSET CorruptSidecars, Quarantine(moved)
    PROVE  /\ meta' \in [Runs -> Sidecar]
           /\ \A s \in Runs : meta'[s].file # "ok" => ~meta'[s].parent /\ ~meta'[s].starred
           /\ quarantined' \subseteq Runs
           /\ quarantined \subseteq quarantined'
           /\ \A s \in Runs : \/ meta'[s] = meta[s] /\ (s \in quarantined' <=> s \in quarantined)
                              \/ /\ meta[s].file = "corrupt" /\ s \in quarantined'
                                 /\ meta'[s].file = "absent" /\ ~meta'[s].starred
  <1>1. meta \in [Runs -> Sidecar] /\ quarantined \subseteq Runs
        /\ \A s \in Runs : meta[s].file # "ok" => ~meta[s].parent /\ ~meta[s].starred
    BY DEF IndInv, TypeOK
  <1>2. moved \subseteq Runs /\ \A s \in moved : meta[s].file = "corrupt"
    BY DEF CorruptSidecars
  <1>3. NoMeta \in Sidecar /\ NoMeta.file = "absent" /\ ~NoMeta.parent /\ ~NoMeta.starred
    BY DEF NoMeta, Sidecar
  <1>4. meta' = [r \in Runs |-> IF r \in moved THEN NoMeta ELSE meta[r]]
        /\ quarantined' = quarantined \cup moved
    BY DEF Quarantine
  <1>5. meta' \in [Runs -> Sidecar]
    BY <1>1, <1>3, <1>4
  <1>6. \A s \in Runs : meta'[s] = IF s \in moved THEN NoMeta ELSE meta[s]
    BY <1>4
  <1> QED
    BY <1>1, <1>2, <1>3, <1>4, <1>5, <1>6

\* Taking the lock for a run that has no artifact.
LEMMA ClaimKeeps ==
    ASSUME IndInv, NEW w \in Writers, NEW r \in Runs, Claim(w, r)
    PROVE  IndInv'
  <1>1. TypeOK'
    BY DEF Claim, IndInv, TypeOK
  <1>2. LineageFirst' /\ \A s \in Runs : StarFound(s)'
    BY DEF Claim, IndInv, LineageFirst, Readable, StarFound, MayHaveHadStar
  <1>3. pc'[w] = "temp" /\ lock' = w /\ artifact'[job'[w]] = "absent" /\ victims'[w] = victims[w]
    BY DEF Claim, IndInv, TypeOK
  <1>4. Relies(w)'
    BY <1>3 DEF Claim, IndInv, Relies, Fair
  <1>5. ASSUME NEW v \in Writers, v # w PROVE Relies(v)'
    <2>1. pc[v] = "idle"
      BY <1>5, OnlyHolderInside DEF Claim, LockFree
    <2> QED
      BY <1>5, <2>1, OutsiderRelies DEF Claim, IndInv, TypeOK
  <1> QED
    BY <1>1, <1>2, <1>4, <1>5 DEF IndInv

\* The lineage reaches the sidecar before there is an artifact to have one.
LEMMA WriteLineageKeeps ==
    ASSUME IndInv, NEW w \in Writers, WriteLineage(w)
    PROVE  IndInv'
  <1> DEFINE r == job[w]
  <1>1. r \in Runs /\ lock = w /\ artifact[r] = "absent" /\ meta[r].starred \in BOOLEAN
    BY DEF WriteLineage, IndInv, TypeOK, Relies, Sidecar
  <1>2. pc'[w] = "publish" /\ \A v \in Writers : v # w => pc'[v] = pc[v]
    BY DEF WriteLineage, IndInv, TypeOK
  <1>3. /\ TypeOK'
        /\ rewritten \subseteq rewritten'
        /\ \A s \in Runs : s # r => meta'[s] = meta[s]
        /\ r \in Reruns => meta'[r].parent
        /\ \/ meta'[r] = meta[r]
           \/ /\ meta'[r].starred = meta[r].starred /\ meta[r].file # "corrupt"
              /\ meta[r].file # "ok" /\ r \in quarantined => r \in rewritten'
    <2>1. CASE r \in Reruns
      <3>1. WriteMeta(r, TRUE, meta[r].starred)
        BY <2>1 DEF WriteLineage
      <3> HIDE DEF r
      <3>2. /\ meta' \in [Runs -> Sidecar]
            /\ meta'[r] = [file |-> "ok", parent |-> TRUE, starred |-> meta[r].starred]
            /\ \A s \in Runs : s # r => meta'[s] = meta[s]
            /\ \A s \in Runs : meta'[s].file # "ok" => ~meta'[s].parent /\ ~meta'[s].starred
            /\ rewritten' \subseteq Runs
            /\ rewritten \subseteq rewritten'
            /\ meta[r].file # "ok" /\ r \in quarantined => r \in rewritten'
            /\ meta[r].file # "corrupt"
        BY <1>1, <3>1, MetaWritten
      <3>3. TypeOK'
        BY <3>2 DEF WriteLineage, IndInv, TypeOK
      <3> QED
        BY <3>2, <3>3
    <2>2. CASE r \notin Reruns
      <3>1. UNCHANGED <<meta, rewritten>>
        BY <2>2 DEF WriteLineage
      <3> QED
        BY <2>2, <3>1 DEF WriteLineage, IndInv, TypeOK
    <2> QED
      BY <2>1, <2>2
  <1> HIDE DEF r
  <1>4. LineageFirst'
    <2> SUFFICES ASSUME NEW s \in Reruns, Readable(s)' PROVE HasLineage(s)'
      BY DEF LineageFirst, HasLineage
    <2>1. s \in Runs /\ Readable(s)
      BY StoreAssumption DEF Readable, WriteLineage, Runs
    <2>2. s # r
      BY <1>1, <2>1, WritersAreNoMarks DEF Readable
    <2> QED
      BY <1>3, <2>1, <2>2 DEF IndInv, LineageFirst, HasLineage, WriteLineage
  <1>5. \A s \in Runs : StarFound(s)'
    <2> SUFFICES ASSUME NEW s \in Runs PROVE StarFound(s)'
      OBVIOUS
    <2>1. StarFound(s) /\ UNCHANGED <<asked, quarantined>>
      BY DEF IndInv, WriteLineage
    <2> QED
      BY <1>1, <1>3, <2>1 DEF StarFound, MayHaveHadStar
  <1>6. Relies(w)'
    BY <1>1, <1>2, <1>3 DEF WriteLineage, IndInv, Relies, Fair, HasLineage, r
  <1>7. ASSUME NEW v \in Writers, v # w PROVE Relies(v)'
    BY <1>1, <1>2, <1>3, <1>7, OnlyHolderInside, OutsiderRelies DEF WriteLineage
  <1> QED
    BY <1>3, <1>4, <1>5, <1>6, <1>7 DEF IndInv

\* The artifact appears, and whoever it is of had no other.
LEMMA PublishKeeps ==
    ASSUME IndInv, NEW w \in Writers, Publish(w)
    PROVE  IndInv'
  <1>1. job[w] \in Runs /\ lock = w /\ (job[w] \in Reruns => HasLineage(job[w])) /\ victims[w] = {}
    BY DEF Publish, IndInv, TypeOK, Relies
  <1>2. pc'[w] = "scan" /\ \A v \in Writers : v # w => pc'[v] = pc[v]
    BY DEF Publish, IndInv, TypeOK
  <1>3. TypeOK'
    BY DEF Publish, IndInv, TypeOK
  <1>4. LineageFirst'
    <2>1. \A s \in Runs : s # job[w] => artifact'[s] = artifact[s]
      BY DEF Publish, IndInv, TypeOK
    <2>2. Reruns \subseteq Runs
      BY StoreAssumption DEF Runs
    <2> QED
      BY <1>1, <2>1, <2>2 DEF Publish, IndInv, LineageFirst, HasLineage, Readable
  <1>5. \A s \in Runs : StarFound(s)'
    BY DEF Publish, IndInv, StarFound, MayHaveHadStar
  <1>6. Relies(w)'
    BY <1>1, <1>2 DEF Publish, Relies
  <1>7. ASSUME NEW v \in Writers, v # w PROVE Relies(v)'
    BY <1>1, <1>2, <1>7, OnlyHolderInside, OutsiderRelies DEF Publish
  <1> QED
    BY <1>3, <1>4, <1>5, <1>6, <1>7 DEF IndInv

\* Renaming a corrupt sidecar away hides no more than the damage did.
LEMMA MovedIsHarmless ==
    ASSUME IndInv, NEW moved \in SUBSET CorruptSidecars, Quarantine(moved),
           UNCHANGED <<asked, rewritten>>,
           \A r \in Runs : Readable(r)' => Readable(r)
    PROVE  /\ LineageFirst'
           /\ \A r \in Runs : StarFound(r)'
           /\ \A r \in Runs : MayHaveHadStar(r) => MayHaveHadStar(r)'
           /\ \A r \in Runs : ~MayHaveHadStar(r)' => meta'[r] = meta[r]
  <1> DEFINE SameOrMoved(s) ==
               \/ meta'[s] = meta[s] /\ (s \in quarantined' <=> s \in quarantined)
               \/ /\ meta[s].file = "corrupt" /\ s \in quarantined'
                  /\ meta'[s].file = "absent" /\ ~meta'[s].starred
  <1>1. \A s \in Runs : SameOrMoved(s)
    BY SidecarsMoved
  <1>2. Reruns \subseteq Runs
    BY StoreAssumption DEF Runs
  <1>3. LineageFirst'
    <2> SUFFICES ASSUME NEW s \in Reruns, Readable(s)' PROVE HasLineage(s)'
      BY DEF LineageFirst, HasLineage
    <2>1. s \in Runs /\ HasLineage(s)
      BY <1>2 DEF IndInv, LineageFirst, HasLineage
    <2> QED
      BY <1>1, <2>1 DEF HasLineage
  <1>4. \A s \in Runs : StarFound(s)'
    BY <1>1 DEF IndInv, StarFound, MayHaveHadStar
  <1> QED
    BY <1>1, <1>3, <1>4 DEF MayHaveHadStar

\* The pass condemns runs that have no star, and spares enough that are younger.
LEMMA ScanKeeps ==
    ASSUME IndInv, NEW w \in Writers, Scan(w)
    PROVE  IndInv'
  <1> DEFINE E == Evictable
             B == BeyondKeep(Evictable)
  <1>1. PICK moved \in SUBSET CorruptSidecars : Quarantine(moved)
    BY DEF Scan
  <1>2. UNCHANGED <<artifact, lock, job, asked, rewritten, damage>>
    BY DEF Scan
  <1>3. pc'[w] = "evict" /\ (\A v \in Writers : v # w => pc'[v] = pc[v])
        /\ victims'[w] = B /\ (\A v \in Writers : v # w => victims'[v] = victims[v])
    BY DEF Scan, IndInv, TypeOK
  <1>4. lock = w /\ lock' = w
    BY <1>2 DEF Scan, IndInv, Relies
  <1>5. E \subseteq Runs /\ B \subseteq E
    BY DEF Evictable, BeyondKeep
  <1>6. TypeOK'
    <2>1. /\ meta' \in [Runs -> Sidecar]
          /\ \A s \in Runs : meta'[s].file # "ok" => ~meta'[s].parent /\ ~meta'[s].starred
          /\ quarantined' \subseteq Runs
      BY <1>1, SidecarsMoved
    <2>2. pc' \in [Writers -> {"idle", "temp", "publish", "scan", "evict", "evictMeta"}]
          /\ victims' \in [Writers -> SUBSET Runs]
      <3> HIDE DEF E
      <3>1. B \subseteq Runs
        BY <1>5
      <3> HIDE DEF B
      <3>2. victims' = [victims EXCEPT ![w] = B] /\ pc' = [pc EXCEPT ![w] = "evict"]
        BY DEF Scan, B
      <3> QED
        BY <3>1, <3>2 DEF IndInv, TypeOK
    <2> QED
      BY <1>2, <2>1, <2>2 DEF IndInv, TypeOK
  <1>7. /\ LineageFirst'
        /\ \A r \in Runs : StarFound(r)'
        /\ \A r \in Runs : MayHaveHadStar(r) => MayHaveHadStar(r)'
        /\ \A r \in Runs : ~MayHaveHadStar(r)' => meta'[r] = meta[r]
    BY <1>1, <1>2, MovedIsHarmless DEF Readable
  <1>8. Relies(w)'
    <2>1. \A r \in B : Fair(r)'
      <3> SUFFICES ASSUME NEW r \in E PROVE Fair(r)'
        BY <1>5
      <3>1. r \in Runs /\ ~MayHaveHadStar(r) /\ ~meta[r].starred
        BY DEF Evictable
      <3>2. StarFound(r)
        BY <3>1 DEF IndInv
      <3> QED
        BY <1>2, <3>1, <3>2 DEF StarFound, Fair
    <2>2. E' \subseteq E
      BY <1>2, <1>7 DEF Evictable, Readable
    <2> HIDE DEF E
    <2>3. Cardinality(E' \ victims'[w]) <= Keep
      <3>1. Cardinality(E \ B) <= Keep
        BY <1>5, FewAreKept DEF E
      <3>2. E' \ B \subseteq E \ B /\ E \ B \subseteq Runs
        BY <1>5, <2>2
      <3> HIDE DEF B
      <3>3. Cardinality(E' \ B) <= Cardinality(E \ B) /\ Cardinality(E' \ B) \in Nat
            /\ Cardinality(E \ B) \in Nat
        BY <3>2, RunsFinite
      <3> QED
        BY <1>3, <3>1, <3>3, StoreAssumption
    <2>4. ASSUME NEW r \in B PROVE Cardinality(Survivors(w, r)') >= Keep
      <3> DEFINE L == {s \in E : s > r /\ s \notin B}
                 K == Survivors(w, r)'
      <3>1. Cardinality(L) >= Keep
        BY <1>5, YoungerAreKept DEF E
      <3>2. \A s \in E : artifact[s] # "absent"
        BY WritersAreNoMarks DEF E, Evictable, Readable
      <3>3. L \subseteq K /\ K \subseteq Runs
        BY <1>2, <1>3, <1>5, <3>2 DEF Survivors
      <3> HIDE DEF B, L, K
      <3>4. Cardinality(L) <= Cardinality(K) /\ Cardinality(L) \in Nat /\ Cardinality(K) \in Nat
        BY <3>3, RunsFinite
      <3> QED
        BY <3>1, <3>4, StoreAssumption DEF K
    <2> HIDE DEF B
    <2> QED
      BY <1>3, <1>4, <2>1, <2>3, <2>4 DEF Relies, E
  <1>9. ASSUME NEW v \in Writers, v # w PROVE Relies(v)'
    BY <1>3, <1>4, <1>9, OnlyHolderInside, OutsiderRelies
  <1> QED
    BY <1>6, <1>7, <1>8, <1>9 DEF IndInv

\* Eviction goes on as planned: nobody adds a victim's rival or takes a survivor.
LEMMA PlanStands ==
    ASSUME IndInv, NEW w \in Writers, pc[w] \in {"evict", "evictMeta"},
           victims'[w] \subseteq victims[w],
           \A r \in Runs : r \in Evictable' /\ r \notin victims'[w]
                              => r \in Evictable /\ r \notin victims[w],
           \A s \in Runs : artifact[s] # "absent" /\ s \notin victims[w] => artifact'[s] # "absent"
    PROVE  /\ \A r \in victims'[w] : Cardinality(Survivors(w, r)') >= Keep
           /\ Cardinality(Evictable' \ victims'[w]) <= Keep
  <1>1. /\ \A r \in victims[w] : Cardinality(Survivors(w, r)) >= Keep
        /\ Cardinality(Evictable \ victims[w]) <= Keep
    BY DEF IndInv, Relies
  <1>2. ASSUME NEW r \in victims'[w] PROVE Cardinality(Survivors(w, r)') >= Keep
    <2> DEFINE L == Survivors(w, r)
               K == Survivors(w, r)'
    <2>1. Cardinality(L) >= Keep
      BY <1>1
    <2>2. L \subseteq K /\ K \subseteq Runs
      BY DEF Survivors
    <2> HIDE DEF L, K
    <2>3. Cardinality(L) <= Cardinality(K) /\ Cardinality(L) \in Nat /\ Cardinality(K) \in Nat
      BY <2>2, RunsFinite
    <2> QED
      BY <2>1, <2>3, StoreAssumption DEF K
  <1>3. Cardinality(Evictable' \ victims'[w]) <= Keep
    <2> DEFINE L == Evictable' \ victims'[w]
               K == Evictable \ victims[w]
    <2>1. L \subseteq K /\ K \subseteq Runs
      <3>1. Evictable' \subseteq Runs /\ Evictable \subseteq Runs
        BY DEF Evictable
      <3> HIDE DEF Evictable
      <3> QED
        BY <3>1
    <2> HIDE DEF L, K
    <2>2. Cardinality(L) <= Cardinality(K) /\ Cardinality(L) \in Nat /\ Cardinality(K) \in Nat
      BY <2>1, RunsFinite
    <2> QED
      BY <1>1, <2>2, StoreAssumption DEF L, K
  <1> QED
    BY <1>2, <1>3

\* The artifact of a victim goes; its sidecar is still there.
LEMMA EvictKeeps ==
    ASSUME IndInv, NEW w \in Writers, Evict(w)
    PROVE  /\ IndInv'
           /\ \A r \in Runs : artifact'[r] # artifact[r] => r \in victims[w]
           /\ \A r \in victims[w] : Fair(r) /\ Cardinality(Survivors(w, r)) >= Keep
  <1> DEFINE m == Max(victims[w])
  <1>1. pc[w] = "evict" /\ victims[w] # {} /\ victims[w] \subseteq Runs /\ lock = w
        /\ (\A r \in victims[w] : Fair(r) /\ Cardinality(Survivors(w, r)) >= Keep)
        /\ victims' = victims
    BY DEF Evict, IndInv, TypeOK, Relies
  <1>2. m \in victims[w]
    BY <1>1, Youngest
  <1> HIDE DEF m
  <1>3. pc'[w] = "evictMeta" /\ \A v \in Writers : v # w => pc'[v] = pc[v]
    BY DEF Evict, IndInv, TypeOK
  <1>4. artifact'[m] = "absent" /\ \A r \in Runs : r # m => artifact'[r] = artifact[r]
    BY <1>1, <1>2 DEF Evict, IndInv, TypeOK, m
  <1>5. TypeOK'
    BY DEF Evict, IndInv, TypeOK
  <1>6. \A r \in Runs : Readable(r)' => Readable(r) /\ r # m
    BY <1>4, WritersAreNoMarks DEF Readable
  <1>7. LineageFirst' /\ \A s \in Runs : StarFound(s)'
    <2>1. Reruns \subseteq Runs
      BY StoreAssumption DEF Runs
    <2> QED
      BY <1>6, <2>1 DEF Evict, IndInv, LineageFirst, StarFound, MayHaveHadStar
  <1>8. Relies(w)'
    <2>1. /\ \A r \in victims'[w] : Cardinality(Survivors(w, r)') >= Keep
          /\ Cardinality(Evictable' \ victims'[w]) <= Keep
      <3>1. \A r \in Runs : r \in Evictable' => r \in Evictable
        BY <1>6 DEF Evict, Evictable, MayHaveHadStar
      <3>2. \A s \in Runs : artifact[s] # "absent" /\ s \notin victims[w] => artifact'[s] # "absent"
        BY <1>2, <1>4
      <3> QED
        BY <1>1, <3>1, <3>2, PlanStands
    <2>2. ~Readable(Max(victims[w]))'
      BY <1>1, <1>4, WritersAreNoMarks DEF Readable, m
    <2> QED
      BY <1>1, <1>3, <2>1, <2>2 DEF Evict, Relies, Fair
  <1>9. ASSUME NEW v \in Writers, v # w PROVE Relies(v)'
    BY <1>1, <1>3, <1>9, OnlyHolderInside, OutsiderRelies
  <1> QED
    BY <1>1, <1>2, <1>4, <1>5, <1>7, <1>8, <1>9 DEF IndInv

\* The sidecar of a run that has no artifact any more goes as well.
LEMMA EvictMetaKeeps ==
    ASSUME IndInv, NEW w \in Writers, EvictMeta(w)
    PROVE  IndInv'
  <1> DEFINE m == Max(victims[w])
  <1>1. pc[w] = "evictMeta" /\ victims[w] # {} /\ victims[w] \subseteq Runs /\ lock = w
        /\ (\A r \in victims[w] : Fair(r)) /\ ~Readable(m)
        /\ UNCHANGED <<artifact, quarantined, lock, job, asked, rewritten, damage>>
    BY DEF EvictMeta, IndInv, TypeOK, Relies
  <1>2. m \in victims[w]
    BY <1>1, Youngest
  <1>3. pc'[w] = "evict" /\ (\A v \in Writers : v # w => pc'[v] = pc[v])
        /\ victims'[w] = victims[w] \ {m} /\ (\A v \in Writers : v # w => victims'[v] = victims[v])
        /\ pc' \in [Writers -> {"idle", "temp", "publish", "scan", "evict", "evictMeta"}]
        /\ victims' \in [Writers -> SUBSET Runs]
    <2> HIDE DEF m
    <2>1. victims' = [victims EXCEPT ![w] = @ \ {m}] /\ pc' = [pc EXCEPT ![w] = "evict"]
      BY DEF EvictMeta, m
    <2> QED
      BY <2>1 DEF IndInv, TypeOK
  <1>4. meta' = [meta EXCEPT ![m] = NoMeta]
    BY DEF EvictMeta
  <1> HIDE DEF m
  <1>5. meta'[m] = NoMeta /\ (\A r \in Runs : r # m => meta'[r] = meta[r])
        /\ meta' \in [Runs -> Sidecar] /\ NoMeta.file = "absent" /\ ~NoMeta.parent /\ ~NoMeta.starred
    <2>1. NoMeta \in Sidecar /\ NoMeta.file = "absent" /\ ~NoMeta.parent /\ ~NoMeta.starred
      BY DEF NoMeta, Sidecar
    <2> QED
      BY <1>1, <1>2, <1>4, <2>1 DEF IndInv, TypeOK
  <1>6. TypeOK'
    BY <1>1, <1>3, <1>5 DEF IndInv, TypeOK
  <1>7. LineageFirst'
    <2>1. Reruns \subseteq Runs
      BY StoreAssumption DEF Runs
    <2> QED
      BY <1>1, <1>5, <2>1 DEF IndInv, LineageFirst, Readable
  <1>8. \A s \in Runs : StarFound(s)'
    BY <1>1, <1>2, <1>5 DEF IndInv, StarFound, MayHaveHadStar, Fair
  <1>9. Relies(w)'
    <2>1. /\ \A r \in victims'[w] : Cardinality(Survivors(w, r)') >= Keep
          /\ Cardinality(Evictable' \ victims'[w]) <= Keep
      <3>1. \A r \in Runs : r \in Evictable' => r \in Evictable /\ r # m
        BY <1>1, <1>5 DEF Evictable, MayHaveHadStar, Readable
      <3> QED
        BY <1>1, <1>3, <3>1, PlanStands
    <2> QED
      BY <1>1, <1>3, <2>1 DEF Relies, Fair
  <1>10. ASSUME NEW v \in Writers, v # w PROVE Relies(v)'
    BY <1>1, <1>3, <1>10, OnlyHolderInside, OutsiderRelies
  <1> QED
    BY <1>6, <1>7, <1>8, <1>9, <1>10 DEF IndInv

\* A save that ends, in whatever way, leaves the store to the next one.
LEMMA ReleaseKeeps ==
    ASSUME IndInv, NEW w \in Writers, pc[w] # "idle", Release(w),
           UNCHANGED <<artifact, meta, quarantined, job, asked, rewritten, damage>>
    PROVE  IndInv'
  <1>1. lock = w
    BY DEF IndInv, Relies
  <1>2. pc'[w] = "idle" /\ (\A v \in Writers : v # w => pc'[v] = pc[v])
        /\ victims'[w] = {} /\ (\A v \in Writers : v # w => victims'[v] = victims[v])
    BY DEF Release, IndInv, TypeOK
  <1>3. TypeOK'
    BY DEF Release, IndInv, TypeOK
  <1>4. LineageFirst' /\ \A s \in Runs : StarFound(s)'
    BY DEF IndInv, LineageFirst, Readable, StarFound, MayHaveHadStar
  <1>5. Relies(w)'
    BY <1>2 DEF Relies
  <1>6. ASSUME NEW v \in Writers, v # w PROVE Relies(v)'
    BY <1>1, <1>2, <1>6, OnlyHolderInside, OutsiderRelies
  <1> QED
    BY <1>3, <1>4, <1>5, <1>6 DEF IndInv

\* A star, or a folder, is written while nobody saves.
LEMMA UpdateMetaKeeps ==
    ASSUME IndInv, NEW r \in Runs, UpdateMeta(r)
    PROVE  IndInv'
  <1>1. lock = "free" /\ UNCHANGED <<artifact, quarantined, lock, pc, job, victims, damage>>
    BY DEF UpdateMeta, LockFree
  <1>2. meta[r].parent \in BOOLEAN /\ meta[r].starred \in BOOLEAN
    BY DEF IndInv, TypeOK, Sidecar
  <1>3. PICK star \in BOOLEAN : /\ WriteMeta(r, meta[r].parent, star)
                                /\ \/ asked' = [asked EXCEPT ![r] = star]
                                   \/ star = meta[r].starred /\ asked' = asked
    BY <1>2 DEF UpdateMeta
  <1>4. /\ meta' \in [Runs -> Sidecar]
        /\ meta'[r] = [file |-> "ok", parent |-> meta[r].parent, starred |-> star]
        /\ \A s \in Runs : s # r => meta'[s] = meta[s]
        /\ \A s \in Runs : meta'[s].file # "ok" => ~meta'[s].parent /\ ~meta'[s].starred
        /\ rewritten' \subseteq Runs
        /\ rewritten \subseteq rewritten'
        /\ meta[r].file # "ok" /\ r \in quarantined => r \in rewritten'
        /\ meta[r].file # "corrupt"
    BY <1>2, <1>3, MetaWritten
  <1>5. /\ asked' \in [Runs -> BOOLEAN]
        /\ \A s \in Runs : s # r => asked'[s] = asked[s]
        /\ asked'[r] = star \/ (star = meta[r].starred /\ asked'[r] = asked[r])
    BY <1>3 DEF IndInv, TypeOK
  <1>6. TypeOK'
    BY <1>1, <1>4, <1>5 DEF IndInv, TypeOK
  <1>7. LineageFirst'
    <2>1. Reruns \subseteq Runs
      BY StoreAssumption DEF Runs
    <2> QED
      BY <1>1, <1>4, <2>1 DEF IndInv, LineageFirst, Readable
  <1>8. \A s \in Runs : StarFound(s)'
    BY <1>1, <1>4, <1>5 DEF IndInv, StarFound, MayHaveHadStar
  <1>9. ASSUME NEW v \in Writers PROVE Relies(v)'
    <2>1. pc[v] = "idle"
      <3>1. pc[v] # "idle" => lock = v
        BY DEF IndInv, Relies
      <3> QED
        BY <1>1, <3>1, WritersAreNoMarks
    <2> QED
      BY <1>1, <2>1, OutsiderRelies
  <1> QED
    BY <1>6, <1>7, <1>8, <1>9 DEF IndInv

\* The listing renames damaged files away while nobody saves.
LEMMA ListRunsKeeps ==
    ASSUME IndInv, ListRuns
    PROVE  IndInv' /\ \A r \in Runs : Readable(r) => artifact'[r] = artifact[r]
  <1>1. lock = "free" /\ UNCHANGED <<lock, pc, job, victims, asked, rewritten, damage>>
    BY DEF ListRuns, LockFree
  <1>2. PICK gone \in SUBSET {r \in Runs : artifact[r] = "corrupt"},
             moved \in SUBSET CorruptSidecars :
               /\ artifact' = [r \in Runs |-> IF r \in gone THEN "absent" ELSE artifact[r]]
               /\ Quarantine(moved)
    BY DEF ListRuns
  <1>3. \A r \in Runs : artifact'[r] = artifact[r]
                        \/ (artifact[r] = "corrupt" /\ artifact'[r] = "absent")
    BY <1>2
  <1>4. artifact' \in [Runs -> {"absent", "corrupt"} \cup Writers]
    BY <1>2 DEF IndInv, TypeOK
  <1>5. \A r \in Runs : Readable(r)' => Readable(r)
    BY <1>3, WritersAreNoMarks DEF Readable
  <1>6. /\ meta' \in [Runs -> Sidecar]
        /\ \A s \in Runs : meta'[s].file # "ok" => ~meta'[s].parent /\ ~meta'[s].starred
        /\ quarantined' \subseteq Runs
    BY <1>2, SidecarsMoved
  <1>7. TypeOK'
    BY <1>1, <1>4, <1>6 DEF IndInv, TypeOK
  <1>8. LineageFirst' /\ \A r \in Runs : StarFound(r)'
    BY <1>1, <1>2, <1>5, MovedIsHarmless
  <1>9. ASSUME NEW v \in Writers PROVE Relies(v)'
    <2>1. pc[v] = "idle"
      <3>1. pc[v] # "idle" => lock = v
        BY DEF IndInv, Relies
      <3> QED
        BY <1>1, <3>1, WritersAreNoMarks
    <2> QED
      BY <1>1, <2>1, OutsiderRelies
  <1> QED
    BY <1>3, <1>7, <1>8, <1>9, WritersAreNoMarks DEF IndInv, Readable

\* A damaged file is one less to read, and known to be damaged.
LEMMA DamageKeeps ==
    ASSUME IndInv, NEW r \in Runs, Damage(r)
    PROVE  IndInv' /\ \A s \in Runs : artifact'[s] \in {artifact[s], "corrupt"}
  <1>1. UNCHANGED <<quarantined, lock, pc, job, victims, asked, rewritten>>
    BY DEF Damage
  <1>2. /\ artifact' \in [Runs -> {"absent", "corrupt"} \cup Writers]
        /\ \A s \in Runs : artifact'[s] = artifact[s] \/ (Readable(s) /\ artifact'[s] = "corrupt")
    BY DEF Damage, IndInv, TypeOK
  <1>3. /\ meta' \in [Runs -> Sidecar]
        /\ \A s \in Runs : meta'[s] = meta[s]
              \/ (meta'[s].file = "corrupt" /\ ~meta'[s].parent /\ ~meta'[s].starred)
    <2>1. CorruptMeta \in Sidecar /\ CorruptMeta.file = "corrupt"
          /\ ~CorruptMeta.parent /\ ~CorruptMeta.starred
      BY DEF CorruptMeta, NoMeta, Sidecar
    <2> QED
      BY <2>1 DEF Damage, IndInv, TypeOK
  <1>4. TypeOK'
    <2>1. damage' \in 0..MaxDamage
      BY StoreAssumption DEF Damage, IndInv, TypeOK
    <2> QED
      BY <1>1, <1>2, <1>3, <2>1 DEF IndInv, TypeOK
  <1>5. \A s \in Runs : Readable(s)' => Readable(s)
    BY <1>2, WritersAreNoMarks DEF Readable
  <1>6. LineageFirst'
    <2>1. Reruns \subseteq Runs
      BY StoreAssumption DEF Runs
    <2> QED
      BY <1>1, <1>3, <1>5, <2>1 DEF IndInv, LineageFirst
  <1>7. \A s \in Runs : StarFound(s)'
    BY <1>1, <1>3 DEF IndInv, StarFound, MayHaveHadStar
  <1>8. ASSUME NEW w \in Writers PROVE Relies(w)'
    <2>1. Relies(w) /\ job[w] \in Runs /\ victims[w] \subseteq Runs
      BY DEF IndInv, TypeOK
    <2>2. pc[w] \in {"temp", "publish"} => artifact'[job[w]] = "absent"
      BY <1>2, <2>1, WritersAreNoMarks DEF Relies, Readable
    <2>3. pc[w] = "publish" /\ job[w] \in Reruns => HasLineage(job[w])'
      BY <1>1, <1>3, <2>1 DEF Relies, HasLineage
    <2>4. pc[w] = "evictMeta" => ~Readable(Max(victims[w]))'
      <3>1. pc[w] = "evictMeta" => Max(victims[w]) \in Runs /\ ~Readable(Max(victims[w]))
        BY <2>1, Youngest DEF Relies
      <3>2. Readable(Max(victims[w]))' <=> artifact'[Max(victims[w])] \in Writers
        BY <1>1 DEF Readable
      <3> QED
        BY <1>2, <3>1, <3>2, WritersAreNoMarks DEF Readable
    <2>5. pc[w] \in {"evict", "evictMeta"} =>
            /\ \A s \in victims'[w] : Cardinality(Survivors(w, s)') >= Keep
            /\ Cardinality(Evictable' \ victims'[w]) <= Keep
      <3>1. \A s \in Runs : s \in Evictable' => s \in Evictable
        BY <1>1, <1>3, <1>5 DEF Evictable, MayHaveHadStar
      <3> QED
        BY <1>1, <1>2, <3>1, PlanStands
    <2> QED
      BY <1>1, <2>1, <2>2, <2>3, <2>4, <2>5 DEF Relies, Fair
  <1> QED
    BY <1>2, <1>4, <1>6, <1>7, <1>8 DEF IndInv

---------------------------------------------------------------------------
\* Every step keeps the invariant.
THEOREM NextKeeps == IndInv /\ [Next]_vars => IndInv'
  <1> SUFFICES ASSUME IndInv, [Next]_vars PROVE IndInv'
    OBVIOUS
  <1>1. CASE UNCHANGED vars
    <2> USE <1>1 DEF vars
    <2>1. TypeOK'
      BY DEF IndInv, TypeOK
    <2>2. LineageFirst' /\ \A r \in Runs : StarFound(r)'
      BY DEF IndInv, LineageFirst, Readable, StarFound, MayHaveHadStar
    <2>3. ASSUME NEW w \in Writers PROVE Relies(w)'
      <3>1. Evictable' = Evictable
        BY DEF Evictable, Readable, MayHaveHadStar
      <3>2. \A r \in Runs : Survivors(w, r)' = Survivors(w, r)
        BY DEF Survivors
      <3>3. victims[w] \subseteq Runs
        BY DEF IndInv, TypeOK
      <3> QED
        BY <3>1, <3>2, <3>3 DEF IndInv, Relies, HasLineage, Fair, Readable
    <2> QED
      BY <2>1, <2>2, <2>3 DEF IndInv
  <1>2. ASSUME NEW w \in Writers, NEW r \in Runs, Claim(w, r) PROVE IndInv'
    BY <1>2, ClaimKeeps
  <1>3. ASSUME NEW w \in Writers, WriteLineage(w) PROVE IndInv'
    BY <1>3, WriteLineageKeeps
  <1>4. ASSUME NEW w \in Writers, Publish(w) PROVE IndInv'
    BY <1>4, PublishKeeps
  <1>5. ASSUME NEW w \in Writers, Scan(w) PROVE IndInv'
    BY <1>5, ScanKeeps
  <1>6. ASSUME NEW w \in Writers, Evict(w) PROVE IndInv'
    BY <1>6, EvictKeeps
  <1>7. ASSUME NEW w \in Writers, EvictMeta(w) PROVE IndInv'
    BY <1>7, EvictMetaKeeps
  <1>8. ASSUME NEW w \in Writers, Saved(w) \/ Abandon(w) PROVE IndInv'
    BY <1>8, ReleaseKeeps DEF Saved, Abandon
  <1>9. ASSUME NEW r \in Runs, UpdateMeta(r) \/ Damage(r) PROVE IndInv'
    BY <1>9, UpdateMetaKeeps, DamageKeeps
  <1>10. CASE ListRuns
    BY <1>10, ListRunsKeeps
  <1> QED
    BY <1>1, <1>2, <1>3, <1>4, <1>5, <1>6, <1>7, <1>8, <1>9, <1>10 DEF Next

\* Who makes a readable artifact disappear is evicting it, and nobody replaces one.
LEMMA OnlyEviction ==
    ASSUME IndInv, [Next]_vars, NEW r \in Runs, Readable(r)
    PROVE  /\ artifact'[r] \in {artifact[r], "absent", "corrupt"}
           /\ artifact'[r] = "absent" =>
                 /\ Fair(r)
                 /\ \E w \in Writers : Cardinality(Survivors(w, r)) >= Keep
  <1> DEFINE Harmless == artifact'[r] \in {artifact[r], "corrupt"}
  <1>1. artifact[r] # "absent" /\ artifact[r] # "corrupt" /\ artifact \in [Runs -> {"absent", "corrupt"} \cup Writers]
    BY WritersAreNoMarks DEF Readable, IndInv, TypeOK
  <1>2. ASSUME NEW w \in Writers, Evict(w)
        PROVE  artifact'[r] # artifact[r] =>
                  /\ artifact'[r] = "absent" /\ Fair(r)
                  /\ \E v \in Writers : Cardinality(Survivors(v, r)) >= Keep
    <2>1. artifact' = [artifact EXCEPT ![Max(victims[w])] = "absent"]
      BY <1>2 DEF Evict
    <2>2. artifact'[r] # artifact[r] => artifact'[r] = "absent"
      BY <1>1, <2>1
    <2> QED
      BY <1>2, <2>2, EvictKeeps
  <1>3. ASSUME NEW w \in Writers, Publish(w) PROVE Harmless
    <2>1. artifact[job[w]] = "absent" /\ artifact' = [artifact EXCEPT ![job[w]] = w]
      BY <1>3 DEF Publish, IndInv, Relies
    <2> QED
      BY <1>1, <2>1
  <1>4. ASSUME NEW s \in Runs, Damage(s) PROVE Harmless
    BY <1>4, DamageKeeps
  <1>5. ASSUME ListRuns PROVE Harmless
    BY <1>5, ListRunsKeeps
  <1>6. ASSUME UNCHANGED artifact PROVE Harmless
    BY <1>6
  <1>7. ASSUME UNCHANGED vars PROVE Harmless
    BY <1>6, <1>7 DEF vars
  <1>8. ASSUME NEW w \in Writers,
               \/ \E s \in Runs : Claim(w, s)
               \/ WriteLineage(w) \/ Scan(w) \/ EvictMeta(w) \/ Saved(w) \/ Abandon(w)
        PROVE  Harmless
    BY <1>6, <1>8 DEF Claim, WriteLineage, Scan, EvictMeta, Saved, Abandon
  <1>9. ASSUME NEW s \in Runs, UpdateMeta(s) PROVE Harmless
    BY <1>6, <1>9 DEF UpdateMeta
  <1>10. Harmless \/ \E w \in Writers : Evict(w)
    <2> HIDE DEF Harmless
    <2> QED
      BY <1>3, <1>4, <1>5, <1>7, <1>8, <1>9 DEF Next
  <1> QED
    BY <1>1, <1>2, <1>10

\* The invariant holds at all times.
THEOREM Invariant == Spec => []IndInv
  <1> QED
    BY InitIndInv, NextKeeps, PTL DEF Spec

\* The store's files, its lock and its writers are what they should be.
THEOREM TypesCorrect == Spec => []TypeOK
  <1>1. IndInv => TypeOK
    BY DEF IndInv
  <1> QED
    BY <1>1, Invariant, PTL

\* Whoever dies where: an artifact that can be read has its parent in its
\* sidecar, or the sidecar was damaged.
THEOREM LineageFirstHolds == Spec => []LineageFirst
  <1>1. IndInv => LineageFirst
    BY DEF IndInv
  <1> QED
    BY <1>1, Invariant, PTL

\* A retention pass that is through leaves no more than it should.
THEOREM TrimmedHolds == Spec => []Trimmed
  <1>1. IndInv => Trimmed
    <2> SUFFICES ASSUME IndInv, NEW w \in Writers, pc[w] = "evict", victims[w] = {}
                 PROVE  Cardinality(Evictable) <= Keep
      BY DEF Trimmed
    <2>1. Cardinality(Evictable \ victims[w]) <= Keep
      BY DEF IndInv, Relies
    <2>2. Evictable \ victims[w] = Evictable
      OBVIOUS
    <2> QED
      BY <2>1, <2>2
  <1> QED
    BY <1>1, Invariant, PTL

\* A run whose star was last set is not evicted, unless a sidecar written anew
\* after a quarantine hides the star.
THEOREM StarKeptHolds == Spec => StarKept
  <1>1. IndInv /\ [Next]_vars => [\A r \in Runs : Evicted(r) => ~asked[r] \/ r \in rewritten]_vars
    BY OnlyEviction DEF Evicted, Fair
  <1> QED
    BY <1>1, Invariant, PTL DEF Spec, StarKept

\* What is evicted is older than Keep artifacts that stay.
THEOREM OldestGoHolds == Spec => OldestGo
  <1>1. ASSUME IndInv, [Next]_vars, NEW r \in Runs, Evicted(r)
        PROVE  Cardinality(NewerIn(r, {s \in Runs : artifact[s] # "absent"})) >= Keep
    <2> DEFINE K == NewerIn(r, {s \in Runs : artifact[s] # "absent"})
    <2>1. PICK w \in Writers : Cardinality(Survivors(w, r)) >= Keep
      BY <1>1, OnlyEviction DEF Evicted
    <2>2. Survivors(w, r) \subseteq K /\ K \subseteq Runs
      BY DEF Survivors, NewerIn
    <2> HIDE DEF K
    <2>3. Cardinality(Survivors(w, r)) <= Cardinality(K) /\ Cardinality(K) \in Nat
          /\ Cardinality(Survivors(w, r)) \in Nat
      BY <2>2, RunsFinite
    <2> QED
      BY <2>1, <2>3, StoreAssumption DEF K
  <1>2. IndInv /\ [Next]_vars =>
          [\A r \in Runs : Evicted(r) =>
              Cardinality(NewerIn(r, {s \in Runs : artifact[s] # "absent"})) >= Keep]_vars
    BY <1>1
  <1> QED
    BY <1>2, Invariant, PTL DEF Spec, OldestGo

\* Of all writers of a run the first wins.
THEOREM FirstWriteWinsHolds == Spec => FirstWriteWins
  <1>1. IndInv /\ [Next]_vars =>
          [\A r \in Runs : Readable(r) => artifact'[r] \in {artifact[r], "absent", "corrupt"}]_vars
    BY OnlyEviction
  <1> QED
    BY <1>1, Invariant, PTL DEF Spec, FirstWriteWins
=============================================================================
