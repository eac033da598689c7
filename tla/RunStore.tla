------------------------------ MODULE RunStore ------------------------------
(* The store of finished run artifacts that every web worker thread and     *)
(* every process of the workbench writes to (web/run_store.py): one JSON    *)
(* artifact per run, a metadata sidecar that holds its lineage and its      *)
(* star, and a retention pass at the end of each save.                      *)
(*                                                                          *)
(* A run is a number: runs with a larger number were started later, which   *)
(* is the order retention sorts by (header.created_at is the start time).   *)
(* An artifact is known by the writer that published it, so that two        *)
(* writers of one run are told apart.                                       *)
EXTENDS Integers, FiniteSets, FiniteSetsExt

CONSTANTS
    NRuns,       \* runs are 1..NRuns
    Reruns,      \* the runs saved with a parent_run_id
    Writers,     \* threads and processes inside RunArtifactStore.save
    Keep,        \* retention: unstarred artifacts kept
    MaxDamage    \* bound: files damaged from outside

ASSUME StoreAssumption ==
    /\ NRuns \in Nat \ {0}
    /\ Reruns \subseteq 1..NRuns
    /\ Keep \in Nat
    /\ MaxDamage \in Nat
    /\ {"absent", "corrupt", "free"} \cap Writers = {}

Runs == 1..NRuns

VARIABLES
    artifact,    \* per run: its file, "absent", "corrupt", or its writer
    meta,        \* per run: its sidecar in meta/
    quarantined, \* runs with a meta/<run>.json.corrupt* beside the sidecar
    lock,        \* holder of .store.write-lock, or "free"
    pc, job,     \* where each writer is, and the run it saves
    victims,     \* runs a writer's retention pass has still to evict
    asked,       \* history: the star each run was last given by update_meta
    rewritten,   \* history: runs whose sidecar was made anew after quarantine
    damage       \* history: files damaged so far

vars == <<artifact, meta, quarantined, lock, pc, job, victims,
          asked, rewritten, damage>>

Sidecar == [file : {"absent", "ok", "corrupt"}, parent : BOOLEAN, starred : BOOLEAN]
NoMeta == [file |-> "absent", parent |-> FALSE, starred |-> FALSE]
CorruptMeta == [NoMeta EXCEPT !.file = "corrupt"]

TypeOK ==
    /\ artifact \in [Runs -> {"absent", "corrupt"} \cup Writers]
    /\ meta \in [Runs -> Sidecar]
    /\ \A r \in Runs : meta[r].file # "ok" => ~meta[r].parent /\ ~meta[r].starred
    /\ quarantined \subseteq Runs
    /\ lock \in Writers \cup {"free"}
    /\ pc \in [Writers -> {"idle", "temp", "publish", "scan", "evict", "evictMeta"}]
    /\ job \in [Writers -> Runs]
    /\ victims \in [Writers -> SUBSET Runs]
    /\ asked \in [Runs -> BOOLEAN]
    /\ rewritten \subseteq Runs
    /\ damage \in 0..MaxDamage

Init ==
    /\ artifact = [r \in Runs |-> "absent"]
    /\ meta = [r \in Runs |-> NoMeta]
    /\ quarantined = {}
    /\ lock = "free"
    /\ pc = [w \in Writers |-> "idle"]
    /\ job = [w \in Writers |-> 1]
    /\ victims = [w \in Writers |-> {}]
    /\ asked = [r \in Runs |-> FALSE]
    /\ rewritten = {}
    /\ damage = 0

-----------------------------------------------------------------------------
(* Sidecars: _write_meta_updates merges keys into what it can read and      *)
(* replaces the file; it raises on a corrupt one.                           *)

MergedInPlace(m, parent, starred) == [m EXCEPT !.parent = parent, !.starred = starred]
Merged(m, parent, starred) == [file |-> "ok", parent |-> parent, starred |-> starred]

WriteMeta(r, parent, starred) ==
    /\ meta[r].file # "corrupt"
    /\ meta' = [meta EXCEPT ![r] = Merged(@, parent, starred)]
    /\ rewritten' = IF meta[r].file = "absent" /\ r \in quarantined
                    THEN rewritten \cup {r} ELSE rewritten

(* _quarantine of sidecars: each file of moved is renamed beside itself.    *)
Quarantine(moved) ==
    /\ meta' = [r \in Runs |-> IF r \in moved THEN NoMeta ELSE meta[r]]
    /\ quarantined' = quarantined \cup moved

Readable(r) == artifact[r] \in Writers
CorruptSidecars == {r \in Runs : Readable(r) /\ meta[r].file = "corrupt"}

-----------------------------------------------------------------------------
(* save                                                                     *)

LockIgnored == TRUE
LockFree == lock = "free"

Release(w) ==
    /\ lock' = "free"
    /\ pc' = [pc EXCEPT ![w] = "idle"]
    /\ victims' = [victims EXCEPT ![w] = {}]

(* Lock, then destination.exists(): a second writer of a run whose file is  *)
(* there, readable or not, returns False and changes nothing.               *)
Claim(w, r) ==
    /\ pc[w] = "idle"
    /\ LockFree
    /\ artifact[r] = "absent"
    /\ lock' = w
    /\ pc' = [pc EXCEPT ![w] = "temp"]
    /\ job' = [job EXCEPT ![w] = r]
    /\ UNCHANGED <<artifact, meta, quarantined, victims, asked, rewritten, damage>>

(* The temporary file is complete; the lineage goes to the sidecar first.   *)
WriteLineage(w) ==
    /\ pc[w] = "temp"
    /\ IF job[w] \in Reruns
         THEN WriteMeta(job[w], TRUE, meta[job[w]].starred)
         ELSE UNCHANGED <<meta, rewritten>>
    /\ pc' = [pc EXCEPT ![w] = "publish"]
    /\ UNCHANGED <<artifact, quarantined, lock, job, victims, asked, damage>>

Publish(w) ==
    /\ pc[w] = "publish"
    /\ artifact' = [artifact EXCEPT ![job[w]] = w]
    /\ pc' = [pc EXCEPT ![w] = "scan"]
    /\ UNCHANGED <<meta, quarantined, lock, job, victims, asked, rewritten, damage>>

-----------------------------------------------------------------------------
(* _apply_retention_locked                                                  *)

(* A run whose sidecar is corrupt, or was quarantined and not replaced, may *)
(* have had a star and is not a candidate.                                  *)
MayHaveHadStarIgnored(r) == FALSE
MayHaveHadStar(r) ==
    \/ meta[r].file = "corrupt"
    \/ meta[r].file = "absent" /\ r \in quarantined

Evictable == {r \in Runs : Readable(r) /\ ~MayHaveHadStar(r) /\ ~meta[r].starred}

NewerIn(r, S) == {s \in S : s > r}

BeyondKeepByAge(S) == {r \in S : Cardinality({s \in S : s < r}) >= Keep}
BeyondKeepLate(S) == {r \in S : Cardinality(NewerIn(r, S)) > Keep}
BeyondKeep(S) == {r \in S : Cardinality(NewerIn(r, S)) >= Keep}

(* The pass over the artifacts; corrupt sidecars are quarantined on the     *)
(* way, each rename of which may fail.                                      *)
Scan(w) ==
    /\ pc[w] = "scan"
    /\ \E moved \in SUBSET CorruptSidecars : Quarantine(moved)
    /\ victims' = [victims EXCEPT ![w] = BeyondKeep(Evictable)]
    /\ pc' = [pc EXCEPT ![w] = "evict"]
    /\ UNCHANGED <<artifact, lock, job, asked, rewritten, damage>>

EvictSidecarFirst(w) ==
    /\ pc[w] = "evict"
    /\ victims[w] # {}
    /\ meta' = [meta EXCEPT ![Max(victims[w])] = NoMeta]
    /\ pc' = [pc EXCEPT ![w] = "evictMeta"]
    /\ UNCHANGED <<artifact, quarantined, lock, job, victims, asked, rewritten, damage>>

(* The artifact goes first, so that none is ever left without its sidecar.  *)
Evict(w) ==
    /\ pc[w] = "evict"
    /\ victims[w] # {}
    /\ artifact' = [artifact EXCEPT ![Max(victims[w])] = "absent"]
    /\ pc' = [pc EXCEPT ![w] = "evictMeta"]
    /\ UNCHANGED <<meta, quarantined, lock, job, victims, asked, rewritten, damage>>

EvictMeta(w) ==
    /\ pc[w] = "evictMeta"
    /\ meta' = [meta EXCEPT ![Max(victims[w])] = NoMeta]
    /\ victims' = [victims EXCEPT ![w] = @ \ {Max(@)}]
    /\ pc' = [pc EXCEPT ![w] = "evict"]
    /\ UNCHANGED <<artifact, quarantined, lock, job, asked, rewritten, damage>>

(* save returns True.                                                       *)
Saved(w) ==
    /\ pc[w] = "evict"
    /\ victims[w] = {}
    /\ Release(w)
    /\ UNCHANGED <<artifact, meta, quarantined, job, asked, rewritten, damage>>

(* An exception inside save, or the death of the writer's process: the      *)
(* kernel drops the lock; the temporary file is no artifact.                *)
Abandon(w) ==
    /\ pc[w] # "idle"
    /\ Release(w)
    /\ UNCHANGED <<artifact, meta, quarantined, job, asked, rewritten, damage>>

-----------------------------------------------------------------------------
(* The other operations under the lock, and damage from outside             *)

(* update_meta with "starred", or with "folder" alone: then the star is     *)
(* what the sidecar says.                                                   *)
UpdateMeta(r) ==
    /\ LockFree
    /\ Readable(r)
    /\ \/ \E star \in BOOLEAN :
            /\ WriteMeta(r, meta[r].parent, star)
            /\ asked' = [asked EXCEPT ![r] = star]
       \/ /\ WriteMeta(r, meta[r].parent, meta[r].starred)
          /\ UNCHANGED asked
    /\ UNCHANGED <<artifact, quarantined, lock, pc, job, victims, damage>>

(* list_runs: corrupt artifacts and sidecars are renamed away; any rename   *)
(* may fail, and the pass may die half way.                                 *)
ListRuns ==
    /\ LockFree
    /\ \E gone \in SUBSET {r \in Runs : artifact[r] = "corrupt"},
          moved \in SUBSET CorruptSidecars :
         /\ artifact' = [r \in Runs |-> IF r \in gone THEN "absent" ELSE artifact[r]]
         /\ Quarantine(moved)
    /\ UNCHANGED <<lock, pc, job, victims, asked, rewritten, damage>>

Damage(r) ==
    /\ damage < MaxDamage
    /\ damage' = damage + 1
    /\ \/ /\ Readable(r)
          /\ artifact' = [artifact EXCEPT ![r] = "corrupt"]
          /\ UNCHANGED meta
       \/ /\ meta[r].file = "ok"
          /\ meta' = [meta EXCEPT ![r] = CorruptMeta]
          /\ UNCHANGED artifact
    /\ UNCHANGED <<quarantined, lock, pc, job, victims, asked, rewritten>>

Next ==
    \/ \E w \in Writers :
         \/ \E r \in Runs : Claim(w, r)
         \/ WriteLineage(w) \/ Publish(w)
         \/ Scan(w) \/ Evict(w) \/ EvictMeta(w)
         \/ Saved(w) \/ Abandon(w)
    \/ \E r \in Runs : UpdateMeta(r) \/ Damage(r)
    \/ ListRuns

Spec == Init /\ [][Next]_vars

-----------------------------------------------------------------------------
(* Properties                                                               *)

(* "A committed artifact can never be left permanently unlineaged after a   *)
(* failed save" (save): whatever dies where, an artifact that can be read   *)
(* has its parent in its sidecar, unless the sidecar itself was damaged.    *)
LineageFirst ==
    \A r \in Reruns :
        Readable(r) => meta[r].parent \/ meta[r].file = "corrupt" \/ r \in quarantined

(* When the retention pass of a save is over, at most Keep artifacts are    *)
(* left that it could have evicted.                                         *)
Trimmed ==
    \A w \in Writers :
        pc[w] = "evict" /\ victims[w] = {} => Cardinality(Evictable) <= Keep

Evicted(r) == Readable(r) /\ artifact'[r] = "absent"

(* A starred run is never evicted, not even while a damaged sidecar hides   *)
(* its star and not after the damaged file was renamed away; only a sidecar *)
(* written anew after that can end the protection (_apply_retention_locked).*)
StarKept == [][\A r \in Runs : Evicted(r) => ~asked[r] \/ r \in rewritten]_vars

(* Retention takes the oldest: Keep younger artifacts outlive each victim.  *)
OldestGo ==
    [][\A r \in Runs : Evicted(r) =>
          Cardinality(NewerIn(r, {s \in Runs : artifact[s] # "absent"})) >= Keep]_vars

(* Of all writers of one run the first wins; nobody overwrites an artifact  *)
(* (save returns False for the others).                                     *)
FirstWriteWins ==
    [][\A r \in Runs : Readable(r) => artifact'[r] \in {artifact[r], "absent", "corrupt"}]_vars
=============================================================================
