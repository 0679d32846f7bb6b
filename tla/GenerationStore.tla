-------------------------- MODULE GenerationStore --------------------------
(***************************************************************************)
(* The on-disk index store of core/src/lib.rs: generation directories      *)
(* under .ccm-generations, the pointer file ccm_current that names the one *)
(* being served, the flock that serializes activations, and the runs that  *)
(* build a new generation beside the active one and try to install it.     *)
(*                                                                         *)
(* A run is a process (CLI or MCP worker) that executes one of             *)
(*   full     index_directory_with_mode     build everything from sources  *)
(*   update   update_index                  copy the active one, re-index  *)
(*                                          what changed                   *)
(*   upgrade  upgrade_active_index_semantics  copy graph and manifest of   *)
(*                                          the active one, re-embed       *)
(* Any run may fail at a fallible step or be killed between two steps.     *)
(***************************************************************************)
EXTENDS Naturals, FiniteSets

CONSTANTS
  Indexers,    \* concurrent runs
  Gens,        \* generation ids; one is consumed by every staging directory
  Kinds,       \* the kinds of run that may start
  NoGen,       \* "no generation": the pointer file does not exist
  NoIndexer,   \* the activation lock is free
  MaxSource,   \* bound: number of source states
  MaxCrashes   \* bound: number of killed runs

ASSUME GenAssumption == NoGen \notin Gens
ASSUME IndexerAssumption == NoIndexer \notin Indexers
ASSUME KindAssumption == Kinds \subseteq {"full", "update", "upgrade"}
ASSUME BoundAssumption == MaxSource \in Nat /\ MaxCrashes \in Nat

VARIABLES
  pointer,     \* content of ccm_current
  lock,        \* holder of .ccm-activation.flock
  finalized,   \* generation directories under their final name
  staging,     \* generation directories still named <id>.staging
  dir,         \* dir[g]: what the directory of g contains
  older,       \* <<g, h>>: directory g was last modified before directory h
  source,      \* current state of the project's files
  live,        \* the live index being persisted by an MCP server
  crashes,     \* runs killed so far
  pc, kind,    \* per run: control point and kind
  base,        \* per run: generation whose graph and manifest it starts from
  expected,    \* per run: pointer value its activation requires
  gen,         \* per run: id of the generation it builds
  snap         \* per run: source state its manifest will record

disk == <<finalized, staging, dir, older>>
locals == <<kind, base, expected, gen, snap>>
environment == <<source, live, crashes>>
vars == <<pointer, lock, disk, environment, pc, locals>>

Artifacts == {"ccm_db", "ccm_graph", "ccm_manifest"}

\* A generation directory: the artifacts in it, the source state its manifest
\* records and, for the properties alone, the source state its run recorded (the
\* persists of a live index replace it) and the generation its graph was derived
\* from (NoGen: from sources).
Directory ==
  [has : SUBSET Artifacts, snapshot : 0..MaxSource, built : 0..MaxSource,
   basis : Gens \cup {NoGen}]

EmptyDirectory == [has |-> {}, snapshot |-> 0, built |-> 0, basis |-> NoGen]

\* A persist under way: the generation the live index was loaded from and the
\* source state it has reached. One at a time, of any server.
Persist == [gen : Gens \cup {NoGen}, snapshot : 0..MaxSource]

NoPersist == [gen |-> NoGen, snapshot |-> 0]

ControlPoints ==
  {"idle", "restart", "scan", "read", "lockcopy", "copy", "expect", "import",
   "table", "graph", "manifest", "lock", "verify", "rename", "swap", "cleanup"}

\* Control points at which the run holds the activation lock.
Locked == {"copy", "verify", "rename", "swap", "cleanup"}

TypeOK ==
  /\ pointer \in Gens \cup {NoGen}
  /\ lock \in Indexers \cup {NoIndexer}
  /\ finalized \subseteq Gens
  /\ staging \subseteq Gens
  /\ dir \in [Gens -> Directory]
  /\ older \subseteq Gens \X Gens
  /\ source \in 0..MaxSource
  /\ live \in Persist
  /\ crashes \in 0..MaxCrashes
  /\ pc \in [Indexers -> ControlPoints]
  /\ kind \in [Indexers -> {"full", "update", "upgrade"}]
  /\ base \in [Indexers -> Gens \cup {NoGen}]
  /\ expected \in [Indexers -> Gens \cup {NoGen}]
  /\ gen \in [Indexers -> Gens \cup {NoGen}]
  /\ snap \in [Indexers -> 0..MaxSource]

Init ==
  /\ pointer = NoGen
  /\ lock = NoIndexer
  /\ finalized = {}
  /\ staging = {}
  /\ dir = [g \in Gens |-> EmptyDirectory]
  /\ older = {}
  /\ source = 0
  /\ live = NoPersist
  /\ crashes = 0
  /\ pc = [p \in Indexers |-> "idle"]
  /\ kind = [p \in Indexers |-> "full"]
  /\ base = [p \in Indexers |-> NoGen]
  /\ expected = [p \in Indexers |-> NoGen]
  /\ gen = [p \in Indexers |-> NoGen]
  /\ snap = [p \in Indexers |-> 0]

---------------------------------------------------------------------------
(* Helpers.                                                                *)

Goto(p, point) == pc' = [pc EXCEPT ![p] = point]

\* resolve_index_artifacts: the generation the pointer names, when it is there.
Resolves(g) == g \in finalized

Complete(g) == dir[g].has = Artifacts

Usable(g) == Resolves(g) /\ Complete(g)

\* The modification time of directory g becomes the latest one.
Touch(g) ==
  older' = {e \in older : e[1] # g} \cup {<<h, g>> : h \in (finalized \cup staging) \ {g}}

\* remove_dir_all on every directory of a set.
Remove(gone) ==
  /\ dir' = [g \in Gens |-> IF g \in gone THEN EmptyDirectory ELSE dir[g]]
  /\ older' = {e \in older : e[1] \notin gone /\ e[2] \notin gone}

\* A new id (pid and nanoseconds) is one that nothing names: no directory, not
\* the pointer, no value a run or the live index still holds.
Unused(g) ==
  /\ g \notin finalized \cup staging \cup {pointer, live.gen}
  /\ \A p \in Indexers : g \notin {base[p], expected[p], gen[p]}

\* create_dir_all(<id>.staging) under a new id.
NewStaging(p, g) ==
  /\ Unused(g)
  /\ staging' = staging \cup {g}
  /\ Touch(g)
  /\ gen' = [gen EXCEPT ![p] = g]

\* The run is over; nothing reads its locals again.
End(p) ==
  /\ Goto(p, "idle")
  /\ kind' = [kind EXCEPT ![p] = "full"]
  /\ base' = [base EXCEPT ![p] = NoGen]
  /\ expected' = [expected EXCEPT ![p] = NoGen]
  /\ gen' = [gen EXCEPT ![p] = NoGen]
  /\ snap' = [snap EXCEPT ![p] = 0]

ReleaseLock(p) == lock' = IF lock = p THEN NoIndexer ELSE lock

\* The error path of a run. index_directory and update_index remove their
\* staging directory; the upgrade returns with `?` and leaves it behind.
GiveUp(p) ==
  /\ LET gone == IF kind[p] = "upgrade" THEN {} ELSE staging \cap {gen[p]}
     IN /\ staging' = staging \ gone
        /\ Remove(gone)
  /\ ReleaseLock(p)
  /\ End(p)

\* index_directory_with_mode_inner up to the scan: the pointer is read before
\* anything is built.
BeginFull(p) ==
  /\ \E g \in Gens : NewStaging(p, g)
  /\ kind' = [kind EXCEPT ![p] = "full"]
  /\ base' = [base EXCEPT ![p] = NoGen]
  /\ expected' = [expected EXCEPT ![p] = pointer]
  /\ Goto(p, "scan")
  /\ UNCHANGED <<pointer, lock, finalized, dir, environment, snap>>

---------------------------------------------------------------------------
(* Starting a run.                                                         *)

StartFull(p) ==
  /\ pc[p] = "idle"
  /\ "full" \in Kinds
  /\ BeginFull(p)

\* update_index: resolve the active generation; without a usable one fall back
\* to a full index.
StartUpdate(p) ==
  /\ pc[p] = "idle"
  /\ "update" \in Kinds
  /\ \/ /\ ~Usable(pointer)
        /\ BeginFull(p)
     \/ /\ Usable(pointer)
        /\ kind' = [kind EXCEPT ![p] = "update"]
        /\ base' = [base EXCEPT ![p] = pointer]
        /\ Goto(p, "read")
        /\ UNCHANGED <<pointer, lock, disk, environment, expected, gen, snap>>

\* upgrade_active_index_semantics: resolve the active generation first; without
\* its graph and manifest the call fails at once.
BeginUpgrade(p) ==
  /\ Usable(pointer)
  /\ kind' = [kind EXCEPT ![p] = "upgrade"]
  /\ base' = [base EXCEPT ![p] = pointer]
  /\ Goto(p, "expect")
  /\ UNCHANGED <<pointer, lock, disk, environment, expected, gen, snap>>

StartUpgrade(p) ==
  /\ pc[p] = "idle"
  /\ "upgrade" \in Kinds
  /\ BeginUpgrade(p)

\* ... then read the pointer a second time, for the activation check.
ReadExpected(p) ==
  /\ pc[p] = "expect"
  /\ \E g \in Gens : NewStaging(p, g)
  /\ expected' = [expected EXCEPT ![p] = pointer]
  /\ Goto(p, "import")
  /\ UNCHANGED <<pointer, lock, finalized, dir, environment, kind, base, snap>>

---------------------------------------------------------------------------
(* Building in the staging directory.                                      *)

\* build_index_generation, scanning and parsing: the manifest's snapshot is the
\* state of the sources when the scan starts.
ScanSources(p) ==
  /\ pc[p] = "scan"
  /\ snap' = [snap EXCEPT ![p] = source]
  /\ Goto(p, "table")
  /\ UNCHANGED <<pointer, lock, disk, environment, kind, base, expected, gen>>

\* update_index reads manifest and graph of the resolved generation without the
\* lock, scans the sources and compares them.
ReadActive(p) ==
  /\ pc[p] = "read"
  /\ \* the generation is gone or unusable (schema, unreadable graph, vectors to
     \* repair while sources changed): full index
     \/ BeginFull(p)
     \* nothing changed, or the scan failed: done
     \/ /\ End(p)
        /\ UNCHANGED <<pointer, lock, disk, environment>>
     \* nothing changed, vectors to repair
     \/ /\ "upgrade" \in Kinds
        /\ Resolves(base[p])
        /\ dir[base[p]].snapshot = source
        /\ BeginUpgrade(p)
     \* changed: a staging directory for the incremental build
     \/ /\ Resolves(base[p])
        /\ dir[base[p]].snapshot # source
        /\ snap' = [snap EXCEPT ![p] = source]
        /\ expected' = [expected EXCEPT ![p] = base[p]]
        /\ \E g \in Gens : NewStaging(p, g)
        /\ Goto(p, "lockcopy")
        /\ UNCHANGED <<pointer, lock, finalized, dir, environment, kind, base>>

LockForCopy(p) ==
  /\ pc[p] = "lockcopy"
  /\ lock = NoIndexer
  /\ lock' = p
  /\ Goto(p, "copy")
  /\ UNCHANGED <<pointer, disk, environment, locals>>

\* Adding an artifact to the run's staging directory. Directories are created on
\* demand (create_dir_all), so one that was removed as stale comes back incomplete.
Write(p, artifact) ==
  /\ dir' = [dir EXCEPT ![gen[p]].has = @ \cup {artifact},
                        ![gen[p]].basis = IF artifact = "ccm_graph" THEN base[p] ELSE @,
                        ![gen[p]].snapshot = IF artifact = "ccm_manifest" THEN snap[p] ELSE @,
                        ![gen[p]].built = IF artifact = "ccm_manifest" THEN snap[p] ELSE @]
  /\ staging' = staging \cup {gen[p]}
  /\ Touch(gen[p])

\* Under the lock: the pointer must still name the resolved generation; then the
\* vector table is copied and the lock released.
CopyTable(p) ==
  /\ pc[p] = "copy"
  /\ \/ /\ pointer # expected[p]
        /\ GiveUp(p)
     \/ /\ pointer = expected[p]
        /\ Write(p, "ccm_db")
        /\ lock' = NoIndexer
        /\ Goto(p, "graph")
        /\ UNCHANGED locals
  /\ UNCHANGED <<pointer, finalized, environment>>

\* The upgrade reads the manifest and then copies the graph of the generation it
\* resolved; a generation without semantic nodes needs no upgrade.
ImportActive(p) ==
  /\ pc[p] = "import"
  /\ Resolves(base[p])
  /\ \/ /\ snap' = [snap EXCEPT ![p] = dir[base[p]].snapshot]
        /\ Write(p, "ccm_graph")
        /\ Goto(p, "table")
        /\ UNCHANGED <<kind, base, expected, gen>>
     \/ /\ staging' = staging \ {gen[p]}
        /\ Remove({gen[p]})
        /\ End(p)
  /\ UNCHANGED <<pointer, lock, finalized, environment>>

WriteTable(p) ==
  /\ pc[p] = "table"
  /\ Write(p, "ccm_db")
  /\ Goto(p, IF kind[p] = "upgrade" THEN "manifest" ELSE "graph")
  /\ UNCHANGED <<pointer, lock, finalized, environment, locals>>

WriteGraph(p) ==
  /\ pc[p] = "graph"
  /\ Write(p, "ccm_graph")
  /\ Goto(p, "manifest")
  /\ UNCHANGED <<pointer, lock, finalized, environment, locals>>

WriteManifest(p) ==
  /\ pc[p] = "manifest"
  /\ Write(p, "ccm_manifest")
  /\ Goto(p, "lock")
  /\ UNCHANGED <<pointer, lock, finalized, environment, locals>>

\* Any fallible step of a build: scan, parse, embedding, I/O error, and the
\* activation lock not granted within its wait limit.
FailBuild(p) ==
  /\ pc[p] \in {"scan", "lockcopy", "copy", "import", "table", "graph", "manifest", "lock"}
  /\ GiveUp(p)
  /\ UNCHANGED <<pointer, finalized, environment>>

\* The embedding service cannot be reached during an incremental build: its
\* staging directory is removed and a full index (graph only) is built instead.
FallBackToFull(p) ==
  /\ pc[p] = "graph"
  /\ kind[p] = "update"
  /\ staging' = staging \ {gen[p]}
  /\ Remove({gen[p]})
  /\ gen' = [gen EXCEPT ![p] = NoGen]
  /\ Goto(p, "restart")
  /\ UNCHANGED <<pointer, lock, finalized, environment, kind, base, expected, snap>>

Restart(p) ==
  /\ pc[p] = "restart"
  /\ BeginFull(p)

---------------------------------------------------------------------------
(* install_staged_generation: every step below runs under the lock.        *)

\* Mutant of AcquireLock: enters without waiting for the holder.
AcquireLockNoWait(p) ==
  /\ pc[p] = "lock"
  /\ lock' = p
  /\ Goto(p, "verify")
  /\ UNCHANGED <<pointer, disk, environment, locals>>

AcquireLock(p) ==
  /\ pc[p] = "lock"
  /\ lock = NoIndexer
  /\ lock' = p
  /\ Goto(p, "verify")
  /\ UNCHANGED <<pointer, disk, environment, locals>>

\* Mutants of MayInstall: without the artifact check, without the pointer check.
MayInstallUnchecked(p) == pointer = expected[p] /\ gen[p] \in staging

MayInstallOverAny(p) == gen[p] \in staging /\ Complete(gen[p])

\* The pointer must be the one the build started from and the staging directory
\* must hold every artifact; otherwise the run gives up.
MayInstall(p) ==
  /\ pointer = expected[p]
  /\ gen[p] \in staging
  /\ Complete(gen[p])

Verify(p) ==
  /\ pc[p] = "verify"
  /\ \/ /\ MayInstall(p)
        /\ Goto(p, "rename")
        /\ UNCHANGED <<lock, disk, locals>>
     \/ /\ ~MayInstall(p)
        /\ GiveUp(p)
        /\ UNCHANGED finalized
  /\ UNCHANGED <<pointer, environment>>

Rename(p) ==
  /\ pc[p] = "rename"
  /\ \/ /\ staging' = staging \ {gen[p]}
        /\ finalized' = finalized \cup {gen[p]}
        /\ Goto(p, "swap")
        /\ UNCHANGED <<lock, dir, older, locals>>
     \/ /\ GiveUp(p)
        /\ UNCHANGED finalized
  /\ UNCHANGED <<pointer, environment>>

SwapPointer(p) ==
  /\ pc[p] = "swap"
  /\ pointer' = gen[p]
  /\ Goto(p, "cleanup")
  /\ UNCHANGED <<lock, disk, environment, locals>>

\* The pointer could not be written or replaced. A failed replacement removes the
\* finalized directory again; a failed write of the temporary file, or of a
\* directory sync, returns and leaves it as an orphan.
FailSwap(p) ==
  /\ pc[p] = "swap"
  /\ \/ /\ finalized' = finalized \ {gen[p]}
        /\ Remove({gen[p]})
     \/ UNCHANGED <<finalized, dir, older>>
  /\ ReleaseLock(p)
  /\ End(p)
  /\ UNCHANGED <<pointer, staging, environment>>

\* Mutant of Retained: keeps the directory modified last, active or not.
RetainedRecent(active) ==
  {g \in finalized : \A h \in finalized \ {g} : <<h, g>> \in older}

\* cleanup_generations keeps the active directory and, of the others, the one
\* modified last.
Retained(active) ==
  {g \in finalized : \/ g = active
                     \/ \A h \in finalized \ {active, g} : <<h, g>> \in older}

\* Staging directories of at least 24 hours are removed with it; time is not
\* modelled, any staging directory may have reached that age.
Cleanup(p) ==
  /\ pc[p] = "cleanup"
  /\ finalized' = Retained(gen[p])
  /\ \E stale \in SUBSET staging :
       /\ staging' = staging \ stale
       /\ Remove(stale \cup (finalized \ Retained(gen[p])))
  /\ ReleaseLock(p)
  /\ End(p)
  /\ UNCHANGED <<pointer, environment>>

\* The last directory sync fails after the pointer moved: no cleanup runs.
SkipCleanup(p) ==
  /\ pc[p] = "cleanup"
  /\ ReleaseLock(p)
  /\ End(p)
  /\ UNCHANGED <<pointer, disk, environment>>

---------------------------------------------------------------------------
(* The environment.                                                        *)

\* The run is killed; the operating system releases its lock.
Crash(p) ==
  /\ pc[p] # "idle"
  /\ crashes < MaxCrashes
  /\ crashes' = crashes + 1
  /\ ReleaseLock(p)
  /\ End(p)
  /\ UNCHANGED <<pointer, disk, source, live>>

EditSources ==
  /\ source < MaxSource
  /\ source' = source + 1
  /\ UNCHANGED <<pointer, lock, disk, live, crashes, pc, locals>>

\* An MCP server persists its live index, which it loaded from the active generation
\* and has kept up with the sources since: it reads the pointer without the lock and
\* writes temporary files into the generation directory ...
LivePersistBegin ==
  /\ live.gen = NoGen
  /\ Resolves(pointer)
  /\ \E reached \in dir[pointer].built..source :
       live' = [gen |-> pointer, snapshot |-> reached]
  /\ Touch(pointer)
  /\ UNCHANGED <<pointer, lock, finalized, staging, dir, source, crashes, pc, locals>>

\* ... then, under the lock and with the pointer unmoved, renames graph and manifest
\* over those of the generation ...
Persisted ==
  /\ lock = NoIndexer
  /\ pointer = live.gen
  /\ dir' = [dir EXCEPT ![live.gen].snapshot = live.snapshot]
  /\ Touch(live.gen)

\* ... or removes the files again: the pointer has moved, the lock was not granted, or
\* a rename failed. A killed server leaves them. A graph renamed without its manifest
\* leaves the state recorded, which is what is kept here; LiveIndex has that case.
NotPersisted ==
  /\ \/ live.gen \in finalized /\ Touch(live.gen)
     \/ UNCHANGED older
  /\ UNCHANGED dir

LivePersistEnd ==
  /\ live.gen # NoGen
  /\ live' = NoPersist
  /\ Persisted \/ NotPersisted
  /\ UNCHANGED <<pointer, lock, finalized, staging, source, crashes, pc, locals>>

RunStep(p) ==
  \/ StartFull(p) \/ StartUpdate(p) \/ StartUpgrade(p) \/ ReadExpected(p)
  \/ ScanSources(p) \/ ReadActive(p) \/ LockForCopy(p) \/ CopyTable(p) \/ ImportActive(p)
  \/ WriteTable(p) \/ WriteGraph(p) \/ WriteManifest(p) \/ FailBuild(p)
  \/ FallBackToFull(p) \/ Restart(p)
  \/ AcquireLock(p) \/ Verify(p) \/ Rename(p) \/ SwapPointer(p) \/ FailSwap(p)
  \/ Cleanup(p) \/ SkipCleanup(p) \/ Crash(p)

Next ==
  \/ \E p \in Indexers : RunStep(p)
  \/ EditSources
  \/ LivePersistBegin
  \/ LivePersistEnd

Spec == Init /\ [][Next]_vars

---------------------------------------------------------------------------
(* Properties.                                                             *)

\* Never half-built (README.md, "Never half-built"): whatever runs fail, crash,
\* race or clean up, the generation the pointer names is on disk, under its
\* final name, with table, graph and manifest.
ActiveIsComplete ==
  pointer # NoGen => pointer \in finalized /\ Complete(pointer)

\* A generation built from another one (an incremental update, a semantic
\* upgrade) is only ever activated over that one: an activation by another
\* process in between makes the run fail instead of being silently undone.
ActivatedOverItsBasis ==
  [][pointer' # pointer => dir'[pointer'].basis \in {NoGen, pointer}]_vars

\* Full and incremental runs keep that promise also beside semantic upgrades, which
\* do not: the activation is that of the run that holds the lock.
IndexRunsUndoNothing ==
  [][pointer' # pointer /\ kind[lock] # "upgrade" =>
       dir'[pointer'].basis \in {NoGen, pointer}]_vars

\* What a reader is served through the pointer, and what it was installed with: a
\* missing or incomplete generation counts as no index.
Served ==
  IF pointer \in finalized /\ Complete(pointer) THEN dir[pointer].snapshot ELSE NoGen

Installed ==
  IF pointer \in finalized /\ Complete(pointer) THEN dir[pointer].built ELSE NoGen

UpgradeTurn == lock # NoIndexer /\ kind[lock] = "upgrade"

Abstract ==
  INSTANCE AtomicIndex WITH
    NoIndex <- NoGen, served <- Served, installed <- Installed, upgrading <- UpgradeTurn

\* Readers of the store see an atomic index: never half-built, never lost once it
\* exists, refreshed in place by live persists but never to before what was installed,
\* and replaced, but by a semantic upgrade, by none of older sources than that.
ImplementsAtomicIndex == Abstract!Spec

---------------------------------------------------------------------------
(* Why ActiveIsComplete holds: the inductive invariant.                    *)

\* A run inside a critical section is the lock's holder.
LockDiscipline == \A p \in Indexers : pc[p] \in Locked => lock = p

\* A generation directory has one name, and an unused id has no directory.
OneName ==
  /\ staging \cap finalized = {}
  /\ \A g \in Gens \ (staging \cup finalized) : dir[g] = EmptyDirectory

\* A staging directory is written by the one run that owns its id; the id is
\* under its final name only between that run's rename and its end.
Ownership ==
  \A p \in Indexers :
    /\ gen[p] = NoGen <=> pc[p] \in {"idle", "restart", "read", "expect"}
    /\ pc[p] \notin {"swap", "cleanup"} => gen[p] \notin finalized
    /\ \A q \in Indexers \ {p} : gen[p] # NoGen => gen[p] # gen[q]

\* What install_staged_generation has checked stays true until it is used.
Installation ==
  \A p \in Indexers :
    /\ pc[p] \in {"rename", "swap"} => pointer = expected[p] /\ Complete(gen[p])
    /\ pc[p] = "rename" => gen[p] \in staging
    /\ pc[p] = "swap" => gen[p] \in finalized \ {pointer}
    /\ pc[p] = "cleanup" => gen[p] = pointer

StoreInv ==
  /\ TypeOK
  /\ LockDiscipline
  /\ OneName
  /\ Ownership
  /\ Installation
  /\ ActiveIsComplete

=============================================================================
