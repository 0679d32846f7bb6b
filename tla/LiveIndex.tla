----------------------------- MODULE LiveIndex -----------------------------
(***************************************************************************)
(* The in-process live index of core/src/live.rs: a server keeps graph and *)
(* manifest of the active generation in memory, applies file changes to    *)
(* them and to the generation's vector table in place, and writes graph    *)
(* and manifest back to the generation directory. Beside it, an external   *)
(* run (CLI or worker) builds new generations from the sources or from the *)
(* active one. Servers crash and reload; every fallible step may fail.     *)
(*                                                                         *)
(* The state of a file is a version number, which stands for its whole     *)
(* FileFingerprint: modification time, size and hash (lib.rs:1994-2001). A *)
(* write makes a new version, also one that puts earlier contents back,    *)
(* since it has a later time. When RestoresTimes is TRUE an edit may bring *)
(* an earlier version back whole, the contents with their time: a file     *)
(* moved back into place, a copy that keeps times, two writes within one   *)
(* granule. StatCache says when a fingerprint is that of the contents.     *)
(* 0 stands for an absent file.                                            *)
(***************************************************************************)
EXTENDS Naturals

CONSTANTS
  Files,
  Servers,        \* processes with a live index of the project
  NoServer,       \* the activation lock is free
  ExternalKinds,  \* kinds of external runs: "full", "update"
  RestoresTimes,  \* whether an edit may restore an earlier version, time included
  MaxEdits,       \* bound: edits of files
  MaxGens,        \* bound: generations ever activated
  MaxCrashes,     \* bound: crashes of servers
  MaxTorn         \* bound: persists that fail between their two renames

ASSUME ServerAssumption == NoServer \notin Servers
ASSUME KindAssumption == ExternalKinds \subseteq {"full", "update"}
ASSUME RestoreAssumption == RestoresTimes \in BOOLEAN
ASSUME BoundAssumption == /\ MaxEdits \in Nat /\ MaxGens \in Nat \ {0}
                          /\ MaxCrashes \in Nat /\ MaxTorn \in Nat

VARIABLES
  source,      \* source[f]: version of file f on disk
  edits,       \* edits so far
  disk,        \* disk[g]: graph, manifest and vector table of generation g
  pointer,     \* the active generation
  lock,        \* server holding the activation lock between two steps
  server,      \* server[s]: the LiveIndex object and its LiveState
  job,         \* job[s]: the changes an apply in progress carries
  save,        \* save[s]: the snapshot a persist in progress carries
  external,    \* the external run
  crashes, torn

vars == <<source, edits, disk, pointer, lock, server, job, save, external, crashes, torn>>

Absent == 0
Versions == 0..MaxEdits
Snapshot == [Files -> Versions]      \* a version of every file
Gens == 1..MaxGens
Nothing == [f \in Files |-> Absent]

Artifacts == [graph : Snapshot, manifest : Snapshot, vectors : Snapshot]

Server == [pc : {"down", "loading", "ready", "prepare", "commit"}, gen : Gens,
           graph : Snapshot, manifest : Snapshot, dirty : SUBSET Files,
           rescan : BOOLEAN, superseded : BOOLEAN, unsaved : BOOLEAN]

Down == [pc |-> "down", gen |-> 1, graph |-> Nothing, manifest |-> Nothing, dirty |-> {},
         rescan |-> FALSE, superseded |-> FALSE, unsaved |-> FALSE]

Job == [next : Snapshot, files : SUBSET Files, content : Snapshot, retry : SUBSET Files]

NoJob == [next |-> Nothing, files |-> {}, content |-> Nothing, retry |-> {}]

Save == [pc : {"idle", "snapshot", "locked", "graph", "saved", "superseded"},
         graph : Snapshot, manifest : Snapshot, latest : BOOLEAN]

NoSave == [pc |-> "idle", graph |-> Nothing, manifest |-> Nothing, latest |-> FALSE]

External == [pc : {"idle", "scan", "graph", "copy", "index", "parse", "install"},
             graph : Snapshot, manifest : Snapshot, vectors : Snapshot, snap : Snapshot]

NoExternal == [pc |-> "idle", graph |-> Nothing, manifest |-> Nothing, vectors |-> Nothing,
               snap |-> Nothing]

TypeOK ==
  /\ source \in Snapshot
  /\ edits \in 0..MaxEdits
  /\ disk \in [Gens -> Artifacts]
  /\ pointer \in Gens
  /\ lock \in Servers \cup {NoServer}
  /\ server \in [Servers -> Server]
  /\ job \in [Servers -> Job]
  /\ save \in [Servers -> Save]
  /\ external \in External
  /\ crashes \in 0..MaxCrashes
  /\ torn \in 0..MaxTorn

\* The project is empty and indexed; servers are down.
Init ==
  /\ source = Nothing
  /\ edits = 0
  /\ disk = [g \in Gens |-> [graph |-> Nothing, manifest |-> Nothing, vectors |-> Nothing]]
  /\ pointer = 1
  /\ lock = NoServer
  /\ server = [s \in Servers |-> Down]
  /\ job = [s \in Servers |-> NoJob]
  /\ save = [s \in Servers |-> NoSave]
  /\ external = NoExternal
  /\ crashes = 0
  /\ torn = 0

---------------------------------------------------------------------------
(* Helpers.                                                                *)

\* Files whose fingerprints in two snapshots differ, in any field (diff_manifest).
Differ(a, b) == {f \in Files : a[f] # b[f]}

\* Snapshot a with the versions of b for the files of a set.
Override(a, b, files) == [f \in Files |-> IF f \in files THEN b[f] ELSE a[f]]

\* Mutant of Restored: files to retry keep their new fingerprint.
RestoredNever(previous, next, retry) == next

\* restore_retry_files
Restored(previous, next, retry) == Override(next, previous, retry)

\* Mutant of Rewritten: without an embedding service the old rows stay.
RewrittenOrKept(rows, content, files) == {rows, Override(rows, content, files)}

\* write_file_vectors replaces the rows of the files; without an embedding service
\* the old rows are deleted and none are written.
Rewritten(rows, content, files) ==
  {Override(rows, content, files), Override(rows, Nothing, files)}

---------------------------------------------------------------------------
(* The environment: files and crashes.                                     *)

\* A write makes a new fingerprint; contents put back have it only with their time.
Edit(f) ==
  /\ edits < MaxEdits
  /\ edits' = edits + 1
  /\ \/ source' = [source EXCEPT ![f] = edits + 1]
     \/ source[f] # Absent /\ source' = [source EXCEPT ![f] = Absent]
     \/ /\ RestoresTimes
        /\ \E v \in 1..edits : source' = [source EXCEPT ![f] = v]
  /\ UNCHANGED <<disk, pointer, lock, server, job, save, external, crashes, torn>>

Crash(s) ==
  /\ server[s].pc # "down"
  /\ crashes < MaxCrashes
  /\ crashes' = crashes + 1
  /\ server' = [server EXCEPT ![s] = Down]
  /\ job' = [job EXCEPT ![s] = NoJob]
  /\ save' = [save EXCEPT ![s] = NoSave]
  /\ lock' = IF lock = s THEN NoServer ELSE lock
  /\ torn' = IF save[s].pc = "graph" THEN torn + 1 ELSE torn
  /\ save[s].pc = "graph" => torn < MaxTorn
  /\ UNCHANGED <<source, edits, disk, pointer, external>>

---------------------------------------------------------------------------
(* LiveIndex::load                                                         *)

\* Resolve the active generation and read its manifest ...
LoadManifest(s) ==
  /\ server[s].pc = "down"
  /\ server' = [server EXCEPT ![s].pc = "loading",
                              ![s].gen = pointer,
                              ![s].manifest = disk[pointer].manifest]
  /\ UNCHANGED <<source, edits, disk, pointer, lock, job, save, external, crashes, torn>>

\* ... then its graph. The first apply will compare everything.
LoadGraph(s) ==
  /\ server[s].pc = "loading"
  /\ server' = [server EXCEPT ![s].pc = "ready",
                              ![s].graph = disk[server[s].gen].graph,
                              ![s].rescan = TRUE]
  /\ UNCHANGED <<source, edits, disk, pointer, lock, job, save, external, crashes, torn>>

\* The caller drops a superseded live index. A persist still under way will find
\* the pointer moved and write nothing.
Reload(s) ==
  /\ server[s].pc = "ready"
  /\ server[s].superseded
  /\ server' = [server EXCEPT ![s] = Down]
  /\ save' = [save EXCEPT ![s] = NoSave]
  /\ UNCHANGED <<source, edits, disk, pointer, lock, job, external, crashes, torn>>

---------------------------------------------------------------------------
(* Applying changes. The state lock is held from the scan to the end.      *)

\* apply_paths, apply_rescan: scan the given paths, or everything if the last
\* apply did not finish, and compare with the manifest. Without differences and
\* without dirty files the apply is over.
BeginApply(s, paths) ==
  LET live == server[s]
      scope == IF live.rescan THEN Files ELSE paths
      next == Override(live.manifest, source, scope)
      files == live.dirty \cup Differ(next, live.manifest)
  IN /\ live.pc = "ready"
     /\ ~live.superseded
     /\ \/ /\ files = {}
           /\ server' = [server EXCEPT ![s].manifest = next, ![s].rescan = FALSE]
           /\ UNCHANGED job
        \/ /\ files # {}
           /\ server' = [server EXCEPT ![s].pc = "prepare", ![s].rescan = TRUE]
           /\ job' = [job EXCEPT ![s].next = next, ![s].files = files]
     /\ UNCHANGED <<source, edits, disk, pointer, lock, save, external, crashes, torn>>

\* prepare_file_changes: read and parse the files, without any lock. A file that
\* exists but cannot be read or parsed is left for a retry.
Prepare(s) ==
  /\ server[s].pc = "prepare"
  /\ \E retry \in SUBSET {f \in job[s].files : source[f] # Absent} :
       job' = [job EXCEPT ![s].content = Override(Nothing, source, job[s].files),
                          ![s].retry = retry]
  /\ server' = [server EXCEPT ![s].pc = "commit"]
  /\ UNCHANGED <<source, edits, disk, pointer, lock, save, external, crashes, torn>>

\* Reading the old vectors, embedding, the activation lock or the refresh of the
\* table handle fails.
AbortApply(s) ==
  /\ server[s].pc \in {"prepare", "commit"}
  /\ server' = [server EXCEPT ![s].pc = "ready"]
  /\ job' = [job EXCEPT ![s] = NoJob]
  /\ UNCHANGED <<source, edits, disk, pointer, lock, save, external, crashes, torn>>

\* Another process activated a generation: nothing is applied.
CommitSuperseded(s) ==
  /\ server[s].pc = "commit"
  /\ lock = NoServer
  /\ pointer # server[s].gen
  /\ server' = [server EXCEPT ![s].pc = "ready", ![s].superseded = TRUE]
  /\ job' = [job EXCEPT ![s] = NoJob]
  /\ UNCHANGED <<source, edits, disk, pointer, lock, save, external, crashes, torn>>

\* The rows are rewritten, then swap_file_graphs replaces the nodes of the files and
\* the manifest advances.
Commit(s) ==
  LET live == server[s]
      done == job[s].files \ job[s].retry
  IN /\ live.pc = "commit"
     /\ lock = NoServer
     /\ pointer = live.gen
     /\ \E v \in Rewritten(disk[live.gen].vectors, job[s].content, done) :
          disk' = [disk EXCEPT ![live.gen].vectors = v]
     /\ server' = [server EXCEPT
          ![s].pc = "ready",
          ![s].graph = Override(live.graph, job[s].content, done),
          ![s].manifest = Restored(live.manifest, job[s].next, job[s].retry),
          ![s].dirty = job[s].retry,
          ![s].rescan = FALSE,
          ![s].unsaved = TRUE]
     /\ save' = [save EXCEPT ![s].latest = FALSE]
     /\ job' = [job EXCEPT ![s] = NoJob]
     /\ UNCHANGED <<source, edits, pointer, lock, external, crashes, torn>>

\* Mutant of CommitFails: the files are not remembered as dirty.
CommitFailsClean(s) ==
  LET live == server[s]
      done == job[s].files \ job[s].retry
  IN /\ live.pc = "commit"
     /\ lock = NoServer
     /\ pointer = live.gen
     /\ disk' = [disk EXCEPT ![live.gen].vectors = Override(@, job[s].content, done)]
     /\ server' = [server EXCEPT ![s].pc = "ready"]
     /\ job' = [job EXCEPT ![s] = NoJob]
     /\ UNCHANGED <<source, edits, pointer, lock, save, external, crashes, torn>>

\* Writing the rows fails halfway: some are deleted, or all are and some written.
\* Graph and manifest stay; the files are dirty.
CommitFails(s) ==
  LET live == server[s]
      done == job[s].files \ job[s].retry
  IN /\ live.pc = "commit"
     /\ lock = NoServer
     /\ pointer = live.gen
     /\ \E part \in SUBSET done :
          \E v \in {Override(disk[live.gen].vectors, Nothing, part),
                    Override(Override(disk[live.gen].vectors, Nothing, done),
                             job[s].content, part)} :
            disk' = [disk EXCEPT ![live.gen].vectors = v]
     /\ server' = [server EXCEPT ![s].pc = "ready", ![s].dirty = job[s].files]
     /\ job' = [job EXCEPT ![s] = NoJob]
     /\ UNCHANGED <<source, edits, pointer, lock, save, external, crashes, torn>>

---------------------------------------------------------------------------
(* LiveIndex::persist                                                      *)

\* The snapshot is taken under the state lock, so between two applies.
SaveBegin(s) ==
  /\ server[s].pc = "ready"
  /\ ~server[s].superseded
  /\ server[s].unsaved
  /\ save[s].pc = "idle"
  /\ save' = [save EXCEPT ![s] = [pc |-> "snapshot", graph |-> server[s].graph,
                                  manifest |-> server[s].manifest, latest |-> TRUE]]
  /\ UNCHANGED <<source, edits, disk, pointer, lock, server, job, external, crashes, torn>>

\* Temporary files are written; then, under the activation lock, the pointer is
\* checked (an earlier check without the lock is subsumed).
SaveLock(s) ==
  /\ save[s].pc = "snapshot"
  /\ lock = NoServer
  /\ \/ /\ pointer = server[s].gen
        /\ lock' = s
        /\ save' = [save EXCEPT ![s].pc = "locked"]
     \/ /\ pointer # server[s].gen
        /\ save' = [save EXCEPT ![s].pc = "superseded"]
        /\ UNCHANGED lock
  /\ UNCHANGED <<source, edits, disk, pointer, server, job, external, crashes, torn>>

SaveGraph(s) ==
  /\ save[s].pc = "locked"
  /\ disk' = [disk EXCEPT ![server[s].gen].graph = save[s].graph]
  /\ save' = [save EXCEPT ![s].pc = "graph"]
  /\ UNCHANGED <<source, edits, pointer, lock, server, job, external, crashes, torn>>

SaveManifest(s) ==
  /\ save[s].pc = "graph"
  /\ disk' = [disk EXCEPT ![server[s].gen].manifest = save[s].manifest]
  /\ lock' = NoServer
  /\ save' = [save EXCEPT ![s].pc = "saved"]
  /\ UNCHANGED <<source, edits, pointer, server, job, external, crashes, torn>>

\* A write, the lock, one of the renames or the final directory sync fails;
\* temporary files are removed.
SaveFails(s) ==
  /\ save[s].pc \in {"snapshot", "locked", "graph", "saved"}
  /\ save[s].pc = "graph" => torn < MaxTorn
  /\ torn' = IF save[s].pc = "graph" THEN torn + 1 ELSE torn
  /\ lock' = IF lock = s THEN NoServer ELSE lock
  /\ save' = [save EXCEPT ![s] = NoSave]
  /\ UNCHANGED <<source, edits, disk, pointer, server, job, external, crashes>>

\* The result is recorded under the state lock.
SaveEnd(s) ==
  /\ server[s].pc = "ready"
  /\ save[s].pc \in {"saved", "superseded"}
  /\ server' = [server EXCEPT
       ![s].unsaved = IF save[s].pc = "saved" /\ save[s].latest THEN FALSE ELSE @,
       ![s].superseded = @ \/ save[s].pc = "superseded"]
  /\ save' = [save EXCEPT ![s] = NoSave]
  /\ UNCHANGED <<source, edits, disk, pointer, lock, job, external, crashes, torn>>

---------------------------------------------------------------------------
(* The external run; GenerationStore models its races with other runs.     *)

\* index_directory: fingerprints first ...
FullScan ==
  /\ "full" \in ExternalKinds
  /\ external.pc = "idle"
  /\ pointer < MaxGens
  /\ external' = [NoExternal EXCEPT !.pc = "parse", !.manifest = source]
  /\ UNCHANGED <<source, edits, disk, pointer, lock, server, job, save, crashes, torn>>

\* ... then the content of the files found is parsed and embedded; the build fails
\* if one of them is gone.
FullParse ==
  LET found == {f \in Files : external.manifest[f] # Absent}
  IN /\ external.pc = "parse"
     /\ \A f \in found : source[f] # Absent
     /\ \E v \in Rewritten(Nothing, source, found) :
          external' = [external EXCEPT !.pc = "install",
                                       !.graph = Override(Nothing, source, found),
                                       !.vectors = v]
     /\ UNCHANGED <<source, edits, disk, pointer, lock, server, job, save, crashes, torn>>

\* update_index: read the active manifest, without the lock, ...
UpdateReadManifest ==
  /\ "update" \in ExternalKinds
  /\ external.pc = "idle"
  /\ pointer < MaxGens
  /\ external' = [NoExternal EXCEPT !.pc = "scan", !.manifest = disk[pointer].manifest]
  /\ UNCHANGED <<source, edits, disk, pointer, lock, server, job, save, crashes, torn>>

\* ... scan the sources (and stop if nothing changed), ...
UpdateScan ==
  /\ external.pc = "scan"
  /\ external' = IF source = external.manifest THEN NoExternal
                 ELSE [external EXCEPT !.pc = "graph", !.snap = source]
  /\ UNCHANGED <<source, edits, disk, pointer, lock, server, job, save, crashes, torn>>

\* ... read the active graph, also without the lock, ...
UpdateReadGraph ==
  /\ external.pc = "graph"
  /\ external' = [external EXCEPT !.pc = "copy", !.graph = disk[pointer].graph]
  /\ UNCHANGED <<source, edits, disk, pointer, lock, server, job, save, crashes, torn>>

\* ... copy the vector table under the lock ...
UpdateCopy ==
  /\ external.pc = "copy"
  /\ lock = NoServer
  /\ external' = [external EXCEPT !.pc = "index", !.vectors = disk[pointer].vectors]
  /\ UNCHANGED <<source, edits, disk, pointer, lock, server, job, save, crashes, torn>>

\* ... and re-index the changed files in the copy.
UpdateIndex ==
  /\ external.pc = "index"
  /\ LET changed == Differ(external.snap, external.manifest)
     IN \E retry \in SUBSET {f \in changed : source[f] # Absent} :
          \E v \in Rewritten(external.vectors, source, changed \ retry) :
            external' = [external EXCEPT
              !.pc = "install",
              !.graph = Override(@, source, changed \ retry),
              !.vectors = v,
              !.manifest = Restored(external.manifest, external.snap, retry)]
  /\ UNCHANGED <<source, edits, disk, pointer, lock, server, job, save, crashes, torn>>

\* install_staged_generation
Activate ==
  /\ external.pc = "install"
  /\ lock = NoServer
  /\ disk' = [disk EXCEPT ![pointer + 1] = [graph |-> external.graph,
                                            manifest |-> external.manifest,
                                            vectors |-> external.vectors]]
  /\ pointer' = pointer + 1
  /\ external' = NoExternal
  /\ UNCHANGED <<source, edits, lock, server, job, save, crashes, torn>>

ExternalFails ==
  /\ external.pc # "idle"
  /\ external' = NoExternal
  /\ UNCHANGED <<source, edits, disk, pointer, lock, server, job, save, crashes, torn>>

---------------------------------------------------------------------------

ServerStep(s) ==
  \/ Crash(s) \/ LoadManifest(s) \/ LoadGraph(s) \/ Reload(s)
  \/ \E paths \in SUBSET Files : BeginApply(s, paths)
  \/ Prepare(s) \/ AbortApply(s) \/ CommitSuperseded(s) \/ Commit(s) \/ CommitFails(s)
  \/ SaveBegin(s) \/ SaveLock(s) \/ SaveGraph(s) \/ SaveManifest(s) \/ SaveFails(s)
  \/ SaveEnd(s)

Next ==
  \/ \E f \in Files : Edit(f)
  \/ \E s \in Servers : ServerStep(s)
  \/ FullScan \/ FullParse
  \/ UpdateReadManifest \/ UpdateScan \/ UpdateReadGraph \/ UpdateCopy \/ UpdateIndex
  \/ Activate \/ ExternalFails

Spec == Init /\ [][Next]_vars

---------------------------------------------------------------------------
(* Properties.                                                             *)

\* has_pending_changes answers "no" for server s.
NothingPending(s) ==
  /\ server[s].pc = "ready"
  /\ ~server[s].superseded
  /\ Differ(source, server[s].manifest) = {}

\* A query that finds nothing pending (live.rs has_pending_changes) is answered
\* from a graph that holds the current version of every existing file, whatever
\* crashed, failed halfway, was saved, reloaded or superseded before.
AnswersMatchDisk ==
  \A s \in Servers : NothingPending(s) =>
    \A f \in Files : source[f] # Absent => server[s].graph[f] = source[f]

\* When nothing is pending, the vectors of an existing file are those of its current
\* version or missing (engine.rs write_file_vectors), also of a file marked dirty:
\* a table written halfway, by this process or one that crashed, has no old rows of
\* a file that the manifest calls current.
VectorsMatchDisk ==
  \A s \in Servers : NothingPending(s) /\ pointer = server[s].gen =>
    \A f \in Files :
      source[f] # Absent => disk[pointer].vectors[f] \in {source[f], Absent}

\* Dirty files (live.rs LiveState): while a server runs, the rows of a file belong
\* to the version in its graph or are missing, unless the file is marked dirty;
\* also when a half-written file is put back (removed again) before the next
\* comparison, which then finds no difference. The marks are lost in a crash, and
\* an incremental run of another process may copy rows that are ahead of the graph
\* it reads: the generation is the first one, and no server has crashed.
RowsMatchGraph ==
  crashes = 0 /\ pointer = 1 =>
    \A s \in Servers : server[s].pc \notin {"down", "loading"} =>
      \A f \in Files \ server[s].dirty :
        disk[1].vectors[f] \in {server[s].graph[f], Absent}

=============================================================================
