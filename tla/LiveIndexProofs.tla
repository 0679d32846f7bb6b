-------------------------- MODULE LiveIndexProofs --------------------------
(***************************************************************************)
(* Proofs about the live index: types for any number of servers, and, for  *)
(* one server beside external runs, that what is served belongs to the     *)
(* files on disk, for any number of files, edits, generations, crashes and *)
(* torn persists.                                                          *)
(***************************************************************************)
EXTENDS LiveIndex, TLAPS

---------------------------------------------------------------------------
(* The invariant.                                                          *)

Running(s) == server[s].pc \notin {"down", "loading"}

\* The server holds a graph that is not saved yet.
Saving(s) == save[s].pc \in {"snapshot", "locked", "graph"}

\* An incremental run has read the active manifest and still reads the rest.
Reading == external.pc \in {"scan", "graph", "copy"}

\* A graph shows what a manifest promises: a file that the manifest records at its
\* present version is in the graph at that version.
Shows(graph, manifest, f) ==
  source[f] # Absent /\ manifest[f] = source[f] => graph[f] = source[f]

\* The same of the vector table, where rows may be missing.
ShowsRows(rows, manifest, f) ==
  source[f] # Absent /\ manifest[f] = source[f] => rows[f] \in {source[f], Absent}

Known(manifest) == \A f \in Files : manifest[f] <= edits

\* Versions are numbered in the order in which they were written.
AllKnown ==
  /\ Known(source)
  /\ \A g \in Gens : Known(disk[g].manifest)
  /\ \A s \in Servers : /\ Known(server[s].manifest)
                        /\ Known(job[s].next)
                        /\ Known(save[s].manifest)
  /\ Known(external.manifest)
  /\ Known(external.snap)

\* Where a server is, in its apply, its persist and against the pointer.
Phase(s) ==
  /\ server[s].gen <= pointer
  /\ ~Running(s) => save[s].pc = "idle"
  /\ ~Running(s) => ~server[s].superseded
  /\ server[s].superseded => server[s].gen < pointer
  /\ save[s].pc = "superseded" => server[s].gen < pointer
  /\ lock = s <=> save[s].pc \in {"locked", "graph"}
  /\ lock = s => server[s].gen = pointer
  /\ server[s].pc = "loading" => server[s].manifest = disk[server[s].gen].manifest
  /\ server[s].pc \in {"prepare", "commit"} =>
       /\ server[s].dirty \subseteq job[s].files
       /\ \A f \in Files \ job[s].files : job[s].next[f] = server[s].manifest[f]

\* Whatever was read or written later shows what was recorded before it: on disk, in
\* the snapshot being saved, in memory, in the changes about to be applied.
OnDisk(f) ==
  \A g \in Gens : /\ Shows(disk[g].graph, disk[g].manifest, f)
                  /\ ShowsRows(disk[g].vectors, disk[g].manifest, f)

InMemory(s, f) ==
  Running(s) =>
    /\ Shows(server[s].graph, disk[server[s].gen].manifest, f)
    /\ Shows(server[s].graph, server[s].manifest, f)
    /\ ShowsRows(disk[server[s].gen].vectors, server[s].manifest, f)

InSnapshot(s, f) ==
  Saving(s) =>
    /\ Shows(save[s].graph, disk[server[s].gen].manifest, f)
    /\ Shows(save[s].graph, save[s].manifest, f)
    /\ Shows(server[s].graph, save[s].manifest, f)
    /\ ShowsRows(disk[server[s].gen].vectors, save[s].manifest, f)
    /\ save[s].pc = "graph" => Shows(disk[server[s].gen].graph, save[s].manifest, f)

InJob(s, f) ==
  server[s].pc = "commit" /\ f \in job[s].files =>
    /\ Shows(job[s].content, disk[server[s].gen].manifest, f)
    /\ Shows(job[s].content, server[s].manifest, f)
    /\ Shows(job[s].content, job[s].next, f)
    /\ Saving(s) => Shows(job[s].content, save[s].manifest, f)

\* The external run; what it has not read yet will show the manifest it has read.
InRun(s, f) ==
  /\ Reading =>
       /\ ShowsRows(disk[pointer].vectors, external.manifest, f)
       /\ Shows(disk[pointer].graph, external.manifest, f)
       /\ Running(s) /\ server[s].gen = pointer =>
            /\ Shows(server[s].graph, external.manifest, f)
            /\ Saving(s) => Shows(save[s].graph, external.manifest, f)
            /\ server[s].pc = "commit" /\ f \in job[s].files =>
                 Shows(job[s].content, external.manifest, f)
  /\ external.pc \in {"copy", "index", "install"} =>
       Shows(external.graph, external.manifest, f)
  /\ external.pc \in {"index", "install"} =>
       ShowsRows(external.vectors, external.manifest, f)

Faithful(s) ==
  \A f \in Files : OnDisk(f) /\ InMemory(s, f) /\ InSnapshot(s, f) /\ InJob(s, f) /\ InRun(s, f)

\* What the marks of half-written files rest on: before the first crash and the first
\* activation, a server that is down has never run.
Marked(s) ==
  crashes = 0 /\ pointer = 1 =>
    /\ ~Running(s) => disk[1].vectors = Nothing /\ disk[1].graph = Nothing
    /\ Running(s) =>
         \A f \in Files \ server[s].dirty :
           disk[1].vectors[f] \in {server[s].graph[f], Absent}

\* A run that will activate a generation has a number for it.
RoomToActivate == external.pc # "idle" => pointer < MaxGens

\* Phases and marks hold for any edits ...
MarkInv == \A s \in Servers : Phase(s) /\ Marked(s)

\* ... and this for files that never return to an earlier version.
FaithInv == AllKnown /\ \A s \in Servers : Faithful(s)

---------------------------------------------------------------------------
(* Types.                                                                  *)

\* The helpers yield snapshots.
LEMMA Snapshots ==
  /\ Nothing \in Snapshot
  /\ \A a, b \in Snapshot : \A files : Override(a, b, files) \in Snapshot
  /\ \A a, b \in Snapshot : \A files : Restored(a, b, files) \in Snapshot
  /\ \A a, b \in Snapshot : \A files : Rewritten(a, b, files) \subseteq Snapshot
<1>1. Nothing \in Snapshot
  BY BoundAssumption DEF Nothing, Snapshot, Versions, Absent
<1>2. \A a, b \in Snapshot : \A files : Override(a, b, files) \in Snapshot
  BY DEF Override, Snapshot
<1> QED
  BY <1>1, <1>2 DEF Restored, Rewritten

\* The records of something that is not there are well typed.
LEMMA Blanks ==
  Down \in Server /\ NoJob \in Job /\ NoSave \in Save /\ NoExternal \in External
BY Snapshots, BoundAssumption
   DEF Down, Server, NoJob, Job, NoSave, Save, NoExternal, External, Gens

LEMMA TypeInit == Init => TypeOK /\ RoomToActivate
BY Snapshots, Blanks, BoundAssumption
   DEF Init, TypeOK, Gens, Artifacts, RoomToActivate, NoExternal

\* What is known of the parts of a well-typed state.
LEMMA Parts ==
  ASSUME TypeOK
  PROVE  /\ source \in Snapshot
         /\ \A s \in Servers : server[s] \in Server /\ job[s] \in Job /\ save[s] \in Save
         /\ \A g \in Gens : /\ disk[g].graph \in Snapshot /\ disk[g].manifest \in Snapshot
                            /\ disk[g].vectors \in Snapshot
BY DEF TypeOK, Artifacts

\* Rows may be replaced by any snapshot.
LEMMA RowsType ==
  ASSUME NEW d \in [Gens -> Artifacts], NEW g, NEW v \in Snapshot
  PROVE  [d EXCEPT ![g].vectors = v] \in [Gens -> Artifacts]
BY DEF Artifacts

LEMMA TypeCrash ==
  ASSUME TypeOK, NEW s \in Servers, Crash(s)
  PROVE  TypeOK'
<1>1. /\ server' \in [Servers -> Server] /\ job' \in [Servers -> Job]
      /\ save' \in [Servers -> Save] /\ lock' \in Servers \cup {NoServer}
  BY Blanks DEF TypeOK, Crash
<1>2. crashes' \in 0..MaxCrashes /\ torn' \in 0..MaxTorn
  BY BoundAssumption DEF TypeOK, Crash
<1> QED
  BY <1>1, <1>2 DEF TypeOK, Crash

LEMMA TypeLoad ==
  ASSUME TypeOK, NEW s \in Servers, LoadManifest(s) \/ LoadGraph(s) \/ Reload(s)
  PROVE  TypeOK'
<1>0. server \in [Servers -> Server] /\ server[s] \in Server /\ server[s].gen \in Gens
  BY DEF TypeOK, Server
<1>1. CASE LoadManifest(s)
  <2> DEFINE r == [server[s] EXCEPT !.pc = "loading", !.gen = pointer,
                                    !.manifest = disk[pointer].manifest]
  <2>1. server' = [server EXCEPT ![s] = r]
    BY <1>1 DEF LoadManifest
  <2>2. pointer \in Gens /\ disk[pointer].manifest \in Snapshot
    BY Parts DEF TypeOK
  <2>3. r \in Server
    BY <1>0, <2>2 DEF Server
  <2> QED
    BY <1>0, <1>1, <2>1, <2>3 DEF LoadManifest, TypeOK
<1>2. CASE LoadGraph(s)
  <2> DEFINE r == [server[s] EXCEPT !.pc = "ready", !.graph = disk[server[s].gen].graph,
                                    !.rescan = TRUE]
  <2>1. server' = [server EXCEPT ![s] = r]
    BY <1>2 DEF LoadGraph
  <2>2. disk[server[s].gen].graph \in Snapshot
    BY <1>0, Parts
  <2>3. r \in Server
    BY <1>0, <2>2 DEF Server
  <2> QED
    BY <1>0, <1>2, <2>1, <2>3 DEF LoadGraph, TypeOK
<1>3. CASE Reload(s)
  BY <1>3, Blanks DEF Reload, TypeOK
<1> QED
  BY <1>1, <1>2, <1>3

LEMMA TypeBegin ==
  ASSUME TypeOK, NEW s \in Servers, NEW paths \in SUBSET Files, BeginApply(s, paths)
  PROVE  TypeOK'
<1> DEFINE scope == IF server[s].rescan THEN Files ELSE paths
           next == Override(server[s].manifest, source, scope)
           files == server[s].dirty \cup Differ(next, server[s].manifest)
<1>1. /\ server \in [Servers -> Server] /\ server[s] \in Server
      /\ job \in [Servers -> Job] /\ job[s] \in Job /\ source \in Snapshot
  BY DEF TypeOK
<1>2. next \in Snapshot /\ files \in SUBSET Files
  BY <1>1, Snapshots DEF Server, Differ
<1>3. \/ /\ server' = [server EXCEPT ![s].manifest = next, ![s].rescan = FALSE]
         /\ UNCHANGED job
      \/ /\ server' = [server EXCEPT ![s].pc = "prepare", ![s].rescan = TRUE]
         /\ job' = [job EXCEPT ![s].next = next, ![s].files = files]
  BY DEF BeginApply
<1> HIDE DEF next, files
<1>4. /\ [server[s] EXCEPT !.manifest = next, !.rescan = FALSE] \in Server
      /\ [server[s] EXCEPT !.pc = "prepare", !.rescan = TRUE] \in Server
      /\ [job[s] EXCEPT !.next = next, !.files = files] \in Job
  BY <1>1, <1>2 DEF Server, Job
<1>5. server' \in [Servers -> Server]
  BY <1>1, <1>3, <1>4
<1>6. job' \in [Servers -> Job]
  BY <1>1, <1>3, <1>4
<1> QED
  BY <1>5, <1>6 DEF BeginApply, TypeOK

LEMMA TypeApply ==
  ASSUME TypeOK, NEW s \in Servers, Prepare(s) \/ AbortApply(s) \/ CommitSuperseded(s)
  PROVE  TypeOK'
<1>0. /\ server \in [Servers -> Server] /\ server[s] \in Server
      /\ job \in [Servers -> Job] /\ job[s] \in Job /\ source \in Snapshot
  BY DEF TypeOK
<1>1. CASE Prepare(s)
  <2>1. PICK retry \in SUBSET job[s].files :
          job' = [job EXCEPT ![s].content = Override(Nothing, source, job[s].files),
                             ![s].retry = retry]
    BY <1>1 DEF Prepare
  <2>2. Override(Nothing, source, job[s].files) \in Snapshot /\ retry \in SUBSET Files
    BY <1>0, Snapshots DEF Job
  <2>3. [job[s] EXCEPT !.content = Override(Nothing, source, job[s].files),
                       !.retry = retry] \in Job
    BY <1>0, <2>2 DEF Job
  <2>4. job' \in [Servers -> Job]
    BY <1>0, <2>1, <2>3
  <2>5. server' \in [Servers -> Server]
    BY <1>0, <1>1 DEF Prepare, Server
  <2> QED
    BY <1>1, <2>4, <2>5 DEF Prepare, TypeOK
<1>2. CASE AbortApply(s)
  <2>1. server' \in [Servers -> Server] /\ job' \in [Servers -> Job]
    BY <1>0, <1>2, Blanks DEF AbortApply, Server
  <2> QED
    BY <1>2, <2>1 DEF AbortApply, TypeOK
<1>3. CASE CommitSuperseded(s)
  <2>1. server' \in [Servers -> Server] /\ job' \in [Servers -> Job]
    BY <1>0, <1>3, Blanks DEF CommitSuperseded, Server
  <2> QED
    BY <1>3, <2>1 DEF CommitSuperseded, TypeOK
<1> QED
  BY <1>1, <1>2, <1>3

LEMMA TypeCommit ==
  ASSUME TypeOK, NEW s \in Servers, Commit(s) \/ CommitFails(s)
  PROVE  TypeOK'
<1> DEFINE done == job[s].files \ job[s].retry
           old == disk[server[s].gen].vectors
<1>0. /\ server \in [Servers -> Server] /\ server[s] \in Server
      /\ job \in [Servers -> Job] /\ job[s] \in Job
      /\ save \in [Servers -> Save] /\ save[s] \in Save
  BY DEF TypeOK
<1>1. /\ server[s].graph \in Snapshot /\ server[s].manifest \in Snapshot
      /\ job[s].next \in Snapshot /\ job[s].content \in Snapshot
      /\ job[s].retry \in SUBSET Files /\ job[s].files \in SUBSET Files /\ old \in Snapshot
  BY <1>0, Parts DEF Server, Job
<1>2. CASE Commit(s)
  <2> DEFINE graph == Override(server[s].graph, job[s].content, done)
             manifest == Restored(server[s].manifest, job[s].next, job[s].retry)
             r == [server[s] EXCEPT !.pc = "ready", !.graph = graph, !.manifest = manifest,
                                    !.dirty = job[s].retry, !.rescan = FALSE, !.unsaved = TRUE]
  <2>1. PICK v \in Rewritten(old, job[s].content, done) :
          disk' = [disk EXCEPT ![server[s].gen].vectors = v]
    BY <1>2 DEF Commit
  <2>2. v \in Snapshot /\ graph \in Snapshot /\ manifest \in Snapshot
    BY <1>1, <2>1, Snapshots
  <2>3. server' = [server EXCEPT ![s] = r]
    BY <1>2 DEF Commit
  <2> HIDE DEF graph, manifest
  <2>4. r \in Server
    BY <1>0, <1>1, <2>2 DEF Server
  <2>5. server' \in [Servers -> Server]
    BY <1>0, <2>3, <2>4
  <2>6. save' \in [Servers -> Save] /\ job' \in [Servers -> Job]
    BY <1>0, <1>2, Blanks DEF Commit, Save
  <2>7. disk' \in [Gens -> Artifacts]
    BY <2>1, <2>2, RowsType DEF TypeOK
  <2> QED
    BY <1>2, <2>5, <2>6, <2>7 DEF Commit, TypeOK
<1>3. CASE CommitFails(s)
  <2>1. PICK part \in SUBSET done :
          \E v \in {Override(old, Nothing, part),
                    Override(Override(old, Nothing, done), job[s].content, part)} :
            disk' = [disk EXCEPT ![server[s].gen].vectors = v]
    BY <1>3 DEF CommitFails
  <2>2. /\ Override(old, Nothing, part) \in Snapshot
        /\ Override(Override(old, Nothing, done), job[s].content, part) \in Snapshot
    BY <1>1, Snapshots
  <2>3. disk' \in [Gens -> Artifacts]
    <3>1. PICK v \in Snapshot : disk' = [disk EXCEPT ![server[s].gen].vectors = v]
      BY <2>1, <2>2
    <3> QED
      BY <3>1, RowsType DEF TypeOK
  <2>4. [server[s] EXCEPT !.pc = "ready", !.dirty = job[s].files] \in Server
    BY <1>0, <1>1 DEF Server
  <2>5. server' \in [Servers -> Server] /\ job' \in [Servers -> Job]
    BY <1>0, <1>3, <2>4, Blanks DEF CommitFails
  <2> QED
    BY <1>3, <2>3, <2>5 DEF CommitFails, TypeOK
<1> QED
  BY <1>2, <1>3

LEMMA TypeSave ==
  ASSUME TypeOK, NEW s \in Servers,
         \/ SaveBegin(s) \/ SaveLock(s) \/ SaveGraph(s) \/ SaveManifest(s) \/ SaveFails(s)
         \/ SaveEnd(s)
  PROVE  TypeOK'
<1>0. /\ server \in [Servers -> Server] /\ server[s] \in Server
      /\ save \in [Servers -> Save] /\ save[s] \in Save
      /\ disk \in [Gens -> Artifacts] /\ lock \in Servers \cup {NoServer}
  BY DEF TypeOK
<1>1. CASE SaveBegin(s)
  <2>1. save' \in [Servers -> Save]
    BY <1>0, <1>1 DEF SaveBegin, Save, Server
  <2> QED
    BY <1>1, <2>1 DEF SaveBegin, TypeOK
<1>2. CASE SaveLock(s)
  <2>1. save' \in [Servers -> Save] /\ lock' \in Servers \cup {NoServer}
    BY <1>0, <1>2 DEF SaveLock, Save
  <2> QED
    BY <1>2, <2>1 DEF SaveLock, TypeOK
<1>3. CASE SaveGraph(s)
  <2>1. save' \in [Servers -> Save]
    BY <1>0, <1>3 DEF SaveGraph, Save
  <2>2. disk' \in [Gens -> Artifacts]
    BY <1>0, <1>3 DEF SaveGraph, Save, Artifacts
  <2> QED
    BY <1>3, <2>1, <2>2 DEF SaveGraph, TypeOK
<1>4. CASE SaveManifest(s)
  <2>1. save' \in [Servers -> Save]
    BY <1>0, <1>4 DEF SaveManifest, Save
  <2>2. disk' \in [Gens -> Artifacts]
    BY <1>0, <1>4 DEF SaveManifest, Save, Artifacts
  <2> QED
    BY <1>4, <2>1, <2>2 DEF SaveManifest, TypeOK
<1>5. CASE SaveFails(s)
  <2>1. save' \in [Servers -> Save] /\ lock' \in Servers \cup {NoServer}
    BY <1>0, <1>5, Blanks DEF SaveFails
  <2>2. torn' \in 0..MaxTorn
    BY <1>5, BoundAssumption DEF SaveFails, TypeOK
  <2> QED
    BY <1>5, <2>1, <2>2 DEF SaveFails, TypeOK
<1>6. CASE SaveEnd(s)
  <2> DEFINE unsaved == IF save[s].pc = "saved" /\ save[s].latest THEN FALSE
                        ELSE server[s].unsaved
             superseded == server[s].superseded \/ save[s].pc = "superseded"
  <2>1. [server[s] EXCEPT !.unsaved = unsaved, !.superseded = superseded] \in Server
    <3>1. unsaved \in BOOLEAN /\ superseded \in BOOLEAN
      BY <1>0 DEF Server, Save
    <3> HIDE DEF unsaved, superseded
    <3> QED
      BY <1>0, <3>1 DEF Server
  <2>2. server' = [server EXCEPT ![s] = [server[s] EXCEPT !.unsaved = unsaved,
                                                          !.superseded = superseded]]
    BY <1>6 DEF SaveEnd
  <2>3. save' \in [Servers -> Save]
    BY <1>0, <1>6, Blanks DEF SaveEnd
  <2> QED
    BY <1>0, <1>6, <2>1, <2>2, <2>3 DEF SaveEnd, TypeOK
<1> QED
  BY <1>1, <1>2, <1>3, <1>4, <1>5, <1>6

RunStep ==
  \/ FullScan \/ FullParse \/ UpdateReadManifest \/ UpdateScan \/ UpdateReadGraph
  \/ UpdateCopy \/ UpdateIndex \/ Activate \/ ExternalFails

LEMMA TypeRun ==
  ASSUME TypeOK, RoomToActivate, RunStep
  PROVE  TypeOK' /\ RoomToActivate'
<1>0. external \in External /\ source \in Snapshot /\ pointer \in Gens /\ NoExternal \in External
  BY Blanks DEF TypeOK
<1>1. /\ external.graph \in Snapshot /\ external.manifest \in Snapshot
      /\ external.vectors \in Snapshot /\ external.snap \in Snapshot
  BY <1>0 DEF External
<1>2. /\ disk[pointer].graph \in Snapshot /\ disk[pointer].manifest \in Snapshot
      /\ disk[pointer].vectors \in Snapshot
  BY <1>0, Parts
<1>3. ASSUME external' \in External, UNCHANGED pointer,
             external'.pc # "idle" => external.pc # "idle" \/ pointer < MaxGens,
             UNCHANGED <<source, edits, disk, lock, server, job, save, crashes, torn>>
      PROVE  TypeOK' /\ RoomToActivate'
  BY <1>3 DEF TypeOK, RoomToActivate
<1>4. CASE FullScan
  <2>1. [NoExternal EXCEPT !.pc = "parse", !.manifest = source] \in External
    BY <1>0 DEF External
  <2> QED
    BY <1>3, <1>4, <2>1 DEF FullScan
<1>5. CASE FullParse
  <2> DEFINE found == {f \in Files : external.manifest[f] # Absent}
             graph == Override(Nothing, source, found)
  <2>1. PICK v \in Rewritten(Nothing, source, found) :
          external' = [external EXCEPT !.pc = "install", !.graph = graph, !.vectors = v]
    BY <1>5 DEF FullParse
  <2>2. v \in Snapshot /\ graph \in Snapshot
    BY <1>0, <2>1, Snapshots
  <2> HIDE DEF graph
  <2>3. external' \in External
    BY <1>0, <2>1, <2>2 DEF External
  <2> QED
    BY <1>3, <1>5, <2>3 DEF FullParse
<1>6. CASE UpdateReadManifest
  <2>1. [NoExternal EXCEPT !.pc = "scan", !.manifest = disk[pointer].manifest] \in External
    BY <1>0, <1>2 DEF External
  <2> QED
    BY <1>3, <1>6, <2>1 DEF UpdateReadManifest
<1>7. CASE UpdateScan
  <2>1. [external EXCEPT !.pc = "graph", !.snap = source] \in External
    BY <1>0 DEF External
  <2>2. external' \in External
    BY <1>0, <1>7, <2>1 DEF UpdateScan
  <2> QED
    BY <1>3, <1>7, <2>2 DEF UpdateScan
<1>8. CASE UpdateReadGraph
  <2>1. [external EXCEPT !.pc = "copy", !.graph = disk[pointer].graph] \in External
    BY <1>0, <1>2 DEF External
  <2> QED
    BY <1>3, <1>8, <2>1 DEF UpdateReadGraph
<1>9. CASE UpdateCopy
  <2>1. [external EXCEPT !.pc = "index", !.vectors = disk[pointer].vectors] \in External
    BY <1>0, <1>2 DEF External
  <2> QED
    BY <1>3, <1>9, <2>1 DEF UpdateCopy
<1>10. CASE UpdateIndex
  <2> DEFINE changed == Differ(external.snap, external.manifest)
  <2>1. PICK retry \in SUBSET changed :
          \E v \in Rewritten(external.vectors, source, changed \ retry) :
            external' = [external EXCEPT
              !.pc = "install", !.graph = Override(external.graph, source, changed \ retry),
              !.vectors = v, !.manifest = Restored(external.manifest, external.snap, retry)]
    BY <1>10 DEF UpdateIndex
  <2> DEFINE graph == Override(external.graph, source, changed \ retry)
             manifest == Restored(external.manifest, external.snap, retry)
  <2>2. PICK v \in Rewritten(external.vectors, source, changed \ retry) :
          external' = [external EXCEPT !.pc = "install", !.graph = graph, !.vectors = v,
                                       !.manifest = manifest]
    BY <2>1
  <2>3. v \in Snapshot /\ graph \in Snapshot /\ manifest \in Snapshot
    BY <1>0, <1>1, <2>2, Snapshots
  <2> HIDE DEF graph, manifest
  <2>4. external' \in External
    BY <1>0, <2>2, <2>3 DEF External
  <2> QED
    BY <1>3, <1>10, <2>4 DEF UpdateIndex
<1>11. CASE Activate
  <2>1. pointer + 1 \in Gens
    BY <1>0, <1>11, BoundAssumption DEF Activate, RoomToActivate, Gens
  <2>2. disk' \in [Gens -> Artifacts]
    BY <1>1, <1>11, <2>1 DEF Activate, Artifacts, TypeOK
  <2>3. external'.pc = "idle"
    BY <1>11 DEF Activate, NoExternal
  <2> QED
    BY <1>0, <1>11, <2>1, <2>2, <2>3 DEF Activate, TypeOK, RoomToActivate
<1>12. CASE ExternalFails
  BY <1>0, <1>3, <1>12 DEF ExternalFails
<1> QED
  BY <1>4, <1>5, <1>6, <1>7, <1>8, <1>9, <1>10, <1>11, <1>12 DEF RunStep

LEMMA TypeEdit ==
  ASSUME TypeOK, NEW f \in Files, Edit(f)
  PROVE  TypeOK'
<1>1. source' \in Snapshot
  BY BoundAssumption DEF TypeOK, Edit, Snapshot, Versions, Absent
<1>2. edits' \in 0..MaxEdits
  BY BoundAssumption DEF TypeOK, Edit
<1> QED
  BY <1>1, <1>2 DEF TypeOK, Edit

LEMMA TypeStep == TypeOK /\ RoomToActivate /\ [Next]_vars => TypeOK' /\ RoomToActivate'
<1> SUFFICES ASSUME TypeOK, RoomToActivate, [Next]_vars
             PROVE  TypeOK' /\ RoomToActivate'
  OBVIOUS
<1>1. ASSUME NEW f \in Files, Edit(f)
      PROVE  TypeOK' /\ RoomToActivate'
  BY <1>1, TypeEdit DEF Edit, RoomToActivate
<1>2. ASSUME NEW s \in Servers, ServerStep(s)
      PROVE  TypeOK' /\ RoomToActivate'
  <2>1. TypeOK'
    BY <1>2, TypeCrash, TypeLoad, TypeBegin, TypeApply, TypeCommit, TypeSave DEF ServerStep
  <2>2. UNCHANGED <<external, pointer>>
    BY <1>2 DEF ServerStep, Crash, LoadManifest, LoadGraph, Reload, BeginApply, Prepare,
      AbortApply, CommitSuperseded, Commit, CommitFails, SaveBegin, SaveLock, SaveGraph,
      SaveManifest, SaveFails, SaveEnd
  <2> QED
    BY <2>1, <2>2 DEF RoomToActivate
<1>3. CASE RunStep
  BY <1>3, TypeRun
<1>4. CASE UNCHANGED vars
  BY <1>4 DEF vars, TypeOK, RoomToActivate
<1> QED
  BY <1>1, <1>2, <1>3, <1>4 DEF Next, RunStep

\* The types of the live index, for any number of servers and also when edits restore
\* earlier versions (core/src/live.rs LiveIndex, LiveState).
THEOREM TypeCorrect == Spec => []TypeOK
BY TypeInit, TypeStep, PTL DEF Spec

---------------------------------------------------------------------------
(* What the steps do, field by field.                                      *)

LEMMA CrashEffect ==
  ASSUME TypeOK, NEW s \in Servers, Crash(s)
  PROVE  /\ server'[s].pc = "down" /\ server'[s].gen = 1 /\ ~server'[s].superseded
         /\ server'[s].manifest = Nothing
         /\ job'[s].next = Nothing /\ save'[s].pc = "idle" /\ save'[s].manifest = Nothing
         /\ lock' = (IF lock = s THEN NoServer ELSE lock) /\ crashes' # 0
         /\ UNCHANGED <<source, edits, disk, pointer, external>>
BY DEF TypeOK, Crash, Down, NoJob, NoSave

LEMMA LoadManifestEffect ==
  ASSUME TypeOK, NEW s \in Servers, LoadManifest(s)
  PROVE  /\ server[s].pc = "down" /\ server'[s].pc = "loading" /\ server'[s].gen = pointer
         /\ server'[s].manifest = disk[pointer].manifest
         /\ server'[s].superseded = server[s].superseded
         /\ UNCHANGED <<source, edits, disk, pointer, lock, job, save, external, crashes>>
BY DEF TypeOK, LoadManifest, Server

LEMMA LoadGraphEffect ==
  ASSUME TypeOK, NEW s \in Servers, LoadGraph(s)
  PROVE  /\ server[s].pc = "loading" /\ server'[s].pc = "ready"
         /\ server'[s].gen = server[s].gen /\ server'[s].manifest = server[s].manifest
         /\ server'[s].graph = disk[server[s].gen].graph
         /\ server'[s].superseded = server[s].superseded
         /\ UNCHANGED <<source, edits, disk, pointer, lock, job, save, external, crashes>>
BY DEF TypeOK, LoadGraph, Server

LEMMA ReloadEffect ==
  ASSUME TypeOK, NEW s \in Servers, Reload(s)
  PROVE  /\ server[s].pc = "ready" /\ server[s].superseded
         /\ server'[s].pc = "down" /\ server'[s].gen = 1 /\ ~server'[s].superseded
         /\ server'[s].manifest = Nothing
         /\ save'[s].pc = "idle" /\ save'[s].manifest = Nothing
         /\ UNCHANGED <<source, edits, disk, pointer, lock, job, external, crashes>>
BY DEF TypeOK, Reload, Down, NoSave

\* An apply begins, unless it finds nothing to do; the manifest it would record
\* differs from the present one on the files it will apply only.
LEMMA BeginEffect ==
  ASSUME TypeOK, NEW s \in Servers, NEW paths \in SUBSET Files, BeginApply(s, paths)
  PROVE  /\ server[s].pc = "ready" /\ ~server[s].superseded
         /\ server'[s].gen = server[s].gen /\ server'[s].graph = server[s].graph
         /\ server'[s].manifest = server[s].manifest
         /\ server'[s].superseded = server[s].superseded
         /\ server'[s].dirty = server[s].dirty
         /\ \/ server'[s].pc = "ready" /\ UNCHANGED job
            \/ /\ server'[s].pc = "prepare"
               /\ server[s].dirty \subseteq job'[s].files
               /\ \A f \in Files \ job'[s].files : job'[s].next[f] = server[s].manifest[f]
               /\ \A f \in Files : job'[s].next[f] \in {server[s].manifest[f], source[f]}
         /\ UNCHANGED <<source, edits, disk, pointer, lock, save, external, crashes>>
<1> DEFINE scope == IF server[s].rescan THEN Files ELSE paths
           next == Override(server[s].manifest, source, scope)
           files == server[s].dirty \cup Differ(next, server[s].manifest)
<1>1. /\ server \in [Servers -> Server] /\ server[s] \in Server
      /\ job \in [Servers -> Job] /\ job[s] \in Job
  BY DEF TypeOK
<1>2. /\ \A f \in Files : next[f] \in {server[s].manifest[f], source[f]}
      /\ \A f \in Files \ files : next[f] = server[s].manifest[f]
      /\ server[s].dirty \subseteq files
  BY DEF Override, Differ
<1>3. files = {} => next = server[s].manifest
  BY <1>1, <1>2 DEF Server, Snapshot, Override
<1>4. /\ server[s].pc = "ready" /\ ~server[s].superseded
      /\ \/ /\ files = {}
            /\ server' = [server EXCEPT ![s].manifest = next, ![s].rescan = FALSE]
            /\ UNCHANGED job
         \/ /\ files # {}
            /\ server' = [server EXCEPT ![s].pc = "prepare", ![s].rescan = TRUE]
            /\ job' = [job EXCEPT ![s].next = next, ![s].files = files]
  BY DEF BeginApply
<1>5. UNCHANGED <<source, edits, disk, pointer, lock, save, external, crashes>>
  BY DEF BeginApply
<1> HIDE DEF next, files
<1>6. CASE /\ files = {}
           /\ server' = [server EXCEPT ![s].manifest = next, ![s].rescan = FALSE]
           /\ UNCHANGED job
  BY <1>1, <1>3, <1>4, <1>5, <1>6 DEF Server
<1>7. CASE /\ files # {}
           /\ server' = [server EXCEPT ![s].pc = "prepare", ![s].rescan = TRUE]
           /\ job' = [job EXCEPT ![s].next = next, ![s].files = files]
  BY <1>1, <1>2, <1>4, <1>5, <1>7 DEF Server, Job
<1> QED
  BY <1>4, <1>6, <1>7

LEMMA PrepareEffect ==
  ASSUME TypeOK, NEW s \in Servers, Prepare(s)
  PROVE  /\ server[s].pc = "prepare" /\ server'[s].pc = "commit"
         /\ server'[s].gen = server[s].gen /\ server'[s].graph = server[s].graph
         /\ server'[s].manifest = server[s].manifest
         /\ server'[s].superseded = server[s].superseded
         /\ server'[s].dirty = server[s].dirty
         /\ job'[s].next = job[s].next /\ job'[s].files = job[s].files
         /\ job'[s].retry \subseteq job[s].files
         /\ \A f \in job[s].files : job'[s].content[f] = source[f]
         /\ UNCHANGED <<source, edits, disk, pointer, lock, save, external, crashes>>
<1>1. server \in [Servers -> Server] /\ job \in [Servers -> Job] /\ job[s].files \subseteq Files
  BY DEF TypeOK, Job
<1>2. PICK retry \in SUBSET job[s].files :
        job' = [job EXCEPT ![s].content = Override(Nothing, source, job[s].files),
                           ![s].retry = retry]
  BY DEF Prepare
<1>3. /\ job'[s].next = job[s].next /\ job'[s].files = job[s].files
      /\ job'[s].retry = retry
      /\ job'[s].content = Override(Nothing, source, job[s].files)
  BY <1>1, <1>2 DEF Job
<1> QED
  BY <1>1, <1>3 DEF Prepare, Server, Override

\* An apply that stops without effect.
LEMMA StopEffect ==
  ASSUME TypeOK, NEW s \in Servers, AbortApply(s) \/ CommitSuperseded(s)
  PROVE  /\ server[s].pc \in {"prepare", "commit"} /\ server'[s].pc = "ready"
         /\ server'[s].gen = server[s].gen /\ server'[s].graph = server[s].graph
         /\ server'[s].manifest = server[s].manifest
         /\ server'[s].superseded = server[s].superseded \/ pointer # server[s].gen
         /\ server'[s].dirty = server[s].dirty
         /\ job'[s].next = Nothing
         /\ UNCHANGED <<source, edits, disk, pointer, lock, save, external, crashes>>
<1>1. CASE AbortApply(s)
  BY <1>1 DEF TypeOK, AbortApply, Server, NoJob
<1>2. CASE CommitSuperseded(s)
  <2>1. server \in [Servers -> Server] /\ job \in [Servers -> Job]
    BY DEF TypeOK
  <2>2. /\ server'[s].pc = "ready" /\ server'[s].gen = server[s].gen
        /\ server'[s].graph = server[s].graph /\ server'[s].manifest = server[s].manifest
        /\ server'[s].dirty = server[s].dirty
    BY <1>2, <2>1 DEF CommitSuperseded, Server
  <2> QED
    BY <1>2, <2>1, <2>2 DEF CommitSuperseded, NoJob
<1> QED
  BY <1>1, <1>2

\* An apply is committed. The files that were not left for a retry are replaced in
\* the graph, in the table and in the manifest.
LEMMA CommitEffect ==
  ASSUME TypeOK, NEW s \in Servers, Commit(s)
  PROVE  /\ server[s].pc = "commit" /\ lock = NoServer /\ pointer = server[s].gen
         /\ server'[s].pc = "ready" /\ server'[s].gen = server[s].gen
         /\ server'[s].superseded = server[s].superseded
         /\ server'[s].dirty = job[s].retry
         /\ \A f \in Files :
              IF f \in job[s].retry
              THEN server'[s].manifest[f] = server[s].manifest[f]
              ELSE server'[s].manifest[f] = job[s].next[f]
         /\ \A f \in Files :
              IF f \in job[s].files \ job[s].retry
              THEN /\ server'[s].graph[f] = job[s].content[f]
                   /\ disk'[pointer].vectors[f] \in {job[s].content[f], Absent}
              ELSE /\ server'[s].graph[f] = server[s].graph[f]
                   /\ disk'[pointer].vectors[f] = disk[pointer].vectors[f]
         /\ \A g \in Gens :
              /\ disk'[g].graph = disk[g].graph /\ disk'[g].manifest = disk[g].manifest
              /\ g # pointer => disk'[g].vectors = disk[g].vectors
         /\ save'[s].pc = save[s].pc /\ save'[s].graph = save[s].graph
         /\ save'[s].manifest = save[s].manifest /\ job'[s].next = Nothing
         /\ UNCHANGED <<source, edits, pointer, lock, external, crashes>>
<1> DEFINE done == job[s].files \ job[s].retry
           old == disk[server[s].gen].vectors
           graph == Override(server[s].graph, job[s].content, done)
           manifest == Restored(server[s].manifest, job[s].next, job[s].retry)
<1>1. /\ server \in [Servers -> Server] /\ job \in [Servers -> Job] /\ save \in [Servers -> Save]
      /\ disk \in [Gens -> Artifacts] /\ pointer \in Gens
  BY DEF TypeOK
<1>2. PICK v \in Rewritten(old, job[s].content, done) :
        disk' = [disk EXCEPT ![server[s].gen].vectors = v]
    BY DEF Commit
<1>3. /\ server[s].pc = "commit" /\ lock = NoServer /\ pointer = server[s].gen
      /\ job'[s].next = Nothing
      /\ UNCHANGED <<source, edits, pointer, lock, external, crashes>>
  BY <1>1 DEF Commit, NoJob
<1>4. \A f \in Files : IF f \in done THEN v[f] \in {job[s].content[f], Absent}
                       ELSE v[f] = old[f]
  BY <1>2 DEF Rewritten, Override, Nothing
<1>5. /\ \A f \in Files : IF f \in done THEN graph[f] = job[s].content[f]
                          ELSE graph[f] = server[s].graph[f]
      /\ \A f \in Files : IF f \in job[s].retry THEN manifest[f] = server[s].manifest[f]
                          ELSE manifest[f] = job[s].next[f]
  BY DEF Restored, Override
<1>6. server' = [server EXCEPT ![s] =
        [server[s] EXCEPT !.pc = "ready", !.graph = graph, !.manifest = manifest,
                          !.dirty = job[s].retry, !.rescan = FALSE, !.unsaved = TRUE]]
  BY DEF Commit
<1> HIDE DEF graph, manifest, done
<1>7. /\ server'[s].pc = "ready" /\ server'[s].gen = server[s].gen
      /\ server'[s].superseded = server[s].superseded /\ server'[s].dirty = job[s].retry
      /\ server'[s].graph = graph /\ server'[s].manifest = manifest
  BY <1>1, <1>6 DEF Server
<1>8. /\ save'[s].pc = save[s].pc /\ save'[s].graph = save[s].graph
      /\ save'[s].manifest = save[s].manifest
  BY <1>1 DEF Commit, Save
<1>9. /\ disk'[pointer].vectors = v
      /\ \A g \in Gens :
           /\ disk'[g].graph = disk[g].graph /\ disk'[g].manifest = disk[g].manifest
           /\ g # pointer => disk'[g].vectors = disk[g].vectors
  BY <1>1, <1>2, <1>3 DEF Artifacts
<1> QED
  BY <1>3, <1>4, <1>5, <1>7, <1>8, <1>9 DEF done

\* The table is left half-written: rows are old, new or missing.
LEMMA CommitFailsEffect ==
  ASSUME TypeOK, NEW s \in Servers, CommitFails(s)
  PROVE  /\ server[s].pc = "commit" /\ lock = NoServer /\ pointer = server[s].gen
         /\ server'[s].pc = "ready" /\ server'[s].gen = server[s].gen
         /\ server'[s].superseded = server[s].superseded
         /\ server'[s].dirty = job[s].files
         /\ server'[s].manifest = server[s].manifest /\ server'[s].graph = server[s].graph
         /\ \A f \in Files :
              IF f \in job[s].files
              THEN disk'[pointer].vectors[f] \in
                     {job[s].content[f], Absent, disk[pointer].vectors[f]}
              ELSE disk'[pointer].vectors[f] = disk[pointer].vectors[f]
         /\ \A g \in Gens :
              /\ disk'[g].graph = disk[g].graph /\ disk'[g].manifest = disk[g].manifest
              /\ g # pointer => disk'[g].vectors = disk[g].vectors
         /\ job'[s].next = Nothing
         /\ UNCHANGED <<source, edits, pointer, lock, save, external, crashes>>
<1> DEFINE done == job[s].files \ job[s].retry
           old == disk[server[s].gen].vectors
<1>1. /\ server \in [Servers -> Server] /\ job \in [Servers -> Job]
      /\ disk \in [Gens -> Artifacts] /\ pointer \in Gens
  BY DEF TypeOK
<1>2. PICK part \in SUBSET done :
        \E v \in {Override(old, Nothing, part),
                  Override(Override(old, Nothing, done), job[s].content, part)} :
          disk' = [disk EXCEPT ![server[s].gen].vectors = v]
  BY DEF CommitFails
<1>3. PICK v \in {Override(old, Nothing, part),
                  Override(Override(old, Nothing, done), job[s].content, part)} :
        disk' = [disk EXCEPT ![server[s].gen].vectors = v]
  BY <1>2
<1>4. \A f \in Files : IF f \in done THEN v[f] \in {job[s].content[f], Absent, old[f]}
                       ELSE v[f] = old[f]
  BY <1>3 DEF Override, Nothing
<1>5. /\ server[s].pc = "commit" /\ lock = NoServer /\ pointer = server[s].gen
      /\ job'[s].next = Nothing
      /\ UNCHANGED <<source, edits, pointer, lock, save, external, crashes>>
  BY <1>1 DEF CommitFails, NoJob
<1>6. /\ server'[s].pc = "ready" /\ server'[s].gen = server[s].gen
      /\ server'[s].superseded = server[s].superseded /\ server'[s].dirty = job[s].files
      /\ server'[s].manifest = server[s].manifest /\ server'[s].graph = server[s].graph
  BY <1>1 DEF CommitFails, Server
<1>7. /\ disk'[pointer].vectors = v
      /\ \A g \in Gens :
           /\ disk'[g].graph = disk[g].graph /\ disk'[g].manifest = disk[g].manifest
           /\ g # pointer => disk'[g].vectors = disk[g].vectors
  BY <1>1, <1>3, <1>5 DEF Artifacts
<1> QED
  BY <1>4, <1>5, <1>6, <1>7

LEMMA SaveBeginEffect ==
  ASSUME TypeOK, NEW s \in Servers, SaveBegin(s)
  PROVE  /\ server[s].pc = "ready" /\ save[s].pc = "idle" /\ save'[s].pc = "snapshot"
         /\ save'[s].graph = server[s].graph /\ save'[s].manifest = server[s].manifest
         /\ UNCHANGED <<source, edits, disk, pointer, lock, server, job, external, crashes>>
BY DEF TypeOK, SaveBegin

LEMMA SaveLockEffect ==
  ASSUME TypeOK, NEW s \in Servers, SaveLock(s)
  PROVE  /\ save[s].pc = "snapshot" /\ lock = NoServer
         /\ save'[s].graph = save[s].graph /\ save'[s].manifest = save[s].manifest
         /\ \/ pointer = server[s].gen /\ lock' = s /\ save'[s].pc = "locked"
            \/ pointer # server[s].gen /\ lock' = lock /\ save'[s].pc = "superseded"
         /\ UNCHANGED <<source, edits, disk, pointer, server, job, external, crashes>>
BY DEF TypeOK, SaveLock, Save

LEMMA SaveGraphEffect ==
  ASSUME TypeOK, NEW s \in Servers, SaveGraph(s)
  PROVE  /\ save[s].pc = "locked" /\ save'[s].pc = "graph"
         /\ save'[s].graph = save[s].graph /\ save'[s].manifest = save[s].manifest
         /\ disk'[server[s].gen].graph = save[s].graph
         /\ \A g \in Gens :
              /\ disk'[g].manifest = disk[g].manifest /\ disk'[g].vectors = disk[g].vectors
              /\ g # server[s].gen => disk'[g].graph = disk[g].graph
         /\ UNCHANGED <<source, edits, pointer, lock, server, job, external, crashes>>
<1>1. /\ disk \in [Gens -> Artifacts] /\ server[s].gen \in Gens /\ save \in [Servers -> Save]
  BY DEF TypeOK, Server
<1>2. disk' = [disk EXCEPT ![server[s].gen].graph = save[s].graph]
  BY DEF SaveGraph
<1>3. /\ disk'[server[s].gen].graph = save[s].graph
      /\ \A g \in Gens :
           /\ disk'[g].manifest = disk[g].manifest /\ disk'[g].vectors = disk[g].vectors
           /\ g # server[s].gen => disk'[g].graph = disk[g].graph
  BY <1>1, <1>2 DEF Artifacts
<1> QED
  BY <1>1, <1>3 DEF SaveGraph, Save

LEMMA SaveManifestEffect ==
  ASSUME TypeOK, NEW s \in Servers, SaveManifest(s)
  PROVE  /\ save[s].pc = "graph" /\ save'[s].pc = "saved"
         /\ save'[s].manifest = save[s].manifest
         /\ disk'[server[s].gen].manifest = save[s].manifest
         /\ \A g \in Gens :
              /\ disk'[g].graph = disk[g].graph /\ disk'[g].vectors = disk[g].vectors
              /\ g # server[s].gen => disk'[g].manifest = disk[g].manifest
         /\ lock' = NoServer
         /\ UNCHANGED <<source, edits, pointer, server, job, external, crashes>>
<1>1. /\ disk \in [Gens -> Artifacts] /\ server[s].gen \in Gens /\ save \in [Servers -> Save]
  BY DEF TypeOK, Server
<1>2. disk' = [disk EXCEPT ![server[s].gen].manifest = save[s].manifest]
  BY DEF SaveManifest
<1>3. /\ disk'[server[s].gen].manifest = save[s].manifest
      /\ \A g \in Gens :
           /\ disk'[g].graph = disk[g].graph /\ disk'[g].vectors = disk[g].vectors
           /\ g # server[s].gen => disk'[g].manifest = disk[g].manifest
  BY <1>1, <1>2 DEF Artifacts
<1> QED
  BY <1>1, <1>3 DEF SaveManifest, Save

\* A persist that ends, in failure or with its result recorded.
LEMMA SaveEndsEffect ==
  ASSUME TypeOK, NEW s \in Servers, SaveFails(s) \/ SaveEnd(s)
  PROVE  /\ save[s].pc # "idle" /\ save'[s].pc = "idle" /\ save'[s].manifest = Nothing
         /\ lock' = lock \/ lock' = NoServer
         /\ lock' = s => lock = s /\ save[s].pc \in {"saved", "superseded"}
         /\ server'[s].pc = server[s].pc /\ server'[s].gen = server[s].gen
         /\ server'[s].graph = server[s].graph /\ server'[s].manifest = server[s].manifest
         /\ server'[s].dirty = server[s].dirty
         /\ \/ server'[s].superseded = server[s].superseded
            \/ save[s].pc = "superseded" /\ server[s].pc = "ready"
         /\ UNCHANGED <<source, edits, disk, pointer, job, external, crashes>>
<1>0. server \in [Servers -> Server] /\ save \in [Servers -> Save]
  BY DEF TypeOK
<1>1. CASE SaveFails(s)
  BY <1>0, <1>1, ServerAssumption DEF SaveFails, NoSave
<1>2. CASE SaveEnd(s)
  <2>1. /\ server'[s].pc = server[s].pc /\ server'[s].gen = server[s].gen
        /\ server'[s].graph = server[s].graph /\ server'[s].manifest = server[s].manifest
        /\ server'[s].dirty = server[s].dirty
    BY <1>0, <1>2 DEF SaveEnd, Server
  <2>2. server'[s].superseded = (server[s].superseded \/ save[s].pc = "superseded")
    BY <1>0, <1>2 DEF SaveEnd, Server
  <2>3. server[s].superseded \in BOOLEAN
    BY <1>0 DEF Server
  <2>4. \/ server'[s].superseded = server[s].superseded
        \/ save[s].pc = "superseded"
    BY <2>2, <2>3
  <2> QED
    BY <1>0, <1>2, <2>1, <2>4 DEF SaveEnd, NoSave
<1> QED
  BY <1>1, <1>2

\* The external run reads; only its own record changes.
LEMMA FullEffect ==
  ASSUME TypeOK, FullScan \/ FullParse
  PROVE  /\ \/ /\ external.pc = "idle" /\ external'.pc = "parse"
               /\ external'.manifest = source /\ external'.snap = Nothing
            \/ /\ external.pc = "parse" /\ external'.pc = "install"
               /\ external'.manifest = external.manifest /\ external'.snap = external.snap
               /\ \A f \in Files : external.manifest[f] # Absent =>
                    /\ external'.graph[f] = source[f]
                    /\ external'.vectors[f] \in {source[f], Absent}
         /\ UNCHANGED <<source, edits, disk, pointer, lock, server, job, save, crashes>>
<1>1. CASE FullScan
  BY <1>1 DEF FullScan, NoExternal
<1>2. CASE FullParse
  <2> DEFINE found == {f \in Files : external.manifest[f] # Absent}
             graph == Override(Nothing, source, found)
  <2>1. PICK v \in Rewritten(Nothing, source, found) :
          external' = [external EXCEPT !.pc = "install", !.graph = graph, !.vectors = v]
    BY <1>2 DEF FullParse
  <2>2. \A f \in found : graph[f] = source[f] /\ v[f] \in {source[f], Absent}
    BY <2>1 DEF Rewritten, Override, Nothing
  <2> HIDE DEF graph
  <2>3. /\ external'.pc = "install" /\ external'.graph = graph /\ external'.vectors = v
        /\ external'.manifest = external.manifest /\ external'.snap = external.snap
    BY <2>1 DEF TypeOK, External
  <2> QED
    BY <1>2, <2>2, <2>3 DEF FullParse
<1> QED
  BY <1>1, <1>2

LEMMA UpdateReadsEffect ==
  ASSUME TypeOK, UpdateReadManifest \/ UpdateScan \/ UpdateReadGraph \/ UpdateCopy
  PROVE  /\ \/ /\ external.pc = "idle" /\ external'.pc = "scan"
               /\ external'.manifest = disk[pointer].manifest /\ external'.snap = Nothing
            \/ /\ external.pc = "scan" /\ external'.pc = "idle"
               /\ external'.manifest = Nothing /\ external'.snap = Nothing
            \/ /\ external.pc = "scan" /\ external'.pc = "graph"
               /\ external'.manifest = external.manifest /\ external'.snap = source
            \/ /\ external.pc = "graph" /\ external'.pc = "copy"
               /\ external'.graph = disk[pointer].graph
               /\ external'.manifest = external.manifest /\ external'.snap = external.snap
            \/ /\ external.pc = "copy" /\ external'.pc = "index"
               /\ external'.vectors = disk[pointer].vectors
               /\ external'.graph = external.graph
               /\ external'.manifest = external.manifest /\ external'.snap = external.snap
         /\ UNCHANGED <<source, edits, disk, pointer, lock, server, job, save, crashes>>
<1>0. external \in External
  BY DEF TypeOK
<1>1. CASE UpdateReadManifest
  BY <1>1 DEF UpdateReadManifest, NoExternal
<1>2. CASE UpdateScan
  BY <1>0, <1>2 DEF UpdateScan, NoExternal, External
<1>3. CASE UpdateReadGraph
  BY <1>0, <1>3 DEF UpdateReadGraph, External
<1>4. CASE UpdateCopy
  BY <1>0, <1>4 DEF UpdateCopy, External
<1> QED
  BY <1>1, <1>2, <1>3, <1>4

\* Changed files are read again now; the others keep what was read before.
LEMMA UpdateIndexEffect ==
  ASSUME TypeOK, UpdateIndex
  PROVE  /\ external.pc = "index" /\ external'.pc = "install"
         /\ external'.snap = external.snap
         /\ \A f \in Files :
              \/ /\ external'.manifest[f] = external.snap[f]
                 /\ external'.graph[f] = source[f]
                 /\ external'.vectors[f] \in {source[f], Absent}
              \/ /\ external'.manifest[f] = external.manifest[f]
                 /\ external'.graph[f] = external.graph[f]
                 /\ external'.vectors[f] = external.vectors[f]
         /\ UNCHANGED <<source, edits, disk, pointer, lock, server, job, save, crashes>>
<1> DEFINE changed == Differ(external.snap, external.manifest)
<1>1. PICK retry \in SUBSET changed :
        \E v \in Rewritten(external.vectors, source, changed \ retry) :
          external' = [external EXCEPT
            !.pc = "install", !.graph = Override(external.graph, source, changed \ retry),
            !.vectors = v, !.manifest = Restored(external.manifest, external.snap, retry)]
  BY DEF UpdateIndex
<1> DEFINE graph == Override(external.graph, source, changed \ retry)
           manifest == Restored(external.manifest, external.snap, retry)
<1>2. PICK v \in Rewritten(external.vectors, source, changed \ retry) :
        external' = [external EXCEPT !.pc = "install", !.graph = graph, !.vectors = v,
                                     !.manifest = manifest]
  BY <1>1
<1>3. \A f \in Files :
        \/ /\ manifest[f] = external.snap[f] /\ graph[f] = source[f]
           /\ v[f] \in {source[f], Absent}
        \/ /\ manifest[f] = external.manifest[f] /\ graph[f] = external.graph[f]
           /\ v[f] = external.vectors[f]
  <2> TAKE f \in Files
  <2>1. CASE f \in changed \ retry
    BY <1>2, <2>1 DEF Restored, Rewritten, Override, Nothing
  <2>2. CASE f \notin changed \ retry
    BY <1>2, <2>2 DEF Restored, Rewritten, Override, Nothing, Differ
  <2> QED
    BY <2>1, <2>2
<1> HIDE DEF graph, manifest
<1>4. /\ external'.pc = "install" /\ external'.graph = graph /\ external'.vectors = v
      /\ external'.manifest = manifest /\ external'.snap = external.snap
  BY <1>2 DEF TypeOK, External
<1> QED
  BY <1>3, <1>4 DEF UpdateIndex

LEMMA ActivateEffect ==
  ASSUME TypeOK, RoomToActivate, Activate
  PROVE  /\ external.pc = "install" /\ lock = NoServer
         /\ pointer' = pointer + 1 /\ pointer' \in Gens
         /\ disk'[pointer'].graph = external.graph
         /\ disk'[pointer'].manifest = external.manifest
         /\ disk'[pointer'].vectors = external.vectors
         /\ \A g \in Gens : g # pointer' => disk'[g] = disk[g]
         /\ external'.pc = "idle" /\ external'.manifest = Nothing /\ external'.snap = Nothing
         /\ UNCHANGED <<source, edits, lock, server, job, save, crashes>>
<1>1. pointer' = pointer + 1 /\ pointer' \in Gens
  BY BoundAssumption DEF Activate, TypeOK, RoomToActivate, Gens
<1> QED
  BY <1>1 DEF Activate, TypeOK, NoExternal

LEMMA ExternalFailsEffect ==
  ASSUME TypeOK, ExternalFails
  PROVE  /\ external'.pc = "idle" /\ external'.manifest = Nothing /\ external'.snap = Nothing
         /\ UNCHANGED <<source, edits, disk, pointer, lock, server, job, save, crashes>>
BY DEF ExternalFails, NoExternal

\* A file gets a version that no manifest can have recorded, or goes.
LEMMA EditEffect ==
  ASSUME TypeOK, ~RestoresTimes, NEW e \in Files, Edit(e)
  PROVE  /\ edits' = edits + 1
         /\ \A f \in Files : source'[f] \in {source[f], Absent, edits'}
         /\ UNCHANGED <<disk, pointer, lock, server, job, save, external, crashes>>
<1>1. source \in [Files -> Versions]
  BY DEF TypeOK, Snapshot
<1> QED
  BY <1>1 DEF Edit

---------------------------------------------------------------------------
(* Each step keeps the invariant, with one server.                         *)

\* Versions are numbers, absence the least.
LEMMA Numbers ==
  ASSUME TypeOK
  PROVE  /\ edits \in Nat /\ Absent \in Nat /\ Absent <= edits
         /\ pointer \in Gens /\ \A s \in Servers : server[s].gen \in Gens
         /\ \A f \in Files : source[f] \in Nat /\ Nothing[f] = Absent
         /\ \A f \in Files, g \in Gens : disk[g].manifest[f] \in Nat
         /\ \A g \in Gens : g \in Nat /\ g >= 1
<1>1. edits \in Nat /\ Absent \in Nat /\ Absent <= edits
  BY BoundAssumption DEF TypeOK, Absent
<1>2. Versions \subseteq Nat
  BY BoundAssumption DEF Versions
<1>3. /\ source \in [Files -> Versions]
      /\ \A g \in Gens : disk[g].manifest \in [Files -> Versions]
  BY Parts DEF Snapshot
<1>4. pointer \in Gens /\ \A s \in Servers : server[s].gen \in Gens
  BY DEF TypeOK, Server
<1>5. \A g \in Gens : g \in Nat /\ g >= 1
  BY BoundAssumption DEF Gens
<1> QED
  BY <1>1, <1>2, <1>3, <1>4, <1>5 DEF Nothing

\* Where the server is, and its marks of half-written files, step by step.
LEMMA PhaseServer ==
  ASSUME TypeOK, NEW s \in Servers, Phase(s), Marked(s), ServerStep(s)
  PROVE  Phase(s)' /\ Marked(s)'
<1> USE Numbers, ServerAssumption DEF Phase, Marked, Running
<1>1. CASE Crash(s)
  <2>1. Phase(s)'
    BY <1>1, CrashEffect
  <2>2. Marked(s)'
    BY <1>1, CrashEffect
  <2> QED
    BY <2>1, <2>2
<1>2. CASE LoadManifest(s)
  <2>1. Phase(s)'
    BY <1>2, LoadManifestEffect
  <2>2. Marked(s)'
    BY <1>2, LoadManifestEffect
  <2> QED
    BY <2>1, <2>2
<1>3. CASE LoadGraph(s)
  <2>1. Phase(s)'
    BY <1>3, LoadGraphEffect
  <2>2. Marked(s)'
    BY <1>3, LoadGraphEffect
  <2> QED
    BY <2>1, <2>2
<1>4. CASE Reload(s)
  <2>1. Phase(s)'
    BY <1>4, ReloadEffect
  <2>2. Marked(s)'
    BY <1>4, ReloadEffect
  <2> QED
    BY <2>1, <2>2
<1>5. ASSUME NEW paths \in SUBSET Files, BeginApply(s, paths)
      PROVE  Phase(s)' /\ Marked(s)'
  <2>1. Phase(s)'
    BY <1>5, BeginEffect
  <2>2. Marked(s)'
    BY <1>5, BeginEffect
  <2> QED
    BY <2>1, <2>2
<1>6. CASE Prepare(s)
  <2>1. Phase(s)'
    BY <1>6, PrepareEffect
  <2>2. Marked(s)'
    BY <1>6, PrepareEffect
  <2> QED
    BY <2>1, <2>2
<1>7. CASE AbortApply(s) \/ CommitSuperseded(s)
  <2>1. Phase(s)'
    BY <1>7, StopEffect
  <2>2. Marked(s)'
    BY <1>7, StopEffect
  <2> QED
    BY <2>1, <2>2
<1>8. CASE Commit(s)
  <2>1. Phase(s)'
    BY <1>8, CommitEffect
  <2>2. Marked(s)'
    BY <1>8, CommitEffect
  <2> QED
    BY <2>1, <2>2
<1>9. CASE CommitFails(s)
  <2>1. Phase(s)'
    BY <1>9, CommitFailsEffect
  <2>2. Marked(s)'
    BY <1>9, CommitFailsEffect
  <2> QED
    BY <2>1, <2>2
<1>10. CASE SaveBegin(s)
  <2>1. Phase(s)'
    BY <1>10, SaveBeginEffect
  <2>2. Marked(s)'
    BY <1>10, SaveBeginEffect
  <2> QED
    BY <2>1, <2>2
<1>11. CASE SaveLock(s)
  <2>1. Phase(s)'
    BY <1>11, SaveLockEffect
  <2>2. Marked(s)'
    BY <1>11, SaveLockEffect
  <2> QED
    BY <2>1, <2>2
<1>12. CASE SaveGraph(s)
  <2>1. Phase(s)'
    BY <1>12, SaveGraphEffect
  <2>2. Marked(s)'
    BY <1>12, SaveGraphEffect
  <2> QED
    BY <2>1, <2>2
<1>13. CASE SaveManifest(s)
  <2>1. Phase(s)'
    BY <1>13, SaveManifestEffect
  <2>2. Marked(s)'
    BY <1>13, SaveManifestEffect
  <2> QED
    BY <2>1, <2>2
<1>14. CASE SaveFails(s) \/ SaveEnd(s)
  <2>1. Phase(s)'
    BY <1>14, SaveEndsEffect
  <2>2. Marked(s)'
    BY <1>14, SaveEndsEffect
  <2> QED
    BY <2>1, <2>2
<1> QED
  BY <1>1, <1>2, <1>3, <1>4, <1>5, <1>6, <1>7, <1>8, <1>9, <1>10, <1>11, <1>12, <1>13, <1>14
  DEF ServerStep

LEMMA PhaseOther ==
  ASSUME TypeOK, RoomToActivate, NEW s \in Servers, Phase(s), Marked(s),
         RunStep \/ \E e \in Files : Edit(e)
  PROVE  Phase(s)' /\ Marked(s)'
<1> USE Numbers, ServerAssumption DEF Phase, Marked, Running
<1>1. ASSUME UNCHANGED <<disk, pointer, lock, server, job, save, crashes>>
      PROVE  Phase(s)' /\ Marked(s)'
  BY <1>1
<1>2. CASE Activate
  BY <1>2, ActivateEffect
<1>3. CASE RunStep /\ ~Activate
  BY <1>1, <1>3 DEF RunStep, FullScan, FullParse, UpdateReadManifest, UpdateScan,
    UpdateReadGraph, UpdateCopy, UpdateIndex, ExternalFails
<1>4. ASSUME NEW e \in Files, Edit(e)
      PROVE  Phase(s)' /\ Marked(s)'
  BY <1>1, <1>4 DEF Edit
<1> QED
  BY <1>2, <1>3, <1>4

LEMMA CrashStep ==
  ASSUME TypeOK, AllKnown, NEW s \in Servers, Servers = {s}, Phase(s), Faithful(s),
         Crash(s)
  PROVE  AllKnown' /\ Faithful(s)'
<1>1. AllKnown'
  BY CrashEffect, Numbers DEF AllKnown, Known
<1>2. ASSUME NEW f \in Files
      PROVE  (OnDisk(f) /\ InMemory(s, f) /\ InSnapshot(s, f) /\ InJob(s, f) /\ InRun(s, f))'
  <2> USE CrashEffect, Numbers DEF Shows, ShowsRows
  <2>1. OnDisk(f) /\ InMemory(s, f) /\ InSnapshot(s, f) /\ InJob(s, f) /\ InRun(s, f)
    BY DEF Faithful
  <2>2. OnDisk(f)'
    BY <2>1 DEF OnDisk, InMemory, InSnapshot, InJob, InRun, Phase, Running, Saving
  <2>3. InMemory(s, f)'
    BY <2>1 DEF OnDisk, InMemory, InSnapshot, InJob, Phase, Running, Saving
  <2>4. InSnapshot(s, f)'
    BY <2>1 DEF OnDisk, InMemory, InSnapshot, InJob, Phase, Running, Saving
  <2>5. InJob(s, f)'
    BY <2>1 DEF InMemory, InJob, Phase, Running, Saving
  <2>6. InRun(s, f)'
    BY <2>1 DEF OnDisk, InMemory, InSnapshot, InJob, InRun, Phase, Running, Saving, Reading
  <2> QED
    BY <2>2, <2>3, <2>4, <2>5, <2>6
<1> QED
  BY <1>1, <1>2 DEF Faithful

LEMMA LoadManifestStep ==
  ASSUME TypeOK, AllKnown, NEW s \in Servers, Servers = {s}, Phase(s), Faithful(s),
         LoadManifest(s)
  PROVE  AllKnown' /\ Faithful(s)'
<1>1. AllKnown'
  BY LoadManifestEffect, Numbers DEF AllKnown, Known
<1>2. ASSUME NEW f \in Files
      PROVE  (OnDisk(f) /\ InMemory(s, f) /\ InSnapshot(s, f) /\ InJob(s, f) /\ InRun(s, f))'
  <2> USE LoadManifestEffect, Numbers DEF Shows, ShowsRows
  <2>1. OnDisk(f) /\ InMemory(s, f) /\ InSnapshot(s, f) /\ InJob(s, f) /\ InRun(s, f)
    BY DEF Faithful
  <2>2. OnDisk(f)'
    BY <2>1 DEF OnDisk, InMemory, InSnapshot, InJob, InRun, Phase, Running, Saving
  <2>3. InMemory(s, f)'
    BY <2>1 DEF OnDisk, InMemory, InSnapshot, InJob, Phase, Running, Saving
  <2>4. InSnapshot(s, f)'
    BY <2>1 DEF OnDisk, InMemory, InSnapshot, InJob, Phase, Running, Saving
  <2>5. InJob(s, f)'
    BY <2>1 DEF InMemory, InJob, Phase, Running, Saving
  <2>6. InRun(s, f)'
    BY <2>1 DEF OnDisk, InMemory, InSnapshot, InJob, InRun, Phase, Running, Saving, Reading
  <2> QED
    BY <2>2, <2>3, <2>4, <2>5, <2>6
<1> QED
  BY <1>1, <1>2 DEF Faithful

LEMMA LoadGraphStep ==
  ASSUME TypeOK, AllKnown, NEW s \in Servers, Servers = {s}, Phase(s), Faithful(s),
         LoadGraph(s)
  PROVE  AllKnown' /\ Faithful(s)'
<1>1. AllKnown'
  BY LoadGraphEffect, Numbers DEF AllKnown, Known
<1>2. ASSUME NEW f \in Files
      PROVE  (OnDisk(f) /\ InMemory(s, f) /\ InSnapshot(s, f) /\ InJob(s, f) /\ InRun(s, f))'
  <2> USE LoadGraphEffect, Numbers DEF Shows, ShowsRows
  <2>1. OnDisk(f) /\ InMemory(s, f) /\ InSnapshot(s, f) /\ InJob(s, f) /\ InRun(s, f)
    BY DEF Faithful
  <2>2. OnDisk(f)'
    BY <2>1 DEF OnDisk, InMemory, InSnapshot, InJob, InRun, Phase, Running, Saving
  <2>3. InMemory(s, f)'
    BY <2>1 DEF OnDisk, InMemory, InSnapshot, InJob, Phase, Running, Saving
  <2>4. InSnapshot(s, f)'
    BY <2>1 DEF OnDisk, InMemory, InSnapshot, InJob, Phase, Running, Saving
  <2>5. InJob(s, f)'
    BY <2>1 DEF InMemory, InJob, Phase, Running, Saving
  <2>6. InRun(s, f)'
    BY <2>1 DEF OnDisk, InMemory, InSnapshot, InJob, InRun, Phase, Running, Saving, Reading
  <2> QED
    BY <2>2, <2>3, <2>4, <2>5, <2>6
<1> QED
  BY <1>1, <1>2 DEF Faithful

LEMMA ReloadStep ==
  ASSUME TypeOK, AllKnown, NEW s \in Servers, Servers = {s}, Phase(s), Faithful(s),
         Reload(s)
  PROVE  AllKnown' /\ Faithful(s)'
<1>1. AllKnown'
  BY ReloadEffect, Numbers DEF AllKnown, Known
<1>2. ASSUME NEW f \in Files
      PROVE  (OnDisk(f) /\ InMemory(s, f) /\ InSnapshot(s, f) /\ InJob(s, f) /\ InRun(s, f))'
  <2> USE ReloadEffect, Numbers DEF Shows, ShowsRows
  <2>1. OnDisk(f) /\ InMemory(s, f) /\ InSnapshot(s, f) /\ InJob(s, f) /\ InRun(s, f)
    BY DEF Faithful
  <2>2. OnDisk(f)'
    BY <2>1 DEF OnDisk, InMemory, InSnapshot, InJob, InRun, Phase, Running, Saving
  <2>3. InMemory(s, f)'
    BY <2>1 DEF OnDisk, InMemory, InSnapshot, InJob, Phase, Running, Saving
  <2>4. InSnapshot(s, f)'
    BY <2>1 DEF OnDisk, InMemory, InSnapshot, InJob, Phase, Running, Saving
  <2>5. InJob(s, f)'
    BY <2>1 DEF InMemory, InJob, Phase, Running, Saving
  <2>6. InRun(s, f)'
    BY <2>1 DEF OnDisk, InMemory, InSnapshot, InJob, InRun, Phase, Running, Saving, Reading
  <2> QED
    BY <2>2, <2>3, <2>4, <2>5, <2>6
<1> QED
  BY <1>1, <1>2 DEF Faithful

LEMMA BeginStep ==
  ASSUME TypeOK, AllKnown, NEW s \in Servers, Servers = {s}, Phase(s), Faithful(s),
         NEW paths \in SUBSET Files, BeginApply(s, paths)
  PROVE  AllKnown' /\ Faithful(s)'
<1>1. AllKnown'
  BY BeginEffect, Numbers DEF AllKnown, Known
<1>2. ASSUME NEW f \in Files
      PROVE  (OnDisk(f) /\ InMemory(s, f) /\ InSnapshot(s, f) /\ InJob(s, f) /\ InRun(s, f))'
  <2> USE BeginEffect, Numbers DEF Shows, ShowsRows
  <2>1. OnDisk(f) /\ InMemory(s, f) /\ InSnapshot(s, f) /\ InJob(s, f) /\ InRun(s, f)
    BY DEF Faithful
  <2>2. OnDisk(f)'
    BY <2>1 DEF OnDisk, InMemory, InSnapshot, InJob, InRun, Phase, Running, Saving
  <2>3. InMemory(s, f)'
    BY <2>1 DEF OnDisk, InMemory, InSnapshot, InJob, Phase, Running, Saving
  <2>4. InSnapshot(s, f)'
    BY <2>1 DEF OnDisk, InMemory, InSnapshot, InJob, Phase, Running, Saving
  <2>5. InJob(s, f)'
    BY <2>1 DEF InMemory, InJob, Phase, Running, Saving
  <2>6. InRun(s, f)'
    BY <2>1 DEF OnDisk, InMemory, InSnapshot, InJob, InRun, Phase, Running, Saving, Reading
  <2> QED
    BY <2>2, <2>3, <2>4, <2>5, <2>6
<1> QED
  BY <1>1, <1>2 DEF Faithful

LEMMA PrepareStep ==
  ASSUME TypeOK, AllKnown, NEW s \in Servers, Servers = {s}, Phase(s), Faithful(s),
         Prepare(s)
  PROVE  AllKnown' /\ Faithful(s)'
<1>1. AllKnown'
  BY PrepareEffect, Numbers DEF AllKnown, Known
<1>2. ASSUME NEW f \in Files
      PROVE  (OnDisk(f) /\ InMemory(s, f) /\ InSnapshot(s, f) /\ InJob(s, f) /\ InRun(s, f))'
  <2> USE PrepareEffect, Numbers DEF Shows, ShowsRows
  <2>1. OnDisk(f) /\ InMemory(s, f) /\ InSnapshot(s, f) /\ InJob(s, f) /\ InRun(s, f)
    BY DEF Faithful
  <2>2. OnDisk(f)'
    BY <2>1 DEF OnDisk, InMemory, InSnapshot, InJob, InRun, Phase, Running, Saving
  <2>3. InMemory(s, f)'
    BY <2>1 DEF OnDisk, InMemory, InSnapshot, InJob, Phase, Running, Saving
  <2>4. InSnapshot(s, f)'
    BY <2>1 DEF OnDisk, InMemory, InSnapshot, InJob, Phase, Running, Saving
  <2>5. InJob(s, f)'
    BY <2>1 DEF InMemory, InJob, Phase, Running, Saving
  <2>6. InRun(s, f)'
    BY <2>1 DEF OnDisk, InMemory, InSnapshot, InJob, InRun, Phase, Running, Saving, Reading
  <2> QED
    BY <2>2, <2>3, <2>4, <2>5, <2>6
<1> QED
  BY <1>1, <1>2 DEF Faithful

LEMMA StopStep ==
  ASSUME TypeOK, AllKnown, NEW s \in Servers, Servers = {s}, Phase(s), Faithful(s),
         AbortApply(s) \/ CommitSuperseded(s)
  PROVE  AllKnown' /\ Faithful(s)'
<1>1. AllKnown'
  BY StopEffect, Numbers DEF AllKnown, Known
<1>2. ASSUME NEW f \in Files
      PROVE  (OnDisk(f) /\ InMemory(s, f) /\ InSnapshot(s, f) /\ InJob(s, f) /\ InRun(s, f))'
  <2> USE StopEffect, Numbers DEF Shows, ShowsRows
  <2>1. OnDisk(f) /\ InMemory(s, f) /\ InSnapshot(s, f) /\ InJob(s, f) /\ InRun(s, f)
    BY DEF Faithful
  <2>2. OnDisk(f)'
    BY <2>1 DEF OnDisk, InMemory, InSnapshot, InJob, InRun, Phase, Running, Saving
  <2>3. InMemory(s, f)'
    BY <2>1 DEF OnDisk, InMemory, InSnapshot, InJob, Phase, Running, Saving
  <2>4. InSnapshot(s, f)'
    BY <2>1 DEF OnDisk, InMemory, InSnapshot, InJob, Phase, Running, Saving
  <2>5. InJob(s, f)'
    BY <2>1 DEF InMemory, InJob, Phase, Running, Saving
  <2>6. InRun(s, f)'
    BY <2>1 DEF OnDisk, InMemory, InSnapshot, InJob, InRun, Phase, Running, Saving, Reading
  <2> QED
    BY <2>2, <2>3, <2>4, <2>5, <2>6
<1> QED
  BY <1>1, <1>2 DEF Faithful

LEMMA CommitStep ==
  ASSUME TypeOK, AllKnown, NEW s \in Servers, Servers = {s}, Phase(s), Faithful(s),
         Commit(s)
  PROVE  AllKnown' /\ Faithful(s)'
<1>1. AllKnown'
  BY CommitEffect, Numbers DEF AllKnown, Known
<1>2. ASSUME NEW f \in Files
      PROVE  (OnDisk(f) /\ InMemory(s, f) /\ InSnapshot(s, f) /\ InJob(s, f) /\ InRun(s, f))'
  <2> USE CommitEffect, Numbers DEF Shows, ShowsRows
  <2>1. OnDisk(f) /\ InMemory(s, f) /\ InSnapshot(s, f) /\ InJob(s, f) /\ InRun(s, f)
    BY DEF Faithful
  <2>2. OnDisk(f)'
    BY <2>1 DEF OnDisk, InMemory, InSnapshot, InJob, InRun, Phase, Running, Saving
  <2>3. InMemory(s, f)'
    BY <2>1 DEF OnDisk, InMemory, InSnapshot, InJob, Phase, Running, Saving
  <2>4. InSnapshot(s, f)'
    BY <2>1 DEF OnDisk, InMemory, InSnapshot, InJob, Phase, Running, Saving
  <2>5. InJob(s, f)'
    BY <2>1 DEF InMemory, InJob, Phase, Running, Saving
  <2>6. InRun(s, f)'
    BY <2>1 DEF OnDisk, InMemory, InSnapshot, InJob, InRun, Phase, Running, Saving, Reading
  <2> QED
    BY <2>2, <2>3, <2>4, <2>5, <2>6
<1> QED
  BY <1>1, <1>2 DEF Faithful

LEMMA CommitFailsStep ==
  ASSUME TypeOK, AllKnown, NEW s \in Servers, Servers = {s}, Phase(s), Faithful(s),
         CommitFails(s)
  PROVE  AllKnown' /\ Faithful(s)'
<1>1. AllKnown'
  BY CommitFailsEffect, Numbers DEF AllKnown, Known
<1>2. ASSUME NEW f \in Files
      PROVE  (OnDisk(f) /\ InMemory(s, f) /\ InSnapshot(s, f) /\ InJob(s, f) /\ InRun(s, f))'
  <2> USE CommitFailsEffect, Numbers DEF Shows, ShowsRows
  <2>1. OnDisk(f) /\ InMemory(s, f) /\ InSnapshot(s, f) /\ InJob(s, f) /\ InRun(s, f)
    BY DEF Faithful
  <2>2. OnDisk(f)'
    BY <2>1 DEF OnDisk, InMemory, InSnapshot, InJob, InRun, Phase, Running, Saving
  <2>3. InMemory(s, f)'
    BY <2>1 DEF OnDisk, InMemory, InSnapshot, InJob, Phase, Running, Saving
  <2>4. InSnapshot(s, f)'
    BY <2>1 DEF OnDisk, InMemory, InSnapshot, InJob, Phase, Running, Saving
  <2>5. InJob(s, f)'
    BY <2>1 DEF InMemory, InJob, Phase, Running, Saving
  <2>6. InRun(s, f)'
    BY <2>1 DEF OnDisk, InMemory, InSnapshot, InJob, InRun, Phase, Running, Saving, Reading
  <2> QED
    BY <2>2, <2>3, <2>4, <2>5, <2>6
<1> QED
  BY <1>1, <1>2 DEF Faithful

LEMMA SaveBeginStep ==
  ASSUME TypeOK, AllKnown, NEW s \in Servers, Servers = {s}, Phase(s), Faithful(s),
         SaveBegin(s)
  PROVE  AllKnown' /\ Faithful(s)'
<1>1. AllKnown'
  BY SaveBeginEffect, Numbers DEF AllKnown, Known
<1>2. ASSUME NEW f \in Files
      PROVE  (OnDisk(f) /\ InMemory(s, f) /\ InSnapshot(s, f) /\ InJob(s, f) /\ InRun(s, f))'
  <2> USE SaveBeginEffect, Numbers DEF Shows, ShowsRows
  <2>1. OnDisk(f) /\ InMemory(s, f) /\ InSnapshot(s, f) /\ InJob(s, f) /\ InRun(s, f)
    BY DEF Faithful
  <2>2. OnDisk(f)'
    BY <2>1 DEF OnDisk, InMemory, InSnapshot, InJob, InRun, Phase, Running, Saving
  <2>3. InMemory(s, f)'
    BY <2>1 DEF OnDisk, InMemory, InSnapshot, InJob, Phase, Running, Saving
  <2>4. InSnapshot(s, f)'
    BY <2>1 DEF OnDisk, InMemory, InSnapshot, InJob, Phase, Running, Saving
  <2>5. InJob(s, f)'
    BY <2>1 DEF InMemory, InJob, Phase, Running, Saving
  <2>6. InRun(s, f)'
    BY <2>1 DEF OnDisk, InMemory, InSnapshot, InJob, InRun, Phase, Running, Saving, Reading
  <2> QED
    BY <2>2, <2>3, <2>4, <2>5, <2>6
<1> QED
  BY <1>1, <1>2 DEF Faithful

LEMMA SaveLockStep ==
  ASSUME TypeOK, AllKnown, NEW s \in Servers, Servers = {s}, Phase(s), Faithful(s),
         SaveLock(s)
  PROVE  AllKnown' /\ Faithful(s)'
<1>1. AllKnown'
  BY SaveLockEffect, Numbers DEF AllKnown, Known
<1>2. ASSUME NEW f \in Files
      PROVE  (OnDisk(f) /\ InMemory(s, f) /\ InSnapshot(s, f) /\ InJob(s, f) /\ InRun(s, f))'
  <2> USE SaveLockEffect, Numbers DEF Shows, ShowsRows
  <2>1. OnDisk(f) /\ InMemory(s, f) /\ InSnapshot(s, f) /\ InJob(s, f) /\ InRun(s, f)
    BY DEF Faithful
  <2>2. OnDisk(f)'
    BY <2>1 DEF OnDisk, InMemory, InSnapshot, InJob, InRun, Phase, Running, Saving
  <2>3. InMemory(s, f)'
    BY <2>1 DEF OnDisk, InMemory, InSnapshot, InJob, Phase, Running, Saving
  <2>4. InSnapshot(s, f)'
    BY <2>1 DEF OnDisk, InMemory, InSnapshot, InJob, Phase, Running, Saving
  <2>5. InJob(s, f)'
    BY <2>1 DEF InMemory, InJob, Phase, Running, Saving
  <2>6. InRun(s, f)'
    BY <2>1 DEF OnDisk, InMemory, InSnapshot, InJob, InRun, Phase, Running, Saving, Reading
  <2> QED
    BY <2>2, <2>3, <2>4, <2>5, <2>6
<1> QED
  BY <1>1, <1>2 DEF Faithful

LEMMA SaveGraphStep ==
  ASSUME TypeOK, AllKnown, NEW s \in Servers, Servers = {s}, Phase(s), Faithful(s),
         SaveGraph(s)
  PROVE  AllKnown' /\ Faithful(s)'
<1>1. AllKnown'
  BY SaveGraphEffect, Numbers DEF AllKnown, Known
<1>2. ASSUME NEW f \in Files
      PROVE  (OnDisk(f) /\ InMemory(s, f) /\ InSnapshot(s, f) /\ InJob(s, f) /\ InRun(s, f))'
  <2> USE SaveGraphEffect, Numbers DEF Shows, ShowsRows
  <2>1. OnDisk(f) /\ InMemory(s, f) /\ InSnapshot(s, f) /\ InJob(s, f) /\ InRun(s, f)
    BY DEF Faithful
  <2>2. OnDisk(f)'
    BY <2>1 DEF OnDisk, InMemory, InSnapshot, InJob, InRun, Phase, Running, Saving
  <2>3. InMemory(s, f)'
    BY <2>1 DEF OnDisk, InMemory, InSnapshot, InJob, Phase, Running, Saving
  <2>4. InSnapshot(s, f)'
    BY <2>1 DEF OnDisk, InMemory, InSnapshot, InJob, Phase, Running, Saving
  <2>5. InJob(s, f)'
    BY <2>1 DEF InMemory, InJob, Phase, Running, Saving
  <2>6. InRun(s, f)'
    BY <2>1 DEF OnDisk, InMemory, InSnapshot, InJob, InRun, Phase, Running, Saving, Reading
  <2> QED
    BY <2>2, <2>3, <2>4, <2>5, <2>6
<1> QED
  BY <1>1, <1>2 DEF Faithful

LEMMA SaveManifestStep ==
  ASSUME TypeOK, AllKnown, NEW s \in Servers, Servers = {s}, Phase(s), Faithful(s),
         SaveManifest(s)
  PROVE  AllKnown' /\ Faithful(s)'
<1>1. AllKnown'
  BY SaveManifestEffect, Numbers DEF AllKnown, Known
<1>2. ASSUME NEW f \in Files
      PROVE  (OnDisk(f) /\ InMemory(s, f) /\ InSnapshot(s, f) /\ InJob(s, f) /\ InRun(s, f))'
  <2> USE SaveManifestEffect, Numbers DEF Shows, ShowsRows
  <2>1. OnDisk(f) /\ InMemory(s, f) /\ InSnapshot(s, f) /\ InJob(s, f) /\ InRun(s, f)
    BY DEF Faithful
  <2>2. OnDisk(f)'
    BY <2>1 DEF OnDisk, InMemory, InSnapshot, InJob, InRun, Phase, Running, Saving
  <2>3. InMemory(s, f)'
    BY <2>1 DEF OnDisk, InMemory, InSnapshot, InJob, Phase, Running, Saving
  <2>4. InSnapshot(s, f)'
    BY <2>1 DEF OnDisk, InMemory, InSnapshot, InJob, Phase, Running, Saving
  <2>5. InJob(s, f)'
    BY <2>1 DEF InMemory, InJob, Phase, Running, Saving
  <2>6. InRun(s, f)'
    BY <2>1 DEF OnDisk, InMemory, InSnapshot, InJob, InRun, Phase, Running, Saving, Reading
  <2> QED
    BY <2>2, <2>3, <2>4, <2>5, <2>6
<1> QED
  BY <1>1, <1>2 DEF Faithful

LEMMA SaveEndsStep ==
  ASSUME TypeOK, AllKnown, NEW s \in Servers, Servers = {s}, Phase(s), Faithful(s),
         SaveFails(s) \/ SaveEnd(s)
  PROVE  AllKnown' /\ Faithful(s)'
<1>1. AllKnown'
  BY SaveEndsEffect, Numbers DEF AllKnown, Known
<1>2. ASSUME NEW f \in Files
      PROVE  (OnDisk(f) /\ InMemory(s, f) /\ InSnapshot(s, f) /\ InJob(s, f) /\ InRun(s, f))'
  <2> USE SaveEndsEffect, Numbers DEF Shows, ShowsRows
  <2>1. OnDisk(f) /\ InMemory(s, f) /\ InSnapshot(s, f) /\ InJob(s, f) /\ InRun(s, f)
    BY DEF Faithful
  <2>2. OnDisk(f)'
    BY <2>1 DEF OnDisk, InMemory, InSnapshot, InJob, InRun, Phase, Running, Saving
  <2>3. InMemory(s, f)'
    BY <2>1 DEF OnDisk, InMemory, InSnapshot, InJob, Phase, Running, Saving
  <2>4. InSnapshot(s, f)'
    BY <2>1 DEF OnDisk, InMemory, InSnapshot, InJob, Phase, Running, Saving
  <2>5. InJob(s, f)'
    BY <2>1 DEF InMemory, InJob, Phase, Running, Saving
  <2>6. InRun(s, f)'
    BY <2>1 DEF OnDisk, InMemory, InSnapshot, InJob, InRun, Phase, Running, Saving, Reading
  <2> QED
    BY <2>2, <2>3, <2>4, <2>5, <2>6
<1> QED
  BY <1>1, <1>2 DEF Faithful

LEMMA FullStep ==
  ASSUME TypeOK, AllKnown, NEW s \in Servers, Servers = {s}, Phase(s), Faithful(s),
         FullScan \/ FullParse
  PROVE  AllKnown' /\ Faithful(s)'
<1>1. AllKnown'
  BY FullEffect, Numbers DEF AllKnown, Known
<1>2. ASSUME NEW f \in Files
      PROVE  (OnDisk(f) /\ InMemory(s, f) /\ InSnapshot(s, f) /\ InJob(s, f) /\ InRun(s, f))'
  <2> USE FullEffect, Numbers DEF Shows, ShowsRows
  <2>1. OnDisk(f) /\ InMemory(s, f) /\ InSnapshot(s, f) /\ InJob(s, f) /\ InRun(s, f)
    BY DEF Faithful
  <2>2. OnDisk(f)'
    BY <2>1 DEF OnDisk, InMemory, InSnapshot, InJob, InRun, Phase, Running, Saving
  <2>3. InMemory(s, f)'
    BY <2>1 DEF OnDisk, InMemory, InSnapshot, InJob, Phase, Running, Saving
  <2>4. InSnapshot(s, f)'
    BY <2>1 DEF OnDisk, InMemory, InSnapshot, InJob, Phase, Running, Saving
  <2>5. InJob(s, f)'
    BY <2>1 DEF InMemory, InJob, Phase, Running, Saving
  <2>6. InRun(s, f)'
    BY <2>1 DEF OnDisk, InMemory, InSnapshot, InJob, InRun, Phase, Running, Saving, Reading
  <2> QED
    BY <2>2, <2>3, <2>4, <2>5, <2>6
<1> QED
  BY <1>1, <1>2 DEF Faithful

LEMMA UpdateReadsStep ==
  ASSUME TypeOK, AllKnown, NEW s \in Servers, Servers = {s}, Phase(s), Faithful(s),
         UpdateReadManifest \/ UpdateScan \/ UpdateReadGraph \/ UpdateCopy
  PROVE  AllKnown' /\ Faithful(s)'
<1>1. AllKnown'
  BY UpdateReadsEffect, Numbers DEF AllKnown, Known
<1>2. ASSUME NEW f \in Files
      PROVE  (OnDisk(f) /\ InMemory(s, f) /\ InSnapshot(s, f) /\ InJob(s, f) /\ InRun(s, f))'
  <2> USE UpdateReadsEffect, Numbers DEF Shows, ShowsRows
  <2>1. OnDisk(f) /\ InMemory(s, f) /\ InSnapshot(s, f) /\ InJob(s, f) /\ InRun(s, f)
    BY DEF Faithful
  <2>2. OnDisk(f)'
    BY <2>1 DEF OnDisk, InMemory, InSnapshot, InJob, InRun, Phase, Running, Saving
  <2>3. InMemory(s, f)'
    BY <2>1 DEF OnDisk, InMemory, InSnapshot, InJob, Phase, Running, Saving
  <2>4. InSnapshot(s, f)'
    BY <2>1 DEF OnDisk, InMemory, InSnapshot, InJob, Phase, Running, Saving
  <2>5. InJob(s, f)'
    BY <2>1 DEF InMemory, InJob, Phase, Running, Saving
  <2>6. InRun(s, f)'
    BY <2>1 DEF OnDisk, InMemory, InSnapshot, InJob, InRun, Phase, Running, Saving, Reading
  <2> QED
    BY <2>2, <2>3, <2>4, <2>5, <2>6
<1> QED
  BY <1>1, <1>2 DEF Faithful

LEMMA UpdateIndexStep ==
  ASSUME TypeOK, AllKnown, NEW s \in Servers, Servers = {s}, Phase(s), Faithful(s),
         UpdateIndex
  PROVE  AllKnown' /\ Faithful(s)'
<1>1. AllKnown'
  BY UpdateIndexEffect, Numbers DEF AllKnown, Known
<1>2. ASSUME NEW f \in Files
      PROVE  (OnDisk(f) /\ InMemory(s, f) /\ InSnapshot(s, f) /\ InJob(s, f) /\ InRun(s, f))'
  <2> USE UpdateIndexEffect, Numbers DEF Shows, ShowsRows
  <2>1. OnDisk(f) /\ InMemory(s, f) /\ InSnapshot(s, f) /\ InJob(s, f) /\ InRun(s, f)
    BY DEF Faithful
  <2>2. OnDisk(f)'
    BY <2>1 DEF OnDisk, InMemory, InSnapshot, InJob, InRun, Phase, Running, Saving
  <2>3. InMemory(s, f)'
    BY <2>1 DEF OnDisk, InMemory, InSnapshot, InJob, Phase, Running, Saving
  <2>4. InSnapshot(s, f)'
    BY <2>1 DEF OnDisk, InMemory, InSnapshot, InJob, Phase, Running, Saving
  <2>5. InJob(s, f)'
    BY <2>1 DEF InMemory, InJob, Phase, Running, Saving
  <2>6. InRun(s, f)'
    BY <2>1 DEF OnDisk, InMemory, InSnapshot, InJob, InRun, Phase, Running, Saving, Reading
  <2> QED
    BY <2>2, <2>3, <2>4, <2>5, <2>6
<1> QED
  BY <1>1, <1>2 DEF Faithful

LEMMA ActivateStep ==
  ASSUME TypeOK, AllKnown, NEW s \in Servers, Servers = {s}, Phase(s), Faithful(s),
         RoomToActivate, Activate
  PROVE  AllKnown' /\ Faithful(s)'
<1>1. AllKnown'
  BY ActivateEffect, Numbers DEF AllKnown, Known
<1>2. ASSUME NEW f \in Files
      PROVE  (OnDisk(f) /\ InMemory(s, f) /\ InSnapshot(s, f) /\ InJob(s, f) /\ InRun(s, f))'
  <2> USE ActivateEffect, Numbers DEF Shows, ShowsRows
  <2>1. OnDisk(f) /\ InMemory(s, f) /\ InSnapshot(s, f) /\ InJob(s, f) /\ InRun(s, f)
    BY DEF Faithful
  <2>2. OnDisk(f)'
    BY <2>1 DEF OnDisk, InMemory, InSnapshot, InJob, InRun, Phase, Running, Saving
  <2>3. InMemory(s, f)'
    BY <2>1 DEF OnDisk, InMemory, InSnapshot, InJob, Phase, Running, Saving
  <2>4. InSnapshot(s, f)'
    BY <2>1 DEF OnDisk, InMemory, InSnapshot, InJob, Phase, Running, Saving
  <2>5. InJob(s, f)'
    BY <2>1 DEF InMemory, InJob, Phase, Running, Saving
  <2>6. InRun(s, f)'
    BY <2>1 DEF OnDisk, InMemory, InSnapshot, InJob, InRun, Phase, Running, Saving, Reading
  <2> QED
    BY <2>2, <2>3, <2>4, <2>5, <2>6
<1> QED
  BY <1>1, <1>2 DEF Faithful

LEMMA ExternalFailsStep ==
  ASSUME TypeOK, AllKnown, NEW s \in Servers, Servers = {s}, Phase(s), Faithful(s),
         ExternalFails
  PROVE  AllKnown' /\ Faithful(s)'
<1>1. AllKnown'
  BY ExternalFailsEffect, Numbers DEF AllKnown, Known
<1>2. ASSUME NEW f \in Files
      PROVE  (OnDisk(f) /\ InMemory(s, f) /\ InSnapshot(s, f) /\ InJob(s, f) /\ InRun(s, f))'
  <2> USE ExternalFailsEffect, Numbers DEF Shows, ShowsRows
  <2>1. OnDisk(f) /\ InMemory(s, f) /\ InSnapshot(s, f) /\ InJob(s, f) /\ InRun(s, f)
    BY DEF Faithful
  <2>2. OnDisk(f)'
    BY <2>1 DEF OnDisk, InMemory, InSnapshot, InJob, InRun, Phase, Running, Saving
  <2>3. InMemory(s, f)'
    BY <2>1 DEF OnDisk, InMemory, InSnapshot, InJob, Phase, Running, Saving
  <2>4. InSnapshot(s, f)'
    BY <2>1 DEF OnDisk, InMemory, InSnapshot, InJob, Phase, Running, Saving
  <2>5. InJob(s, f)'
    BY <2>1 DEF InMemory, InJob, Phase, Running, Saving
  <2>6. InRun(s, f)'
    BY <2>1 DEF OnDisk, InMemory, InSnapshot, InJob, InRun, Phase, Running, Saving, Reading
  <2> QED
    BY <2>2, <2>3, <2>4, <2>5, <2>6
<1> QED
  BY <1>1, <1>2 DEF Faithful

LEMMA EditStep ==
  ASSUME TypeOK, AllKnown, NEW s \in Servers, Servers = {s}, Phase(s), Faithful(s),
         ~RestoresTimes, NEW e \in Files, Edit(e)
  PROVE  AllKnown' /\ Faithful(s)'
<1>1. AllKnown'
  <2>1. /\ \A g \in Gens : disk[g].manifest \in Snapshot
        /\ server[s].manifest \in Snapshot /\ job[s].next \in Snapshot
        /\ save[s].manifest \in Snapshot
        /\ external.manifest \in Snapshot /\ external.snap \in Snapshot
    BY Parts DEF TypeOK, Server, Job, Save, External
  <2>2. edits' = edits + 1 /\ edits \in Nat
    BY EditEffect, Numbers
  <2>3. ASSUME NEW m \in Snapshot, Known(m)
        PROVE  \A f \in Files : m[f] <= edits'
    BY <2>2, <2>3, BoundAssumption DEF Known, Snapshot, Versions
  <2>4. \A f \in Files : source'[f] <= edits'
    BY EditEffect, Numbers DEF AllKnown, Known
  <2>5. UNCHANGED <<disk, server, job, save, external>>
    BY EditEffect
  <2> QED
    BY <2>1, <2>3, <2>4, <2>5 DEF AllKnown, Known
<1>2. ASSUME NEW f \in Files
      PROVE  (OnDisk(f) /\ InMemory(s, f) /\ InSnapshot(s, f) /\ InJob(s, f) /\ InRun(s, f))'
  <2> USE EditEffect, Numbers DEF AllKnown, Known, Shows, ShowsRows
  <2>1. OnDisk(f) /\ InMemory(s, f) /\ InSnapshot(s, f) /\ InJob(s, f) /\ InRun(s, f)
    BY DEF Faithful
  <2>2. OnDisk(f)'
    BY <2>1 DEF OnDisk, InMemory, InSnapshot, InJob, InRun, Phase, Running, Saving
  <2>3. InMemory(s, f)'
    BY <2>1 DEF OnDisk, InMemory, InSnapshot, InJob, Phase, Running, Saving
  <2>4. InSnapshot(s, f)'
    BY <2>1 DEF OnDisk, InMemory, InSnapshot, InJob, Phase, Running, Saving
  <2>5. InJob(s, f)'
    BY <2>1 DEF InMemory, InJob, Phase, Running, Saving
  <2>6. InRun(s, f)'
    BY <2>1 DEF OnDisk, InMemory, InSnapshot, InJob, InRun, Phase, Running, Saving, Reading
  <2> QED
    BY <2>2, <2>3, <2>4, <2>5, <2>6
<1> QED
  BY <1>1, <1>2 DEF Faithful

\* The initial state satisfies the invariant.
LEMMA LiveInvInit ==
  ASSUME Init
  PROVE  AllKnown /\ \A s \in Servers : Phase(s) /\ Marked(s) /\ Faithful(s)
<1> USE ServerAssumption DEF Init, Down, NoJob, NoSave, NoExternal
<1>1. 1 \in Gens /\ pointer = 1 /\ edits = 0 /\ \A f \in Files : Nothing[f] = 0
  BY BoundAssumption DEF Gens, Nothing, Absent
<1>2. AllKnown
  BY <1>1 DEF AllKnown, Known
<1>3. ASSUME NEW s \in Servers
      PROVE  Phase(s) /\ Marked(s) /\ Faithful(s)
  <2>1. server[s].pc = "down" /\ save[s].pc = "idle" /\ external.pc = "idle"
    OBVIOUS
  <2>2. Phase(s)
    BY <1>1, <2>1 DEF Phase, Running
  <2>3. Marked(s)
    BY <1>1, <2>1 DEF Marked, Running
  <2>4. Faithful(s)
    BY <1>1, <2>1 DEF Faithful, OnDisk, InMemory, InSnapshot, InJob, InRun, Running, Saving,
      Reading, Shows, ShowsRows, Absent
  <2> QED
    BY <2>2, <2>3, <2>4
<1> QED
  BY <1>2, <1>3

LEMMA MarkInvStep ==
  ASSUME NEW s \in Servers, Servers = {s}, TypeOK, RoomToActivate, MarkInv, [Next]_vars
  PROVE  MarkInv'
<1>1. Phase(s) /\ Marked(s)
  BY DEF MarkInv
<1>2. CASE ServerStep(s)
  BY <1>1, <1>2, PhaseServer DEF MarkInv
<1>3. CASE RunStep \/ \E e \in Files : Edit(e)
  BY <1>1, <1>3, PhaseOther DEF MarkInv
<1>4. CASE UNCHANGED vars
  BY <1>1, <1>4 DEF vars, MarkInv, Phase, Marked, Running
<1> QED
  BY <1>2, <1>3, <1>4 DEF Next, RunStep

LEMMA FaithInvStep ==
  ASSUME NEW s \in Servers, Servers = {s}, ~RestoresTimes, TypeOK, RoomToActivate, MarkInv, FaithInv,
         [Next]_vars
  PROVE  FaithInv'
<1>1. Phase(s) /\ AllKnown /\ Faithful(s)
  BY DEF MarkInv, FaithInv
<1>2. CASE ServerStep(s)
  BY <1>1, <1>2, CrashStep, LoadManifestStep, LoadGraphStep, ReloadStep, BeginStep, PrepareStep,
     StopStep, CommitStep, CommitFailsStep, SaveBeginStep, SaveLockStep, SaveGraphStep,
     SaveManifestStep, SaveEndsStep DEF FaithInv, ServerStep
<1>3. CASE RunStep
  BY <1>1, <1>3, FullStep, UpdateReadsStep, UpdateIndexStep, ActivateStep, ExternalFailsStep
     DEF FaithInv, RunStep
<1>4. ASSUME NEW e \in Files, Edit(e)
      PROVE  FaithInv'
  BY <1>1, <1>4, EditStep DEF FaithInv
<1>5. CASE UNCHANGED vars
  BY <1>1, <1>5 DEF vars, FaithInv, AllKnown, Known, Faithful, OnDisk, InMemory, InSnapshot,
    InJob, InRun, Running, Saving, Reading, Shows, ShowsRows
<1> QED
  BY <1>2, <1>3, <1>4, <1>5 DEF Next, RunStep

---------------------------------------------------------------------------
(* Theorems.                                                               *)

\* The project is served by one process; external runs stay unrestricted. With two, each
\* writes its graph over the other's and the theorems that need this do not hold.
OneServer == \E s \in Servers : Servers = {s}

\* Phases and marks hold throughout (core/src/live.rs LiveState).
THEOREM MarkInvariant ==
  ASSUME OneServer
  PROVE  Spec => [](TypeOK /\ RoomToActivate /\ MarkInv)
<1>1. Init => TypeOK /\ RoomToActivate /\ MarkInv
  BY TypeInit, LiveInvInit DEF MarkInv
<1>2. TypeOK /\ RoomToActivate /\ MarkInv /\ [Next]_vars
        => (TypeOK /\ RoomToActivate /\ MarkInv)'
  BY TypeStep, MarkInvStep DEF OneServer
<1> QED
  BY <1>1, <1>2, PTL DEF Spec

\* Whatever is written, saved, loaded or activated shows what was recorded before it
\* (core/src/live.rs apply_delta, write_snapshot_files; lib.rs update_index_inner).
THEOREM FaithInvariant ==
  ASSUME OneServer, ~RestoresTimes
  PROVE  Spec => []FaithInv
<1>1. Init => FaithInv
  BY LiveInvInit DEF FaithInv
<1>2. TypeOK /\ RoomToActivate /\ MarkInv /\ FaithInv /\ [Next]_vars => FaithInv'
  BY FaithInvStep DEF OneServer
<1> QED
  BY <1>1, <1>2, MarkInvariant, PTL DEF Spec

\* live.rs has_pending_changes: when nothing is pending, the graph holds the current
\* version of every existing file. RestoresTimes must be excluded: the fingerprint of the
\* scan and the contents of a later read may then belong to different versions, and the
\* file be restored to what the scan saw, with its time.
THEOREM AnswersAreCurrent ==
  ASSUME OneServer, ~RestoresTimes
  PROVE  Spec => []AnswersMatchDisk
<1>1. FaithInv => AnswersMatchDisk
  BY DEF FaithInv, Faithful, InMemory, Running, Shows, AnswersMatchDisk, NothingPending, Differ
<1> QED
  BY <1>1, FaithInvariant, PTL

\* engine.rs write_file_vectors: when nothing is pending, the rows of a file are those of
\* its current version or missing, although writes may stop halfway.
THEOREM RowsAreCurrent ==
  ASSUME OneServer, ~RestoresTimes
  PROVE  Spec => []VectorsMatchDisk
<1>1. FaithInv => VectorsMatchDisk
  BY DEF FaithInv, Faithful, InMemory, Running, ShowsRows, VectorsMatchDisk, NothingPending,
    Differ
<1> QED
  BY <1>1, FaithInvariant, PTL

\* live.rs LiveState: every file whose rows do not belong to its graph is marked dirty,
\* until a crash or another process's generation; also when edits restore versions.
THEOREM MarksAreComplete ==
  ASSUME OneServer
  PROVE  Spec => []RowsMatchGraph
<1>1. MarkInv => RowsMatchGraph
  BY DEF MarkInv, Marked, Running, RowsMatchGraph
<1> QED
  BY <1>1, MarkInvariant, PTL

=============================================================================
