-------------------------- MODULE FreshnessProofs --------------------------
(***************************************************************************)
(* Proofs about the refresh of one project in the server, for any number   *)
(* of files, reads, upgrades, attempts, generations and live indexes.      *)
(***************************************************************************)
EXTENDS Freshness, TLAPS

---------------------------------------------------------------------------
(* Type correctness.                                                       *)

\* The values that the actions assign are of their types.
LEMMA ConstantTypes ==
  /\ 1 \in Gens /\ 1 \in 1..MaxAttempts /\ Root \in Paths /\ Initial \in Snapshot
  /\ NoGet \in Get /\ [NoGet EXCEPT !.pc = "lookup"] \in Get
  /\ NoReader \in Reader
  /\ NoTask \in Task
  /\ \A pc \in {"load", "request", "schedule"} : [NoTask EXCEPT !.pc = pc] \in Task
<1>1. 1 \in Gens /\ 1 \in 1..MaxAttempts /\ Root \in Paths /\ Initial \in Snapshot
  BY BoundAssumption DEF Gens, Paths, Initial, Snapshot, Versions
<1>2. NoGet \in Get /\ [NoGet EXCEPT !.pc = "lookup"] \in Get
  BY <1>1 DEF NoGet, Get, NoEngine
<1>3. NoReader \in Reader
  BY <1>1 DEF NoReader, Reader, NoEngine
<1>4. /\ NoTask \in Task
      /\ \A pc \in {"load", "request", "schedule"} : [NoTask EXCEPT !.pc = pc] \in Task
  BY <1>1 DEF NoTask, Task, NoEngine
<1> QED
  BY <1>1, <1>2, <1>3, <1>4

\* A load puts a live index of the active generation into memory.
LEMMA LoadTypes ==
  ASSUME TypeOK, NEW e \in Engines, Load(e)
  PROVE  engine' \in [Engines -> Engine]
<1>1. engine \in [Engines -> Engine] /\ pointer \in Gens /\ saved \in [Gens -> Snapshot]
  BY DEF TypeOK
<1>2. saved[pointer] \in Snapshot
  BY <1>1
<1>3. [gen |-> pointer, at |-> saved[pointer], rescan |-> TRUE, superseded |-> FALSE,
       unsaved |-> FALSE] \in Engine
  BY <1>1, <1>2 DEF Engine
<1> QED
  BY <1>1, <1>3 DEF Load

\* Every signal is kept as a path.
LEMMA PendingPaths == \A signal \in Signals : PendingPath(signal) \in Paths
BY NameAssumption DEF Signals, PendingPath, Paths

\* Whoever uses a live index has one: the loop from its apply on, and a call of
\* cached_project_engine once it has found or loaded it.
EnginesHeld ==
  /\ loop.pc \in {"apply", "commit", "publish"} => loop.engine \in Engines
  /\ \A c \in Callers :
       get[c].pc \in {"insert", "hit", "loaded"} => get[c].engine \in Engines

\* The initial state is well typed.
LEMMA TypeInit == Init => TypeOK
BY NameAssumption, BoundAssumption
   DEF Init, TypeOK, Snapshot, Versions, Initial, Gens, Engines, Paths, Signals, Callers,
       NoEngine, Engine, Get, NoGet, Reader, NoReader, Loop, Shown, Task, NoTask

\* Editors, the watcher, other processes and other projects.
LEMMA TypeSources ==
  ASSUME TypeOK, \/ \E f \in Files : Edit(f)
                 \/ Deliver \/ ExternalScan \/ ExternalInstall \/ Evict
  PROVE  TypeOK'
<1> USE DEF disk, store, cache, tasks
<1>1. ASSUME NEW f \in Files, Edit(f)
      PROVE  TypeOK'
  <2>1. source' \in Snapshot
    <3>1. source \in Snapshot /\ edits \in 0..MaxEdits
      BY DEF TypeOK
    <3> QED
      BY <1>1, <3>1, BoundAssumption DEF Edit, Snapshot, Versions
  <2>2. edits' \in 0..MaxEdits
    BY <1>1, BoundAssumption DEF TypeOK, Edit
  <2>3. undelivered' \subseteq Files
    BY <1>1 DEF TypeOK, Edit
  <2> QED
    BY <1>1, <2>1, <2>2, <2>3 DEF TypeOK, Edit
<1>2. CASE Deliver
  <2>1. queue' \subseteq Signals
    <3>1. queue \subseteq Signals /\ undelivered \subseteq Files
      BY DEF TypeOK
    <3> QED
      BY <1>2, <3>1, ZenonT(60) DEF Deliver, Signals, Paths
  <2>2. undelivered' \subseteq Files
    BY <1>2 DEF TypeOK, Deliver
  <2> QED
    BY <1>2, <2>1, <2>2 DEF TypeOK, Deliver
<1>3. CASE ExternalScan
  <2>1. external' \in Snapshot \cup {Nobody}
    <3>1. external \in Snapshot \cup {Nobody} /\ source \in Snapshot
      BY DEF TypeOK
    <3> QED
      BY <1>3, <3>1 DEF ExternalScan
  <2> QED
    BY <1>3, <2>1 DEF TypeOK, ExternalScan
<1>4. CASE ExternalInstall
  <2>1. pointer' \in Gens
    BY <1>4, BoundAssumption DEF TypeOK, ExternalInstall, Install, Gens
  <2>2. saved' \in [Gens -> Snapshot]
    <3>1. saved \in [Gens -> Snapshot] /\ external \in Snapshot \cup {Nobody}
      BY DEF TypeOK
    <3> QED
      BY <1>4, <3>1 DEF ExternalInstall, Install
  <2>3. external' \in Snapshot \cup {Nobody}
    BY <1>4 DEF TypeOK, ExternalInstall
  <2> QED
    BY <1>4, <2>1, <2>2, <2>3 DEF TypeOK, ExternalInstall
<1>5. CASE Evict
  <2>1. cached' \in Engines \cup {NoEngine}
    BY <1>5 DEF TypeOK, Evict
  <2> QED
    BY <1>5, <2>1 DEF TypeOK, Evict
<1> QED
  BY <1>1, <1>2, <1>3, <1>4, <1>5

\* Calls of cached_project_engine.
LEMMA TypeCache ==
  ASSUME TypeOK, NEW c \in Callers, CacheStep(c)
  PROVE  TypeOK'
<1> USE DEF disk, store, cache, tasks
<1>1. CASE Lookup(c)
  <2>1. get' \in [Callers -> Get]
    <3>1. get \in [Callers -> Get] /\ pointer \in Gens /\ cached \in Engines \cup {NoEngine}
      BY DEF TypeOK
    <3> QED
      BY <1>1, <3>1, ConstantTypes DEF Lookup, Get
  <2> QED
    BY <1>1, <2>1 DEF TypeOK, Lookup
<1>2. CASE PassGate(c)
  <2>1. engine' \in [Engines -> Engine]
    <3>1. engine \in [Engines -> Engine]
      BY DEF TypeOK
    <3> QED
      BY <1>2, <3>1, LoadTypes DEF PassGate
  <2>2. gate' \in Callers \cup {Nobody}
    BY <1>2 DEF TypeOK, PassGate
  <2>3. get' \in [Callers -> Get]
    <3>1. get \in [Callers -> Get] /\ cached \in Engines \cup {NoEngine}
      BY DEF TypeOK
    <3>2. \E g \in Get : get' = [get EXCEPT ![c] = g]
      BY <1>2, <3>1, ConstantTypes DEF PassGate, Get
    <3> QED
      BY <1>2, <3>1, <3>2, ConstantTypes DEF PassGate, Get
  <2> QED
    BY <1>2, <2>1, <2>2, <2>3 DEF TypeOK, PassGate
<1>3. CASE Insert(c)
  <2>1. cached' \in Engines \cup {NoEngine}
    <3>1. cached \in Engines \cup {NoEngine} /\ get \in [Callers -> Get]
      BY DEF TypeOK
    <3> QED
      BY <1>3, <3>1 DEF Insert, Get
  <2>2. gate' \in Callers \cup {Nobody}
    BY <1>3 DEF TypeOK, Insert
  <2>3. get' \in [Callers -> Get]
    <3>1. get \in [Callers -> Get] /\ cached \in Engines \cup {NoEngine}
      BY DEF TypeOK
    <3>2. get[c] \in Get
      BY <3>1
    <3>3. \E g \in Get : get' = [get EXCEPT ![c] = g]
      BY <1>3, <3>1, <3>2 DEF Insert, Get
    <3> QED
      BY <1>3, <3>1, <3>2, <3>3 DEF Insert
  <2> QED
    BY <1>3, <2>1, <2>2, <2>3 DEF TypeOK, Insert
<1> QED
  BY <1>1, <1>2, <1>3 DEF CacheStep

\* run_refresh_loop and what it calls.
LEMMA TypeLoop ==
  ASSUME TypeOK, EnginesHeld, LoopStep \/ AttemptFails
  PROVE  TypeOK'
<1> USE DEF disk, store, cache, tasks
<1>1. CASE Receive
  <2>1. queue' \subseteq Signals
    BY <1>1 DEF TypeOK, Receive
  <2>2. loop' \in Loop
    <3>1. loop \in Loop /\ queue \subseteq Signals
      BY DEF TypeOK
    <3>2. PICK signal \in queue :
            loop' = [loop EXCEPT !.pc = "debounce",
                                 !.pending = @ \cup {PendingPath(signal)}]
      BY <1>1 DEF Receive
    <3>3. PendingPath(signal) \in Paths
      BY <3>1, PendingPaths
    <3> QED
      BY <3>1, <3>2, <3>3 DEF Loop
  <2>3. shown' \in Shown
    <3>1. shown \in Shown
      BY DEF TypeOK
    <3> QED
      BY <1>1, <3>1 DEF Receive, Shown
  <2> QED
    BY <1>1, <2>1, <2>2, <2>3 DEF TypeOK, Receive
<1>2. CASE BeginTurn
  <2>1. loop' \in Loop
    <3>1. loop \in Loop
      BY DEF TypeOK
    <3>2. \E P \in SUBSET Paths : P = IF loop.failed THEN loop.pending \cup {Root} ELSE loop.pending
      BY <3>1, ConstantTypes DEF Loop
    <3> QED
      BY <1>2, <3>1, <3>2, ConstantTypes, ZenonT(60) DEF BeginTurn, Defer, Loop
  <2>2. shown' \in Shown
    <3>1. shown \in Shown
      BY DEF TypeOK
    <3> QED
      BY <1>2, <3>1 DEF BeginTurn, Defer, Shown
  <2> QED
    BY <1>2, <2>1, <2>2 DEF TypeOK, BeginTurn
<1>3. CASE RefreshOnce
  <2>1. projectLock' \in {"loop", "job", "free"}
    BY <1>3 DEF TypeOK, RefreshOnce
  <2>2. loop' \in Loop
    <3>1. loop \in Loop
      BY DEF TypeOK
    <3> QED
      BY <1>3, <3>1, ConstantTypes DEF RefreshOnce, Defer, Loop
  <2>3. get' \in [Callers -> Get]
    <3>1. get \in [Callers -> Get]
      BY DEF TypeOK
    <3> QED
      BY <1>3, <3>1, ConstantTypes DEF RefreshOnce, Call, Callers
  <2>4. shown' \in Shown
    <3>1. shown \in Shown
      BY DEF TypeOK
    <3> QED
      BY <1>3, <3>1 DEF RefreshOnce, Defer, Shown
  <2> QED
    BY <1>3, <2>1, <2>2, <2>3, <2>4 DEF TypeOK, RefreshOnce
<1>4. CASE EngineReady
  <2>1. loop' \in Loop
    <3>1. loop \in Loop /\ get \in [Callers -> Get]
      BY DEF TypeOK
    <3>2. get[Refresher].engine \in Engines \cup {NoEngine}
      BY <3>1 DEF Get, Callers
    <3> QED
      BY <1>4, <3>1, <3>2 DEF EngineReady, Loop
  <2>2. get' \in [Callers -> Get]
    <3>1. get \in [Callers -> Get]
      BY DEF TypeOK
    <3> QED
      BY <1>4, <3>1, ConstantTypes DEF EngineReady, Callers
  <2> QED
    BY <1>4, <2>1, <2>2 DEF TypeOK, EngineReady
<1>5. CASE Scan
  <2>1. engine' \in [Engines -> Engine]
    <3>1. engine \in [Engines -> Engine]
      BY DEF TypeOK
    <3>2. loop.engine \in Engines
      BY <1>5 DEF Scan, EnginesHeld
    <3>3. engine[loop.engine] \in Engine
      BY <3>1, <3>2
    <3>4. \A b \in BOOLEAN : [engine[loop.engine] EXCEPT !.rescan = b] \in Engine
      BY <3>3 DEF Engine
    <3>5. \E e \in Engine : engine' = [engine EXCEPT ![loop.engine] = e]
      <4>1. [engine EXCEPT ![loop.engine].rescan = TRUE]
              = [engine EXCEPT ![loop.engine] = [engine[loop.engine] EXCEPT !.rescan = TRUE]]
        OBVIOUS
      <4> QED
        BY <1>5, <3>4, <4>1 DEF Scan, Applied
    <3> QED
      BY <3>1, <3>5
  <2>2. loop' \in Loop
    <3>1. loop \in Loop /\ source \in Snapshot /\ engine \in [Engines -> Engine]
      BY DEF TypeOK
    <3>2. \A a, b \in Snapshot : \A s : Override(a, b, s) \in Snapshot
      BY DEF Override, Snapshot
    <3>3. engine[loop.engine].at \in Snapshot
      <4>1. loop.engine \in Engines
        BY <1>5 DEF Scan, EnginesHeld
      <4>2. engine[loop.engine] \in Engine
        BY <3>1, <4>1
      <4> QED
        BY <4>2 DEF Engine
    <3>4. \/ loop' = [loop EXCEPT !.pc = "publish"]
          \/ \E n \in Snapshot : loop' = [loop EXCEPT !.pc = "commit", !.scan = n]
      BY <1>5, <3>1, <3>2, <3>3 DEF Scan, Applied
    <3> QED
      BY <3>1, <3>4 DEF Loop
  <2>3. projectLock' \in {"loop", "job", "free"}
    BY <1>5 DEF TypeOK, Scan, Applied
  <2> QED
    BY <1>5, <2>1, <2>2, <2>3 DEF TypeOK, Scan
<1>6. CASE Commit
  <2>1. engine' \in [Engines -> Engine]
    <3>1. engine \in [Engines -> Engine] /\ loop \in Loop
      BY DEF TypeOK
    <3> QED
      BY <1>6, <3>1 DEF Commit, Applied, Loop, Engine
  <2>2. loop' \in Loop
    <3>1. loop \in Loop
      BY DEF TypeOK
    <3> QED
      BY <1>6, <3>1 DEF Commit, Applied, Loop
  <2>3. projectLock' \in {"loop", "job", "free"}
    BY <1>6 DEF TypeOK, Commit, Applied
  <2> QED
    BY <1>6, <2>1, <2>2, <2>3 DEF TypeOK, Commit
<1>7. CASE Superseded
  <2>1. engine' \in [Engines -> Engine]
    <3>1. engine \in [Engines -> Engine] /\ loop \in Loop
      BY DEF TypeOK
    <3> QED
      BY <1>7, <3>1 DEF Superseded, Engine
  <2>2. loop' \in Loop
    <3>1. loop \in Loop
      BY DEF TypeOK
    <3> QED
      BY <1>7, <3>1 DEF Superseded, Loop, NoEngine
  <2>3. get' \in [Callers -> Get]
    <3>1. get \in [Callers -> Get]
      BY DEF TypeOK
    <3> QED
      BY <1>7, <3>1, ConstantTypes DEF Superseded, Call, Callers
  <2> QED
    BY <1>7, <2>1, <2>2, <2>3 DEF TypeOK, Superseded
<1>8. CASE Publish
  <2>1. queue' \subseteq Signals
    BY <1>8 DEF TypeOK, Publish, TurnOver
  <2>2. shown' \in Shown
    <3>1. shown \in Shown
      BY DEF TypeOK
    <3> QED
      BY <1>8, <3>1 DEF Publish, TurnOver, Shown
  <2>3. loop' \in Loop
    <3>1. loop \in Loop /\ queue \subseteq Signals
      BY DEF TypeOK
    <3>2. {PendingPath(signal) : signal \in queue} \in SUBSET Paths
      BY <3>1, PendingPaths
    <3> QED
      BY <1>8, <3>1, <3>2, ConstantTypes DEF Publish, TurnOver, Wake, Loop, NoEngine
  <2>4. persisting' \subseteq Engines
    <3>1. persisting \subseteq Engines
      BY DEF TypeOK
    <3>2. loop.pc = "publish" => loop.engine \in Engines
      BY DEF EnginesHeld
    <3> QED
      BY <1>8, <3>1, <3>2 DEF Publish, TurnOver
  <2> QED
    BY <1>8, <2>1, <2>2, <2>3, <2>4 DEF TypeOK, Publish, TurnOver
<1>9. CASE AttemptFails
  <2>1. engine' \in [Engines -> Engine]
    <3>1. engine \in [Engines -> Engine]
      BY DEF TypeOK
    <3> QED
      BY <1>9, <3>1, ZenonT(60) DEF AttemptFails, Engine
  <2>2. loop' \in Loop
    <3>1. loop \in Loop
      BY DEF TypeOK
    <3>2. loop.attempt < MaxAttempts => loop.attempt + 1 \in 1..MaxAttempts
      <4>1. loop.attempt \in 1..MaxAttempts
        BY <3>1 DEF Loop
      <4> QED
        BY <4>1, BoundAssumption
    <3> QED
      BY <1>9, <3>1, <3>2 DEF AttemptFails, Loop, NoEngine
  <2>3. gate' \in Callers \cup {Nobody}
    BY <1>9 DEF TypeOK, AttemptFails
  <2>4. get' \in [Callers -> Get]
    <3>1. get \in [Callers -> Get]
      BY DEF TypeOK
    <3> QED
      BY <1>9, <3>1, ConstantTypes DEF AttemptFails, Callers
  <2>5. projectLock' \in {"loop", "job", "free"}
    BY <1>9 DEF TypeOK, AttemptFails
  <2> QED
    BY <1>9, <2>1, <2>2, <2>3, <2>4, <2>5 DEF TypeOK, AttemptFails
<1> QED
  BY <1>1, <1>2, <1>3, <1>4, <1>5, <1>6, <1>7, <1>8, <1>9 DEF LoopStep

\* Spawned persists.
LEMMA TypePersist ==
  ASSUME TypeOK, PersistStep
  PROVE  TypeOK'
<1> USE DEF disk, store, cache, tasks
<1>1. ASSUME NEW e \in Engines, Persist(e)
      PROVE  TypeOK'
  <2>1. saved' \in [Gens -> Snapshot]
    <3>1. saved \in [Gens -> Snapshot] /\ engine \in [Engines -> Engine]
      BY DEF TypeOK
    <3> QED
      BY <1>1, <3>1 DEF Persist, Engine
  <2>2. engine' \in [Engines -> Engine]
    <3>1. engine \in [Engines -> Engine]
      BY DEF TypeOK
    <3> QED
      BY <1>1, <3>1, ZenonT(60) DEF Persist, Engine
  <2>3. shown' \in Shown
    <3>1. shown \in Shown
      BY DEF TypeOK
    <3> QED
      BY <1>1, <3>1 DEF Persist, Shown
  <2>4. persisting' \subseteq Engines
    BY <1>1 DEF TypeOK, Persist
  <2> QED
    BY <1>1, <2>1, <2>2, <2>3, <2>4 DEF TypeOK, Persist
<1>2. ASSUME NEW e \in Engines, PersistSuperseded(e)
      PROVE  TypeOK'
  <2>1. engine' \in [Engines -> Engine]
    <3>1. engine \in [Engines -> Engine]
      BY DEF TypeOK
    <3> QED
      BY <1>2, <3>1 DEF PersistSuperseded, Engine
  <2>2. queue' \subseteq Signals
    BY <1>2 DEF TypeOK, PersistSuperseded, RequestRescan, Signals, Paths
  <2>3. shown' \in Shown
    <3>1. shown \in Shown
      BY DEF TypeOK
    <3> QED
      BY <1>2, <3>1 DEF PersistSuperseded, RequestRescan, Shown
  <2>4. persisting' \subseteq Engines
    BY <1>2 DEF TypeOK, PersistSuperseded
  <2> QED
    BY <1>2, <2>1, <2>2, <2>3, <2>4 DEF TypeOK, PersistSuperseded
<1> QED
  BY <1>1, <1>2 DEF PersistStep

\* Reads.
LEMMA TypeRead ==
  ASSUME TypeOK, NEW r \in Readers, ReadBegin(r) \/ ReadStep(r) \/ ReadExpires(r)
  PROVE  TypeOK'
<1> USE DEF disk, store, cache, tasks
<1>1. CASE ReadBegin(r)
  <2>1. reader' \in [Readers -> Reader]
    <3>1. reader \in [Readers -> Reader] /\ source \in Snapshot
      BY DEF TypeOK
    <3>2. reader[r] \in Reader
      BY <3>1
    <3>3. \E x \in Reader : reader' = [reader EXCEPT ![r] = x]
      BY <1>1, <3>1, <3>2 DEF ReadBegin, Reader
    <3> QED
      BY <1>1, <3>1, <3>2, <3>3 DEF ReadBegin
  <2>2. get' \in [Callers -> Get]
    <3>1. get \in [Callers -> Get]
      BY DEF TypeOK
    <3> QED
      BY <1>1, <3>1, ConstantTypes DEF ReadBegin, Call, Callers
  <2> QED
    BY <1>1, <2>1, <2>2 DEF TypeOK, ReadBegin
<1>2. CASE ReadEngine(r)
  <2>1. queue' \subseteq Signals
    BY <1>2 DEF TypeOK, ReadEngine, RequestIfLoaded, RequestRescan, NoRequest, Signals, Paths
  <2>2. shown' \in Shown
    <3>1. shown \in Shown
      BY DEF TypeOK
    <3> QED
      BY <1>2, <3>1 DEF ReadEngine, RequestIfLoaded, RequestRescan, NoRequest, Shown
  <2>3. reader' \in [Readers -> Reader]
    <3>1. reader \in [Readers -> Reader] /\ get \in [Callers -> Get]
      BY DEF TypeOK
    <3>2. reader[r] \in Reader
      BY <3>1
    <3>3. \E x \in Reader : reader' = [reader EXCEPT ![r] = x]
      BY <1>2, <3>1, <3>2 DEF ReadEngine, Reader, Get, Callers
    <3> QED
      BY <1>2, <3>1, <3>2, <3>3 DEF ReadEngine
  <2>4. get' \in [Callers -> Get]
    <3>1. get \in [Callers -> Get]
      BY DEF TypeOK
    <3> QED
      BY <1>2, <3>1, ConstantTypes DEF ReadEngine, Callers
  <2> QED
    BY <1>2, <2>1, <2>2, <2>3, <2>4 DEF TypeOK, ReadEngine
<1>3. CASE ReadWaited(r)
  <2>1. reader' \in [Readers -> Reader]
    <3>1. reader \in [Readers -> Reader]
      BY DEF TypeOK
    <3>2. reader[r] \in Reader
      BY <3>1
    <3>3. \E x \in Reader : reader' = [reader EXCEPT ![r] = x]
      BY <1>3, <3>1, <3>2, ZenonT(60) DEF ReadWaited, Reader, ReadFinal, NoEngine
    <3> QED
      BY <1>3, <3>1, <3>2, <3>3 DEF ReadWaited
  <2>2. get' \in [Callers -> Get]
    <3>1. get \in [Callers -> Get]
      BY DEF TypeOK
    <3> QED
      BY <1>3, <3>1, ConstantTypes DEF ReadWaited, ReadFinal, Call, Callers
  <2> QED
    BY <1>3, <2>1, <2>2 DEF TypeOK, ReadWaited
<1>4. CASE ReadValidates(r)
  <2>1. queue' \subseteq Signals
    BY <1>4 DEF TypeOK, ReadValidates, RequestRescan, NoRequest, Signals, Paths
  <2>2. shown' \in Shown
    <3>1. shown \in Shown
      BY DEF TypeOK
    <3> QED
      BY <1>4, <3>1 DEF ReadValidates, RequestRescan, NoRequest, Shown
  <2>3. reader' \in [Readers -> Reader]
    <3>1. reader \in [Readers -> Reader]
      BY DEF TypeOK
    <3>2. reader[r] \in Reader
      BY <3>1
    <3>3. \E x \in Reader : reader' = [reader EXCEPT ![r] = x]
      BY <1>4, <3>1, <3>2 DEF ReadValidates, Reader
    <3> QED
      BY <1>4, <3>1, <3>2, <3>3 DEF ReadValidates
  <2> QED
    BY <1>4, <2>1, <2>2, <2>3 DEF TypeOK, ReadValidates
<1>5. CASE ReadWaitedAgain(r)
  <2>1. reader' \in [Readers -> Reader]
    <3>1. reader \in [Readers -> Reader] /\ shown \in Shown
      BY DEF TypeOK
    <3>2. reader[r] \in Reader
      BY <3>1
    <3>3. \E x \in Reader : reader' = [reader EXCEPT ![r] = x]
      BY <1>5, <3>1, <3>2 DEF ReadWaitedAgain, Reader, ReadFinal, LabelFresh, NoEngine, Shown
    <3> QED
      BY <1>5, <3>1, <3>2, <3>3 DEF ReadWaitedAgain
  <2>2. get' \in [Callers -> Get]
    <3>1. get \in [Callers -> Get]
      BY DEF TypeOK
    <3> QED
      BY <1>5, <3>1, ConstantTypes DEF ReadWaitedAgain, ReadFinal, Call, Callers
  <2> QED
    BY <1>5, <2>1, <2>2 DEF TypeOK, ReadWaitedAgain
<1>6. CASE ReadExpires(r)
  <2>1. queue' \subseteq Signals
    BY <1>6 DEF TypeOK, ReadExpires, RequestRescan, NoRequest, Signals, Paths
  <2>2. shown' \in Shown
    <3>1. shown \in Shown
      BY DEF TypeOK
    <3> QED
      BY <1>6, <3>1 DEF ReadExpires, RequestRescan, NoRequest, Shown
  <2>3. reader' \in [Readers -> Reader]
    <3>1. reader \in [Readers -> Reader]
      BY DEF TypeOK
    <3>2. reader[r] \in Reader
      BY <3>1
    <3>3. \E x \in Reader : reader' = [reader EXCEPT ![r] = x]
      BY <1>6, <3>1, <3>2 DEF ReadExpires, Reader, ReadFinal, NoEngine
    <3> QED
      BY <1>6, <3>1, <3>2, <3>3 DEF ReadExpires
  <2>4. get' \in [Callers -> Get]
    <3>1. get \in [Callers -> Get]
      BY DEF TypeOK
    <3> QED
      BY <1>6, <3>1, ConstantTypes DEF ReadExpires, ReadFinal, Call, Callers
  <2> QED
    BY <1>6, <2>1, <2>2, <2>3, <2>4 DEF TypeOK, ReadExpires
<1>7. CASE ReadLabel(r)
  <2>1. reader' \in [Readers -> Reader]
    <3>1. reader \in [Readers -> Reader] /\ shown \in Shown
      BY DEF TypeOK
    <3>2. reader[r] \in Reader
      BY <3>1
    <3>3. \E x \in Reader : reader' = [reader EXCEPT ![r] = x]
      BY <1>7, <3>1, <3>2 DEF ReadLabel, Reader, LabelFresh, Shown
    <3> QED
      BY <1>7, <3>1, <3>2, <3>3 DEF ReadLabel
  <2> QED
    BY <1>7, <2>1 DEF TypeOK, ReadLabel
<1>8. CASE ReadEnd(r)
  <2>1. reader' \in [Readers -> Reader]
    <3>1. reader \in [Readers -> Reader]
      BY DEF TypeOK
    <3> QED
      BY <1>8, <3>1, ConstantTypes DEF ReadEnd
  <2> QED
    BY <1>8, <2>1 DEF TypeOK, ReadEnd
<1> QED
  BY <1>1, <1>2, <1>3, <1>4, <1>5, <1>6, <1>7, <1>8 DEF ReadStep

\* run_index_project.
LEMMA TypeJob ==
  ASSUME TypeOK, JobBegin \/ JobStep
  PROVE  TypeOK'
<1> USE DEF disk, store, cache, tasks
<1>1. CASE JobBegin
  <2>1. projectLock' \in {"loop", "job", "free"}
    BY <1>1 DEF TypeOK, JobBegin
  <2>2. job' \in Task
    <3>1. job \in Task /\ source \in Snapshot
      BY DEF TypeOK
    <3> QED
      BY <1>1, <3>1 DEF JobBegin, Task
  <2> QED
    BY <1>1, <2>1, <2>2 DEF TypeOK, JobBegin
<1>2. CASE JobWorker
  <2>1. pointer' \in Gens
    BY <1>2, BoundAssumption DEF TypeOK, JobWorker, Install, Gens
  <2>2. saved' \in [Gens -> Snapshot]
    <3>1. saved \in [Gens -> Snapshot] /\ job \in Task
      BY DEF TypeOK
    <3> QED
      BY <1>2, <3>1 DEF JobWorker, Install, Task
  <2>3. job' \in Task
    <3>1. job \in Task
      BY DEF TypeOK
    <3> QED
      BY <1>2, <3>1, ConstantTypes DEF JobWorker
  <2>4. projectLock' \in {"loop", "job", "free"}
    BY <1>2 DEF TypeOK, JobWorker
  <2> QED
    BY <1>2, <2>1, <2>2, <2>3, <2>4 DEF TypeOK, JobWorker
<1>3. CASE JobLoad
  <2>1. engine' \in [Engines -> Engine]
    <3>1. engine \in [Engines -> Engine]
      BY DEF TypeOK
    <3> QED
      BY <1>3, <3>1, LoadTypes DEF JobLoad
  <2>2. job' \in Task
    <3>1. job \in Task
      BY DEF TypeOK
    <3> QED
      BY <1>3, <3>1, ConstantTypes DEF JobLoad, Task
  <2>3. projectLock' \in {"loop", "job", "free"}
    BY <1>3 DEF TypeOK, JobLoad
  <2> QED
    BY <1>3, <2>1, <2>2, <2>3 DEF TypeOK, JobLoad
<1>4. CASE JobInsert
  <2>1. cached' \in Engines \cup {NoEngine}
    <3>1. cached \in Engines \cup {NoEngine} /\ job \in Task
      BY DEF TypeOK
    <3> QED
      BY <1>4, <3>1 DEF JobInsert, Task
  <2>2. job' \in Task
    <3>1. job \in Task
      BY DEF TypeOK
    <3> QED
      BY <1>4, <3>1, ConstantTypes DEF JobInsert
  <2> QED
    BY <1>4, <2>1, <2>2 DEF TypeOK, JobInsert
<1>5. CASE JobRequest
  <2>1. queue' \subseteq Signals
    BY <1>5 DEF TypeOK, JobRequest, RequestRescan, Signals, Paths
  <2>2. shown' \in Shown
    <3>1. shown \in Shown
      BY DEF TypeOK
    <3> QED
      BY <1>5, <3>1 DEF JobRequest, RequestRescan, Shown
  <2>3. job' \in Task
    <3>1. job \in Task
      BY DEF TypeOK
    <3> QED
      BY <1>5, <3>1, ConstantTypes DEF JobRequest
  <2> QED
    BY <1>5, <2>1, <2>2, <2>3 DEF TypeOK, JobRequest
<1>6. CASE JobEnd
  <2>1. upgrade' \in [Upgrades -> Task]
    <3>1. upgrade \in [Upgrades -> Task] /\ saved \in [Gens -> Snapshot] /\ pointer \in Gens
      BY DEF TypeOK
    <3>2. saved[pointer] \in Snapshot
      BY <3>1
    <3> QED
      BY <1>6, <3>1, <3>2, ZenonT(60) DEF JobEnd, Task
  <2>2. job' \in Task
    <3>1. job \in Task
      BY DEF TypeOK
    <3> QED
      BY <1>6, <3>1, ConstantTypes DEF JobEnd
  <2>3. projectLock' \in {"loop", "job", "free"}
    BY <1>6 DEF TypeOK, JobEnd
  <2> QED
    BY <1>6, <2>1, <2>2, <2>3 DEF TypeOK, JobEnd
<1> QED
  BY <1>1, <1>2, <1>3, <1>4, <1>5, <1>6 DEF JobStep

\* Semantic upgrades.
LEMMA TypeUpgrade ==
  ASSUME TypeOK, NEW u \in Upgrades, UpgradeStep(u)
  PROVE  TypeOK'
<1> USE DEF disk, store, cache, tasks
<1>1. CASE UpgradeWorker(u)
  <2>1. pointer' \in Gens
    BY <1>1, BoundAssumption DEF TypeOK, UpgradeWorker, Install, Gens
  <2>2. saved' \in [Gens -> Snapshot]
    <3>1. saved \in [Gens -> Snapshot] /\ upgrade \in [Upgrades -> Task]
      BY DEF TypeOK
    <3> QED
      BY <1>1, <3>1 DEF UpgradeWorker, Install, Task
  <2>3. upgrade' \in [Upgrades -> Task]
    <3>1. upgrade \in [Upgrades -> Task]
      BY DEF TypeOK
    <3> QED
      BY <1>1, <3>1, ConstantTypes DEF UpgradeWorker
  <2> QED
    BY <1>1, <2>1, <2>2, <2>3 DEF TypeOK, UpgradeWorker
<1>2. CASE UpgradeLoad(u)
  <2>1. engine' \in [Engines -> Engine]
    <3>1. engine \in [Engines -> Engine]
      BY DEF TypeOK
    <3> QED
      BY <1>2, <3>1, LoadTypes DEF UpgradeLoad
  <2>2. upgrade' \in [Upgrades -> Task]
    <3>1. upgrade \in [Upgrades -> Task]
      BY DEF TypeOK
    <3> QED
      BY <1>2, <3>1 DEF UpgradeLoad, Task
  <2> QED
    BY <1>2, <2>1, <2>2 DEF TypeOK, UpgradeLoad
<1>3. CASE UpgradeInsert(u)
  <2>1. cached' \in Engines \cup {NoEngine}
    <3>1. cached \in Engines \cup {NoEngine} /\ upgrade \in [Upgrades -> Task]
      BY DEF TypeOK
    <3> QED
      BY <1>3, <3>1 DEF UpgradeInsert, Task
  <2>2. upgrade' \in [Upgrades -> Task]
    <3>1. upgrade \in [Upgrades -> Task]
      BY DEF TypeOK
    <3> QED
      BY <1>3, <3>1, ConstantTypes DEF UpgradeInsert
  <2> QED
    BY <1>3, <2>1, <2>2 DEF TypeOK, UpgradeInsert
<1>4. CASE UpgradeEnd(u)
  <2>1. queue' \subseteq Signals
    BY <1>4 DEF TypeOK, UpgradeEnd, RequestRescan, NoRequest, Signals, Paths
  <2>2. shown' \in Shown
    <3>1. shown \in Shown
      BY DEF TypeOK
    <3> QED
      BY <1>4, <3>1 DEF UpgradeEnd, RequestRescan, NoRequest, Shown
  <2>3. upgrade' \in [Upgrades -> Task]
    <3>1. upgrade \in [Upgrades -> Task]
      BY DEF TypeOK
    <3> QED
      BY <1>4, <3>1, ConstantTypes DEF UpgradeEnd
  <2> QED
    BY <1>4, <2>1, <2>2, <2>3 DEF TypeOK, UpgradeEnd
<1> QED
  BY <1>1, <1>2, <1>3, <1>4 DEF UpgradeStep

---------------------------------------------------------------------------
(* The engines in use.                                                     *)

\* Nobody has an engine at first.
LEMMA HeldInit == Init => EnginesHeld
BY DEF Init, EnginesHeld, NoGet

\* A step that changes the program counter of no call, other than to "lookup" or "none",
\* keeps the engines of the calls.
LEMMA HeldByCallers ==
  ASSUME TypeOK, EnginesHeld, NEW c \in Callers,
         get' \in {get, [get EXCEPT ![c] = NoGet],
                  [get EXCEPT ![c] = [NoGet EXCEPT !.pc = "lookup"]]}
  PROVE  \A d \in Callers :
           get'[d].pc \in {"insert", "hit", "loaded"} => get'[d].engine \in Engines
<1>1. get \in [Callers -> Get]
  BY DEF TypeOK
<1> QED
  BY <1>1 DEF EnginesHeld, NoGet

\* Calls of cached_project_engine.
LEMMA HeldByCache ==
  ASSUME TypeOK, EnginesHeld, NEW c \in Callers, CacheStep(c)
  PROVE  EnginesHeld'
<1>1. get \in [Callers -> Get] /\ cached \in Engines \cup {NoEngine}
  BY DEF TypeOK
<1>2. loop' = loop
  BY DEF CacheStep, Lookup, PassGate, Insert
<1>3. /\ get' = [get EXCEPT ![c] = get'[c]]
      /\ get'[c].pc \in {"insert", "hit", "loaded"} => get'[c].engine \in Engines
  <2>1. CASE Lookup(c)
    BY <1>1, <2>1 DEF Lookup, IsCached, NoEngine
  <2>2. CASE PassGate(c)
    BY <1>1, <2>2 DEF PassGate, IsCached, NoEngine
  <2>3. CASE Insert(c)
    BY <1>1, <2>3 DEF Insert, IsCached, EnginesHeld, Get
  <2> QED
    BY <2>1, <2>2, <2>3 DEF CacheStep
<1>4. ASSUME NEW d \in Callers, get'[d].pc \in {"insert", "hit", "loaded"}
      PROVE  get'[d].engine \in Engines
  BY <1>1, <1>3, <1>4 DEF EnginesHeld
<1> QED
  BY <1>2, <1>4 DEF EnginesHeld

\* run_refresh_loop.
LEMMA HeldByLoop ==
  ASSUME TypeOK, EnginesHeld, LoopStep \/ AttemptFails
  PROVE  EnginesHeld'
<1> DEFINE Calls == get' \in {get, [get EXCEPT ![Refresher] = NoGet],
                             [get EXCEPT ![Refresher] = [NoGet EXCEPT !.pc = "lookup"]]}
           Keeps == loop'.pc \in {"apply", "commit", "publish"} => loop'.engine \in Engines
<1>1. loop \in Loop /\ get \in [Callers -> Get] /\ Refresher \in Callers
  BY DEF TypeOK, Callers
<1>2. Calls
  <2> USE DEF cache
  <2>1. CASE Receive \/ BeginTurn \/ Publish
    BY <2>1 DEF Receive, BeginTurn, Publish, TurnOver
  <2>2. CASE RefreshOnce \/ Superseded
    BY <2>2 DEF RefreshOnce, Superseded, Call
  <2>3. CASE EngineReady \/ Scan \/ Commit \/ AttemptFails
    BY <2>3 DEF EngineReady, Scan, Commit, AttemptFails
  <2> QED
    BY <2>1, <2>2, <2>3 DEF LoopStep
<1>3. Keeps
  <2>1. CASE Receive \/ BeginTurn \/ RefreshOnce
    BY <1>1, <2>1 DEF Receive, BeginTurn, RefreshOnce, Defer, Loop
  <2>2. CASE EngineReady
    BY <1>1, <2>2 DEF EngineReady, Returned, EnginesHeld, Loop
  <2>3. CASE Scan \/ Commit
    BY <1>1, <2>3 DEF Scan, Commit, Applied, EnginesHeld, Loop
  <2>4. CASE Superseded \/ AttemptFails
    BY <1>1, <2>4 DEF Superseded, AttemptFails, Loop
  <2>5. CASE Publish
    BY <1>1, <2>5 DEF Publish, TurnOver, Wake, Loop
  <2> QED
    BY <2>1, <2>2, <2>3, <2>4, <2>5 DEF LoopStep
<1> QED
  BY <1>1, <1>2, <1>3, HeldByCallers DEF EnginesHeld

\* Everything else leaves the loop alone, and starts or ends calls only.
LEMMA HeldByOthers ==
  ASSUME TypeOK, EnginesHeld, loop' = loop,
         \/ get' = get
         \/ \E c \in Callers : \/ get' = [get EXCEPT ![c] = NoGet]
                               \/ get' = [get EXCEPT ![c] = [NoGet EXCEPT !.pc = "lookup"]]
  PROVE  EnginesHeld'
<1>1. CASE get' = get
  BY <1>1 DEF EnginesHeld
<1>2. ASSUME NEW c \in Callers,
             \/ get' = [get EXCEPT ![c] = NoGet]
             \/ get' = [get EXCEPT ![c] = [NoGet EXCEPT !.pc = "lookup"]]
      PROVE  EnginesHeld'
  BY <1>2, HeldByCallers DEF EnginesHeld
<1> QED
  BY <1>1, <1>2

---------------------------------------------------------------------------
(* Type correctness of every step.                                         *)

\* A step of anyone keeps the types and the engines in use.
LEMMA TypeNext ==
  ASSUME TypeOK, EnginesHeld, [Next]_vars
  PROVE  TypeOK' /\ EnginesHeld'
<1> USE DEF disk, store, cache, tasks
<1>1. CASE \/ \E f \in Files : Edit(f)
           \/ Deliver \/ ExternalScan \/ ExternalInstall \/ Evict
  <2>1. loop' = loop /\ get' = get
    BY <1>1 DEF Edit, Deliver, ExternalScan, ExternalInstall, Evict
  <2> QED
    BY <1>1, <2>1, TypeSources, HeldByOthers
<1>2. CASE LoopStep \/ AttemptFails
  BY <1>2, TypeLoop, HeldByLoop
<1>3. ASSUME NEW c \in Callers, CacheStep(c)
      PROVE  TypeOK' /\ EnginesHeld'
  BY <1>3, TypeCache, HeldByCache
<1>4. CASE PersistStep
  <2>1. loop' = loop /\ get' = get
    BY <1>4 DEF PersistStep, Persist, PersistSuperseded
  <2> QED
    BY <1>4, <2>1, TypePersist, HeldByOthers
<1>5. ASSUME NEW r \in Readers, ReadBegin(r) \/ ReadStep(r) \/ ReadExpires(r)
      PROVE  TypeOK' /\ EnginesHeld'
  <2>1. r \in Callers
    BY DEF Callers
  <2>2. loop' = loop
    BY <1>5 DEF ReadBegin, ReadStep, ReadExpires, ReadEngine, ReadWaited, ReadValidates,
                ReadWaitedAgain, ReadLabel, ReadEnd
  <2>3. \/ get' = get
        \/ get' = [get EXCEPT ![r] = NoGet]
        \/ get' = [get EXCEPT ![r] = [NoGet EXCEPT !.pc = "lookup"]]
    BY <1>5 DEF ReadBegin, ReadStep, ReadExpires, ReadEngine, ReadWaited, ReadValidates,
                ReadWaitedAgain, ReadLabel, ReadEnd, ReadFinal, Call
  <2> QED
    BY <1>5, <2>1, <2>2, <2>3, TypeRead, HeldByOthers
<1>6. CASE JobBegin \/ JobStep
  <2>1. loop' = loop /\ get' = get
    BY <1>6 DEF JobBegin, JobStep, JobWorker, JobLoad, JobInsert, JobRequest, JobEnd
  <2> QED
    BY <1>6, <2>1, TypeJob, HeldByOthers
<1>7. ASSUME NEW u \in Upgrades, UpgradeStep(u)
      PROVE  TypeOK' /\ EnginesHeld'
  <2>1. loop' = loop /\ get' = get
    BY <1>7 DEF UpgradeStep, UpgradeWorker, UpgradeLoad, UpgradeInsert, UpgradeEnd
  <2> QED
    BY <1>7, <2>1, TypeUpgrade, HeldByOthers
<1>8. CASE UNCHANGED vars
  BY <1>8 DEF TypeOK, EnginesHeld, vars
<1> QED
  BY <1>1, <1>2, <1>3, <1>4, <1>5, <1>6, <1>7, <1>8 DEF Next, Callers

\* Type correctness, and every engine that is used exists.
LEMMA Typed == Spec => [](TypeOK /\ EnginesHeld)
<1>1. Init => TypeOK /\ EnginesHeld
  BY TypeInit, HeldInit
<1>2. TypeOK /\ EnginesHeld /\ [Next]_vars => (TypeOK /\ EnginesHeld)'
  BY TypeNext
<1> QED
  BY <1>1, <1>2, PTL DEF Spec

\* Type correctness of the refresh of a project.
THEOREM TypeCorrect == Spec => []TypeOK
BY Typed, PTL

---------------------------------------------------------------------------
(* No turn during an upgrade.                                              *)

\* The project lock excludes turns of the loop and index jobs, and a turn that has the
\* lock was begun, and goes on, while no quick index is upgraded: upgrades are registered
\* by index jobs only, before they release the lock.
TurnsExclude ==
  /\ loop.pc \in {"engine", "apply", "commit"} => projectLock = "loop" /\ ~UpgradeRunning
  /\ job.pc # "idle" => projectLock = "job"

\* Steps of the loop.
LEMMA ExcludedLoop ==
  ASSUME TypeOK, TurnsExclude, LoopStep \/ AttemptFails
  PROVE  TurnsExclude'
<1> USE DEF disk, store, cache, tasks, TurnsExclude, UpgradeRunning
<1>1. loop \in Loop
  BY DEF TypeOK
<1>2. CASE Receive \/ BeginTurn
  BY <1>1, <1>2 DEF Receive, BeginTurn, Defer, Loop
<1>3. CASE RefreshOnce
  BY <1>1, <1>3 DEF RefreshOnce, Defer, Loop
<1>4. CASE EngineReady
  BY <1>1, <1>4 DEF EngineReady, Loop
<1>5. CASE Scan \/ Commit
  <2>1. \/ loop'.pc = "publish" /\ UNCHANGED <<job, upgrade>>
        \/ loop'.pc = "commit" /\ UNCHANGED <<projectLock, job, upgrade>>
    BY <1>1, <1>5 DEF Scan, Commit, Applied, Loop
  <2>2. loop.pc \in {"apply", "commit"}
    BY <1>5 DEF Scan, Commit
  <2>3. job.pc = "idle"
    BY <2>2
  <2> QED
    BY <2>1, <2>2, <2>3
<1>6. CASE Superseded
  BY <1>1, <1>6 DEF Superseded, Loop
<1>7. CASE AttemptFails
  BY <1>1, <1>7 DEF AttemptFails, Loop
<1>8. CASE Publish
  BY <1>1, <1>8 DEF Publish, TurnOver, Wake, Loop
<1> QED
  BY <1>2, <1>3, <1>4, <1>5, <1>6, <1>7, <1>8 DEF LoopStep

\* Steps of an index job: it has the lock, so that there is no turn.
LEMMA ExcludedJob ==
  ASSUME TypeOK, TurnsExclude, JobBegin \/ JobStep
  PROVE  TurnsExclude'
<1> USE DEF TurnsExclude, UpgradeRunning
<1>1. loop' = loop /\ job \in Task
  BY DEF TypeOK, JobBegin, JobStep, JobWorker, JobLoad, JobInsert, JobRequest, JobEnd
<1>2. CASE JobBegin
  BY <1>1, <1>2 DEF JobBegin
<1>3. CASE JobStep
  <2>1. projectLock = "job"
    BY <1>3 DEF JobStep, JobWorker, JobLoad, JobInsert, JobRequest, JobEnd
  <2>2. loop.pc \notin {"engine", "apply", "commit"}
    BY <2>1
  <2>3. job'.pc # "idle" => projectLock' = projectLock
    <3> USE DEF NoTask
    <3>1. CASE JobWorker
      BY <3>1 DEF JobWorker
    <3>2. CASE JobLoad
      <4>1. projectLock' = projectLock \/ job' = NoTask
        BY <3>2 DEF JobLoad
      <4> QED
        BY <4>1
    <3>3. CASE JobInsert \/ JobRequest \/ JobEnd
      BY <3>3 DEF JobInsert, JobRequest, JobEnd
    <3> QED
      BY <1>3, <3>1, <3>2, <3>3 DEF JobStep
  <2> QED
    BY <1>1, <2>1, <2>2, <2>3
<1> QED
  BY <1>2, <1>3

\* Steps of an upgrade: one that runs began before.
LEMMA ExcludedUpgrade ==
  ASSUME TypeOK, TurnsExclude, NEW u \in Upgrades, UpgradeStep(u)
  PROVE  TurnsExclude'
<1>1. /\ upgrade[u].pc # "idle"
      /\ UNCHANGED <<loop, job, projectLock>>
  BY DEF UpgradeStep, UpgradeWorker, UpgradeLoad, UpgradeInsert, UpgradeEnd
<1> QED
  BY <1>1 DEF TurnsExclude, UpgradeRunning

\* A step of anyone.
LEMMA ExcludedNext ==
  ASSUME TypeOK, TurnsExclude, [Next]_vars
  PROVE  TurnsExclude'
<1> USE DEF disk, store, cache, tasks
<1>1. CASE LoopStep \/ AttemptFails
  BY <1>1, ExcludedLoop
<1>2. CASE JobBegin \/ JobStep
  BY <1>2, ExcludedJob
<1>3. ASSUME NEW u \in Upgrades, UpgradeStep(u)
      PROVE  TurnsExclude'
  BY <1>3, ExcludedUpgrade
<1>4. CASE UNCHANGED <<loop, projectLock, job, upgrade>>
  BY <1>4 DEF TurnsExclude, UpgradeRunning
<1>5. ASSUME \/ \E f \in Files : Edit(f)
             \/ Deliver \/ ExternalScan \/ ExternalInstall \/ Evict
             \/ \E c \in Callers : CacheStep(c)
             \/ PersistStep \/ UNCHANGED vars
      PROVE  UNCHANGED <<loop, projectLock, job, upgrade>>
  BY <1>5 DEF Edit, Deliver, ExternalScan, ExternalInstall, Evict, CacheStep, Lookup,
              PassGate, Insert, PersistStep, Persist, PersistSuperseded, vars
<1>6. ASSUME NEW r \in Readers, ReadBegin(r) \/ ReadStep(r) \/ ReadExpires(r)
      PROVE  UNCHANGED <<loop, projectLock, job, upgrade>>
  BY <1>6 DEF ReadBegin, ReadStep, ReadExpires, ReadEngine, ReadWaited, ReadValidates,
              ReadWaitedAgain, ReadLabel, ReadEnd
<1> QED
  BY <1>1, <1>2, <1>3, <1>4, <1>5, <1>6 DEF Next, Callers

\* No change is applied to the active index while a quick index is being upgraded.
THEOREM NoChangeDuringUpgrade == Spec => []NoTurnDuringUpgrade
<1>1. Init => TurnsExclude
  BY DEF Init, TurnsExclude, NoTask
<1>2. TypeOK /\ TurnsExclude /\ [Next]_vars => TurnsExclude'
  BY ExcludedNext
<1>3. TurnsExclude => NoTurnDuringUpgrade
  BY DEF TurnsExclude, NoTurnDuringUpgrade
<1> QED
  BY <1>1, <1>2, <1>3, TypeCorrect, PTL DEF Spec

---------------------------------------------------------------------------
(* Requests are shown.                                                     *)

\* Whoever asks for a full comparison marks it, under the lock of the published state.
LEMMA RequestIsShown ==
  ASSUME TypeOK, RequestRescan
  PROVE  shown'.pending
<1>1. shown \in Shown
  BY DEF TypeOK
<1> QED
  BY <1>1 DEF RequestRescan, Shown

\* Steps of the loop: a request goes from the queue to the pending paths, and a turn
\* that ends publishes that signals were left.
LEMMA ShownLoop ==
  ASSUME TypeOK, RequestsAreShown, LoopStep \/ AttemptFails
  PROVE  RequestsAreShown'
<1>1. shown \in Shown /\ loop \in Loop
  BY DEF TypeOK
<1> USE DEF LabelFresh
<1>2. CASE Receive \/ BeginTurn
  <2>1. shown'.pending
    BY <1>1, <1>2 DEF Receive, BeginTurn, Defer, Shown
  <2> QED
    BY <2>1 DEF RequestsAreShown
<1>3. CASE RefreshOnce
  <2>1. \/ shown'.pending
        \/ UNCHANGED <<shown, queue>> /\ loop'.pending = loop.pending
    BY <1>1, <1>3 DEF RefreshOnce, Defer, Shown, Loop
  <2> QED
    BY <2>1 DEF RequestsAreShown
<1>4. CASE EngineReady \/ Scan \/ Commit \/ Superseded \/ AttemptFails
  <2>1. UNCHANGED <<shown, queue>>
    BY <1>4 DEF EngineReady, Scan, Commit, Superseded, AttemptFails
  <2>2. loop'.pending = loop.pending
    BY <1>1, <1>4 DEF EngineReady, Scan, Commit, Applied, Superseded, AttemptFails, Loop
  <2> QED
    BY <2>1, <2>2 DEF RequestsAreShown
<1>5. CASE Publish
  <2>1. queue' = {} /\ (shown'.pending <=> queue # {})
    BY <1>1, <1>5 DEF Publish, TurnOver, Shown
  <2>2. loop'.pending = {PendingPath(signal) : signal \in queue}
    BY <1>1, <1>5 DEF Publish, TurnOver, Loop
  <2> QED
    BY <2>1, <2>2 DEF RequestsAreShown
<1> QED
  BY <1>2, <1>3, <1>4, <1>5 DEF LoopStep

\* Everything else leaves the pending paths alone, and delivers another signal, asks
\* for a comparison, shows an error, or changes neither queue nor published state.
LEMMA ShownOthers ==
  ASSUME TypeOK, RequestsAreShown, loop' = loop,
         \/ RequestRescan
         \/ NoRequest
         \/ Deliver
         \/ queue' = queue /\ shown' = [shown EXCEPT !.error = TRUE]
  PROVE  RequestsAreShown'
<1>1. shown \in Shown
  BY DEF TypeOK
<1>2. CASE RequestRescan
  BY <1>2, RequestIsShown DEF RequestsAreShown, LabelFresh
<1>3. CASE NoRequest
  BY <1>3 DEF NoRequest, RequestsAreShown, LabelFresh
<1>4. CASE Deliver
  <2>1. shown' = shown /\ (Root \in queue' => Root \in queue)
    BY <1>4, NameAssumption DEF Deliver, TypeOK
  <2> QED
    BY <2>1 DEF RequestsAreShown, LabelFresh
<1>5. CASE queue' = queue /\ shown' = [shown EXCEPT !.error = TRUE]
  BY <1>1, <1>5 DEF RequestsAreShown, LabelFresh, Shown
<1> QED
  BY <1>2, <1>3, <1>4, <1>5

\* A step of anyone.
LEMMA ShownNext ==
  ASSUME TypeOK, RequestsAreShown, [Next]_vars
  PROVE  RequestsAreShown'
<1> DEFINE Others == /\ loop' = loop
                     /\ \/ RequestRescan
                        \/ NoRequest
                        \/ Deliver
                        \/ queue' = queue /\ shown' = [shown EXCEPT !.error = TRUE]
<1>1. CASE LoopStep \/ AttemptFails
  BY <1>1, ShownLoop
<1>2. ASSUME \/ \E f \in Files : Edit(f)
             \/ ExternalScan \/ ExternalInstall \/ Evict
             \/ \E c \in Callers : CacheStep(c)
             \/ UNCHANGED vars
      PROVE  Others
  BY <1>2 DEF NoRequest, Edit, ExternalScan, ExternalInstall, Evict, CacheStep, Lookup,
              PassGate, Insert, vars
<1>3. CASE Deliver
  BY <1>3, ShownOthers DEF Deliver
<1>4. ASSUME PersistStep
      PROVE  Others
  BY <1>4 DEF NoRequest, PersistStep, Persist, PersistSuperseded
<1>5. ASSUME NEW r \in Readers, ReadBegin(r) \/ ReadStep(r) \/ ReadExpires(r)
      PROVE  Others
  <2>1. loop' = loop
    BY <1>5 DEF ReadBegin, ReadStep, ReadExpires, ReadEngine, ReadWaited, ReadValidates,
                ReadWaitedAgain, ReadLabel, ReadEnd
  <2>2. RequestRescan \/ NoRequest
    BY <1>5 DEF ReadBegin, ReadStep, ReadExpires, ReadEngine, RequestIfLoaded, ReadWaited,
                ReadValidates, ReadWaitedAgain, ReadLabel, ReadEnd, NoRequest
  <2> QED
    BY <2>1, <2>2
<1>6. ASSUME JobBegin \/ JobStep
      PROVE  Others
  BY <1>6 DEF NoRequest, JobBegin, JobStep, JobWorker, JobLoad, JobInsert, JobRequest, JobEnd
<1>7. ASSUME NEW u \in Upgrades, UpgradeStep(u)
      PROVE  Others
  BY <1>7 DEF NoRequest, UpgradeStep, UpgradeWorker, UpgradeLoad, UpgradeInsert, UpgradeEnd
<1>8. Others => RequestsAreShown'
  BY ShownOthers
<1> QED
  BY <1>1, <1>2, <1>3, <1>4, <1>5, <1>6, <1>7, <1>8 DEF Next, Callers

\* While a full comparison is requested, no read is labelled fresh.
THEOREM NoHiddenRequest == Spec => []RequestsAreShown
<1>1. Init => RequestsAreShown
  BY DEF Init, RequestsAreShown, LabelFresh
<1>2. TypeOK /\ RequestsAreShown /\ [Next]_vars => RequestsAreShown'
  BY ShownNext
<1> QED
  BY <1>1, <1>2, TypeCorrect, PTL DEF Spec

---------------------------------------------------------------------------
(* Nothing is forgotten.                                                   *)

\* The change of a file is on its way to the loop, or a full comparison is.
Announced(f) == f \in undelivered \/ queue \cap {f, Root, Lost} # {}

\* What the loop has received of a file.
Pending(f) == loop.pending \cap {f, Root} # {}

\* The turn of the loop will compare the file in the cached index.
InTurn(f) == Pending(f) \/ engine[cached].rescan

\* The loop will bring the file up to date in the cached index, or show an error.
Handled(f) ==
  \/ loop.pc \in {"receive", "debounce"} /\ (loop.failed \/ Pending(f))
  \/ loop.pc = "lock" /\ InTurn(f)
  \/ /\ loop.pc = "engine" /\ InTurn(f)
     /\ Returned(Refresher) => get[Refresher].engine = cached
  \/ loop.pc = "apply" /\ loop.engine = cached /\ InTurn(f)
  \/ /\ loop.pc = "commit" /\ loop.engine = cached
     /\ engine[cached].rescan /\ loop.scan[f] = source[f]
  \/ loop.pc = "give up"

\* A file that the cached index of the active generation does not reflect is announced,
\* about to be, or handled.
NotForgotten ==
  IsCached(pointer) =>
    \A f \in Files : \/ engine[cached].at[f] = source[f]
                     \/ Announced(f) \/ WillRequest \/ Handled(f)

\* What a turn will commit is the file as it is, or as the index has it already, or the
\* file has changed since and is announced.
Scanned ==
  loop.pc = "commit" =>
    \A f \in Files : \/ loop.scan[f] = source[f] \/ Announced(f)
                     \/ loop.scan[f] = engine[loop.engine].at[f]

\* The loop calls for an engine, and has one, during its turn only; one that it loads is
\* to be compared completely.
LoopState ==
  /\ get[Refresher].pc # "none" => loop.pc = "engine"
  /\ get[Refresher].pc = "insert" => engine[get[Refresher].engine].rescan

\* A read calls for an engine before its first wait and after the last.
ReadState == \A r \in Readers : get[r].pc # "none" => reader[r].pc \in {"initial", "final"}

\* No live index is of a generation to come, and a superseded one is of an earlier one.
Generations ==
  \A e \in Engines : /\ engine[e].gen <= pointer
                     /\ engine[e].superseded => engine[e].gen < pointer

\* Work of the loop, received signals and a failed turn are published.
Published ==
  /\ loop.pc # "receive" \/ loop.pending # {} => shown.pending \/ shown.inFlight
  /\ loop.failed => shown.error

KeptInv == /\ NotForgotten /\ Scanned /\ LoopState /\ ReadState /\ Generations
           /\ Published

\* Steps of everyone but the loop.
Others ==
  \/ \E f \in Files : Edit(f)
  \/ Deliver \/ ExternalScan \/ ExternalInstall \/ Evict
  \/ PersistStep
  \/ \E r \in Readers : ReadBegin(r) \/ CacheStep(r) \/ ReadStep(r) \/ ReadExpires(r)
  \/ JobBegin \/ JobStep
  \/ \E u \in Upgrades : UpgradeStep(u)

\* Whatever holds after every action holds after a step.
LEMMA EveryStep ==
  ASSUME [Next]_vars
  PROVE  LoopStep \/ AttemptFails \/ CacheStep(Refresher) \/ Others \/ UNCHANGED vars
BY DEF Next, Others

\* What a live index reflects, and whether it is to be compared completely, is as it was.
Untouched(e) ==
  engine'[e].gen = engine[e].gen /\ engine'[e].at = engine[e].at
    /\ engine'[e].rescan = engine[e].rescan

\* A load takes memory that nobody uses.
LEMMA LoadApart ==
  ASSUME TypeOK, NEW e \in Engines, Load(e),
         NEW o \in Engines, o \in {cached, loop.engine, get[Refresher].engine}
  PROVE  engine'[o] = engine[o]
<1>1. engine \in [Engines -> Engine] /\ Refresher \in Callers
  BY DEF TypeOK, Callers
<1>2. o # e
  BY <1>1 DEF Load, Free, Held
<1> QED
  BY <1>1, <1>2 DEF Load

\* Others leave the loop and its calls alone, and take nothing off the queue.
LEMMA OthersApart ==
  ASSUME TypeOK, Others
  PROVE  /\ loop' = loop
         /\ get'[Refresher] = get[Refresher]
         /\ queue \subseteq queue'
<1> USE DEF store, cache, tasks
<1>1. get \in [Callers -> Get] /\ Refresher \in Callers /\ Readers \subseteq Callers
  BY DEF TypeOK, Callers
<1>2. CASE \/ \E f \in Files : Edit(f)
           \/ Deliver \/ ExternalScan \/ ExternalInstall \/ Evict
  BY <1>2 DEF Edit, Deliver, ExternalScan, ExternalInstall, Evict
<1>3. CASE PersistStep
  BY <1>3 DEF PersistStep, Persist, PersistSuperseded, RequestRescan
<1>4. ASSUME NEW r \in Readers, ReadBegin(r) \/ CacheStep(r) \/ ReadStep(r) \/ ReadExpires(r)
      PROVE  /\ loop' = loop
             /\ get'[Refresher] = get[Refresher]
             /\ queue \subseteq queue'
  <2>1. r # Refresher
    BY NameAssumption
  <2>2. CASE ReadBegin(r)
    BY <1>1, <2>1, <2>2 DEF ReadBegin, Call
  <2>3. CASE CacheStep(r)
    BY <1>1, <2>1, <2>3 DEF CacheStep, Lookup, PassGate, Insert
  <2>4. CASE ReadEngine(r)
    BY <1>1, <2>1, <2>4 DEF ReadEngine, RequestIfLoaded, RequestRescan, NoRequest
  <2>5. CASE ReadWaited(r) \/ ReadWaitedAgain(r)
    BY <1>1, <2>1, <2>5 DEF ReadWaited, ReadWaitedAgain, ReadFinal, Call
  <2>6. CASE ReadValidates(r) \/ ReadLabel(r) \/ ReadEnd(r)
    BY <1>1, <2>1, <2>6 DEF ReadValidates, ReadLabel, ReadEnd, RequestRescan, NoRequest
  <2>7. CASE ReadExpires(r)
    BY <1>1, <2>1, <2>7 DEF ReadExpires, ReadFinal, Call, RequestRescan, NoRequest
  <2> QED
    BY <1>4, <2>2, <2>3, <2>4, <2>5, <2>6, <2>7 DEF ReadStep
<1>5. CASE JobBegin \/ JobStep
  BY <1>5 DEF JobBegin, JobStep, JobWorker, JobLoad, JobInsert, JobRequest, JobEnd,
              RequestRescan
<1>6. ASSUME NEW u \in Upgrades, UpgradeStep(u)
      PROVE  /\ loop' = loop
             /\ get'[Refresher] = get[Refresher]
             /\ queue \subseteq queue'
  BY <1>6 DEF UpgradeStep, UpgradeWorker, UpgradeLoad, UpgradeInsert, UpgradeEnd,
              RequestRescan, NoRequest
<1> QED
  BY <1>2, <1>3, <1>4, <1>5, <1>6 DEF Others

\* What is announced stays so until the loop takes it.
LEMMA StaysAnnounced ==
  ASSUME TypeOK, Others, NEW f \in Files, Announced(f)
  PROVE  Announced(f)'
<1> USE DEF Announced
<1>1. queue \subseteq queue'
  BY OthersApart
<1>2. CASE Deliver
  BY <1>1, <1>2 DEF Deliver
<1>3. undelivered \subseteq undelivered' \/ Deliver
  BY DEF Others, Edit, ExternalScan, ExternalInstall, Evict, PersistStep, Persist,
     PersistSuperseded, ReadBegin, CacheStep, Lookup, PassGate, Insert, ReadStep, ReadEngine,
     ReadWaited, ReadValidates, ReadWaitedAgain, ReadLabel, ReadEnd, ReadExpires,
     JobBegin, JobStep, JobWorker, JobLoad, JobInsert, JobRequest, JobEnd, UpgradeStep,
     UpgradeWorker, UpgradeLoad, UpgradeInsert, UpgradeEnd, disk
<1> QED
  BY <1>1, <1>2, <1>3

\* Only an edit changes a file, and the watcher will announce it.
LEMMA ChangesAnnounced ==
  ASSUME TypeOK, Others, NEW f \in Files
  PROVE  source'[f] = source[f] \/ Announced(f)'
<1>1. source \in Snapshot
  BY DEF TypeOK
<1>2. ASSUME NEW g \in Files, Edit(g)
      PROVE  source'[f] = source[f] \/ Announced(f)'
  BY <1>1, <1>2 DEF Edit, Snapshot, Announced
<1>3. source' = source \/ \E g \in Files : Edit(g)
  BY DEF Others, Deliver, ExternalScan, ExternalInstall, Evict, PersistStep, Persist,
     PersistSuperseded, ReadBegin, CacheStep, Lookup, PassGate, Insert, ReadStep,
     ReadEngine, ReadWaited, ReadValidates, ReadWaitedAgain, ReadLabel, ReadEnd,
     ReadExpires, JobBegin, JobStep, JobWorker, JobLoad, JobInsert, JobRequest, JobEnd,
     UpgradeStep, UpgradeWorker, UpgradeLoad, UpgradeInsert, UpgradeEnd, disk
<1> QED
  BY <1>2, <1>3

\* Others change neither what the cached index reflects nor what an index of the loop does.
LEMMA OthersTouch ==
  ASSUME TypeOK, Others \/ CacheStep(Refresher),
         NEW o \in Engines, o \in {cached, loop.engine, get[Refresher].engine}
  PROVE  Untouched(o)
<1> USE DEF store, cache, tasks, Untouched
<1>1. engine \in [Engines -> Engine] /\ \A e \in Engines : engine[e] \in Engine
  BY DEF TypeOK
<1>2. CASE \/ \E f \in Files : Edit(f)
           \/ Deliver \/ ExternalScan \/ ExternalInstall \/ Evict
  BY <1>2 DEF Edit, Deliver, ExternalScan, ExternalInstall, Evict
<1>3. ASSUME NEW e \in Engines, Persist(e) \/ PersistSuperseded(e)
      PROVE  Untouched(o)
  <2>1. \/ engine' = engine
        \/ engine' = [engine EXCEPT ![e].unsaved = FALSE]
        \/ engine' = [engine EXCEPT ![e].superseded = TRUE]
    BY <1>3 DEF Persist, PersistSuperseded
  <2> QED
    BY <1>1, <2>1 DEF Engine
<1>4. ASSUME NEW c \in Callers, CacheStep(c)
      PROVE  Untouched(o)
  BY <1>4, LoadApart DEF CacheStep, Lookup, PassGate, Insert
<1>5. ASSUME NEW r \in Readers, ReadBegin(r) \/ ReadStep(r) \/ ReadExpires(r)
      PROVE  Untouched(o)
  BY <1>5 DEF ReadBegin, ReadStep, ReadEngine, ReadWaited, ReadValidates, ReadWaitedAgain,
              ReadLabel, ReadEnd, ReadExpires
<1>6. CASE JobBegin \/ JobStep
  BY <1>6, LoadApart DEF JobBegin, JobStep, JobWorker, JobLoad, JobInsert, JobRequest, JobEnd
<1>7. ASSUME NEW u \in Upgrades, UpgradeStep(u)
      PROVE  Untouched(o)
  BY <1>7, LoadApart DEF UpgradeStep, UpgradeWorker, UpgradeLoad, UpgradeInsert, UpgradeEnd
<1> QED
  BY <1>2, <1>3, <1>4, <1>5, <1>6, <1>7 DEF Others, PersistStep, Callers

---------------------------------------------------------------------------

\* Steps of the loop: its calls, and what it publishes.
LEMMA LoopStateNext ==
  ASSUME TypeOK, EnginesHeld, LoopState, [Next]_vars
  PROVE  LoopState'
<1> USE DEF LoopState, store, cache, tasks
<1>1. /\ loop \in Loop /\ get \in [Callers -> Get] /\ Refresher \in Callers
      /\ engine \in [Engines -> Engine]
  BY DEF TypeOK, Callers
<1>2. CASE Others
  <2>1. get[Refresher].pc = "insert" => get[Refresher].engine \in Engines
    BY <1>1 DEF EnginesHeld
  <2> QED
    BY <1>2, <2>1, OthersApart, OthersTouch DEF Untouched
<1>3. CASE CacheStep(Refresher)
  <2>1. loop' = loop /\ get[Refresher].pc # "none"
    BY <1>3 DEF CacheStep, Lookup, PassGate, Insert
  <2>2. get'[Refresher].pc = "insert" => engine'[get'[Refresher].engine].rescan
    <3>1. CASE Lookup(Refresher)
      BY <1>1, <3>1 DEF Lookup
    <3>2. CASE PassGate(Refresher)
      BY <1>1, <3>2 DEF PassGate, Load
    <3>3. CASE Insert(Refresher)
      <4>1. get[Refresher] \in Get
        BY <1>1
      <4>2. get'[Refresher].pc \in {"hit", "loaded"}
        <5>1. \/ get'[Refresher] = [get[Refresher] EXCEPT !.pc = "hit", !.engine = cached]
              \/ get'[Refresher] = [get[Refresher] EXCEPT !.pc = "loaded"]
          BY <1>1, <3>3 DEF Insert
        <5> QED
          BY <4>1, <5>1 DEF Get
      <4> QED
        BY <4>2
    <3> QED
      BY <1>3, <3>1, <3>2, <3>3 DEF CacheStep
  <2> QED
    BY <2>1, <2>2
<1>4. CASE Receive \/ BeginTurn \/ Publish
  <2>1. get[Refresher].pc = "none" /\ get' = get
    BY <1>4 DEF Receive, BeginTurn, Publish, TurnOver
  <2> QED
    BY <2>1
<1>5. CASE Scan \/ Commit
  <2>1. get[Refresher].pc = "none" /\ get' = get
    BY <1>5 DEF Scan, Commit
  <2> QED
    BY <2>1
<1>6. CASE RefreshOnce
  <2>1. \/ get' = get /\ get[Refresher].pc = "none"
        \/ get'[Refresher].pc = "lookup" /\ loop'.pc = "engine"
    <3>1. CASE UpgradeRunning
      BY <1>6, <3>1 DEF RefreshOnce
    <3>2. CASE ~UpgradeRunning
      <4>1. get'[Refresher] = [NoGet EXCEPT !.pc = "lookup"]
        BY <1>1, <1>6, <3>2 DEF RefreshOnce, Call
      <4>2. loop'.pc = "engine"
        BY <1>1, <1>6, <3>2 DEF RefreshOnce, Loop
      <4> QED
        BY <4>1, <4>2 DEF NoGet
    <3> QED
      BY <3>1, <3>2
  <2> QED
    BY <2>1
<1>7. CASE EngineReady \/ Superseded \/ AttemptFails
  <2>1. \/ get'[Refresher].pc = "none"
        \/ get'[Refresher].pc = "lookup" /\ loop'.pc = "engine"
    <3>1. CASE EngineReady \/ AttemptFails
      <4>1. get'[Refresher] = NoGet
        BY <1>1, <3>1 DEF EngineReady, AttemptFails
      <4> QED
        BY <4>1 DEF NoGet
    <3>2. CASE Superseded
      BY <1>1, <3>2 DEF Superseded, Call, NoGet, Loop
    <3> QED
      BY <1>7, <3>1, <3>2
  <2> QED
    BY <2>1
<1>8. CASE UNCHANGED vars
  BY <1>8 DEF vars
<1> QED
  BY <1>2, <1>3, <1>4, <1>5, <1>6, <1>7, <1>8, EveryStep DEF LoopStep

\* Calls of reads.
LEMMA ReadStateNext ==
  ASSUME TypeOK, ReadState, [Next]_vars
  PROVE  ReadState'
<1> USE DEF ReadState, store, cache, tasks
<1>1. /\ get \in [Callers -> Get] /\ reader \in [Readers -> Reader]
      /\ Readers \subseteq Callers /\ Refresher \in Callers /\ Refresher \notin Readers
  BY NameAssumption DEF TypeOK, Callers
<1>2. ASSUME NEW r \in Readers, ReadBegin(r) \/ CacheStep(r) \/ ReadStep(r) \/ ReadExpires(r)
      PROVE  ReadState'
  <2>1. \A o \in Readers \ {r} : get'[o] = get[o] /\ reader'[o] = reader[o]
    <3>1. CASE ReadBegin(r) \/ ReadWaited(r) \/ ReadWaitedAgain(r) \/ ReadExpires(r)
      BY <1>1, <3>1 DEF ReadBegin, ReadWaited, ReadWaitedAgain, ReadExpires, ReadFinal, Call
    <3>2. CASE CacheStep(r)
      BY <1>1, <3>2 DEF CacheStep, Lookup, PassGate, Insert
    <3>3. CASE ReadEngine(r) \/ ReadValidates(r) \/ ReadLabel(r) \/ ReadEnd(r)
      BY <1>1, <3>3 DEF ReadEngine, ReadValidates, ReadLabel, ReadEnd
    <3> QED
      BY <1>2, <3>1, <3>2, <3>3 DEF ReadStep
  <2>2. reader[r] \in Reader /\ r \in Callers
    BY <1>1
  <2>3. CASE ReadBegin(r)
    BY <1>1, <2>1, <2>2, <2>3 DEF ReadBegin, Reader
  <2>4. CASE CacheStep(r)
    <3>1. reader' = reader /\ get[r].pc # "none"
      BY <2>4 DEF CacheStep, Lookup, PassGate, Insert
    <3> QED
      BY <1>1, <2>1, <2>2, <3>1
  <2>5. CASE ReadEngine(r)
    <3>1. get'[r].pc = "none"
      BY <1>1, <2>2, <2>5 DEF ReadEngine, NoGet
    <3> QED
      BY <2>1, <3>1
  <2>6. CASE ReadValidates(r) \/ ReadLabel(r) \/ ReadEnd(r)
    <3>1. get' = get /\ get[r].pc = "none"
      BY <2>6 DEF ReadValidates, ReadLabel, ReadEnd
    <3> QED
      BY <2>1, <3>1
  <2>7. CASE ReadWaited(r) \/ ReadWaitedAgain(r) \/ ReadExpires(r)
    <3>1. \/ get' = get /\ get[r].pc = "none"
          \/ \E checked \in BOOLEAN : ReadFinal(r, checked)
      BY <2>7 DEF ReadWaited, ReadWaitedAgain, ReadExpires, LabelFresh
    <3>2. ASSUME NEW checked \in BOOLEAN, ReadFinal(r, checked)
          PROVE  reader'[r].pc = "final"
      BY <1>1, <2>2, <3>2 DEF ReadFinal, Reader
    <3> QED
      BY <2>1, <3>1, <3>2
  <2> QED
    BY <1>2, <2>3, <2>4, <2>5, <2>6, <2>7 DEF ReadStep
<1>3. ASSUME UNCHANGED reader, \A r \in Readers : get'[r] = get[r]
      PROVE  ReadState'
  BY <1>3
<1>4. CASE \/ \E f \in Files : Edit(f)
           \/ Deliver \/ ExternalScan \/ ExternalInstall \/ Evict
           \/ PersistStep \/ JobBegin \/ JobStep
           \/ \E u \in Upgrades : UpgradeStep(u)
           \/ UNCHANGED vars
  <2>1. UNCHANGED <<reader, get>>
    BY <1>4 DEF Edit, Deliver, ExternalScan, ExternalInstall, Evict, PersistStep, Persist,
       PersistSuperseded, JobBegin, JobStep, JobWorker, JobLoad, JobInsert, JobRequest,
       JobEnd, UpgradeStep, UpgradeWorker, UpgradeLoad, UpgradeInsert, UpgradeEnd, vars
  <2> QED
    BY <2>1, <1>3
<1>5. CASE LoopStep \/ AttemptFails
  BY <1>1, <1>3, <1>5 DEF LoopStep, Receive, BeginTurn, RefreshOnce, EngineReady, Scan, Commit,
     Superseded, Publish, TurnOver, AttemptFails, Call
<1>6. CASE CacheStep(Refresher)
  BY <1>1, <1>3, <1>6 DEF CacheStep, Lookup, PassGate, Insert
<1> QED
  BY <1>2, <1>4, <1>5, <1>6, EveryStep DEF Others

\* A live index is found to be superseded: its generation is not the active one.
Marked(e) ==
  /\ engine[e].superseded \/ engine[e].gen # pointer
  /\ engine' = [engine EXCEPT ![e].superseded = TRUE]
  /\ pointer' = pointer

\* What becomes of the live indexes and of the active generation.
LEMMA GenerationsNext ==
  ASSUME TypeOK, EnginesHeld, Generations, [Next]_vars
  PROVE  Generations'
<1> USE DEF Generations, store, cache, tasks
<1>1. engine \in [Engines -> Engine] /\ pointer \in Gens /\ Gens \subseteq Nat
  BY DEF TypeOK, Gens
<1>2. \A e \in Engines : engine[e].gen \in Nat
  BY <1>1 DEF Engine
<1>3. ASSUME engine' = engine, pointer' = pointer \/ pointer' = pointer + 1
      PROVE  Generations'
  BY <1>1, <1>2, <1>3
<1>4. ASSUME NEW e \in Engines, Load(e), pointer' = pointer
      PROVE  Generations'
  BY <1>1, <1>2, <1>4 DEF Load
<1>5. ASSUME NEW e \in Engines, Marked(e)
      PROVE  Generations'
  BY <1>1, <1>2, <1>5 DEF Marked, Engine
<1>6. ASSUME NEW e \in Engines, NEW b \in BOOLEAN, pointer' = pointer,
             NEW at, NEW unsaved,
             engine' = [engine EXCEPT ![e] = [engine[e] EXCEPT !.at = at, !.rescan = b,
                                                               !.unsaved = unsaved]]
      PROVE  Generations'
  BY <1>1, <1>2, <1>6 DEF Engine
<1>7. CASE \/ \E f \in Files : Edit(f)
           \/ Deliver \/ ExternalScan \/ ExternalInstall \/ Evict
  BY <1>3, <1>7 DEF Edit, Deliver, ExternalScan, ExternalInstall, Install, Evict
<1>8. ASSUME NEW e \in Engines, Persist(e) \/ PersistSuperseded(e)
      PROVE  Generations'
  <2>1. CASE Persist(e)
    BY <1>1, <1>2, <2>1 DEF Persist, Engine
  <2>2. CASE PersistSuperseded(e)
    BY <1>5, <2>2 DEF PersistSuperseded, Marked
  <2> QED
    BY <1>8, <2>1, <2>2
<1>9. ASSUME NEW c \in Callers, CacheStep(c)
      PROVE  Generations'
  BY <1>3, <1>4, <1>9 DEF CacheStep, Lookup, PassGate, Insert
<1>10. ASSUME NEW r \in Readers, ReadBegin(r) \/ ReadStep(r) \/ ReadExpires(r)
       PROVE  Generations'
  BY <1>3, <1>10 DEF ReadBegin, ReadStep, ReadEngine, ReadWaited, ReadValidates,
                     ReadWaitedAgain, ReadLabel, ReadEnd, ReadExpires
<1>11. CASE JobBegin \/ JobStep
  BY <1>3, <1>4, <1>11 DEF JobBegin, JobStep, JobWorker, JobLoad, JobInsert, JobRequest,
                           JobEnd, Install
<1>12. ASSUME NEW u \in Upgrades, UpgradeStep(u)
       PROVE  Generations'
  BY <1>3, <1>4, <1>12 DEF UpgradeStep, UpgradeWorker, UpgradeLoad, UpgradeInsert,
                           UpgradeEnd, Install
<1>13. CASE Receive \/ BeginTurn \/ RefreshOnce \/ EngineReady \/ Publish
  BY <1>3, <1>13 DEF Receive, BeginTurn, RefreshOnce, EngineReady, Publish, TurnOver
<1>14. loop.pc \in {"apply", "commit"} => loop.engine \in Engines
  BY DEF EnginesHeld
<1>15. CASE Scan
  <2>1. \E b \in BOOLEAN : engine' = [engine EXCEPT ![loop.engine].rescan = b]
    BY <1>15 DEF Scan, Applied
  <2> QED
    BY <1>1, <1>2, <1>14, <1>15, <2>1 DEF Scan, Engine
<1>16. CASE Commit
  BY <1>6, <1>14, <1>16 DEF Commit, Applied
<1>17. CASE Superseded
  BY <1>5, <1>14, <1>17 DEF Superseded, Marked
<1>18. CASE AttemptFails
  BY <1>3, <1>5, <1>14, <1>18 DEF AttemptFails, Marked
<1>19. CASE UNCHANGED vars
  BY <1>3, <1>19 DEF vars
<1> QED
  BY <1>7, <1>8, <1>9, <1>10, <1>11, <1>12, <1>13, <1>15, <1>16, <1>17, <1>18, <1>19
     DEF Next, LoopStep, PersistStep, Callers

\* Others ask for a comparison, show an error, or leave the published state alone.
LEMMA OthersShow ==
  ASSUME TypeOK, Others
  PROVE  /\ shown.pending => shown'.pending
         /\ shown.inFlight => shown'.inFlight
         /\ shown.error => shown'.error
<1> USE DEF RequestRescan, NoRequest
<1>1. shown \in Shown
  BY DEF TypeOK
<1>2. \/ shown' = shown
      \/ shown' = [shown EXCEPT !.pending = TRUE]
      \/ shown' = [shown EXCEPT !.error = TRUE]
  <2>1. CASE \/ \E f \in Files : Edit(f)
             \/ Deliver \/ ExternalScan \/ ExternalInstall \/ Evict
             \/ PersistStep
    BY <2>1 DEF Edit, Deliver, ExternalScan, ExternalInstall, Evict, PersistStep, Persist,
                PersistSuperseded
  <2>2. ASSUME NEW r \in Readers,
               ReadBegin(r) \/ CacheStep(r) \/ ReadStep(r) \/ ReadExpires(r)
        PROVE  shown' = shown \/ shown' = [shown EXCEPT !.pending = TRUE]
    BY <2>2 DEF ReadBegin, CacheStep, Lookup, PassGate, Insert, ReadStep, ReadEngine,
                RequestIfLoaded, ReadWaited, ReadValidates, ReadWaitedAgain, ReadLabel,
                ReadEnd, ReadExpires
  <2>3. CASE (JobBegin \/ JobStep) \/ \E u \in Upgrades : UpgradeStep(u)
    BY <2>3 DEF JobBegin, JobStep, JobWorker, JobLoad, JobInsert, JobRequest, JobEnd,
                UpgradeStep, UpgradeWorker, UpgradeLoad, UpgradeInsert, UpgradeEnd
  <2> QED
    BY <2>1, <2>2, <2>3 DEF Others
<1> QED
  BY <1>1, <1>2 DEF Shown

\* What the loop does is published.
LEMMA PublishedNext ==
  ASSUME TypeOK, Published, [Next]_vars
  PROVE  Published'
<1> USE DEF Published
<1>1. loop \in Loop /\ shown \in Shown
  BY DEF TypeOK
<1>2. CASE Others
  BY <1>2, OthersApart, OthersShow
<1>3. CASE CacheStep(Refresher) \/ UNCHANGED vars
  BY <1>3 DEF CacheStep, Lookup, PassGate, Insert, vars
<1>4. CASE Receive
  BY <1>1, <1>4 DEF Receive, Loop, Shown
<1>5. CASE BeginTurn
  BY <1>1, <1>5 DEF BeginTurn, Defer, Loop, Shown
<1>6. CASE RefreshOnce
  BY <1>1, <1>6 DEF RefreshOnce, Defer, Loop, Shown
<1>7. CASE EngineReady \/ Scan \/ Commit \/ Superseded \/ AttemptFails
  <2>1. shown' = shown /\ loop.pc # "receive" /\ loop'.failed = loop.failed
    BY <1>1, <1>7 DEF EngineReady, Scan, Commit, Applied, Superseded, AttemptFails, Loop
  <2> QED
    BY <2>1
<1>8. CASE Publish
  <2>1. /\ shown'.pending = (queue # {}) /\ shown'.error = (loop.pc = "give up")
        /\ loop'.failed = (loop.pc = "give up")
    BY <1>1, <1>8 DEF Publish, TurnOver, Loop, Shown
  <2>2. queue = {} => loop'.pc = "receive" /\ loop'.pending = {}
    BY <1>1, <1>8 DEF Publish, TurnOver, Wake, Loop
  <2> QED
    BY <2>1, <2>2
<1> QED
  BY <1>2, <1>3, <1>4, <1>5, <1>6, <1>7, <1>8, EveryStep DEF LoopStep

\* While the loop is in a turn, a file that it has scanned may change; the change is
\* announced.
LEMMA ScannedNext ==
  ASSUME TypeOK, EnginesHeld, LoopState, Scanned, [Next]_vars
  PROVE  Scanned'
<1> USE DEF Scanned
<1>1. /\ loop \in Loop /\ engine \in [Engines -> Engine] /\ source \in Snapshot
      /\ loop.pc \in {"apply", "commit"} => loop.engine \in Engines
  BY DEF TypeOK, EnginesHeld
<1>2. CASE Others
  <2> SUFFICES ASSUME loop.pc = "commit", NEW f \in Files
               PROVE  \/ loop.scan[f] = source'[f] \/ Announced(f)'
                      \/ loop.scan[f] = engine'[loop.engine].at[f]
    BY <1>2, OthersApart
  <2>1. engine'[loop.engine].at = engine[loop.engine].at
    BY <1>1, <1>2, OthersTouch DEF Untouched
  <2>2. Announced(f) => Announced(f)'
    BY <1>2, StaysAnnounced
  <2>3. source'[f] = source[f] \/ Announced(f)'
    BY <1>2, ChangesAnnounced
  <2> QED
    BY <2>1, <2>2, <2>3
<1>3. CASE CacheStep(Refresher)
  <2>1. loop.pc # "commit"
    BY <1>3 DEF CacheStep, Lookup, PassGate, Insert, LoopState
  <2>2. loop' = loop
    BY <1>3 DEF CacheStep, Lookup, PassGate, Insert
  <2> QED
    BY <2>1, <2>2
<1>4. CASE Scan
  <2> SUFFICES ASSUME loop'.pc = "commit", NEW f \in Files
               PROVE  loop'.scan[f] \in {source'[f], engine'[loop'.engine].at[f]}
    OBVIOUS
  <2>1. loop'.engine = loop.engine /\ source' = source
    BY <1>1, <1>4 DEF Scan, Applied, Loop, disk
  <2>2. engine[loop.engine] \in Engine
    BY <1>1, <1>4 DEF Scan
  <2>3. engine'[loop.engine].at = engine[loop.engine].at
    <3>1. \E b \in BOOLEAN :
            engine'[loop.engine] = [engine[loop.engine] EXCEPT !.rescan = b]
      BY <1>1, <1>4 DEF Scan, Applied
    <3> QED
      BY <2>2, <3>1 DEF Engine
  <2>4. \E scope : loop'.scan = Override(engine[loop.engine].at, source, scope)
    BY <1>1, <1>4 DEF Scan, Applied, Loop
  <2> QED
    BY <2>1, <2>3, <2>4 DEF Override
<1>5. CASE Receive \/ BeginTurn \/ RefreshOnce \/ EngineReady
  BY <1>1, <1>5 DEF Receive, BeginTurn, RefreshOnce, EngineReady, Defer, Loop
<1>6. CASE Commit \/ Superseded \/ AttemptFails
  BY <1>1, <1>6 DEF Commit, Applied, Superseded, AttemptFails, Loop
<1>7. CASE Publish
  BY <1>1, <1>7 DEF Publish, TurnOver, Wake, Loop
<1>8. CASE UNCHANGED vars
  BY <1>8 DEF vars, Announced
<1> QED
  BY <1>2, <1>3, <1>4, <1>5, <1>6, <1>7, <1>8, EveryStep DEF LoopStep

---------------------------------------------------------------------------

\* The goal of the lemmas that follow, for one file.
Kept(f) == \/ engine[cached].at[f] = source[f]
           \/ Announced(f) \/ WillRequest \/ Handled(f)

\* If the cached entry stays as it is, so do the promises that the loop has made.
LEMMA HandledStill ==
  ASSUME NEW f \in Files, Untouched(cached),
         UNCHANGED <<loop, cached>>, get'[Refresher] = get[Refresher],
         source'[f] = source[f]
  PROVE  Handled(f) => Handled(f)'
BY DEF Handled, InTurn, Pending, Untouched, Returned

\* A task that has put an engine into the cache asks for a comparison before it ends, and
\* so does the last upgrade.
LEMMA WillStill ==
  ASSUME TypeOK, ReadState, Others, WillRequest
  PROVE  WillRequest' \/ Root \in queue'
<1> USE DEF WillRequest, UpgradeRunning, store, cache, tasks
<1>1. /\ get \in [Callers -> Get] /\ Readers \subseteq Callers
      /\ upgrade \in [Upgrades -> Task]
  BY DEF TypeOK, Callers
<1>2. RequestRescan => Root \in queue'
  BY DEF RequestRescan
<1>3. CASE \/ \E f \in Files : Edit(f)
           \/ Deliver \/ ExternalScan \/ ExternalInstall \/ Evict
  BY <1>3 DEF Edit, Deliver, ExternalScan, ExternalInstall, Evict
<1>4. CASE PersistStep
  BY <1>4 DEF PersistStep, Persist, PersistSuperseded
<1>5. ASSUME NEW r \in Readers, ReadBegin(r) \/ CacheStep(r) \/ ReadStep(r) \/ ReadExpires(r)
      PROVE  WillRequest' \/ Root \in queue'
  <2>1. UNCHANGED <<job, upgrade>>
    BY <1>5 DEF ReadBegin, CacheStep, Lookup, PassGate, Insert, ReadStep, ReadEngine,
                ReadWaited, ReadValidates, ReadWaitedAgain, ReadLabel, ReadEnd, ReadExpires
  <2>2. \A o \in Callers \ {r} : get'[o] = get[o]
    <3>1. CASE ReadBegin(r) \/ ReadWaited(r) \/ ReadWaitedAgain(r) \/ ReadExpires(r)
      BY <1>1, <3>1 DEF ReadBegin, ReadWaited, ReadWaitedAgain, ReadExpires, ReadFinal, Call
    <3>2. CASE CacheStep(r)
      BY <1>1, <3>2 DEF CacheStep, Lookup, PassGate, Insert
    <3>3. CASE ReadEngine(r) \/ ReadValidates(r) \/ ReadLabel(r) \/ ReadEnd(r)
      BY <1>1, <3>3 DEF ReadEngine, ReadValidates, ReadLabel, ReadEnd
    <3> QED
      BY <1>5, <3>1, <3>2, <3>3 DEF ReadStep
  <2>3. ASSUME get[r].pc = "loaded"
        PROVE  get'[r].pc = "loaded" \/ RequestRescan
    <3>1. CASE ReadEngine(r)
      BY <2>3, <3>1 DEF ReadEngine, RequestIfLoaded
    <3>2. CASE CacheStep(r)
      BY <2>3, <3>2 DEF CacheStep, Lookup, PassGate, Insert
    <3>3. CASE ReadValidates(r) \/ ReadLabel(r) \/ ReadEnd(r)
      BY <2>3, <3>3 DEF ReadValidates, ReadLabel, ReadEnd
    <3>4. reader[r].pc \in {"initial", "final"}
      BY <2>3 DEF ReadState
    <3>5. \/ CacheStep(r) \/ ReadEngine(r)
          \/ ReadValidates(r) \/ ReadLabel(r) \/ ReadEnd(r)
      BY <1>5, <3>4 DEF ReadBegin, ReadStep, ReadWaited, ReadWaitedAgain, ReadExpires
    <3> QED
      BY <3>1, <3>2, <3>3, <3>5
  <2> QED
    BY <1>1, <1>2, <2>1, <2>2, <2>3
<1>6. CASE JobBegin \/ JobStep
  <2>1. UpgradeRunning => UpgradeRunning'
    <3>1. CASE JobEnd
      <4>1. \A u \in Upgrades : upgrade[u].pc # "idle" => upgrade'[u].pc # "idle"
        BY <1>1, <3>1 DEF JobEnd, Task
      <4> QED
        BY <4>1
    <3>2. JobEnd \/ upgrade' = upgrade
      BY <1>6 DEF JobBegin, JobStep, JobWorker, JobLoad, JobInsert, JobRequest
    <3> QED
      BY <3>1, <3>2
  <2>2. job.pc = "request" => RequestRescan
    BY <1>6 DEF JobBegin, JobStep, JobWorker, JobLoad, JobInsert, JobRequest, JobEnd
  <2>3. get' = get
    BY <1>6 DEF JobBegin, JobStep, JobWorker, JobLoad, JobInsert, JobRequest, JobEnd
  <2> QED
    BY <1>2, <2>1, <2>2, <2>3
<1>7. ASSUME NEW u \in Upgrades, UpgradeStep(u)
      PROVE  WillRequest' \/ Root \in queue'
  <2>1. UNCHANGED <<job, get>>
    BY <1>7 DEF UpgradeStep, UpgradeWorker, UpgradeLoad, UpgradeInsert, UpgradeEnd
  <2>2. upgrade[u] \in Task /\ \A o \in Upgrades \ {u} : upgrade'[o] = upgrade[o]
    BY <1>1, <1>7 DEF UpgradeStep, UpgradeWorker, UpgradeLoad, UpgradeInsert, UpgradeEnd
  <2>3. CASE UpgradeEnd(u)
    BY <1>2, <2>1, <2>2, <2>3 DEF UpgradeEnd
  <2>4. CASE UpgradeWorker(u) \/ UpgradeInsert(u)
    <3>1. upgrade'[u] \in {[NoTask EXCEPT !.pc = "load"], [NoTask EXCEPT !.pc = "request"]}
      BY <1>1, <2>4 DEF UpgradeWorker, UpgradeInsert
    <3>2. upgrade'[u].pc # "idle"
      BY <3>1 DEF NoTask
    <3> QED
      BY <3>2
  <2>5. CASE UpgradeLoad(u)
    <3>1. upgrade'[u].pc # "idle"
      BY <1>1, <2>2, <2>5 DEF UpgradeLoad, Task
    <3> QED
      BY <3>1
  <2> QED
    BY <1>7, <2>3, <2>4, <2>5 DEF UpgradeStep
<1> QED
  BY <1>3, <1>4, <1>5, <1>6, <1>7 DEF Others

\* If the cached entry and the active generation stay as they are and everyone else keeps
\* their promises, nothing is forgotten.
LEMMA KeptByOthers ==
  ASSUME TypeOK, ReadState, NotForgotten, Others, UNCHANGED <<cached, pointer>>
  PROVE  NotForgotten'
<1> SUFFICES ASSUME IsCached(pointer)', NEW f \in Files
             PROVE  Kept(f)'
  BY DEF NotForgotten, Kept
<1>1. cached \in Engines /\ engine \in [Engines -> Engine] /\ source \in Snapshot
  BY DEF TypeOK, IsCached
<1>2. Untouched(cached)
  BY <1>1, OthersTouch
<1>3. IsCached(pointer)
  BY <1>2 DEF IsCached, Untouched
<1>4. Kept(f)
  BY <1>3 DEF NotForgotten, Kept
<1>5. Announced(f) => Announced(f)'
  BY StaysAnnounced
<1>6. WillRequest => WillRequest' \/ Announced(f)'
  BY WillStill DEF Announced
<1>7. source'[f] = source[f] \/ Announced(f)'
  BY <1>1, ChangesAnnounced
<1>8. source'[f] = source[f] => (Handled(f) => Handled(f)')
  BY <1>2, OthersApart, HandledStill
<1> QED
  BY <1>2, <1>4, <1>5, <1>6, <1>7, <1>8 DEF Kept, Untouched

\* A generation that has just been activated is not cached.
LEMMA KeptByInstall ==
  ASSUME TypeOK, Generations, pointer' = pointer + 1, UNCHANGED <<engine, cached>>
  PROVE  NotForgotten'
<1>1. pointer \in Nat /\ cached \in Engines \cup {NoEngine}
  BY DEF TypeOK, Gens
<1>2. ASSUME cached # NoEngine
      PROVE  engine[cached].gen <= pointer /\ engine[cached].gen \in Nat
  BY <1>1, <1>2 DEF Generations, TypeOK, Engine, Gens
<1>3. ~IsCached(pointer)'
  BY <1>1, <1>2 DEF IsCached
<1> QED
  BY <1>3 DEF NotForgotten

\* Steps of everyone but the loop.
LEMMA KeptOthers ==
  ASSUME TypeOK, KeptInv, Others
  PROVE  NotForgotten'
<1> USE DEF KeptInv, store, cache, tasks
<1>1. UNCHANGED <<cached, pointer>> => NotForgotten'
  BY KeptByOthers
<1>2. pointer' = pointer + 1 /\ UNCHANGED <<engine, cached>> => NotForgotten'
  BY KeptByInstall
<1>3. WillRequest' => NotForgotten'
  BY DEF NotForgotten
<1>4. CASE (\E f \in Files : Edit(f)) \/ Deliver \/ ExternalScan \/ ExternalInstall
  BY <1>1, <1>2, <1>4 DEF Edit, Deliver, ExternalScan, ExternalInstall, Install
<1>5. CASE Evict
  BY <1>5 DEF Evict, NotForgotten, IsCached
<1>6. CASE PersistStep
  BY <1>1, <1>6 DEF PersistStep, Persist, PersistSuperseded
<1>7. ASSUME NEW r \in Readers, CacheStep(r)
      PROVE  NotForgotten'
  <2>1. CASE UNCHANGED cached
    BY <1>1, <1>7, <2>1 DEF CacheStep, Lookup, PassGate, Insert
  <2>2. CASE cached' # cached
    <3>1. get \in [Callers -> Get] /\ r \in Callers
      BY DEF TypeOK, Callers
    <3>2. get[r] \in Get /\ get'[r] = [get[r] EXCEPT !.pc = "loaded"]
      BY <1>7, <2>2, <3>1 DEF CacheStep, Lookup, PassGate, Insert
    <3>3. get'[r].pc = "loaded"
      BY <3>2 DEF Get
    <3> QED
      BY <1>3, <3>3 DEF WillRequest
  <2> QED
    BY <2>1, <2>2
<1>8. ASSUME NEW r \in Readers, ReadBegin(r) \/ ReadStep(r) \/ ReadExpires(r)
      PROVE  NotForgotten'
  BY <1>1, <1>8 DEF ReadBegin, ReadStep, ReadEngine, ReadWaited, ReadValidates,
                    ReadWaitedAgain, ReadLabel, ReadEnd, ReadExpires
<1>9. CASE JobBegin \/ JobStep
  <2>1. CASE JobInsert
    <3>1. job'.pc = "request"
      BY <2>1 DEF JobInsert, NoTask
    <3> QED
      BY <1>3, <3>1 DEF WillRequest
  <2>2. JobInsert \/ UNCHANGED <<cached, pointer>>
          \/ (pointer' = pointer + 1 /\ UNCHANGED <<engine, cached>>)
    BY <1>9 DEF JobBegin, JobStep, JobWorker, JobLoad, JobRequest, JobEnd, Install
  <2> QED
    BY <1>1, <1>2, <2>1, <2>2
<1>10. ASSUME NEW u \in Upgrades, UpgradeStep(u)
       PROVE  NotForgotten'
  <2>1. CASE UpgradeInsert(u)
    <3>1. upgrade'[u] = [NoTask EXCEPT !.pc = "request"]
      BY <2>1 DEF UpgradeInsert, TypeOK
    <3>2. UpgradeRunning'
      BY <3>1 DEF UpgradeRunning, NoTask
    <3> QED
      BY <1>3, <3>2 DEF WillRequest
  <2>2. UpgradeInsert(u) \/ UNCHANGED <<cached, pointer>>
          \/ (pointer' = pointer + 1 /\ UNCHANGED <<engine, cached>>)
    BY <1>10 DEF UpgradeStep, UpgradeWorker, UpgradeLoad, UpgradeEnd, Install
  <2> QED
    BY <1>1, <1>2, <2>1, <2>2
<1> QED
  BY <1>4, <1>5, <1>6, <1>7, <1>8, <1>9, <1>10 DEF Others

\* The loop's own calls: it compares an index that it has loaded completely.
LEMMA KeptByCalls ==
  ASSUME TypeOK, EnginesHeld, KeptInv, CacheStep(Refresher)
  PROVE  NotForgotten'
<1> USE DEF KeptInv, store, cache, tasks
<1>1. /\ get \in [Callers -> Get] /\ Refresher \in Callers
      /\ engine \in [Engines -> Engine] /\ cached \in Engines \cup {NoEngine}
  BY DEF TypeOK, Callers
<1>2. /\ loop.pc = "engine"
      /\ UNCHANGED <<source, undelivered, queue, loop, pointer, job, upgrade>>
      /\ \A r \in Readers : get'[r] = get[r]
  <2>1. Refresher \notin Readers /\ Readers \subseteq Callers
    BY NameAssumption DEF Callers
  <2> QED
    BY <1>1, <2>1 DEF CacheStep, Lookup, PassGate, Insert, LoopState, disk
<1>3. CASE cached' = cached
  <2> SUFFICES ASSUME IsCached(pointer)', NEW f \in Files
               PROVE  Kept(f)'
    BY DEF NotForgotten, Kept
  <2>1. cached \in Engines /\ Untouched(cached)
    BY <1>1, <1>3, OthersTouch DEF IsCached
  <2>2. Kept(f)
    BY <1>2, <1>3, <2>1 DEF NotForgotten, Kept, IsCached, Untouched
  <2>3. Returned(Refresher)' => get'[Refresher].engine = cached
    <3>1. CASE Lookup(Refresher)
      BY <1>1, <3>1 DEF Lookup, Returned, Get
    <3>2. CASE PassGate(Refresher)
      BY <1>1, <3>2 DEF PassGate, Returned, Get
    <3>3. CASE Insert(Refresher)
      BY <1>1, <1>3, <3>3 DEF Insert, Returned, Get
    <3> QED
      BY <3>1, <3>2, <3>3 DEF CacheStep
  <2>4. Handled(f) => Handled(f)'
    BY <1>2, <1>3, <2>1, <2>3 DEF Handled, InTurn, Pending, Untouched
  <2> QED
    BY <1>2, <1>3, <2>1, <2>2, <2>4
       DEF Kept, Announced, WillRequest, UpgradeRunning, Untouched
<1>4. CASE cached' # cached
  <2>1. /\ get[Refresher].pc = "insert" /\ engine' = engine
        /\ cached' = get[Refresher].engine
        /\ get'[Refresher] = [get[Refresher] EXCEPT !.pc = "loaded"]
    BY <1>1, <1>4 DEF CacheStep, Lookup, PassGate, Insert
  <2>2. get'[Refresher].engine = cached' /\ engine'[cached'].rescan
    BY <1>1, <2>1 DEF Get, LoopState
  <2>3. \A f \in Files : Handled(f)'
    BY <1>2, <2>2 DEF Handled, InTurn
  <2> QED
    BY <2>3 DEF NotForgotten
<1> QED
  BY <1>3, <1>4

\* A received signal is pending.
LEMMA KeptByReceive ==
  ASSUME TypeOK, KeptInv, Receive
  PROVE  NotForgotten'
<1> SUFFICES ASSUME IsCached(pointer)', NEW f \in Files
             PROVE  Kept(f)'
  BY DEF NotForgotten, Kept
<1>1. loop \in Loop
  BY DEF TypeOK
<1>2. UNCHANGED <<source, undelivered, pointer, engine, cached, get, job, upgrade>>
  BY DEF Receive, disk, store, cache, tasks
<1>3. Kept(f)
  BY <1>2 DEF KeptInv, NotForgotten, Kept, IsCached
<1>4. PICK signal \in queue :
        /\ queue' = queue \ {signal}
        /\ loop' = [loop EXCEPT !.pc = "debounce",
                                !.pending = @ \cup {PendingPath(signal)}]
  BY DEF Receive
<1>5. /\ loop'.pc = "debounce" /\ loop'.failed = loop.failed
      /\ loop'.pending = loop.pending \cup {PendingPath(signal)}
  BY <1>1, <1>4 DEF Loop
<1>6. signal \in {f, Root, Lost} => Pending(f)'
  BY <1>5 DEF Pending, PendingPath
<1>7. Announced(f) => Announced(f)' \/ Pending(f)'
  BY <1>2, <1>4, <1>6 DEF Announced
<1>8. Handled(f) => Handled(f)'
  BY <1>5 DEF Handled, Pending, Receive
<1>9. Pending(f)' => Handled(f)'
  BY <1>5 DEF Handled
<1> QED
  BY <1>2, <1>3, <1>7, <1>8, <1>9 DEF Kept, WillRequest, UpgradeRunning

\* The loop begins a turn with what is pending, or defers it for an upgrade.
LEMMA KeptByTurn ==
  ASSUME TypeOK, KeptInv, BeginTurn \/ RefreshOnce
  PROVE  NotForgotten'
<1> SUFFICES ASSUME IsCached(pointer)', NEW f \in Files
             PROVE  Kept(f)'
  BY DEF NotForgotten, Kept
<1>1. loop \in Loop /\ get \in [Callers -> Get] /\ Refresher \in Callers
  BY DEF TypeOK, Callers
<1>2. UNCHANGED <<source, undelivered, queue, pointer, engine, cached, job, upgrade>>
  BY DEF BeginTurn, RefreshOnce, disk, store, cache, tasks
<1>3. Kept(f)
  BY <1>2 DEF KeptInv, NotForgotten, Kept, IsCached
<1>4. \A r \in Readers : get'[r] = get[r]
  BY <1>1, NameAssumption DEF BeginTurn, RefreshOnce, cache, Call, Callers
<1>5. UpgradeRunning => WillRequest'
  BY <1>2 DEF WillRequest, UpgradeRunning
<1>6. ASSUME Handled(f), ~UpgradeRunning
      PROVE  Handled(f)'
  <2>1. CASE BeginTurn
    <3>1. /\ loop.pc = "debounce" /\ loop'.pc = "lock"
          /\ loop'.pending = IF loop.failed THEN loop.pending \cup {Root} ELSE loop.pending
      BY <1>1, <1>6, <2>1 DEF BeginTurn, Loop
    <3>2. Pending(f)'
      BY <1>6, <3>1 DEF Handled, Pending
    <3> QED
      BY <3>1, <3>2 DEF Handled, InTurn
  <2>2. CASE RefreshOnce
    <3>1. loop.pc = "lock" /\ loop'.pc = "engine" /\ loop'.pending = loop.pending
      BY <1>1, <1>6, <2>2 DEF RefreshOnce, Loop
    <3>2. get'[Refresher] = [NoGet EXCEPT !.pc = "lookup"]
      BY <1>1, <1>6, <2>2 DEF RefreshOnce, Call
    <3>3. ~Returned(Refresher)'
      BY <3>2 DEF Returned, NoGet
    <3> QED
      BY <1>2, <1>6, <3>1, <3>3 DEF Handled, InTurn, Pending
  <2> QED
    BY <2>1, <2>2
<1> QED
  BY <1>2, <1>3, <1>4, <1>5, <1>6 DEF Kept, Announced, WillRequest, UpgradeRunning

\* The loop has its engine.
LEMMA KeptByEngine ==
  ASSUME TypeOK, KeptInv, EngineReady
  PROVE  NotForgotten'
<1> SUFFICES ASSUME IsCached(pointer)', NEW f \in Files
             PROVE  Kept(f)'
  BY DEF NotForgotten, Kept
<1>1. loop \in Loop /\ get \in [Callers -> Get] /\ Refresher \in Callers
  BY DEF TypeOK, Callers
<1>2. UNCHANGED <<source, undelivered, queue, pointer, engine, cached, job, upgrade>>
  BY DEF EngineReady, disk, store, tasks
<1>3. Kept(f)
  BY <1>2 DEF KeptInv, NotForgotten, Kept, IsCached
<1>4. \A r \in Readers : get'[r] = get[r]
  BY <1>1, NameAssumption DEF EngineReady, Callers
<1>5. Handled(f) => Handled(f)'
  BY <1>1, <1>2 DEF EngineReady, Handled, InTurn, Pending, Loop
<1> QED
  BY <1>2, <1>3, <1>4, <1>5 DEF Kept, Announced, WillRequest, UpgradeRunning

\* The loop compares: what it does not commit is as the cached index has it.
LEMMA KeptByScan ==
  ASSUME TypeOK, EnginesHeld, KeptInv, Scan
  PROVE  NotForgotten'
<1> SUFFICES ASSUME IsCached(pointer)', NEW f \in Files
             PROVE  Kept(f)'
  BY DEF NotForgotten, Kept
<1>1. /\ loop \in Loop /\ engine \in [Engines -> Engine] /\ source \in Snapshot
      /\ loop.pc = "apply" /\ loop.engine \in Engines /\ cached \in Engines
  BY DEF TypeOK, Scan, EnginesHeld, IsCached
<1>2. UNCHANGED <<source, undelivered, queue, pointer, cached, get, job, upgrade>>
  BY DEF Scan, disk, store
<1>3. /\ engine[loop.engine] \in Engine
      /\ \E b \in BOOLEAN : engine' = [engine EXCEPT ![loop.engine] = [@ EXCEPT !.rescan = b]]
  BY <1>1 DEF Scan, Applied
<1>4. engine'[cached].at = engine[cached].at /\ engine'[cached].gen = engine[cached].gen
  BY <1>1, <1>3 DEF Engine
<1>5. Kept(f)
  BY <1>2, <1>4 DEF KeptInv, NotForgotten, Kept, IsCached
<1>6. CASE ~Handled(f)
  BY <1>2, <1>4, <1>5, <1>6 DEF Kept, Announced, WillRequest, UpgradeRunning
<1>7. CASE Handled(f)
  <2>1. loop.engine = cached /\ InTurn(f)
    BY <1>1, <1>7 DEF Handled
  <2> DEFINE live == engine[cached]
             scope == IF live.rescan \/ loop.reloaded \/ Root \in loop.pending
                      THEN Files ELSE loop.pending
             next == Override(live.at, source, scope)
  <2>2. f \in scope
    BY <2>1 DEF InTurn, Pending
  <2>3. next[f] = source[f]
    BY <2>2 DEF Override
  <2>4. CASE next = live.at
    BY <1>2, <1>4, <2>3, <2>4 DEF Kept
  <2>5. CASE next # live.at
    <3>1. /\ engine' = [engine EXCEPT ![cached].rescan = TRUE]
          /\ loop' = [loop EXCEPT !.pc = "commit", !.scan = next]
      BY <2>1, <2>5 DEF Scan
    <3>2. engine'[cached].rescan
      BY <1>1, <3>1 DEF Engine
    <3>3. loop'.pc = "commit" /\ loop'.engine = cached /\ loop'.scan[f] = source[f]
      BY <1>1, <2>1, <2>3, <3>1 DEF Loop
    <3> QED
      BY <1>2, <3>2, <3>3 DEF Kept, Handled
  <2> QED
    BY <2>4, <2>5
<1> QED
  BY <1>6, <1>7

\* The loop commits what it has scanned: what has changed since is announced.
LEMMA KeptByCommit ==
  ASSUME TypeOK, EnginesHeld, KeptInv, Commit
  PROVE  NotForgotten'
<1> SUFFICES ASSUME IsCached(pointer)', NEW f \in Files
             PROVE  Kept(f)'
  BY DEF NotForgotten, Kept
<1>1. /\ engine \in [Engines -> Engine]
      /\ loop.pc = "commit" /\ loop.engine \in Engines /\ cached \in Engines
  BY DEF TypeOK, Commit, EnginesHeld, IsCached
<1>2. UNCHANGED <<source, undelivered, queue, pointer, cached, get, job, upgrade>>
  BY DEF Commit, disk, store
<1>3. engine' = [engine EXCEPT ![loop.engine] = [@ EXCEPT !.at = loop.scan, !.rescan = FALSE,
                                                          !.unsaved = TRUE]]
  BY DEF Commit, Applied
<1>4. engine[loop.engine] \in Engine /\ engine[cached] \in Engine
  BY <1>1
<1>5. engine'[cached].gen = engine[cached].gen
  BY <1>1, <1>3, <1>4 DEF Engine
<1>6. Kept(f)
  BY <1>2, <1>5 DEF KeptInv, NotForgotten, Kept, IsCached
<1>7. CASE loop.engine # cached
  <2>1. engine'[cached] = engine[cached] /\ ~Handled(f)
    BY <1>1, <1>3, <1>7 DEF Handled
  <2> QED
    BY <1>2, <1>6, <2>1 DEF Kept, Announced, WillRequest, UpgradeRunning
<1>8. CASE loop.engine = cached
  <2>1. engine'[cached].at = loop.scan
    BY <1>1, <1>3, <1>4, <1>8 DEF Engine
  <2>2. \/ loop.scan[f] = source[f] \/ Announced(f)
        \/ loop.scan[f] = engine[cached].at[f]
    BY <1>1, <1>8 DEF KeptInv, Scanned
  <2>3. Handled(f) => loop.scan[f] = source[f]
    BY <1>1 DEF Handled
  <2> QED
    BY <1>2, <1>6, <2>1, <2>2, <2>3 DEF Kept, Announced, WillRequest, UpgradeRunning
<1> QED
  BY <1>7, <1>8

\* The loop finds its index superseded: it is not of the active generation.
LEMMA KeptBySuperseded ==
  ASSUME TypeOK, EnginesHeld, KeptInv, Superseded
  PROVE  NotForgotten'
<1> SUFFICES ASSUME IsCached(pointer)', NEW f \in Files
             PROVE  Kept(f)'
  BY DEF NotForgotten, Kept
<1>1. /\ engine \in [Engines -> Engine] /\ get \in [Callers -> Get] /\ Refresher \in Callers
      /\ loop.pc \in {"apply", "commit"} /\ loop.engine \in Engines /\ cached \in Engines
      /\ pointer \in Nat
  BY DEF TypeOK, Callers, Superseded, EnginesHeld, IsCached, Gens
<1>2. UNCHANGED <<source, undelivered, queue, pointer, cached, job, upgrade>>
  BY DEF Superseded, disk, store, tasks
<1>3. \A r \in Readers : get'[r] = get[r]
  BY <1>1, NameAssumption DEF Superseded, Call, Callers
<1>4. engine[loop.engine].gen # pointer
  BY <1>1 DEF Superseded, KeptInv, Generations, Engine, Gens
<1>5. engine[loop.engine] \in Engine
      /\ engine' = [engine EXCEPT ![loop.engine] = [@ EXCEPT !.superseded = TRUE]]
  BY <1>1 DEF Superseded
<1>6. loop.engine # cached
  BY <1>1, <1>2, <1>4, <1>5 DEF IsCached, Engine
<1>7. engine'[cached] = engine[cached] /\ ~Handled(f)
  BY <1>1, <1>5, <1>6 DEF Handled
<1>8. Kept(f)
  BY <1>2, <1>7 DEF KeptInv, NotForgotten, Kept, IsCached
<1> QED
  BY <1>2, <1>3, <1>7, <1>8 DEF Kept, Announced, WillRequest, UpgradeRunning

\* An attempt that fails keeps what is pending, and an index that was not compared to the
\* end is compared completely next time.
LEMMA KeptByFailure ==
  ASSUME TypeOK, EnginesHeld, KeptInv, AttemptFails
  PROVE  NotForgotten'
<1> SUFFICES ASSUME IsCached(pointer)', NEW f \in Files
             PROVE  Kept(f)'
  BY DEF NotForgotten, Kept
<1>1. /\ engine \in [Engines -> Engine] /\ get \in [Callers -> Get] /\ Refresher \in Callers
      /\ loop \in Loop /\ loop.pc \in {"engine", "apply", "commit"} /\ cached \in Engines
  BY DEF TypeOK, Callers, AttemptFails, IsCached, Loop
<1>2. UNCHANGED <<source, undelivered, queue, pointer, cached, job, upgrade>>
  BY DEF AttemptFails, disk, store
<1>3. \A r \in Readers : get'[r] = get[r]
  BY <1>1, NameAssumption DEF AttemptFails, Callers
<1>4. Untouched(cached)
  <2>1. \/ engine' = engine
        \/ engine' = [engine EXCEPT ![loop.engine] = [@ EXCEPT !.superseded = TRUE]]
    BY DEF AttemptFails
  <2>2. engine[cached] \in Engine
    BY <1>1
  <2> QED
    BY <1>1, <2>1, <2>2 DEF Untouched, Engine
<1>5. Kept(f)
  BY <1>2, <1>4 DEF KeptInv, NotForgotten, Kept, IsCached, Untouched
<1>6. /\ loop'.pc \in {"lock", "give up"}
      /\ loop'.pending = loop.pending
  BY <1>1 DEF AttemptFails, Loop
<1>7. Handled(f) => InTurn(f)
  BY <1>1 DEF Handled, InTurn
<1>8. InTurn(f) => Handled(f)'
  BY <1>2, <1>4, <1>6 DEF Handled, InTurn, Pending, Untouched
<1> QED
  BY <1>2, <1>3, <1>4, <1>5, <1>7, <1>8
     DEF Kept, Announced, WillRequest, UpgradeRunning, Untouched

\* A turn is over: the signals sent meanwhile are pending, and after a failure the next
\* turn compares everything.
LEMMA KeptByPublish ==
  ASSUME TypeOK, KeptInv, Publish
  PROVE  NotForgotten'
<1> SUFFICES ASSUME IsCached(pointer)', NEW f \in Files
             PROVE  Kept(f)'
  BY DEF NotForgotten, Kept
<1>1. loop \in Loop /\ loop.pc \in {"publish", "give up"}
  BY DEF TypeOK, Publish, TurnOver
<1>2. UNCHANGED <<source, undelivered, pointer, engine, cached, get, job, upgrade>>
  BY DEF Publish, TurnOver, disk, store, tasks
<1>3. Kept(f)
  BY <1>2 DEF KeptInv, NotForgotten, Kept, IsCached
<1>4. /\ loop'.pc = Wake(queue, FALSE) /\ loop'.failed = (loop.pc = "give up")
      /\ loop'.pending = {PendingPath(signal) : signal \in queue}
  BY <1>1 DEF Publish, TurnOver, Loop
<1>5. loop'.pc \in {"receive", "debounce"}
  BY <1>4 DEF Wake
<1>6. Announced(f) => Announced(f)' \/ Pending(f)'
  <2>1. ASSUME NEW signal \in queue, signal \in {f, Root, Lost}
        PROVE  Pending(f)'
    BY <1>4, <2>1 DEF Pending, PendingPath
  <2> QED
    BY <1>2, <2>1 DEF Announced
<1>7. Pending(f)' => Handled(f)'
  BY <1>5 DEF Handled
<1>8. Handled(f) => Handled(f)'
  BY <1>1, <1>4, <1>5 DEF Handled
<1> QED
  BY <1>2, <1>3, <1>6, <1>7, <1>8 DEF Kept, WillRequest, UpgradeRunning

\* A step of anyone keeps the promises.
LEMMA KeptNext ==
  ASSUME TypeOK, EnginesHeld, KeptInv, [Next]_vars
  PROVE  KeptInv'
<1>1. Scanned' /\ LoopState' /\ ReadState' /\ Generations' /\ Published'
  BY ScannedNext, LoopStateNext, ReadStateNext, GenerationsNext, PublishedNext DEF KeptInv
<1>2. NotForgotten'
  <2>1. CASE UNCHANGED vars
    BY <2>1 DEF vars, KeptInv, NotForgotten, IsCached, Announced, WillRequest, UpgradeRunning,
                Handled, InTurn, Pending, Returned
  <2> QED
    BY <2>1, EveryStep, KeptOthers, KeptByCalls, KeptByReceive, KeptByTurn, KeptByEngine,
       KeptByScan, KeptByCommit, KeptBySuperseded, KeptByFailure, KeptByPublish
       DEF LoopStep
<1> QED
  BY <1>1, <1>2 DEF KeptInv

\* The loop is to compare everything at first.
LEMMA KeptInit == Init => KeptInv
<1> SUFFICES ASSUME Init
             PROVE  KeptInv
  OBVIOUS
<1>1. Scanned /\ Published
  BY DEF Init, Scanned, Published
<1>2. LoopState /\ ReadState
  BY DEF Init, LoopState, ReadState, NoGet, Callers
<1>3. Generations
  BY DEF Init, Generations
<1>4. NotForgotten
  BY DEF Init, NotForgotten, Announced
<1> QED
  BY <1>1, <1>2, <1>3, <1>4 DEF KeptInv

\* Once nothing is on its way, the cached index of the active generation is that of the
\* sources: for any reads, jobs, upgrades, failures and other processes.
THEOREM NoChangeForgotten == Spec => []NothingForgotten
<1>1. TypeOK /\ EnginesHeld /\ KeptInv => NothingForgotten
  <2> SUFFICES ASSUME TypeOK, KeptInv, Quiet, IsCached(pointer)
               PROVE  engine[cached].at = source
    BY DEF NothingForgotten
  <2>1. \A f \in Files : ~Announced(f)
    BY DEF Quiet, Announced
  <2>2. ~WillRequest
    BY DEF Quiet, WillRequest
  <2>3. \A f \in Files : ~Handled(f)
    BY DEF Quiet, LabelFresh, KeptInv, Published, Handled, Pending
  <2>4. \A f \in Files : engine[cached].at[f] = source[f]
    BY <2>1, <2>2, <2>3 DEF KeptInv, NotForgotten
  <2>5. engine[cached].at \in Snapshot /\ source \in Snapshot
    BY DEF TypeOK, IsCached, Engine
  <2> QED
    BY <2>4, <2>5 DEF Snapshot
<1>2. Init => KeptInv
  BY KeptInit
<1>3. (TypeOK /\ EnginesHeld) /\ KeptInv /\ [Next]_vars => KeptInv'
  BY KeptNext
<1> QED
  BY <1>1, <1>2, <1>3, Typed, PTL DEF Spec

---------------------------------------------------------------------------
(* What a read is labelled with.                                           *)

\* A snapshot has no version of a file that is yet to be written.
Older(s) == \A f \in Files : s[f] <= source[f]

\* Whatever was scanned, indexed or saved is of the past, and a turn does not go back.
PastOnly ==
  /\ \A f \in Files : source[f] <= edits
  /\ \A e \in Engines : Older(engine[e].at)
  /\ \A g \in Gens : Older(saved[g])
  /\ Older(job.scan)
  /\ \A u \in Upgrades : Older(upgrade[u].scan)
  /\ external # Nobody => Older(external)
  /\ \A r \in Readers : Older(reader[r].start)
  /\ loop.pc = "commit" =>
       Older(loop.scan) /\ \A f \in Files : engine[loop.engine].at[f] <= loop.scan[f]

\* Snapshots are functions to numbers.
LEMMA Numbers ==
  ASSUME TypeOK
  PROVE  /\ source \in [Files -> Nat] /\ edits \in Nat
         /\ \A e \in Engines : engine[e].at \in [Files -> Nat]
         /\ \A g \in Gens : saved[g] \in [Files -> Nat]
         /\ job.scan \in [Files -> Nat]
         /\ \A u \in Upgrades : upgrade[u].scan \in [Files -> Nat]
         /\ external # Nobody => external \in [Files -> Nat]
         /\ \A r \in Readers : reader[r].start \in [Files -> Nat]
         /\ loop.scan \in [Files -> Nat]
<1>1. Versions \subseteq Nat
  BY BoundAssumption DEF Versions
<1>2. \A s \in Snapshot : s \in [Files -> Nat]
  BY <1>1 DEF Snapshot
<1>3. edits \in Nat /\ source \in Snapshot
  BY BoundAssumption DEF TypeOK
<1>4. \A e \in Engines : engine[e].at \in Snapshot
  BY DEF TypeOK, Engine
<1>5. job.scan \in Snapshot /\ \A u \in Upgrades : upgrade[u].scan \in Snapshot
  BY DEF TypeOK, Task
<1>6. (external # Nobody => external \in Snapshot) /\ \A g \in Gens : saved[g] \in Snapshot
  BY DEF TypeOK
<1>7. loop.scan \in Snapshot /\ \A r \in Readers : reader[r].start \in Snapshot
  BY DEF TypeOK, Loop, Reader
<1> QED
  BY <1>2, <1>3, <1>4, <1>5, <1>6, <1>7

\* The past stays the past.
LEMMA SourcesGrow ==
  ASSUME TypeOK, PastOnly, [Next]_vars
  PROVE  /\ \A s \in [Files -> Nat] : Older(s) => \A f \in Files : s[f] <= source'[f]
         /\ \A f \in Files : source'[f] <= edits'
         /\ \A f \in Files : source[f] <= source'[f]
<1>1. source \in [Files -> Nat] /\ edits \in Nat
  BY Numbers
<1>2. ASSUME NEW g \in Files, Edit(g)
      PROVE  \A f \in Files : source[f] <= source'[f] /\ source'[f] <= edits'
  BY <1>1, <1>2 DEF Edit, PastOnly
<1>3. UNCHANGED <<source, edits>> \/ \E g \in Files : Edit(g)
  BY DEF Next, Deliver, ExternalScan, ExternalInstall, Evict, LoopStep, Receive, BeginTurn,
     RefreshOnce, EngineReady, Scan, Commit, Superseded, Publish, TurnOver, AttemptFails,
     PersistStep, Persist, PersistSuperseded, ReadBegin, CacheStep, Lookup, PassGate, Insert,
     ReadStep, ReadEngine, ReadWaited, ReadValidates, ReadWaitedAgain, ReadLabel, ReadEnd,
     ReadExpires, JobBegin, JobStep, JobWorker, JobLoad, JobInsert, JobRequest, JobEnd,
     UpgradeStep, UpgradeWorker, UpgradeLoad, UpgradeInsert, UpgradeEnd, disk, vars
<1>4. \A f \in Files : source[f] <= source'[f] /\ source'[f] <= edits'
  BY <1>1, <1>2, <1>3 DEF PastOnly
<1>5. source' \in [Files -> Nat]
  BY <1>1, <1>2, <1>3 DEF Edit
<1>6. ASSUME NEW s \in [Files -> Nat], Older(s), NEW f \in Files
      PROVE  s[f] <= source'[f]
  <2>1. s[f] <= source[f] /\ source[f] <= source'[f]
    BY <1>4, <1>6 DEF Older
  <2> QED
    BY <1>1, <1>5, <2>1
<1> QED
  BY <1>4, <1>6

\* A live index reflects what it did, what was loaded, or what a turn has scanned.
LEMMA EnginesChange ==
  ASSUME TypeOK, EnginesHeld, [Next]_vars, NEW e \in Engines
  PROVE  \/ engine'[e].at \in {engine[e].at, saved[pointer]}
         \/ loop.pc = "commit" /\ engine'[e].at = loop.scan
<1> DEFINE Changed == \/ engine'[e].at \in {engine[e].at, saved[pointer]}
                      \/ loop.pc = "commit" /\ engine'[e].at = loop.scan
<1> USE DEF store, cache, tasks
<1>1. /\ engine \in [Engines -> Engine]
      /\ loop.pc \in {"apply", "commit"} => loop.engine \in Engines
  BY DEF TypeOK, EnginesHeld
<1>2. ASSUME NEW o \in Engines, Load(o)
      PROVE  Changed
  BY <1>1, <1>2 DEF Load
<1>3. ASSUME NEW o \in Engines, NEW b \in BOOLEAN,
             \/ engine' = [engine EXCEPT ![o].superseded = b]
             \/ engine' = [engine EXCEPT ![o].unsaved = b]
             \/ engine' = [engine EXCEPT ![o] = [@ EXCEPT !.rescan = b]]
      PROVE  Changed
  BY <1>1, <1>3 DEF Engine
<1>4. CASE engine' = engine
  BY <1>4
<1>5. CASE \/ \E f \in Files : Edit(f)
           \/ Deliver \/ ExternalScan \/ ExternalInstall \/ Evict
  BY <1>4, <1>5 DEF Edit, Deliver, ExternalScan, ExternalInstall, Evict
<1>6. CASE Receive \/ BeginTurn \/ RefreshOnce \/ EngineReady \/ Publish
  BY <1>4, <1>6 DEF Receive, BeginTurn, RefreshOnce, EngineReady, Publish, TurnOver
<1>7. CASE Scan
  <2>1. \E b \in BOOLEAN : engine' = [engine EXCEPT ![loop.engine] = [@ EXCEPT !.rescan = b]]
    BY <1>7 DEF Scan, Applied
  <2>2. loop.engine \in Engines
    BY <1>1, <1>7 DEF Scan
  <2> QED
    BY <1>3, <2>1, <2>2
<1>8. CASE Commit
  <2>1. loop.pc = "commit" /\ loop.engine \in Engines
    BY <1>1, <1>8 DEF Commit
  <2>2. engine' = [engine EXCEPT ![loop.engine] = [@ EXCEPT !.at = loop.scan, !.rescan = FALSE,
                                                            !.unsaved = TRUE]]
    BY <1>8 DEF Commit, Applied
  <2> QED
    BY <1>1, <2>1, <2>2 DEF Engine
<1>9. CASE Superseded \/ AttemptFails
  BY <1>1, <1>3, <1>4, <1>9 DEF Superseded, AttemptFails
<1>10. ASSUME NEW o \in Engines, Persist(o) \/ PersistSuperseded(o)
       PROVE  Changed
  BY <1>3, <1>4, <1>10 DEF Persist, PersistSuperseded
<1>11. ASSUME NEW c \in Callers, CacheStep(c)
       PROVE  Changed
  BY <1>2, <1>4, <1>11 DEF CacheStep, Lookup, PassGate, Insert
<1>12. ASSUME NEW r \in Readers, ReadBegin(r) \/ ReadStep(r) \/ ReadExpires(r)
       PROVE  Changed
  BY <1>4, <1>12 DEF ReadBegin, ReadStep, ReadEngine, ReadWaited, ReadValidates,
                     ReadWaitedAgain, ReadLabel, ReadEnd, ReadExpires
<1>13. CASE JobBegin \/ JobStep
  BY <1>2, <1>4, <1>13 DEF JobBegin, JobStep, JobWorker, JobLoad, JobInsert, JobRequest, JobEnd
<1>14. ASSUME NEW u \in Upgrades, UpgradeStep(u)
       PROVE  Changed
  BY <1>2, <1>4, <1>14 DEF UpgradeStep, UpgradeWorker, UpgradeLoad, UpgradeInsert, UpgradeEnd
<1>15. CASE UNCHANGED vars
  BY <1>4, <1>15 DEF vars
<1> QED
  BY <1>5, <1>6, <1>7, <1>8, <1>9, <1>10, <1>11, <1>12, <1>13, <1>14, <1>15
     DEF Next, LoopStep, PersistStep, Callers

\* A generation reflects what it did, what a run has scanned, or what a live index does.
LEMMA GenerationsChange ==
  ASSUME TypeOK, [Next]_vars, NEW g \in Gens
  PROVE  \/ saved'[g] = saved[g]
         \/ external # Nobody /\ saved'[g] = external
         \/ saved'[g] = job.scan
         \/ \E u \in Upgrades : saved'[g] = upgrade[u].scan
         \/ \E e \in Engines : saved'[g] = engine[e].at
<1> USE DEF store
<1>1. saved \in [Gens -> Snapshot] /\ persisting \subseteq Engines
  BY DEF TypeOK
<1>2. \/ saved' = saved
      \/ \E s : /\ Install(s)
                /\ \/ external # Nobody /\ s = external
                   \/ s = job.scan
                   \/ \E u \in Upgrades : s = upgrade[u].scan
      \/ \E e \in Engines : saved' = [saved EXCEPT ![pointer] = engine[e].at]
  BY DEF Next, Edit, Deliver, ExternalScan, ExternalInstall, Evict, LoopStep, Receive, BeginTurn,
     RefreshOnce, EngineReady, Scan, Commit, Superseded, Publish, TurnOver, AttemptFails,
     PersistStep, Persist, PersistSuperseded, ReadBegin, CacheStep, Lookup, PassGate, Insert,
     ReadStep, ReadEngine, ReadWaited, ReadValidates, ReadWaitedAgain, ReadLabel, ReadEnd,
     ReadExpires, JobBegin, JobStep, JobWorker, JobLoad, JobInsert, JobRequest, JobEnd,
     UpgradeStep, UpgradeWorker, UpgradeLoad, UpgradeInsert, UpgradeEnd, vars
<1> QED
  BY <1>1, <1>2 DEF Install

\* Tasks, reads and other processes scan the files as they are.
LEMMA ScansChange ==
  ASSUME TypeOK, [Next]_vars
  PROVE  /\ job'.scan \in {job.scan, source, Initial}
         /\ external' \in {external, Nobody, source}
         /\ \A u \in Upgrades : upgrade'[u].scan \in {upgrade[u].scan, saved[pointer], Initial}
         /\ \A r \in Readers : reader'[r].start \in {reader[r].start, source, Initial}
<1> USE DEF store, tasks, cache
<1>1. /\ job \in Task /\ upgrade \in [Upgrades -> Task]
      /\ reader \in [Readers -> Reader]
  BY DEF TypeOK
<1>2. ASSUME ~(JobBegin \/ JobStep)
      PROVE  job' = job
  BY <1>2 DEF Next, Edit, Deliver, ExternalScan, ExternalInstall, Evict, LoopStep, Receive,
     BeginTurn, RefreshOnce, EngineReady, Scan, Commit, Applied, Superseded, Publish, TurnOver,
     AttemptFails, PersistStep, Persist, PersistSuperseded, ReadBegin, CacheStep, Lookup,
     PassGate, Insert, ReadStep, ReadEngine, ReadWaited, ReadValidates, ReadWaitedAgain,
     ReadLabel, ReadEnd, ReadExpires, UpgradeStep, UpgradeWorker, UpgradeLoad, UpgradeInsert,
     UpgradeEnd, vars
<1>3. job'.scan \in {job.scan, source, Initial}
  <2>1. CASE JobBegin
    BY <1>1, <2>1 DEF JobBegin, Task
  <2>2. CASE JobStep
    <3>1. \/ job' = job \/ job' = NoTask
          \/ \E pc : job' = [NoTask EXCEPT !.pc = pc]
          \/ \E e : job' = [job EXCEPT !.pc = "insert", !.engine = e]
      BY <2>2 DEF JobStep, JobWorker, JobLoad, JobInsert, JobRequest, JobEnd
    <3>2. NoTask.scan = Initial /\ \A pc : [NoTask EXCEPT !.pc = pc].scan = Initial
      BY DEF NoTask
    <3>3. \A e : [job EXCEPT !.pc = "insert", !.engine = e].scan = job.scan
      BY <1>1 DEF Task
    <3> QED
      BY <3>1, <3>2, <3>3
  <2> QED
    BY <1>2, <2>1, <2>2
<1>4. external' \in {external, Nobody, source}
  BY DEF Next, Edit, Deliver, ExternalScan, ExternalInstall, Evict, LoopStep, Receive,
     BeginTurn, RefreshOnce, EngineReady, Scan, Commit, Applied, Superseded, Publish, TurnOver,
     AttemptFails, PersistStep, Persist, PersistSuperseded, ReadBegin, CacheStep, Lookup,
     PassGate, Insert, ReadStep, ReadEngine, ReadWaited, ReadValidates, ReadWaitedAgain,
     ReadLabel, ReadEnd, ReadExpires, JobBegin, JobStep, JobWorker, JobLoad, JobInsert,
     JobRequest, JobEnd, UpgradeStep, UpgradeWorker, UpgradeLoad, UpgradeInsert, UpgradeEnd, vars
<1>5. ASSUME ~JobEnd, ~\E u \in Upgrades : UpgradeStep(u)
      PROVE  upgrade' = upgrade
  BY <1>5 DEF Next, Edit, Deliver, ExternalScan, ExternalInstall, Evict, LoopStep, Receive,
     BeginTurn, RefreshOnce, EngineReady, Scan, Commit, Applied, Superseded, Publish, TurnOver,
     AttemptFails, PersistStep, Persist, PersistSuperseded, ReadBegin, CacheStep, Lookup,
     PassGate, Insert, ReadStep, ReadEngine, ReadWaited, ReadValidates, ReadWaitedAgain,
     ReadLabel, ReadEnd, ReadExpires, JobBegin, JobStep, JobWorker, JobLoad, JobInsert,
     JobRequest, vars
<1>6. ASSUME NEW u \in Upgrades
      PROVE  upgrade'[u].scan \in {upgrade[u].scan, saved[pointer], Initial}
  <2>1. CASE JobEnd
    <3>1. \/ upgrade' = upgrade
          \/ \E o \in Upgrades :
               upgrade' = [upgrade EXCEPT ![o] = [@ EXCEPT !.pc = "worker",
                                                           !.scan = saved[pointer]]]
      BY <1>1, <2>1 DEF JobEnd
    <3> QED
      BY <1>1, <3>1 DEF Task
  <2>2. ASSUME NEW o \in Upgrades, UpgradeStep(o)
        PROVE  upgrade'[u].scan \in {upgrade[u].scan, saved[pointer], Initial}
    <3>1. \/ upgrade' = [upgrade EXCEPT ![o] = NoTask]
          \/ \E pc : upgrade' = [upgrade EXCEPT ![o] = [NoTask EXCEPT !.pc = pc]]
          \/ \E e : upgrade' = [upgrade EXCEPT ![o] = [@ EXCEPT !.pc = "insert", !.engine = e]]
          \/ upgrade' = [upgrade EXCEPT ![o] = [@ EXCEPT !.pc = "request"]]
      BY <1>1, <2>2 DEF UpgradeStep, UpgradeWorker, UpgradeLoad, UpgradeInsert, UpgradeEnd
    <3>2. NoTask.scan = Initial /\ \A pc : [NoTask EXCEPT !.pc = pc].scan = Initial
      BY DEF NoTask
    <3>3. upgrade[o] \in Task
      BY <1>1
    <3>4. /\ \A e : [upgrade[o] EXCEPT !.pc = "insert", !.engine = e].scan = upgrade[o].scan
          /\ [upgrade[o] EXCEPT !.pc = "request"].scan = upgrade[o].scan
      BY <3>3 DEF Task
    <3>5. u # o => upgrade'[u] = upgrade[u]
      BY <1>1, <3>1
    <3>6. upgrade'[o].scan \in {upgrade[o].scan, Initial}
      BY <1>1, <3>1, <3>2, <3>4
    <3> QED
      BY <3>5, <3>6
  <2> QED
    BY <1>5, <2>1, <2>2
<1>7. ASSUME ~\E r \in Readers : ReadBegin(r) \/ ReadStep(r) \/ ReadExpires(r)
      PROVE  reader' = reader
  BY <1>7 DEF Next, Edit, Deliver, ExternalScan, ExternalInstall, Evict, LoopStep, Receive,
     BeginTurn, RefreshOnce, EngineReady, Scan, Commit, Applied, Superseded, Publish, TurnOver,
     AttemptFails, PersistStep, Persist, PersistSuperseded, CacheStep, Lookup,
     PassGate, Insert, JobBegin, JobStep, JobWorker, JobLoad, JobInsert,
     JobRequest, JobEnd, UpgradeStep, UpgradeWorker, UpgradeLoad, UpgradeInsert, UpgradeEnd, vars
<1>8. ASSUME NEW r \in Readers
      PROVE  reader'[r].start \in {reader[r].start, source, Initial}
  <2>1. ASSUME NEW o \in Readers, ReadBegin(o)
        PROVE  reader'[r].start \in {reader[r].start, source, Initial}
    BY <1>1, <2>1 DEF ReadBegin, Reader
  <2>2. ASSUME NEW o \in Readers, ReadStep(o) \/ ReadExpires(o)
        PROVE  reader'[r].start \in {reader[r].start, source, Initial}
    <3>1. reader[o] \in Reader /\ (r # o => reader'[r] = reader[r])
      BY <1>1, <2>2 DEF ReadStep, ReadEngine, ReadWaited, ReadValidates, ReadWaitedAgain,
                        ReadLabel, ReadEnd, ReadExpires, ReadFinal
    <3>2. CASE ReadEngine(o)
      BY <1>1, <3>1, <3>2 DEF ReadEngine, Reader
    <3>3. ASSUME NEW checked, ReadFinal(o, checked)
          PROVE  reader'[o].start = reader[o].start
      BY <1>1, <3>1, <3>3 DEF ReadFinal, Reader
    <3>4. CASE ReadWaited(o)
      <4>1. (\E checked : ReadFinal(o, checked)) \/ reader' = [reader EXCEPT ![o].pc = "validate"]
        BY <3>4 DEF ReadWaited
      <4> QED
        BY <1>1, <3>1, <3>3, <4>1 DEF Reader
    <3>5. CASE ReadWaitedAgain(o) \/ ReadExpires(o)
      BY <3>1, <3>3, <3>5 DEF ReadWaitedAgain, ReadExpires
    <3>6. CASE ReadValidates(o)
      BY <1>1, <3>1, <3>6 DEF ReadValidates, Reader
    <3>7. CASE ReadLabel(o)
      BY <1>1, <3>1, <3>7 DEF ReadLabel, Reader
    <3>8. CASE ReadEnd(o)
      BY <1>1, <3>1, <3>8 DEF ReadEnd, NoReader
    <3> QED
      BY <2>2, <3>1, <3>2, <3>4, <3>5, <3>6, <3>7, <3>8 DEF ReadStep
  <2> QED
    BY <1>7, <2>1, <2>2
<1> QED
  BY <1>3, <1>4, <1>6, <1>8

\* What a turn will commit is between what the index has and the file as it is.
LEMMA PastScan ==
  ASSUME TypeOK, EnginesHeld, PastOnly, TypeOK', [Next]_vars, loop'.pc = "commit"
  PROVE  /\ \A f \in Files : loop'.scan[f] <= source'[f]
         /\ \A f \in Files : engine'[loop'.engine].at[f] <= loop'.scan[f]
<1>1. /\ loop \in Loop /\ engine \in [Engines -> Engine]
      /\ loop.pc \in {"apply", "commit"} => loop.engine \in Engines
  BY DEF TypeOK, EnginesHeld
<1>2. source \in [Files -> Nat] /\ loop.scan \in [Files -> Nat]
  BY Numbers
<1>3. CASE Others \/ CacheStep(Refresher) \/ UNCHANGED vars
  <2>1. loop' = loop
    BY <1>3, OthersApart DEF CacheStep, Lookup, PassGate, Insert, vars
  <2>2. engine'[loop.engine].at = engine[loop.engine].at
    BY <1>1, <1>3, <2>1, OthersTouch DEF Untouched, vars
  <2>3. \A f \in Files : loop.scan[f] <= source'[f]
    BY <1>2, <2>1, SourcesGrow DEF PastOnly
  <2> QED
    BY <2>1, <2>2, <2>3 DEF PastOnly
<1>4. CASE Scan
  <2>1. engine[loop.engine] \in Engine /\ engine[loop.engine].at \in [Files -> Nat]
    BY <1>1, <1>4, Numbers DEF Scan
  <2>2. /\ source' = source /\ loop'.engine = loop.engine
        /\ \E scope : loop'.scan = Override(engine[loop.engine].at, source, scope)
    BY <1>1, <1>4 DEF Scan, Applied, Loop, disk
  <2>3. engine'[loop.engine].at = engine[loop.engine].at
    <3>1. \E b \in BOOLEAN :
            engine'[loop.engine] = [engine[loop.engine] EXCEPT !.rescan = b]
      BY <1>1, <1>4 DEF Scan, Applied
    <3> QED
      BY <2>1, <3>1 DEF Engine
  <2>4. \A f \in Files : engine[loop.engine].at[f] <= source[f]
    BY <1>1, <1>4 DEF Scan, PastOnly, Older
  <2>5. \A f \in Files : /\ loop'.scan[f] \in {engine[loop.engine].at[f], source[f]}
                         /\ engine[loop.engine].at[f] \in Nat /\ source[f] \in Nat
    BY <1>2, <2>1, <2>2 DEF Override
  <2> QED
    BY <2>2, <2>3, <2>4, <2>5
<1>5. CASE Receive \/ BeginTurn \/ RefreshOnce \/ EngineReady
  BY <1>1, <1>5 DEF Receive, BeginTurn, RefreshOnce, EngineReady, Defer, Loop
<1>6. CASE Commit \/ Superseded \/ AttemptFails
  BY <1>1, <1>6 DEF Commit, Applied, Superseded, AttemptFails, Loop
<1>7. CASE Publish
  BY <1>1, <1>7 DEF Publish, TurnOver, Wake, Loop
<1> QED
  BY <1>3, <1>4, <1>5, <1>6, <1>7, EveryStep DEF LoopStep

\* A step of anyone.
LEMMA PastNext ==
  ASSUME TypeOK, EnginesHeld, PastOnly, TypeOK', [Next]_vars
  PROVE  PastOnly'
<1> DEFINE Past(s) == \A f \in Files : s[f] <= source'[f]
<1>1. \A s \in [Files -> Nat] : Older(s) => Past(s)
  BY SourcesGrow
<1>2. Past(source) /\ \A f \in Files : source'[f] <= edits'
  BY SourcesGrow
<1>3. Past(Initial)
  <2>1. source' \in [Files -> Nat]
    BY BoundAssumption DEF TypeOK, Snapshot, Versions
  <2> QED
    BY <2>1 DEF Initial
<1>4. Past(saved[pointer])
  BY <1>1, Numbers DEF PastOnly, TypeOK
<1>5. \A e \in Engines : Past(engine'[e].at)
  <2>1. \A e \in Engines : Past(engine[e].at)
    BY <1>1, Numbers DEF PastOnly
  <2>2. loop.pc = "commit" => Past(loop.scan)
    BY <1>1, Numbers DEF PastOnly
  <2> QED
    BY <1>4, <2>1, <2>2, EnginesChange
<1>6. \A g \in Gens : Past(saved'[g])
  <2>1. \A g \in Gens : Past(saved[g])
    BY <1>1, Numbers DEF PastOnly
  <2>2. \A e \in Engines : Past(engine[e].at)
    BY <1>1, Numbers DEF PastOnly
  <2>3. /\ external # Nobody => Past(external)
        /\ Past(job.scan) /\ \A u \in Upgrades : Past(upgrade[u].scan)
    BY <1>1, Numbers DEF PastOnly
  <2> QED
    BY <2>1, <2>2, <2>3, GenerationsChange
<1>7. /\ Past(job'.scan)
      /\ \A u \in Upgrades : Past(upgrade'[u].scan)
      /\ external' # Nobody => Past(external')
      /\ \A r \in Readers : Past(reader'[r].start)
  <2>1. /\ external # Nobody => Past(external)
        /\ Past(job.scan) /\ \A u \in Upgrades : Past(upgrade[u].scan)
        /\ \A r \in Readers : Past(reader[r].start)
    BY <1>1, Numbers DEF PastOnly
  <2> QED
    BY <1>2, <1>3, <1>4, <2>1, ScansChange
<1>8. loop'.pc = "commit" =>
        Past(loop'.scan) /\ \A f \in Files : engine'[loop'.engine].at[f] <= loop'.scan[f]
  BY PastScan
<1> QED
  BY <1>2, <1>5, <1>6, <1>7, <1>8 DEF PastOnly, Older

\* Nothing is newer than the files at first.
LEMMA PastInit == Init => PastOnly
<1> SUFFICES ASSUME Init
             PROVE  PastOnly
  OBVIOUS
<1>1. Older(Initial) /\ \A f \in Files : Initial[f] = 0
  BY DEF Init, Older, Initial
<1> QED
  BY <1>1 DEF Init, PastOnly, NoTask, NoReader, Older

---------------------------------------------------------------------------

\* The turn of the loop will compare every file of the cached index.
FullTurn == Root \in loop.pending \/ engine[cached].rescan

\* The loop will compare the cached index completely, has done so for a read, or will show
\* an error.
Compared(r, f) ==
  \/ loop.pc \in {"receive", "debounce"} /\ (loop.failed \/ Root \in loop.pending)
  \/ loop.pc = "lock" /\ FullTurn
  \/ /\ loop.pc = "engine" /\ FullTurn
     /\ Returned(Refresher) => get[Refresher].engine = cached
  \/ loop.pc = "apply" /\ loop.engine = cached /\ FullTurn
  \/ /\ loop.pc = "commit" /\ loop.engine = cached
     /\ engine[cached].rescan /\ reader[r].start[f] <= loop.scan[f]
  \/ loop.pc = "give up"

\* The read will validate the cached index itself.
WillValidate(r) ==
  \/ reader[r].pc = "initial" /\ (get[r].pc = "hit" => get[r].engine = cached)
  \/ reader[r].pc \in {"wait", "validate"} /\ reader[r].engine = cached

\* The read may still be labelled fresh.
Hopeful(r) ==
  \/ reader[r].pc \in {"initial", "wait", "validate", "wait again"}
  \/ reader[r].pc \in {"final", "label"} /\ reader[r].checked

\* The cached index reflects what was there when the read began, or somebody makes sure
\* before the published state is fresh.
Served(r, f) ==
  \/ reader[r].start[f] <= engine[cached].at[f]
  \/ WillRequest \/ Root \in queue \/ Compared(r, f) \/ WillValidate(r)

ReadsServed ==
  cached # NoEngine => \A r \in Readers : Hopeful(r) => \A f \in Files : Served(r, f)

\* The loop and its calls concern no read and no other task.
LEMMA LoopApart ==
  ASSUME TypeOK, LoopStep \/ AttemptFails \/ CacheStep(Refresher)
  PROVE  /\ WillRequest' <=> WillRequest
         /\ UNCHANGED <<reader, source>>
         /\ \A r \in Readers : /\ get'[r] = get[r]
                               /\ Hopeful(r)' <=> Hopeful(r)
<1>1. get \in [Callers -> Get] /\ Readers \subseteq Callers /\ Refresher \notin Readers
  BY NameAssumption DEF TypeOK, Callers
<1>2. UNCHANGED <<reader, source, job, upgrade>>
  BY DEF LoopStep, Receive, BeginTurn, RefreshOnce, EngineReady, Scan, Commit, Applied, Superseded,
     Publish, TurnOver, AttemptFails, CacheStep, Lookup, PassGate, Insert, disk, tasks
<1>3. \A r \in Readers : get'[r] = get[r]
  <2>1. CASE LoopStep \/ AttemptFails
    BY <1>1, <2>1 DEF LoopStep, Receive, BeginTurn, RefreshOnce, EngineReady, Scan, Commit,
       Superseded, Publish, TurnOver, AttemptFails, Call, cache
  <2>2. CASE CacheStep(Refresher)
    BY <1>1, <2>2 DEF CacheStep, Lookup, PassGate, Insert
  <2> QED
    BY <2>1, <2>2
<1> QED
  BY <1>2, <1>3 DEF WillRequest, UpgradeRunning, Hopeful

\* What has been read is labelled.
Labelled == \A r \in Readers : reader[r].pc = "label" => reader[r].engine \in Engines

\* A read is moved on by itself only.
LEMMA ReadsApart ==
  ASSUME TypeOK, [Next]_vars, NEW r \in Readers,
         ~(ReadBegin(r) \/ CacheStep(r) \/ ReadStep(r) \/ ReadExpires(r))
  PROVE  UNCHANGED <<reader[r], get[r]>>
<1> USE DEF store, cache, tasks
<1>1. /\ get \in [Callers -> Get] /\ reader \in [Readers -> Reader]
      /\ Readers \subseteq Callers /\ Refresher \notin Readers
  BY NameAssumption DEF TypeOK, Callers
<1>2. ASSUME NEW o \in Readers, ReadBegin(o) \/ CacheStep(o) \/ ReadStep(o) \/ ReadExpires(o)
      PROVE  UNCHANGED <<reader[r], get[r]>>
  <2>1. o # r
    BY <1>2
  <2>2. CASE ReadBegin(o) \/ ReadWaited(o) \/ ReadWaitedAgain(o) \/ ReadExpires(o)
    BY <1>1, <2>1, <2>2 DEF ReadBegin, ReadWaited, ReadWaitedAgain, ReadExpires, ReadFinal, Call
  <2>3. CASE CacheStep(o)
    BY <1>1, <2>1, <2>3 DEF CacheStep, Lookup, PassGate, Insert
  <2>4. CASE ReadEngine(o) \/ ReadValidates(o) \/ ReadLabel(o) \/ ReadEnd(o)
    BY <1>1, <2>1, <2>4 DEF ReadEngine, ReadValidates, ReadLabel, ReadEnd
  <2> QED
    BY <1>2, <2>2, <2>3, <2>4 DEF ReadStep
<1>3. CASE \/ \E f \in Files : Edit(f)
           \/ Deliver \/ ExternalScan \/ ExternalInstall \/ Evict
           \/ PersistStep \/ JobBegin \/ JobStep
           \/ \E u \in Upgrades : UpgradeStep(u)
           \/ UNCHANGED vars
  BY <1>3 DEF Edit, Deliver, ExternalScan, ExternalInstall, Evict, PersistStep, Persist,
     PersistSuperseded, JobBegin, JobStep, JobWorker, JobLoad, JobInsert, JobRequest,
     JobEnd, UpgradeStep, UpgradeWorker, UpgradeLoad, UpgradeInsert, UpgradeEnd, vars
<1>4. CASE LoopStep \/ AttemptFails \/ CacheStep(Refresher)
  BY <1>4, LoopApart
<1> QED
  BY <1>2, <1>3, <1>4, EveryStep DEF Others

\* An answer has an index.
LEMMA LabelledNext ==
  ASSUME TypeOK, EnginesHeld, Labelled, [Next]_vars
  PROVE  Labelled'
<1> SUFFICES ASSUME NEW r \in Readers, reader'[r].pc = "label"
             PROVE  reader'[r].engine \in Engines
  BY DEF Labelled
<1> USE DEF store, cache, tasks
<1>1. reader \in [Readers -> Reader] /\ reader[r] \in Reader /\ r \in Callers
  BY DEF TypeOK, Callers
<1>2. CASE reader'[r] = reader[r]
  BY <1>2 DEF Labelled
<1>3. CASE ReadEngine(r)
  <2>1. reader'[r].engine = get[r].engine
    BY <1>1, <1>3 DEF ReadEngine, Reader
  <2> QED
    BY <1>1, <1>3, <2>1 DEF ReadEngine, Returned, EnginesHeld
<1>4. ASSUME NEW checked, ReadFinal(r, checked)
      PROVE  FALSE
  BY <1>1, <1>4 DEF ReadFinal, Reader
<1>5. CASE ReadWaited(r) \/ ReadWaitedAgain(r) \/ ReadExpires(r)
  <2>1. reader' = [reader EXCEPT ![r].pc = "validate"]
    BY <1>4, <1>5 DEF ReadWaited, ReadWaitedAgain, ReadExpires
  <2> QED
    BY <1>1, <2>1 DEF Reader
<1>6. CASE ReadBegin(r) \/ ReadValidates(r) \/ ReadLabel(r)
  <2>1. CASE ReadBegin(r)
    BY <1>1, <2>1 DEF ReadBegin, Reader
  <2>2. CASE ReadValidates(r)
    BY <1>1, <2>2 DEF ReadValidates, Reader
  <2>3. CASE ReadLabel(r)
    BY <1>1, <2>3 DEF ReadLabel, Reader
  <2> QED
    BY <1>6, <2>1, <2>2, <2>3
<1>7. CASE ReadEnd(r)
  BY <1>1, <1>7 DEF ReadEnd, NoReader
<1>8. CASE CacheStep(r)
  BY <1>2, <1>8 DEF CacheStep, Lookup, PassGate, Insert
<1> QED
  BY <1>2, <1>3, <1>5, <1>6, <1>7, <1>8, ReadsApart DEF ReadStep

\* If the cached entry and the read stay as they are, the read is still served.
LEMMA ServedStill ==
  ASSUME TypeOK, ReadState, Others, UNCHANGED cached, cached # NoEngine,
         NEW r \in Readers, NEW f \in Files, Served(r, f),
         reader'[r].start = reader[r].start,
         WillValidate(r) => Served(r, f)'
  PROVE  Served(r, f)'
<1>1. cached \in Engines
  BY DEF TypeOK
<1>2. Untouched(cached)
  BY <1>1, OthersTouch
<1>3. loop' = loop /\ get'[Refresher] = get[Refresher] /\ queue \subseteq queue'
  BY OthersApart
<1>4. WillRequest => WillRequest' \/ Root \in queue'
  BY WillStill
<1>5. Compared(r, f) => Compared(r, f)'
  BY <1>2, <1>3 DEF Compared, FullTurn, Untouched, Returned
<1> QED
  BY <1>2, <1>3, <1>4, <1>5 DEF Served, Untouched

\* Calls of other reads, and everything else that is not of the loop.
LEMMA ServedOthers ==
  ASSUME TypeOK, ReadState, ReadsServed, Others, UNCHANGED cached,
         NEW r \in Readers, UNCHANGED <<reader[r], get[r]>>
  PROVE  cached' # NoEngine /\ Hopeful(r)' => \A f \in Files : Served(r, f)'
<1> SUFFICES ASSUME cached' # NoEngine, Hopeful(r)', NEW f \in Files
             PROVE  Served(r, f)'
  OBVIOUS
<1>1. Hopeful(r)
  BY DEF Hopeful
<1>2. Served(r, f)
  BY <1>1 DEF ReadsServed
<1>3. WillValidate(r) => WillValidate(r)'
  BY DEF WillValidate
<1> QED
  BY <1>2, <1>3, ServedStill DEF Served

\* The read's own steps.
LEMMA ServedRead ==
  ASSUME TypeOK, ReadState, PastOnly, ReadsServed, NEW r \in Readers,
         ReadBegin(r) \/ CacheStep(r) \/ ReadStep(r) \/ ReadExpires(r),
         UNCHANGED cached
  PROVE  cached' # NoEngine /\ Hopeful(r)' => \A f \in Files : Served(r, f)'
<1> SUFFICES ASSUME cached' # NoEngine, Hopeful(r)', NEW f \in Files
             PROVE  Served(r, f)'
  OBVIOUS
<1>1. /\ Others
      /\ reader \in [Readers -> Reader] /\ reader[r] \in Reader
      /\ get \in [Callers -> Get] /\ r \in Callers /\ get[r] \in Get
      /\ cached \in Engines
  BY DEF Others, TypeOK, Callers
<1>2. Hopeful(r) => Served(r, f)
  BY DEF ReadsServed
<1>3. ASSUME Hopeful(r), reader'[r].start = reader[r].start,
             WillValidate(r) => WillValidate(r)'
      PROVE  Served(r, f)'
  BY <1>1, <1>2, <1>3, ServedStill DEF Served
<1>4. CASE ReadBegin(r)
  <2>1. reader'[r].pc = "initial"
    BY <1>1, <1>4 DEF ReadBegin, Reader
  <2>2. get'[r].pc = "lookup"
    BY <1>1, <1>4 DEF ReadBegin, Call, NoGet
  <2> QED
    BY <2>1, <2>2 DEF Served, WillValidate
<1>5. CASE CacheStep(r)
  <2>1. reader' = reader
    BY <1>5 DEF CacheStep, Lookup, PassGate, Insert
  <2>2. get'[r].pc = "hit" => get'[r].engine = cached
    <3>1. CASE Lookup(r)
      BY <1>1, <3>1 DEF Lookup, Get
    <3>2. CASE PassGate(r)
      BY <1>1, <3>2 DEF PassGate, Get
    <3>3. CASE Insert(r)
      BY <1>1, <3>3 DEF Insert, Get
    <3> QED
      BY <1>5, <3>1, <3>2, <3>3 DEF CacheStep
  <2>3. reader[r].pc \in {"initial", "final"}
    BY <1>5 DEF CacheStep, Lookup, PassGate, Insert, ReadState
  <2>4. WillValidate(r) => WillValidate(r)'
    BY <2>1, <2>2, <2>3 DEF WillValidate
  <2>5. Hopeful(r)
    BY <2>1 DEF Hopeful
  <2> QED
    BY <1>3, <2>1, <2>4, <2>5
<1>6. CASE ReadEngine(r)
  <2>1. /\ reader'[r].start = reader[r].start /\ reader'[r].checked = reader[r].checked
        /\ reader'[r].engine = get[r].engine
        /\ reader'[r].pc = IF reader[r].pc = "initial" THEN "wait" ELSE "label"
    BY <1>1, <1>6 DEF ReadEngine, Reader
  <2>2. Hopeful(r)
    <3>1. reader[r].pc \in {"initial", "final"}
      BY <1>6 DEF ReadEngine
    <3>2. CASE reader[r].pc = "final"
      BY <2>1, <3>2 DEF Hopeful
    <3> QED
      BY <3>1, <3>2 DEF Hopeful
  <2>3. CASE get[r].pc = "loaded"
    BY <1>6, <2>3 DEF ReadEngine, RequestIfLoaded, RequestRescan, Served
  <2>4. CASE get[r].pc = "hit"
    <3>1. WillValidate(r) => WillValidate(r)'
      BY <1>6, <2>1, <2>4 DEF ReadEngine, WillValidate
    <3> QED
      BY <1>3, <2>1, <2>2, <3>1
  <2> QED
    BY <1>6, <2>3, <2>4 DEF ReadEngine, Returned
<1>7. ASSUME ReadFinal(r, FALSE)
      PROVE  FALSE
  <2>1. reader'[r].pc = "final" /\ ~reader'[r].checked
    BY <1>1, <1>7 DEF ReadFinal, Reader
  <2> QED
    BY <2>1 DEF Hopeful
<1>8. CASE ReadWaited(r)
  <2>1. reader' = [reader EXCEPT ![r].pc = "validate"] /\ reader[r].pc = "wait" /\ get' = get
    BY <1>7, <1>8 DEF ReadWaited
  <2>2. /\ reader'[r].pc = "validate" /\ reader'[r].engine = reader[r].engine
        /\ reader'[r].start = reader[r].start
    BY <1>1, <2>1 DEF Reader
  <2> QED
    BY <1>3, <2>1, <2>2 DEF Hopeful, WillValidate
<1>9. CASE ReadValidates(r)
  <2>1. /\ reader'[r].pc = "wait again" /\ reader'[r].start = reader[r].start
        /\ reader[r].pc = "validate"
    BY <1>1, <1>9 DEF ReadValidates, Reader
  <2>2. CASE RequestRescan
    BY <2>2 DEF RequestRescan, Served
  <2>3. CASE ~RequestRescan
    <3>1. engine' = engine /\ engine[reader[r].engine].at = source
      BY <1>9, <2>3 DEF ReadValidates, cache
    <3>2. reader[r].engine = cached => Served(r, f)'
      BY <2>1, <3>1 DEF Served, PastOnly, Older
    <3>3. WillValidate(r) => Served(r, f)'
      BY <2>1, <3>2 DEF WillValidate
    <3>4. Served(r, f)
      BY <1>2, <2>1 DEF Hopeful
    <3> QED
      BY <1>1, <2>1, <3>3, <3>4, ServedStill
  <2> QED
    BY <2>2, <2>3
<1>10. CASE ReadWaitedAgain(r)
  <2>1. reader'[r].start = reader[r].start /\ reader[r].pc = "wait again"
    BY <1>1, <1>10 DEF ReadWaitedAgain, ReadFinal, Reader
  <2> QED
    BY <1>3, <2>1 DEF Hopeful, WillValidate
<1>11. CASE ReadExpires(r)
  BY <1>7, <1>11 DEF ReadExpires
<1>12. CASE ReadLabel(r) \/ ReadEnd(r)
  <2>1. reader'[r].pc \in {"answer", "idle"}
    <3>1. CASE ReadLabel(r)
      BY <1>1, <3>1 DEF ReadLabel, Reader
    <3>2. CASE ReadEnd(r)
      BY <1>1, <3>2 DEF ReadEnd, NoReader
    <3> QED
      BY <1>12, <3>1, <3>2
  <2> QED
    BY <2>1 DEF Hopeful
<1> QED
  BY <1>4, <1>5, <1>6, <1>8, <1>9, <1>10, <1>11, <1>12 DEF ReadStep

\* Whoever puts an index into the cache asks for its comparison, or is the loop.
LEMMA ServedInsert ==
  ASSUME TypeOK, LoopState, [Next]_vars, cached' # cached
  PROVE  ReadsServed'
<1> USE DEF store, cache, tasks
<1>1. get \in [Callers -> Get] /\ Readers \subseteq Callers /\ Refresher \in Callers
  BY DEF TypeOK, Callers
<1>2. WillRequest' => ReadsServed'
  BY DEF ReadsServed, Served
<1>3. CASE Evict
  BY <1>3 DEF Evict, ReadsServed
<1>4. ASSUME NEW c \in Callers, CacheStep(c)
      PROVE  ReadsServed'
  <2>1. /\ get[c].pc = "insert" /\ engine' = engine /\ loop' = loop
        /\ cached' = get[c].engine
        /\ get'[c] = [get[c] EXCEPT !.pc = "loaded"]
    BY <1>1, <1>4 DEF CacheStep, Lookup, PassGate, Insert
  <2>2. get'[c].pc = "loaded" /\ get'[c].engine = cached'
    BY <1>1, <2>1 DEF Get
  <2>3. CASE c \in Readers
    BY <1>2, <2>2, <2>3 DEF WillRequest
  <2>4. CASE c = Refresher
    BY <2>1, <2>2, <2>4 DEF LoopState, ReadsServed, Served, Compared, FullTurn
  <2> QED
    BY <2>3, <2>4 DEF Callers
<1>5. CASE JobInsert
  BY <1>2, <1>5 DEF JobInsert, WillRequest, NoTask
<1>6. ASSUME NEW u \in Upgrades, UpgradeInsert(u)
      PROVE  ReadsServed'
  <2>1. upgrade'[u] = [NoTask EXCEPT !.pc = "request"]
    BY <1>6 DEF UpgradeInsert, TypeOK
  <2> QED
    BY <1>2, <2>1 DEF WillRequest, UpgradeRunning, NoTask
<1>7. \/ Evict \/ \E c \in Callers : CacheStep(c)
      \/ JobInsert \/ \E u \in Upgrades : UpgradeInsert(u)
  BY DEF Next, Edit, Deliver, ExternalScan, ExternalInstall, LoopStep, Receive, BeginTurn,
     RefreshOnce, EngineReady, Scan, Commit, Superseded, Publish, TurnOver, AttemptFails,
     PersistStep, Persist, PersistSuperseded, ReadBegin, Callers, ReadStep, ReadEngine,
     ReadWaited, ReadValidates, ReadWaitedAgain, ReadLabel, ReadEnd, ReadExpires, JobBegin,
     JobStep, JobWorker, JobLoad, JobRequest, JobEnd, UpgradeStep, UpgradeWorker, UpgradeLoad,
     UpgradeEnd, vars
<1> QED
  BY <1>3, <1>4, <1>5, <1>6, <1>7

\* What a step of the loop owes a read: what is compared stays so until it is committed,
\* and a request is received.
Owed(r, f) ==
  /\ reader[r].start[f] <= engine[cached].at[f] =>
       reader[r].start[f] <= engine'[cached].at[f]
  /\ Root \in queue => Root \in queue' \/ Compared(r, f)'
  /\ Compared(r, f) => \/ reader[r].start[f] <= engine'[cached].at[f]
                       \/ Compared(r, f)' \/ WillRequest

\* The loop's own calls.
LEMMA OwedByCalls ==
  ASSUME TypeOK, LoopState, CacheStep(Refresher), UNCHANGED cached, cached # NoEngine,
         NEW r \in Readers, NEW f \in Files
  PROVE  Owed(r, f)
<1>1. /\ get \in [Callers -> Get] /\ Refresher \in Callers /\ cached \in Engines
      /\ get[Refresher] \in Get
  BY DEF TypeOK, Callers
<1>2. loop.pc = "engine" /\ UNCHANGED <<queue, loop>>
  BY DEF CacheStep, Lookup, PassGate, Insert, LoopState
<1>3. Untouched(cached)
  BY <1>1, OthersTouch
<1>4. Returned(Refresher)' => get'[Refresher].engine = cached
  <2>1. CASE Lookup(Refresher)
    BY <1>1, <2>1 DEF Lookup, Returned, Get
  <2>2. CASE PassGate(Refresher)
    BY <1>1, <2>2 DEF PassGate, Returned, Get
  <2>3. CASE Insert(Refresher)
    BY <1>1, <2>3 DEF Insert, Returned, Get
  <2> QED
    BY <2>1, <2>2, <2>3 DEF CacheStep
<1>5. Compared(r, f) => Compared(r, f)'
  BY <1>2, <1>3, <1>4 DEF Compared, FullTurn, Untouched
<1> QED
  BY <1>2, <1>3, <1>5 DEF Owed, Untouched

\* Signals are received, and turns begun or deferred.
LEMMA OwedByTurn ==
  ASSUME TypeOK, LoopState, Receive \/ BeginTurn \/ RefreshOnce \/ EngineReady,
         NEW r \in Readers, NEW f \in Files
  PROVE  Owed(r, f)
<1>1. loop \in Loop /\ get \in [Callers -> Get] /\ Refresher \in Callers
  BY DEF TypeOK, Callers
<1>2. UNCHANGED <<engine, cached, reader>>
  BY DEF Receive, BeginTurn, RefreshOnce, EngineReady, cache
<1>3. CASE Receive
  <2>1. PICK signal \in queue :
          /\ queue' = queue \ {signal}
          /\ loop' = [loop EXCEPT !.pc = "debounce",
                                  !.pending = @ \cup {PendingPath(signal)}]
    BY <1>3 DEF Receive
  <2>2. /\ loop'.pc = "debounce" /\ loop'.failed = loop.failed
        /\ loop'.pending = loop.pending \cup {PendingPath(signal)}
    BY <1>1, <2>1 DEF Loop
  <2>3. Root \in queue => Root \in queue' \/ Compared(r, f)'
    BY <2>1, <2>2 DEF Compared, PendingPath
  <2>4. Compared(r, f) => Compared(r, f)'
    BY <1>3, <2>2 DEF Receive, Compared
  <2> QED
    BY <1>2, <2>3, <2>4 DEF Owed
<1>4. CASE BeginTurn
  <2>1. queue' = queue
    BY <1>4 DEF BeginTurn
  <2>2. ASSUME Compared(r, f), ~UpgradeRunning
        PROVE  Compared(r, f)'
    <3>1. /\ loop.pc = "debounce" /\ loop'.pc = "lock"
          /\ loop'.pending = IF loop.failed THEN loop.pending \cup {Root} ELSE loop.pending
      BY <1>1, <1>4, <2>2 DEF BeginTurn, Loop
    <3> QED
      BY <2>2, <3>1 DEF Compared, FullTurn
  <2> QED
    BY <1>2, <2>1, <2>2 DEF Owed, WillRequest
<1>5. CASE RefreshOnce
  <2>1. queue' = queue
    BY <1>5 DEF RefreshOnce
  <2>2. ASSUME Compared(r, f), ~UpgradeRunning
        PROVE  Compared(r, f)'
    <3>1. loop.pc = "lock" /\ loop'.pc = "engine" /\ loop'.pending = loop.pending
      BY <1>1, <1>5, <2>2 DEF RefreshOnce, Loop
    <3>2. get'[Refresher] = [NoGet EXCEPT !.pc = "lookup"]
      BY <1>1, <1>5, <2>2 DEF RefreshOnce, Call
    <3>3. ~Returned(Refresher)'
      BY <3>2 DEF Returned, NoGet
    <3> QED
      BY <1>2, <2>2, <3>1, <3>3 DEF Compared, FullTurn
  <2> QED
    BY <1>2, <2>1, <2>2 DEF Owed, WillRequest
<1>6. CASE EngineReady
  <2>1. queue' = queue
    BY <1>6 DEF EngineReady
  <2>2. Compared(r, f) => Compared(r, f)'
    BY <1>1, <1>2, <1>6 DEF EngineReady, Compared, FullTurn, Loop
  <2> QED
    BY <1>2, <2>1, <2>2 DEF Owed
<1> QED
  BY <1>3, <1>4, <1>5, <1>6

\* A complete comparison finds the file as it is now.
LEMMA OwedByScan ==
  ASSUME TypeOK, EnginesHeld, PastOnly, Scan, cached # NoEngine,
         NEW r \in Readers, NEW f \in Files
  PROVE  Owed(r, f)
<1>1. /\ loop \in Loop /\ engine \in [Engines -> Engine]
      /\ loop.pc = "apply" /\ loop.engine \in Engines /\ cached \in Engines
  BY DEF TypeOK, Scan, EnginesHeld
<1>2. UNCHANGED <<queue, cached, reader>>
  BY DEF Scan
<1>3. /\ engine[loop.engine] \in Engine
      /\ \E b \in BOOLEAN : engine' = [engine EXCEPT ![loop.engine] = [@ EXCEPT !.rescan = b]]
  BY <1>1 DEF Scan, Applied
<1>4. engine'[cached].at = engine[cached].at
  BY <1>1, <1>3 DEF Engine
<1>5. reader[r].start[f] <= source[f]
  BY DEF PastOnly, Older
<1>6. ASSUME Compared(r, f)
      PROVE  reader[r].start[f] <= engine[cached].at[f] \/ Compared(r, f)'
  <2>1. loop.engine = cached /\ FullTurn
    BY <1>1, <1>6 DEF Compared
  <2> DEFINE live == engine[cached]
             scope == IF live.rescan \/ loop.reloaded \/ Root \in loop.pending
                      THEN Files ELSE loop.pending
             next == Override(live.at, source, scope)
  <2>2. next[f] = source[f]
    BY <2>1 DEF FullTurn, Override
  <2>3. CASE next = live.at
    BY <1>5, <2>2, <2>3
  <2>4. CASE next # live.at
    <3>1. /\ engine' = [engine EXCEPT ![cached].rescan = TRUE]
          /\ loop' = [loop EXCEPT !.pc = "commit", !.scan = next]
      BY <2>1, <2>4 DEF Scan
    <3>2. engine'[cached].rescan
      BY <1>1, <3>1 DEF Engine
    <3>3. loop'.pc = "commit" /\ loop'.engine = cached /\ loop'.scan[f] = source[f]
      BY <1>1, <2>1, <2>2, <3>1 DEF Loop
    <3> QED
      BY <1>2, <1>5, <3>2, <3>3 DEF Compared
  <2> QED
    BY <2>3, <2>4
<1> QED
  BY <1>2, <1>4, <1>6 DEF Owed

\* What is committed is not older than what the index had.
LEMMA OwedByCommit ==
  ASSUME TypeOK, EnginesHeld, PastOnly, Commit, cached # NoEngine,
         NEW r \in Readers, NEW f \in Files
  PROVE  Owed(r, f)
<1>1. /\ engine \in [Engines -> Engine]
      /\ loop.pc = "commit" /\ loop.engine \in Engines /\ cached \in Engines
  BY DEF TypeOK, Commit, EnginesHeld
<1>2. UNCHANGED <<queue, cached, reader>>
  BY DEF Commit
<1>3. engine[loop.engine] \in Engine
      /\ engine' = [engine EXCEPT ![loop.engine] = [@ EXCEPT !.at = loop.scan, !.rescan = FALSE,
                                                             !.unsaved = TRUE]]
  BY <1>1 DEF Commit, Applied
<1>4. CASE loop.engine # cached
  BY <1>1, <1>2, <1>3, <1>4 DEF Owed, Compared
<1>5. CASE loop.engine = cached
  <2>1. engine'[cached].at = loop.scan
    BY <1>1, <1>3, <1>5 DEF Engine
  <2>2. engine[cached].at[f] <= loop.scan[f]
    BY <1>1, <1>5 DEF PastOnly
  <2>3. engine[cached].at[f] \in Nat /\ loop.scan[f] \in Nat /\ reader[r].start[f] \in Nat
    BY <1>1, Numbers
  <2>4. Compared(r, f) => reader[r].start[f] <= loop.scan[f]
    BY <1>1 DEF Compared
  <2> QED
    BY <1>2, <2>1, <2>2, <2>3, <2>4 DEF Owed
<1> QED
  BY <1>4, <1>5

\* An attempt that fails, or finds its index superseded, keeps what is to be compared.
LEMMA OwedByFailure ==
  ASSUME TypeOK, EnginesHeld, Superseded \/ AttemptFails, cached # NoEngine,
         NEW r \in Readers, NEW f \in Files
  PROVE  Owed(r, f)
<1>1. /\ engine \in [Engines -> Engine] /\ get \in [Callers -> Get] /\ Refresher \in Callers
      /\ loop \in Loop /\ loop.pc \in {"engine", "apply", "commit"} /\ cached \in Engines
  BY DEF TypeOK, Callers, Superseded, AttemptFails
<1>2. UNCHANGED <<queue, cached, reader>>
  BY DEF Superseded, AttemptFails
<1>3. Untouched(cached)
  <2>1. \/ engine' = engine
        \/ engine' = [engine EXCEPT ![loop.engine] = [@ EXCEPT !.superseded = TRUE]]
    BY DEF Superseded, AttemptFails
  <2>2. engine[cached] \in Engine
    BY <1>1
  <2> QED
    BY <1>1, <2>1, <2>2 DEF Untouched, Engine
<1>4. Compared(r, f) => FullTurn
  BY <1>1 DEF Compared, FullTurn
<1>5. FullTurn => Compared(r, f)'
  <2>1. CASE AttemptFails
    <3>1. loop'.pc \in {"lock", "give up"} /\ loop'.pending = loop.pending
      BY <1>1, <2>1 DEF AttemptFails, Loop
    <3> QED
      BY <1>2, <1>3, <3>1 DEF Compared, FullTurn, Untouched
  <2>2. CASE Superseded
    <3>1. loop'.pc = "engine" /\ loop'.pending = loop.pending
      BY <1>1, <2>2 DEF Superseded, Loop
    <3>2. get'[Refresher] = [NoGet EXCEPT !.pc = "lookup"]
      BY <1>1, <2>2 DEF Superseded, Call
    <3>3. ~Returned(Refresher)'
      BY <3>2 DEF Returned, NoGet
    <3> QED
      BY <1>2, <1>3, <3>1, <3>3 DEF Compared, FullTurn, Untouched
  <2> QED
    BY <2>1, <2>2
<1> QED
  BY <1>2, <1>3, <1>4, <1>5 DEF Owed, Untouched

\* A turn is over: a request sent meanwhile is pending.
LEMMA OwedByPublish ==
  ASSUME TypeOK, Publish, NEW r \in Readers, NEW f \in Files
  PROVE  Owed(r, f)
<1>1. loop \in Loop /\ loop.pc \in {"publish", "give up"}
  BY DEF TypeOK, Publish, TurnOver
<1>2. UNCHANGED <<engine, cached, reader>>
  BY DEF Publish, TurnOver
<1>3. /\ loop'.pc = Wake(queue, FALSE) /\ loop'.failed = (loop.pc = "give up")
      /\ loop'.pending = {PendingPath(signal) : signal \in queue}
  BY <1>1 DEF Publish, TurnOver, Loop
<1>4. loop'.pc \in {"receive", "debounce"}
  BY <1>3 DEF Wake
<1>5. Root \in queue => Root \in loop'.pending
  BY <1>3, NameAssumption DEF PendingPath
<1> QED
  BY <1>1, <1>2, <1>3, <1>4, <1>5 DEF Owed, Compared

\* A step of anyone.
LEMMA ServedNext ==
  ASSUME TypeOK, EnginesHeld, KeptInv, PastOnly, ReadsServed, [Next]_vars
  PROVE  ReadsServed'
<1>1. CASE cached' # cached
  BY <1>1, ServedInsert DEF KeptInv
<1>2. CASE cached' = cached
  <2> SUFFICES ASSUME cached # NoEngine, NEW r \in Readers, Hopeful(r)', NEW f \in Files
               PROVE  Served(r, f)'
    BY <1>2 DEF ReadsServed
  <2>1. CASE LoopStep \/ AttemptFails \/ CacheStep(Refresher)
    <3>1. Owed(r, f)
      BY <1>2, <2>1, OwedByCalls, OwedByTurn, OwedByScan, OwedByCommit, OwedByFailure,
         OwedByPublish DEF KeptInv, LoopStep
    <3>2. Served(r, f)
      BY <2>1, LoopApart DEF ReadsServed
    <3>3. /\ reader' = reader /\ get'[r] = get[r]
          /\ WillRequest' <=> WillRequest
      BY <2>1, LoopApart
    <3>4. WillValidate(r) => WillValidate(r)'
      BY <1>2, <3>3 DEF WillValidate
    <3> QED
      BY <1>2, <3>1, <3>2, <3>3, <3>4 DEF Owed, Served
  <2>2. ASSUME Others, UNCHANGED <<reader[r], get[r]>>
        PROVE  Served(r, f)'
    BY <1>2, <2>2, ServedOthers DEF KeptInv
  <2>3. ASSUME ReadBegin(r) \/ CacheStep(r) \/ ReadStep(r) \/ ReadExpires(r)
        PROVE  Served(r, f)'
    BY <1>2, <2>3, ServedRead DEF KeptInv
  <2>4. CASE UNCHANGED vars
    BY <2>4 DEF vars, ReadsServed, Hopeful, Served, WillRequest, UpgradeRunning, Compared,
                FullTurn, Returned, WillValidate
  <2>5. UNCHANGED <<reader[r], get[r]>>
          \/ (ReadBegin(r) \/ CacheStep(r) \/ ReadStep(r) \/ ReadExpires(r))
    BY ReadsApart
  <2> QED
    BY <2>1, <2>2, <2>3, <2>4, <2>5, EveryStep
<1> QED
  BY <1>1, <1>2

\* Nobody reads at first.
LEMMA ServedInit == Init => Labelled /\ ReadsServed
<1>1. Init => \A r \in Readers : reader[r].pc = "idle"
  BY DEF Init, NoReader
<1> QED
  BY <1>1 DEF Labelled, ReadsServed, Hopeful

\* A read that would be labelled fresh reflects every edit made before it began, as long as
\* its index is the cached one and nobody is about to ask for its comparison: for any
\* reads, jobs, upgrades, failures, evictions and other processes.
THEOREM FreshLabelsHold == Spec => []FreshLabels
<1>1. TypeOK /\ KeptInv /\ RequestsAreShown /\ Labelled /\ ReadsServed => FreshLabels
  <2> SUFFICES ASSUME TypeOK, Published, RequestsAreShown, Labelled, ReadsServed,
                      NEW r \in Readers,
                      reader[r].pc = "label", reader[r].checked, LabelFresh,
                      reader[r].engine = cached, ~WillRequest, NEW f \in Files
               PROVE  engine[cached].at[f] >= reader[r].start[f]
    BY DEF FreshLabels, Reflects, KeptInv
  <2>1. cached \in Engines /\ cached # NoEngine
    BY DEF Labelled, Engines, NoEngine
  <2>2. Served(r, f)
    BY <2>1 DEF ReadsServed, Hopeful
  <2>3. Root \notin queue
    BY DEF RequestsAreShown
  <2>4. ~Compared(r, f)
    BY DEF Published, LabelFresh, Compared
  <2>5. ~WillValidate(r)
    BY DEF WillValidate
  <2>6. engine[cached].at[f] \in Nat /\ reader[r].start[f] \in Nat
    BY <2>1, Numbers
  <2> QED
    BY <2>2, <2>3, <2>4, <2>5, <2>6 DEF Served
<1>2. Init => KeptInv /\ PastOnly /\ Labelled /\ ReadsServed
  BY KeptInit, PastInit, ServedInit
<1>3. /\ (TypeOK /\ EnginesHeld) /\ (KeptInv /\ PastOnly /\ Labelled /\ ReadsServed)
      /\ (TypeOK /\ EnginesHeld)' /\ [Next]_vars
      => (KeptInv /\ PastOnly /\ Labelled /\ ReadsServed)'
  BY KeptNext, PastNext, LabelledNext, ServedNext
<1> QED
  BY <1>1, <1>2, <1>3, Typed, NoHiddenRequest, PTL DEF Spec

=============================================================================
