----------------------------- MODULE Freshness -----------------------------
(***************************************************************************)
(* One project in the MCP server: the refresh loop of mcp/src/freshness.rs *)
(* with its signals, turns, retries and published state, and the engine    *)
(* cache, reads, index jobs and semantic upgrades of mcp/src/server.rs and *)
(* mcp/src/tools.rs that meet it. LiveIndex has the inside of an apply and *)
(* of a persist; here they are a scan and a commit, and one step.          *)
(*                                                                         *)
(* The content of a file is a version, a live index has the version of     *)
(* every file it reflects. The embedding model does not change and every   *)
(* index can be loaded live. The published number of pending paths is      *)
(* reduced to whether there are any.                                       *)
(***************************************************************************)
EXTENDS Naturals, FiniteSets

CONSTANTS
  Files,
  Root,           \* the project root among signals: compare everything
  Lost,           \* the same, asked for by the watcher
  Readers,        \* read requests in progress
  Refresher,      \* the refresh loop, as a user of the engine cache
  Nobody,         \* a free gate, or no run
  Upgrades,       \* semantic upgrades of quick indexes that may overlap
  Events,         \* what may happen, see AllEvents
  MaxAttempts,    \* attempts of a turn (MAX_REFRESH_ATTEMPTS)
  MaxEdits,       \* bound: edits of files
  MaxGens,        \* bound: generations ever activated
  MaxEngines      \* bound: live indexes in memory at a time

AllEvents == {"external",      \* another process activates generations
              "events lost",   \* the watcher asks for a full comparison
              "jobs",          \* index_now, index_project
              "turn fails", "persist fails",
              "expiry",        \* a read waits longer than its budget
              "evict"}         \* other projects need the cache

ASSUME NameAssumption == /\ Root # Lost /\ Root \notin Files /\ Lost \notin Files
                         /\ Refresher \notin Readers
                         /\ Nobody \notin Readers \cup {Refresher} \cup Nat
ASSUME EventAssumption == Events \subseteq AllEvents
ASSUME BoundAssumption == /\ MaxAttempts \in Nat \ {0} /\ MaxEdits \in Nat
                          /\ MaxGens \in Nat \ {0} /\ MaxEngines \in Nat \ {0}

VARIABLES
  source,        \* source[f]: version of file f on disk
  edits,         \* edits so far
  undelivered,   \* changed files whose watcher event is still on its way
  queue,         \* signals sent to the loop
  shown,         \* the published ProjectFreshness
  loop,          \* the local variables of run_refresh_loop
  pointer,       \* the active generation
  saved,         \* saved[g]: what the directory of generation g reflects
  engine,        \* engine[e]: live indexes in memory
  cached,        \* the project's entry in the engine cache
  gate,          \* holder of the load gate
  get,           \* get[c]: calls of cached_project_engine
  reader,        \* reader[r]: run_tool
  projectLock,   \* holder of the project index lock
  job,           \* run_index_project
  upgrade,       \* upgrade[u]: the task of schedule_semantic_upgrade
  persisting,    \* live indexes with a spawned persist
  external       \* what another process' run scanned

vars == <<source, edits, undelivered, queue, shown, loop, pointer, saved, engine, cached,
          gate, get, reader, projectLock, job, upgrade, persisting, external>>

disk == <<source, edits, undelivered>>
store == <<pointer, saved, external>>
cache == <<engine, cached, gate, get, persisting>>
tasks == <<projectLock, job, upgrade>>

Versions == 0..MaxEdits
Snapshot == [Files -> Versions]
Initial == [f \in Files |-> 0]
Gens == 1..MaxGens
Engines == 1..MaxEngines
Paths == Files \cup {Root}
Signals == Paths \cup {Lost}
Callers == Readers \cup {Refresher}
NoEngine == 0

Engine == [gen : Gens, at : Snapshot, rescan : BOOLEAN, superseded : BOOLEAN,
           unsaved : BOOLEAN]

Get == [pc : {"none", "lookup", "gate", "insert", "hit", "loaded"},
        want : Gens, engine : Engines \cup {NoEngine}]

NoGet == [pc |-> "none", want |-> 1, engine |-> NoEngine]

Reader == [pc : {"idle", "initial", "wait", "validate", "wait again", "final", "label",
                 "answer"},
           engine : Engines \cup {NoEngine}, start : Snapshot, checked : BOOLEAN,
           fresh : BOOLEAN]

NoReader == [pc |-> "idle", engine |-> NoEngine, start |-> Initial, checked |-> FALSE,
             fresh |-> FALSE]

Loop == [pc : {"receive", "debounce", "lock", "engine", "apply", "commit", "publish",
               "give up"},
         pending : SUBSET Paths, waiting : BOOLEAN, failed : BOOLEAN,
         attempt : 1..MaxAttempts, engine : Engines \cup {NoEngine}, scan : Snapshot,
         reloaded : BOOLEAN]

Shown == [pending : BOOLEAN, inFlight : BOOLEAN, waiting : BOOLEAN, error : BOOLEAN]

Task == [pc : {"idle", "worker", "load", "insert", "request", "schedule"},
         engine : Engines \cup {NoEngine}, scan : Snapshot]

NoTask == [pc |-> "idle", engine |-> NoEngine, scan |-> Initial]

TypeOK ==
  /\ source \in Snapshot /\ edits \in 0..MaxEdits /\ undelivered \subseteq Files
  /\ queue \subseteq Signals
  /\ shown \in Shown
  /\ loop \in Loop
  /\ pointer \in Gens /\ saved \in [Gens -> Snapshot]
  /\ engine \in [Engines -> Engine]
  /\ cached \in Engines \cup {NoEngine}
  /\ gate \in Callers \cup {Nobody}
  /\ get \in [Callers -> Get]
  /\ reader \in [Readers -> Reader]
  /\ projectLock \in {"loop", "job", "free"}
  /\ job \in Task
  /\ upgrade \in [Upgrades -> Task]
  /\ persisting \subseteq Engines
  /\ external \in Snapshot \cup {Nobody}

\* A first read has loaded an index and started the loop, which is to compare
\* everything (start_auto_refresh).
Init ==
  /\ source = Initial /\ edits = 0 /\ undelivered = {}
  /\ queue = {Root}
  /\ shown = [pending |-> FALSE, inFlight |-> TRUE, waiting |-> FALSE, error |-> FALSE]
  /\ loop = [pc |-> "receive", pending |-> {}, waiting |-> FALSE, failed |-> FALSE,
             attempt |-> 1, engine |-> NoEngine, scan |-> Initial, reloaded |-> FALSE]
  /\ pointer = 1 /\ saved = [g \in Gens |-> Initial]
  /\ engine = [e \in Engines |-> [gen |-> 1, at |-> Initial, rescan |-> TRUE,
                                  superseded |-> FALSE, unsaved |-> FALSE]]
  /\ cached = 1
  /\ gate = Nobody
  /\ get = [c \in Callers |-> NoGet]
  /\ reader = [r \in Readers |-> NoReader]
  /\ projectLock = "free"
  /\ job = NoTask
  /\ upgrade = [u \in Upgrades |-> NoTask]
  /\ persisting = {}
  /\ external = Nobody

---------------------------------------------------------------------------
(* Helpers.                                                                *)

\* Snapshot a with the versions of b for the files of a set.
Override(a, b, files) == [f \in Files |-> IF f \in files THEN b[f] ELSE a[f]]

\* Mutant of PendingPath: a watch error is kept as a path of its own.
PendingPathPlain(signal) == signal

\* pending_path
PendingPath(signal) == IF signal = Lost THEN Root ELSE signal

\* is_settled
Settled == shown.waiting \/ (~shown.pending /\ ~shown.inFlight)

\* format_freshness_line: the read is labelled fresh.
LabelFresh == ~shown.pending /\ ~shown.inFlight /\ ~shown.error

\* quick_index_upgrade_running
UpgradeRunning == \E u \in Upgrades : upgrade[u].pc # "idle"

\* request_rescan: signal and mark under the lock of the published state.
RequestRescan ==
  /\ queue' = queue \cup {Root}
  /\ shown' = [shown EXCEPT !.pending = TRUE]

NoRequest == UNCHANGED <<queue, shown>>

\* Live indexes held by the cache or by a task (an Arc).
Held ==
  {cached, loop.engine, job.engine} \cup persisting
    \cup {get[c].engine : c \in Callers} \cup {reader[r].engine : r \in Readers}
    \cup {upgrade[u].engine : u \in Upgrades}

Free == Engines \ Held

\* LiveIndex::load of the active generation into memory.
Load(e) ==
  /\ e \in Free
  /\ \A o \in Free : e <= o
  /\ engine' = [engine EXCEPT ![e] = [gen |-> pointer, at |-> saved[pointer],
                                      rescan |-> TRUE, superseded |-> FALSE,
                                      unsaved |-> FALSE]]

\* The state lock of a live index is held from the scan to the commit.
StateLocked(e) == loop.pc = "commit" /\ loop.engine = e

\* install_staged_generation, with what the new generation reflects.
Install(content) ==
  /\ pointer < MaxGens
  /\ pointer' = pointer + 1
  /\ saved' = [saved EXCEPT ![pointer + 1] = content]

---------------------------------------------------------------------------
(* Files, the watcher, other processes and other projects.                 *)

Edit(f) ==
  /\ edits < MaxEdits
  /\ edits' = edits + 1
  /\ source' = [source EXCEPT ![f] = edits + 1]
  /\ undelivered' = undelivered \cup {f}
  /\ UNCHANGED <<queue, shown, loop, store, cache, reader, tasks>>

\* signals_for_event: one path, or a lost event, a directory or a watch error.
Deliver ==
  /\ \/ \E f \in undelivered : /\ undelivered' = undelivered \ {f}
                               /\ queue' = queue \cup {f}
     \/ /\ "events lost" \in Events
        /\ undelivered # {}
        /\ undelivered' = {}
        /\ queue' = queue \cup {Lost}
  /\ UNCHANGED <<source, edits, shown, loop, store, cache, reader, tasks>>

ExternalScan ==
  /\ "external" \in Events
  /\ external = Nobody
  /\ pointer < MaxGens
  /\ external' = source
  /\ UNCHANGED <<disk, queue, shown, loop, pointer, saved, cache, reader, tasks>>

ExternalInstall ==
  /\ external # Nobody
  /\ \/ Install(external)
     \/ UNCHANGED <<pointer, saved>>     \* the run fails
  /\ external' = Nobody
  /\ UNCHANGED <<disk, queue, shown, loop, cache, reader, tasks>>

\* The least recently used entry is dropped for another project.
Evict ==
  /\ "evict" \in Events
  /\ cached # NoEngine
  /\ cached' = NoEngine
  /\ UNCHANGED <<disk, queue, shown, loop, store, engine, gate, get, persisting, reader,
                 tasks>>

---------------------------------------------------------------------------
(* cached_project_engine, called by reads and by the loop.                 *)

IsCached(gen) == cached # NoEngine /\ engine[cached].gen = gen

\* Resolve the active generation and look it up.
Lookup(c) ==
  /\ get[c].pc = "lookup"
  /\ get' = [get EXCEPT ![c] = IF IsCached(pointer)
                                THEN [pc |-> "hit", want |-> 1, engine |-> cached]
                                ELSE [@ EXCEPT !.pc = "gate", !.want = pointer]]
  /\ UNCHANGED <<disk, queue, shown, loop, store, engine, cached, gate, persisting, reader,
                 tasks>>

\* Behind the gate: another caller may have loaded it meanwhile, else load.
PassGate(c) ==
  /\ get[c].pc = "gate"
  /\ gate = Nobody
  /\ \/ /\ IsCached(get[c].want)
        /\ get' = [get EXCEPT ![c] = [pc |-> "hit", want |-> 1, engine |-> cached]]
        /\ UNCHANGED <<gate, engine>>
     \/ /\ ~IsCached(get[c].want)
        /\ \E e \in Engines :
             /\ Load(e)
             /\ get' = [get EXCEPT ![c] = [pc |-> "insert", want |-> 1, engine |-> e]]
        /\ gate' = c
  /\ UNCHANGED <<disk, queue, shown, loop, store, cached, persisting, reader, tasks>>

\* Insert it, unless its generation has come into the cache meanwhile. The other
\* generations of the project are dropped.
Insert(c) ==
  /\ get[c].pc = "insert"
  /\ \/ /\ IsCached(engine[get[c].engine].gen)
        /\ get' = [get EXCEPT ![c] = [@ EXCEPT !.pc = "hit", !.engine = cached]]
        /\ UNCHANGED cached
     \/ /\ ~IsCached(engine[get[c].engine].gen)
        /\ cached' = get[c].engine
        /\ get' = [get EXCEPT ![c].pc = "loaded"]
  /\ gate' = Nobody
  /\ UNCHANGED <<disk, queue, shown, loop, store, engine, persisting, reader, tasks>>

Call(c) == get' = [get EXCEPT ![c] = [NoGet EXCEPT !.pc = "lookup"]]
Returned(c) == get[c].pc \in {"hit", "loaded"}

---------------------------------------------------------------------------
(* run_refresh_loop                                                        *)

Wake(pending, waiting) == IF pending = {} \/ waiting THEN "receive" ELSE "debounce"

\* Wait for a signal, or take more of them within the debounce window.
Receive ==
  /\ loop.pc \in {"receive", "debounce"}
  /\ \E signal \in queue :
       /\ queue' = queue \ {signal}
       /\ loop' = [loop EXCEPT !.pc = "debounce", !.pending = @ \cup {PendingPath(signal)}]
  /\ shown' = [shown EXCEPT !.pending = TRUE]
  /\ UNCHANGED <<disk, store, cache, reader, tasks>>

\* publish_waiting_for_upgrade; the pending changes are kept.
Defer ==
  /\ loop' = [loop EXCEPT !.pc = "receive", !.waiting = TRUE, !.attempt = 1]
  /\ shown' = [shown EXCEPT !.pending = TRUE, !.inFlight = FALSE, !.waiting = TRUE]

\* The debounce window closes: defer, or begin a turn.
BeginTurn ==
  /\ loop.pc = "debounce"
  /\ \/ UpgradeRunning /\ Defer
     \/ /\ ~UpgradeRunning
        /\ loop' = [loop EXCEPT !.pc = "lock", !.waiting = FALSE, !.attempt = 1,
                                !.pending = IF loop.failed THEN @ \cup {Root} ELSE @]
        /\ shown' = [shown EXCEPT !.pending = TRUE, !.inFlight = TRUE, !.waiting = FALSE]
  /\ UNCHANGED <<disk, queue, store, cache, reader, tasks>>

\* Mutant of RefreshOnce: an upgrade registered while waiting for the lock is not seen.
RefreshOnceUnchecked ==
  /\ loop.pc = "lock"
  /\ projectLock = "free"
  /\ projectLock' = "loop"
  /\ loop' = [loop EXCEPT !.pc = "engine", !.reloaded = FALSE]
  /\ Call(Refresher)
  /\ UNCHANGED <<disk, queue, shown, store, engine, cached, gate, persisting, reader, job,
                 upgrade>>

\* refresh_once: with the project lock, look again for an upgrade.
RefreshOnce ==
  /\ loop.pc = "lock"
  /\ projectLock = "free"
  /\ \/ /\ UpgradeRunning
        /\ Defer
        /\ UNCHANGED <<projectLock, get>>
     \/ /\ ~UpgradeRunning
        /\ projectLock' = "loop"
        /\ loop' = [loop EXCEPT !.pc = "engine", !.reloaded = FALSE]
        /\ Call(Refresher)
        /\ UNCHANGED shown
  /\ UNCHANGED <<disk, queue, store, engine, cached, gate, persisting, reader, job, upgrade>>

\* refresh_engine has returned; unlike a read it requests nothing.
EngineReady ==
  /\ loop.pc = "engine"
  /\ Returned(Refresher)
  /\ loop' = [loop EXCEPT !.pc = "apply", !.engine = get[Refresher].engine]
  /\ get' = [get EXCEPT ![Refresher] = NoGet]
  /\ UNCHANGED <<disk, queue, shown, store, engine, cached, gate, persisting, reader, tasks>>

\* The apply is over: the lock is released and the result published.
Applied(e) ==
  /\ engine' = [engine EXCEPT ![loop.engine] = e]
  /\ loop' = [loop EXCEPT !.pc = "publish"]
  /\ projectLock' = "free"

\* apply_paths, apply_rescan: compare. A reloaded index is compared completely, and so
\* is any index after its load or after an apply that did not finish.
Scan ==
  LET live == engine[loop.engine]
      scope == IF live.rescan \/ loop.reloaded \/ Root \in loop.pending
               THEN Files ELSE loop.pending
      next == Override(live.at, source, scope)
  IN /\ loop.pc = "apply"
     /\ ~live.superseded
     /\ \/ next = live.at /\ Applied([live EXCEPT !.rescan = FALSE])
        \/ /\ next # live.at
           /\ engine' = [engine EXCEPT ![loop.engine].rescan = TRUE]
           /\ loop' = [loop EXCEPT !.pc = "commit", !.scan = next]
           /\ UNCHANGED projectLock
     /\ UNCHANGED <<disk, queue, shown, store, cached, gate, get, persisting, reader, job,
                    upgrade>>

\* Graph, vectors and manifest change, if the generation is still the active one.
Commit ==
  /\ loop.pc = "commit"
  /\ engine[loop.engine].gen = pointer
  /\ Applied([engine[loop.engine] EXCEPT !.at = loop.scan, !.rescan = FALSE,
                                         !.unsaved = TRUE])
  /\ UNCHANGED <<disk, queue, shown, store, cached, gate, get, persisting, reader, job,
                 upgrade>>

\* Another process activated a generation: reload it once, then give up the attempt.
Superseded ==
  /\ \/ loop.pc = "apply" /\ engine[loop.engine].superseded
     \/ loop.pc = "commit" /\ engine[loop.engine].gen # pointer
  /\ ~loop.reloaded
  /\ engine' = [engine EXCEPT ![loop.engine].superseded = TRUE]
  /\ loop' = [loop EXCEPT !.pc = "engine", !.engine = NoEngine, !.reloaded = TRUE]
  /\ Call(Refresher)
  /\ UNCHANGED <<disk, queue, shown, store, cached, gate, persisting, reader, tasks>>

\* The attempt ends in an error; the lock and the gate are released. It is tried again
\* a limited number of times (refresh_with_retries).
AttemptFails ==
  /\ \/ loop.pc \in {"engine", "apply", "commit"} /\ "turn fails" \in Events
     \/ /\ loop.reloaded
        /\ \/ loop.pc = "apply" /\ engine[loop.engine].superseded
           \/ loop.pc = "commit" /\ engine[loop.engine].gen # pointer
  /\ engine' = IF loop.pc = "commit" /\ engine[loop.engine].gen # pointer
               THEN [engine EXCEPT ![loop.engine].superseded = TRUE] ELSE engine
  /\ loop' = [loop EXCEPT !.engine = NoEngine,
                          !.attempt = IF @ < MaxAttempts THEN @ + 1 ELSE @,
                          !.pc = IF loop.attempt < MaxAttempts THEN "lock" ELSE "give up"]
  /\ gate' = IF gate = Refresher THEN Nobody ELSE gate
  /\ get' = [get EXCEPT ![Refresher] = NoGet]
  /\ projectLock' = "free"
  /\ UNCHANGED <<disk, queue, shown, store, cached, persisting, reader, job, upgrade>>

\* The turn is over: publish, and spawn a persist if it succeeded. `queued` are the
\* signals found in the queue, `failed` makes the next turn compare everything.
TurnOver(queued, failed, inFlight) ==
  /\ loop.pc \in {"publish", "give up"}
  /\ queue' = queue \ queued
  /\ shown' = [shown EXCEPT !.pending = queued # {}, !.inFlight = inFlight,
                            !.error = (loop.pc = "give up")]
  /\ loop' = [loop EXCEPT !.pc = Wake(queued, FALSE), !.failed = failed, !.attempt = 1,
                          !.pending = {PendingPath(signal) : signal \in queued},
                          !.engine = NoEngine, !.scan = Initial, !.reloaded = FALSE]
  /\ persisting' = IF loop.pc = "publish" THEN persisting \cup {loop.engine} ELSE persisting
  /\ UNCHANGED <<disk, store, engine, cached, gate, get, reader, tasks>>

\* Mutants of Publish: signals sent during the turn stay in the queue; a failed turn is
\* still shown as running.
PublishUndrained == TurnOver({}, loop.pc = "give up", FALSE)

PublishRunning == TurnOver(queue, loop.pc = "give up", queue # {} \/ loop.pc = "give up")

\* The queue is drained under the lock of the published state.
Publish == TurnOver(queue, loop.pc = "give up", queue # {})

---------------------------------------------------------------------------
(* spawn_persist                                                           *)

\* LiveIndex::persist: nothing to do, written, or failed with an error shown.
Persist(e) ==
  /\ e \in persisting
  /\ ~StateLocked(e)
  /\ ~engine[e].superseded
  /\ \/ ~engine[e].unsaved /\ UNCHANGED <<saved, engine, shown>>
     \/ /\ engine[e].unsaved
        /\ engine[e].gen = pointer
        /\ saved' = [saved EXCEPT ![pointer] = engine[e].at]
        /\ engine' = [engine EXCEPT ![e].unsaved = FALSE]
        /\ UNCHANGED shown
     \/ /\ engine[e].unsaved
        /\ "persist fails" \in Events
        /\ shown' = [shown EXCEPT !.error = TRUE]
        /\ UNCHANGED <<saved, engine>>
  /\ persisting' = persisting \ {e}
  /\ UNCHANGED <<disk, queue, loop, pointer, external, cached, gate, get, reader, tasks>>

\* Another process activated a generation: it may lack what was applied here.
PersistSuperseded(e) ==
  /\ e \in persisting
  /\ ~StateLocked(e)
  /\ engine[e].superseded \/ (engine[e].unsaved /\ engine[e].gen # pointer)
  /\ engine' = [engine EXCEPT ![e].superseded = TRUE]
  /\ persisting' = persisting \ {e}
  /\ RequestRescan
  /\ UNCHANGED <<disk, loop, store, cached, gate, get, reader, tasks>>

---------------------------------------------------------------------------
(* run_tool: a read.                                                       *)

ReadBegin(r) ==
  /\ reader[r].pc = "idle"
  /\ reader' = [reader EXCEPT ![r].pc = "initial", ![r].start = source]
  /\ Call(r)
  /\ UNCHANGED <<disk, queue, shown, loop, store, engine, cached, gate, persisting, tasks>>

\* get_engine: a generation loaded by a read may lack live changes.
RequestIfLoaded(c) ==
  \/ get[c].pc = "loaded" /\ RequestRescan
  \/ get[c].pc = "hit" /\ NoRequest

ReadEngine(r) ==
  /\ reader[r].pc \in {"initial", "final"}
  /\ Returned(r)
  /\ RequestIfLoaded(r)
  /\ reader' = [reader EXCEPT ![r].engine = get[r].engine,
                              ![r].pc = IF @ = "initial" THEN "wait" ELSE "label"]
  /\ get' = [get EXCEPT ![r] = NoGet]
  /\ UNCHANGED <<disk, loop, store, engine, cached, gate, persisting, tasks>>

\* get_engine again, after a wait that ended fresh and with the sources validated, or
\* not.
ReadFinal(r, checked) ==
  /\ reader' = [reader EXCEPT ![r].pc = "final", ![r].engine = NoEngine,
                              ![r].checked = checked]
  /\ Call(r)

\* wait_until_fresh, first wait. While refreshes are deferred, or after an error, the
\* sources are not validated.
ReadWaited(r) ==
  /\ reader[r].pc = "wait"
  /\ Settled
  /\ \/ /\ shown.waiting \/ shown.error
        /\ ReadFinal(r, FALSE)
     \/ /\ ~shown.waiting /\ ~shown.error
        /\ reader' = [reader EXCEPT ![r].pc = "validate"]
        /\ UNCHANGED get
  /\ UNCHANGED <<disk, queue, shown, loop, store, engine, cached, gate, persisting, tasks>>

\* Mutant of ReadValidates: the sources are not compared.
ReadTrusts(r) ==
  /\ reader[r].pc = "validate"
  /\ reader' = [reader EXCEPT ![r].pc = "wait again"]
  /\ UNCHANGED <<disk, queue, shown, loop, store, cache, tasks>>

\* has_pending_changes of the index loaded first.
ReadValidates(r) ==
  LET live == engine[reader[r].engine]
  IN /\ reader[r].pc = "validate"
     /\ ~StateLocked(reader[r].engine)
     /\ \/ (live.superseded \/ live.at # source) /\ RequestRescan
        \/ ~live.superseded /\ live.at = source /\ NoRequest
     /\ reader' = [reader EXCEPT ![r].pc = "wait again"]
     /\ UNCHANGED <<disk, loop, store, cache, tasks>>

\* The second wait.
ReadWaitedAgain(r) ==
  /\ reader[r].pc = "wait again"
  /\ Settled
  /\ ReadFinal(r, LabelFresh)
  /\ UNCHANGED <<disk, queue, shown, loop, store, engine, cached, gate, persisting, tasks>>

\* The budget is spent in one of the waits, or in the validation, which then requests a
\* comparison and does not wait again.
ReadExpires(r) ==
  /\ "expiry" \in Events
  /\ \/ reader[r].pc \in {"wait", "wait again"} /\ ~Settled /\ NoRequest
     \/ reader[r].pc = "validate" /\ RequestRescan
  /\ ReadFinal(r, FALSE)
  /\ UNCHANGED <<disk, loop, store, engine, cached, gate, persisting, tasks>>

\* current_freshness; the answer and its label are produced.
ReadLabel(r) ==
  /\ reader[r].pc = "label"
  /\ reader' = [reader EXCEPT ![r].pc = "answer", ![r].fresh = LabelFresh]
  /\ UNCHANGED <<disk, queue, shown, loop, store, cache, tasks>>

ReadEnd(r) ==
  /\ reader[r].pc = "answer"
  /\ reader' = [reader EXCEPT ![r] = NoReader]
  /\ UNCHANGED <<disk, queue, shown, loop, store, cache, tasks>>

---------------------------------------------------------------------------
(* run_index_project, under the project lock.                              *)

JobBegin ==
  /\ "jobs" \in Events
  /\ job.pc = "idle"
  /\ projectLock = "free"
  /\ projectLock' = "job"
  /\ job' = [job EXCEPT !.pc = "worker", !.scan = source]
  /\ UNCHANGED <<disk, queue, shown, loop, store, cache, reader, upgrade>>

\* The worker activates a generation, finds nothing to do, or fails.
JobWorker ==
  /\ job.pc = "worker"
  /\ \/ /\ Install(job.scan)
        /\ job' = [NoTask EXCEPT !.pc = "load"]
        /\ UNCHANGED projectLock
     \/ /\ saved[pointer] = job.scan
        /\ job' = [NoTask EXCEPT !.pc = "load"]
        /\ UNCHANGED <<pointer, saved, projectLock>>
     \/ /\ job' = NoTask
        /\ projectLock' = "free"
        /\ UNCHANGED <<pointer, saved>>
  /\ UNCHANGED <<disk, external, queue, shown, loop, cache, reader, upgrade>>

\* refresh_project_engine: load without the gate, or fail ...
JobLoad ==
  /\ job.pc = "load"
  /\ \/ \E e \in Engines : /\ Load(e)
                           /\ job' = [job EXCEPT !.pc = "insert", !.engine = e]
                           /\ UNCHANGED projectLock
     \/ /\ job' = NoTask
        /\ projectLock' = "free"
        /\ UNCHANGED engine
  /\ UNCHANGED <<disk, store, queue, shown, loop, cached, gate, get, persisting, reader,
                 upgrade>>

\* ... and replace whatever is cached, the same generation included.
JobInsert ==
  /\ job.pc = "insert"
  /\ cached' = job.engine
  /\ job' = [NoTask EXCEPT !.pc = "request"]
  /\ UNCHANGED <<disk, store, queue, shown, loop, engine, gate, get, persisting, reader,
                 projectLock, upgrade>>

JobRequest ==
  /\ job.pc = "request"
  /\ RequestRescan
  /\ job' = [NoTask EXCEPT !.pc = "schedule"]
  /\ UNCHANGED <<disk, store, loop, cache, reader, projectLock, upgrade>>

\* A quick index registers its semantic upgrade before it releases the lock.
JobEnd ==
  /\ job.pc = "schedule"
  /\ \/ \E u \in Upgrades : /\ upgrade[u].pc = "idle"
                            /\ upgrade' = [upgrade EXCEPT ![u].pc = "worker",
                                                          ![u].scan = saved[pointer]]
     \/ UNCHANGED upgrade
  /\ job' = NoTask
  /\ projectLock' = "free"
  /\ UNCHANGED <<disk, store, queue, shown, loop, cache, reader>>

---------------------------------------------------------------------------
(* The task of schedule_semantic_upgrade, without the project lock.        *)

\* The detached worker activates a generation with the graph it imported, or fails.
UpgradeWorker(u) ==
  /\ upgrade[u].pc = "worker"
  /\ \/ /\ Install(upgrade[u].scan)
        /\ upgrade' = [upgrade EXCEPT ![u] = [NoTask EXCEPT !.pc = "load"]]
     \/ /\ upgrade' = [upgrade EXCEPT ![u] = [NoTask EXCEPT !.pc = "request"]]
        /\ UNCHANGED <<pointer, saved>>
  /\ UNCHANGED <<disk, external, queue, shown, loop, cache, reader, projectLock, job>>

UpgradeLoad(u) ==
  /\ upgrade[u].pc = "load"
  /\ \/ \E e \in Engines :
          /\ Load(e)
          /\ upgrade' = [upgrade EXCEPT ![u].pc = "insert", ![u].engine = e]
     \/ /\ upgrade' = [upgrade EXCEPT ![u].pc = "request"]     \* the error is ignored
        /\ UNCHANGED engine
  /\ UNCHANGED <<disk, store, queue, shown, loop, cached, gate, get, persisting, reader,
                 projectLock, job>>

UpgradeInsert(u) ==
  /\ upgrade[u].pc = "insert"
  /\ cached' = upgrade[u].engine
  /\ upgrade' = [upgrade EXCEPT ![u] = [NoTask EXCEPT !.pc = "request"]]
  /\ UNCHANGED <<disk, store, queue, shown, loop, engine, gate, get, persisting, reader,
                 projectLock, job>>

\* Mutant of UpgradeEnd: the deferred changes are not asked for.
UpgradeEndSilent(u) ==
  /\ upgrade[u].pc = "request"
  /\ upgrade' = [upgrade EXCEPT ![u] = NoTask]
  /\ UNCHANGED <<disk, queue, shown, store, loop, cache, reader, projectLock, job>>

\* end_semantic_upgrade: the last one wakes the loop.
UpgradeEnd(u) ==
  /\ upgrade[u].pc = "request"
  /\ upgrade' = [upgrade EXCEPT ![u] = NoTask]
  /\ \/ (\A o \in Upgrades \ {u} : upgrade[o].pc = "idle") /\ RequestRescan
     \/ (\E o \in Upgrades \ {u} : upgrade[o].pc # "idle") /\ NoRequest
  /\ UNCHANGED <<disk, store, loop, cache, reader, projectLock, job>>

---------------------------------------------------------------------------

LoopStep ==
  \/ Receive \/ BeginTurn \/ RefreshOnce \/ EngineReady \/ Scan \/ Commit \/ Superseded
  \/ Publish

CacheStep(c) == Lookup(c) \/ PassGate(c) \/ Insert(c)

PersistStep == \E e \in Engines : Persist(e) \/ PersistSuperseded(e)

ReadStep(r) ==
  \/ ReadEngine(r) \/ ReadWaited(r) \/ ReadValidates(r) \/ ReadWaitedAgain(r)
  \/ ReadLabel(r) \/ ReadEnd(r)

JobStep == JobWorker \/ JobLoad \/ JobInsert \/ JobRequest \/ JobEnd

UpgradeStep(u) == UpgradeWorker(u) \/ UpgradeLoad(u) \/ UpgradeInsert(u) \/ UpgradeEnd(u)

\* Tasks run on several threads: any step of another one may come in between.
Next ==
  \/ \E f \in Files : Edit(f)
  \/ Deliver \/ ExternalScan \/ ExternalInstall \/ Evict
  \/ LoopStep \/ AttemptFails \/ CacheStep(Refresher) \/ PersistStep
  \/ \E r \in Readers : ReadBegin(r) \/ CacheStep(r) \/ ReadStep(r) \/ ReadExpires(r)
  \/ JobBegin \/ JobStep
  \/ \E u \in Upgrades : UpgradeStep(u)

Spec == Init /\ [][Next]_vars

\* Tasks run and the watcher delivers; a worker of an index job ends, by its timeout at
\* the latest (index_worker_timeout), that of an upgrade need not. The debounce window
\* is bounded (MAX_DEBOUNCE), and the project lock is granted in order.
Fairness ==
  /\ WF_vars(Deliver)
  /\ WF_vars(Receive) /\ WF_vars(BeginTurn) /\ SF_vars(RefreshOnce)
  /\ WF_vars(EngineReady \/ Scan \/ Commit \/ Superseded \/ Publish)
  /\ WF_vars(PersistStep)
  /\ \A c \in Callers : WF_vars(CacheStep(c))
  /\ \A r \in Readers : WF_vars(ReadStep(r))
  /\ WF_vars(JobStep)
  /\ \A u \in Upgrades : WF_vars(UpgradeLoad(u) \/ UpgradeInsert(u) \/ UpgradeEnd(u))

FairSpec == Spec /\ Fairness

---------------------------------------------------------------------------
(* Properties.                                                             *)

\* Nothing is on its way: no event or signal, no published work or error, and no task
\* between replacing the cached engine and requesting a comparison.
Quiet ==
  /\ undelivered = {} /\ queue = {}
  /\ LabelFresh
  /\ job.pc # "request" /\ ~UpgradeRunning
  /\ \A r \in Readers : get[r].pc # "loaded"

\* No change is forgotten (freshness.rs run_refresh_loop: a failed turn is followed by
\* a full comparison; apply_paths: so is a load): once nothing is on its way, the cached
\* index of the active generation is that of the sources.
NothingForgotten == Quiet /\ IsCached(pointer) => engine[cached].at = source

\* No publication hides a request (freshness.rs request_rescan, which signals and marks
\* under one lock): while a full comparison is requested, no read is labelled fresh.
RequestsAreShown == Root \in queue \cup loop.pending => ~LabelFresh

\* SemanticUpgradeKind::QuickIndex: no change is applied while a quick index is being
\* upgraded, whichever of index job and refresh gets the project lock first.
NoTurnDuringUpgrade == loop.pc \in {"engine", "apply", "commit"} => ~UpgradeRunning

\* A read that is answered reflects every edit made before it began.
Reflects(r) ==
  \A f \in Files : engine[reader[r].engine].at[f] >= reader[r].start[f]

\* A read that was validated, whose wait ended fresh and that is then labelled fresh
\* reflects every edit made before it began, delivered by the watcher or not (server.rs
\* wait_until_fresh).
FreshReads ==
  \A r \in Readers :
    reader[r].pc = "answer" /\ reader[r].fresh /\ reader[r].checked => Reflects(r)

\* Whoever has put an engine into the cache goes on to ask for a full comparison.
WillRequest ==
  job.pc = "request" \/ UpgradeRunning \/ \E r \in Readers : get[r].pc = "loaded"

\* The same when the read would be labelled fresh, as long as its index is still the
\* cached one and nobody is about to ask for the comparison of an index put there.
FreshLabels ==
  \A r \in Readers :
    /\ reader[r].pc = "label" /\ reader[r].checked
    /\ LabelFresh /\ reader[r].engine = cached /\ ~WillRequest
    => Reflects(r)

\* Once edits end, the cached index of the active generation comes to reflect them and
\* stays so, unless the published state says that a refresh failed; refreshes deferred
\* for an upgrade are not forgotten when it ends (server.rs end_semantic_upgrade).
ChangesServed ==
  <>[](\/ shown.error \/ UpgradeRunning
       \/ (IsCached(pointer) => engine[cached].at = source))

\* A read is answered even without its time limit: neither the loop nor a lock, the load
\* gate, a deferral or a failed turn keeps it waiting for ever.
ReadsAnswered ==
  \A r \in Readers : reader[r].pc = "initial" ~> reader[r].pc = "answer"

=============================================================================
