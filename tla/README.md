# A verification project for CCM (Cognitive Codebase Matrix)

CCM indexes a code base into a graph and a vector table and serves queries over it to coding
agents (an MCP server) and to a command line. The index is kept current while files are edited.
This directory holds TLA+ models of the parts of CCM whose correctness depends on the order of
steps of several actors, the TLC runs that check them on small instances, and TLAPS proofs of
what matters most.

`tlc -config X.cfg M` checks a run of `PROJECT.json`; `tlapm M.tla` checks the proofs of a module.

## 1. The system

| Component | Code | State | Operations | Hard part | Correct when |
|---|---|---|---|---|---|
| Generation store | `core/src/lib.rs` | `.ccm-generations/<id>[.staging]`, `ccm_current`, the flock | full index, incremental update, semantic upgrade, install, cleanup | several processes; failures and kills between any two steps | the served generation is complete; an activation never silently undoes another |
| Manifest and stat cache | `core/src/lib.rs` | fingerprints, `indexed_at` | full walk, targeted scan, diff, restore of retry files | edits during the walk, coarse timestamps | a hash reused unread is right |
| Live index | `core/src/live.rs`, `engine.rs`, `vector/store.rs` | graph and manifest in memory, vector table on disk, dirty files | load, apply, persist, supersede | half-done writes, persists beside other processes, reload | nothing pending means the answers are those of the disk |
| Code graph and resolution | `core/src/graph/*`, `engine.rs` | nodes, edges, three indexes | swap the graphs of changed files, resolve references, refresh edges; lookups, usages, impact, call chains, map | nodes move when others go; an edit of one file changes edges of others | an update leaves what a rebuild would build; the tools agree with each other |
| Freshness loop | `mcp/src/freshness.rs` | pending set, signal queue, published state | watcher signals, turns with retries, deferral, persist | lost or late signals, failed turns | a read labelled fresh is fresh; no change is forgotten |
| Engine cache, project locks | `mcp/src/server.rs` | LRU of live indexes, lock map, upgrade counters | load once, replace, evict, release lock | reads beside reloads | one live index per generation, one indexer per project |
| Index jobs | `mcp/src/tools.rs`, `server.rs` | job map, watch channels | claim, run worker, poll, retain | pollers, cancellation, retention | one job per project, no result lost between the map and the response |
| Dispatcher | `mcp/src/dispatch.rs`, `main.rs` | in-flight requests, outbox, permits | dispatch, cancel, deliver, drain | cancel against completion, full outbox, end of input | one answer per request, none only after a cancellation |
| Local model files | `core/src/vector/local_model.rs`, `local.rs` | model files, `.part` files | download, verify, move into place, clean up, load | processes that share the directory, kills, a sleeping machine, files the user places | only pinned content is loaded; nothing of others is destroyed |
| Binary cache of the npm wrapper | `npm/bin/ccm.js` | binary, sidecar hash, lock file | verify, download, finalize, run | wrappers started at once, a stale lock | only verified content is run |
| Host configuration | `npm/bin/ccm.js` | an editor's configuration file, backups | read, back up, rewrite, rename | overlapping installs, user edits, kills | whatever is replaced is backed up |
| Policies and their evaluation | `core/src/policy/*`, `optimize.rs`, `eval.rs` | policy store | search, gate, promote, save | versions that repeat, a kill while saving | only a proven policy is active |
| Vector store, embedders, ranking | `core/src/vector/*`, `engine/hybrid.rs`, `engine/propagation.rs` | LanceDB table, a handle on it in every process, the model a generation is embedded with | chunk, reuse vectors, embed, delete, write, rank | stale handles, partial writes, changes of the model | a row's vector is that of its text; no remains of older contents; models do not mix |
| Parsing, command line, retrieval measurement, benchmarks | `parser/*`, `vector/extractor.rs`, `cli`, `retrieval_eval.rs` | - | - | - | data, numerics or I/O |

The parts meet on disk and in the server process. CLI and server workers build generations under
the store's protocol. The server loads the active generation as a live index and changes its
vector table in place; the freshness loop drives the live index from watcher signals; queries read
through the engine cache. `install_staged_generation`, the copy of the vector table and a live
commit or persist exclude each other through one flock per index directory; everything else
(scanning, parsing, embedding, reading the active manifest and graph) runs without it.

The npm wrapper downloads and runs the binary, and `ccm install` registers it with editors; model
files and policies are read by whatever process needs them.

The hazards found in this code, each at its line, are listed in `PROJECT.json` with the property
that would catch it.

## 2. Modules

| Module | Models |
|---|---|
| `GenerationStore` | the store, its lock, pointer and directories, and any number of concurrent runs |
| `AtomicIndex` | what the store promises a reader; `GenerationStore` implements it |
| `StatCache` | fingerprints, scans and timestamps, edits racing them |
| `LiveIndex` | servers with live indexes of one project beside external runs |
| `VectorTable` | the rows of one generation's vector table, and the servers that replace those of changed files |
| `Freshness` | one project in the MCP server: refresh loop, engine cache, reads, index jobs, semantic upgrades |
| `Dispatcher` | a stdio session: read loop, workers, deliveries, permits, outbox, writer |
| `IndexJobs` | the job map, job tasks, project locks, calls of `index_now` and `index_project` |
| `Server` | `Dispatcher` and `IndexJobs` composed: a worker's poll runs the call of its tool |
| `RequestPort` | what a session promises its client; `Server` implements it |
| `NodeIndexes`, `NodeTable` | the graph's node table with its indexes: operators, and the table on its own |
| `CodeNodes`, `PythonResolver`, `RustResolver` | what the resolvers read of a node, and how its facts become edges |
| `FileGraphs`, `FileSwaps` | a graph as the files it is made of: what comes and goes with a file; what an index and an update owe to the files, whatever refers to what |
| `CodeGraph` | updates and the refresh of reference edges, built from the six above; it implements `FileSwaps` |
| `GraphReaders` | the tools that read the graph at once: lookups, names, the map, contexts |
| `GraphWalks`, `GraphSearches` | edges, usages and what lies how far away; the two searches, turn by turn |
| `ModelFiles` | processes that download, place, clean up and load the model files |
| `BinaryCache` | wrappers that verify, download, finalize and run the binary |
| `HostConfigs` | installers that rewrite one configuration file, and a user who edits it |
| `PromotionGate`, `PolicyLearning` | what decides on a policy; the search, evaluation by evaluation, the policy store and its commands |
| `*Proofs` | theorems: about the module of their name, `GenerationStoreProofs` also about `AtomicIndex`, `GenerationFilesProofs` about `StatCache` and `VectorTable`, `CodeGraphProofs` about `NodeTable`, `GraphSearches`, `FileSwaps` and `GraphReaders`, `InstallerProofs` about `BinaryCache`, `HostConfigs` and `ModelFiles` |
| `MC*` | instances, symmetry; `MCCode` and `MCLearning` the code and the tasks that runs work on; `MCParts` the components that share no state, side by side |

### GenerationStore

One action per step of a run that another process can observe. `pc[p]` names the place in the
code: `StartFull`, `StartUpdate`, `StartUpgrade` the entry points; `ScanSources`, `ReadActive`,
`ReadExpected`, `ImportActive`, `CopyTable` what is read from sources and from the active
generation, and when; `WriteTable`, `WriteGraph`, `WriteManifest` the artifacts appearing in the
staging directory; `AcquireLock`, `Verify`, `Rename`, `SwapPointer`, `Cleanup` the body of
`install_staged_generation`, with `FailBuild`, `FailSwap`, `SkipCleanup` its error paths and
`Crash` a killed process, whose flock the operating system releases. `older` is the order of the
directories' modification times, the only thing `cleanup_generations` goes by.

A live server replaces graph and manifest of the active generation in place, without moving the
pointer: `LivePersistBegin` writes temporary files into its directory, `LivePersistEnd` renames them
under the lock (`Persisted`) or gives up (`NotPersisted`). `live` is the persist under way, one at a
time. The server has kept up with the sources to some state since its generation was built; which
one, and what happens between the two renames, is the matter of `LiveIndex`.

Contents are abstracted to the source state recorded in the manifest (`snapshot`) and the
generation the graph was derived from (`basis`). `built` is history: the state that the run recorded
which installed the generation, whatever persists have made of it since. `AtomicIndex` has both as
`served` and `installed`: a persist is a `Refresh`; an `Activate` never goes back before `installed`
(but for an upgrade), yet may undo a refresh, since a run that scanned before it passes the pointer check. The manifest's schema, embedding identity and
the health of the vector table only decide which kind of run happens; that is a nondeterministic
choice in `ReadActive`.

### StatCache

Time is in seconds. Contents have equal size, so that only the modification time can give an edit
away. A write at time t gets a stamp of the current granule. A scan reads the clock, then visits
files one at a time; hashing is split into stat and read. `racy_reuse_boundary`, `Reusable`,
`Merged`, `Timestamp` and `FinishScan` follow the functions of the code. `WindowAssumption`
states what the constant `RACY_WINDOW_SECS = 2` relies on: a granule of at most three seconds.

### LiveIndex

`server[s]` is the `LiveIndex` object with its `LiveState`; `job[s]` the changes an apply carries
from the scan to the commit; `save[s]` the snapshot a persist carries. Steps under the state lock
of the code exclude each other through `server[s].pc`; steps under the flock test `lock`. The
content of a file is a version number that stands for the whole fingerprint (seconds, nanoseconds,
size, hash): a file put back has a new version, since it has a new modification time, unless
`RestoresTimes` lets an edit restore an earlier one with its time. `external` is one external
run, full or incremental, reduced to its reads and its activation (`GenerationStore` has the
rest). A generation directory is never removed here. Writing the rows of a file is modelled with
its three results: new rows, no rows (embedding unavailable, off, or of another model), or a part
of them (`CommitFails`). Opening the vector table is taken to succeed: its handle is cached by
the reads before it. `VectorTable` has what happens when it does not.

### VectorTable

A row is a chunk (file, position, text) with its vector; a vector is the text it was computed from and
the model that computed it. `server[s]` has the store's cached handle (`open`, `seen`: the version it
shows), what the live state knows of models (`config`, `identity`, `mismatch`, `unsaved`) and the turn
in progress. `Prepare` is `prepare_file_changes` with `embed_prepared`: known vectors are read through
the old handle (`KnownVectors`), the rest is embedded as a list and counted off (`VectorFor`, over
`Rank` and `Fresh`). `BeginCommit` takes the activation lock and moves the handle on (`CheckedOut`);
`DeleteRows` deletes file by file, on the version the handle shows; `WriteChunks` writes any batch of
what is left; `EndCommit` records the model (`WrittenIdentity`), which `Persist` puts into the manifest.
`DeleteUnopened` is the delete that fails to open the table and counts as done. A turn takes any files
with any of the contents in `Turns`; `LiveIndex` decides which. A superseded turn is one that fails.
Models have vectors of one size, so that the table takes them all. Left out: fixture mode, a
configuration that cannot be resolved, and the splitting of a symbol's text into chunks.
`settled`, `halfway`, `unopened` and `identified` are history for the properties.

### Freshness

The tasks of one server that meet over one project, and what they share:

- `shown` is the watch channel of the `FreshnessHandle`, `queue` its signals. `RequestRescan`
  signals and marks in one step, as `request_rescan` does under the channel's lock, and `Publish`
  drains the queue in one step, under the same lock. The published number of pending paths is
  reduced to whether there are any.
- `loop` is `run_refresh_loop` with its locals: `Receive` (wait and debounce), `BeginTurn` (defer or
  start), `RefreshOnce` (project lock, second look at the upgrades), `EngineReady`, `Scan`,
  `Commit`, `Superseded` (reload once), `AttemptFails` (retries), `Publish` (with the spawned
  persist).
- `engine` are the live indexes in memory, each held by the cache or by tasks (`Held`, the `Arc`s),
  and `get[c]` a call of `cached_project_engine`: look-up, load gate, insertion. `LiveIndex` has
  the inside of an apply and of a persist; here an apply is `Scan` and `Commit`, a persist one step.
- `reader[r]` is `run_tool` for a read: first engine, first wait, validation, second wait, second
  engine, label. `start` remembers what was on disk when it began.
- `job` is `run_index_project` under the project lock; `upgrade[u]` the task of
  `schedule_semantic_upgrade`, which runs without it. Both end in `refresh_project_engine`, which
  bypasses the gate and replaces whatever is cached.
- `pointer`, `saved` and `external` are the store, reduced to what each generation reflects, and
  another process that activates generations.

The server runs on tokio's multi-threaded runtime: any step of another task may come between two
steps of a task, also where no await separates them. `checked` of a read remembers whether its wait
ended fresh, with the sources validated.

Left out: the watcher's filter, a removed index, the migration of an old schema, upgrades after a
change of the embedding model, other projects (but for eviction), a validation that fails with an
error (the read is then answered with the error).

### Dispatcher, IndexJobs, Server, RequestPort

A request goes through `reader` (the read loop: `Receive`, `CancelRequest`, `SendInline`, end of
input, `Drained`), `worker[r]` (spawned, polled, waiting for a permit or for its call, done, panicked,
aborted) and `delivery[r]` (response built, waiting for room, sent). The read loop ends at the end of input, when
the writer stops, or when reading fails (`ReadFails`). `in_flight` is the registry: id
to request, with the sequence number by which an older request with the same id leaves a newer
entry alone. `outbox` is the bounded channel, `writer` the task that writes to stdout and may fail.

A task on the multi-threaded runtime is aborted where it waits, not while it is polled. So a call of
`IndexJobs` runs step by step inside `polled`, and `AbortRequest` needs `waiting`. `index_jobs` is the
job map, `job[j]` a job with its result, `project_locks` the lock map: which mutex a project's
entry holds, who has clones of it, and `release_index_lock`, which drops the entry when nobody else
has one. The refresh loop takes the same lock (`Refreshed`). `lost` are the results whose retention ended.

`RequestPort` has `Ask`, `Cancel`, `Respond`, `Withdraw`: a request is answered at most once, and ends
without an answer only after a cancellation that came while it was open.

### NodeIndexes, NodeTable, FileGraphs, FileSwaps, CodeGraph, GraphSearches

A graph is a record of nodes by position, edges and the three indexes; `remove_indexed_node` moves
the last node into the hole as petgraph does and rewrites the entries of two nodes only. A node has
the facts that the extractor found (calls, imports, bases, names), the line range and what its text
tells the resolvers; source text does not exist here.

`FileGraphs` has the two halves of a file's replacement: `remove_file_nodes` (what the file contains,
highest position first) and `append_graph`; `Assembled` and `Swapped` do so file by file, in an order that
the code leaves open. A staged graph is the list of a file's nodes as the extractor walks them, with each
one's owner. `FileSwaps` says what an index and an update owe to the files and leaves the reference
edges open: any edges between the graph's nodes (`Refers`). It takes any projects; the named
assumption `StagedGraphs` is what the extractor guarantees of each version of a file (`IsStaged`: a tree, the
file first, lines within the owner's, identifiers unique; `OwnIdentifiers`: they begin with the file's path).

`CodeGraph` resolves the references. In an update the staged graphs of the changed files are swapped
in, the sources they can reach are collected and resolved again. The run checks that this implements
`FileSwaps` (`SwapsFiles`). `UpdateIsRebuild` adds that it leaves what a full index of the files leaves
(`FullIndex`: all files appended and everything resolved), as long as no update was `redirected`: made a
name that it does not list as affected lead elsewhere for a file it left alone (`Redirects`, by what an
import of the name finds and by the bases of classes). `RefreshIsRebuild` is the same without this condition,
as the code's comment has it; a run refutes it.
`PythonResolver` has module paths, re-exports, classes with their bases, self and super, imports and
aliases; `RustResolver` crates, modules, `use`, impls and traits. Names of lexical languages are
resolved by the identifiers a file mentions.

`GraphReaders` has the lookups by line, `symbols_named`, the names the map prints, and the contexts of
a diff and of a cursor. A name that reads like a file's path is that file (`file_named`). Their text output is left out. It reads a graph of `FileSwaps`, so that its
properties are about any project. Definitions over a line need not be nested: two that abut share one.
An enum that ends where a longer function begins is then the element at the cursor and the function its
scope, so `LineLookupsAgree` asks the element to be part of the scope only where they are nested.

`GraphSearches` runs `trace_call_chain` and `impact_of_change` under the read lock, one action per turn of
a loop: the queue, the visited set, the parents and the results are the code's variables, and the edges of
a node come in any order, as petgraph leaves it. `FollowUse` may end the inner loop when the limit is met,
and the outer loop ends at its next turn (`Report`). What the searches should find is said with `Reached`, the
sets of what lies within n steps, which the code does not have.

### ModelFiles, BinaryCache, HostConfigs

`ModelFiles`: one step per file-system call of `download_missing_files` and of the load after it. A
`.part` file is named by process, run, file and attempt; `AgePart` lets one look a day old.
`PlaceFile` is the user. `BinaryCache`: one step per system call of the wrapper on a shared path,
`wx` creation of the lock and the write of the pid apart, as are a test for a file and its read or removal
(`FindSidecar`, `ReadSidecar`; `ForgetSidecar`, `UnlinkSidecar`). A lost lock, a kill anywhere and a bypass
of the check are included. `HostConfigs`: the backup in its steps (look for a first one, compare,
copy), then the replacement, for each of the four ways to install: JSON and TOML files, the skill,
and the commands of Claude Code. A content is the user's version and whether an installer rewrote
it; some versions cannot be parsed.

### PromotionGate, PolicyLearning

A task has the files a search finds and those expected, a policy its parameters in integer
percentages. `evaluate_policy` gives recall and tokens; split, `sign_test_k` and the gate are those of
the code. A binomial probability is a count: the outcomes of n fair trials are the subsets of `1 .. n`.

`Optimize` begins a command; then every evaluation is a step, as a command may be killed at any:
`RankCandidate` evaluates the next of the 52 candidates and ranks it among the three starts, `NextStart`,
`NextRound` and `TryVariant` are the loops of the climbs, `EndClimb` keeps the better of a climb's end and
the best so far, `EndSearch` asks the gate about the winner. The limit on evaluations cuts grid and climbs
as in the code. Commands run on corpora in turn; the store is saved in two steps.

## 3. Runs

| Run | Instance | Shows |
|---|---|---|
| `store` | 2 runs of all kinds, live persists, 3 generation ids, 2 source states, 1 kill | `ActiveIsComplete`, `IndexRunsUndoNothing`, that the store implements `AtomicIndex`, and the proofs' invariant `StoreInv` |
| `lost_activation` | full and upgrade | `ActivatedOverItsBasis` violated by an upgrade (finding) |
| `live` | 1 file, 1 server, both external kinds, 2 edits, 2 generations, 1 crash, 1 torn persist | `AnswersMatchDisk`, `VectorsMatchDisk`, `RowsMatchGraph` |
| `served` | jobs for ever, 2 overlapping upgrades, evictions, fairness | `NoTurnDuringUpgrade`, `ChangesServed` |
| `answered` | 1 read that may expire, another process, lost events, failing turns and persists, fairness | `FreshLabels`, `RequestsAreShown`, `NothingForgotten`, `ReadsAnswered` |
| `parallel_reads` | 2 reads, another process | `FreshReads` violated (finding) |
| `server` | 2 requests that share an id, all uses, 1 cancellation, 1 project with its refresh loop, 2 jobs but room for 1 in the map, outbox of 1, 2 permits | one response per request (`ImplementsRequestPort`, `AnsweredWhenEnded`, `CancellableWhileRunning`), one indexer (`OneIndexerPerProject`), no job or result forgotten (`RunningJobsAreRegistered`, `ResultsReachTheClient`), no permit or registry entry left behind (`NothingLeaks`) |
| `requests_end` | 2 calls of `index_now` on 2 projects, 1 permit, outbox of 1, 1 inline response, fairness | `RequestsEnd`, `SessionsEnd` |
| `parts` | one component per behaviour, see below | the properties of the parts |
| `refreshed` | a Python project whose modules come and go, 1 update of 1 file | `RefreshIsRebuild` violated (finding) |
| `finalizers` | 2 wrappers, 1 kill | `FinalizersSucceed` violated (finding) |
| `unproven` | 4 corpora, 3 learning runs, 1 kill | `OnlyProvenIsActive` violated (finding) |

`parts` runs, depending on `part`:

| Part | Instance | Properties |
|---|---|---|
| `cache` | 1 file, 2 contents, window 1, granule 2, clock to 4 | `NoMissedEdit` |
| `code` | a lexical, a Python and a Rust project and one whose Python modules come and go, 2 updates of up to 2 files among two or three versions of each (`MaxVersions` 3, one of them often the file gone) | `SwapsFiles`, `UpdateIsRebuild`, `LineLookupsAgree`, `PrintedNamesResolve` |
| `search` | 72 graphs of 7 nodes with cycles, shortcuts and uses of every kind, old identifiers, call chains of at most 0, 2 or 4 calls, limits 0, 2 and 9 | `CallChainsAreShortest`, `ImpactIsNearestFirst` |
| `table` | 3 identifiers, 2 names, 2 files | `TableIndexed` |
| `model` | 2 processes, 2 files, 2 loads of 2 attempts, 1 file of the user | `PinnedOnly`, `LivePartsKept`, `UserFilesKept` |
| `binary` | 2 wrappers, 1 kill | `OnlyVerifiedRuns`, `FinalizedIsUsable` |
| `host` | 2 installers, 2 installs, 2 user edits | `ReplacedIsBackedUp` |
| `learn` | 4 corpora, limits of 5 evaluations (within the grid) and 60 (within the climbs), 3 learning runs, 1 kill | `WinnerIsBest` |
| `vectors` | 2 servers with any of 2 models or none, 2 files whose texts move between them, built with or without vectors, 2 commits, 1 crash, failing writes and opens | `VectorsFitTexts`, `TableIsWhole`, `OneModel` |

Why the bounds are enough. Three generation ids: one active, one retained or orphaned, one being
built; an id is free again once no directory and no run holds it, so behaviours are not cut short.
Two runs: every race in the store is between two holders of the same pointer value. The window 1
with granule 2 is the sharpest pair `WindowAssumption` allows, and a clock of 4 leaves it behind;
files of the stat cache meet only in the timestamp, and the proof covers any number of them. One
file per live index: `Override`, `Differ` and `Restored` act file by file, and no property relates
two files. Two edits separate scanned, parsed and present content. In `Freshness` one file is enough
unless a turn is limited to one path while another changes, which the proofs, for any number of files,
cover. Two commits of the vector table: one whose rows the other must find through its older handle;
three chunks, so that a reused vector comes before fresh ones. `MaxEngines` exceeds what tasks can hold in the instance or only delays a load. Two attempts
stand for three: what matters is that there is a last one. Two requests of one id are all that
share a registry entry at a time; one place in outbox and job map is the full one, and two jobs follow
each other on one project. Two updates: one that breaks what the other left. Two processes race for
every shared path. All runs turn deadlock checking off: the bounded environment (no edit, id or
request left) may legitimately end a behaviour. Symmetries swap ids; runs of liveness properties
use none.

### Fairness

`served` and `answered` assume that the tokio tasks run, the watcher delivers, the debounce window
closes (`MAX_DEBOUNCE`), and an index worker ends (`index_worker_timeout` kills it). The project lock is
a fair tokio mutex, so the loop gets it although jobs take it again and again: strong fairness of
`RefreshOnce`. Nothing forces edits, activations, failures, new reads or new jobs, nor the end of an
upgrade's worker, which has no time limit. `answered` excludes index jobs: a read without a time limit
may starve while jobs request comparisons for ever; the code's limit of two seconds ends such a wait.
Reads may expire in `answered`, but need not.

`requests_end` assumes weak fairness of every task of the session and of the jobs, and that the
client reads what is written. Nothing forces the client to send, cancel or close, nor a timeout to
strike. Weak fairness is enough: the requests that compete for permits, room and locks are finitely many.

## 4. What the findings say

`PROJECT.json` quotes the line each one contradicts.

- `lost_activation`: a semantic upgrade resolves the active generation and reads the pointer again
  afterwards; an activation in between is overwritten. Full and incremental runs do not have this
  gap (`IndexRunsUndoNothing`, proved).
- `parallel_reads`: the insertion of a loaded generation and the request to compare it are two steps;
  a read on another thread may come between them and call the generation fresh. `FreshLabels`, which
  holds, says what the label is worth: it is right while the index read is the cached one and nobody
  still has to ask for the comparison of an index put there.
- `refreshed`: which files an import path stands for depends on the files there are, and the update looks at
  names only. When an empty `tool.py` appears at the root, `from tool import run` of a file that did not change
  keeps its edge to the `run` of `src/tool.py`, where a full index looks in the new file alone. The same
  happens when such a file or an `__init__.py` goes, when a module begins to pass everything on
  (`from x import *`), or when that redirects the base of a class. `UpdateIsRebuild`, which holds, says that
  nothing else makes an update differ from a rebuild.
- `finalizers`: the lock file exists before its pid is in it; a reader takes the empty file for a dead
  owner's and removes it. The repository's test runs both finalizers in one process, where nothing comes
  between the two calls. What is run stays verified (`OnlyVerifiedRuns`, proved without the lock).
- `unproven`: versions of candidates restart at every run, and the store ignores a version it has; a
  policy that was rejected on one corpus is activated when its number wins on another.

The models show more that no run keeps, because the property is minor, or promised nowhere:

- store: an incremental or a full run that scanned before a live persist passes the pointer check and
  replaces the newer graph and manifest that the persist left in the generation; the index served is the
  older one until a server reloads and compares. It never goes back before what the generation was
  installed with (`ImplementsAtomicIndex`);
- live index: the fingerprint belongs to the scan, the graph to the later parse. A file that changes in
  between is compared again, put back or not, since its modification time is another, and `live` shows that
  this repairs itself. Only a file put back together with its modification time goes unnoticed
  (`RestoresTimes`);
- store: cleanup keeps the most recently modified other directory, which can be the orphan of a failed
  swap rather than the generation that queries were reading (`older`, `Retained`);
- `StatCache` stamps every edit with its time. A tool that restores the modification time of a file of
  the same size goes unnoticed outside the racy window, although README.md:392 promises otherwise;
- a graph can be ahead of the manifest for a file the manifest does not know (a file that appears
  between scan and parse, a persist torn between its renames). If it exists it is applied again; once
  it is deleted, nothing removes its nodes: `AnswersMatchDisk` speaks of files that exist;
- an index without a recorded model suits every remote model (embedder.rs:366). Over a generation
  activated without vectors, two servers, or one before and after a restart, each add the vectors of
  its own model; README.md:289 says "vectors of two models are never mixed". `OneModel` holds for a
  generation built with a recorded model that every server compared with its own;
- `delete_by_prefix` takes any failure to open the table for a missing table (store.rs:803), the case
  `vectors_for_file` tells apart (store.rs:744-746): the turn counts as done, the file's old rows stay
  and new ones are added until a later turn of the file. `TableIsWhole` excepts such files (`unopened`);
- with two servers of one project (`Servers`) each overwrites the other's persisted graph, and
  `AnswersMatchDisk` no longer holds;
- the label of a read comes from the state after the wait, so a read whose wait expired or met an error
  can still be labelled fresh when a turn ends just then. `FreshReads` is about the other reads;
- a cancellation accepted after the worker has completed does not stop the response, although
  dispatch.rs and protocol_test.rs:222-225 describe the request as cancelled. `RequestPort` allows it;
- with 64 jobs in the map a new claim is rejected; `index_now` may return the retained result of an
  earlier job, as documented;
- a `.part` file whose model file was installed meanwhile is never cleaned up;
- configurations: an edit between an installer's read and its rename is lost; the backup is named by
  what was read but copies what is there, and one torn by a kill is later taken for complete;
  `claude mcp remove` followed by a failing add loses the entry without a backup;
- `sign_test_k` returns n for n up to 4 although no such count is significant: improving all of four
  changed tasks passes the gate. It also accepts equal mean tokens where its doc asks for fewer;
- members that are modules, enums or traits are printed with their owner but not found under that
  name; one whose printed name is also a file's path (`tool.py`, member `py` of a class `tool`, beside a
  file of that name) stands for the file, which `PrintedNamesResolve` excepts; a fuzzy match of identifiers can make a call chain answer for another symbol; the prediction
  context lists a neighbour once per edge.

## 5. Proofs

For every value of the constants, under the named assumptions of the modules. Liveness and `ENABLED` are
out of the prover's reach and stay with TLC. The library's induction rules take an operator, which the
provers cannot instantiate; `CodeGraphProofs` and `PolicyLearningProofs` have the rule for sets of numbers instead (`Induction`), from the
well-founded order on Nat, and with it what a recursive function on Nat is (`ReachedIs`).

Generation store:

- `StoreInvariant`: `Spec => []StoreInv`. `ActiveIsComplete` alone is not inductive: that `Rename`
  and `SwapPointer` may rely on what `Verify` saw needs the lock (`LockDiscipline`: a run inside a
  critical section holds it), that no other run writes or renames this directory (`Ownership`),
  that a directory has one name (`OneName`), and that the checked facts persist
  (`Installation`). `TypeCorrect` and `NeverHalfBuilt` follow from it.
- `HistoryInvariant` says where the contents of a generation come from: an index run derives from
  nothing or from what it expects to replace (`Derived`), the manifest it wrote is its own (`Recorded`),
  what it expects to replace was installed with nothing newer than its scan (`Current`), no run writes into
  a generation that another has read from the pointer (`Settled`), and a live index that is being persisted
  has reached at least what its generation was built from (`Persisting`).
- From both: `UndoNothing` (`IndexRunsUndoNothing`) and `StoreIsAtomicIndex`, the refinement of
  `AtomicIndex`. Only `SwapPointer` is an `Activate`; any other step of a run is a `Turn`, because no run
  writes into the generation the pointer names; `LivePersistEnd` is a `Refresh`.

Stat cache: `CacheInvariant`, whose core `Honest` says that a fingerprint that looks current and is wrong
belongs to an edit after the scan started, so its time is less than a granule older;
`NoEditIsMissed` by `WindowAssumption`, which puts such an entry inside the racy window.

Freshness:

- `TypeCorrect`: `TypeOK` alone is not inductive, since a call of `cached_project_engine` that returns,
  and the loop from its apply on, use an engine that must exist (`EnginesHeld`).
- `NoChangeDuringUpgrade` along `TurnsExclude`: a turn holds the project lock from `RefreshOnce`, which
  looked for upgrades with the lock, and an index job holds it until it has registered its upgrade.
- `NoHiddenRequest`: a request marks the published state under the same lock that it is sent under,
  and the end of a turn, which removes the mark, publishes whether the queue it drains had signals.
- `NoChangeForgotten` (`NothingForgotten`) from `KeptInv`. `NotForgotten`: a file whose cached version is not
  the source's is announced (undelivered, or in the queue as itself, as the root or as a loss), in a turn
  that will scan it, or about to be asked for by whoever put the index into the cache (`Handled`).
  `Scanned` relates what a turn has compared to edits since; `LoopState` that a turn that fails leaves
  the flag for a full comparison; `Generations` that a superseded index is reported.
- `FreshLabelsHold` (`FreshLabels`). `PastOnly`: no index, scan or generation is ahead of the sources.
  `ReadsServed`: from its start until its label a read is owed a full comparison whose end it waits for
  (`WillValidate`, `Compared`), or the cached index has everything that was there when it began.

Live index, along two invariants; types and marks also for several servers and for edits that restore
modification times, the rest for one server (`OneServer`) and `RestoresTimes = FALSE`, as the run `live` has it:

- `MarkInv`: where a server is between lock, commit and persist (`Phase`), and that the rows of a file not
  marked dirty are those of its graph (`Marked`): `MarksAreComplete`.
- `FaithInv`: whatever recorded a fingerprint is shown by whatever was written after it. `Shows` and
  `ShowsRows` say so of one graph, one table and one manifest, and hold of the pair on disk, in memory,
  in a snapshot being persisted, in an apply in progress and in an external run: `AnswersAreCurrent`,
  `RowsAreCurrent`. The notes on restored times and on two servers in section 4 say why neither assumption
  can be dropped.

Vector table:

- `VectorsAreOfTheirTexts` (`VectorsFitTexts`): ranks number the chunks of a turn (`RankOrders`,
  `RankNumbers`), so the vector counted off for a chunk is the one it was asked for (`EmbeddedFits`); rows
  only come from batches, handles from the table, known vectors from handles (`Flow`).
- `OneModelPerTable` (`OneModel`) from `ModelInvariant`: while the table has a recorded model that every server
  compared, whoever may embed or search has that model.
- `TableStaysWhole` (`TableIsWhole`) from `CommitInvariant`: the server in its commit sees the table as it is,
  writes only after it has deleted, and of a file it has cleared the table holds what was written of the
  batch (`Committing`); no two chunks of a batch share a place (`Whole`).

Server:

- `JobsInvariant`. `Locking`: whoever has a clone of a project's mutex has the one in the map, because
  the entry is dropped only when nobody else has a clone. Counting clones needs finitely many projects.
  With `Registry` (a job that runs is the one in the map): `JobsExclude`, `JobsAreRegistered`.
- `SessionInvariant`. `Course` says where a request is between worker, delivery, outbox and client,
  `Once` that no response is queued twice, `Registration` and `Order` which request an id finds:
  `RunningCanBeCancelled`, `AllAnswered`, and `RefinesPort`, the refinement of `RequestPort`.
- `TypeCorrect` (`TypeOK` of `Server`, which no run repeats): frames of the reader are bounded only while it
  sends (`Sending`).
- `ResultsAreDelivered` along `Taken`: a call that has taken a result is past its last wait.
- `NothingIsLeaked` (`NothingLeaks`) from `PermitsInv`: permits are held by exactly the calls of tools between
  first poll and end, so that an abort, a panic and a return each give back one; an entry of the registry
  is that of the latest request with its id, whose delivery removes it.

Code graph:

- `IndexesAreRebuilt` (`NodeTable`): the table is the one built from its nodes, identifiers are unique. One
  lemma per index operation, about keys by position, serves names and files.
- `CallChains` (`CallChainsAreShortest`) and `Impacts` (`ImpactIsNearestFirst`), in any graph, rest on the same two
  facts. `Frontier`: all within the depth of the last visit are known, and what waits is that far away or
  one step more, the nearer first. `Explored`: what is known and no longer waits has been followed to what
  is known or pending, unless it is at the bound. So the head of the queue is the nearest that waits
  (`FrontierTake`), a node found from it is one step farther (`FrontierAdd`), and an empty queue means that all
  within the bound are known (`ExploredAll`).
- For call chains, a parent is one call nearer than its child (`Parents`), so the path that is unwound ends at
  the start after as many turns as the target is away (`Path`). For the impact, what is collected lies in
  every set that holds the file and is closed under children (`Collected`), and a result is at most as far as
  anything not yet listed (`Listed`).
- `FilesStayWhole` (`FilesAreWhole`, of any graph that `FileSwaps` allows) from `SwapInv`, which adds to it that
  the graph is `Sound`: the indexes are those of its nodes, identifiers are unique and edges join
  positions. Sets of nodes and of owners say nothing of positions, so each step relates the two.
  `FileAppended`: a list joins at the end and its edges are shifted with it. `NodeRemoved`: the last node
  moves into the hole, its edges with it; by induction from the highest position down nothing that is still
  to go has moved (`NodesRemoved`). What goes is exactly the file: contained nodes are of the same file
  (`OwnerPlaces`), and every node of a file is reached from its first one, since an owner comes earlier in
  the staged list (`Rooted`, `FileDescendants`). `FileReplaced` is one file of an update, `SwappedFiles` and
  `AssembledFiles` the induction over the order, and `Referred` adds the references. They also show that the
  order does not matter.
- `LinesAgree` (`LineLookupsAgree`) from the same invariant. Owners span what they contain, so the walk that
  follows only nodes over the line finds every node of the file over it (`CoveringIs`), and all lookups
  choose among the same nodes (`LookupsAre`); the rest is about least lengths and nested nodes (`LineLookups`).
- `NamesResolve` (`PrintedNamesResolve`): the name index is that of the nodes, and the owner that gives a
  symbol its printed name is found by it and leads back (`NameResolves`); a file's nodes are its descendants.

Others:

- `OnlyPinned`, `LiveDownloadsSurvive`, `UserFilesSurvive` (`ModelFiles`) from `ModelInvariant`: the `.part`
  paths of a process are of its earlier runs, files and attempts (`Earlier`), so that a new one is its
  own (`Live`), and what comes into place was verified (`Pinned`, `Placed`).
- `UnverifiedNeverRuns` (`BinaryCache`) from `BinaryInvariant`: what a wrapper has verified stays what it
  has (`Verification`), and a sidecar vouches for verified content (`Trust`). The lock is not needed.
- `FinishedCacheIsUsable` (`FinalizedIsUsable`): who may hold the lock (`Locker`), and that a cache which is
  not yet as it should be has a wrapper that is still to bring it there or fails (`Outstanding`).
- `NothingOfTheUserIsLost` (`ReplacedIsBackedUp`) from `HostInv`: until a kill or an overlap spoils it,
  installers agree on what is there (`OneMind`), a copy is of what was read (`Copies`), whoever is about to
  write has its backup (`Saves`), and what was replaced stays in one (`Kept`).

Policy learning (`PolicyLearningProofs`, with sums over any finite set: `SumsExist` and `SumIsInt`, by induction
on the size of the set):

- `Winners` (`WinnerIsBest`) from `LearningInv`. `LeadersAreBest`: no entry within the baseline's tokens is
  better than the first start, the climb's position and the best so far, which is what ranking and truncation
  (`RankedKeeps`) and the end of a climb must keep. `EntriesMeasured`: what was evaluated has versions below the
  next one (`FreeVersion`), so versions stay unique. The candidates are 52 (`CandidatesAreNumbered`), which is why
  the versions of the climbs, from 200 on, do not meet theirs.

Model-checked only:

- liveness (`ReadsAnswered`, `ChangesServed`, `RequestsEnd`, `SessionsEnd`);
- what concerns the reference edges that the resolvers find: that `CodeGraph` implements `FileSwaps`
  (`SwapsFiles`) and that an update that redirects no import leaves the edges of a full index
  (`UpdateIsRebuild`, whose other half, `FilesAreWhole`, is proved). The resolvers are recursive operators, of which the prover has nothing to
  offer, so modules that reach them have no theorems;
- what a finding refutes, `FreshReads` among it, is proved in the form that holds.

## 6. Not modelled

- Parsing and fact extraction are functions of source text without shared state. Embedding inference,
  the remote embedder's HTTP, hybrid ranking and activation propagation are numerics. LanceDB, `notify`,
  the file system, tokio and the operating system's locks are external and modelled only as CCM uses them.
- The CLI parses arguments and starts the runs of `GenerationStore`. The offline retrieval measurement,
  its fixtures and the benchmarks are sequential. The installer's archives, platforms and removal of old
  versions are plain I/O.
- Of the server: the watcher's filter of events, a loop that never started, a removed index, the migration
  of an old schema, upgrades after a change of the embedding model, roots and allowlists.
- Hazards seen and left out: bases of classes that refer to each other in one file (`class A(B.X)`,
  `class B(A.Y)`) resolve without end (resolve.rs:427-485, 656-700), which is sequential recursion;
  temporary files named by the process alone when one process has two live indexes of a
  generation (lib.rs:2240); the
  boundaries of chunks (store.rs:891), which are characters of text; `learn` commands at the
  same time, which have no lock and lose updates.
