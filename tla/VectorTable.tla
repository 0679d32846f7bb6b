---------------------------- MODULE VectorTable ----------------------------
(***************************************************************************)
(* The vector table of one generation (core/src/vector/store.rs), row by   *)
(* row, and the servers that replace the rows of changed files in it       *)
(* (engine.rs prepare_file_changes, live.rs apply_delta). A row holds a    *)
(* chunk of a symbol of a file, its text and its vector. A server          *)
(* reads the table through a cached handle that shows the version it was   *)
(* opened at, embeds without a lock, and replaces rows under the project's *)
(* activation lock. Which files a turn takes is LiveIndex's matter: here a *)
(* turn takes any.                                                         *)
(*                                                                         *)
(* A vector is the text it was computed from and the model that computed   *)
(* it. The models of Models have vectors of one size, so that the table    *)
(* takes them all. Fixture mode, which never reuses a vector, is left out. *)
(***************************************************************************)
EXTENDS Naturals, FiniteSets, Sequences

CONSTANTS
  Paths,        \* files, numbered in the order of their ids
  Servers,      \* processes with a live index on the generation
  NoServer,     \* the activation lock is free
  Models,       \* embedding models
  BuiltIn,      \* the built-in local model
  Disabled,     \* a configuration that embeds nothing
  NoModel,      \* a manifest that records no model
  Texts,        \* texts of chunks
  Turns,        \* what a turn may find: the files it takes, with the texts of their chunks
  Origins,      \* how the generation was built: "embedded", "graph-only"
  EmptyLoads,   \* whether a server may find no symbol in the graph it loads
  Faults,       \* what may fail: "open", "write"
  MaxCommits,   \* bound: turns that reach the table
  MaxCrashes    \* bound: crashes of servers

ASSUME FileAssumption == Paths \subseteq Nat
ASSUME LockAssumption == NoServer \notin Servers
ASSUME ConfigurationAssumption == Disabled \notin Models /\ NoModel \notin Models
ASSUME OriginAssumption == Origins \subseteq {"embedded", "graph-only"} /\ EmptyLoads \in BOOLEAN
ASSUME LimitAssumption == MaxCommits \in Nat /\ MaxCrashes \in Nat

VARIABLES
  rows,        \* the latest version of the table
  exists,      \* whether the table was created
  recorded,    \* the model the generation's manifest names
  lock,        \* the server in its commit, or NoServer
  server,      \* server[s]: the store, the live state and the turn of s
  commits,     \* commits so far: numbers the write a row comes from
  crashes,
  settled,     \* settled[f]: the rows the last finished commit of f meant to leave (history)
  unopened,    \* files whose last delete passed over rows it could not reach (history)
  halfway,     \* files a commit started on and has not finished since (history)
  identified   \* the table was built with a known model and every server compared it (history)

vectorVars ==
  <<rows, exists, recorded, lock, server, commits, crashes, settled, unopened,
    halfway, identified>>

Configurations == Models \cup {Disabled}
Vector == [of : Texts, model : Models]
Chunk == [file : Paths, pos : Nat \ {0}, text : Texts, vec : Vector]
Row == [chunk : Chunk, write : 0..MaxCommits]

Server == [pc : {"down", "ready", "prepared", "commit"}, config : Configurations,
           mismatch : BOOLEAN, identity : Models \cup {NoModel}, unsaved : BOOLEAN,
           open : BOOLEAN, seen : SUBSET Row, files : SUBSET Paths, batch : SUBSET Chunk,
           embedded : BOOLEAN, todo : SUBSET Paths, left : SUBSET Row]

Down == [pc |-> "down", config |-> Disabled, mismatch |-> FALSE, identity |-> NoModel,
         unsaved |-> FALSE, open |-> FALSE, seen |-> {}, files |-> {}, batch |-> {},
         embedded |-> FALSE, todo |-> {}, left |-> {}]

VectorTypeOK ==
  /\ rows \subseteq Row
  /\ exists \in BOOLEAN
  /\ recorded \in Models \cup {NoModel}
  /\ lock \in Servers \cup {NoServer}
  /\ server \in [Servers -> Server]
  /\ commits \in 0..MaxCommits
  /\ crashes \in 0..MaxCrashes
  /\ settled \in [Paths -> SUBSET Row]
  /\ unopened \subseteq Paths
  /\ halfway \subseteq Paths
  /\ identified \in BOOLEAN

---------------------------------------------------------------------------
(* Chunks and their vectors.                                               *)

TextOf(content, c) == content[c[1]][c[2]]

ChunkIds(content) == UNION {{<<f, i>> : i \in DOMAIN content[f]} : f \in DOMAIN content}

\* A turn takes finitely many chunks.
ASSUME TurnAssumption ==
  \A content \in Turns :
    /\ \E files \in SUBSET Paths : content \in [files -> Seq(Texts)]
    /\ IsFiniteSet(ChunkIds(content))

\* The order in which embed_chunks lists chunks: by file, then by position.
Precedes(c, d) == c[1] < d[1] \/ (c[1] = d[1] /\ c[2] <= d[2])

Rank(ids, c) == Cardinality({d \in ids : Precedes(d, c)})

Nth(ids, k) == CHOOSE c \in ids : Rank(ids, c) = k

\* Texts the server must send to the embedding provider.
Missing(content, known) == {c \in ChunkIds(content) : TextOf(content, c) \notin DOMAIN known}

\* embed_in_batches: one vector per text, in the order of the texts.
Fresh(model, content, known) ==
  [k \in 1..Cardinality(Missing(content, known)) |->
     [of |-> TextOf(content, Nth(Missing(content, known), k)), model |-> model]]

\* A mutant: fresh vectors are counted off over all chunks.
VectorByPlace(model, content, known, c) ==
  LET fresh == Fresh(model, content, known)
      place == Rank(ChunkIds(content), c)
  IN IF TextOf(content, c) \in DOMAIN known THEN known[TextOf(content, c)]
     ELSE fresh[IF place \in DOMAIN fresh THEN place ELSE 1]

VectorFor(model, content, known, c) ==
  IF TextOf(content, c) \in DOMAIN known
  THEN known[TextOf(content, c)]
  ELSE Fresh(model, content, known)[Rank(Missing(content, known), c)]

\* embed_chunks
EmbedChunks(model, content, known) ==
  {[file |-> c[1], pos |-> c[2], text |-> TextOf(content, c),
    vec |-> VectorFor(model, content, known, c)] : c \in ChunkIds(content)}

RowsOf(table, f) == {r \in table : r.chunk.file = f}

Stamped(batch, write) == {[chunk |-> c, write |-> write] : c \in batch}

\* vectors_for_file: a text of several rows keeps the vector of one of them.
KnownVectors(table) ==
  {known \in [{r.chunk.text : r \in table} -> {r.chunk.vec : r \in table}] :
     \A text \in DOMAIN known :
       \E r \in table : r.chunk.text = text /\ r.chunk.vec = known[text]}

\* A mutant: only an index without a recorded model is looked at.
MismatchIfUnnamed(config, noted) == config = BuiltIn /\ noted = NoModel

\* mismatch_with: an index without a recorded model suits any but the built-in one.
MismatchWith(config, noted) ==
  /\ config # Disabled
  /\ IF noted = NoModel THEN config = BuiltIn ELSE noted # config

\* table(): opens the table at its latest version and keeps the handle.
Opened(srv) == IF srv.open \/ ~exists THEN srv ELSE [srv EXCEPT !.open = TRUE, !.seen = rows]

\* A mutant: the cached handle stays where it is.
LeftAtVersion(srv) == srv

\* checkout_latest
CheckedOut(srv) == IF srv.open THEN [srv EXCEPT !.seen = rows] ELSE srv

\* write_file_vectors deletes the old rows of all files before it writes a new one.
Cleared(srv) == srv.todo = {}

\* The turn is over; the store and the live state stay.
TurnOver(srv) == [srv EXCEPT !.pc = "ready", !.files = {}, !.batch = {}, !.embedded = FALSE,
                         !.todo = {}, !.left = {}]

---------------------------------------------------------------------------
(* Servers.                                                                *)

\* index_graph: the rows of a full build, which knows no vectors.
Built(model, content) == Stamped(EmbedChunks(model, content, << >>), 0)

VectorInit ==
  \E origin \in Origins, model \in Models, content \in Turns :
    /\ rows = IF origin = "embedded" THEN Built(model, content) ELSE {}
    /\ exists = (rows # {})
    /\ recorded = IF exists THEN model ELSE NoModel
    /\ lock = NoServer
    /\ server = [s \in Servers |-> Down]
    /\ commits = 0
    /\ crashes = 0
    /\ settled = [f \in Paths |-> RowsOf(rows, f)]
    /\ unopened = {}
    /\ halfway = {}
    /\ identified = exists

Load(s, config, empty) ==
  /\ server[s].pc = "down"
  /\ empty => EmptyLoads
  /\ server' = [server EXCEPT ![s] =
                  [Down EXCEPT !.pc = "ready", !.config = config, !.identity = recorded,
                               !.mismatch = ~empty /\ MismatchWith(config, recorded)]]
  /\ identified' = (identified /\ ~empty)
  /\ UNCHANGED <<rows, exists, recorded, lock, commits, crashes, settled, unopened, halfway>>

\* A search, or a check that the table is readable, opens it; so does vectors_for_file.
OpenTable(s) ==
  /\ server[s].pc = "ready"
  /\ server' = [server EXCEPT ![s] = Opened(server[s])]
  /\ UNCHANGED <<rows, exists, recorded, lock, commits, crashes, settled, unopened,
                 halfway, identified>>

\* prepare_file_changes and embed_prepared: the files of the turn are read, the
\* vectors of those that exist are looked up and the rest is embedded. No chunk is
\* embedded under a foreign model, nor when the provider cannot be reached.
Prepare(s, content, present, reached) ==
  LET me == IF present = {} THEN server[s] ELSE Opened(server[s])
      embeds == ~me.mismatch /\ reached
  IN /\ server[s].pc = "ready"
     /\ commits < MaxCommits
     /\ {f \in DOMAIN content : content[f] # << >>} \subseteq present
     /\ present \subseteq DOMAIN content
     /\ \E known \in KnownVectors({r \in me.seen : r.chunk.file \in present}) :
          /\ ~reached => ~me.mismatch /\ me.config # Disabled /\ Missing(content, known) # {}
          /\ server' = [server EXCEPT ![s] =
                 [me EXCEPT !.pc = "prepared", !.files = DOMAIN content, !.embedded = embeds,
                            !.batch = IF embeds /\ me.config # Disabled
                                      THEN EmbedChunks(me.config, content, known) ELSE {}]]
     /\ UNCHANGED <<rows, exists, recorded, lock, commits, crashes, settled, unopened,
                    halfway, identified>>

\* Under the activation lock; from here on the files of the turn are dirty.
BeginCommit(s) ==
  /\ server[s].pc = "prepared"
  /\ lock = NoServer
  /\ commits < MaxCommits
  /\ lock' = s
  /\ commits' = commits + 1
  /\ server' = [server EXCEPT ![s] = [CheckedOut(server[s]) EXCEPT !.pc = "commit",
                   !.todo = server[s].files, !.left = Stamped(server[s].batch, commits + 1)]]
  /\ halfway' = halfway \cup server[s].files
  /\ UNCHANGED <<rows, exists, recorded, crashes, settled, unopened, identified>>

\* delete_by_prefix: a delete works on the version the handle shows; rows added to the
\* table since then stay.
DeleteRows(s, f) ==
  /\ server[s].pc = "commit"
  /\ f \in server[s].todo
  /\ LET me == Opened(server[s])
         kept == rows \ RowsOf(me.seen, f)
     IN IF me.open
        THEN /\ rows' = kept
             /\ server' = [server EXCEPT ![s] = [me EXCEPT !.seen = kept, !.todo = @ \ {f}]]
        ELSE /\ rows' = rows
             /\ server' = [server EXCEPT ![s] = [me EXCEPT !.todo = @ \ {f}]]
  /\ unopened' = unopened \ {f}
  /\ UNCHANGED <<exists, recorded, lock, commits, crashes, settled, halfway, identified>>

\* Any failure to open the table counts as "no table, nothing to delete".
DeleteUnopened(s, f) ==
  /\ "open" \in Faults
  /\ server[s].pc = "commit"
  /\ f \in server[s].todo
  /\ exists /\ ~server[s].open
  /\ server' = [server EXCEPT ![s].todo = @ \ {f}]
  /\ unopened' = unopened \cup {f}
  /\ UNCHANGED <<rows, exists, recorded, lock, commits, crashes, settled, halfway, identified>>

\* write_chunks: a batch of chunks goes into the table, which the first batch creates.
WriteChunks(s, batch) ==
  /\ server[s].pc = "commit"
  /\ Cleared(server[s])
  /\ batch # {}
  /\ batch \subseteq server[s].left
  /\ rows' = rows \cup batch
  /\ exists' = TRUE
  /\ server' = [server EXCEPT ![s] = [server[s] EXCEPT !.open = TRUE, !.seen = rows \cup batch,
                                                       !.left = @ \ batch]]
  /\ UNCHANGED <<recorded, lock, commits, crashes, settled, unopened, halfway, identified>>

\* written_embedding_identity
WrittenIdentity(config) == IF config = Disabled \/ ~exists THEN NoModel ELSE config

\* The table is written: a manifest without a model takes the one just used.
EndCommit(s) ==
  LET me == server[s]
      names == me.embedded /\ me.identity = NoModel
      store == IF names /\ me.config # Disabled THEN Opened(me) ELSE me
  IN /\ me.pc = "commit" /\ me.todo = {} /\ me.left = {}
     /\ server' = [server EXCEPT ![s] = [TurnOver(store) EXCEPT
                     !.identity = IF names THEN WrittenIdentity(me.config) ELSE @,
                     !.unsaved = TRUE]]
     /\ lock' = NoServer
     /\ settled' = [f \in Paths |-> IF f \in me.files
                                    THEN RowsOf(Stamped(me.batch, commits), f) ELSE settled[f]]
     /\ halfway' = halfway \ me.files
     /\ UNCHANGED <<rows, exists, recorded, commits, crashes, unopened, identified>>

\* A step of the turn fails; the table stays as it is.
TurnFails(s) ==
  /\ "write" \in Faults
  /\ server[s].pc \in {"prepared", "commit"}
  /\ server' = [server EXCEPT ![s] = TurnOver(server[s])]
  /\ lock' = IF lock = s THEN NoServer ELSE lock
  /\ UNCHANGED <<rows, exists, recorded, commits, crashes, settled, unopened,
                 halfway, identified>>

\* persist: the manifest on disk names the model the live one does.
Persist(s) ==
  /\ server[s].pc = "ready"
  /\ server[s].unsaved
  /\ recorded' = server[s].identity
  /\ server' = [server EXCEPT ![s].unsaved = FALSE]
  /\ UNCHANGED <<rows, exists, lock, commits, crashes, settled, unopened, halfway, identified>>

Crash(s) ==
  /\ server[s].pc # "down"
  /\ crashes < MaxCrashes
  /\ crashes' = crashes + 1
  /\ server' = [server EXCEPT ![s] = Down]
  /\ lock' = IF lock = s THEN NoServer ELSE lock
  /\ UNCHANGED <<rows, exists, recorded, commits, settled, unopened, halfway, identified>>

Step(s) ==
  \/ \E config \in Configurations, empty \in BOOLEAN : Load(s, config, empty)
  \/ OpenTable(s)
  \/ \E content \in Turns, present \in SUBSET Paths, reached \in BOOLEAN :
       Prepare(s, content, present, reached)
  \/ BeginCommit(s)
  \/ \E f \in Paths : DeleteRows(s, f) \/ DeleteUnopened(s, f)
  \/ \E batch \in SUBSET server[s].left : WriteChunks(s, batch)
  \/ EndCommit(s)
  \/ TurnFails(s)
  \/ Persist(s)
  \/ Crash(s)

VectorNext == \E s \in Servers : Step(s)

VectorSpec == VectorInit /\ [][VectorNext]_vectorVars

---------------------------------------------------------------------------
(* Properties.                                                             *)

\* A row's vector is that of its text (store.rs embed_chunks: vectors of unchanged
\* texts are reused and fresh ones are matched up with the chunks that lack one),
\* whoever wrote it and whatever version of the table it read.
VectorsFitTexts == \A r \in rows : r.chunk.vec.of = r.chunk.text

\* No chunk is in the table twice, and chunks of two contents of a file are never there
\* together (live.rs apply_delta, before checkout_latest: a delete at an old version
\* would leave rows of another process, "chunks multiply"), even after a turn that
\* stopped halfway or a crash; but for files whose rows were passed over because the
\* table could not be opened, until a delete reaches them.
OneWritePerFile ==
  \A r1, r2 \in rows :
    r1.chunk.file = r2.chunk.file /\ r1.chunk.file \notin unopened =>
      r1.write = r2.write /\ (r1.chunk.pos = r2.chunk.pos => r1 = r2)

\* A file's rows are all of those and only those the last finished commit prepared
\* (engine.rs write_file_vectors), unless a later commit stopped halfway or the table
\* could not be opened.
CommittedRows == \A f \in Paths \ (halfway \cup unopened) : RowsOf(rows, f) = settled[f]

\* Both together: the table holds no remains of an older content of a file, and lacks
\* nothing of the one its last finished turn prepared.
TableIsWhole == OneWritePerFile /\ CommittedRows

\* What a search of a server may compare its query vector with.
Searched(s) == IF server[s].pc = "down" \/ server[s].mismatch \/ server[s].config = Disabled
               THEN {} ELSE server[s].seen

\* Vectors of two models are neither mixed nor compared (embedder.rs mismatch_with), in a
\* generation built with a model that every server could compare its own with.
OneModel ==
  identified =>
    /\ \A r \in rows : r.chunk.vec.model = recorded
    /\ \A s \in Servers : \A r \in Searched(s) : r.chunk.vec.model = server[s].config

=============================================================================
