----------------------- MODULE GenerationFilesProofs -----------------------
(***************************************************************************)
(* Proofs about two files of a generation.  The stat cache of its          *)
(* manifest: for any number of files and contents, any length of the run   *)
(* and any racy window that covers the granularity of the file system's    *)
(* timestamps, no edit is missed.  Its vector table: every vector is that  *)
(* of its text, the rows of a file are those of one write, and all of its  *)
(* last finished one, and vectors of two models neither meet in a table    *)
(* nor in a search.                                                        *)
(***************************************************************************)
EXTENDS StatCache, VectorTable, FiniteSetTheorems, TLAPS

-----------------------------------------------------------------------------
(* The stat cache *)

\* The initial state satisfies the invariant.
LEMMA CacheInvInit == Init => CacheInv
BY TimeAssumption DEF Init, CacheInv, TypeOK, Honest, NoScan

\* What the invariant gives: within a window that covers a granule of the file
\* system's timestamps, racy_reuse_boundary rules out every misleading entry.
LEMMA ReusedHashIsRight == CacheInv => NoMissedEdit
BY TimeAssumption, WindowAssumption
   DEF CacheInv, TypeOK, Honest, Fingerprint, NoMissedEdit, Reusable, StatUnchanged,
       racy_reuse_boundary

\* Every step preserves it.
LEMMA CacheInvStep == CacheInv /\ [Next]_vars => CacheInv'
<1> SUFFICES ASSUME CacheInv, [Next]_vars
             PROVE  CacheInv'
  OBVIOUS
<1> USE TimeAssumption, AbsentAssumption, NoEntryAssumption
<1> USE DEF CacheInv, TypeOK, Honest, Fingerprint
<1>1. CASE Tick
  BY <1>1 DEF Tick
<1>2. ASSUME NEW f \in Files, Edit(f)
      PROVE  CacheInv'
  \* The new time of f is within one granule of the clock, hence of any earlier
  \* moment; an entry that now looks current passes.
  <2>1. PICK c \in (Contents \cup {Absent}) \ {content[f]} : content' = [content EXCEPT ![f] = c]
    BY <1>2 DEF Edit
  <2>2. PICK m \in Stamps(clock) : mtime' = [mtime EXCEPT ![f] = m]
    BY <1>2 DEF Edit
  <2>3. m \in Nat /\ clock < m + Granularity
    BY <2>2 DEF Stamps
  <2>4. UNCHANGED <<clock, manifest, indexedAt, scan, next, reading>>
    BY <1>2 DEF Edit
  <2>5. TypeOK'
    BY <2>1, <2>2, <2>3, <2>4
  <2>6. \A g \in Files : Honest(manifest[g], g, indexedAt)'
    BY <2>1, <2>2, <2>3, <2>4
  <2>7. \A g \in Files : Honest(next[g], g, scan.started)'
    BY <2>1, <2>2, <2>3, <2>4
  <2> QED
    BY <2>4, <2>5, <2>6, <2>7
<1>3. ASSUME NEW kind \in {"rebuild", "rescan", "targeted"}, NEW scope \in SUBSET Files,
             BeginScan(kind, scope)
      PROVE  CacheInv'
  BY <1>3 DEF BeginScan
<1>4. ASSUME NEW f \in Files, Skip(f)
      PROVE  CacheInv'
  BY <1>4 DEF Skip, Visit
<1>5. ASSUME NEW f \in Files, Reuse(f)
      PROVE  CacheInv'
  <2>1. /\ manifest[f] # None /\ manifest[f] \in Fingerprint
        /\ manifest[f].hash = content[f] /\ manifest[f].mtime = mtime[f]
    BY <1>5, ReusedHashIsRight DEF Reuse, Reusable, StatUnchanged, NoMissedEdit
  <2>2. next' = [next EXCEPT ![f] = manifest[f]] /\ scan' = [scan EXCEPT !.todo = @ \ {f}]
    BY <1>5 DEF Reuse, Visit
  <2>3. UNCHANGED <<clock, content, mtime, manifest, indexedAt, reading>>
    BY <1>5 DEF Reuse
  <2>4. TypeOK'
    BY <2>1, <2>2, <2>3
  <2>5. \A g \in Files : Honest(next[g], g, scan.started)'
    BY <2>1, <2>2, <2>3
  <2> QED
    BY <2>2, <2>3, <2>4, <2>5
<1>6. ASSUME NEW f \in Files, Open(f)
      PROVE  CacheInv'
  BY <1>6 DEF Open, Visit
<1>7. ASSUME NEW f \in Files, Read(f)
      PROVE  CacheInv'
  BY <1>7 DEF Read
<1>8. CASE AbortScan
  BY <1>8 DEF AbortScan, NoScan
<1>9. CASE FinishScan
  <2>1. PICK retry \in SUBSET Changed :
          /\ scan.kind = "rebuild" => retry = {}
          /\ manifest' = [f \in Files |-> IF f \in retry THEN manifest[f] ELSE Merged[f]]
          /\ indexedAt' = Timestamp(retry)
    BY <1>9 DEF FinishScan
  <2>2. /\ scan.kind # "none" /\ scan' = NoScan /\ next' = [f \in Files |-> None]
        /\ UNCHANGED <<clock, content, mtime, reading>>
    BY <1>9 DEF FinishScan
  <2>3. indexedAt' \in 0..MaxClock /\ indexedAt' <= clock
    BY <2>1, <2>2 DEF Timestamp
  <2>4. TypeOK'
    BY <2>1, <2>2, <2>3 DEF Merged, NoScan
  \* A kept entry comes with the old timestamp, or the scan was a full one and
  \* nothing was kept.
  <2>5. ASSUME NEW f \in Files PROVE Honest(manifest[f], f, indexedAt)'
    <3>1. CASE manifest'[f] = manifest[f] /\ indexedAt' = indexedAt
      BY <2>2, <3>1
    <3>2. CASE manifest'[f] = next[f] /\ indexedAt' <= scan.started
      BY <2>2, <2>3, <3>2
    <3> QED
      BY <2>1, <2>2, <3>1, <3>2 DEF Timestamp, Merged
  <2> QED
    BY <2>2, <2>3, <2>4, <2>5 DEF NoScan
<1>10. CASE UNCHANGED vars
  BY <1>10 DEF vars
<1> QED
  BY <1>1, <1>2, <1>3, <1>4, <1>5, <1>6, <1>7, <1>8, <1>9, <1>10 DEF Next, FileStep

\* The invariant holds throughout every run of the stat cache.
THEOREM CacheInvariant == Spec => []CacheInv
BY CacheInvInit, CacheInvStep, PTL DEF Spec

\* core/src/lib.rs racy_reuse_boundary: reusing a recorded hash never misses an edit.
THEOREM NoEditIsMissed == Spec => []NoMissedEdit
BY ReusedHashIsRight, CacheInvariant, PTL

---------------------------------------------------------------------------
(* Embedding: the fresh vectors go to the chunks they were asked for.      *)

\* A chunk that comes earlier has a smaller rank.
LEMMA RankOrders ==
  ASSUME NEW ids \in SUBSET (Nat \X Nat), IsFiniteSet(ids),
         NEW c \in ids, NEW d \in ids, Precedes(c, d), c # d
  PROVE  Rank(ids, c) < Rank(ids, d)
<1> DEFINE before == {x \in ids : Precedes(x, c)}
           upto == {x \in ids : Precedes(x, d)}
<1>1. /\ c = <<c[1], c[2]>> /\ d = <<d[1], d[2]>>
      /\ c[1] \in Nat /\ c[2] \in Nat /\ d[1] \in Nat /\ d[2] \in Nat
  OBVIOUS
<1>2. ~Precedes(d, c)
  BY <1>1 DEF Precedes
<1>3. before \subseteq upto
  <2> SUFFICES ASSUME NEW x \in ids, Precedes(x, c) PROVE Precedes(x, d)
    OBVIOUS
  <2>1. x[1] \in Nat /\ x[2] \in Nat
    OBVIOUS
  <2> QED BY <1>1, <2>1 DEF Precedes
<1>4. d \in upto /\ d \notin before
  BY <1>1, <1>2 DEF Precedes
<1>5. IsFiniteSet(upto) /\ IsFiniteSet(before)
  BY FS_Subset
<1>6. Cardinality(before) \in Nat /\ Cardinality(upto) \in Nat
  BY <1>5, FS_CardinalityType
<1>7. Cardinality(before) <= Cardinality(upto) /\ Cardinality(before) # Cardinality(upto)
  BY <1>3, <1>4, <1>5, FS_Subset
<1> QED BY <1>6, <1>7 DEF Rank

\* Ranks number the chunks.
LEMMA RankNumbers ==
  ASSUME NEW ids \in SUBSET (Nat \X Nat), IsFiniteSet(ids), NEW c \in ids
  PROVE  /\ Rank(ids, c) \in 1..Cardinality(ids)
         /\ Nth(ids, Rank(ids, c)) = c
<1> DEFINE upto == {x \in ids : Precedes(x, c)}
<1>1. IsFiniteSet(upto) /\ Cardinality(upto) <= Cardinality(ids)
  BY FS_Subset
<1>2. c[1] \in Nat /\ c[2] \in Nat
  OBVIOUS
<1>3. upto # {}
  BY <1>2 DEF Precedes
<1>4. Cardinality(upto) \in Nat /\ Cardinality(ids) \in Nat /\ Cardinality(upto) # 0
  BY <1>1, <1>3, FS_CardinalityType, FS_EmptySet
<1>5. Rank(ids, c) \in 1..Cardinality(ids)
  BY <1>1, <1>4 DEF Rank
<1>6. ASSUME NEW d \in ids, Rank(ids, d) = Rank(ids, c) PROVE d = c
  <2> SUFFICES ASSUME d # c PROVE FALSE
    OBVIOUS
  <2>1. d[1] \in Nat /\ d[2] \in Nat /\ d = <<d[1], d[2]>> /\ c = <<c[1], c[2]>>
    OBVIOUS
  <2>2. Precedes(c, d) \/ Precedes(d, c)
    BY <1>2, <2>1 DEF Precedes
  <2>3. \A x \in ids : Rank(ids, x) \in Nat
    <3> TAKE x \in ids
    <3>1. IsFiniteSet({y \in ids : Precedes(y, x)})
      BY FS_Subset
    <3> QED BY <3>1, FS_CardinalityType DEF Rank
  <2>4. Rank(ids, c) < Rank(ids, d) \/ Rank(ids, d) < Rank(ids, c)
    BY <2>2, RankOrders
  <2> QED BY <1>6, <2>3, <2>4
<1> QED BY <1>5, <1>6 DEF Nth

\* What a turn embeds: a chunk each, with a vector the table holds for its text or the
\* one the model gives it.
LEMMA EmbeddedFits ==
  ASSUME NEW model \in Models, NEW texts \in Turns, NEW table \in SUBSET Row,
         NEW known \in KnownVectors(table)
  PROVE  LET batch == EmbedChunks(model, texts, known)
         IN /\ batch \subseteq Chunk
            /\ \A c \in batch :
                 /\ c.file \in DOMAIN texts
                 /\ \/ c.vec = [of |-> c.text, model |-> model]
                    \/ \E r \in table : r.chunk.text = c.text /\ r.chunk.vec = c.vec
            /\ \A c, d \in batch : c.file = d.file /\ c.pos = d.pos => c = d
<1> DEFINE ids == ChunkIds(texts)
           lacking == Missing(texts, known)
<1>1. PICK files \in SUBSET Paths : texts \in [files -> Seq(Texts)]
  BY TurnAssumption
<1>2. \A c \in ids : /\ c \in Nat \X Nat /\ c[1] \in files /\ c[2] \in Nat \ {0}
                     /\ TextOf(texts, c) \in Texts
                     /\ c = <<c[1], c[2]>>
  <2> SUFFICES ASSUME NEW f \in files, NEW i \in DOMAIN texts[f]
               PROVE  LET c == <<f, i>>
                      IN /\ c \in Nat \X Nat /\ c[1] \in files /\ c[2] \in Nat \ {0}
                         /\ TextOf(texts, c) \in Texts
    BY <1>1 DEF ChunkIds
  <2>1. texts[f] \in Seq(Texts)
    BY <1>1
  <2>2. i \in 1..Len(texts[f]) /\ Len(texts[f]) \in Nat
    BY <2>1
  <2>3. texts[f][i] \in Texts
    BY <2>1, <2>2
  <2>4. f \in Nat /\ f \in files /\ i \in Nat \ {0}
    BY <2>2, FileAssumption
  <2>5. TextOf(texts, <<f, i>>) \in Texts
    BY <2>3 DEF TextOf
  <2> QED BY <2>4, <2>5
<1>3. lacking \in SUBSET (Nat \X Nat) /\ lacking \subseteq ids /\ IsFiniteSet(lacking)
  BY <1>2, TurnAssumption, FS_Subset DEF Missing
<1>4. ASSUME NEW c \in ids
      PROVE  LET vec == VectorFor(model, texts, known, c)
             IN /\ vec \in Vector
                /\ \/ vec = [of |-> TextOf(texts, c), model |-> model]
                   \/ \E r \in table : r.chunk.text = TextOf(texts, c) /\ r.chunk.vec = vec
  <2>1. CASE TextOf(texts, c) \in DOMAIN known
    <3>1. PICK r \in table : /\ r.chunk.text = TextOf(texts, c)
                             /\ r.chunk.vec = known[TextOf(texts, c)]
      BY <2>1 DEF KnownVectors
    <3>2. r.chunk \in Chunk
      BY <3>1 DEF Row
    <3>3. r.chunk.vec \in Vector
      BY <3>2 DEF Chunk
    <3> QED BY <2>1, <3>1, <3>3 DEF VectorFor
  <2>2. CASE TextOf(texts, c) \notin DOMAIN known
    <3>1. c \in lacking
      BY <2>2 DEF Missing
    <3>2. /\ Rank(lacking, c) \in 1..Cardinality(lacking)
          /\ Nth(lacking, Rank(lacking, c)) = c
      BY <1>3, <3>1, RankNumbers
    <3>3. Fresh(model, texts, known)[Rank(lacking, c)]
            = [of |-> TextOf(texts, c), model |-> model]
      BY <3>2 DEF Fresh
    <3> QED BY <1>2, <2>2, <3>3 DEF VectorFor, Vector
  <2> QED BY <2>1, <2>2
<1>5. \A b \in EmbedChunks(model, texts, known) :
        \E c \in ids : b = [file |-> c[1], pos |-> c[2], text |-> TextOf(texts, c),
                            vec |-> VectorFor(model, texts, known, c)]
  BY DEF EmbedChunks
<1>6. DOMAIN texts = files
  BY <1>1
<1>7. EmbedChunks(model, texts, known) \subseteq Chunk
  BY <1>2, <1>4, <1>5 DEF Chunk
<1>8. \A c \in EmbedChunks(model, texts, known) :
        /\ c.file \in DOMAIN texts
        /\ \/ c.vec = [of |-> c.text, model |-> model]
           \/ \E r \in table : r.chunk.text = c.text /\ r.chunk.vec = c.vec
  BY <1>2, <1>4, <1>5, <1>6
<1>9. \A c, d \in EmbedChunks(model, texts, known) :
        c.file = d.file /\ c.pos = d.pos => c = d
  <2> TAKE a, b \in EmbedChunks(model, texts, known)
  <2>1. PICK c \in ids : a = [file |-> c[1], pos |-> c[2], text |-> TextOf(texts, c),
                              vec |-> VectorFor(model, texts, known, c)]
    BY <1>5
  <2>2. PICK d \in ids : b = [file |-> d[1], pos |-> d[2], text |-> TextOf(texts, d),
                              vec |-> VectorFor(model, texts, known, d)]
    BY <1>5
  <2>3. a.file = b.file /\ a.pos = b.pos => c = d
    BY <1>2, <2>1, <2>2
  <2> QED BY <2>1, <2>2, <2>3
<1> QED BY <1>7, <1>8, <1>9

---------------------------------------------------------------------------
(* Types.                                                                  *)

\* Opening the table changes the handle and nothing else of a server.
LEMMA OpenedServer ==
  ASSUME NEW srv \in Server, rows \subseteq Row, exists \in BOOLEAN
  PROVE  /\ Opened(srv) \in Server
         /\ Opened(srv).seen = IF srv.open \/ ~exists THEN srv.seen ELSE rows
         /\ Opened(srv).open = (srv.open \/ exists)
         /\ Opened(srv).pc = srv.pc /\ Opened(srv).config = srv.config
         /\ Opened(srv).mismatch = srv.mismatch /\ Opened(srv).identity = srv.identity
         /\ Opened(srv).files = srv.files /\ Opened(srv).batch = srv.batch
         /\ Opened(srv).todo = srv.todo /\ Opened(srv).left = srv.left
BY DEF Opened, Server

LEMMA CheckedOutServer ==
  ASSUME NEW srv \in Server, rows \subseteq Row
  PROVE  /\ CheckedOut(srv) \in Server
         /\ CheckedOut(srv).seen = IF srv.open THEN rows ELSE srv.seen
         /\ CheckedOut(srv).open = srv.open
         /\ CheckedOut(srv).pc = srv.pc /\ CheckedOut(srv).config = srv.config
         /\ CheckedOut(srv).mismatch = srv.mismatch /\ CheckedOut(srv).identity = srv.identity
         /\ CheckedOut(srv).files = srv.files /\ CheckedOut(srv).batch = srv.batch
BY DEF CheckedOut, Server

LEMMA TurnOverServer ==
  ASSUME NEW srv \in Server
  PROVE  /\ TurnOver(srv) \in Server
         /\ TurnOver(srv).pc = "ready" /\ TurnOver(srv).files = {} /\ TurnOver(srv).batch = {}
         /\ TurnOver(srv).todo = {} /\ TurnOver(srv).left = {}
         /\ TurnOver(srv).seen = srv.seen /\ TurnOver(srv).open = srv.open
         /\ TurnOver(srv).config = srv.config /\ TurnOver(srv).mismatch = srv.mismatch
         /\ TurnOver(srv).identity = srv.identity
BY DEF TurnOver, Server

LEMMA DownServer == Down \in Server
BY DEF Down, Server, Configurations

LEMMA StampedRows ==
  ASSUME NEW batch \in SUBSET Chunk, NEW write \in 0..MaxCommits
  PROVE  Stamped(batch, write) \subseteq Row
BY DEF Stamped, Row

\* What a delete leaves, whether there is a table or not.
LEMMA DeletedRows ==
  ASSUME VectorTypeOK, NEW s \in Servers, NEW f \in Paths, DeleteRows(s, f)
  PROVE  LET me == Opened(server[s])
             kept == rows \ RowsOf(me.seen, f)
         IN /\ rows' = IF me.open THEN kept ELSE rows
            /\ server' = [server EXCEPT ![s] =
                  [me EXCEPT !.seen = IF me.open THEN kept ELSE me.seen, !.todo = me.todo \ {f}]]
<1> DEFINE me == Opened(server[s])
           kept == rows \ RowsOf(me.seen, f)
<1>1. me \in Server
  BY OpenedServer DEF VectorTypeOK
<1>2. IF me.open
      THEN /\ rows' = kept
           /\ server' = [server EXCEPT ![s] = [me EXCEPT !.seen = kept, !.todo = @ \ {f}]]
      ELSE /\ rows' = rows
           /\ server' = [server EXCEPT ![s] = [me EXCEPT !.todo = @ \ {f}]]
  BY DEF DeleteRows
<1> HIDE DEF me, kept
<1>3. /\ [me EXCEPT !.seen = kept, !.todo = @ \ {f}]
            = [me EXCEPT !.seen = kept, !.todo = me.todo \ {f}]
      /\ [me EXCEPT !.todo = @ \ {f}] = [me EXCEPT !.seen = me.seen, !.todo = me.todo \ {f}]
  BY <1>1 DEF Server
<1>4. CASE me.open
  BY <1>2, <1>3, <1>4 DEF me, kept
<1>5. CASE ~me.open
  BY <1>2, <1>3, <1>5 DEF me, kept
<1> QED BY <1>4, <1>5

\* What a full build leaves.
LEMMA BuiltRows ==
  ASSUME NEW model \in Models, NEW texts \in Turns
  PROVE  /\ Built(model, texts) \subseteq Row
         /\ \A r \in Built(model, texts) :
              r.chunk.vec.of = r.chunk.text /\ r.chunk.vec.model = model /\ r.write = 0
         /\ \A r1, r2 \in Built(model, texts) :
              r1.chunk.file = r2.chunk.file /\ r1.chunk.pos = r2.chunk.pos => r1 = r2
<1> DEFINE batch == EmbedChunks(model, texts, << >>)
<1>1. << >> \in KnownVectors({})
  BY DEF KnownVectors
<1>2. /\ batch \subseteq Chunk
      /\ \A c \in batch : c.vec.of = c.text /\ c.vec.model = model
      /\ \A c, d \in batch : c.file = d.file /\ c.pos = d.pos => c = d
  <2>1. {} \in SUBSET Row
    OBVIOUS
  <2>2. /\ batch \subseteq Chunk
        /\ \A c \in batch : c.vec = [of |-> c.text, model |-> model]
        /\ \A c, d \in batch : c.file = d.file /\ c.pos = d.pos => c = d
    BY <1>1, <2>1, EmbeddedFits
  <2> HIDE DEF batch
  <2>3. ASSUME NEW c \in batch PROVE c.vec.of = c.text /\ c.vec.model = model
    <3>1. c.vec = [of |-> c.text, model |-> model]
      BY <2>2
    <3> QED BY <3>1
  <2> QED BY <2>2, <2>3
<1> HIDE DEF batch
<1>3. 0 \in 0..MaxCommits
  BY LimitAssumption
<1>4. Built(model, texts) = Stamped(batch, 0)
  BY DEF Built, batch
<1> QED BY <1>2, <1>3, <1>4, StampedRows DEF Stamped

PreparedFrom(s, texts, me, batch, embeds) ==
  /\ me = server[s] \/ me = Opened(server[s])
  /\ DOMAIN texts \subseteq Paths
  /\ server' = [server EXCEPT ![s] = [me EXCEPT !.pc = "prepared", !.files = DOMAIN texts,
                                                !.embedded = embeds, !.batch = batch]]
  /\ batch # {} => ~me.mismatch /\ me.config \in Models
  /\ \A c \in batch :
       /\ c.file \in DOMAIN texts
       /\ \/ c.vec = [of |-> c.text, model |-> me.config]
          \/ \E r \in me.seen : r.chunk.text = c.text /\ r.chunk.vec = c.vec
  /\ \A c, d \in batch : c.file = d.file /\ c.pos = d.pos => c = d

\* What Prepare leaves: the handle may have been opened, and the batch was embedded from
\* what the handle shows.
LEMMA PrepareStep ==
  ASSUME VectorTypeOK, NEW s \in Servers, NEW texts \in Turns, NEW present \in SUBSET Paths,
         NEW reached \in BOOLEAN, Prepare(s, texts, present, reached)
  PROVE  \E me \in Server, batch \in SUBSET Chunk, embeds \in BOOLEAN :
           PreparedFrom(s, texts, me, batch, embeds)
<1> DEFINE me == IF present = {} THEN server[s] ELSE Opened(server[s])
           embeds == ~me.mismatch /\ reached
           table == {r \in me.seen : r.chunk.file \in present}
<1>1. server[s] \in Server
  BY DEF VectorTypeOK
<1>2. me \in Server /\ me.mismatch \in BOOLEAN /\ me.config \in Configurations
       /\ me.seen \subseteq Row
  BY <1>1, OpenedServer DEF VectorTypeOK, Server
<1>3. embeds \in BOOLEAN
  BY <1>2
<1>4. PICK known \in KnownVectors(table) :
        server' = [server EXCEPT ![s] =
           [me EXCEPT !.pc = "prepared", !.files = DOMAIN texts, !.embedded = embeds,
                      !.batch = IF embeds /\ me.config # Disabled
                                THEN EmbedChunks(me.config, texts, known) ELSE {}]]
  BY Zenon DEF Prepare
<1> DEFINE batch == IF embeds /\ me.config # Disabled
                    THEN EmbedChunks(me.config, texts, known) ELSE {}
<1>5. DOMAIN texts \subseteq Paths
  BY TurnAssumption
<1>6. CASE embeds /\ me.config # Disabled
  <2>1. me.config \in Models
    BY <1>2, <1>6 DEF Configurations
  <2>2. table \in SUBSET Row
    BY <1>2
  <2>3. /\ batch \subseteq Chunk
        /\ \A c \in batch :
             /\ c.file \in DOMAIN texts
             /\ \/ c.vec = [of |-> c.text, model |-> me.config]
                \/ \E r \in table : r.chunk.text = c.text /\ r.chunk.vec = c.vec
        /\ \A c, d \in batch : c.file = d.file /\ c.pos = d.pos => c = d
    <3> HIDE DEF table, me, embeds
    <3> QED BY <1>6, <2>1, <2>2, EmbeddedFits
  <2>4. \A c \in batch : \/ c.vec = [of |-> c.text, model |-> me.config]
                         \/ \E r \in me.seen : r.chunk.text = c.text /\ r.chunk.vec = c.vec
    BY <2>3
  <2>5. ~me.mismatch
    BY <1>6
  <2> HIDE DEF batch, me
  <2>6. me = server[s] \/ me = Opened(server[s])
    BY DEF me
  <2>7. server' = [server EXCEPT ![s] = [me EXCEPT !.pc = "prepared",
                     !.files = DOMAIN texts, !.embedded = embeds, !.batch = batch]]
    BY <1>4 DEF batch
  <2>8. PreparedFrom(s, texts, me, batch, embeds)
    BY <1>5, <2>1, <2>3, <2>4, <2>5, <2>6, <2>7 DEF PreparedFrom
  <2> QED BY <1>2, <1>3, <2>3, <2>8
<1>7. CASE ~(embeds /\ me.config # Disabled)
  <2>1. server' = [server EXCEPT ![s] = [me EXCEPT !.pc = "prepared",
                     !.files = DOMAIN texts, !.embedded = embeds, !.batch = {}]]
    BY <1>4, <1>7
  <2>2. me = server[s] \/ me = Opened(server[s])
    OBVIOUS
  <2> HIDE DEF me, embeds
  <2>3. PreparedFrom(s, texts, me, {}, embeds)
    BY <1>5, <2>1, <2>2 DEF PreparedFrom
  <2>4. {} \in SUBSET Chunk
    OBVIOUS
  <2> QED BY <1>2, <1>3, <2>3, <2>4
<1> QED BY <1>6, <1>7

\* Every step keeps the types.
LEMMA TypeStep == VectorTypeOK /\ [VectorNext]_vectorVars => VectorTypeOK'
<1> SUFFICES ASSUME VectorTypeOK, [VectorNext]_vectorVars PROVE VectorTypeOK'
  OBVIOUS
<1> USE DEF VectorTypeOK
<1>0. CASE UNCHANGED vectorVars
  BY <1>0 DEF vectorVars
<1> SUFFICES ASSUME NEW s \in Servers, Step(s) PROVE VectorTypeOK'
  BY <1>0 DEF VectorNext
<1>s. server[s] \in Server
  OBVIOUS
<1>a. ASSUME NEW srv \in Server, server' = [server EXCEPT ![s] = srv]
      PROVE  server' \in [Servers -> Server]
  BY <1>a
<1>1. CASE \E config \in Configurations, empty \in BOOLEAN : Load(s, config, empty)
  <2> PICK config \in Configurations, empty \in BOOLEAN : Load(s, config, empty)
    BY <1>1
  <2>1. MismatchWith(config, recorded) \in BOOLEAN
    BY DEF MismatchWith
  <2>2. [Down EXCEPT !.pc = "ready", !.config = config, !.identity = recorded,
                     !.mismatch = ~empty /\ MismatchWith(config, recorded)] \in Server
    BY <2>1 DEF Down, Server
  <2> QED BY <1>a, <2>2 DEF Load
<1>2. CASE OpenTable(s)
  BY <1>2, <1>s, <1>a, OpenedServer DEF OpenTable
<1>3. CASE \E texts \in Turns, present \in SUBSET Paths, reached \in BOOLEAN :
             Prepare(s, texts, present, reached)
  <2> PICK texts \in Turns, present \in SUBSET Paths, reached \in BOOLEAN :
             Prepare(s, texts, present, reached)
    BY <1>3
  <2>1. PICK me \in Server, batch \in SUBSET Chunk, embeds \in BOOLEAN :
           PreparedFrom(s, texts, me, batch, embeds)
    BY PrepareStep
  <2>2. [me EXCEPT !.pc = "prepared", !.files = DOMAIN texts, !.embedded = embeds,
                   !.batch = batch] \in Server
    BY <2>1 DEF Server, PreparedFrom
  <2> QED BY <1>a, <2>1, <2>2 DEF Prepare, PreparedFrom
<1>4. CASE BeginCommit(s)
  <2>1. commits + 1 \in 0..MaxCommits
    BY <1>4, LimitAssumption DEF BeginCommit
  <2>2. server[s].batch \subseteq Chunk /\ server[s].files \subseteq Paths
    BY <1>s DEF Server
  <2>3. Stamped(server[s].batch, commits + 1) \subseteq Row
    BY <2>1, <2>2, StampedRows
  <2>4. [CheckedOut(server[s]) EXCEPT !.pc = "commit", !.todo = server[s].files,
           !.left = Stamped(server[s].batch, commits + 1)] \in Server
    BY <1>s, <2>2, <2>3, CheckedOutServer DEF Server
  <2> QED BY <1>4, <1>a, <2>1, <2>2, <2>4 DEF BeginCommit
<1>5. CASE \E f \in Paths : DeleteRows(s, f) \/ DeleteUnopened(s, f)
  <2> PICK f \in Paths : DeleteRows(s, f) \/ DeleteUnopened(s, f)
    BY <1>5
  <2>1. CASE DeleteRows(s, f)
    <3> DEFINE me == Opened(server[s])
               kept == rows \ RowsOf(me.seen, f)
    <3>1. me \in Server /\ kept \subseteq Row
      BY <1>s, OpenedServer
    <3> HIDE DEF me, kept
    <3>2. /\ [me EXCEPT !.seen = kept, !.todo = @ \ {f}] \in Server
          /\ [me EXCEPT !.todo = @ \ {f}] \in Server
      BY <3>1 DEF Server
    <3>3. \/ /\ rows' = kept
             /\ server' = [server EXCEPT ![s] = [me EXCEPT !.seen = kept, !.todo = @ \ {f}]]
          \/ /\ rows' = rows
             /\ server' = [server EXCEPT ![s] = [me EXCEPT !.todo = @ \ {f}]]
      BY <2>1 DEF DeleteRows, me, kept
    <3>4. server' \in [Servers -> Server]
      BY <1>a, <3>2, <3>3
    <3> QED BY <2>1, <3>1, <3>3, <3>4 DEF DeleteRows
  <2>2. CASE DeleteUnopened(s, f)
    <3>1. [server[s] EXCEPT !.todo = @ \ {f}] \in Server
      BY <1>s DEF Server
    <3> QED BY <2>2, <1>a, <3>1 DEF DeleteUnopened
  <2> QED BY <2>1, <2>2
<1>6. CASE \E batch \in SUBSET server[s].left : WriteChunks(s, batch)
  <2> PICK batch \in SUBSET server[s].left : WriteChunks(s, batch)
    BY <1>6
  <2>1. server[s].left \subseteq Row /\ batch \subseteq Row
    BY <1>s DEF Server
  <2>2. [server[s] EXCEPT !.open = TRUE, !.seen = rows \cup batch, !.left = @ \ batch] \in Server
    BY <1>s, <2>1 DEF Server
  <2>3. server' = [server EXCEPT ![s] = [server[s] EXCEPT !.open = TRUE,
                                  !.seen = rows \cup batch, !.left = @ \ batch]]
    BY DEF WriteChunks
  <2>4. server' \in [Servers -> Server]
    BY <1>a, <2>2, <2>3
  <2>5. /\ rows' = rows \cup batch /\ exists' = TRUE
        /\ UNCHANGED <<recorded, lock, commits, crashes, settled, unopened, halfway,
                       identified>>
    BY DEF WriteChunks
  <2> QED BY <2>1, <2>4, <2>5
<1>7. CASE EndCommit(s)
  <2> DEFINE names == server[s].embedded /\ server[s].identity = NoModel
             store == IF names /\ server[s].config # Disabled
                      THEN Opened(server[s]) ELSE server[s]
  <2>1. store \in Server /\ TurnOver(store) \in Server
    BY <1>s, OpenedServer, TurnOverServer
  <2>2. server[s].config \in Configurations /\ server[s].batch \subseteq Chunk
    BY <1>s DEF Server
  <2>3. WrittenIdentity(server[s].config) \in Models \cup {NoModel}
    BY <2>2 DEF WrittenIdentity, Configurations
  <2>4. [TurnOver(store) EXCEPT
           !.identity = IF names THEN WrittenIdentity(server[s].config) ELSE @,
           !.unsaved = TRUE] \in Server
    BY <2>1, <2>3 DEF Server
  <2>5. \A f \in Paths : RowsOf(Stamped(server[s].batch, commits), f) \in SUBSET Row
    BY <2>2, StampedRows DEF RowsOf
  <2>6. settled' \in [Paths -> SUBSET Row]
    BY <1>7, <2>5 DEF EndCommit
  <2>7. server' = [server EXCEPT ![s] = [TurnOver(store) EXCEPT
           !.identity = IF names THEN WrittenIdentity(server[s].config) ELSE @,
           !.unsaved = TRUE]]
    BY <1>7 DEF EndCommit
  <2>8. server' \in [Servers -> Server]
    BY <1>a, <2>4, <2>7
  <2> QED BY <1>7, <2>6, <2>8 DEF EndCommit
<1>8. CASE TurnFails(s)
  BY <1>8, <1>s, <1>a, TurnOverServer DEF TurnFails
<1>9. CASE Persist(s)
  <2>1. /\ [server[s] EXCEPT !.unsaved = FALSE] \in Server
        /\ server[s].identity \in Models \cup {NoModel}
    BY <1>s DEF Server
  <2> QED BY <1>9, <1>a, <2>1 DEF Persist
<1>10. CASE Crash(s)
  BY <1>10, <1>a, DownServer, LimitAssumption DEF Crash
<1> QED BY <1>1, <1>2, <1>3, <1>4, <1>5, <1>6, <1>7, <1>8, <1>9, <1>10 DEF Step

\* Every reachable state of the table and its servers is one the model declares
\* (store.rs LanceDbStore, live.rs LiveState).
THEOREM TypeCorrect == VectorSpec => []VectorTypeOK
<1>1. VectorInit => VectorTypeOK
  <2> SUFFICES ASSUME VectorInit PROVE VectorTypeOK
    OBVIOUS
  <2>1. rows \subseteq Row /\ exists \in BOOLEAN /\ recorded \in Models \cup {NoModel}
    BY BuiltRows DEF VectorInit
  <2>2. settled \in [Paths -> SUBSET Row]
    BY <2>1 DEF VectorInit, RowsOf
  <2> QED BY <2>1, <2>2, DownServer, LimitAssumption DEF VectorInit, VectorTypeOK
<1>2. QED
  BY <1>1, TypeStep, PTL DEF VectorSpec

---------------------------------------------------------------------------
(* Vectors and models.                                                     *)

\* Where rows come from: the table takes them from the server that writes, a handle from
\* the table, what is left to write from the batch; only Prepare makes a new batch.
LEMMA Flow ==
  ASSUME VectorTypeOK, NEW s \in Servers, Step(s)
  PROVE  /\ rows' \subseteq rows \cup server[s].left
         /\ \A t \in Servers \ {s} : server'[t] = server[t]
         /\ server'[s].seen \subseteq server[s].seen \cup rows \cup server[s].left
         /\ server'[s].left \subseteq server[s].left \cup Stamped(server[s].batch, commits + 1)
         /\ \/ server'[s].batch \subseteq server[s].batch
            \/ \E texts \in Turns, present \in SUBSET Paths, reached \in BOOLEAN :
                 Prepare(s, texts, present, reached)
<1>t. /\ server \in [Servers -> Server] /\ server[s] \in Server
      /\ rows \subseteq Row /\ exists \in BOOLEAN
  BY DEF VectorTypeOK
<1>o. /\ Opened(server[s]).seen \subseteq server[s].seen \cup rows
      /\ Opened(server[s]).left = server[s].left /\ Opened(server[s]).batch = server[s].batch
      /\ Opened(server[s]) \in Server
  BY <1>t, OpenedServer
<1>1. CASE \E config \in Configurations, empty \in BOOLEAN : Load(s, config, empty)
  <2> PICK config \in Configurations, empty \in BOOLEAN : Load(s, config, empty)
    BY <1>1
  <2> QED BY <1>t DEF Load, Down
<1>2. CASE OpenTable(s)
  BY <1>2, <1>t, <1>o DEF OpenTable
<1>3. CASE \E texts \in Turns, present \in SUBSET Paths, reached \in BOOLEAN :
             Prepare(s, texts, present, reached)
  <2> PICK texts \in Turns, present \in SUBSET Paths, reached \in BOOLEAN :
             Prepare(s, texts, present, reached)
    BY <1>3
  <2>1. PICK me \in Server, batch \in SUBSET Chunk, embeds \in BOOLEAN :
           PreparedFrom(s, texts, me, batch, embeds)
    BY PrepareStep
  <2>2. /\ server' = [server EXCEPT ![s] = [me EXCEPT !.pc = "prepared",
                        !.files = DOMAIN texts, !.embedded = embeds, !.batch = batch]]
        /\ me = server[s] \/ me = Opened(server[s])
    BY <2>1 DEF PreparedFrom
  <2>3. me.seen \subseteq server[s].seen \cup rows /\ me.left = server[s].left
    BY <1>o, <2>2
  <2>4. server'[s].seen = me.seen /\ server'[s].left = me.left
    BY <1>t, <2>2 DEF Server
  <2>5. rows' = rows
    BY DEF Prepare
  <2> QED BY <1>3, <1>t, <2>2, <2>3, <2>4, <2>5
<1>4. CASE BeginCommit(s)
  <2>1. server' = [server EXCEPT ![s] = [CheckedOut(server[s]) EXCEPT !.pc = "commit",
                   !.todo = server[s].files, !.left = Stamped(server[s].batch, commits + 1)]]
    BY <1>4 DEF BeginCommit
  <2>2. /\ CheckedOut(server[s]) \in Server /\ CheckedOut(server[s]).batch = server[s].batch
        /\ CheckedOut(server[s]).seen \subseteq server[s].seen \cup rows
    BY <1>t, CheckedOutServer
  <2>3. /\ server'[s].seen = CheckedOut(server[s]).seen /\ server'[s].batch = server[s].batch
        /\ server'[s].left = Stamped(server[s].batch, commits + 1)
    BY <1>t, <2>1, <2>2 DEF Server
  <2> QED BY <1>4, <1>t, <2>1, <2>2, <2>3 DEF BeginCommit
<1>5. CASE \E f \in Paths : DeleteRows(s, f) \/ DeleteUnopened(s, f)
  <2> PICK f \in Paths : DeleteRows(s, f) \/ DeleteUnopened(s, f)
    BY <1>5
  <2>1. CASE DeleteRows(s, f)
    <3> DEFINE me == Opened(server[s])
               kept == rows \ RowsOf(me.seen, f)
    <3>1. me \in Server /\ kept \subseteq rows
      BY <1>o
    <3>2. me.seen \subseteq server[s].seen \cup rows /\ me.left = server[s].left
          /\ me.batch = server[s].batch
      BY <1>o
    <3> HIDE DEF me, kept
    <3>3. rows' \in {kept, rows}
      BY <2>1, DeletedRows DEF me, kept
    <3>4. server' = [server EXCEPT ![s] = [me EXCEPT !.seen = IF me.open THEN kept ELSE me.seen,
                                                     !.todo = me.todo \ {f}]]
      BY <2>1, DeletedRows DEF me, kept
    <3>5. /\ server'[s].seen \in {kept, me.seen}
          /\ server'[s].left = me.left /\ server'[s].batch = me.batch
      BY <1>t, <3>1, <3>4 DEF Server
    <3> QED BY <1>t, <3>1, <3>2, <3>3, <3>4, <3>5
  <2>2. CASE DeleteUnopened(s, f)
    <3>1. server' = [server EXCEPT ![s] = [server[s] EXCEPT !.todo = @ \ {f}]] /\ rows' = rows
      BY <2>2 DEF DeleteUnopened
    <3> QED BY <1>t, <3>1 DEF Server
  <2> QED BY <2>1, <2>2
<1>6. CASE \E batch \in SUBSET server[s].left : WriteChunks(s, batch)
  <2> PICK batch \in SUBSET server[s].left : WriteChunks(s, batch)
    BY <1>6
  <2> QED BY <1>t DEF WriteChunks, Server
<1>7. CASE EndCommit(s)
  <2> DEFINE names == server[s].embedded /\ server[s].identity = NoModel
             store == IF names /\ server[s].config # Disabled
                      THEN Opened(server[s]) ELSE server[s]
  <2>1. /\ store \in Server /\ TurnOver(store) \in Server
        /\ TurnOver(store).batch = {} /\ TurnOver(store).left = {}
         /\ TurnOver(store).seen = store.seen
    BY <1>o, <1>t, TurnOverServer
  <2>2. store.seen \subseteq server[s].seen \cup rows
    BY <1>o
  <2>3. /\ rows' = rows
        /\ server' = [server EXCEPT ![s] = [TurnOver(store) EXCEPT
             !.identity = IF names THEN WrittenIdentity(server[s].config) ELSE @,
             !.unsaved = TRUE]]
    BY <1>7 DEF EndCommit
  <2> HIDE DEF store, names
  <2>4. server'[s].batch = {} /\ server'[s].left = {} /\ server'[s].seen = store.seen
    BY <1>t, <2>1, <2>3 DEF Server
  <2> QED BY <1>t, <2>2, <2>3, <2>4
<1>8. CASE TurnFails(s)
  BY <1>8, <1>t, TurnOverServer DEF TurnFails
<1>9. CASE Persist(s)
  BY <1>9, <1>t DEF Persist, Server
<1>10. CASE Crash(s)
  BY <1>10, <1>t DEF Crash, Down
<1> QED BY <1>1, <1>2, <1>3, <1>4, <1>5, <1>6, <1>7, <1>8, <1>9, <1>10 DEF Step

\* Every vector held anywhere is that of its text.
Fits(c) == c.vec.of = c.text

VectorInvariant ==
  /\ \A r \in rows : Fits(r.chunk)
  /\ \A s \in Servers : /\ \A r \in server[s].seen \cup server[s].left : Fits(r.chunk)
                       /\ \A c \in server[s].batch : Fits(c)

LEMMA VectorStep ==
  VectorTypeOK /\ VectorInvariant /\ [VectorNext]_vectorVars => VectorInvariant'
<1> SUFFICES ASSUME VectorTypeOK, VectorInvariant, [VectorNext]_vectorVars PROVE VectorInvariant'
  OBVIOUS
<1>0. CASE UNCHANGED vectorVars
  BY <1>0 DEF vectorVars, VectorInvariant
<1> SUFFICES ASSUME NEW s \in Servers, Step(s) PROVE VectorInvariant'
  BY <1>0 DEF VectorNext
<1>1. \A r \in rows \cup server[s].seen \cup server[s].left : Fits(r.chunk)
  BY DEF VectorInvariant
<1>2. \A r \in Stamped(server[s].batch, commits + 1) : Fits(r.chunk)
  BY DEF VectorInvariant, Stamped
<1>3. /\ \A r \in rows' : Fits(r.chunk)
      /\ \A r \in server'[s].seen \cup server'[s].left : Fits(r.chunk)
  BY <1>1, <1>2, Flow
<1>4. \A c \in server'[s].batch : Fits(c)
  <2>1. CASE server'[s].batch \subseteq server[s].batch
    BY <2>1 DEF VectorInvariant
  <2>2. ASSUME NEW texts \in Turns, NEW present \in SUBSET Paths, NEW reached \in BOOLEAN,
               Prepare(s, texts, present, reached)
        PROVE  \A c \in server'[s].batch : Fits(c)
    <3>1. PICK me \in Server, batch \in SUBSET Chunk, embeds \in BOOLEAN :
             PreparedFrom(s, texts, me, batch, embeds)
      BY <2>2, PrepareStep
    <3>2. server'[s].batch = batch
      BY <3>1 DEF PreparedFrom, VectorTypeOK, Server
    <3>3. \A r \in me.seen : Fits(r.chunk)
      BY <1>1, <3>1, OpenedServer DEF PreparedFrom, VectorTypeOK
    <3>4. ASSUME NEW c \in batch PROVE Fits(c)
      <4>1. CASE c.vec = [of |-> c.text, model |-> me.config]
        BY <4>1 DEF Fits
      <4>2. CASE \E r \in me.seen : r.chunk.text = c.text /\ r.chunk.vec = c.vec
        BY <3>3, <4>2 DEF Fits
      <4> QED BY <3>1, <4>1, <4>2 DEF PreparedFrom
    <3> QED BY <3>2, <3>4
  <2> QED BY <2>1, <2>2, Flow
<1>5. \A t \in Servers \ {s} : server'[t] = server[t]
  BY Flow
<1> QED BY <1>3, <1>4, <1>5 DEF VectorInvariant

\* A row's vector is that of its text (store.rs embed_chunks): reused or fresh, and
\* whatever version of the table the server that wrote it had read.
THEOREM VectorsAreOfTheirTexts == VectorSpec => []VectorsFitTexts
<1>1. VectorInit => VectorInvariant
  <2> SUFFICES ASSUME VectorInit PROVE VectorInvariant
    OBVIOUS
  <2>1. PICK model \in Models, texts \in Turns : rows \in {{}, Built(model, texts)}
    BY DEF VectorInit
  <2>2. \A r \in rows : Fits(r.chunk)
    BY <2>1, BuiltRows DEF Fits
  <2> QED BY <2>2 DEF VectorInit, VectorInvariant, Down
<1>2. VectorInvariant => VectorsFitTexts
  BY DEF VectorInvariant, VectorsFitTexts, Fits
<1>3. QED
  BY <1>1, <1>2, VectorStep, TypeCorrect, PTL DEF VectorSpec

\* While every server compared its model with the recorded one, all vectors held by
\* anyone are of that model, and so is every server that embeds.
ModelInvariant ==
  identified =>
    /\ recorded # NoModel
    /\ \A r \in rows : r.chunk.vec.model = recorded
    /\ \A s \in Servers :
         /\ \A r \in server[s].seen \cup server[s].left : r.chunk.vec.model = recorded
         /\ \A c \in server[s].batch : c.vec.model = recorded
         /\ server[s].pc # "down" =>
              /\ server[s].identity = recorded
              /\ ~server[s].mismatch /\ server[s].config # Disabled => server[s].config = recorded

\* What a step does to what a server knows about models.
LEMMA Knowledge ==
  ASSUME VectorTypeOK, NEW s \in Servers, Step(s)
  PROVE  \/ \E config \in Configurations, empty \in BOOLEAN : Load(s, config, empty)
         \/ /\ identified' = identified /\ server[s].pc # "down"
            /\ recorded' = recorded \/ recorded' = server[s].identity
            /\ \/ server'[s].pc = "down"
               \/ /\ server'[s].config = server[s].config
                  /\ server'[s].mismatch = server[s].mismatch
                  /\ server[s].identity # NoModel => server'[s].identity = server[s].identity
<1>t. /\ server \in [Servers -> Server] /\ server[s] \in Server
      /\ rows \subseteq Row /\ exists \in BOOLEAN
  BY DEF VectorTypeOK
<1>o. /\ Opened(server[s]).config = server[s].config /\ Opened(server[s]) \in Server
      /\ Opened(server[s]).mismatch = server[s].mismatch
      /\ Opened(server[s]).identity = server[s].identity
  BY <1>t, OpenedServer
<1>2. CASE OpenTable(s)
  BY <1>2, <1>t, <1>o DEF OpenTable
<1>3. CASE \E texts \in Turns, present \in SUBSET Paths, reached \in BOOLEAN :
             Prepare(s, texts, present, reached)
  <2> PICK texts \in Turns, present \in SUBSET Paths, reached \in BOOLEAN :
             Prepare(s, texts, present, reached)
    BY <1>3
  <2>1. PICK me \in Server, batch \in SUBSET Chunk, embeds \in BOOLEAN :
           PreparedFrom(s, texts, me, batch, embeds)
    BY PrepareStep
  <2>2. /\ server' = [server EXCEPT ![s] = [me EXCEPT !.pc = "prepared",
                        !.files = DOMAIN texts, !.embedded = embeds, !.batch = batch]]
        /\ me = server[s] \/ me = Opened(server[s])
    BY <2>1 DEF PreparedFrom
  <2>3. /\ server'[s].config = me.config /\ server'[s].mismatch = me.mismatch
        /\ server'[s].identity = me.identity
    BY <1>t, <2>2 DEF Server
  <2>4. server[s].pc = "ready" /\ identified' = identified /\ recorded' = recorded
    BY DEF Prepare
  <2> QED BY <1>o, <2>2, <2>3, <2>4
<1>4. CASE BeginCommit(s)
  <2>1. server' = [server EXCEPT ![s] = [CheckedOut(server[s]) EXCEPT !.pc = "commit",
                   !.todo = server[s].files, !.left = Stamped(server[s].batch, commits + 1)]]
    BY <1>4 DEF BeginCommit
  <2>2. CheckedOut(server[s]) \in Server
    BY <1>t, CheckedOutServer
  <2>3. /\ server'[s].config = CheckedOut(server[s]).config
        /\ server'[s].mismatch = CheckedOut(server[s]).mismatch
        /\ server'[s].identity = CheckedOut(server[s]).identity
    BY <1>t, <2>1, <2>2 DEF Server
  <2> QED BY <1>4, <1>t, <2>3, CheckedOutServer DEF BeginCommit
<1>5. CASE \E f \in Paths : DeleteRows(s, f) \/ DeleteUnopened(s, f)
  <2> PICK f \in Paths : DeleteRows(s, f) \/ DeleteUnopened(s, f)
    BY <1>5
  <2>1. CASE DeleteRows(s, f)
    <3> DEFINE me == Opened(server[s])
               kept == rows \ RowsOf(me.seen, f)
    <3>1. server' = [server EXCEPT ![s] = [me EXCEPT !.seen = IF me.open THEN kept ELSE me.seen,
                                                     !.todo = me.todo \ {f}]]
      BY <2>1, DeletedRows
    <3> HIDE DEF me, kept
    <3>2. me \in Server
      BY <1>o DEF me
    <3>3. /\ server'[s].config = me.config /\ server'[s].mismatch = me.mismatch
          /\ server'[s].identity = me.identity
      BY <1>t, <3>1, <3>2 DEF Server
    <3> QED BY <2>1, <1>o, <3>3 DEF DeleteRows, me
  <2>2. CASE DeleteUnopened(s, f)
    <3>1. server' = [server EXCEPT ![s] = [server[s] EXCEPT !.todo = @ \ {f}]]
      BY <2>2 DEF DeleteUnopened
    <3> QED BY <2>2, <1>t, <3>1 DEF DeleteUnopened, Server
  <2> QED BY <2>1, <2>2
<1>6. CASE \E batch \in SUBSET server[s].left : WriteChunks(s, batch)
  <2> PICK batch \in SUBSET server[s].left : WriteChunks(s, batch)
    BY <1>6
  <2> QED BY <1>t DEF WriteChunks, Server
<1>7. CASE EndCommit(s)
  <2> DEFINE names == server[s].embedded /\ server[s].identity = NoModel
             store == IF names /\ server[s].config # Disabled
                      THEN Opened(server[s]) ELSE server[s]
  <2>1. /\ TurnOver(store) \in Server /\ TurnOver(store).config = server[s].config
        /\ TurnOver(store).mismatch = server[s].mismatch
         /\ TurnOver(store).identity = server[s].identity
    BY <1>o, <1>t, TurnOverServer
  <2>2. server' = [server EXCEPT ![s] = [TurnOver(store) EXCEPT
             !.identity = IF names THEN WrittenIdentity(server[s].config) ELSE @,
             !.unsaved = TRUE]]
    BY <1>7 DEF EndCommit
  <2>3. names => server[s].identity = NoModel
    OBVIOUS
  <2> HIDE DEF store, names
  <2>4. /\ server'[s].config = server[s].config /\ server'[s].mismatch = server[s].mismatch
        /\ ~names => server'[s].identity = server[s].identity
    BY <1>t, <2>1, <2>2 DEF Server
  <2> QED BY <1>7, <2>3, <2>4 DEF EndCommit
<1>8. CASE TurnFails(s)
  BY <1>8, <1>t, TurnOverServer DEF TurnFails
<1>9. CASE Persist(s)
  BY <1>9, <1>t DEF Persist, Server
<1>10. CASE Crash(s)
  BY <1>10, <1>t DEF Crash, Down
<1> QED BY <1>2, <1>3, <1>4, <1>5, <1>6, <1>7, <1>8, <1>9, <1>10 DEF Step

LEMMA ModelStep ==
  VectorTypeOK /\ ModelInvariant /\ [VectorNext]_vectorVars => ModelInvariant'
<1> SUFFICES ASSUME VectorTypeOK, ModelInvariant, [VectorNext]_vectorVars, identified'
             PROVE  /\ recorded' # NoModel
                    /\ \A r \in rows' : r.chunk.vec.model = recorded'
                    /\ \A s \in Servers :
                         /\ \A r \in server'[s].seen \cup server'[s].left :
                              r.chunk.vec.model = recorded'
                         /\ \A c \in server'[s].batch : c.vec.model = recorded'
                         /\ server'[s].pc # "down" =>
                              /\ server'[s].identity = recorded'
                              /\ ~server'[s].mismatch /\ server'[s].config # Disabled
                                   => server'[s].config = recorded'
  BY DEF ModelInvariant
<1>0. CASE UNCHANGED vectorVars
  BY <1>0 DEF vectorVars, ModelInvariant
<1>n. ASSUME NEW s \in Servers, Step(s)
      PROVE  /\ recorded' # NoModel
             /\ \A r \in rows' : r.chunk.vec.model = recorded'
             /\ \A t \in Servers :
                  /\ \A r \in server'[t].seen \cup server'[t].left :
                       r.chunk.vec.model = recorded'
                  /\ \A c \in server'[t].batch : c.vec.model = recorded'
                  /\ server'[t].pc # "down" =>
                       /\ server'[t].identity = recorded'
                       /\ ~server'[t].mismatch /\ server'[t].config # Disabled
                            => server'[t].config = recorded'
  <2>1. identified
    BY <1>n, Knowledge DEF Load
  <2>2. recorded' = recorded /\ recorded # NoModel
    BY <1>n, <2>1, Knowledge DEF Load, ModelInvariant
  <2>3. \A r \in rows \cup server[s].seen \cup server[s].left : r.chunk.vec.model = recorded
    BY <2>1 DEF ModelInvariant
  <2>4. \A r \in Stamped(server[s].batch, commits + 1) : r.chunk.vec.model = recorded
    BY <2>1 DEF ModelInvariant, Stamped
  <2>5. /\ \A r \in rows' : r.chunk.vec.model = recorded
        /\ \A r \in server'[s].seen \cup server'[s].left : r.chunk.vec.model = recorded
    BY <1>n, <2>3, <2>4, Flow
  <2>6. \A c \in server'[s].batch : c.vec.model = recorded
    <3>1. CASE server'[s].batch \subseteq server[s].batch
      BY <2>1, <3>1 DEF ModelInvariant
    <3>2. ASSUME NEW texts \in Turns, NEW present \in SUBSET Paths, NEW reached \in BOOLEAN,
                 Prepare(s, texts, present, reached)
          PROVE  \A c \in server'[s].batch : c.vec.model = recorded
      <4>1. PICK me \in Server, batch \in SUBSET Chunk, embeds \in BOOLEAN :
               PreparedFrom(s, texts, me, batch, embeds)
        BY <3>2, PrepareStep
      <4>2. server'[s].batch = batch
        BY <4>1 DEF PreparedFrom, VectorTypeOK, Server
      <4>3. /\ \A r \in me.seen : r.chunk.vec.model = recorded
            /\ me.config = server[s].config /\ me.mismatch = server[s].mismatch
        BY <2>3, <4>1, OpenedServer DEF PreparedFrom, VectorTypeOK
      <4>4. server[s].pc = "ready"
        BY <3>2 DEF Prepare
      <4>5. ASSUME NEW c \in batch PROVE c.vec.model = recorded
        <5>1. ~me.mismatch /\ me.config # Disabled
          BY <4>1, ConfigurationAssumption DEF PreparedFrom
        <5>2. me.config = recorded
          BY <2>1, <4>3, <4>4, <5>1 DEF ModelInvariant
        <5>3. CASE c.vec = [of |-> c.text, model |-> me.config]
          BY <5>2, <5>3
        <5>4. CASE \E r \in me.seen : r.chunk.text = c.text /\ r.chunk.vec = c.vec
          BY <4>3, <5>4
        <5> QED BY <4>1, <5>3, <5>4 DEF PreparedFrom
      <4> QED BY <4>2, <4>5
    <3> QED BY <1>n, <3>1, <3>2, Flow
  <2>7. server'[s].pc # "down" =>
          /\ server'[s].identity = recorded
          /\ ~server'[s].mismatch /\ server'[s].config # Disabled => server'[s].config = recorded
    <3>1. CASE \E config \in Configurations, empty \in BOOLEAN : Load(s, config, empty)
      <4> PICK config \in Configurations, empty \in BOOLEAN : Load(s, config, empty)
        BY <3>1
      <4>1. /\ server'[s].identity = recorded /\ server'[s].config = config
            /\ server'[s].mismatch = (~empty /\ MismatchWith(config, recorded)) /\ ~empty
        BY DEF Load, VectorTypeOK, Down
      <4> QED BY <2>2, <4>1 DEF MismatchWith
    <3>2. CASE /\ server[s].pc # "down"
               /\ server'[s].config = server[s].config
               /\ server'[s].mismatch = server[s].mismatch
               /\ server[s].identity # NoModel => server'[s].identity = server[s].identity
      BY <2>1, <2>2, <3>2 DEF ModelInvariant
    <3> QED BY <1>n, <3>1, <3>2, Knowledge
  <2>8. \A t \in Servers \ {s} : server'[t] = server[t]
    BY <1>n, Flow
  <2> QED BY <2>1, <2>2, <2>5, <2>6, <2>7, <2>8 DEF ModelInvariant
<1> QED BY <1>0, <1>n DEF VectorNext

\* Vectors of two models neither meet in the table nor are compared in a search
\* (embedder.rs mismatch_with, live.rs load and apply_delta), in a generation built with
\* a recorded model whose graph no server found empty.
THEOREM OneModelPerTable == VectorSpec => []OneModel
<1>1. VectorInit => ModelInvariant
  <2> SUFFICES ASSUME VectorInit, identified PROVE ModelInvariant
    BY DEF ModelInvariant
  <2>1. recorded # NoModel
    BY ConfigurationAssumption DEF VectorInit
  <2>2. \A s \in Servers : server[s] = Down
    BY DEF VectorInit
  <2>3. PICK model \in Models, texts \in Turns :
          rows = Built(model, texts) /\ recorded = model
    BY DEF VectorInit
  <2>4. \A r \in rows : r.chunk.vec.model = recorded
    BY <2>3, BuiltRows
  <2> QED BY <2>1, <2>2, <2>4 DEF ModelInvariant, Down
<1>2. ModelInvariant => OneModel
  BY DEF ModelInvariant, OneModel, Searched
<1>3. QED
  BY <1>1, <1>2, ModelStep, TypeCorrect, PTL DEF VectorSpec

---------------------------------------------------------------------------
(* Commits.                                                                *)

\* What a turn prepared: chunks of its files, no two in one place.
Whole(srv) == /\ \A c \in srv.batch : c.file \in srv.files
              /\ \A c, d \in srv.batch : c.file = d.file /\ c.pos = d.pos => c = d

\* The server in its commit sees the table as it is. Of the files it cleared the table
\* holds what was written of the batch, and nothing is written before all are cleared.
Committing(s) ==
  /\ server[s].open => server[s].seen = rows
  /\ server[s].todo \subseteq server[s].files
  /\ server[s].files \subseteq halfway
  /\ server[s].left \subseteq Stamped(server[s].batch, commits)
  /\ server[s].todo # {} => server[s].left = Stamped(server[s].batch, commits)
  /\ \A f \in server[s].files \ (server[s].todo \cup unopened) :
       RowsOf(rows, f) = RowsOf(Stamped(server[s].batch, commits) \ server[s].left, f)

CommitInvariant ==
  /\ exists \/ rows = {}
  /\ \A s \in Servers : server[s].pc = "commit" <=> lock = s
  /\ \A s \in Servers : Whole(server[s])
  /\ \A s \in Servers : lock = s => Committing(s)
  /\ OneWritePerFile
  /\ CommittedRows

\* A step that leaves the table alone and its server outside a commit.
LEMMA Leaves ==
  ASSUME VectorTypeOK, CommitInvariant, NEW s \in Servers,
         UNCHANGED <<rows, exists, commits, settled, unopened, halfway>>,
         lock' = IF lock = s THEN NoServer ELSE lock,
         \A t \in Servers \ {s} : server'[t] = server[t],
         server'[s].pc # "commit", Whole(server'[s])
  PROVE  CommitInvariant'
<1>1. /\ (exists \/ rows = {})' /\ OneWritePerFile' /\ CommittedRows'
  BY DEF CommitInvariant, OneWritePerFile, CommittedRows
<1>2. \A t \in Servers : server'[t].pc = "commit" <=> lock' = t
  BY LockAssumption DEF CommitInvariant
<1>3. \A t \in Servers : Whole(server'[t])
  BY DEF CommitInvariant
<1>4. ASSUME NEW t \in Servers, lock' = t PROVE Committing(t)'
  <2>1. t # s /\ lock = t
    BY <1>4, LockAssumption
  <2>2. server'[t] = server[t] /\ Committing(t)
    BY <2>1 DEF CommitInvariant
  <2> QED BY <2>2 DEF Committing
<1> QED BY <1>1, <1>2, <1>3, <1>4 DEF CommitInvariant

\* A step of the server that is in its commit afterwards.
LEMMA Commits ==
  ASSUME VectorTypeOK, CommitInvariant, NEW s \in Servers,
         lock \in {s, NoServer}, lock' = s,
         \A t \in Servers \ {s} : server'[t] = server[t],
         server'[s].pc = "commit", Whole(server'[s]), Committing(s)',
         exists' \/ rows' = {}, OneWritePerFile', CommittedRows'
  PROVE  CommitInvariant'
<1>1. \A t \in Servers : server'[t].pc = "commit" <=> lock' = t
  BY LockAssumption DEF CommitInvariant
<1>2. \A t \in Servers : Whole(server'[t])
  BY DEF CommitInvariant
<1> QED BY <1>1, <1>2 DEF CommitInvariant

\* Every step keeps the commit invariant.
LEMMA CommitStep ==
  ASSUME VectorTypeOK, CommitInvariant, [VectorNext]_vectorVars
  PROVE  CommitInvariant'
<1>0. CASE UNCHANGED vectorVars
  BY <1>0 DEF vectorVars, CommitInvariant, Committing, OneWritePerFile, CommittedRows
<1> SUFFICES ASSUME NEW s \in Servers, Step(s) PROVE CommitInvariant'
  BY <1>0 DEF VectorNext
<1>t. /\ server \in [Servers -> Server] /\ server[s] \in Server
      /\ rows \subseteq Row /\ exists \in BOOLEAN
  BY DEF VectorTypeOK
<1>o. \A t \in Servers \ {s} : server'[t] = server[t]
  BY Flow
<1>w. Whole(server[s]) /\ (server[s].pc = "commit" <=> lock = s) /\ (lock = s => Committing(s))
  BY DEF CommitInvariant
<1>1. CASE \E config \in Configurations, empty \in BOOLEAN : Load(s, config, empty)
  <2> PICK config \in Configurations, empty \in BOOLEAN : Load(s, config, empty)
    BY <1>1
  <2>1. server'[s].pc = "ready" /\ Whole(server'[s])
    BY <1>t DEF Load, Down, Whole
  <2>2. lock # s
    BY <1>w DEF Load
  <2> QED BY <1>o, <2>1, <2>2, Leaves DEF Load
<1>2. CASE OpenTable(s)
  <2>1. server'[s].pc = "ready" /\ Whole(server'[s])
    BY <1>2, <1>t, <1>w, OpenedServer DEF OpenTable, Whole
  <2>2. lock # s
    BY <1>2, <1>w DEF OpenTable
  <2> QED BY <1>2, <1>o, <2>1, <2>2, Leaves DEF OpenTable
<1>3. CASE \E texts \in Turns, present \in SUBSET Paths, reached \in BOOLEAN :
             Prepare(s, texts, present, reached)
  <2> PICK texts \in Turns, present \in SUBSET Paths, reached \in BOOLEAN :
             Prepare(s, texts, present, reached)
    BY <1>3
  <2>1. PICK me \in Server, batch \in SUBSET Chunk, embeds \in BOOLEAN :
           PreparedFrom(s, texts, me, batch, embeds)
    BY PrepareStep
  <2>2. server' = [server EXCEPT ![s] = [me EXCEPT !.pc = "prepared",
                     !.files = DOMAIN texts, !.embedded = embeds, !.batch = batch]]
    BY <2>1 DEF PreparedFrom
  <2>3. /\ server'[s].pc = "prepared" /\ server'[s].batch = batch
        /\ server'[s].files = DOMAIN texts
    BY <1>t, <2>2 DEF Server
  <2>4. Whole(server'[s])
    BY <2>1, <2>3 DEF PreparedFrom, Whole
  <2>5. lock # s
    BY <1>w DEF Prepare
  <2>6. UNCHANGED <<rows, exists, commits, settled, unopened, halfway, lock>>
    BY DEF Prepare
  <2> QED BY <1>o, <2>3, <2>4, <2>5, <2>6, Leaves
<1>4. CASE BeginCommit(s)
  <2>1. server' = [server EXCEPT ![s] = [CheckedOut(server[s]) EXCEPT !.pc = "commit",
                   !.todo = server[s].files, !.left = Stamped(server[s].batch, commits + 1)]]
    BY <1>4 DEF BeginCommit
  <2>2. /\ CheckedOut(server[s]) \in Server
        /\ CheckedOut(server[s]).open => CheckedOut(server[s]).seen = rows
    BY <1>t, CheckedOutServer
  <2>3. /\ server'[s].seen = CheckedOut(server[s]).seen
        /\ server'[s].open = CheckedOut(server[s]).open
        /\ server'[s].pc = "commit" /\ server'[s].batch = server[s].batch
        /\ server'[s].files = server[s].files /\ server'[s].todo = server[s].files
        /\ server'[s].left = Stamped(server[s].batch, commits + 1)
    BY <1>t, <2>1, <2>2, CheckedOutServer DEF Server
  <2>4. /\ commits' = commits + 1 /\ halfway' = halfway \cup server[s].files
        /\ rows' = rows /\ exists' = exists /\ settled' = settled /\ unopened' = unopened
        /\ lock = NoServer /\ lock' = s
    BY <1>4 DEF BeginCommit
  <2>5. Whole(server'[s])
    BY <1>w, <2>3 DEF Whole
  <2>6. Committing(s)'
    BY <2>2, <2>3, <2>4 DEF Committing
  <2>7. OneWritePerFile' /\ CommittedRows' /\ (exists' \/ rows' = {})
    BY <2>4 DEF CommitInvariant, OneWritePerFile, CommittedRows
  <2> QED BY <1>o, <2>3, <2>4, <2>5, <2>6, <2>7, Commits
<1>5. CASE \E f \in Paths : DeleteRows(s, f)
  <2> PICK f \in Paths : DeleteRows(s, f)
    BY <1>5
  <2> DEFINE me == Opened(server[s])
             kept == rows \ RowsOf(me.seen, f)
  <2>1. server[s].pc = "commit" /\ lock = s /\ Committing(s) /\ f \in server[s].todo
    BY <1>w DEF DeleteRows
  <2>2. /\ me \in Server /\ me.pc = "commit" /\ me.files = server[s].files
        /\ me.batch = server[s].batch /\ me.left = server[s].left /\ me.todo = server[s].todo
        /\ me.open => me.seen = rows
        /\ ~me.open => ~exists
    BY <1>t, <2>1, OpenedServer DEF Committing
  <2>3. /\ rows' = IF me.open THEN kept ELSE rows
        /\ server' = [server EXCEPT ![s] = [me EXCEPT
             !.seen = IF me.open THEN kept ELSE me.seen, !.todo = me.todo \ {f}]]
    BY DeletedRows
  <2> HIDE DEF me
  <2>4. rows' = {r \in rows : r.chunk.file # f}
    <3>1. CASE me.open
      BY <2>2, <2>3, <3>1 DEF RowsOf
    <3>2. CASE ~me.open
      BY <2>2, <2>3, <3>2 DEF CommitInvariant
    <3> QED BY <3>1, <3>2
  <2>5. /\ server'[s].pc = "commit" /\ server'[s].files = server[s].files
        /\ server'[s].batch = server[s].batch /\ server'[s].left = server[s].left
        /\ server'[s].todo = server[s].todo \ {f} /\ server'[s].open = me.open
        /\ server'[s].seen = IF me.open THEN kept ELSE me.seen
    <3> HIDE DEF kept
    <3> QED BY <1>t, <2>2, <2>3 DEF Server
  <2>6. server'[s].open => server'[s].seen = rows'
    BY <2>3, <2>5
  <2>7. /\ UNCHANGED <<exists, commits, settled, halfway, lock>>
        /\ unopened' = unopened \ {f}
    BY DEF DeleteRows
  <2>8. server[s].left = Stamped(server[s].batch, commits)
    BY <2>1 DEF Committing
  <2>9. ASSUME NEW g \in server[s].files \ ((server[s].todo \ {f}) \cup unopened')
        PROVE  RowsOf(rows', g) = RowsOf(Stamped(server[s].batch, commits) \ server[s].left, g)
    <3>1. CASE g = f
      BY <2>4, <2>8, <3>1 DEF RowsOf
    <3>2. CASE g # f
      BY <2>1, <2>4, <2>7, <2>8, <3>2 DEF RowsOf, Committing
    <3> QED BY <3>1, <3>2
  <2>10. Committing(s)'
    BY <2>1, <2>5, <2>6, <2>7, <2>8, <2>9 DEF Committing
  <2>11. f \in halfway
    BY <2>1 DEF Committing
  <2>12. \A g \in Paths \ halfway : RowsOf(rows', g) = RowsOf(rows, g)
    BY <2>4, <2>11 DEF RowsOf
  <2>13. OneWritePerFile'
    BY <2>4, <2>7 DEF CommitInvariant, OneWritePerFile
  <2>14. CommittedRows'
    BY <2>7, <2>11, <2>12 DEF CommitInvariant, CommittedRows
  <2>15. exists' \/ rows' = {}
    BY <2>4, <2>7 DEF CommitInvariant
  <2>16. Whole(server'[s])
    BY <1>w, <2>5 DEF Whole
  <2> QED BY <1>o, <2>1, <2>5, <2>7, <2>10, <2>13, <2>14, <2>15, <2>16, Commits
<1>11. CASE \E f \in Paths : DeleteUnopened(s, f)
  <2> PICK f \in Paths : DeleteUnopened(s, f)
    BY <1>11
  <2>1. server[s].pc = "commit" /\ lock = s /\ Committing(s) /\ f \in server[s].todo
    BY <1>w DEF DeleteUnopened
  <2>2. server' = [server EXCEPT ![s] = [server[s] EXCEPT !.todo = @ \ {f}]]
    BY DEF DeleteUnopened
  <2>3. /\ server'[s].pc = "commit" /\ server'[s].files = server[s].files
        /\ server'[s].batch = server[s].batch /\ server'[s].left = server[s].left
        /\ server'[s].todo = server[s].todo \ {f} /\ server'[s].open = server[s].open
        /\ server'[s].seen = server[s].seen
    BY <1>t, <2>1, <2>2 DEF Server
  <2>4. /\ UNCHANGED <<rows, exists, commits, settled, halfway, lock>>
        /\ unopened' = unopened \cup {f}
    BY DEF DeleteUnopened
  <2>5. Committing(s)'
    BY <2>1, <2>3, <2>4 DEF Committing
  <2>6. OneWritePerFile' /\ CommittedRows' /\ (exists' \/ rows' = {})
    BY <2>4 DEF CommitInvariant, OneWritePerFile, CommittedRows
  <2>7. Whole(server'[s])
    BY <1>w, <2>3 DEF Whole
  <2> QED BY <1>o, <2>1, <2>3, <2>4, <2>5, <2>6, <2>7, Commits
<1>6. CASE \E batch \in SUBSET server[s].left : WriteChunks(s, batch)
  <2> PICK batch \in SUBSET server[s].left : WriteChunks(s, batch)
    BY <1>6
  <2> DEFINE written == Stamped(server[s].batch, commits)
  <2>1. server[s].pc = "commit" /\ lock = s /\ Committing(s) /\ server[s].todo = {}
    BY <1>w DEF WriteChunks, Cleared
  <2>2. /\ server' = [server EXCEPT ![s] = [server[s] EXCEPT !.open = TRUE,
                               !.seen = rows \cup batch, !.left = server[s].left \ batch]]
        /\ rows' = rows \cup batch /\ exists' = TRUE
    BY DEF WriteChunks
  <2>3. /\ server'[s].pc = "commit" /\ server'[s].files = server[s].files
        /\ server'[s].batch = server[s].batch /\ server'[s].left = server[s].left \ batch
        /\ server'[s].todo = server[s].todo /\ server'[s].seen = rows'
    BY <1>t, <2>1, <2>2 DEF Server
  <2>4. UNCHANGED <<commits, settled, unopened, halfway, lock>>
    BY DEF WriteChunks
  <2>5. batch \subseteq server[s].left /\ server[s].left \subseteq written
    BY <2>1 DEF Committing
  <2>6. \A r \in written : r.chunk \in server[s].batch /\ r.chunk.file \in server[s].files
                           /\ r = [chunk |-> r.chunk, write |-> commits]
    BY <1>w DEF Stamped, Whole
  <2>7. ASSUME NEW f \in server[s].files \ unopened
        PROVE  RowsOf(rows', f) = RowsOf(written \ server'[s].left, f)
    <3>1. RowsOf(rows, f) = RowsOf(written \ server[s].left, f)
      BY <2>1 DEF Committing
    <3> HIDE DEF written
    <3> QED BY <2>2, <2>3, <2>5, <3>1 DEF RowsOf
  <2>8. Committing(s)'
    BY <2>1, <2>3, <2>4, <2>5, <2>7 DEF Committing
  <2>9. \A f \in Paths \ server[s].files : RowsOf(rows', f) = RowsOf(rows, f)
    BY <2>2, <2>5, <2>6 DEF RowsOf
  <2>10. server[s].files \subseteq halfway
    BY <2>1 DEF Committing
  <2>11. CommittedRows'
    BY <2>4, <2>9, <2>10 DEF CommitInvariant, CommittedRows
  <2>12. \A r \in rows' : r.chunk.file \in server[s].files \ unopened => r \in written
    BY <2>7 DEF RowsOf
  <2>13. \A r \in rows' : r.chunk.file \notin server[s].files => r \in rows
    BY <2>2, <2>5, <2>6
  <2>14. OneWritePerFile'
    <3> SUFFICES ASSUME NEW r1 \in rows', NEW r2 \in rows', r1.chunk.file = r2.chunk.file,
                        r1.chunk.file \notin unopened
                 PROVE  r1.write = r2.write /\ (r1.chunk.pos = r2.chunk.pos => r1 = r2)
      BY <2>4 DEF OneWritePerFile
    <3>1. CASE r1.chunk.file \in server[s].files
      <4>1. r1 \in written /\ r2 \in written
        BY <2>12, <3>1
      <4>2. r1.chunk.pos = r2.chunk.pos => r1.chunk = r2.chunk
        BY <1>w, <2>6, <4>1 DEF Whole
      <4>3. /\ r1 = [chunk |-> r1.chunk, write |-> commits]
            /\ r2 = [chunk |-> r2.chunk, write |-> commits]
        BY <2>6, <4>1
      <4> QED BY <4>2, <4>3
    <3>2. CASE r1.chunk.file \notin server[s].files
      BY <2>13, <3>2 DEF CommitInvariant, OneWritePerFile
    <3> QED BY <3>1, <3>2
  <2>15. Whole(server'[s])
    BY <1>w, <2>3 DEF Whole
  <2> QED BY <1>o, <2>1, <2>2, <2>3, <2>4, <2>8, <2>11, <2>14, <2>15, Commits
<1>7. CASE EndCommit(s)
  <2> DEFINE names == server[s].embedded /\ server[s].identity = NoModel
             store == IF names /\ server[s].config # Disabled
                      THEN Opened(server[s]) ELSE server[s]
             written == Stamped(server[s].batch, commits)
  <2>1. /\ server[s].pc = "commit" /\ lock = s /\ Committing(s)
        /\ server[s].todo = {} /\ server[s].left = {}
    BY <1>7, <1>w DEF EndCommit
  <2>2. /\ store \in Server /\ TurnOver(store) \in Server /\ TurnOver(store).pc = "ready"
        /\ TurnOver(store).batch = {} /\ TurnOver(store).files = {}
    BY <1>t, OpenedServer, TurnOverServer
  <2>3. server' = [server EXCEPT ![s] = [TurnOver(store) EXCEPT
             !.identity = IF names THEN WrittenIdentity(server[s].config) ELSE @,
             !.unsaved = TRUE]]
    BY <1>7 DEF EndCommit
  <2>4. /\ rows' = rows /\ exists' = exists /\ commits' = commits /\ lock' = NoServer
        /\ unopened' = unopened /\ halfway' = halfway \ server[s].files
        /\ settled' = [f \in Paths |-> IF f \in server[s].files
                                       THEN RowsOf(written, f) ELSE settled[f]]
    BY <1>7 DEF EndCommit
  <2>5. /\ server'[s].pc = "ready" /\ server'[s].batch = {}
    <3> HIDE DEF store, names
    <3> QED BY <1>t, <2>2, <2>3 DEF Server
  <2>6. \A f \in server[s].files \ unopened : RowsOf(rows, f) = RowsOf(written, f)
    <3>1. written \ server[s].left = written
      BY <2>1
    <3> HIDE DEF written
    <3> QED BY <2>1, <3>1 DEF Committing, written
  <2>7. CommittedRows'
    <3> SUFFICES ASSUME NEW f \in Paths \ (halfway' \cup unopened)
                 PROVE  RowsOf(rows, f) = settled'[f]
      BY <2>4 DEF CommittedRows
    <3>1. CASE f \in server[s].files
      BY <2>4, <2>6, <3>1
    <3>2. CASE f \notin server[s].files
      BY <2>4, <3>2 DEF CommitInvariant, CommittedRows
    <3> QED BY <3>1, <3>2
  <2>8. OneWritePerFile' /\ (exists' \/ rows' = {})
    BY <2>4 DEF CommitInvariant, OneWritePerFile
  <2>9. \A t \in Servers : server'[t].pc = "commit" <=> lock' = t
    BY <1>o, <2>1, <2>4, <2>5, LockAssumption DEF CommitInvariant
  <2>10. \A t \in Servers : Whole(server'[t])
    BY <1>o, <2>5 DEF CommitInvariant, Whole
  <2> QED BY <2>4, <2>7, <2>8, <2>9, <2>10, LockAssumption DEF CommitInvariant
<1>8. CASE TurnFails(s)
  <2>1. server'[s].pc = "ready" /\ Whole(server'[s])
    BY <1>8, <1>t, TurnOverServer DEF TurnFails, Whole
  <2> QED BY <1>8, <1>o, <2>1, Leaves DEF TurnFails
<1>9. CASE Persist(s)
  <2>1. server'[s].pc = "ready" /\ Whole(server'[s])
    BY <1>9, <1>t, <1>w DEF Persist, Whole, Server
  <2>2. lock # s
    BY <1>9, <1>w DEF Persist
  <2> QED BY <1>9, <1>o, <2>1, <2>2, Leaves DEF Persist
<1>10. CASE Crash(s)
  <2>1. server'[s].pc = "down" /\ Whole(server'[s])
    BY <1>10, <1>t DEF Crash, Down, Whole
  <2> QED BY <1>10, <1>o, <2>1, Leaves DEF Crash
<1> QED BY <1>1, <1>2, <1>3, <1>4, <1>5, <1>6, <1>7, <1>8, <1>9, <1>10, <1>11 DEF Step

LEMMA CommitHolds == VectorSpec => []CommitInvariant
<1>1. VectorInit => CommitInvariant
  <2> SUFFICES ASSUME VectorInit PROVE CommitInvariant
    OBVIOUS
  <2>1. \A s \in Servers : server[s] = Down /\ lock # s
    BY LockAssumption DEF VectorInit
  <2>2. OneWritePerFile
    BY BuiltRows DEF VectorInit, OneWritePerFile
  <2>3. CommittedRows /\ (exists \/ rows = {})
    BY DEF VectorInit, CommittedRows
  <2> QED BY <2>1, <2>2, <2>3 DEF CommitInvariant, Down, Whole
<1>2. VectorTypeOK /\ CommitInvariant /\ [VectorNext]_vectorVars => CommitInvariant'
  BY CommitStep
<1> QED BY <1>1, <1>2, TypeCorrect, PTL DEF VectorSpec

\* Of each file the table holds chunks of one write, each once (live.rs apply_delta,
\* store.rs checkout_latest), and those that the last finished commit of the file
\* prepared (engine.rs write_file_vectors), whatever fails or crashes in between; but
\* for files whose rows were passed over because the table could not be opened.
THEOREM TableStaysWhole == VectorSpec => []TableIsWhole
<1>1. CommitInvariant => TableIsWhole
  BY DEF CommitInvariant, TableIsWhole
<1> QED BY <1>1, CommitHolds, PTL

=============================================================================
