----------------------------- MODULE StatCache -----------------------------
(***************************************************************************)
(* The manifest's stat cache (core/src/lib.rs): a scan records for every   *)
(* file its modification time, size and content hash, and reuses the hash  *)
(* of the previous manifest without reading the file when time and size    *)
(* are unchanged and the file is old enough relative to indexed_at.        *)
(*                                                                         *)
(* Time is counted in seconds and all contents have the same size, so only *)
(* the modification time can give an edit away: that is the hard case.     *)
(* Files change at any moment, also in the middle of a scan; every change  *)
(* is stamped with the time it happens.                                    *)
(***************************************************************************)
EXTENDS Naturals

CONSTANTS
  Files,
  Contents,
  Absent,          \* content of a file that does not exist
  None,            \* no entry in a manifest, no file being read
  RacyWindow,      \* RACY_WINDOW_SECS
  Granularity,     \* of the file system's timestamps, in seconds
  MaxClock         \* bound: seconds of a behaviour

ASSUME AbsentAssumption == Absent \notin Contents
ASSUME NoneAssumption == None \notin Files
ASSUME NoEntryAssumption == None \notin [mtime : Nat, hash : Contents]
ASSUME TimeAssumption == /\ RacyWindow \in Nat
                         /\ Granularity \in Nat \ {0}
                         /\ MaxClock \in Nat

\* The window covers a timestamp granule: RACY_WINDOW_SECS is 2, the coarsest file
\* system in use (FAT) rounds to 2 seconds.
ASSUME WindowAssumption == Granularity <= RacyWindow + 1

VARIABLES
  clock,       \* unix_now_secs, also the clock that stamps files
  content,     \* content[f]: content of file f, or Absent
  mtime,       \* mtime[f]: modification time of f
  manifest,    \* manifest[f]: recorded fingerprint of f, or None
  indexedAt,   \* the manifest's indexed_at
  scan,        \* the running scan: kind, start, scope, files left to visit
  next,        \* fingerprints the running scan has collected
  reading      \* the file being hashed and its stat data, or None

vars == <<clock, content, mtime, manifest, indexedAt, scan, next, reading>>

\* Timestamps a write at time t can get: the file system rounds down.
Stamps(t) == {m \in 0..t : t < m + Granularity}

Fingerprint == [mtime : Nat, hash : Contents]

NoScan == [kind |-> "none", started |-> 0, scope |-> {}, todo |-> {}]

TypeOK ==
  /\ clock \in 0..MaxClock
  /\ content \in [Files -> Contents \cup {Absent}]
  /\ mtime \in [Files -> Nat]
  /\ manifest \in [Files -> Fingerprint \cup {None}]
  /\ indexedAt \in 0..MaxClock
  /\ scan \in [kind : {"none", "rebuild", "rescan", "targeted"}, started : 0..MaxClock,
               scope : SUBSET Files, todo : SUBSET Files]
  /\ next \in [Files -> Fingerprint \cup {None}]
  /\ reading \in [file : Files, mtime : Nat] \cup {None}

Init ==
  /\ clock = 0
  /\ content \in [Files -> Contents \cup {Absent}]
  /\ mtime = [f \in Files |-> 0]
  /\ manifest = [f \in Files |-> None]
  /\ indexedAt = 0
  /\ scan = NoScan
  /\ next = [f \in Files |-> None]
  /\ reading = None

---------------------------------------------------------------------------
(* The environment.                                                        *)

Tick ==
  /\ clock < MaxClock
  /\ clock' = clock + 1
  /\ UNCHANGED <<content, mtime, manifest, indexedAt, scan, next, reading>>

\* A file is written, created, replaced or deleted.
Edit(f) ==
  /\ \E c \in (Contents \cup {Absent}) \ {content[f]} : content' = [content EXCEPT ![f] = c]
  /\ \E m \in Stamps(clock) : mtime' = [mtime EXCEPT ![f] = m]
  /\ UNCHANGED <<clock, manifest, indexedAt, scan, next, reading>>

---------------------------------------------------------------------------
(* Scanning.                                                               *)

\* build_index_generation (rebuild: no previous manifest), build_manifest (rescan)
\* and scan_manifest_scope (targeted): the clock is read before the walk.
BeginScan(kind, scope) ==
  /\ scan.kind = "none"
  /\ kind # "targeted" => scope = Files
  /\ scan' = [kind |-> kind, started |-> clock, scope |-> scope, todo |-> scope]
  /\ next' = [f \in Files |-> None]
  /\ UNCHANGED <<clock, content, mtime, manifest, indexedAt, reading>>

\* Mutant of racy_reuse_boundary: no racy window.
NoWindow(at) == at

\* The modification time before which an unchanged stat is trusted; the
\* subtraction saturates at 0.
racy_reuse_boundary(at) == IF at >= RacyWindow THEN at - RacyWindow ELSE 0

StatUnchanged(f) == manifest[f] # None /\ content[f] # Absent /\ manifest[f].mtime = mtime[f]

\* fingerprint_reusing_previous takes the recorded hash without reading f.
Reusable(f) == StatUnchanged(f) /\ mtime[f] < racy_reuse_boundary(indexedAt)

Visit(f) ==
  /\ reading = None
  /\ f \in scan.todo
  /\ scan' = [scan EXCEPT !.todo = @ \ {f}]

Skip(f) ==
  /\ Visit(f)
  /\ content[f] = Absent
  /\ UNCHANGED <<clock, content, mtime, manifest, indexedAt, next, reading>>

Reuse(f) ==
  /\ Visit(f)
  /\ scan.kind # "rebuild"
  /\ Reusable(f)
  /\ next' = [next EXCEPT ![f] = manifest[f]]
  /\ UNCHANGED <<clock, content, mtime, manifest, indexedAt, reading>>

\* fingerprint_for_path: stat the opened file ...
Open(f) ==
  /\ Visit(f)
  /\ content[f] # Absent
  /\ scan.kind # "rebuild" => ~Reusable(f)
  /\ reading' = [file |-> f, mtime |-> mtime[f]]
  /\ UNCHANGED <<clock, content, mtime, manifest, indexedAt, next>>

\* ... then read and hash its content.
Read(f) ==
  /\ reading # None
  /\ reading.file = f
  /\ content[f] # Absent
  /\ next' = [next EXCEPT ![f] = [mtime |-> reading.mtime, hash |-> content[f]]]
  /\ reading' = None
  /\ UNCHANGED <<clock, content, mtime, manifest, indexedAt, scan>>

\* A walk or read error, or a build that fails later: nothing is recorded.
AbortScan ==
  /\ scan.kind # "none"
  /\ scan' = NoScan
  /\ next' = [f \in Files |-> None]
  /\ reading' = None
  /\ UNCHANGED <<clock, content, mtime, manifest, indexedAt>>

\* manifest_with_scope_changes: what the scan did not visit stays as it was.
Merged == [f \in Files |-> IF f \in scan.scope THEN next[f] ELSE manifest[f]]

\* diff_manifest, diff_manifest_scope
Changed == {f \in Files : Merged[f] # manifest[f]}

\* A targeted scan keeps the timestamp, and so does one with files to retry.
Timestamp(retry) ==
  IF scan.kind = "targeted" \/ retry # {} THEN indexedAt ELSE scan.started

\* The scan's fingerprints become the manifest. restore_retry_files puts back the
\* entries of changed files that could not be read or parsed; a rebuild instead
\* fails as a whole.
FinishScan ==
  /\ scan.kind # "none"
  /\ scan.todo = {}
  /\ reading = None
  /\ \E retry \in SUBSET Changed :
       /\ scan.kind = "rebuild" => retry = {}
       /\ manifest' = [f \in Files |-> IF f \in retry THEN manifest[f] ELSE Merged[f]]
       /\ indexedAt' = Timestamp(retry)
  /\ scan' = NoScan
  /\ next' = [f \in Files |-> None]
  /\ UNCHANGED <<clock, content, mtime, reading>>

FileStep(f) ==
  \/ Edit(f) \/ Skip(f) \/ Reuse(f) \/ Open(f) \/ Read(f)

Next ==
  \/ Tick
  \/ \E kind \in {"rebuild", "rescan", "targeted"}, scope \in SUBSET Files :
       BeginScan(kind, scope)
  \/ \E f \in Files : FileStep(f)
  \/ AbortScan
  \/ FinishScan

Spec == Init /\ [][Next]_vars

---------------------------------------------------------------------------
(* Properties.                                                             *)

\* No edit is missed (core/src/lib.rs:2358, racy_reuse_boundary): whenever the
\* scanner would take a hash from the manifest unread, the file's content still
\* has that hash, however edits, scans, retries and timestamps interleaved.
NoMissedEdit == \A f \in Files : Reusable(f) => manifest[f].hash = content[f]

---------------------------------------------------------------------------
(* Why NoMissedEdit holds: the inductive invariant.                        *)

\* An entry that looks current but is not belongs to a file edited after the
\* moment `at`, so its time is at most one timestamp granule before it.
Honest(entry, f, at) ==
  (entry # None /\ content[f] # Absent /\ entry.mtime = mtime[f] /\ entry.hash # content[f])
    => at < entry.mtime + Granularity

CacheInv ==
  /\ TypeOK
  /\ indexedAt <= clock
  /\ scan.started <= clock
  /\ scan.kind # "none" => indexedAt <= scan.started
  /\ scan.kind \in {"rebuild", "rescan"} => scan.scope = Files
  /\ \A f \in Files : Honest(manifest[f], f, indexedAt)
  /\ \A f \in Files : Honest(next[f], f, scan.started)

=============================================================================
