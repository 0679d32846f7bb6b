----------------------------- MODULE ModelFiles -----------------------------
(***************************************************************************)
(* The files of the local embedding model (vector/local_model.rs, load in  *)
(* vector/local.rs): processes that share one directory download what is   *)
(* missing into .part files of their own, move what matches the pinned     *)
(* checksum into place and verify every file as they read it.  The user    *)
(* may place and delete files, processes are killed, and a machine may     *)
(* sleep long enough for a .part file to look abandoned.                   *)
(***************************************************************************)
EXTENDS Naturals

CONSTANTS
  Loaders,             \* processes that load or pull the model
  ModelFile,           \* the number of files, downloaded and read in order
  DOWNLOAD_ATTEMPTS,
  MaxLoads,            \* bound: loads and pulls, of all processes
  MaxPlacements        \* bound: files placed and deleted by the user

ASSUME LoaderAssumption == /\ ModelFile \in Nat /\ DOWNLOAD_ATTEMPTS \in Nat \ {0}
                           /\ MaxLoads \in Nat /\ MaxPlacements \in Nat

VARIABLES
  installed,     \* installed[f]: the file at its final path
  parts,         \* the .part files
  stale,         \* those not written for a day
  loader,        \* loader[p]: the process
  loads,         \* loads and pulls so far
  placements     \* files placed and deleted so far

modelVars == <<installed, parts, stale, loader, loads, placements>>

ModelFiles == 1 .. ModelFile

\* A body has the pinned size and checksum, another content, or ends early.
Bodies == {"pinned", "other", "short"}

NoFile == [content |-> "missing", by |-> "nobody", during |-> {}]

NoLoad == [pc |-> "idle", run |-> 0, at |-> 1, attempt |-> 1, body |-> "short",
           slept |-> FALSE, used |-> {}]

ModelInit ==
  /\ installed = [f \in ModelFiles |-> NoFile]
  /\ parts = {} /\ stale = {}
  /\ loader = [p \in Loaders |-> NoLoad]
  /\ loads = 0 /\ placements = 0

\* temporary_path: the process and the time make it unique.
temporary_path(p) == [file |-> loader[p].at, owner |-> p, run |-> loader[p].run,
                      attempt |-> loader[p].attempt]

Downloading(p) == loader[p].pc \in {"stream", "rename"}

GoTo(p, pc) == loader' = [loader EXCEPT ![p].pc = pc]

NextFile(p, pc) == loader' = [loader EXCEPT ![p].pc = pc, ![p].at = @ + 1]

FirstFile(p, pc) == loader' = [loader EXCEPT ![p].pc = pc, ![p].at = 1]

\* load, pull_model_files: a load that failed may be tried again.
StartLoad(p) ==
  /\ loader[p].pc \in {"idle", "failed"}
  /\ loads < MaxLoads
  /\ loads' = loads + 1
  /\ loader' = [loader EXCEPT ![p] = [NoLoad EXCEPT !.pc = "check", !.run = loads']]
  /\ UNCHANGED <<installed, parts, stale, placements>>

\* Mutant of Exists: files are downloaded whether they are there or not.
ExistsNever(f) == FALSE

\* try_exists: any content counts, the reader verifies it.
Exists(f) == installed[f].content # "missing"

\* Mutant of remove_stale_partial_downloads: the age is not looked at.
remove_partial_downloads(f) ==
  /\ parts' = {part \in parts : part.file # f}
  /\ stale' = stale \cap parts'

remove_stale_partial_downloads(f) ==
  /\ parts' = parts \ {part \in stale : part.file = f}
  /\ stale' = {part \in stale : part.file # f}

\* download_missing_files, one file.
CheckFile(p) ==
  /\ loader[p].pc = "check"
  /\ loader[p].at \in ModelFiles
  /\ IF Exists(loader[p].at)
     THEN NextFile(p, "check") /\ UNCHANGED <<parts, stale>>
     ELSE /\ remove_stale_partial_downloads(loader[p].at)
          /\ loader' = [loader EXCEPT ![p].pc = "request", ![p].attempt = 1]
  /\ UNCHANGED <<installed, loads, placements>>

AllDownloaded(p) ==
  /\ loader[p].pc = "check"
  /\ loader[p].at \notin ModelFiles
  /\ FirstFile(p, "read")
  /\ UNCHANGED <<installed, parts, stale, loads, placements>>

\* A network error, a timeout, 5xx or 429: another attempt, if any is left.
RetryDownload(p) ==
  IF loader[p].attempt < DOWNLOAD_ATTEMPTS
  THEN loader' = [loader EXCEPT ![p].pc = "request", ![p].attempt = @ + 1]
  ELSE GoTo(p, "failed")

\* download_attempt: a request that fails, or an answer and a new .part file.
Request(p) ==
  /\ loader[p].pc = "request"
  /\ \/ RetryDownload(p) /\ UNCHANGED <<parts, stale>>
     \/ GoTo(p, "failed") /\ UNCHANGED <<parts, stale>>
     \/ /\ parts' = parts \cup {temporary_path(p)}
        /\ loader' = [loader EXCEPT ![p].pc = "stream", ![p].slept = FALSE]
        /\ UNCHANGED stale
  /\ UNCHANGED <<installed, loads, placements>>

\* Mutant of Matches: only the size is checked.
MatchesSize(body) == body # "short"

\* The pinned size and checksum.
Matches(body) == body = "pinned"

RemovePart(p) ==
  /\ parts' = parts \ {temporary_path(p)}
  /\ stale' = stale \ {temporary_path(p)}

\* stream_to_file: a short body is retried, a wrong one and a full disk are fatal.
StreamToFile(p) ==
  /\ loader[p].pc = "stream"
  /\ \E body \in Bodies :
       \/ /\ Matches(body)
          /\ loader' = [loader EXCEPT ![p].pc = "rename", ![p].body = body]
          /\ UNCHANGED <<parts, stale>>
       \/ body = "short" /\ RetryDownload(p) /\ RemovePart(p)
       \/ ~Matches(body) /\ GoTo(p, "failed") /\ RemovePart(p)
  /\ UNCHANGED <<installed, loads, placements>>

\* replace_file_atomically; it may fail, and does when the .part file is gone.
MoveIntoPlace(p) ==
  /\ loader[p].pc = "rename"
  /\ \/ /\ temporary_path(p) \in parts
        /\ installed' = [installed EXCEPT ![loader[p].at] =
                           [content |-> loader[p].body, by |-> "ccm", during |-> {}]]
        /\ NextFile(p, "check")
     \/ UNCHANGED installed /\ GoTo(p, "failed")
  /\ RemovePart(p)
  /\ UNCHANGED <<loads, placements>>

\* read_verified, inspect_file: a file that is missing or does not match is an error.
ReadVerified(p) ==
  /\ loader[p].pc = "read"
  /\ LET content == installed[loader[p].at].content
     IN  /\ loader[p].at \in ModelFiles
         /\ loader' = IF Matches(content)
                      THEN [loader EXCEPT ![p].at = @ + 1, ![p].used = @ \cup {content}]
                      ELSE [loader EXCEPT ![p].pc = "failed"]
  /\ UNCHANGED <<installed, parts, stale, loads, placements>>

Loaded(p) ==
  /\ loader[p].pc = "read"
  /\ loader[p].at \notin ModelFiles
  /\ GoTo(p, "ready")
  /\ UNCHANGED <<installed, parts, stale, loads, placements>>

\* The process is killed or its download cancelled: the .part file stays.
KillLoader(p) ==
  /\ loader[p].pc \notin {"idle", "failed", "ready"}
  /\ GoTo(p, "idle")
  /\ UNCHANGED <<installed, parts, stale, loads, placements>>

-----------------------------------------------------------------------------
(* The environment. *)

\* The machine sleeps, or nobody has written the file for a day.
AgePart ==
  \E part \in parts \ stale :
    /\ stale' = stale \cup {part}
    /\ loader' = [p \in Loaders |-> IF Downloading(p) /\ temporary_path(p) = part
                                    THEN [loader[p] EXCEPT !.slept = TRUE] ELSE loader[p]]
    /\ UNCHANGED <<installed, parts, loads, placements>>

\* Downloads of f that had begun when the user placed it.
PlaceFile(f) ==
  /\ placements < MaxPlacements
  /\ \E content \in {"pinned", "other", "missing"} \ {installed[f].content} :
       installed' = [installed EXCEPT ![f] =
                       IF content = "missing" THEN NoFile
                       ELSE [content |-> content, by |-> "user",
                             during |-> {p \in Loaders : /\ loader[p].at = f
                                                         /\ loader[p].pc \in {"request", "stream", "rename"}}]]
  /\ placements' = placements + 1
  /\ UNCHANGED <<parts, stale, loader, loads>>

LoaderStep(p) ==
  \/ StartLoad(p) \/ CheckFile(p) \/ AllDownloaded(p) \/ Request(p) \/ StreamToFile(p)
  \/ MoveIntoPlace(p) \/ ReadVerified(p) \/ Loaded(p) \/ KillLoader(p)

ModelNext ==
  \/ \E p \in Loaders : LoaderStep(p)
  \/ AgePart
  \/ \E f \in ModelFiles : PlaceFile(f)

ModelSpec == ModelInit /\ [][ModelNext]_modelVars

-----------------------------------------------------------------------------

\* Whoever placed the files and whatever the server sent: what ccm put in place
\* has the pinned checksum, and so has every file of a loaded model
\* (download_attempt, read_verified).
PinnedOnly ==
  /\ \A f \in ModelFiles : installed[f].by = "ccm" => installed[f].content = "pinned"
  /\ \A p \in Loaders : loader[p].used \subseteq {"pinned"}

\* A download replaces a file of the user's only if it had begun before the file
\* was placed: existing files are left alone (download_missing_files).
UserFilesKept ==
  [][\A f \in ModelFiles :
       (installed[f].by = "user" /\ installed'[f].by = "ccm")
         => \E p \in installed[f].during : loader[p].pc = "rename" /\ loader[p].at = f]_modelVars

\* Cleaning up never takes the .part file of a download in progress, unless its
\* machine slept for a day (remove_stale_partial_downloads).
LivePartsKept ==
  \A p \in Loaders : Downloading(p) /\ ~loader[p].slept => temporary_path(p) \in parts

=============================================================================
