---------------------------- MODULE BinaryCache ----------------------------
(***************************************************************************)
(* The npm wrapper's cache of one binary (npm/bin/ccm.js): wrappers started*)
(* at the same time verify the cached binary against its sidecar hash, or  *)
(* download one of their own and put it in place under a lock file.  Every *)
(* system call on a shared path is a step; the hash of a file is its       *)
(* content.                                                                *)
(***************************************************************************)
EXTENDS Naturals, FiniteSets

CONSTANTS
  Wrappers,
  DOWNLOAD_BOUND,      \* DOWNLOAD_ATTEMPTS
  MaxWrapperKills             \* bound: wrappers killed

ASSUME BinaryAssumption == Wrappers # {}

VARIABLES
  bin,         \* content of the binary, or "none"
  sidecar,     \* the hash in its .sha256 file, or "none"
  lockFile,    \* the .lock file: who made it, whether its pid is written
  wrapper,     \* wrapper[w]: the process
  bypass       \* wrappers with CCM_ALLOW_UNVERIFIED_BINARIES

binaryVars == <<bin, sidecar, lockFile, wrapper, bypass>>

\* What a download may bring: the release, or something else.
Downloads == {"release", "other"}

NoLock == [maker |-> {}, written |-> FALSE]

NewWrapper == [pc |-> "look", expected |-> "none", url |-> "gz", attempt |-> 1, tmp |-> "none",
               verified |-> FALSE, ok |-> FALSE, ran |-> "none"]

\* No binary, a verified one, or one that is damaged or not verified.
BinaryInit ==
  /\ bin \in {"none", "release", "corrupt", "other"}
  /\ sidecar \in {"none", "release"}
  /\ bin = "none" => sidecar = "none"
  /\ bin = "release" => sidecar = "release"
  /\ bin = "other" => sidecar = "none"
  /\ lockFile = NoLock
  /\ wrapper = [w \in Wrappers |-> NewWrapper]
  /\ bypass \in SUBSET Wrappers

Ended == {"ran", "failed", "killed"}

At(w, pc) == wrapper[w].pc = pc

Continue(w, pc) == wrapper' = [wrapper EXCEPT ![w].pc = pc]

-----------------------------------------------------------------------------
(* getBinaryFor: the cached binary, or a download. *)

\* Mutant of Verifies: any sidecar will do.
VerifiesLoosely(expected, actual) == TRUE

\* verifyCachedBinary
Verifies(expected, actual) == expected = actual

Look(w) ==
  /\ At(w, "look")
  /\ Continue(w, IF bin = "none" THEN "download" ELSE "sidecar")
  /\ UNCHANGED <<bin, sidecar, lockFile, bypass>>

FindSidecar(w) ==
  /\ At(w, "sidecar")
  /\ Continue(w, IF sidecar = "none" THEN "download" ELSE "read_sidecar")
  /\ UNCHANGED <<bin, sidecar, lockFile, bypass>>

\* A sidecar, or a binary, that has gone meanwhile is an error.
ReadSidecar(w) ==
  /\ At(w, "read_sidecar")
  /\ wrapper' = [wrapper EXCEPT ![w].expected = sidecar,
                                ![w].pc = IF sidecar = "none" THEN "failed" ELSE "verify"]
  /\ UNCHANGED <<bin, sidecar, lockFile, bypass>>

VerifyCached(w) ==
  /\ At(w, "verify")
  /\ wrapper' = [wrapper EXCEPT ![w].expected = "none",
                    ![w].pc = IF bin = "none" THEN "failed"
                              ELSE IF Verifies(wrapper[w].expected, bin) THEN "run" ELSE "download"]
  /\ UNCHANGED <<bin, sidecar, lockFile, bypass>>

\* downloadFileWithRetry, the compressed file first and on 404 the plain one. Which
\* it was and how often it was tried does not matter afterwards.
Download(w) ==
  /\ At(w, "download")
  /\ LET self == wrapper[w]
     IN  \/ \E content \in Downloads :
              wrapper' = [wrapper EXCEPT ![w].pc = "checksum", ![w].tmp = content,
                                         ![w].url = "gz", ![w].attempt = 1]
         \/ self.attempt < DOWNLOAD_BOUND /\ wrapper' = [wrapper EXCEPT ![w].attempt = @ + 1]
         \/ self.attempt = DOWNLOAD_BOUND /\ Continue(w, "failed")
         \/ /\ self.url = "gz"
            /\ wrapper' = [wrapper EXCEPT ![w].url = "raw", ![w].attempt = 1]
         \/ self.url = "raw" /\ Continue(w, "failed")
  /\ UNCHANGED <<bin, sidecar, lockFile, bypass>>

\* verifyChecksum: without a manifest or an entry only a bypass goes on.
VerifyChecksum(w) ==
  /\ At(w, "checksum")
  /\ \/ /\ wrapper[w].tmp = "release"
        /\ wrapper' = [wrapper EXCEPT ![w].pc = "open", ![w].verified = TRUE]
     \/ w \in bypass /\ Continue(w, "open")
     \/ w \notin bypass /\ Continue(w, "failed")
     \/ wrapper[w].tmp # "release" /\ Continue(w, "failed")
  /\ UNCHANGED <<bin, sidecar, lockFile, bypass>>

-----------------------------------------------------------------------------
(* acquireFileLock *)

\* openSync(wx): the file is created empty.
OpenLock(w) ==
  /\ At(w, "open")
  /\ IF lockFile = NoLock
     THEN lockFile' = [maker |-> {w}, written |-> FALSE] /\ Continue(w, "write_pid")
     ELSE UNCHANGED lockFile /\ Continue(w, "read_pid")
  /\ UNCHANGED <<bin, sidecar, bypass>>

\* The pid goes to the file that was opened, wherever that is by now.
WritePid(w) ==
  /\ At(w, "write_pid")
  /\ lockFile' = IF lockFile.maker = {w} THEN [lockFile EXCEPT !.written = TRUE] ELSE lockFile
  /\ Continue(w, "compare")
  /\ UNCHANGED <<bin, sidecar, bypass>>

processIsAlive(w) == wrapper[w].pc \notin Ended

\* No pid in the file: nobody alive.
OwnerIsAlive == lockFile.written /\ \A w \in lockFile.maker : processIsAlive(w)

ReadPid(w) ==
  /\ At(w, "read_pid")
  /\ Continue(w, IF lockFile = NoLock \/ OwnerIsAlive THEN "wait" ELSE "unlink")
  /\ UNCHANGED <<bin, sidecar, lockFile, bypass>>

UnlinkLock(w) ==
  /\ At(w, "unlink")
  /\ lockFile' = NoLock
  /\ Continue(w, "open")
  /\ UNCHANGED <<bin, sidecar, bypass>>

\* Another try after 50 ms, for 30 seconds.
WaitForLock(w) ==
  /\ At(w, "wait")
  /\ Continue(w, "open") \/ Continue(w, "failed")
  /\ UNCHANGED <<bin, sidecar, lockFile, bypass>>

-----------------------------------------------------------------------------
(* finalizeDownloadedBinary *)

InFinalizer == {"compare", "existing", "same", "remove", "forget", "unlink_sidecar", "install",
                "vouch", "release"}

Releasing(w, ok) == wrapper' = [wrapper EXCEPT ![w].pc = "release", ![w].ok = ok]

Compare(w) ==
  /\ At(w, "compare")
  /\ Continue(w, IF bin = "none" THEN "install" ELSE "existing")
  /\ UNCHANGED <<bin, sidecar, lockFile, bypass>>

HashExisting(w) ==
  /\ At(w, "existing")
  /\ IF bin = "none" THEN Releasing(w, FALSE)
     ELSE Continue(w, IF bin = wrapper[w].tmp THEN "same" ELSE "remove")
  /\ UNCHANGED <<bin, sidecar, lockFile, bypass>>

\* Mutant of Vouched: the sidecar is written for any download.
VouchedAlways(w) == wrapper[w].tmp

\* writeBinaryChecksumSidecar, for a verified download.
Vouched(w) == IF wrapper[w].verified THEN wrapper[w].tmp ELSE sidecar

KeepExisting(w) ==
  /\ At(w, "same")
  /\ sidecar' = Vouched(w)
  /\ Releasing(w, TRUE)
  /\ UNCHANGED <<bin, lockFile, bypass>>

\* unlinkSync(binPath): an error when it is gone.
RemoveExisting(w) ==
  /\ At(w, "remove")
  /\ bin' = "none"
  /\ IF bin = "none" THEN Releasing(w, FALSE) ELSE Continue(w, "forget")
  /\ UNCHANGED <<sidecar, lockFile, bypass>>

ForgetSidecar(w) ==
  /\ At(w, "forget")
  /\ Continue(w, IF sidecar = "none" THEN "install" ELSE "unlink_sidecar")
  /\ UNCHANGED <<bin, sidecar, lockFile, bypass>>

UnlinkSidecar(w) ==
  /\ At(w, "unlink_sidecar")
  /\ sidecar' = "none"
  /\ IF sidecar = "none" THEN Releasing(w, FALSE) ELSE Continue(w, "install")
  /\ UNCHANGED <<bin, lockFile, bypass>>

InstallBinary(w) ==
  /\ At(w, "install")
  /\ bin' = wrapper[w].tmp
  /\ Continue(w, "vouch")
  /\ UNCHANGED <<sidecar, lockFile, bypass>>

Vouch(w) ==
  /\ At(w, "vouch")
  /\ sidecar' = Vouched(w)
  /\ Releasing(w, TRUE)
  /\ UNCHANGED <<bin, lockFile, bypass>>

\* Mutant of Released: the lock file is left behind.
LeftBehind == lockFile

\* finally: unlinkSync(lockPath), whosever file it is.
Released == NoLock

ReleaseFileLock(w) ==
  /\ At(w, "release")
  /\ lockFile' = Released
  /\ Continue(w, IF wrapper[w].ok THEN "run" ELSE "failed")
  /\ UNCHANGED <<bin, sidecar, bypass>>

-----------------------------------------------------------------------------

\* main: spawn, or a failure to start.
RunBinary(w) ==
  /\ At(w, "run")
  /\ wrapper' = [wrapper EXCEPT ![w].pc = IF bin = "none" THEN "failed" ELSE "ran", ![w].ran = bin]
  /\ UNCHANGED <<bin, sidecar, lockFile, bypass>>

KillWrapper(w) ==
  /\ wrapper[w].pc \notin Ended
  /\ Cardinality({v \in Wrappers : At(v, "killed")}) < MaxWrapperKills
  /\ Continue(w, "killed")
  /\ UNCHANGED <<bin, sidecar, lockFile, bypass>>

FinalizerStep(w) ==
  \/ Compare(w) \/ HashExisting(w) \/ KeepExisting(w) \/ RemoveExisting(w) \/ ForgetSidecar(w)
  \/ UnlinkSidecar(w) \/ InstallBinary(w) \/ Vouch(w) \/ ReleaseFileLock(w)

FetchStep(w) ==
  \/ Look(w) \/ FindSidecar(w) \/ ReadSidecar(w) \/ VerifyCached(w) \/ Download(w)
  \/ VerifyChecksum(w)

WrapperStep(w) ==
  \/ FetchStep(w) \/ OpenLock(w) \/ WritePid(w) \/ ReadPid(w) \/ UnlinkLock(w) \/ WaitForLock(w)
  \/ FinalizerStep(w) \/ RunBinary(w) \/ KillWrapper(w)

BinaryNext == \E w \in Wrappers : WrapperStep(w)

BinarySpec == BinaryInit /\ [][BinaryNext]_binaryVars

-----------------------------------------------------------------------------

\* The sidecar vouches for verified content only, and without a bypass nothing
\* else is ever run, whichever binary was in the cache and whoever replaced it.
OnlyVerifiedRuns ==
  /\ sidecar \in {"none", "release"}
  /\ bypass = {} => \A w \in Wrappers : wrapper[w].ran \in {"none", "release"}

\* Once every wrapper has succeeded the cache can be used as it is, even though
\* several may have been in the finalizer at a time: the binary matches its
\* sidecar and the lock is gone (npm/test/installer.test.js:368-387).
FinalizedIsUsable ==
  (bypass = {} /\ \A w \in Wrappers : wrapper[w].pc = "ran")
    => bin = "release" /\ sidecar = "release" /\ lockFile = NoLock

\* Concurrent finalization replaces a corrupt target without races
\* (npm/test/installer.test.js:368): whoever has the lock gets through.
FinalizersSucceed ==
  \A w \in Wrappers : wrapper[w].pc = "release" => wrapper[w].ok

=============================================================================
