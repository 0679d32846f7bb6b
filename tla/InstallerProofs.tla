--------------------------- MODULE InstallerProofs ---------------------------
(***************************************************************************)
(* Proofs about what is fetched and put in place for a user. The binary    *)
(* cache of the npm wrapper (npm/bin/ccm.js): for any number of wrappers   *)
(* at a time, any kills and whatever the lock file does, the sidecar hash  *)
(* vouches for verified content only, without a bypass nothing else is     *)
(* run, and wrappers that have succeeded leave the release behind. The     *)
(* installer: what the user had in a configuration that was replaced is in *)
(* a backup. The files of the local embedding model: only pinned files are *)
(* put in place and loaded, a cleanup leaves the downloads in progress     *)
(* alone, and so does a download the files of the user.                    *)
(***************************************************************************)
EXTENDS BinaryCache, HostConfigs, ModelFiles, TLAPS

-----------------------------------------------------------------------------
(* The binary cache.                                                       *)

WrapperFields == {"pc", "expected", "url", "attempt", "tmp", "verified", "ok", "ran"}

WrapperTypes ==
  /\ DOMAIN wrapper = Wrappers
  /\ \A w \in Wrappers : DOMAIN wrapper[w] = WrapperFields

\* Nothing is wrong with it: there is no binary, or it is the release's.
Fine == {"none", "release"}

\* Where a wrapper has its download, checked.
Checked == {"open", "write_pid", "read_pid", "unlink", "wait"} \cup InFinalizer

\* What counts as verified is the release's, and the cached hash is one of it.
Verification ==
  /\ sidecar \in Fine
  /\ \A w \in Wrappers :
       /\ wrapper[w].expected \in Fine
       /\ wrapper[w].pc = "verify" => wrapper[w].expected = "release"
       /\ wrapper[w].verified => wrapper[w].tmp = "release"
       /\ wrapper[w].pc \in {"look", "sidecar", "read_sidecar", "verify", "download", "checksum"} =>
            ~wrapper[w].verified

\* Without a bypass whoever is past the check has the release, and once one has got
\* it into the cache, or found it there, nobody puts anything else there.
Trust ==
  bypass = {} =>
    \A w \in Wrappers :
      /\ wrapper[w].pc \in Checked => wrapper[w].verified
      /\ wrapper[w].pc \in {"same", "vouch", "run"} => bin \in Fine
      /\ wrapper[w].pc = "release" /\ wrapper[w].ok => bin \in Fine
      /\ wrapper[w].ran \in Fine

BinaryInv == WrapperTypes /\ Verification /\ Trust

-----------------------------------------------------------------------------

\* The wrappers have begun; the cache may hold anything.
LEMMA BinaryInvInit == BinaryInit => BinaryInv
<1> SUFFICES ASSUME BinaryInit PROVE BinaryInv
  OBVIOUS
<1>1. WrapperTypes
  BY DEF BinaryInit, WrapperTypes, NewWrapper, WrapperFields
<1>2. Verification
  BY DEF BinaryInit, Verification, NewWrapper, Fine
<1>3. Trust
  BY DEF BinaryInit, Trust, NewWrapper, Fine, Checked, InFinalizer
<1> QED
  BY <1>1, <1>2, <1>3 DEF BinaryInv

\* No step changes what a wrapper is.
LEMMA TypesInv ==
  ASSUME WrapperTypes, NEW w \in Wrappers, WrapperStep(w)
  PROVE  WrapperTypes'
<1>1. CASE Look(w)
  BY <1>1 DEF WrapperTypes, WrapperFields, Look, Continue
<1>2. CASE FindSidecar(w) \/ ReadSidecar(w)
  BY <1>2 DEF WrapperTypes, WrapperFields, FindSidecar, ReadSidecar, Continue
<1>3. CASE VerifyCached(w)
  BY <1>3 DEF WrapperTypes, WrapperFields, VerifyCached, Continue
<1>4. CASE Download(w)
  BY <1>4 DEF WrapperTypes, WrapperFields, Download, Continue, Downloads
<1>5. CASE VerifyChecksum(w)
  BY <1>5 DEF WrapperTypes, WrapperFields, VerifyChecksum, Continue
<1>6. CASE OpenLock(w)
  BY <1>6 DEF WrapperTypes, WrapperFields, OpenLock, Continue
<1>7. CASE WritePid(w)
  BY <1>7 DEF WrapperTypes, WrapperFields, WritePid, Continue
<1>8. CASE ReadPid(w)
  BY <1>8 DEF WrapperTypes, WrapperFields, ReadPid, Continue
<1>9. CASE UnlinkLock(w)
  BY <1>9 DEF WrapperTypes, WrapperFields, UnlinkLock, Continue
<1>10. CASE WaitForLock(w)
  BY <1>10 DEF WrapperTypes, WrapperFields, WaitForLock, Continue
<1>11. CASE Compare(w)
  BY <1>11 DEF WrapperTypes, WrapperFields, Compare, Continue
<1>12. CASE HashExisting(w)
  BY <1>12 DEF WrapperTypes, WrapperFields, HashExisting, Continue, Releasing
<1>13. CASE KeepExisting(w)
  BY <1>13 DEF WrapperTypes, WrapperFields, KeepExisting, Releasing
<1>14. CASE RemoveExisting(w)
  BY <1>14 DEF WrapperTypes, WrapperFields, RemoveExisting, Continue, Releasing
<1>15. CASE ForgetSidecar(w) \/ UnlinkSidecar(w)
  BY <1>15 DEF WrapperTypes, WrapperFields, ForgetSidecar, UnlinkSidecar, Continue, Releasing
<1>16. CASE InstallBinary(w)
  BY <1>16 DEF WrapperTypes, WrapperFields, InstallBinary, Continue
<1>17. CASE Vouch(w)
  BY <1>17 DEF WrapperTypes, WrapperFields, Vouch, Releasing
<1>18. CASE ReleaseFileLock(w)
  BY <1>18 DEF WrapperTypes, WrapperFields, ReleaseFileLock, Continue
<1>19. CASE RunBinary(w)
  BY <1>19 DEF WrapperTypes, WrapperFields, RunBinary
<1>20. CASE KillWrapper(w)
  BY <1>20 DEF WrapperTypes, WrapperFields, KillWrapper, Continue
<1> QED
  BY <1>1, <1>2, <1>3, <1>4, <1>5, <1>6, <1>7, <1>8, <1>9, <1>10, <1>11, <1>12, <1>13,
         <1>14, <1>15, <1>16, <1>17, <1>18, <1>19, <1>20 DEF WrapperStep, FetchStep, FinalizerStep

\* Up to the check of the download, the wrapper only looks.
LEMMA CachedInv ==
  ASSUME BinaryInv, NEW w \in Wrappers, FetchStep(w)
  PROVE  Verification' /\ Trust'
<1> USE DEF BinaryInv, At
<1>1. CASE Look(w)
  <2>1. Verification'
    BY <1>1 DEF WrapperTypes, WrapperFields, Verification, Fine, Look, Continue
  <2>2. Trust'
    BY <1>1 DEF WrapperTypes, WrapperFields, Verification, Trust, Fine, Checked,
           InFinalizer, Look, Continue
  <2> QED
    BY <2>1, <2>2
<1>2. CASE FindSidecar(w) \/ ReadSidecar(w)
  <2>1. Verification'
    BY <1>2 DEF WrapperTypes, WrapperFields, Verification, Fine, FindSidecar, ReadSidecar, Continue
  <2>2. Trust'
    BY <1>2 DEF WrapperTypes, WrapperFields, Verification, Trust, Fine, Checked,
           InFinalizer, FindSidecar, ReadSidecar, Continue
  <2> QED
    BY <2>1, <2>2
<1>3. CASE VerifyCached(w)
  <2>1. Verification'
    BY <1>3 DEF WrapperTypes, WrapperFields, Verification, Fine, VerifyCached, Continue,
           Verifies
  <2>2. Trust'
    BY <1>3 DEF WrapperTypes, WrapperFields, Verification, Trust, Fine, Checked,
           InFinalizer, VerifyCached, Continue, Verifies
  <2> QED
    BY <2>1, <2>2
<1>4. CASE Download(w)
  <2>1. Verification'
    BY <1>4 DEF WrapperTypes, WrapperFields, Verification, Fine, Download, Continue, Downloads
  <2>2. Trust'
    BY <1>4 DEF WrapperTypes, WrapperFields, Verification, Trust, Fine, Checked,
           InFinalizer, Download, Continue, Downloads
  <2> QED
    BY <2>1, <2>2
<1>5. CASE VerifyChecksum(w)
  <2>1. Verification'
    BY <1>5 DEF WrapperTypes, WrapperFields, Verification, Fine, VerifyChecksum, Continue
  <2>2. Trust'
    BY <1>5 DEF WrapperTypes, WrapperFields, Verification, Trust, Fine, Checked,
           InFinalizer, VerifyChecksum, Continue
  <2> QED
    BY <2>1, <2>2
<1> QED
  BY <1>1, <1>2, <1>3, <1>4, <1>5 DEF FetchStep

\* The lock file holds no content.
LEMMA LockInv ==
  ASSUME BinaryInv, NEW w \in Wrappers,
         OpenLock(w) \/ WritePid(w) \/ ReadPid(w) \/ UnlinkLock(w) \/ WaitForLock(w)
  PROVE  Verification' /\ Trust'
<1> USE DEF BinaryInv, At
<1>1. CASE OpenLock(w)
  <2>1. Verification'
    BY <1>1 DEF WrapperTypes, WrapperFields, Verification, Fine, OpenLock, Continue
  <2>2. Trust'
    BY <1>1 DEF WrapperTypes, WrapperFields, Verification, Trust, Fine, Checked,
           InFinalizer, OpenLock, Continue
  <2> QED
    BY <2>1, <2>2
<1>2. CASE WritePid(w)
  <2>1. Verification'
    BY <1>2 DEF WrapperTypes, WrapperFields, Verification, Fine, WritePid, Continue
  <2>2. Trust'
    BY <1>2 DEF WrapperTypes, WrapperFields, Verification, Trust, Fine, Checked,
           InFinalizer, WritePid, Continue
  <2> QED
    BY <2>1, <2>2
<1>3. CASE ReadPid(w)
  <2>1. Verification'
    BY <1>3 DEF WrapperTypes, WrapperFields, Verification, Fine, ReadPid, Continue
  <2>2. Trust'
    BY <1>3 DEF WrapperTypes, WrapperFields, Verification, Trust, Fine, Checked,
           InFinalizer, ReadPid, Continue
  <2> QED
    BY <2>1, <2>2
<1>4. CASE UnlinkLock(w)
  <2>1. Verification'
    BY <1>4 DEF WrapperTypes, WrapperFields, Verification, Fine, UnlinkLock, Continue
  <2>2. Trust'
    BY <1>4 DEF WrapperTypes, WrapperFields, Verification, Trust, Fine, Checked,
           InFinalizer, UnlinkLock, Continue
  <2> QED
    BY <2>1, <2>2
<1>5. CASE WaitForLock(w)
  <2>1. Verification'
    BY <1>5 DEF WrapperTypes, WrapperFields, Verification, Fine, WaitForLock, Continue
  <2>2. Trust'
    BY <1>5 DEF WrapperTypes, WrapperFields, Verification, Trust, Fine, Checked,
           InFinalizer, WaitForLock, Continue
  <2> QED
    BY <2>1, <2>2
<1> QED
  BY <1>1, <1>2, <1>3, <1>4, <1>5

\* In the finalizer the cache receives what has been checked.
LEMMA FinalizerInv ==
  ASSUME BinaryInv, NEW w \in Wrappers, FinalizerStep(w)
  PROVE  Verification' /\ Trust'
<1> USE DEF BinaryInv, At
<1>1. CASE Compare(w)
  <2>1. Verification'
    BY <1>1 DEF WrapperTypes, WrapperFields, Verification, Fine, Compare, Continue
  <2>2. Trust'
    BY <1>1 DEF WrapperTypes, WrapperFields, Verification, Trust, Fine, Checked,
           InFinalizer, Compare, Continue
  <2> QED
    BY <2>1, <2>2
<1>2. CASE HashExisting(w)
  <2>1. Verification'
    BY <1>2 DEF WrapperTypes, WrapperFields, Verification, Fine, HashExisting, Continue,
           Releasing
  <2>2. Trust'
    BY <1>2 DEF WrapperTypes, WrapperFields, Verification, Trust, Fine, Checked,
           InFinalizer, HashExisting, Continue, Releasing
  <2> QED
    BY <2>1, <2>2
<1>3. CASE KeepExisting(w)
  <2>1. Verification'
    BY <1>3 DEF WrapperTypes, WrapperFields, Verification, Fine, KeepExisting, Releasing,
           Vouched
  <2>2. Trust'
    BY <1>3 DEF WrapperTypes, WrapperFields, Verification, Trust, Fine, Checked,
           InFinalizer, KeepExisting, Releasing, Vouched
  <2> QED
    BY <2>1, <2>2
<1>4. CASE RemoveExisting(w)
  <2>1. Verification'
    BY <1>4 DEF WrapperTypes, WrapperFields, Verification, Fine, RemoveExisting,
           Continue, Releasing
  <2>2. Trust'
    BY <1>4 DEF WrapperTypes, WrapperFields, Verification, Trust, Fine, Checked,
           InFinalizer, RemoveExisting, Continue, Releasing
  <2> QED
    BY <2>1, <2>2
<1>5. CASE ForgetSidecar(w) \/ UnlinkSidecar(w)
  <2>1. Verification'
    BY <1>5 DEF WrapperTypes, WrapperFields, Verification, Fine, ForgetSidecar, UnlinkSidecar,
           Continue, Releasing
  <2>2. Trust'
    BY <1>5 DEF WrapperTypes, WrapperFields, Verification, Trust, Fine, Checked,
           InFinalizer, ForgetSidecar, UnlinkSidecar, Continue, Releasing
  <2> QED
    BY <2>1, <2>2
<1>6. CASE InstallBinary(w)
  <2>1. Verification'
    BY <1>6 DEF WrapperTypes, WrapperFields, Verification, Fine, InstallBinary, Continue
  <2>2. Trust'
    BY <1>6 DEF WrapperTypes, WrapperFields, Verification, Trust, Fine, Checked,
           InFinalizer, InstallBinary, Continue
  <2> QED
    BY <2>1, <2>2
<1>7. CASE Vouch(w)
  <2>1. Verification'
    BY <1>7 DEF WrapperTypes, WrapperFields, Verification, Fine, Vouch, Releasing, Vouched
  <2>2. Trust'
    BY <1>7 DEF WrapperTypes, WrapperFields, Verification, Trust, Fine, Checked,
           InFinalizer, Vouch, Releasing, Vouched
  <2> QED
    BY <2>1, <2>2
<1>8. CASE ReleaseFileLock(w)
  <2>1. Verification'
    BY <1>8 DEF WrapperTypes, WrapperFields, Verification, Fine, ReleaseFileLock, Continue
  <2>2. Trust'
    BY <1>8 DEF WrapperTypes, WrapperFields, Verification, Trust, Fine, Checked,
           InFinalizer, ReleaseFileLock, Continue
  <2> QED
    BY <2>1, <2>2
<1> QED
  BY <1>1, <1>2, <1>3, <1>4, <1>5, <1>6, <1>7, <1>8 DEF FinalizerStep

\* The binary is run, or the wrapper killed.
LEMMA EndInv ==
  ASSUME BinaryInv, NEW w \in Wrappers,
         RunBinary(w) \/ KillWrapper(w)
  PROVE  Verification' /\ Trust'
<1> USE DEF BinaryInv, At
<1>1. CASE RunBinary(w)
  <2>1. Verification'
    BY <1>1 DEF WrapperTypes, WrapperFields, Verification, Fine, RunBinary
  <2>2. Trust'
    BY <1>1 DEF WrapperTypes, WrapperFields, Verification, Trust, Fine, Checked,
           InFinalizer, RunBinary
  <2> QED
    BY <2>1, <2>2
<1>2. CASE KillWrapper(w)
  <2>1. Verification'
    BY <1>2 DEF WrapperTypes, WrapperFields, Verification, Fine, KillWrapper, Continue
  <2>2. Trust'
    BY <1>2 DEF WrapperTypes, WrapperFields, Verification, Trust, Fine, Checked,
           InFinalizer, KillWrapper, Continue
  <2> QED
    BY <2>1, <2>2
<1> QED
  BY <1>1, <1>2

-----------------------------------------------------------------------------

\* In every reachable state, for any number of wrappers.
THEOREM BinaryInvariant == BinarySpec => []BinaryInv
<1>1. BinaryInv /\ [BinaryNext]_binaryVars => BinaryInv'
  <2> SUFFICES ASSUME BinaryInv, [BinaryNext]_binaryVars PROVE BinaryInv'
    OBVIOUS
  <2>1. ASSUME NEW w \in Wrappers, WrapperStep(w) PROVE BinaryInv'
    <3>1. WrapperTypes'
      BY <2>1, TypesInv DEF BinaryInv
    <3>2. Verification' /\ Trust'
      BY <2>1, CachedInv, LockInv, FinalizerInv, EndInv DEF WrapperStep
    <3> QED
      BY <3>1, <3>2 DEF BinaryInv
  <2>2. CASE UNCHANGED binaryVars
    BY <2>2 DEF binaryVars, BinaryInv, WrapperTypes, Verification, Trust
  <2> QED
    BY <2>1, <2>2 DEF BinaryNext
<1> QED
  BY <1>1, BinaryInvInit, PTL DEF BinarySpec

\* verifyCachedBinary and finalizeDownloadedBinary (npm/bin/ccm.js): the sidecar
\* vouches for verified content only and, unless a wrapper bypasses the check, nothing
\* else runs, although the lock file does not keep two wrappers out of the finalizer.
THEOREM UnverifiedNeverRuns == BinarySpec => []OnlyVerifiedRuns
<1>1. BinaryInv => OnlyVerifiedRuns
  BY DEF BinaryInv, Verification, Trust, Fine, OnlyVerifiedRuns
<1> QED
  BY <1>1, BinaryInvariant, PTL

-----------------------------------------------------------------------------
(* What the finalizers leave behind.                                       *)

\* A wrapper that has not yet had, or will never have, the release's binary, or the
\* sidecar that vouches for it, in the cache.
Failing(w) == wrapper[w].pc = "release" /\ ~wrapper[w].ok
Unplaced(w) == wrapper[w].pc \notin {"same", "vouch", "release", "run", "ran"} \/ Failing(w)
Unvouched(w) == wrapper[w].pc \notin {"verify", "release", "run", "ran"} \/ Failing(w)

\* Whoever made the lock file that is there has not come to release it.
Locker ==
  /\ DOMAIN lockFile = {"maker", "written"}
  /\ lockFile # NoLock =>
       \E w \in Wrappers : /\ lockFile.maker = {w}
                           /\ wrapper[w].pc \in {"write_pid", "killed"} \cup InFinalizer

\* What is missing in the cache is still to be put there by somebody who has taken it
\* away or not found it; unless somebody has failed.
Outstanding ==
  bypass = {} =>
    /\ bin = "release" \/ \E w \in Wrappers : Unplaced(w)
    /\ sidecar = "release" \/ \E w \in Wrappers : Unvouched(w)

CacheSettles == BinaryInv /\ Locker /\ Outstanding

\* A step changes its own wrapper only.
LEMMA OthersRest ==
  ASSUME WrapperTypes, NEW w \in Wrappers, WrapperStep(w)
  PROVE  bypass' = bypass /\ \A v \in Wrappers \ {w} : wrapper'[v] = wrapper[v]
<1> USE DEF WrapperTypes, Continue, Releasing
<1>1. CASE FetchStep(w)
  BY <1>1 DEF FetchStep, Look, FindSidecar, ReadSidecar, VerifyCached, Download, VerifyChecksum
<1>2. CASE OpenLock(w) \/ WritePid(w) \/ ReadPid(w) \/ UnlinkLock(w) \/ WaitForLock(w)
  BY <1>2 DEF OpenLock, WritePid, ReadPid, UnlinkLock, WaitForLock
<1>3. CASE FinalizerStep(w)
  BY <1>3 DEF FinalizerStep, Compare, HashExisting, KeepExisting, RemoveExisting,
         ForgetSidecar, UnlinkSidecar, InstallBinary, Vouch, ReleaseFileLock
<1>4. CASE RunBinary(w) \/ KillWrapper(w)
  BY <1>4 DEF RunBinary, KillWrapper
<1> QED
  BY <1>1, <1>2, <1>3, <1>4 DEF WrapperStep

\* Before the check of its download a wrapper has no lock and leaves what there is.
LEMMA LookingSettles ==
  ASSUME BinaryInv, NEW w \in Wrappers, FetchStep(w)
  PROVE  /\ UNCHANGED <<bin, sidecar, lockFile>>
         /\ wrapper[w].pc \notin {"write_pid", "killed"} \cup InFinalizer
         /\ bin = "release" \/ Unplaced(w)'
         /\ sidecar = "release" \/ Unvouched(w)' \/ ~Unvouched(w)
<1> USE DEF BinaryInv, WrapperTypes, WrapperFields, Verification, Fine, At, Continue, Unplaced,
            Unvouched, Failing, InFinalizer
<1>1. CASE Look(w)
  BY <1>1 DEF Look
<1>2. CASE FindSidecar(w) \/ ReadSidecar(w)
  BY <1>2 DEF FindSidecar, ReadSidecar
<1>3. CASE VerifyCached(w)
  BY <1>3 DEF VerifyCached, Verifies
<1>4. CASE Download(w)
  BY <1>4 DEF Download, Downloads
<1>5. CASE VerifyChecksum(w)
  BY <1>5 DEF VerifyChecksum
<1> QED
  BY <1>1, <1>2, <1>3, <1>4, <1>5 DEF FetchStep

\* Whoever makes a lock file goes on to write its pid.
LEMMA LockingSettles ==
  ASSUME BinaryInv, Locker, NEW w \in Wrappers,
         OpenLock(w) \/ WritePid(w) \/ ReadPid(w) \/ UnlinkLock(w) \/ WaitForLock(w)
  PROVE  /\ UNCHANGED <<bin, sidecar>> /\ Unplaced(w)' /\ Unvouched(w)'
         /\ DOMAIN lockFile' = {"maker", "written"}
         /\ \/ lockFile' = NoLock
            \/ lockFile'.maker = {w} /\ wrapper'[w].pc \in {"write_pid", "compare"}
            \/ lockFile'.maker = lockFile.maker /\ lockFile # NoLock /\ lockFile.maker # {w}
            \/ UNCHANGED lockFile /\ wrapper[w].pc \notin {"write_pid", "killed"} \cup InFinalizer
<1> USE DEF BinaryInv, WrapperTypes, WrapperFields, At, Continue, Unplaced, Unvouched, Failing,
            InFinalizer, NoLock, Locker
<1>1. CASE OpenLock(w)
  BY <1>1 DEF OpenLock
<1>2. CASE WritePid(w)
  BY <1>2 DEF WritePid
<1>3. CASE ReadPid(w) \/ UnlinkLock(w) \/ WaitForLock(w)
  BY <1>3 DEF ReadPid, UnlinkLock, WaitForLock
<1> QED
  BY <1>1, <1>2, <1>3

\* In the finalizer a wrapper leaves the release behind, or has not come to it.
LEMMA FinalizingSettles ==
  ASSUME BinaryInv, bypass = {}, NEW w \in Wrappers, FinalizerStep(w)
  PROVE  /\ bin' = "release" \/ Unplaced(w)' \/ (UNCHANGED bin /\ ~Unplaced(w))
         /\ sidecar' = "release" \/ Unvouched(w)' \/ (UNCHANGED sidecar /\ ~Unvouched(w))
<1>1. wrapper[w].pc \in Checked => wrapper[w].verified /\ wrapper[w].tmp = "release"
  BY DEF BinaryInv, Verification, Trust
<1> USE <1>1 DEF BinaryInv, WrapperTypes, WrapperFields, At, Continue, Releasing, Unplaced,
                 Unvouched, Failing, InFinalizer, Checked, Vouched
<1>2. CASE Compare(w)
  BY <1>2 DEF Compare
<1>3. CASE HashExisting(w)
  BY <1>3 DEF HashExisting
<1>4. CASE KeepExisting(w)
  BY <1>4 DEF KeepExisting
<1>5. CASE RemoveExisting(w)
  BY <1>5 DEF RemoveExisting
<1>6. CASE ForgetSidecar(w) \/ UnlinkSidecar(w)
  BY <1>6 DEF ForgetSidecar, UnlinkSidecar
<1>7. CASE InstallBinary(w)
  BY <1>7 DEF InstallBinary
<1>8. CASE Vouch(w)
  BY <1>8 DEF Vouch
<1>9. CASE ReleaseFileLock(w)
  BY <1>9 DEF ReleaseFileLock, Released
<1> QED
  BY <1>2, <1>3, <1>4, <1>5, <1>6, <1>7, <1>8, <1>9 DEF FinalizerStep

\* It keeps its lock until it releases it.
LEMMA FinalizerLock ==
  ASSUME BinaryInv, NEW w \in Wrappers, FinalizerStep(w)
  PROVE  lockFile' = NoLock \/ (UNCHANGED lockFile /\ wrapper'[w].pc \in InFinalizer)
<1> USE DEF BinaryInv, WrapperTypes, WrapperFields, At, Continue, Releasing, InFinalizer
<1>1. CASE Compare(w) \/ HashExisting(w) \/ KeepExisting(w) \/ RemoveExisting(w)
  BY <1>1 DEF Compare, HashExisting, KeepExisting, RemoveExisting
<1>2. CASE ForgetSidecar(w) \/ UnlinkSidecar(w) \/ InstallBinary(w) \/ Vouch(w)
  BY <1>2 DEF ForgetSidecar, UnlinkSidecar, InstallBinary, Vouch
<1>3. CASE ReleaseFileLock(w)
  BY <1>3 DEF ReleaseFileLock, Released
<1> QED
  BY <1>1, <1>2, <1>3 DEF FinalizerStep

LEMMA EndSettles ==
  ASSUME BinaryInv, NEW w \in Wrappers, RunBinary(w) \/ KillWrapper(w)
  PROVE  /\ UNCHANGED <<bin, sidecar, lockFile>>
         /\ Unplaced(w)' \/ ~Unplaced(w)
         /\ Unvouched(w)' \/ ~Unvouched(w)
         /\ \/ wrapper'[w].pc = "killed"
            \/ wrapper[w].pc \notin {"write_pid", "killed"} \cup InFinalizer
<1> USE DEF BinaryInv, WrapperTypes, WrapperFields, At, Continue, Unplaced, Unvouched, Failing,
            InFinalizer
<1>1. CASE RunBinary(w)
  BY <1>1 DEF RunBinary
<1>2. CASE KillWrapper(w)
  BY <1>2 DEF KillWrapper
<1> QED
  BY <1>1, <1>2

LEMMA SettlesStep ==
  ASSUME CacheSettles, BinaryInv', NEW w \in Wrappers, WrapperStep(w)
  PROVE  CacheSettles'
<1> DEFINE Others == \A v \in Wrappers \ {w} : wrapper'[v] = wrapper[v]
           Holding(v) == wrapper[v].pc \in {"write_pid", "killed"} \cup InFinalizer
<1>1. bypass' = bypass /\ Others
  BY OthersRest DEF CacheSettles, BinaryInv
<1>2. \A v \in Wrappers \ {w} : /\ Unplaced(v)' = Unplaced(v) /\ Unvouched(v)' = Unvouched(v)
                                /\ Holding(v)' = Holding(v)
  BY <1>1 DEF Unplaced, Unvouched, Failing, Holding
<1>3. /\ DOMAIN lockFile' = {"maker", "written"}
      /\ \/ lockFile' = NoLock
         \/ lockFile'.maker = {w} /\ Holding(w)'
         \/ lockFile'.maker = lockFile.maker /\ lockFile # NoLock /\ lockFile.maker # {w}
         \/ UNCHANGED lockFile /\ ~Holding(w)
         \/ UNCHANGED lockFile /\ Holding(w)'
  <2>1. CASE FetchStep(w)
    BY <2>1, LookingSettles DEF CacheSettles, Locker
  <2>2. CASE OpenLock(w) \/ WritePid(w) \/ ReadPid(w) \/ UnlinkLock(w) \/ WaitForLock(w)
    BY <2>2, LockingSettles DEF CacheSettles, InFinalizer
  <2>3. CASE FinalizerStep(w)
    BY <2>3, FinalizerLock DEF CacheSettles, Locker, NoLock
  <2>4. CASE RunBinary(w) \/ KillWrapper(w)
    BY <2>4, EndSettles DEF CacheSettles, Locker
  <2> QED
    BY <2>1, <2>2, <2>3, <2>4 DEF WrapperStep
<1>4. Locker'
  <2> HIDE DEF Holding
  <2>1. lockFile # NoLock => \E v \in Wrappers : lockFile.maker = {v} /\ Holding(v)
    BY DEF CacheSettles, Locker, Holding
  <2>2. lockFile' # NoLock => \E v \in Wrappers : lockFile'.maker = {v} /\ Holding(v)'
    BY <1>2, <1>3, <2>1
  <2> QED
    BY <1>3, <2>2 DEF Locker, Holding
<1>5. bypass = {} => /\ bin' = "release" \/ Unplaced(w)' \/ (UNCHANGED bin /\ ~Unplaced(w))
                     /\ \/ sidecar' = "release" \/ Unvouched(w)'
                        \/ UNCHANGED sidecar /\ ~Unvouched(w)
  BY LookingSettles, LockingSettles, FinalizingSettles, EndSettles DEF CacheSettles, WrapperStep
<1>6. Outstanding'
  BY <1>1, <1>2, <1>5 DEF CacheSettles, Outstanding
<1> QED
  BY <1>4, <1>6 DEF CacheSettles

\* installer.test.js:368-387: once every wrapper has run the binary, the cache holds the
\* release with the sidecar that vouches for it and the lock is gone, for any number of
\* wrappers in the finalizer at a time.
THEOREM FinishedCacheIsUsable == BinarySpec => []FinalizedIsUsable
<1>1. BinaryInit => Locker /\ Outstanding
  <2> SUFFICES ASSUME BinaryInit PROVE Locker /\ Outstanding
    OBVIOUS
  <2>1. \A w \in Wrappers : Unplaced(w) /\ Unvouched(w)
    BY DEF BinaryInit, NewWrapper, Unplaced, Unvouched
  <2> QED
    BY <2>1, BinaryAssumption DEF BinaryInit, Locker, NoLock, Outstanding
<1>2. BinaryInv /\ BinaryInv' /\ Locker /\ Outstanding /\ [BinaryNext]_binaryVars
        => Locker' /\ Outstanding'
  <2> SUFFICES ASSUME CacheSettles, BinaryInv', [BinaryNext]_binaryVars
               PROVE  Locker' /\ Outstanding'
    BY DEF CacheSettles
  <2>1. ASSUME NEW w \in Wrappers, WrapperStep(w) PROVE Locker' /\ Outstanding'
    BY <2>1, SettlesStep DEF CacheSettles
  <2>2. CASE UNCHANGED binaryVars
    BY <2>2 DEF binaryVars, CacheSettles, Locker, Outstanding, Unplaced, Unvouched, Failing
  <2> QED
    BY <2>1, <2>2 DEF BinaryNext
<1>3. Locker /\ Outstanding => FinalizedIsUsable
  BY DEF Locker, Outstanding, FinalizedIsUsable, Unplaced, Unvouched, Failing, InFinalizer
<1> QED
  BY <1>1, <1>2, <1>3, BinaryInvariant, PTL DEF BinarySpec

-----------------------------------------------------------------------------
(* The configurations of editors.                                          *)

InstallerFields == {"pc", "read", "saved", "copying", "source"}

HostTypes ==
  /\ format \in {"json", "toml", "skill", "claude"}
  /\ config \in ConfigContents
  /\ DOMAIN backups = Names
  /\ DOMAIN installer = Installers
  /\ \A i \in Installers : /\ DOMAIN installer[i] = InstallerFields
                           /\ installer[i].read \in ConfigContents
                           /\ installer[i].saved \in ConfigContents
                           /\ installer[i].copying \in Names
  /\ replaced \subseteq UserContents /\ spoiled \in BOOLEAN

\* A content is in a backup, or on its way to one that its name promises.
InBackup(content) == \E name \in Names : backups[name] = content
Covered(content) ==
  \/ InBackup(content)
  \/ \E i \in Installers : /\ installer[i].pc = "copying" /\ ~installer[i].copying.primary
                           /\ installer[i].source = content

\* What each way of writing consists of.
Paths ==
  \A i \in Installers :
    /\ installer[i].pc \in {"idle", "done", "failed", "read", "backup", "primary", "hashed", "copy",
                            "copying", "write", "verify", "remove", "add"}
    /\ format = "claude" => installer[i].pc \in {"idle", "done", "failed", "read", "remove", "add"}
    /\ format # "claude" => installer[i].pc \notin {"remove", "add"}
    /\ installer[i].pc = "verify" => format = "toml"

BackingUp(i) == installer[i].pc \in {"primary", "hashed", "copy", "copying"}
Ready(i) ==
  \/ installer[i].pc \in {"write", "verify"}
  \/ format = "toml" /\ (installer[i].pc = "backup" \/ BackingUp(i))
BackedUp(i) == installer[i].pc = "write" \/ (format = "json" /\ installer[i].pc = "read")

\* Installers that overlap are of one mind about what to write.
OneMind ==
  \A i \in Installers :
    /\ Ready(i) => Rendered(installer[i].read) = Rendered(config)
    /\ installer[i].pc = "verify" => config = Rendered(installer[i].read)

\* Copies: one per name, of what is there.
Copies ==
  \A i \in Installers :
    /\ installer[i].pc \in {"copy", "copying"} /\ ~installer[i].copying.primary
         => installer[i].copying = Hashed(installer[i].saved)
    /\ installer[i].pc = "copying" =>
         /\ backups[installer[i].copying] = Torn
         /\ config \in UserContents => installer[i].source = config
         /\ \A j \in Installers \ {i} :
              installer[j].pc = "copying" => installer[j].copying # installer[i].copying

Saves ==
  \A i \in Installers :
    BackingUp(i) =>
      /\ config \in UserContents => installer[i].saved = config
      /\ installer[i].saved \in UserContents =>
           config = installer[i].saved \/ Covered(installer[i].saved)

Kept ==
  /\ \A content \in UserContents : backups[Hashed(content)] # NoConfig => Covered(content)
  /\ \A content \in replaced : Covered(content)
  /\ \A i \in Installers : BackedUp(i) /\ config \in UserContents => Covered(config)

HostInv == HostTypes /\ Paths /\ (~spoiled => OneMind /\ Copies /\ Saves /\ Kept)

-----------------------------------------------------------------------------

\* What an installer writes is no content of the user's, and writing it again changes
\* nothing; nor is a torn copy.
LEMMA RenderedContent ==
  ASSUME NEW content \in ConfigContents
  PROVE  /\ Rendered(content) \in ConfigContents /\ Rendered(content) \notin UserContents
         /\ Rendered(Rendered(content)) = Rendered(content)
<1>1. content = NoConfig \/ content \in [user : UserVersions \cup {0}, ours : BOOLEAN]
  BY DEF ConfigContents
<1>2. content.user \in UserVersions \cup {0}
  BY <1>1 DEF NoConfig
<1> QED
  BY <1>2 DEF Rendered, ConfigContents, UserContents

LEMMA UserContent ==
  /\ UserContents \subseteq ConfigContents /\ NoConfig \notin UserContents
  /\ Torn \notin UserContents /\ Torn # NoConfig
  /\ \A content \in ConfigContents : Hashed(content) \in Names /\ ~Hashed(content).primary
  /\ Primary \in Names /\ Primary.primary
  /\ \A c, d \in ConfigContents : Hashed(c) = Hashed(d) => c = d
<1>1. UserContents \subseteq ConfigContents
  BY DEF UserContents, ConfigContents
<1>2. NoConfig \notin UserContents /\ Torn \notin UserContents /\ Torn # NoConfig
  BY HostAssumption DEF UserContents, NoConfig, Torn, UserVersions
<1>3. /\ \A content \in ConfigContents : Hashed(content) \in Names /\ ~Hashed(content).primary
      /\ Primary \in Names /\ Primary.primary
  BY DEF Names, Hashed, Primary
<1>4. \A c, d \in ConfigContents : Hashed(c) = Hashed(d) => c = d
  BY DEF Hashed
<1> QED
  BY <1>1, <1>2, <1>3, <1>4

\* A step is one of one installer.
LEMMA OnlyOne ==
  ASSUME HostTypes, NEW i \in Installers, InstallerStep(i)
  PROVE  format' = format /\ \A j \in Installers \ {i} : installer'[j] = installer[j]
<1> USE DEF HostTypes, Goto
<1>1. CASE Start(i) \/ ReadConfig(i) \/ ReadForBackup(i) \/ CheckPrimary(i) \/ CheckHashed(i)
  BY <1>1 DEF Start, ReadConfig, ReadForBackup, CheckPrimary, CheckHashed
<1>2. CASE StartCopy(i) \/ FinishCopy(i) \/ WriteConfig(i) \/ VerifyConfig(i)
  BY <1>2 DEF StartCopy, FinishCopy, WriteConfig, VerifyConfig
<1>3. CASE RemoveEntry(i) \/ AddEntry(i) \/ KillInstaller(i)
  BY <1>3 DEF RemoveEntry, AddEntry, KillInstaller
<1> QED
  BY <1>1, <1>2, <1>3 DEF InstallerStep

LEMMA HostInvInit == HostInit => HostInv
<1> SUFFICES ASSUME HostInit PROVE HostInv
  OBVIOUS
<1> USE DEF HostInit, NewInstaller
<1>1. HostTypes
  BY UserContent DEF HostTypes, InstallerFields, ConfigContents
<1>2. Paths
  BY DEF Paths
<1>3. OneMind /\ Copies /\ Saves
  BY DEF OneMind, Copies, Saves, Ready, BackingUp
<1>4. Kept
  BY UserContent DEF Kept, BackedUp
<1> QED
  BY <1>1, <1>2, <1>3, <1>4 DEF HostInv

LEMMA HostTypesStep ==
  ASSUME HostTypes, NEW i \in Installers, InstallerStep(i)
  PROVE  HostTypes'
<1> USE DEF HostTypes, InstallerFields, Goto
<1>1. CASE Start(i)
  BY <1>1, UserContent DEF Start, NewInstaller, ConfigContents
<1>2. CASE ReadConfig(i)
  BY <1>2 DEF ReadConfig
<1>3. CASE ReadForBackup(i)
  BY <1>3 DEF ReadForBackup
<1>4. CASE CheckPrimary(i)
  BY <1>4, UserContent DEF CheckPrimary
<1>5. CASE CheckHashed(i)
  BY <1>5, UserContent DEF CheckHashed
<1>6. CASE StartCopy(i)
  BY <1>6 DEF StartCopy
<1>7. CASE FinishCopy(i)
  BY <1>7 DEF FinishCopy
<1>8. CASE WriteConfig(i)
  BY <1>8, RenderedContent DEF WriteConfig
<1>9. CASE VerifyConfig(i)
  BY <1>9 DEF VerifyConfig
<1>10. CASE RemoveEntry(i)
  BY <1>10 DEF RemoveEntry, ConfigContents
<1>11. CASE AddEntry(i)
  BY <1>11, RenderedContent DEF AddEntry
<1>12. CASE KillInstaller(i)
  BY <1>12 DEF KillInstaller
<1> QED
  BY <1>1, <1>2, <1>3, <1>4, <1>5, <1>6, <1>7, <1>8, <1>9, <1>10, <1>11, <1>12
  DEF InstallerStep

LEMMA PathsStep ==
  ASSUME HostTypes, Paths, NEW i \in Installers, InstallerStep(i)
  PROVE  Paths'
<1> DEFINE Path(pc) ==
      /\ pc \in {"idle", "done", "failed", "read", "backup", "primary", "hashed", "copy",
                 "copying", "write", "verify", "remove", "add"}
      /\ format = "claude" => pc \in {"idle", "done", "failed", "read", "remove", "add"}
      /\ format # "claude" => pc \notin {"remove", "add"}
      /\ pc = "verify" => format = "toml"
<1>1. Path(installer[i].pc)
  BY DEF Paths
<1> USE DEF HostTypes, InstallerFields, Goto, AfterRead, AfterBackup
<1>2. ASSUME Start(i)
      PROVE  Path(installer'[i].pc)
  BY <1>2 DEF Start, NewInstaller
<1>3. ASSUME ReadConfig(i) \/ ReadForBackup(i)
      PROVE  Path(installer'[i].pc)
  BY <1>1, <1>3 DEF ReadConfig, ReadForBackup
<1>4. ASSUME CheckPrimary(i) \/ CheckHashed(i)
      PROVE  Path(installer'[i].pc)
  BY <1>1, <1>4 DEF CheckPrimary, CheckHashed, Primaries
<1>5. ASSUME StartCopy(i) \/ FinishCopy(i)
      PROVE  Path(installer'[i].pc)
  BY <1>1, <1>5 DEF StartCopy, FinishCopy
<1>6. ASSUME WriteConfig(i) \/ VerifyConfig(i)
      PROVE  Path(installer'[i].pc)
  BY <1>1, <1>6 DEF WriteConfig, VerifyConfig
<1>7. ASSUME RemoveEntry(i) \/ AddEntry(i) \/ KillInstaller(i)
      PROVE  Path(installer'[i].pc)
  BY <1>1, <1>7 DEF RemoveEntry, AddEntry, KillInstaller
<1>8. Path(installer'[i].pc)
  BY <1>2, <1>3, <1>4, <1>5, <1>6, <1>7 DEF InstallerStep
<1> QED
  BY <1>8, OnlyOne DEF Paths

\* While nobody spoils it, the configuration only becomes what everybody writes.
LEMMA ConfigStep ==
  ASSUME HostInv, ~spoiled, NEW i \in Installers, InstallerStep(i), format # "claude"
  PROVE  /\ config' = config \/ (config' = Rendered(config) /\ installer[i].pc = "write")
         /\ Rendered(config') = Rendered(config)
         /\ config' \in UserContents => config' = config
<1> USE DEF HostInv, HostTypes
<1>1. config' = config \/ (config' = Rendered(config) /\ installer[i].pc = "write")
  <2>1. CASE Start(i) \/ ReadConfig(i) \/ ReadForBackup(i) \/ CheckPrimary(i) \/ CheckHashed(i)
    BY <2>1 DEF Start, ReadConfig, ReadForBackup, CheckPrimary, CheckHashed
  <2>2. CASE StartCopy(i) \/ FinishCopy(i) \/ KillInstaller(i)
    BY <2>2 DEF StartCopy, FinishCopy, KillInstaller
  <2>3. CASE WriteConfig(i)
    BY <2>3 DEF WriteConfig, OneMind, Ready
  <2>4. CASE VerifyConfig(i)
    BY <2>4 DEF VerifyConfig, OneMind
  <2>5. CASE RemoveEntry(i) \/ AddEntry(i)
    BY <2>5 DEF RemoveEntry, AddEntry, Paths
  <2> QED
    BY <2>1, <2>2, <2>3, <2>4, <2>5 DEF InstallerStep
<1> QED
  BY <1>1, RenderedContent

\* Claude's configuration is not written, nor backed up, by the installer itself.
LEMMA ClaudeRests ==
  ASSUME HostInv, format = "claude", NEW i \in Installers
  PROVE  ~Ready(i) /\ ~BackingUp(i) /\ ~BackedUp(i)
BY DEF HostInv, Paths, Ready, BackingUp, BackedUp

\* Whoever overlaps with a writer has read what makes it write the same.
LEMMA OneMindStep ==
  ASSUME HostInv, ~spoiled, NEW i \in Installers, InstallerStep(i), HostTypes', format # "claude"
  PROVE  OneMind'
<1> USE DEF HostInv
<1>1. format' = format /\ \A j \in Installers \ {i} : installer'[j] = installer[j]
  BY OnlyOne
<1>2. Rendered(config)' = Rendered(config) /\ (config' = config \/ config' = Rendered(config))
  BY <1>1, ConfigStep DEF Rendered
<1>3. \A j \in Installers : Rendered(installer[j].read) = Rendered(config) =>
        config' = config \/ config' = Rendered(installer[j].read)
  BY <1>2
<1>4. \A j \in Installers \ {i} :
        /\ Ready(j)' => Rendered(installer[j].read)' = Rendered(config)'
        /\ installer'[j].pc = "verify" => config' = Rendered(installer[j].read)'
  <2> SUFFICES ASSUME NEW j \in Installers \ {i}
               PROVE  /\ Ready(j)' => Rendered(installer[j].read)' = Rendered(config)'
                      /\ installer'[j].pc = "verify" => config' = Rendered(installer[j].read)'
    OBVIOUS
  <2>1. Ready(j)' = Ready(j) /\ Rendered(installer[j].read)' = Rendered(installer[j].read)
    BY <1>1 DEF Ready, BackingUp, Rendered
  <2>2. installer[j].pc = "verify" => Ready(j)
    BY DEF Ready
  <2> QED
    BY <1>1, <1>2, <1>3, <2>1, <2>2 DEF OneMind
<1>5. /\ Ready(i)' => Rendered(installer[i].read)' = Rendered(config)'
      /\ installer'[i].pc = "verify" => config' = Rendered(installer[i].read)'
  <2> DEFINE Mind == /\ Ready(i)' => Rendered(installer[i].read)' = Rendered(config)'
                     /\ installer'[i].pc = "verify" => config' = Rendered(installer[i].read)'
  <2> USE DEF HostTypes, InstallerFields, Goto, AfterRead, AfterBackup
  <2>1. CASE Start(i)
    BY <2>1 DEF Start, NewInstaller, Ready, BackingUp, Rendered
  <2>2. CASE ReadConfig(i)
    BY <2>2, <1>2 DEF ReadConfig, Ready, BackingUp, Rendered
  <2>3. CASE ReadForBackup(i) \/ CheckPrimary(i) \/ CheckHashed(i)
    <3>1. installer'[i].read = installer[i].read /\ installer'[i].pc # "verify"
      BY <2>3 DEF ReadForBackup, CheckPrimary, CheckHashed, Primaries
    <3>2. Ready(i)' => Ready(i) \/ format = "skill"
      BY <2>3, <1>1 DEF Ready, BackingUp, ReadForBackup, CheckPrimary, CheckHashed, Primaries
    <3> QED
      BY <3>1, <3>2, <1>1, <1>2 DEF OneMind, Rendered
  <2>4. CASE StartCopy(i) \/ FinishCopy(i)
    <3>1. installer'[i].read = installer[i].read /\ installer'[i].pc # "verify"
      BY <2>4 DEF StartCopy, FinishCopy
    <3>2. Ready(i)' => Ready(i) \/ format = "skill"
      BY <2>4, <1>1 DEF Ready, BackingUp, StartCopy, FinishCopy
    <3> QED
      BY <3>1, <3>2, <1>1, <1>2 DEF OneMind, Rendered
  <2>5. CASE WriteConfig(i)
    <3>1. Rendered(installer[i].read) = Rendered(config) /\ config' = Rendered(installer[i].read)
      BY <2>5 DEF WriteConfig, OneMind, Ready
    <3>2. installer'[i].read = installer[i].read
      BY <2>5 DEF WriteConfig
    <3> QED
      BY <3>1, <3>2, <1>1, <1>2 DEF Rendered
  <2>6. CASE VerifyConfig(i) \/ RemoveEntry(i) \/ AddEntry(i) \/ KillInstaller(i)
    BY <2>6, <1>1 DEF VerifyConfig, RemoveEntry, AddEntry, KillInstaller, Ready, BackingUp, Paths
  <2> QED
    BY <2>1, <2>2, <2>3, <2>4, <2>5, <2>6 DEF InstallerStep
<1> QED
  BY <1>4, <1>5 DEF OneMind

\* A backup that is complete stays, and a copy under a promised name is finished.
LEMMA CoveredStays ==
  ASSUME HostInv, ~spoiled, ~spoiled', NEW i \in Installers, InstallerStep(i),
         NEW content \in UserContents, Covered(content)
  PROVE  Covered(content)'
<1> USE DEF HostInv, HostTypes, InstallerFields, Goto
<1>1. content # NoConfig /\ content # Torn
  BY UserContent
<1>2. \A j \in Installers \ {i} : installer'[j] = installer[j]
  BY OnlyOne
<1>3. CASE UNCHANGED backups /\ installer[i].pc # "copying"
  BY <1>2, <1>3 DEF Covered, InBackup
<1>4. CASE StartCopy(i)
  <2> DEFINE copied == installer[i].copying
  <2>1. \/ backups' = [backups EXCEPT ![copied] = Torn] /\ backups[copied] = NoConfig
        \/ UNCHANGED backups
    BY <1>4 DEF StartCopy
  <2>2. InBackup(content) => InBackup(content)'
    BY <1>1, <2>1 DEF InBackup
  <2> QED
    BY <1>2, <1>4, <2>2 DEF Covered, StartCopy
<1>5. CASE FinishCopy(i)
  <2> DEFINE copied == installer[i].copying
  <2>1. /\ backups' = [backups EXCEPT ![copied] = installer[i].source]
        /\ backups[copied] = Torn /\ copied \in Names /\ installer[i].pc = "copying"
    BY <1>5 DEF FinishCopy, Copies
  <2>2. InBackup(content) => InBackup(content)'
    BY <1>1, <2>1 DEF InBackup
  <2>3. installer[i].source = content => InBackup(content)'
    BY <2>1 DEF InBackup
  <2> QED
    BY <1>2, <2>2, <2>3 DEF Covered
<1>6. CASE KillInstaller(i)
  BY <1>2, <1>6 DEF KillInstaller, Covered, InBackup
<1>7. CASE Start(i) \/ ReadConfig(i) \/ ReadForBackup(i) \/ CheckPrimary(i) \/ CheckHashed(i)
  BY <1>3, <1>7 DEF Start, ReadConfig, ReadForBackup, CheckPrimary, CheckHashed, Running
<1>8. CASE WriteConfig(i) \/ VerifyConfig(i) \/ RemoveEntry(i) \/ AddEntry(i)
  BY <1>3, <1>8 DEF WriteConfig, VerifyConfig, RemoveEntry, AddEntry
<1> QED
  BY <1>4, <1>5, <1>6, <1>7, <1>8 DEF InstallerStep

\* A name is taken by one copy, and the copy is of what is there.
LEMMA CopiesStep ==
  ASSUME HostInv, ~spoiled, NEW i \in Installers, InstallerStep(i), format # "claude"
  PROVE  Copies'
<1> USE DEF HostInv, HostTypes, InstallerFields, Goto
<1>1. \A j \in Installers \ {i} : installer'[j] = installer[j]
  BY OnlyOne
<1>2. config' \in UserContents => config' = config
  BY ConfigStep
<1>3. installer'[i].pc \in {"copy", "copying"} /\ ~installer'[i].copying.primary
        => installer'[i].copying = Hashed(installer'[i].saved)
  <2>1. CASE Start(i) \/ ReadConfig(i) \/ ReadForBackup(i)
    BY <2>1 DEF Start, NewInstaller, ReadConfig, ReadForBackup, AfterRead
  <2>2. CASE CheckPrimary(i)
    BY <2>2, UserContent DEF CheckPrimary
  <2>3. CASE CheckHashed(i)
    BY <2>3 DEF CheckHashed
  <2>4. CASE StartCopy(i)
    BY <2>4 DEF StartCopy, Copies
  <2>5. CASE FinishCopy(i) \/ WriteConfig(i) \/ VerifyConfig(i)
    BY <2>5 DEF FinishCopy, WriteConfig, VerifyConfig, AfterBackup
  <2>6. CASE RemoveEntry(i) \/ AddEntry(i) \/ KillInstaller(i)
    BY <2>6 DEF RemoveEntry, AddEntry, KillInstaller
  <2> QED
    BY <2>1, <2>2, <2>3, <2>4, <2>5, <2>6 DEF InstallerStep
<1>4. CASE StartCopy(i) /\ installer'[i].pc = "copying"
  <2> DEFINE copied == installer[i].copying
  <2>1. /\ backups' = [backups EXCEPT ![copied] = Torn] /\ backups[copied] = NoConfig
        /\ installer'[i].copying = copied /\ installer'[i].source = config /\ config' = config
    BY <1>4 DEF StartCopy
  <2>2. copied \in Names
    OBVIOUS
  <2> HIDE DEF copied
  <2>3. \A j \in Installers \ {i} :
          installer[j].pc = "copying" => /\ backups'[installer[j].copying] = Torn
                                         /\ installer[j].copying # copied
    BY <2>1, <2>2, UserContent DEF Copies
  <2> QED
    BY <1>1, <1>3, <2>1, <2>2, <2>3 DEF Copies
<1>5. CASE FinishCopy(i)
  <2> DEFINE copied == installer[i].copying
  <2>1. /\ backups' = [backups EXCEPT ![copied] = installer[i].source]
        /\ installer[i].pc = "copying" /\ installer'[i].pc # "copying" /\ config' = config
    BY <1>5 DEF FinishCopy, AfterBackup
  <2>2. \A j \in Installers \ {i} :
          installer[j].pc = "copying" => /\ backups'[installer[j].copying] = Torn
    BY <2>1 DEF Copies
  <2> QED
    BY <1>1, <1>3, <2>1, <2>2 DEF Copies
<1>6. CASE UNCHANGED backups /\ installer'[i].pc # "copying"
  BY <1>1, <1>2, <1>3, <1>6 DEF Copies
<1>7. CASE StartCopy(i) /\ installer'[i].pc # "copying"
  BY <1>6, <1>7 DEF StartCopy
<1>8. CASE Start(i) \/ ReadConfig(i) \/ ReadForBackup(i) \/ CheckPrimary(i) \/ CheckHashed(i)
  BY <1>6, <1>8 DEF Start, NewInstaller, ReadConfig, ReadForBackup, CheckPrimary, CheckHashed,
     AfterRead, AfterBackup, Primaries
<1>9. CASE WriteConfig(i) \/ VerifyConfig(i) \/ RemoveEntry(i) \/ AddEntry(i) \/ KillInstaller(i)
  BY <1>6, <1>9 DEF WriteConfig, VerifyConfig, RemoveEntry, AddEntry, KillInstaller
<1> QED
  BY <1>4, <1>5, <1>7, <1>8, <1>9 DEF InstallerStep

\* Whoever is at its backup has saved the user's content that is there, or did so
\* before another installer replaced it and backed it up.
LEMMA SavesStep ==
  ASSUME HostInv, ~spoiled, ~spoiled', NEW i \in Installers, InstallerStep(i), format # "claude"
  PROVE  Saves'
<1> USE DEF HostInv, HostTypes, InstallerFields, Goto
<1>1. \A j \in Installers \ {i} : installer'[j] = installer[j]
  BY OnlyOne
<1>2. /\ config' \in UserContents => config' = config
      /\ config' = config \/ (installer[i].pc = "write")
  BY ConfigStep
<1>3. BackingUp(i)' => \/ BackingUp(i) /\ installer'[i].saved = installer[i].saved
                       \/ installer'[i].saved = config /\ config' = config
  <2>1. CASE Start(i) \/ ReadConfig(i)
    BY <2>1 DEF Start, NewInstaller, ReadConfig, AfterRead, BackingUp
  <2>2. CASE ReadForBackup(i)
    BY <2>2 DEF ReadForBackup
  <2>3. CASE CheckPrimary(i) \/ CheckHashed(i) \/ StartCopy(i) \/ FinishCopy(i)
    BY <2>3 DEF CheckPrimary, CheckHashed, StartCopy, FinishCopy, BackingUp
  <2>4. CASE WriteConfig(i) \/ VerifyConfig(i) \/ RemoveEntry(i) \/ AddEntry(i) \/ KillInstaller(i)
    BY <2>4 DEF WriteConfig, VerifyConfig, RemoveEntry, AddEntry, KillInstaller, BackingUp
  <2> QED
    BY <2>1, <2>2, <2>3, <2>4 DEF InstallerStep
<1>4. \A j \in Installers :
        BackingUp(j)' => \/ BackingUp(j) /\ installer'[j].saved = installer[j].saved
                         \/ installer'[j].saved = config /\ config' = config
  BY <1>1, <1>3 DEF BackingUp
<1>5. ASSUME NEW content \in UserContents, config = content \/ Covered(content)
      PROVE  config' = content \/ Covered(content)'
  <2>1. CASE Covered(content)
    BY <2>1, CoveredStays
  <2>2. CASE config = content /\ installer[i].pc = "write"
    BY <2>1, <2>2 DEF Kept, BackedUp
  <2> QED
    BY <1>2, <1>5, <2>1, <2>2
<1>6. ASSUME NEW j \in Installers, BackingUp(j)'
      PROVE  /\ config' \in UserContents => installer'[j].saved = config'
             /\ installer'[j].saved \in UserContents =>
                  config' = installer'[j].saved \/ Covered(installer[j].saved)'
  <2>1. CASE BackingUp(j) /\ installer'[j].saved = installer[j].saved
    <3>1. config' \in UserContents => installer'[j].saved = config'
      BY <1>2, <2>1 DEF Saves
    <3>2. ASSUME installer'[j].saved \in UserContents
          PROVE  config' = installer'[j].saved \/ Covered(installer[j].saved)'
      <4>1. PICK content \in UserContents : content = installer[j].saved
        BY <2>1, <3>2
      <4>2. config = content \/ Covered(content)
        BY <2>1, <4>1 DEF Saves
      <4>3. config' = content \/ Covered(content)'
        BY <1>5, <4>2
      <4> QED
        BY <2>1, <4>1, <4>3 DEF Covered, InBackup
    <3> QED
      BY <3>1, <3>2
  <2>2. CASE installer'[j].saved = config /\ config' = config
    BY <2>2
  <2> QED
    BY <1>4, <1>6, <2>1, <2>2
<1> QED
  BY <1>6 DEF Saves, Covered, InBackup

\* A user's content is replaced by an installer that has seen it covered.
LEMMA KeptStep ==
  ASSUME HostInv, ~spoiled, ~spoiled', NEW i \in Installers, InstallerStep(i), format # "claude"
  PROVE  Kept'
<1> USE DEF HostInv, HostTypes, InstallerFields, Goto
<1>1. \A j \in Installers \ {i} : installer'[j] = installer[j]
  BY OnlyOne
<1>2. config' \in UserContents => config' = config
  BY ConfigStep
<1>3. format' = format
  BY OnlyOne
<1>4. ASSUME NEW content \in UserContents, backups'[Hashed(content)] # NoConfig
      PROVE  Covered(content)'
  <2>1. content \in ConfigContents /\ Hashed(content) \in Names /\ ~Hashed(content).primary
    BY UserContent
  <2>2. CASE backups[Hashed(content)] # NoConfig
    BY <2>2, CoveredStays DEF Kept
  <2>3. CASE backups[Hashed(content)] = NoConfig
    <3>1. backups' # backups
      BY <1>4, <2>3
    <3>2. StartCopy(i) \/ FinishCopy(i)
      BY <3>1 DEF InstallerStep, Start, ReadConfig, ReadForBackup, CheckPrimary, CheckHashed,
         WriteConfig, VerifyConfig, RemoveEntry, AddEntry, KillInstaller
    <3>3. installer[i].copying = Hashed(content)
      BY <1>4, <2>1, <2>3, <3>2 DEF StartCopy, FinishCopy
    <3>4. installer[i].pc = "copy" /\ StartCopy(i)
      BY <2>3, <3>2, <3>3, UserContent DEF StartCopy, FinishCopy, Copies
    <3>5. Hashed(installer[i].saved) = Hashed(content)
      BY <2>1, <3>3, <3>4 DEF Copies
    <3>6. installer[i].saved = content
      BY <2>1, <3>5, UserContent
    <3>7. config = content \/ Covered(content)
      BY <3>4, <3>6 DEF Saves, BackingUp
    <3>8. CASE config = content
      <4>1. /\ installer'[i].pc = "copying" /\ installer'[i].source = content
            /\ installer'[i].copying = installer[i].copying
        BY <3>1, <3>4, <3>8 DEF StartCopy
      <4> QED
        BY <2>1, <3>3, <4>1 DEF Covered
    <3> QED
      BY <3>7, <3>8, CoveredStays
  <2> QED
    BY <2>2, <2>3
<1>5. ASSUME NEW content \in replaced'
      PROVE  Covered(content)'
  <2>1. content \in replaced \/ (WriteConfig(i) /\ content = config /\ config \in UserContents)
    BY <1>5 DEF InstallerStep, Start, ReadConfig, ReadForBackup, CheckPrimary, CheckHashed,
       StartCopy, FinishCopy, WriteConfig, VerifyConfig, RemoveEntry, AddEntry, KillInstaller
  <2>2. Covered(content) /\ content \in UserContents
    <3>1. CASE content \in replaced
      BY <3>1 DEF Kept
    <3>2. CASE WriteConfig(i) /\ content = config /\ config \in UserContents
      BY <3>2 DEF Kept, BackedUp, WriteConfig
    <3> QED
      BY <2>1, <3>1, <3>2
  <2> QED
    BY <2>2, CoveredStays
<1>6. ASSUME NEW j \in Installers, BackedUp(j)', config' \in UserContents
      PROVE  Covered(config)'
  <2>1. config \in UserContents /\ config' = config
    BY <1>2, <1>6
  <2>2. CASE BackedUp(j)
    <3>1. PICK content \in UserContents : content = config
      BY <2>1
    <3>2. Covered(content)
      BY <2>1, <2>2, <3>1 DEF Kept
    <3>3. Covered(content)'
      BY <3>2, CoveredStays
    <3> QED
      BY <2>1, <3>1, <3>3 DEF Covered, InBackup
  <2>3. CASE ~BackedUp(j)
    <3>1. j = i
      BY <1>1, <1>3, <1>6, <2>3 DEF BackedUp
    <3>2. CASE Start(i)
      BY <1>6, <2>1, <3>1, <3>2, RenderedContent, UserContent DEF Start, NewInstaller, BackedUp
    <3>3. CASE ReadConfig(i)
      BY <1>3, <1>6, <2>3, <3>1, <3>3 DEF ReadConfig, BackedUp, AfterRead
    <3>4. CASE CheckPrimary(i)
      <4>1. /\ backups[Primary] = installer[i].saved /\ installer[i].saved = config
            /\ backups' = backups
        BY <1>3, <1>6, <2>1, <3>1, <3>4 DEF CheckPrimary, Primaries, BackedUp, Saves, BackingUp
      <4> QED
        BY <2>1, <4>1, UserContent DEF Covered, InBackup
    <3>5. CASE CheckHashed(i)
      <4>1. PICK content \in UserContents : content = config
        BY <2>1
      <4>2. backups[Hashed(content)] # NoConfig
        BY <1>3, <1>6, <2>1, <3>1, <3>5, <4>1 DEF CheckHashed, BackedUp, Saves, BackingUp
      <4>3. Covered(content)'
        BY <4>2, CoveredStays DEF Kept
      <4> QED
        BY <2>1, <4>1, <4>3 DEF Covered, InBackup
    <3>6. CASE FinishCopy(i)
      <4>1. installer[i].source = config /\ installer[i].copying \in Names
        BY <2>1, <3>6 DEF FinishCopy, Copies
      <4>2. backups'[installer[i].copying] = config'
        BY <2>1, <3>6, <4>1 DEF FinishCopy
      <4> QED
        BY <4>1, <4>2 DEF Covered, InBackup
    <3>7. CASE \/ ReadForBackup(i) \/ StartCopy(i) \/ WriteConfig(i)
               \/ VerifyConfig(i) \/ KillInstaller(i)
      BY <1>6, <3>1, <3>7
      DEF ReadForBackup, StartCopy, WriteConfig, VerifyConfig, KillInstaller, BackedUp
    <3>8. CASE RemoveEntry(i) \/ AddEntry(i)
      BY <3>8 DEF RemoveEntry, AddEntry, Paths
    <3> QED
      BY <3>2, <3>3, <3>4, <3>5, <3>6, <3>7, <3>8 DEF InstallerStep
  <2> QED
    BY <2>2, <2>3
<1> QED
  BY <1>4, <1>5, <1>6 DEF Kept, Covered, InBackup

\* In Claude's own configuration nothing is replaced.
LEMMA ClaudeStep ==
  ASSUME HostInv, HostTypes', Paths', ~spoiled, ~spoiled', NEW i \in Installers, InstallerStep(i),
         format = "claude"
  PROVE  OneMind' /\ Copies' /\ Saves' /\ Kept'
<1>1. format' = "claude"
  BY OnlyOne DEF HostInv
<1>2. \A j \in Installers : /\ ~Ready(j)' /\ ~BackingUp(j)' /\ ~BackedUp(j)'
                            /\ installer'[j].pc \notin {"verify", "copy", "copying"}
  BY <1>1 DEF Paths, Ready, BackingUp, BackedUp
<1>3. UNCHANGED <<backups, replaced>>
  BY DEF HostInv, Paths, InstallerStep, Start, ReadConfig, ReadForBackup, CheckPrimary, CheckHashed,
     StartCopy, FinishCopy, WriteConfig, VerifyConfig, RemoveEntry, AddEntry, KillInstaller
<1>4. ASSUME NEW content, Covered(content)
      PROVE  Covered(content)'
  BY <1>3, <1>4 DEF Covered, InBackup, HostInv, Paths
<1>5. Kept'
  BY <1>2, <1>3, <1>4 DEF HostInv, Kept
<1> QED
  BY <1>2, <1>5 DEF OneMind, Copies, Saves

\* The user edits while no installer runs, or the promise is off.
LEMMA EditStep ==
  ASSUME HostInv, EditConfig
  PROVE  HostInv'
<1> USE DEF HostInv
<1>1. HostTypes' /\ Paths'
  BY UserContent DEF EditConfig, HostTypes, Paths
<1>2. ASSUME ~spoiled'
      PROVE  OneMind' /\ Copies' /\ Saves' /\ Kept'
  <2>1. /\ UNCHANGED <<format, backups, installer, replaced>> /\ ~spoiled
        /\ \A i \in Installers : installer[i].pc \in {"idle", "done", "failed"}
    BY <1>2 DEF EditConfig, Running
  <2>2. \A i \in Installers : ~Ready(i)' /\ ~BackingUp(i)' /\ ~BackedUp(i)'
    BY <2>1 DEF Ready, BackingUp, BackedUp
  <2>3. Kept'
    BY <2>1, <2>2 DEF Kept, Covered, InBackup
  <2> QED
    BY <2>1, <2>2, <2>3 DEF OneMind, Copies, Saves
<1> QED
  BY <1>1, <1>2

LEMMA HostInvStep == HostInv /\ [HostNext]_hostVars => HostInv'
<1> SUFFICES ASSUME HostInv, [HostNext]_hostVars PROVE HostInv'
  OBVIOUS
<1>1. ASSUME NEW i \in Installers, InstallerStep(i)
      PROVE  HostInv'
  <2>1. HostTypes' /\ Paths'
    BY <1>1, HostTypesStep, PathsStep DEF HostInv
  <2>2. spoiled => spoiled'
    BY <1>1 DEF InstallerStep, Start, ReadConfig, ReadForBackup, CheckPrimary, CheckHashed,
       StartCopy, FinishCopy, WriteConfig, VerifyConfig, RemoveEntry, AddEntry, KillInstaller
  <2>3. ~spoiled' => OneMind' /\ Copies' /\ Saves' /\ Kept'
    BY <1>1, <2>1, <2>2, OneMindStep, CopiesStep, SavesStep, KeptStep, ClaudeStep
  <2> QED
    BY <2>1, <2>3 DEF HostInv
<1>2. CASE UNCHANGED hostVars
  BY <1>2 DEF hostVars, HostInv, HostTypes, Paths, OneMind, Copies, Saves, Kept, Covered, InBackup,
     Ready, BackingUp, BackedUp, Rendered
<1> QED
  BY <1>1, <1>2, EditStep DEF HostNext

\* backupFileOnce (npm/bin/ccm.js): whatever content of the user's an installer replaces
\* can be found in a backup, for any number of installers that overlap, fail or are
\* killed, and any number of installs and of edits between them.
THEOREM NothingOfTheUserIsLost == HostSpec => []ReplacedIsBackedUp
<1>1. HostInv => ReplacedIsBackedUp
  BY DEF HostInv, Kept, Covered, InBackup, ReplacedIsBackedUp
<1> QED
  BY <1>1, HostInvInit, HostInvStep, PTL DEF HostSpec

-----------------------------------------------------------------------------
(* The files of the local embedding model.                                *)

Contents == Bodies \cup {"missing"}

File == [content : Contents, by : {"nobody", "ccm", "user"}, during : SUBSET Loaders]

Part == [file : Nat, owner : Loaders, run : Nat, attempt : Nat]

LoaderFields == {"pc", "run", "at", "attempt", "body", "slept", "used"}

ModelTypeOK ==
  /\ installed \in [ModelFiles -> File]
  /\ parts \subseteq Part /\ stale \subseteq parts
  /\ DOMAIN loader = Loaders
  /\ \A p \in Loaders : /\ DOMAIN loader[p] = LoaderFields
                        /\ loader[p].run \in Nat /\ loader[p].at \in Nat
                        /\ loader[p].attempt \in Nat /\ loader[p].slept \in BOOLEAN
  /\ loads \in Nat /\ placements \in Nat

Pinned ==
  /\ \A f \in ModelFiles : installed[f].by = "ccm" => installed[f].content = "pinned"
  /\ \A p \in Loaders : /\ loader[p].pc = "rename" => loader[p].body = "pinned"
                        /\ loader[p].used \subseteq {"pinned"}

\* A file of the user's that a download may still replace was placed during it.
Placed ==
  /\ \A f \in ModelFiles : installed[f].by = "user" => installed[f].content # "missing"
  /\ \A p \in Loaders :
       loader[p].pc \in {"request", "stream", "rename"} =>
         /\ loader[p].at \in ModelFiles
         /\ installed[loader[p].at].by = "user" => p \in installed[loader[p].at].during

\* The .part files of a process are of its earlier runs, files and attempts, but for
\* the one it writes.
Earlier ==
  \A p \in Loaders :
    /\ loader[p].run <= loads
    /\ \A part \in parts : part.owner = p =>
         /\ part.run <= loader[p].run
         /\ part.run = loader[p].run =>
              /\ loader[p].pc = "check" => part.file < loader[p].at
              /\ loader[p].pc = "request" =>
                   \/ part.file < loader[p].at
                   \/ part.file = loader[p].at /\ part.attempt < loader[p].attempt
              /\ Downloading(p) =>
                   \/ part.file < loader[p].at
                   \/ part.file = loader[p].at /\ part.attempt <= loader[p].attempt

Live ==
  \A p \in Loaders :
    Downloading(p) /\ ~loader[p].slept => temporary_path(p) \in parts \ stale

ModelInv == ModelTypeOK /\ Pinned /\ Placed /\ Earlier /\ Live

-----------------------------------------------------------------------------

\* The empty directory.
LEMMA ModelInvInit == ModelInit => ModelInv
<1> SUFFICES ASSUME ModelInit PROVE ModelInv
  OBVIOUS
<1>1. ModelTypeOK
  BY DEF ModelInit, ModelTypeOK, NoFile, NoLoad, File, LoaderFields, Contents
<1>2. Pinned /\ Placed
  BY DEF ModelInit, Pinned, Placed, NoFile, NoLoad
<1>3. Earlier /\ Live
  BY DEF ModelInit, Earlier, Live, NoLoad, Downloading
<1> QED
  BY <1>1, <1>2, <1>3 DEF ModelInv

\* A new load: its run is later than those of all .part files.
LEMMA StartLoadInv ==
  ASSUME ModelInv, NEW p \in Loaders, StartLoad(p)
  PROVE  ModelInv'
<1> USE LoaderAssumption DEF ModelInv, StartLoad, NoLoad
<1>1. ModelTypeOK'
  <2> DEFINE new == [NoLoad EXCEPT !.pc = "check", !.run = loads']
  <2>1. loads' \in Nat
    BY DEF ModelTypeOK
  <2>2. /\ DOMAIN new = LoaderFields /\ new.run = loads' /\ new.at = 1
        /\ new.attempt = 1 /\ new.slept = FALSE
    BY DEF LoaderFields
  <2>3. loader' = [loader EXCEPT ![p] = new]
    OBVIOUS
  <2>4. p \in Loaders /\ ModelTypeOK /\ UNCHANGED <<installed, parts, stale, placements>>
    OBVIOUS
  <2>5. ASSUME NEW q \in Loaders
        PROVE  /\ DOMAIN loader'[q] = LoaderFields
               /\ loader'[q].run \in Nat /\ loader'[q].at \in Nat
               /\ loader'[q].attempt \in Nat /\ loader'[q].slept \in BOOLEAN
    <3>1. CASE q = p
      BY ONLY <3>1, <2>1, <2>2, <2>3, <2>4, q \in Loaders DEF ModelTypeOK
    <3>2. CASE q # p
      BY ONLY <3>2, <2>3, <2>4, q \in Loaders DEF ModelTypeOK
    <3> QED
      BY ONLY <3>1, <3>2
  <2> HIDE DEF new
  <2> QED
    BY ONLY <2>1, <2>3, <2>4, <2>5 DEF ModelTypeOK
<1>2. Pinned'
  BY DEF ModelTypeOK, Pinned, LoaderFields
<1>3. Placed'
  BY DEF ModelTypeOK, Placed, LoaderFields, NoFile
<1>4. Earlier'
  BY DEF ModelTypeOK, Earlier, LoaderFields, Part, Downloading, temporary_path
<1>5. Live'
  BY DEF ModelTypeOK, Live, Earlier, LoaderFields, Part, Downloading, temporary_path
<1> QED
  BY ONLY <1>1, <1>2, <1>3, <1>4, <1>5 DEF ModelInv

\* A file that is there is left alone; for one that is not, stale .part files go.
LEMMA CheckFileInv ==
  ASSUME ModelInv, NEW p \in Loaders, CheckFile(p)
  PROVE  ModelInv'
<1> USE LoaderAssumption DEF ModelInv, CheckFile, NextFile, Exists,
       remove_stale_partial_downloads
<1>1. ModelTypeOK'
  BY SMTT(30) DEF ModelTypeOK, LoaderFields, temporary_path, Part, Contents, Placed, File
<1>2. Pinned'
  BY DEF ModelTypeOK, Pinned, LoaderFields
<1>3. Placed'
  BY DEF ModelTypeOK, Placed, LoaderFields, NoFile
<1>4. Earlier'
  BY DEF ModelTypeOK, Earlier, LoaderFields, Part, Downloading, temporary_path
<1>5. Live'
  BY DEF ModelTypeOK, Live, Earlier, LoaderFields, Part, Downloading, temporary_path
<1> QED
  BY ONLY <1>1, <1>2, <1>3, <1>4, <1>5 DEF ModelInv

\* Every file is there: reading begins.
LEMMA AllDownloadedInv ==
  ASSUME ModelInv, NEW p \in Loaders, AllDownloaded(p)
  PROVE  ModelInv'
<1> USE LoaderAssumption DEF ModelInv, AllDownloaded, FirstFile
<1>1. ModelTypeOK'
  BY DEF ModelTypeOK, LoaderFields, temporary_path, Part, Contents, Placed, File
<1>2. Pinned'
  BY DEF ModelTypeOK, Pinned, LoaderFields
<1>3. Placed'
  BY DEF ModelTypeOK, Placed, LoaderFields, NoFile
<1>4. Earlier'
  BY DEF ModelTypeOK, Earlier, LoaderFields, Part, Downloading, temporary_path
<1>5. Live'
  BY DEF ModelTypeOK, Live, Earlier, LoaderFields, Part, Downloading, temporary_path
<1> QED
  BY ONLY <1>1, <1>2, <1>3, <1>4, <1>5 DEF ModelInv

\* A new .part file is not among the stale ones, since its path is new.
LEMMA RequestInv ==
  ASSUME ModelInv, NEW p \in Loaders, Request(p)
  PROVE  ModelInv'
<1> USE LoaderAssumption DEF ModelInv, Request, RetryDownload, GoTo
<1>1. ModelTypeOK'
  BY DEF ModelTypeOK, LoaderFields, temporary_path, Part, Contents, Placed, File
<1>2. Pinned'
  BY DEF ModelTypeOK, Pinned, LoaderFields
<1>3. Placed'
  BY DEF ModelTypeOK, Placed, LoaderFields, NoFile
<1>4. Earlier'
  BY DEF ModelTypeOK, Earlier, LoaderFields, Part, Downloading, temporary_path
<1>5. Live'
  BY DEF ModelTypeOK, Live, Earlier, LoaderFields, Part, Downloading, temporary_path
<1> QED
  BY ONLY <1>1, <1>2, <1>3, <1>4, <1>5 DEF ModelInv

\* Only the pinned content gets to the renaming.
LEMMA StreamToFileInv ==
  ASSUME ModelInv, NEW p \in Loaders, StreamToFile(p)
  PROVE  ModelInv'
<1> USE LoaderAssumption DEF ModelInv, StreamToFile, RetryDownload, RemovePart, GoTo,
       Matches, Bodies
<1>1. ModelTypeOK'
  BY DEF ModelTypeOK, LoaderFields, temporary_path, Part, Contents, Placed, File
<1>2. Pinned'
  BY DEF ModelTypeOK, Pinned, LoaderFields
<1>3. Placed'
  BY DEF ModelTypeOK, Placed, LoaderFields, NoFile
<1>4. Earlier'
  BY DEF ModelTypeOK, Earlier, LoaderFields, Part, Downloading, temporary_path
<1>5. Live'
  BY DEF ModelTypeOK, Live, Earlier, LoaderFields, Part, Downloading, temporary_path
<1> QED
  BY ONLY <1>1, <1>2, <1>3, <1>4, <1>5 DEF ModelInv

\* The .part file in place is the pinned one.
LEMMA MoveIntoPlaceInv ==
  ASSUME ModelInv, NEW p \in Loaders, MoveIntoPlace(p)
  PROVE  ModelInv'
<1> USE LoaderAssumption DEF ModelInv, MoveIntoPlace, NextFile, RemovePart, GoTo
<1>1. ModelTypeOK'
  BY DEF ModelTypeOK, LoaderFields, temporary_path, Part, Contents, Placed, File
<1>2. Pinned'
  BY DEF ModelTypeOK, Pinned, LoaderFields
<1>3. Placed'
  BY DEF ModelTypeOK, Placed, LoaderFields, NoFile
<1>4. Earlier'
  BY DEF ModelTypeOK, Earlier, LoaderFields, Part, Downloading, temporary_path
<1>5. Live'
  BY DEF ModelTypeOK, Live, Earlier, LoaderFields, Part, Downloading, temporary_path
<1> QED
  BY ONLY <1>1, <1>2, <1>3, <1>4, <1>5 DEF ModelInv

\* Only pinned content is used.
LEMMA ReadVerifiedInv ==
  ASSUME ModelInv, NEW p \in Loaders, ReadVerified(p)
  PROVE  ModelInv'
<1> USE LoaderAssumption DEF ModelInv, ReadVerified, Matches
<1>1. ModelTypeOK'
  BY DEF ModelTypeOK, LoaderFields, temporary_path, Part, Contents, Placed, File
<1>2. Pinned'
  BY DEF ModelTypeOK, Pinned, LoaderFields
<1>3. Placed'
  BY DEF ModelTypeOK, Placed, LoaderFields, NoFile
<1>4. Earlier'
  BY DEF ModelTypeOK, Earlier, LoaderFields, Part, Downloading, temporary_path
<1>5. Live'
  BY DEF ModelTypeOK, Live, Earlier, LoaderFields, Part, Downloading, temporary_path
<1> QED
  BY ONLY <1>1, <1>2, <1>3, <1>4, <1>5 DEF ModelInv

\* The model is loaded.
LEMMA LoadedInv ==
  ASSUME ModelInv, NEW p \in Loaders, Loaded(p)
  PROVE  ModelInv'
<1> USE LoaderAssumption DEF ModelInv, Loaded, GoTo
<1>1. ModelTypeOK'
  BY DEF ModelTypeOK, LoaderFields, temporary_path, Part, Contents, Placed, File
<1>2. Pinned'
  BY DEF ModelTypeOK, Pinned, LoaderFields
<1>3. Placed'
  BY DEF ModelTypeOK, Placed, LoaderFields, NoFile
<1>4. Earlier'
  BY DEF ModelTypeOK, Earlier, LoaderFields, Part, Downloading, temporary_path
<1>5. Live'
  BY DEF ModelTypeOK, Live, Earlier, LoaderFields, Part, Downloading, temporary_path
<1> QED
  BY ONLY <1>1, <1>2, <1>3, <1>4, <1>5 DEF ModelInv

\* A killed process leaves its .part file.
LEMMA KillLoaderInv ==
  ASSUME ModelInv, NEW p \in Loaders, KillLoader(p)
  PROVE  ModelInv'
<1> USE LoaderAssumption DEF ModelInv, KillLoader, GoTo
<1>1. ModelTypeOK'
  BY DEF ModelTypeOK, LoaderFields, temporary_path, Part, Contents, Placed, File
<1>2. Pinned'
  BY DEF ModelTypeOK, Pinned, LoaderFields
<1>3. Placed'
  BY DEF ModelTypeOK, Placed, LoaderFields, NoFile
<1>4. Earlier'
  BY DEF ModelTypeOK, Earlier, LoaderFields, Part, Downloading, temporary_path
<1>5. Live'
  BY DEF ModelTypeOK, Live, Earlier, LoaderFields, Part, Downloading, temporary_path
<1> QED
  BY ONLY <1>1, <1>2, <1>3, <1>4, <1>5 DEF ModelInv

\* A sleeping machine: the downloads whose .part file ages have slept.
LEMMA AgePartInv ==
  ASSUME ModelInv, AgePart
  PROVE  ModelInv'
<1> USE DEF ModelInv, AgePart
<1>1. ModelTypeOK'
  BY ZenonT(60) DEF ModelTypeOK, LoaderFields
<1>2. Pinned'
  BY DEF ModelTypeOK, Pinned, LoaderFields
<1>3. Placed'
  BY DEF ModelTypeOK, Placed, LoaderFields
<1>4. Earlier'
  BY DEF ModelTypeOK, Earlier, LoaderFields, Downloading, temporary_path
<1>5. Live'
  BY DEF ModelTypeOK, Live, LoaderFields, Downloading, temporary_path
<1> QED
  BY ONLY <1>1, <1>2, <1>3, <1>4, <1>5 DEF ModelInv

\* A file placed or deleted by the user.
LEMMA PlaceFileInv ==
  ASSUME ModelInv, NEW f \in ModelFiles, PlaceFile(f)
  PROVE  ModelInv'
<1> USE LoaderAssumption DEF ModelInv, PlaceFile
<1>1. ModelTypeOK'
  BY DEF ModelTypeOK, LoaderFields, File, NoFile, Contents, Bodies
<1>2. Pinned'
  BY DEF ModelTypeOK, Pinned, NoFile
<1>3. Placed'
  BY DEF ModelTypeOK, Placed, NoFile
<1>4. Earlier'
  BY DEF ModelTypeOK, Earlier, Downloading, temporary_path
<1>5. Live'
  BY DEF ModelTypeOK, Live, Downloading, temporary_path
<1> QED
  BY ONLY <1>1, <1>2, <1>3, <1>4, <1>5 DEF ModelInv

\* Every step keeps the invariant.
LEMMA ModelInvStep == ModelInv /\ [ModelNext]_modelVars => ModelInv'
<1> SUFFICES ASSUME ModelInv, [ModelNext]_modelVars PROVE ModelInv'
  OBVIOUS
<1>1. ASSUME NEW p \in Loaders, LoaderStep(p) PROVE ModelInv'
  BY <1>1, StartLoadInv, CheckFileInv, AllDownloadedInv, RequestInv, StreamToFileInv,
     MoveIntoPlaceInv, ReadVerifiedInv, LoadedInv, KillLoaderInv DEF LoaderStep
<1>2. CASE UNCHANGED modelVars
  BY <1>2 DEF modelVars, ModelInv, ModelTypeOK, Pinned, Placed, Earlier, Live, Downloading,
              temporary_path
<1> QED
  BY <1>1, <1>2, AgePartInv, PlaceFileInv DEF ModelNext

\* In every reachable state, for any number of processes, files and attempts.
THEOREM ModelInvariant == ModelSpec => []ModelInv
BY ModelInvInit, ModelInvStep, PTL DEF ModelSpec

\* Whatever the server sends and the user places: what ccm put in place has the
\* pinned checksum, and so has every file of a loaded model (download_attempt,
\* read_verified in vector/local_model.rs).
THEOREM OnlyPinned == ModelSpec => []PinnedOnly
<1>1. ModelInv => PinnedOnly
  BY DEF ModelInv, Pinned, PinnedOnly
<1> QED
  BY <1>1, ModelInvariant, PTL

\* The cleanup of one process leaves the download of another alone
\* (remove_stale_partial_downloads), unless its machine slept for a day.
THEOREM LiveDownloadsSurvive == ModelSpec => []LivePartsKept
<1>1. ModelInv => LivePartsKept
  BY DEF ModelInv, Live, LivePartsKept
<1> QED
  BY <1>1, ModelInvariant, PTL

\* A download replaces a file of the user's only if it had begun before the file was
\* placed (download_missing_files leaves existing files alone).
THEOREM UserFilesSurvive == ModelSpec => UserFilesKept
<1> DEFINE Spared ==
      \A f \in ModelFiles :
        (installed[f].by = "user" /\ installed'[f].by = "ccm")
          => \E p \in installed[f].during : loader[p].pc = "rename" /\ loader[p].at = f
<1>1. ModelInv /\ [ModelNext]_modelVars => [Spared]_modelVars
  <2> SUFFICES ASSUME ModelInv, ModelNext, NEW f \in ModelFiles,
                      installed[f].by = "user", installed'[f].by = "ccm"
               PROVE  \E p \in installed[f].during : loader[p].pc = "rename" /\ loader[p].at = f
    OBVIOUS
  <2> USE DEF ModelInv, ModelTypeOK
  <2>1. ASSUME NEW p \in Loaders, MoveIntoPlace(p)
        PROVE  \E q \in installed[f].during : loader[q].pc = "rename" /\ loader[q].at = f
    BY <2>1 DEF MoveIntoPlace, Placed
  <2>2. ASSUME NEW g \in ModelFiles, PlaceFile(g)
        PROVE  FALSE
    BY <2>2 DEF PlaceFile, NoFile
  <2>3. CASE UNCHANGED installed
    BY <2>3
  <2> QED
    BY <2>1, <2>2, <2>3
    DEF ModelNext, LoaderStep, StartLoad, CheckFile, AllDownloaded, Request, StreamToFile,
        ReadVerified, Loaded, KillLoader, AgePart
<1> QED
  BY <1>1, ModelInvariant, PTL DEF ModelSpec, UserFilesKept

=============================================================================
