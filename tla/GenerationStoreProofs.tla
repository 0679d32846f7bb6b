----------------------- MODULE GenerationStoreProofs -----------------------
(***************************************************************************)
(* Proofs about the generation store: StoreInv is inductive, so every run  *)
(* of it, with any number of concurrent indexers, generations and source   *)
(* states, is type correct and never serves a half-built generation. With  *)
(* HistoryInv, full and incremental runs undo no activation, and the store *)
(* implements AtomicIndex.                                                 *)
(***************************************************************************)
EXTENDS GenerationStore, TLAPS

---------------------------------------------------------------------------
(* What the helpers do to a well-typed store.                              *)

\* Touching a generation directory keeps the modification order a relation on
\* generations (the file system's mtime of core/src/lib.rs cleanup_generations).
LEMMA TouchType ==
  ASSUME TypeOK, NEW g \in Gens, Touch(g)
  PROVE  older' \subseteq Gens \X Gens
BY DEF TypeOK, Touch

\* Writing an artifact changes the run's own staging directory only, keeps what
\* is in it and makes it exist.
LEMMA WriteEffect ==
  ASSUME TypeOK, NEW p \in Indexers, gen[p] \in Gens,
         NEW artifact \in Artifacts, Write(p, artifact)
  PROVE  /\ dir' \in [Gens -> Directory]
         /\ \A g \in Gens \ {gen[p]} : dir'[g] = dir[g]
         /\ staging' = staging \cup {gen[p]}
         /\ older' \subseteq Gens \X Gens
<1>1. older' \subseteq Gens \X Gens
  BY TouchType DEF Write
<1>2. dir[gen[p]] \in Directory /\ base[p] \in Gens \cup {NoGen} /\ snap[p] \in 0..MaxSource
  BY DEF TypeOK
<1> DEFINE written ==
      [dir[gen[p]] EXCEPT
         !.has = @ \cup {artifact},
         !.basis = IF artifact = "ccm_graph" THEN base[p] ELSE @,
         !.snapshot = IF artifact = "ccm_manifest" THEN snap[p] ELSE @,
         !.built = IF artifact = "ccm_manifest" THEN snap[p] ELSE @]
<1>3. written \in Directory
  BY <1>2 DEF Directory
<1>4. dir' = [dir EXCEPT ![gen[p]] = written]
  BY <1>2 DEF Write, TypeOK
<1> HIDE DEF written
<1>5. dir' \in [Gens -> Directory] /\ \A g \in Gens \ {gen[p]} : dir'[g] = dir[g]
  BY <1>3, <1>4 DEF TypeOK
<1> QED
  BY <1>1, <1>5 DEF Write

\* Removing directories empties exactly those.
LEMMA RemoveEffect ==
  ASSUME TypeOK, NEW gone \in SUBSET Gens, Remove(gone)
  PROVE  /\ dir' \in [Gens -> Directory]
         /\ \A g \in gone : dir'[g] = EmptyDirectory
         /\ \A g \in Gens \ gone : dir'[g] = dir[g]
         /\ older' \subseteq Gens \X Gens
<1>1. EmptyDirectory \in Directory
  BY BoundAssumption DEF EmptyDirectory, Directory
<1> QED
  BY <1>1 DEF Remove, TypeOK

\* Ending a run resets its locals and those of no other run.
LEMMA EndEffect ==
  ASSUME TypeOK, NEW p \in Indexers, End(p)
  PROVE  /\ pc' = [pc EXCEPT ![p] = "idle"]
         /\ pc' \in [Indexers -> ControlPoints]
         /\ kind' \in [Indexers -> {"full", "update", "upgrade"}]
         /\ base' \in [Indexers -> Gens \cup {NoGen}]
         /\ expected' \in [Indexers -> Gens \cup {NoGen}]
         /\ gen' \in [Indexers -> Gens \cup {NoGen}]
         /\ snap' \in [Indexers -> 0..MaxSource]
         /\ gen'[p] = NoGen
         /\ \A q \in Indexers \ {p} : gen'[q] = gen[q] /\ expected'[q] = expected[q]
BY BoundAssumption DEF TypeOK, End, Goto, ControlPoints

\* Giving up removes at most the run's own staging directory, frees the lock if
\* the run holds it and ends the run.
LEMMA GiveUpEffect ==
  ASSUME TypeOK, NEW p \in Indexers, GiveUp(p)
  PROVE  /\ End(p)
         /\ lock' = IF lock = p THEN NoIndexer ELSE lock
         /\ dir' \in [Gens -> Directory]
         /\ older' \subseteq Gens \X Gens
         /\ \E gone \in SUBSET (staging \cap {gen[p]}) :
              /\ staging' = staging \ gone
              /\ \A g \in gone : dir'[g] = EmptyDirectory
              /\ \A g \in Gens \ gone : dir'[g] = dir[g]
<1> DEFINE gone == IF kind[p] = "upgrade" THEN {} ELSE staging \cap {gen[p]}
<1>1. gone \in SUBSET (staging \cap {gen[p]}) /\ gone \in SUBSET Gens
  BY DEF TypeOK
<1>2. staging' = staging \ gone /\ Remove(gone) /\ ReleaseLock(p) /\ End(p)
  BY DEF GiveUp
<1> HIDE DEF gone
<1>3. /\ dir' \in [Gens -> Directory]
      /\ \A g \in gone : dir'[g] = EmptyDirectory
      /\ \A g \in Gens \ gone : dir'[g] = dir[g]
      /\ older' \subseteq Gens \X Gens
  BY <1>1, <1>2, RemoveEffect
<1> QED
  BY <1>1, <1>2, <1>3 DEF ReleaseLock

\* A full run starts in an empty directory under an id nothing else uses.
LEMMA BeginFullEffect ==
  ASSUME TypeOK, NEW p \in Indexers, BeginFull(p)
  PROVE  /\ UNCHANGED <<pointer, lock, finalized, dir, environment, snap>>
         /\ older' \subseteq Gens \X Gens
         /\ kind' \in [Indexers -> {"full", "update", "upgrade"}]
         /\ base' \in [Indexers -> Gens \cup {NoGen}]
         /\ expected' \in [Indexers -> Gens \cup {NoGen}]
         /\ pc' \in [Indexers -> ControlPoints]
         /\ pc' = [pc EXCEPT ![p] = "scan"]
         /\ \A q \in Indexers \ {p} : expected'[q] = expected[q]
         /\ \E g \in Gens : /\ Unused(g)
                            /\ staging' = staging \cup {g}
                            /\ gen' = [gen EXCEPT ![p] = g]
<1>1. PICK g \in Gens : NewStaging(p, g)
  BY DEF BeginFull
<1>2. older' \subseteq Gens \X Gens
  BY <1>1, TouchType DEF NewStaging
<1>3. \E h \in Gens : Unused(h) /\ staging' = staging \cup {h} /\ gen' = [gen EXCEPT ![p] = h]
  BY <1>1 DEF NewStaging
<1> QED
  BY <1>2, <1>3 DEF BeginFull, TypeOK, Goto, ControlPoints

---------------------------------------------------------------------------
(* The inductive invariant.                                                *)

\* The empty store satisfies the invariant.
LEMMA StoreInvInit == Init => StoreInv
<1> SUFFICES ASSUME Init PROVE StoreInv
  OBVIOUS
<1>1. EmptyDirectory \in Directory
  BY BoundAssumption DEF EmptyDirectory, Directory
<1>2. TypeOK
  BY <1>1, BoundAssumption DEF Init, TypeOK, ControlPoints, Persist, NoPersist
<1> QED
  BY <1>2, GenAssumption DEF Init, StoreInv, LockDiscipline, OneName, Ownership, Installation,
                   ActiveIsComplete, Locked

---------------------------------------------------------------------------
(* Steps that several actions share preserve the invariant.                *)

\* Starting a full index is safe wherever a run holds no generation id.
LEMMA BeginFullInv ==
  ASSUME StoreInv, NEW p \in Indexers, pc[p] \in {"idle", "read", "restart"}, BeginFull(p)
  PROVE  StoreInv'
<1> USE GenAssumption DEF StoreInv
<1>a. PICK g \in Gens : Unused(g) /\ staging' = staging \cup {g} /\ gen' = [gen EXCEPT ![p] = g]
  BY BeginFullEffect
<1>b. UNCHANGED <<pointer, lock, finalized, dir, environment, snap>>
  BY BeginFullEffect
<1>c. /\ pc' = [pc EXCEPT ![p] = "scan"]
      /\ \A q \in Indexers \ {p} : expected'[q] = expected[q]
  BY BeginFullEffect
<1>1. TypeOK'
  BY <1>a, <1>b, <1>c, BeginFullEffect DEF Unused, environment, TypeOK, ControlPoints
<1>2. LockDiscipline'
  BY <1>a, <1>b, <1>c, BeginFullEffect DEF Unused, environment, TypeOK, LockDiscipline, Locked
<1>3. OneName'
  BY <1>a, <1>b, <1>c, BeginFullEffect DEF Unused, environment, TypeOK, OneName
<1>4. Ownership'
  BY <1>a, <1>b, <1>c, BeginFullEffect DEF Unused, environment, TypeOK, Ownership
<1>5. Installation'
  BY <1>a, <1>b, <1>c, BeginFullEffect DEF Unused, environment, TypeOK, Installation, LockDiscipline, Locked, Ownership, Complete
<1>6. ActiveIsComplete'
  BY <1>a, <1>b, <1>c, BeginFullEffect DEF Unused, environment, TypeOK, ActiveIsComplete, Complete
<1> QED
  BY ONLY <1>1, <1>2, <1>3, <1>4, <1>5, <1>6 DEF StoreInv

\* Creating the staging directory of an incremental build or an upgrade.
LEMMA NewStagingInv ==
  ASSUME StoreInv, NEW p \in Indexers, pc[p] \in {"read", "expect"},
         NEW g \in Gens, NewStaging(p, g),
         pc' = [pc EXCEPT ![p] = IF pc[p] = "read" THEN "lockcopy" ELSE "import"],
         UNCHANGED <<pointer, lock, finalized, dir, environment, kind, base>>,
         snap' \in [Indexers -> 0..MaxSource],
         \E e \in Gens \cup {NoGen} : expected' = [expected EXCEPT ![p] = e]
  PROVE  StoreInv'
<1> USE GenAssumption DEF StoreInv
<1>a. older' \subseteq Gens \X Gens
  BY TouchType DEF NewStaging
<1>b. Unused(g) /\ staging' = staging \cup {g} /\ gen' = [gen EXCEPT ![p] = g]
  BY DEF NewStaging
<1>1. TypeOK'
  BY <1>a, <1>b DEF Unused, environment, TypeOK, ControlPoints
<1>2. LockDiscipline'
  BY <1>a, <1>b DEF Unused, environment, TypeOK, LockDiscipline, Locked
<1>3. OneName'
  BY <1>a, <1>b DEF Unused, environment, TypeOK, OneName
<1>4. Ownership'
  BY <1>a, <1>b DEF Unused, environment, TypeOK, Ownership
<1>5. Installation'
  BY <1>a, <1>b DEF Unused, environment, TypeOK, Installation, LockDiscipline, Locked, Ownership, Complete
<1>6. ActiveIsComplete'
  BY <1>a, <1>b DEF Unused, environment, TypeOK, ActiveIsComplete, Complete
<1> QED
  BY ONLY <1>1, <1>2, <1>3, <1>4, <1>5, <1>6 DEF StoreInv

\* Writing an artifact is safe while a run builds: only it knows the directory.
LEMMA WriteInv ==
  ASSUME StoreInv, NEW p \in Indexers, NEW artifact \in Artifacts, Write(p, artifact),
         pc[p] \in {"copy", "import", "table", "graph", "manifest"},
         NEW point \in {"table", "graph", "manifest", "lock"},
         pc' = [pc EXCEPT ![p] = point],
         lock' = IF pc[p] = "copy" THEN NoIndexer ELSE lock,
         UNCHANGED <<pointer, finalized, environment, kind, base, expected, gen>>,
         snap' \in [Indexers -> 0..MaxSource]
  PROVE  StoreInv'
<1> USE GenAssumption DEF StoreInv
<1>a. gen[p] \in Gens \ finalized
  BY DEF TypeOK, Ownership
<1>b. /\ dir' \in [Gens -> Directory]
      /\ \A g \in Gens \ {gen[p]} : dir'[g] = dir[g]
      /\ staging' = staging \cup {gen[p]}
      /\ older' \subseteq Gens \X Gens
  BY <1>a, WriteEffect
<1>1. TypeOK'
  BY <1>a, <1>b DEF environment, TypeOK, ControlPoints
<1>2. LockDiscipline'
  BY <1>a, <1>b DEF environment, TypeOK, LockDiscipline, Locked
<1>3. OneName'
  BY <1>a, <1>b DEF environment, TypeOK, OneName
<1>4. Ownership'
  BY <1>a, <1>b DEF environment, TypeOK, Ownership
<1>5. Installation'
  BY <1>a, <1>b DEF environment, TypeOK, Installation, LockDiscipline, Locked, Ownership, Complete
<1>6. ActiveIsComplete'
  BY <1>a, <1>b DEF environment, TypeOK, ActiveIsComplete, Complete
<1> QED
  BY ONLY <1>1, <1>2, <1>3, <1>4, <1>5, <1>6 DEF StoreInv

\* Ending a run is safe when what is removed with it is neither served nor the
\* directory of a run that is about to install it.
LEMMA EndInv ==
  ASSUME StoreInv, NEW p \in Indexers, End(p), lock' = lock \/ ReleaseLock(p),
         UNCHANGED <<pointer, source, live>>, crashes' \in 0..MaxCrashes,
         dir' \in [Gens -> Directory], older' \subseteq Gens \X Gens,
         NEW gone \in SUBSET Gens,
         staging' = staging \ gone, finalized' = finalized \ gone,
         \A g \in gone : dir'[g] = EmptyDirectory,
         \A g \in Gens \ gone : dir'[g] = dir[g],
         pointer \notin gone,
         \A q \in Indexers \ {p} : pc[q] \in {"rename", "swap"} => gen[q] \notin gone
  PROVE  StoreInv'
<1> USE GenAssumption DEF StoreInv
<1>a. /\ pc' = [pc EXCEPT ![p] = "idle"]
      /\ gen'[p] = NoGen
      /\ \A q \in Indexers \ {p} : gen'[q] = gen[q] /\ expected'[q] = expected[q]
  BY EndEffect
<1>b. lock' = lock \/ (lock = p /\ lock' = NoIndexer)
  BY DEF ReleaseLock
<1>1. TypeOK'
  BY <1>b, EndEffect DEF TypeOK
<1>2. LockDiscipline'
  BY <1>a, <1>b DEF TypeOK, LockDiscipline, Locked
<1>3. OneName'
  BY <1>a, <1>b DEF TypeOK, OneName
<1>4. Ownership'
  BY <1>a, <1>b DEF TypeOK, Ownership
<1>5. Installation'
  BY <1>a, <1>b DEF TypeOK, Installation, LockDiscipline, Locked, Ownership, Complete
<1>6. ActiveIsComplete'
  BY <1>a, <1>b DEF TypeOK, ActiveIsComplete, Complete
<1> QED
  BY ONLY <1>1, <1>2, <1>3, <1>4, <1>5, <1>6 DEF StoreInv

\* Giving up is safe before the rename: nobody else knows the staging directory.
LEMMA GiveUpInv ==
  ASSUME StoreInv, NEW p \in Indexers, GiveUp(p),
         pc[p] \notin {"swap", "cleanup"},
         UNCHANGED <<pointer, finalized, environment>>
  PROVE  StoreInv'
<1> USE DEF StoreInv
<1>1. PICK gone \in SUBSET (staging \cap {gen[p]}) :
         /\ staging' = staging \ gone
         /\ \A g \in gone : dir'[g] = EmptyDirectory
         /\ \A g \in Gens \ gone : dir'[g] = dir[g]
  BY GiveUpEffect
<1>2. gone \in SUBSET Gens /\ finalized' = finalized \ gone
  BY <1>1 DEF TypeOK, OneName
<1>3. pointer \notin gone
  BY <1>1, GenAssumption DEF TypeOK, OneName, ActiveIsComplete
<1>4. \A q \in Indexers \ {p} : pc[q] \in {"rename", "swap"} => gen[q] \notin gone
  BY <1>1, GenAssumption DEF TypeOK, Ownership
<1>5. End(p) /\ ReleaseLock(p) /\ dir' \in [Gens -> Directory] /\ older' \subseteq Gens \X Gens
  BY GiveUpEffect DEF ReleaseLock
<1>6. UNCHANGED <<pointer, source, live>> /\ crashes' \in 0..MaxCrashes
  BY DEF environment, TypeOK
<1> QED
  BY ONLY <1>1, <1>2, <1>3, <1>4, <1>5, <1>6, StoreInv, EndInv

\* Moving between two control points with the disk unchanged.
LEMMA MoveInv ==
  ASSUME StoreInv, NEW p \in Indexers, NEW point \in ControlPoints,
         pc' = [pc EXCEPT ![p] = point],
         UNCHANGED <<pointer, disk, environment, expected, gen>>,
         lock' \in Indexers \cup {NoIndexer},
         kind' \in [Indexers -> {"full", "update", "upgrade"}],
         base' \in [Indexers -> Gens \cup {NoGen}],
         snap' \in [Indexers -> 0..MaxSource],
         lock' = lock \/ lock = NoIndexer,
         point \in Locked => lock' = p,
         gen[p] = NoGen <=> point \in {"idle", "restart", "read", "expect"},
         point \notin {"swap", "cleanup"},
         pc[p] \notin {"swap", "cleanup"},
         point = "rename" => MayInstall(p)
  PROVE  StoreInv'
<1> USE GenAssumption, IndexerAssumption DEF StoreInv, disk, environment
<1>1. TypeOK'
  BY StoreInv DEF MayInstall, TypeOK, ControlPoints
<1>2. LockDiscipline'
  BY StoreInv DEF MayInstall, TypeOK, LockDiscipline, Locked
<1>3. OneName'
  BY StoreInv DEF MayInstall, TypeOK, OneName
<1>4. Ownership'
  BY StoreInv DEF MayInstall, TypeOK, Ownership
<1>5. Installation'
  BY StoreInv DEF MayInstall, TypeOK, Installation, LockDiscipline, Locked, Ownership, Complete
<1>6. ActiveIsComplete'
  BY StoreInv DEF MayInstall, TypeOK, ActiveIsComplete, Complete
<1> QED
  BY ONLY <1>1, <1>2, <1>3, <1>4, <1>5, <1>6 DEF StoreInv

---------------------------------------------------------------------------
(* Every step preserves it.                                                *)

\* Ending a run that leaves the disk alone.
LEMMA QuietEndInv ==
  ASSUME StoreInv, NEW p \in Indexers, End(p), lock' = lock \/ ReleaseLock(p),
         UNCHANGED <<pointer, disk, source, live>>, crashes' \in 0..MaxCrashes
  PROVE  StoreInv'
<1>1. PICK gone \in SUBSET Gens : gone = {}
  OBVIOUS
<1>2. /\ staging' = staging \ gone /\ finalized' = finalized \ gone
      /\ \A g \in gone : dir'[g] = EmptyDirectory
      /\ \A g \in Gens \ gone : dir'[g] = dir[g]
      /\ dir' \in [Gens -> Directory] /\ older' \subseteq Gens \X Gens
      /\ UNCHANGED <<pointer, source, live>>
      /\ pointer \notin gone
      /\ \A q \in Indexers \ {p} : pc[q] \in {"rename", "swap"} => gen[q] \notin gone
  BY <1>1 DEF disk, StoreInv, TypeOK
<1> QED
  BY ONLY <1>2, StoreInv, End(p), lock' = lock \/ ReleaseLock(p), crashes' \in 0..MaxCrashes, EndInv

\* The build: everything up to the request for the activation lock.
LEMMA BuildStepInv ==
  ASSUME StoreInv, NEW p \in Indexers,
         \/ StartFull(p) \/ StartUpdate(p) \/ StartUpgrade(p) \/ ReadExpected(p)
         \/ ScanSources(p) \/ ReadActive(p) \/ LockForCopy(p) \/ CopyTable(p)
         \/ ImportActive(p) \/ WriteTable(p) \/ WriteGraph(p) \/ WriteManifest(p)
         \/ FailBuild(p) \/ FallBackToFull(p) \/ Restart(p)
  PROVE  StoreInv'
<1> USE DEF StoreInv
<1>1. CASE StartFull(p)
  BY <1>1, BeginFullInv DEF StartFull
<1>2. CASE StartUpdate(p)
  <2>1. CASE BeginFull(p)
    BY <1>2, <2>1, BeginFullInv DEF StartUpdate
  <2>2. CASE ~BeginFull(p)
    BY <1>2, <2>2, MoveInv, GenAssumption
       DEF StartUpdate, Goto, ControlPoints, Locked, TypeOK, Ownership, Usable, Resolves, disk
  <2> QED
    BY <2>1, <2>2
<1>3. CASE StartUpgrade(p)
  BY <1>3, MoveInv DEF StartUpgrade, BeginUpgrade, Goto, ControlPoints, Locked, TypeOK,
                       Ownership, Usable, Resolves, disk
<1>4. CASE ReadExpected(p)
  <2>1. PICK g \in Gens : NewStaging(p, g)
    BY <1>4 DEF ReadExpected
  <2> QED
    BY <1>4, <2>1, NewStagingInv DEF ReadExpected, Goto, TypeOK
<1>5. CASE ScanSources(p)
  BY <1>5, MoveInv DEF ScanSources, Goto, ControlPoints, Locked, TypeOK, Ownership, disk,
                       environment
<1>6. CASE ReadActive(p)
  <2>1. CASE BeginFull(p)
    BY <1>6, <2>1, BeginFullInv DEF ReadActive
  <2>2. CASE End(p) /\ UNCHANGED <<pointer, lock, disk, environment>>
    BY <2>2, QuietEndInv DEF environment, TypeOK
  <2>3. CASE BeginUpgrade(p)
    BY <1>6, <2>3, MoveInv DEF ReadActive, BeginUpgrade, Goto, ControlPoints, Locked, TypeOK,
                       Ownership, Usable, Resolves, disk
  <2>4. CASE /\ snap' = [snap EXCEPT ![p] = source]
             /\ expected' = [expected EXCEPT ![p] = base[p]]
             /\ \E g \in Gens : NewStaging(p, g)
             /\ Goto(p, "lockcopy")
             /\ UNCHANGED <<pointer, lock, finalized, dir, environment, kind, base>>
    <3>1. PICK g \in Gens : NewStaging(p, g)
      BY <2>4
    <3> QED
      BY <1>6, <2>4, <3>1, NewStagingInv DEF ReadActive, Goto, TypeOK
  <2> QED
    BY <1>6, <2>1, <2>2, <2>3, <2>4 DEF ReadActive
<1>7. CASE LockForCopy(p)
  BY <1>7, MoveInv DEF LockForCopy, Goto, ControlPoints, Locked, TypeOK, Ownership, disk, locals
<1>8. CASE CopyTable(p)
  <2>1. CASE GiveUp(p)
    BY <1>8, <2>1, GiveUpInv DEF CopyTable
  <2>2. CASE Write(p, "ccm_db") /\ lock' = NoIndexer /\ Goto(p, "graph") /\ UNCHANGED locals
    BY <1>8, <2>2, WriteInv DEF CopyTable, Goto, Artifacts, TypeOK, locals
  <2> QED
    BY <1>8, <2>1, <2>2 DEF CopyTable
<1>9. CASE ImportActive(p)
  <2>1. CASE /\ snap' = [snap EXCEPT ![p] = dir[base[p]].snapshot]
             /\ Write(p, "ccm_graph")
             /\ Goto(p, "table")
             /\ UNCHANGED <<kind, base, expected, gen>>
    <3>1. snap' \in [Indexers -> 0..MaxSource]
      BY <1>9, <2>1 DEF ImportActive, Resolves, TypeOK, Directory
    <3> QED
      BY <1>9, <2>1, <3>1, WriteInv DEF ImportActive, Goto, Artifacts
  <2>2. CASE staging' = staging \ {gen[p]} /\ Remove({gen[p]}) /\ End(p)
    <3>1. gen[p] \in Gens \ finalized
      BY <1>9 DEF ImportActive, TypeOK, Ownership
    <3>2. /\ dir' \in [Gens -> Directory] /\ older' \subseteq Gens \X Gens
          /\ \A g \in {gen[p]} : dir'[g] = EmptyDirectory
          /\ \A g \in Gens \ {gen[p]} : dir'[g] = dir[g]
      BY <2>2, <3>1, RemoveEffect
    <3>3. pointer \notin {gen[p]} /\ finalized' = finalized \ {gen[p]}
      BY <1>9, <3>1, GenAssumption DEF ImportActive, ActiveIsComplete
    <3>4. \A q \in Indexers \ {p} : pc[q] \in {"rename", "swap"} => gen[q] \notin {gen[p]}
      BY <3>1, GenAssumption DEF Ownership
    <3>5. lock' = lock /\ UNCHANGED <<pointer, source, live>> /\ crashes' \in 0..MaxCrashes
      BY <1>9 DEF ImportActive, environment, TypeOK
    <3> QED
      BY ONLY <2>2, <3>1, <3>2, <3>3, <3>4, <3>5, StoreInv, EndInv
  <2> QED
    BY <1>9, <2>1, <2>2 DEF ImportActive
<1>10. CASE WriteTable(p)
  BY <1>10, WriteInv DEF WriteTable, Goto, Artifacts, TypeOK, locals
<1>11. CASE WriteGraph(p)
  BY <1>11, WriteInv DEF WriteGraph, Goto, Artifacts, TypeOK, locals
<1>12. CASE WriteManifest(p)
  BY <1>12, WriteInv DEF WriteManifest, Goto, Artifacts, TypeOK, locals
<1>13. CASE FailBuild(p)
  BY <1>13, GiveUpInv DEF FailBuild
<1>14. CASE FallBackToFull(p)
  <2> USE GenAssumption
  <2>a. gen[p] \in Gens \ finalized
    BY <1>14 DEF FallBackToFull, TypeOK, Ownership
  <2>b. /\ dir' \in [Gens -> Directory] /\ older' \subseteq Gens \X Gens
        /\ \A g \in {gen[p]} : dir'[g] = EmptyDirectory
        /\ \A g \in Gens \ {gen[p]} : dir'[g] = dir[g]
    BY <1>14, <2>a, RemoveEffect DEF FallBackToFull
  <2>c. /\ staging' = staging \ {gen[p]}
        /\ gen' = [gen EXCEPT ![p] = NoGen]
        /\ pc' = [pc EXCEPT ![p] = "restart"]
        /\ pc[p] = "graph"
        /\ UNCHANGED <<pointer, lock, finalized, environment, kind, base, expected, snap>>
    BY <1>14 DEF FallBackToFull, Goto
  <2>1. TypeOK'
    BY <2>a, <2>b, <2>c DEF environment, TypeOK, ControlPoints
  <2>2. LockDiscipline'
    BY <2>a, <2>b, <2>c DEF environment, TypeOK, LockDiscipline, Locked
  <2>3. OneName'
    BY <2>a, <2>b, <2>c DEF environment, TypeOK, OneName
  <2>4. Ownership'
    BY <2>a, <2>b, <2>c DEF environment, TypeOK, Ownership
  <2>5. Installation'
    BY <2>a, <2>b, <2>c DEF environment, TypeOK, Installation, LockDiscipline, Locked, Ownership, Complete
  <2>6. ActiveIsComplete'
    BY <2>a, <2>b, <2>c DEF environment, TypeOK, ActiveIsComplete, Complete
  <2> QED
    BY ONLY <2>1, <2>2, <2>3, <2>4, <2>5, <2>6 DEF StoreInv
<1>15. CASE Restart(p)
  BY <1>15, BeginFullInv DEF Restart
<1> QED
  BY <1>1, <1>2, <1>3, <1>4, <1>5, <1>6, <1>7, <1>8, <1>9, <1>10, <1>11, <1>12, <1>13, <1>14,
     <1>15

\* The installation under the lock, and a crash.
LEMMA InstallStepInv ==
  ASSUME StoreInv, NEW p \in Indexers,
         \/ AcquireLock(p) \/ Verify(p) \/ Rename(p) \/ SwapPointer(p) \/ FailSwap(p)
         \/ Cleanup(p) \/ SkipCleanup(p) \/ Crash(p)
  PROVE  StoreInv'
<1> USE GenAssumption, IndexerAssumption DEF StoreInv
<1>1. CASE AcquireLock(p)
  BY <1>1, MoveInv DEF AcquireLock, Goto, ControlPoints, Locked, TypeOK, Ownership, disk, locals
<1>2. CASE Verify(p)
  <2>1. CASE GiveUp(p)
    BY <1>2, <2>1, GiveUpInv DEF Verify, disk
  <2>2. CASE MayInstall(p) /\ Goto(p, "rename") /\ UNCHANGED <<lock, disk, locals>>
    BY <1>2, <2>2, MoveInv DEF Verify, Goto, ControlPoints, Locked, TypeOK, Ownership,
                               LockDiscipline, locals
  <2> QED
    BY <1>2, <2>1, <2>2 DEF Verify
<1>3. CASE Rename(p)
  <2>1. CASE GiveUp(p) /\ UNCHANGED finalized
    BY <1>3, <2>1, GiveUpInv DEF Rename
  <2>2. CASE /\ staging' = staging \ {gen[p]}
             /\ finalized' = finalized \cup {gen[p]}
             /\ Goto(p, "swap")
             /\ UNCHANGED <<lock, dir, older, locals>>
    <3>a. pc[p] = "rename" /\ gen[p] \in Gens /\ gen[p] \in staging
      BY <1>3 DEF Rename, TypeOK, Ownership, Installation
    <3>b. pc' = [pc EXCEPT ![p] = "swap"] /\ UNCHANGED <<pointer, environment>>
      BY <1>3, <2>2 DEF Rename, Goto
    <3>1. TypeOK'
      BY <2>2, <3>a, <3>b DEF environment, locals, TypeOK, ControlPoints
    <3>2. LockDiscipline'
      BY <2>2, <3>a, <3>b DEF environment, locals, TypeOK, LockDiscipline, Locked
    <3>3. OneName'
      BY <2>2, <3>a, <3>b DEF environment, locals, TypeOK, OneName
    <3>4. Ownership'
      BY <2>2, <3>a, <3>b DEF environment, locals, TypeOK, Ownership
    <3>5. Installation'
      BY <2>2, <3>a, <3>b DEF environment, locals, TypeOK, Installation, LockDiscipline, Locked, Ownership, Complete, OneName, ActiveIsComplete
    <3>6. ActiveIsComplete'
      BY <2>2, <3>a, <3>b DEF environment, locals, TypeOK, ActiveIsComplete, Complete
    <3> QED
      BY ONLY <3>1, <3>2, <3>3, <3>4, <3>5, <3>6 DEF StoreInv
  <2> QED
    BY <1>3, <2>1, <2>2 DEF Rename
<1>4. CASE SwapPointer(p)
  <2>a. /\ pc[p] = "swap" /\ pc' = [pc EXCEPT ![p] = "cleanup"]
        /\ pointer' = gen[p] /\ gen[p] \in Gens
        /\ UNCHANGED <<lock, finalized, staging, dir, older, source, live, crashes,
                       kind, base, expected, gen, snap>>
    BY <1>4 DEF SwapPointer, Goto, disk, environment, locals, TypeOK, Ownership
  <2>1. TypeOK'
    BY <2>a DEF TypeOK, ControlPoints
  <2>2. LockDiscipline'
    BY <2>a DEF TypeOK, LockDiscipline, Locked
  <2>3. OneName'
    BY <2>a DEF TypeOK, OneName
  <2>4. Ownership'
    BY <2>a DEF TypeOK, Ownership
  <2>5. Installation'
    BY <2>a DEF TypeOK, Installation, LockDiscipline, Locked, Ownership, Complete
  <2>6. ActiveIsComplete'
    BY <2>a DEF TypeOK, ActiveIsComplete, Complete, Installation
  <2> QED
    BY ONLY <2>1, <2>2, <2>3, <2>4, <2>5, <2>6 DEF StoreInv
<1>5. CASE FailSwap(p)
  <2>a. /\ pc[p] = "swap" /\ End(p) /\ ReleaseLock(p) /\ UNCHANGED <<pointer, staging, source, live>>
        /\ gen[p] \in Gens /\ gen[p] # pointer /\ gen[p] \notin staging
        /\ crashes' \in 0..MaxCrashes
    BY <1>5 DEF FailSwap, environment, TypeOK, Ownership, Installation, OneName
  <2>1. CASE finalized' = finalized \ {gen[p]} /\ Remove({gen[p]})
    <3>1. /\ dir' \in [Gens -> Directory] /\ older' \subseteq Gens \X Gens
          /\ \A g \in {gen[p]} : dir'[g] = EmptyDirectory
          /\ \A g \in Gens \ {gen[p]} : dir'[g] = dir[g]
      BY <2>a, <2>1, RemoveEffect
    <3>2. \A q \in Indexers \ {p} : pc[q] \in {"rename", "swap"} => gen[q] \notin {gen[p]}
      BY <2>a DEF Ownership
    <3>3. staging' = staging \ {gen[p]} /\ {gen[p]} \in SUBSET Gens /\ pointer \notin {gen[p]}
      BY <2>a
    <3> QED
      BY ONLY <2>a, <2>1, <3>1, <3>2, <3>3, StoreInv, EndInv
  <2>2. CASE UNCHANGED <<finalized, dir, older>>
    BY <2>a, <2>2, QuietEndInv DEF disk
  <2> QED
    BY <1>5, <2>1, <2>2 DEF FailSwap
<1>6. CASE Cleanup(p)
  <2>1. PICK stale \in SUBSET staging :
          /\ staging' = staging \ stale
          /\ Remove(stale \cup (finalized \ Retained(gen[p])))
    BY <1>6 DEF Cleanup
  <2> DEFINE gone == stale \cup (finalized \ Retained(gen[p]))
  <2>2. /\ pc[p] = "cleanup" /\ gen[p] = pointer /\ pointer \in finalized
        /\ End(p) /\ ReleaseLock(p) /\ UNCHANGED <<pointer, source, live>>
        /\ crashes' \in 0..MaxCrashes /\ lock = p
    BY <1>6 DEF Cleanup, environment, TypeOK, Installation, Ownership, ActiveIsComplete,
                LockDiscipline, Locked
  <2>3. /\ gone \in SUBSET Gens /\ pointer \notin gone
        /\ staging' = staging \ gone /\ finalized' = finalized \ gone
    BY <1>6, <2>1, <2>2 DEF Cleanup, Retained, TypeOK, OneName
  <2>4. /\ dir' \in [Gens -> Directory] /\ older' \subseteq Gens \X Gens
        /\ \A g \in gone : dir'[g] = EmptyDirectory
        /\ \A g \in Gens \ gone : dir'[g] = dir[g]
    BY <2>1, <2>3, RemoveEffect
  <2>5. \A q \in Indexers \ {p} : pc[q] \in {"rename", "swap"} => gen[q] \notin gone
    BY <2>2 DEF LockDiscipline, Locked
  <2> HIDE DEF gone
  <2> QED
    BY ONLY <2>2, <2>3, <2>4, <2>5, StoreInv, EndInv
<1>7. CASE SkipCleanup(p)
  BY <1>7, QuietEndInv DEF SkipCleanup, environment, TypeOK
<1>8. CASE Crash(p)
  <2>1. crashes' \in 0..MaxCrashes
    BY <1>8, BoundAssumption DEF Crash, TypeOK
  <2> QED
    BY <1>8, <2>1, QuietEndInv DEF Crash
<1> QED
  BY <1>1, <1>2, <1>3, <1>4, <1>5, <1>6, <1>7, <1>8

\* A live persist changes what the manifest of the active generation records, if
\* anything, and never which artifacts a directory has.
LEMMA PersistEffect ==
  ASSUME StoreInv, LivePersistEnd
  PROVE  /\ dir' \in [Gens -> Directory]
         /\ older' \subseteq Gens \X Gens
         /\ \A g \in Gens : dir'[g].has = dir[g].has /\ dir'[g].built = dir[g].built
                            /\ dir'[g].basis = dir[g].basis
         /\ \A g \in Gens \ {pointer} : dir'[g] = dir[g]
         /\ \A g \in Gens : dir'[g].snapshot \in {dir[g].snapshot, live.snapshot}
         /\ pointer # live.gen => dir' = dir
<1> USE DEF StoreInv, TypeOK
<1>1. live.gen \in Gens /\ live.snapshot \in 0..MaxSource
  BY DEF LivePersistEnd, Persist
<1>2. CASE Persisted
  <2>1. older' \subseteq Gens \X Gens
    BY <1>1, <1>2, TouchType DEF Persisted
  <2> QED
    BY <1>1, <1>2, <2>1 DEF Persisted, Directory
<1>3. CASE NotPersisted
  <2>1. older' \subseteq Gens \X Gens
    BY <1>1, <1>3, TouchType DEF NotPersisted
  <2> QED
    BY <1>3, <2>1 DEF NotPersisted
<1> QED
  BY <1>2, <1>3 DEF LivePersistEnd

\* Edits and the live index of the MCP server touch nothing a run relies on.
LEMMA EnvironmentInv ==
  ASSUME StoreInv, EditSources \/ LivePersistBegin \/ LivePersistEnd
  PROVE  StoreInv'
<1> USE DEF StoreInv
<1>1. TypeOK'
  <2>1. CASE EditSources
    BY <2>1, BoundAssumption DEF EditSources, TypeOK, disk, locals
  <2>2. CASE LivePersistBegin
    <3>1. PICK reached \in dir[pointer].built..source :
            live' = [gen |-> pointer, snapshot |-> reached]
      BY <2>2 DEF LivePersistBegin
    <3>2. pointer \in Gens /\ dir[pointer].built \in Nat /\ source \in 0..MaxSource
      BY <2>2 DEF LivePersistBegin, Resolves, TypeOK, Directory
    <3>3. live' \in Persist
      BY <3>1, <3>2, BoundAssumption DEF Persist
    <3> QED
      BY <2>2, <3>2, <3>3, TouchType DEF LivePersistBegin, TypeOK, locals
  <2>3. CASE LivePersistEnd
    <3>1. live' \in Persist
      BY <2>3, BoundAssumption DEF LivePersistEnd, Persist, NoPersist
    <3> QED
      BY <2>3, <3>1, PersistEffect DEF LivePersistEnd, TypeOK, locals
  <2> QED
    BY <2>1, <2>2, <2>3
<1>2. UNCHANGED <<pointer, lock, finalized, staging, pc, gen, expected>>
  BY DEF EditSources, LivePersistBegin, LivePersistEnd, disk, locals
<1>3. /\ \A g \in Gens : dir'[g].has = dir[g].has
      /\ \A g \in Gens \ finalized : dir'[g] = dir[g]
  <2>1. CASE dir' = dir
    BY <2>1
  <2>2. CASE LivePersistEnd
    <3>1. pointer \in finalized \/ pointer = NoGen
      BY DEF ActiveIsComplete
    <3> QED
      BY <2>2, <3>1, GenAssumption, PersistEffect
  <2> QED
    BY <2>1, <2>2 DEF EditSources, LivePersistBegin, disk
<1>4. LockDiscipline' /\ Ownership'
  BY <1>2 DEF LockDiscipline, Ownership
<1>5. OneName'
  BY <1>2, <1>3 DEF OneName
<1>6. Installation'
  BY <1>2, <1>3 DEF Installation, Complete, Ownership, TypeOK, Locked
<1>7. ActiveIsComplete'
  BY <1>2, <1>3 DEF ActiveIsComplete, Complete, TypeOK
<1> QED
  BY <1>1, <1>4, <1>5, <1>6, <1>7

\* The invariant holds in every reachable state of the store, for any number of
\* runs, generations, source states and crashes.
THEOREM StoreInvariant == Spec => []StoreInv
<1>1. StoreInv /\ [Next]_vars => StoreInv'
  <2> SUFFICES ASSUME StoreInv, [Next]_vars PROVE StoreInv'
    OBVIOUS
  <2>1. CASE UNCHANGED vars
    BY <2>1 DEF vars, disk, environment, locals, StoreInv, TypeOK, LockDiscipline, OneName,
                Ownership, Installation, ActiveIsComplete, Complete
  <2>2. ASSUME NEW p \in Indexers, RunStep(p) PROVE StoreInv'
    BY <2>2, BuildStepInv, InstallStepInv DEF RunStep
  <2> QED
    BY <2>1, <2>2, EnvironmentInv DEF Next
<1> QED
  BY <1>1, StoreInvInit, PTL DEF Spec

---------------------------------------------------------------------------
(* What follows for the store.                                             *)

\* Every variable of the store keeps its type.
THEOREM TypeCorrect == Spec => []TypeOK
<1>1. StoreInv => TypeOK
  BY DEF StoreInv
<1> QED
  BY <1>1, StoreInvariant, PTL

\* README.md, "Never half-built": the generation the pointer of core/src/lib.rs
\* names is on disk with all its artifacts, whatever failed, crashed or raced.
THEOREM NeverHalfBuilt == Spec => []ActiveIsComplete
<1>1. StoreInv => ActiveIsComplete
  BY DEF StoreInv
<1> QED
  BY <1>1, StoreInvariant, PTL

---------------------------------------------------------------------------
(***************************************************************************)
(* The store implements AtomicIndex, and full and incremental runs undo no *)
(* activation. Both need to know where the contents of a generation come   *)
(* from, which StoreInv does not tell.                                     *)
(***************************************************************************)

\* Where the manifest of the run's generation has been written.
Sealed == {"lock", "verify", "rename", "swap", "cleanup"}

\* Where an index run has scanned the sources its manifest will record.
Scanned ==
  {"lockcopy", "copy", "table", "graph", "manifest", "lock", "verify", "rename", "swap"}

\* An index run builds from nothing or from the generation it expects to replace.
Derived(p) ==
  kind[p] # "upgrade" /\ gen[p] # NoGen =>
    base[p] \in {NoGen, expected[p]} /\ dir[gen[p]].basis \in {NoGen, expected[p]}

\* A manifest in the run's directory is the run's own, and until the run has installed
\* it no live persist has replaced it.
Recorded(p) ==
  gen[p] # NoGen /\ "ccm_manifest" \in dir[gen[p]].has =>
    /\ dir[gen[p]].built = snap[p] /\ pc[p] \in Sealed
    /\ pc[p] # "cleanup" => dir[gen[p]].snapshot = snap[p]

\* The generation that an index run expects to replace was not installed with anything
\* newer than its scan.
Current(p) ==
  kind[p] # "upgrade" /\ pc[p] \in Scanned /\ expected[p] # NoGen =>
    dir[expected[p]].built <= snap[p]

\* No run writes into a generation that another one has read from the pointer.
Settled(p) ==
  \A q \in Indexers :
    gen[q] # NoGen /\ gen[q] \in {base[p], expected[p]} => pc[q] = "cleanup"

\* Only an upgrade imports.
Upgrading(p) == pc[p] \in {"expect", "import"} => kind[p] = "upgrade"

History(p) == Derived(p) /\ Recorded(p) /\ Current(p) /\ Settled(p) /\ Upgrading(p)

\* Nothing is newer than the sources.
NotNewer ==
  /\ \A g \in Gens : dir[g].built \in 0..source /\ dir[g].snapshot \in 0..source
  /\ \A p \in Indexers : snap[p] \in 0..source
  /\ live.snapshot \in 0..source

\* What a server persists is no older than what its generation was installed with,
\* and no run writes into that generation.
Persisting ==
  live.gen # NoGen =>
    /\ dir[live.gen].built <= live.snapshot
    /\ \A q \in Indexers : gen[q] = live.gen => pc[q] = "cleanup"

HistoryInv == NotNewer /\ Persisting /\ \A p \in Indexers : History(p)

---------------------------------------------------------------------------
(* Shapes of steps.                                                        *)

\* A step of p changes no other run, ...
SameRuns(p) ==
  \A q \in Indexers \ {p} :
    /\ pc'[q] = pc[q] /\ kind'[q] = kind[q] /\ base'[q] = base[q]
    /\ expected'[q] = expected[q] /\ gen'[q] = gen[q] /\ snap'[q] = snap[q]

\* ... and no directory but the one it builds, except that it removes some.
DirsKept(p) ==
  \A g \in Gens :
    dir'[g] = dir[g] \/ dir'[g] = EmptyDirectory \/ (g = gen[p] /\ pc[p] # "cleanup")

\* The generation the pointer names is written by nobody.
LEMMA ServedIsSettled ==
  ASSUME StoreInv, NEW q \in Indexers, pointer # NoGen, gen[q] = pointer
  PROVE  pc[q] = "cleanup"
BY DEF StoreInv, ActiveIsComplete, Ownership, Installation

\* A directory under a new id is empty.
LEMMA NewIsEmpty ==
  ASSUME StoreInv, NEW g \in Gens, Unused(g)
  PROVE  dir[g] = EmptyDirectory
BY DEF StoreInv, OneName, Unused

LEMMA EmptyFields ==
  /\ EmptyDirectory.has = {} /\ EmptyDirectory.basis = NoGen
  /\ EmptyDirectory.snapshot = 0 /\ EmptyDirectory.built = 0
BY DEF EmptyDirectory

\* What the live index and the other runs know stays true.
LEMMA OthersKept ==
  ASSUME StoreInv, HistoryInv, NEW p \in Indexers, SameRuns(p), DirsKept(p), live' = live,
         \/ gen'[p] = NoGen
         \/ gen'[p] \in Gens /\ Unused(gen'[p])
         \/ gen'[p] = gen[p] /\ (pc[p] = "cleanup" => pc'[p] = "cleanup")
  PROVE  Persisting' /\ \A q \in Indexers \ {p} : History(q)'
<1> USE DEF StoreInv, HistoryInv, History, SameRuns
<1>a. Persisting'
  <2> SUFFICES ASSUME live.gen # NoGen PROVE Persisting'
    BY DEF Persisting
  <2>1. live.gen \in Gens /\ live.snapshot \in Nat
    BY DEF TypeOK, Persist
  <2>2. dir'[live.gen] = dir[live.gen] \/ dir'[live.gen] = EmptyDirectory
    BY <2>1 DEF DirsKept, Persisting
  <2>3. dir'[live.gen].built <= live.snapshot
    BY <2>1, <2>2, EmptyFields DEF Persisting
  <2>4. \A r \in Indexers : gen'[r] = live.gen => pc'[r] = "cleanup"
    BY DEF Persisting, Unused
  <2> QED
    BY <2>3, <2>4 DEF Persisting
<1> SUFFICES ASSUME NEW q \in Indexers \ {p} PROVE History(q)'
  BY <1>a
<1>1. gen[q] # NoGen => gen[q] \in Gens /\ gen[q] # gen[p]
  BY DEF Ownership, TypeOK
<1>2. gen[q] # NoGen => dir'[gen[q]] = dir[gen[q]] \/ dir'[gen[q]] = EmptyDirectory
  BY <1>1 DEF DirsKept
<1>3. Derived(q)'
  BY <1>2, EmptyFields DEF Derived
<1>4. Recorded(q)'
  BY <1>2, EmptyFields DEF Recorded
<1>5. Current(q)'
  <2> SUFFICES ASSUME kind[q] # "upgrade", pc[q] \in Scanned, expected[q] # NoGen
               PROVE  dir'[expected[q]].built <= snap[q]
    BY DEF Current
  <2>1. expected[q] \in Gens
    BY DEF TypeOK
  <2>2. dir'[expected[q]] = dir[expected[q]] \/ dir'[expected[q]] = EmptyDirectory
    BY <2>1, GenAssumption DEF DirsKept, Settled
  <2>3. 0 <= snap[q]
    BY DEF TypeOK
  <2> QED
    BY <2>2, <2>3, EmptyFields DEF Current
<1>6. Settled(q)'
  BY DEF Settled, Unused
<1>7. Upgrading(q)'
  BY DEF Upgrading
<1> QED
  BY <1>3, <1>4, <1>5, <1>6, <1>7

\* Nothing that a step writes is newer than the sources.
LEMMA StaysNotNewer ==
  ASSUME StoreInv, HistoryInv, NEW p \in Indexers, SameRuns(p), UNCHANGED <<source, live>>,
         DOMAIN snap' = Indexers, snap'[p] \in 0..source,
         \A g \in Gens : \/ dir'[g] = dir[g] \/ dir'[g] = EmptyDirectory
                         \/ dir'[g].built \in 0..source /\ dir'[g].snapshot \in 0..source
  PROVE  NotNewer'
<1>1. 0 \in 0..source
  BY DEF StoreInv, TypeOK
<1> QED
  BY <1>1, EmptyFields DEF HistoryInv, NotNewer, SameRuns

---------------------------------------------------------------------------
(* Groups of steps.                                                        *)

\* Between two control points, with nothing else of the run changed.
LEMMA MoveHistory ==
  ASSUME StoreInv, HistoryInv, NEW p \in Indexers, NEW point, pc' = [pc EXCEPT ![p] = point],
         UNCHANGED <<dir, locals, source, live>>,
         \/ pc[p] = "lockcopy" /\ point = "copy"
         \/ pc[p] = "lock" /\ point = "verify"
         \/ pc[p] = "verify" /\ point = "rename"
         \/ pc[p] = "rename" /\ point = "swap"
         \/ pc[p] = "swap" /\ point = "cleanup"
  PROVE  HistoryInv'
<1> USE DEF StoreInv, HistoryInv, locals
<1>1. SameRuns(p) /\ DirsKept(p)
  BY DEF SameRuns, DirsKept, TypeOK
<1>2. /\ pc'[p] = point
      /\ pc[p] \in Sealed => point \in Sealed
      /\ point \in Scanned => pc[p] \in Scanned
      /\ pc[p] # "cleanup" /\ point \notin {"expect", "import"}
  BY DEF TypeOK, Sealed, Scanned
<1>3. NotNewer'
  BY DEF NotNewer
<1>4. History(p)'
  <2>1. Derived(p)' /\ Recorded(p)' /\ Current(p)' /\ Upgrading(p)'
    BY <1>2 DEF History, Derived, Recorded, Current, Upgrading
  <2>2. Settled(p)'
    BY <1>1, <1>2 DEF History, Settled, SameRuns
  <2> QED
    BY <2>1, <2>2 DEF History
<1> QED
  BY <1>1, <1>3, <1>4, OthersKept

\* A run ends, and may remove directories.
LEMMA EndHistory ==
  ASSUME StoreInv, HistoryInv, NEW p \in Indexers, End(p), UNCHANGED <<source, live>>,
         \A g \in Gens : dir'[g] = dir[g] \/ dir'[g] = EmptyDirectory
  PROVE  HistoryInv'
<1> USE DEF StoreInv, HistoryInv
<1>1. SameRuns(p) /\ DirsKept(p)
  BY DEF End, Goto, SameRuns, DirsKept, TypeOK
<1>2. /\ pc'[p] = "idle" /\ base'[p] = NoGen /\ expected'[p] = NoGen /\ gen'[p] = NoGen
      /\ snap'[p] = 0 /\ DOMAIN snap' = Indexers
  BY DEF End, Goto, TypeOK
<1>3. NotNewer'
  BY <1>1, <1>2, StaysNotNewer DEF TypeOK
<1>4. History(p)'
  BY <1>2 DEF History, Derived, Recorded, Current, Settled, Upgrading, Scanned
<1> QED
  BY <1>1, <1>2, <1>3, <1>4, OthersKept

\* A full run begins.
LEMMA BeginFullHistory ==
  ASSUME StoreInv, HistoryInv, NEW p \in Indexers, BeginFull(p)
  PROVE  HistoryInv'
<1> USE DEF StoreInv, HistoryInv
<1>1. PICK g \in Gens : Unused(g) /\ gen' = [gen EXCEPT ![p] = g]
  BY DEF BeginFull, NewStaging
<1>2. SameRuns(p) /\ DirsKept(p) /\ dir' = dir /\ snap' = snap /\ UNCHANGED <<source, live>>
  BY <1>1 DEF BeginFull, Goto, environment, SameRuns, DirsKept, TypeOK
<1>3. pc'[p] = "scan" /\ base'[p] = NoGen /\ expected'[p] = pointer /\ gen'[p] = g
  BY <1>1 DEF BeginFull, Goto, TypeOK
<1>4. NotNewer'
  BY <1>2 DEF NotNewer
<1>5. Settled(p)'
  <2> SUFFICES ASSUME NEW q \in Indexers, gen'[q] # NoGen, gen'[q] \in {NoGen, pointer}
               PROVE  pc'[q] = "cleanup"
    BY <1>3 DEF Settled
  <2>1. q # p
    BY <1>1, <1>3 DEF Unused
  <2> QED
    BY <1>2, <2>1, ServedIsSettled DEF SameRuns
<1>6. History(p)'
  BY <1>1, <1>2, <1>3, <1>5, NewIsEmpty, EmptyFields
  DEF History, Derived, Recorded, Current, Upgrading, Scanned
<1> QED
  BY <1>1, <1>2, <1>3, <1>4, <1>6, OthersKept

\* An update or an upgrade resolves the active generation.
LEMMA ResolveHistory ==
  ASSUME StoreInv, HistoryInv, NEW p \in Indexers, pc[p] \in {"idle", "read"},
         NEW point \in {"read", "expect"}, NEW k,
         point = "expect" => k = "upgrade",
         kind' = [kind EXCEPT ![p] = k], base' = [base EXCEPT ![p] = pointer], Goto(p, point),
         UNCHANGED <<dir, source, live, expected, gen, snap>>
  PROVE  HistoryInv'
<1> USE DEF StoreInv, HistoryInv
<1>1. SameRuns(p) /\ DirsKept(p) /\ gen[p] = NoGen
  BY DEF Goto, SameRuns, DirsKept, TypeOK, Ownership
<1>2. pc'[p] = point /\ base'[p] = pointer /\ kind'[p] = k
  BY DEF Goto, TypeOK
<1>3. NotNewer'
  BY DEF NotNewer
<1>4. Settled(p)'
  <2> SUFFICES ASSUME NEW q \in Indexers, gen[q] # NoGen, gen[q] \in {pointer, expected[p]}
               PROVE  pc'[q] = "cleanup"
    BY <1>2 DEF Settled
  <2>1. q # p
    BY <1>1
  <2> QED
    BY <1>1, <2>1, ServedIsSettled DEF SameRuns, History, Settled
<1>5. History(p)'
  BY <1>1, <1>2, <1>4 DEF History, Derived, Recorded, Current, Upgrading, Scanned
<1> QED
  BY <1>1, <1>3, <1>5, OthersKept

\* It makes its staging directory.
LEMMA StagingHistory ==
  ASSUME StoreInv, HistoryInv, NEW p \in Indexers, ReadExpected(p)
  PROVE  HistoryInv'
<1> USE DEF StoreInv, HistoryInv
<1>1. PICK g \in Gens : Unused(g) /\ gen' = [gen EXCEPT ![p] = g]
  BY DEF ReadExpected, NewStaging
<1>2. SameRuns(p) /\ DirsKept(p)
      /\ UNCHANGED <<dir, snap, source, live, kind, base>>
  BY <1>1 DEF ReadExpected, Goto, environment, SameRuns, DirsKept, TypeOK
<1>3. pc'[p] = "import" /\ expected'[p] = pointer /\ gen'[p] = g /\ kind[p] = "upgrade"
  BY <1>1 DEF ReadExpected, Goto, TypeOK, History, Upgrading
<1>4. NotNewer'
  BY <1>2 DEF NotNewer
<1>5. Settled(p)'
  <2> SUFFICES ASSUME NEW q \in Indexers, gen'[q] # NoGen, gen'[q] \in {base[p], pointer}
               PROVE  pc'[q] = "cleanup"
    BY <1>2, <1>3 DEF Settled
  <2>1. q # p
    BY <1>1, <1>3 DEF Unused
  <2> QED
    BY <1>2, <2>1, ServedIsSettled DEF SameRuns, History, Settled
<1>6. History(p)'
  BY <1>1, <1>2, <1>3, <1>5, NewIsEmpty, EmptyFields
  DEF History, Derived, Recorded, Current, Upgrading, Scanned
<1> QED
  BY <1>1, <1>2, <1>3, <1>4, <1>6, OthersKept

\* An update has compared sources and manifest.
LEMMA CompareHistory ==
  ASSUME StoreInv, HistoryInv, NEW p \in Indexers, NEW g \in Gens, NewStaging(p, g),
         pc[p] = "read", Resolves(base[p]), Goto(p, "lockcopy"),
         snap' = [snap EXCEPT ![p] = source],
         expected' = [expected EXCEPT ![p] = base[p]],
         UNCHANGED <<dir, source, live, kind, base>>
  PROVE  HistoryInv'
<1> USE DEF StoreInv, HistoryInv
<1>1. Unused(g) /\ gen' = [gen EXCEPT ![p] = g]
  BY DEF NewStaging
<1>2. SameRuns(p) /\ DirsKept(p)
  BY <1>1 DEF Goto, SameRuns, DirsKept, TypeOK
<1>3. /\ pc'[p] = "lockcopy" /\ expected'[p] = base[p] /\ gen'[p] = g /\ snap'[p] = source
      /\ DOMAIN snap' = Indexers /\ base[p] \in Gens /\ source \in Nat
  BY <1>1 DEF Goto, TypeOK, Resolves
<1>4. NotNewer'
  BY <1>2, <1>3, StaysNotNewer
<1>5. Settled(p)'
  BY <1>1, <1>2, <1>3 DEF History, Settled, SameRuns, Unused
<1>6. Current(p)'
  BY <1>3 DEF Current, NotNewer
<1>7. History(p)'
  BY <1>1, <1>2, <1>3, <1>5, <1>6, NewIsEmpty, EmptyFields
  DEF History, Derived, Recorded, Upgrading
<1> QED
  BY <1>1, <1>2, <1>3, <1>4, <1>7, OthersKept

\* A full run scans the sources.
LEMMA ScanHistory ==
  ASSUME StoreInv, HistoryInv, NEW p \in Indexers, ScanSources(p)
  PROVE  HistoryInv'
<1> USE DEF StoreInv, HistoryInv
<1>1. UNCHANGED <<dir, source, live, kind, base, expected, gen>>
  BY DEF ScanSources, disk, environment
<1>2. SameRuns(p) /\ DirsKept(p)
  BY <1>1 DEF ScanSources, Goto, SameRuns, DirsKept, TypeOK
<1>3. /\ pc[p] = "scan" /\ pc'[p] = "table" /\ snap'[p] = source /\ DOMAIN snap' = Indexers
      /\ source \in Nat
  BY DEF ScanSources, Goto, TypeOK
<1>4. NotNewer'
  BY <1>1, <1>2, <1>3, StaysNotNewer
<1>5. Current(p)'
  BY <1>1, <1>3, GenAssumption DEF Current, NotNewer, TypeOK
<1>6. Settled(p)'
  BY <1>1, <1>2, <1>3 DEF History, Settled, SameRuns
<1>7. History(p)'
  BY <1>1, <1>3, <1>5, <1>6 DEF History, Derived, Recorded, Upgrading, Sealed
<1> QED
  BY <1>1, <1>2, <1>3, <1>4, <1>7, OthersKept

\* An incremental build is given up for a full one.
LEMMA FallBackHistory ==
  ASSUME StoreInv, HistoryInv, NEW p \in Indexers, FallBackToFull(p)
  PROVE  HistoryInv'
<1> USE DEF StoreInv, HistoryInv
<1>1. UNCHANGED <<source, live, kind, base, expected, snap>>
      /\ \A g \in Gens : dir'[g] = dir[g] \/ dir'[g] = EmptyDirectory
  BY DEF FallBackToFull, Remove, environment
<1>2. SameRuns(p) /\ DirsKept(p)
  BY <1>1 DEF FallBackToFull, Goto, SameRuns, DirsKept, TypeOK
<1>3. pc'[p] = "restart" /\ gen'[p] = NoGen /\ snap[p] \in 0..source /\ DOMAIN snap = Indexers
  BY DEF FallBackToFull, Goto, TypeOK, NotNewer
<1>4. NotNewer'
  BY <1>1, <1>2, <1>3, StaysNotNewer
<1>5. Settled(p)'
  BY <1>1, <1>2, <1>3 DEF History, Settled, SameRuns
<1>6. History(p)'
  BY <1>1, <1>3, <1>5 DEF History, Derived, Recorded, Current, Upgrading, Scanned
<1> QED
  BY <1>1, <1>2, <1>3, <1>4, <1>6, OthersKept

\* An artifact is written.
LEMMA WriteHistory ==
  ASSUME StoreInv, HistoryInv, NEW p \in Indexers, NEW artifact \in Artifacts,
         Write(p, artifact), NEW point, Goto(p, point),
         pc[p] \in {"copy", "import", "table", "graph", "manifest"},
         point \in {"table", "graph", "manifest", "lock"},
         artifact = "ccm_manifest" => point = "lock" /\ snap' = snap,
         \/ pc[p] # "import" /\ snap' = snap
         \/ pc[p] = "import" /\ \E s \in 0..source : snap' = [snap EXCEPT ![p] = s],
         UNCHANGED <<source, live, kind, base, expected, gen>>
  PROVE  HistoryInv'
<1> USE DEF StoreInv, HistoryInv
<1>1. gen[p] \in Gens /\ dir[gen[p]] \in Directory
  BY DEF Ownership, TypeOK
<1>2. /\ dir'[gen[p]].has = dir[gen[p]].has \cup {artifact}
      /\ dir'[gen[p]].basis \in {base[p], dir[gen[p]].basis}
      /\ artifact # "ccm_manifest" => dir'[gen[p]].snapshot = dir[gen[p]].snapshot
                                       /\ dir'[gen[p]].built = dir[gen[p]].built
      /\ artifact = "ccm_manifest" => dir'[gen[p]].snapshot = snap[p]
                                       /\ dir'[gen[p]].built = snap[p]
  BY <1>1 DEF Write, TypeOK, Directory
<1>3. \A g \in Gens \ {gen[p]} : dir'[g] = dir[g]
  BY <1>1, WriteEffect
<1>4. SameRuns(p) /\ DirsKept(p)
  BY <1>3 DEF Goto, SameRuns, DirsKept, TypeOK
<1>5. pc'[p] = point /\ snap'[p] \in 0..source /\ DOMAIN snap' = Indexers
      /\ (pc[p] # "import" => snap'[p] = snap[p])
  BY DEF Goto, TypeOK, NotNewer
<1>6. NotNewer'
  BY <1>1, <1>2, <1>3, <1>4, <1>5, StaysNotNewer DEF NotNewer
<1>7. Derived(p)'
  BY <1>2 DEF History, Derived
<1>8. Recorded(p)'
  <2>1. "ccm_manifest" \notin dir[gen[p]].has
    BY <1>1, GenAssumption DEF History, Recorded, Sealed
  <2>2. CASE artifact = "ccm_manifest"
    BY <1>1, <1>2, <1>5, <2>2 DEF Recorded, Sealed
  <2>3. CASE artifact # "ccm_manifest"
    BY <1>1, <1>2, <2>1, <2>3 DEF Recorded
  <2> QED
    BY <2>2, <2>3
<1>9. Current(p)'
  <2> SUFFICES ASSUME kind[p] # "upgrade", expected[p] # NoGen
               PROVE  dir'[expected[p]].built <= snap'[p]
    BY DEF Current
  <2>1. pc[p] \in Scanned /\ pc[p] # "import"
    BY DEF History, Upgrading, Scanned
  <2>2. expected[p] \in Gens /\ expected[p] # gen[p]
    BY <1>1, <2>1, GenAssumption DEF History, Settled, TypeOK
  <2> QED
    BY <1>3, <1>5, <2>1, <2>2 DEF History, Current
<1>10. Settled(p)' /\ Upgrading(p)'
  BY <1>4, <1>5 DEF History, Settled, SameRuns, Upgrading
<1>11. History(p)'
  BY <1>7, <1>8, <1>9, <1>10 DEF History
<1> QED
  BY <1>4, <1>6, <1>11, OthersKept

---------------------------------------------------------------------------
(* Every step preserves it.                                                *)

LEMMA HistoryInit == Init => HistoryInv
BY DEF Init, HistoryInv, NotNewer, History, Derived, Recorded, Current, Settled, Upgrading,
       Persisting, NoPersist, EmptyDirectory, Scanned

\* A run that gives up removes at most its own directory.
LEMMA GiveUpHistory ==
  ASSUME StoreInv, HistoryInv, NEW p \in Indexers, GiveUp(p), UNCHANGED <<source, live>>
  PROVE  HistoryInv'
<1>1. End(p) /\ \A g \in Gens : dir'[g] = dir[g] \/ dir'[g] = EmptyDirectory
  BY DEF GiveUp, Remove
<1> QED
  BY <1>1, EndHistory

\* The build: everything up to the request for the activation lock.
LEMMA BuildHistory ==
  ASSUME StoreInv, HistoryInv, NEW p \in Indexers,
         \/ StartFull(p) \/ StartUpdate(p) \/ StartUpgrade(p) \/ ReadExpected(p)
         \/ ScanSources(p) \/ ReadActive(p) \/ LockForCopy(p) \/ CopyTable(p)
         \/ ImportActive(p) \/ WriteTable(p) \/ WriteGraph(p) \/ WriteManifest(p)
         \/ FailBuild(p) \/ FallBackToFull(p) \/ Restart(p)
  PROVE  HistoryInv'
<1>1. CASE StartFull(p)
  BY <1>1, BeginFullHistory DEF StartFull
<1>2. CASE StartUpdate(p)
  <2>1. CASE BeginFull(p)
    BY <2>1, BeginFullHistory
  <2>2. CASE ~BeginFull(p)
    BY <1>2, <2>2, ResolveHistory DEF StartUpdate, disk, environment
  <2> QED
    BY <2>1, <2>2
<1>3. CASE StartUpgrade(p)
  BY <1>3, ResolveHistory DEF StartUpgrade, BeginUpgrade, disk, environment
<1>4. CASE ReadExpected(p)
  BY <1>4, StagingHistory
<1>5. CASE ScanSources(p)
  BY <1>5, ScanHistory
<1>6. CASE ReadActive(p)
  <2>1. CASE BeginFull(p)
    BY <2>1, BeginFullHistory
  <2>2. CASE End(p) /\ UNCHANGED <<pointer, lock, disk, environment>>
    BY <2>2, EndHistory DEF disk, environment
  <2>3. CASE BeginUpgrade(p)
    BY <1>6, <2>3, ResolveHistory DEF ReadActive, BeginUpgrade, disk, environment
  <2>4. CASE /\ Resolves(base[p])
             /\ snap' = [snap EXCEPT ![p] = source]
             /\ expected' = [expected EXCEPT ![p] = base[p]]
             /\ \E g \in Gens : NewStaging(p, g)
             /\ Goto(p, "lockcopy")
             /\ UNCHANGED <<pointer, lock, finalized, dir, environment, kind, base>>
    <3>1. PICK g \in Gens : NewStaging(p, g)
      BY <2>4
    <3> QED
      BY <1>6, <2>4, <3>1, CompareHistory DEF ReadActive, environment
  <2> QED
    BY <1>6, <2>1, <2>2, <2>3, <2>4 DEF ReadActive
<1>7. CASE LockForCopy(p)
  <2>1. /\ pc[p] = "lockcopy" /\ pc' = [pc EXCEPT ![p] = "copy"]
        /\ UNCHANGED <<dir, locals, source, live>>
    BY <1>7 DEF LockForCopy, Goto, disk, environment
  <2> QED
    BY <2>1, MoveHistory
<1>8. CASE CopyTable(p)
  <2>1. CASE GiveUp(p)
    BY <1>8, <2>1, GiveUpHistory DEF CopyTable, environment
  <2>2. CASE Write(p, "ccm_db") /\ Goto(p, "graph") /\ UNCHANGED locals
    BY <1>8, <2>2, WriteHistory DEF CopyTable, Artifacts, locals, environment
  <2> QED
    BY <1>8, <2>1, <2>2 DEF CopyTable
<1>9. CASE ImportActive(p)
  <2>1. CASE /\ snap' = [snap EXCEPT ![p] = dir[base[p]].snapshot]
             /\ Write(p, "ccm_graph")
             /\ Goto(p, "table")
             /\ UNCHANGED <<kind, base, expected, gen>>
    <3>1. pc[p] = "import" /\ UNCHANGED <<source, live>> /\ dir[base[p]].snapshot \in 0..source
      BY <1>9 DEF ImportActive, Resolves, environment, StoreInv, TypeOK, HistoryInv, NotNewer
    <3> QED
      BY <2>1, <3>1, WriteHistory DEF Artifacts
  <2>2. CASE Remove({gen[p]}) /\ End(p)
    BY <1>9, <2>2, EndHistory DEF ImportActive, Remove, environment
  <2> QED
    BY <1>9, <2>1, <2>2 DEF ImportActive
<1>10. CASE WriteTable(p)
  BY <1>10, WriteHistory DEF WriteTable, Artifacts, locals, environment
<1>11. CASE WriteGraph(p)
  BY <1>11, WriteHistory DEF WriteGraph, Artifacts, locals, environment
<1>12. CASE WriteManifest(p)
  BY <1>12, WriteHistory DEF WriteManifest, Artifacts, locals, environment
<1>13. CASE FailBuild(p)
  BY <1>13, GiveUpHistory DEF FailBuild, environment
<1>14. CASE FallBackToFull(p)
  BY <1>14, FallBackHistory
<1>15. CASE Restart(p)
  BY <1>15, BeginFullHistory DEF Restart
<1> QED
  BY <1>1, <1>2, <1>3, <1>4, <1>5, <1>6, <1>7, <1>8, <1>9, <1>10, <1>11, <1>12, <1>13, <1>14,
     <1>15

\* The installation under the lock, and a crash.
LEMMA InstallHistory ==
  ASSUME StoreInv, HistoryInv, NEW p \in Indexers,
         \/ AcquireLock(p) \/ Verify(p) \/ Rename(p) \/ SwapPointer(p) \/ FailSwap(p)
         \/ Cleanup(p) \/ SkipCleanup(p) \/ Crash(p)
  PROVE  HistoryInv'
<1>1. CASE AcquireLock(p)
  <2>1. /\ pc[p] = "lock" /\ pc' = [pc EXCEPT ![p] = "verify"]
        /\ UNCHANGED <<dir, locals, source, live>>
    BY <1>1 DEF AcquireLock, Goto, disk, environment
  <2> QED
    BY <2>1, MoveHistory
<1>2. CASE Verify(p)
  <2>1. CASE GiveUp(p)
    BY <1>2, <2>1, GiveUpHistory DEF Verify, environment
  <2>2. CASE Goto(p, "rename") /\ UNCHANGED <<disk, locals>>
    <3>1. /\ pc[p] = "verify" /\ pc' = [pc EXCEPT ![p] = "rename"]
          /\ UNCHANGED <<dir, locals, source, live>>
      BY <1>2, <2>2 DEF Verify, Goto, disk, environment
    <3> QED
      BY <3>1, MoveHistory
  <2> QED
    BY <1>2, <2>1, <2>2 DEF Verify
<1>3. CASE Rename(p)
  <2>1. CASE GiveUp(p)
    BY <1>3, <2>1, GiveUpHistory DEF Rename, environment
  <2>2. CASE Goto(p, "swap") /\ UNCHANGED <<dir, locals>>
    <3>1. /\ pc[p] = "rename" /\ pc' = [pc EXCEPT ![p] = "swap"]
          /\ UNCHANGED <<dir, locals, source, live>>
      BY <1>3, <2>2 DEF Rename, Goto, environment
    <3> QED
      BY <3>1, MoveHistory
  <2> QED
    BY <1>3, <2>1, <2>2 DEF Rename
<1>4. CASE SwapPointer(p)
  BY <1>4, MoveHistory DEF SwapPointer, Goto, disk, environment
<1>5. CASE FailSwap(p)
  <2>1. \A g \in Gens : dir'[g] = dir[g] \/ dir'[g] = EmptyDirectory
    BY <1>5 DEF FailSwap, Remove
  <2> QED
    BY <1>5, <2>1, EndHistory DEF FailSwap, environment
<1>6. CASE Cleanup(p)
  <2>1. \A g \in Gens : dir'[g] = dir[g] \/ dir'[g] = EmptyDirectory
    BY <1>6 DEF Cleanup, Remove
  <2> QED
    BY <1>6, <2>1, EndHistory DEF Cleanup, environment
<1>7. CASE SkipCleanup(p)
  BY <1>7, EndHistory DEF SkipCleanup, disk, environment
<1>8. CASE Crash(p)
  BY <1>8, EndHistory DEF Crash, disk
<1> QED
  BY <1>1, <1>2, <1>3, <1>4, <1>5, <1>6, <1>7, <1>8

\* Steps outside the runs: they may change what the manifest of the active generation
\* records, and which live index is being persisted.
LEMMA OutsideHistory ==
  ASSUME StoreInv, HistoryInv, UNCHANGED <<pc, locals>>,
         source' = source \/ source' = source + 1,
         \A g \in Gens : /\ dir'[g].has = dir[g].has /\ dir'[g].built = dir[g].built
                         /\ dir'[g].basis = dir[g].basis
                         /\ dir'[g].snapshot \in {dir[g].snapshot, live.snapshot},
         \A g \in Gens \ {pointer} : dir'[g] = dir[g],
         live'.snapshot \in 0..source, Persisting'
  PROVE  HistoryInv'
<1> USE DEF StoreInv, TypeOK
<1>1. NotNewer'
  BY DEF HistoryInv, NotNewer, locals
<1>2. ASSUME NEW p \in Indexers PROVE History(p)'
  <2> USE DEF HistoryInv, History, locals
  <2>1. gen[p] # NoGen => gen[p] \in Gens /\ (gen[p] = pointer => pc[p] = "cleanup")
    BY ServedIsSettled, <1>2
  <2>2. Derived(p)'
    BY <1>2, <2>1 DEF Derived
  <2>3. Recorded(p)'
    BY <1>2, <2>1 DEF Recorded
  <2>4. Current(p)'
    BY <1>2 DEF Current
  <2>5. Settled(p)' /\ Upgrading(p)'
    BY <1>2 DEF Settled, Upgrading
  <2> QED
    BY <2>2, <2>3, <2>4, <2>5
<1> QED
  BY <1>1, <1>2 DEF HistoryInv

\* A live persist begins in the active generation, which no run writes.
LEMMA PersistBeginHistory ==
  ASSUME StoreInv, HistoryInv, LivePersistBegin
  PROVE  HistoryInv'
<1> USE DEF StoreInv, TypeOK
<1>1. PICK reached \in dir[pointer].built..source :
        live' = [gen |-> pointer, snapshot |-> reached]
  BY DEF LivePersistBegin
<1>2. pointer \in Gens /\ pointer # NoGen /\ dir[pointer].built \in Nat
  BY GenAssumption DEF LivePersistBegin, Resolves, Directory
<1>3. UNCHANGED <<dir, pc, locals, source>>
  BY DEF LivePersistBegin
<1>4. Persisting'
  BY <1>1, <1>2, <1>3, ServedIsSettled DEF Persisting, locals
<1>5. live'.snapshot \in 0..source
  BY <1>1, <1>2
<1> QED
  BY <1>3, <1>4, <1>5, OutsideHistory

\* It ends, with the manifest of that generation replaced or not.
LEMMA PersistEndHistory ==
  ASSUME StoreInv, HistoryInv, LivePersistEnd
  PROVE  HistoryInv'
<1>1. UNCHANGED <<pc, locals, source>> /\ live' = NoPersist
  BY DEF LivePersistEnd
<1>2. Persisting' /\ live'.snapshot \in 0..source
  BY <1>1 DEF Persisting, NoPersist, StoreInv, TypeOK
<1> QED
  BY <1>1, <1>2, PersistEffect, OutsideHistory

\* In every reachable state it is known where the contents of a generation come
\* from: which one it was derived from and which sources its manifest records.
THEOREM HistoryInvariant == Spec => []HistoryInv
<1>1. StoreInv /\ HistoryInv /\ [Next]_vars => HistoryInv'
  <2> SUFFICES ASSUME StoreInv, HistoryInv, [Next]_vars PROVE HistoryInv'
    OBVIOUS
  <2>1. CASE UNCHANGED vars \/ EditSources
    <3>1. UNCHANGED <<dir, live, pc, locals>> /\ (source' = source \/ source' = source + 1)
      BY <2>1 DEF vars, disk, environment, EditSources
    <3>2. Persisting' /\ live'.snapshot \in 0..source
      BY <3>1 DEF HistoryInv, NotNewer, Persisting, locals
    <3> QED
      BY <3>1, <3>2, OutsideHistory
  <2>2. ASSUME NEW p \in Indexers, RunStep(p) PROVE HistoryInv'
    BY <2>2, BuildHistory, InstallHistory DEF RunStep
  <2> QED
    BY <2>1, <2>2, PersistBeginHistory, PersistEndHistory DEF Next
<1> QED
  BY <1>1, HistoryInit, StoreInvariant, PTL DEF Spec

---------------------------------------------------------------------------
(* Full and incremental runs undo nothing.                                 *)

\* Only the pointer swap of install_staged_generation moves the pointer.
LEMMA OnlySwapMoves ==
  ASSUME NEW p \in Indexers, RunStep(p), pointer' # pointer
  PROVE  SwapPointer(p)
<1>1. ~StartFull(p) /\ ~StartUpdate(p) /\ ~StartUpgrade(p) /\ ~ReadExpected(p) /\ ~Restart(p)
  BY DEF StartFull, StartUpdate, StartUpgrade, BeginUpgrade, BeginFull, ReadExpected, Restart
<1>2. ~ScanSources(p) /\ ~ReadActive(p) /\ ~LockForCopy(p) /\ ~CopyTable(p) /\ ~ImportActive(p)
  BY DEF ScanSources, ReadActive, BeginFull, BeginUpgrade, LockForCopy, CopyTable, ImportActive
<1>3. ~WriteTable(p) /\ ~WriteGraph(p) /\ ~WriteManifest(p) /\ ~FailBuild(p)
      /\ ~FallBackToFull(p)
  BY DEF WriteTable, WriteGraph, WriteManifest, FailBuild, FallBackToFull
<1>4. ~AcquireLock(p) /\ ~Verify(p) /\ ~Rename(p) /\ ~FailSwap(p) /\ ~Cleanup(p)
      /\ ~SkipCleanup(p) /\ ~Crash(p)
  BY DEF AcquireLock, Verify, Rename, FailSwap, Cleanup, SkipCleanup, Crash
<1> QED
  BY <1>1, <1>2, <1>3, <1>4 DEF RunStep

\* What holds when a run moves the pointer.
LEMMA AtSwap ==
  ASSUME StoreInv, HistoryInv, NEW p \in Indexers, SwapPointer(p)
  PROVE  /\ lock = p /\ p # NoIndexer /\ pointer = expected[p] /\ pointer' = gen[p]
         /\ gen[p] \in Gens \cap finalized /\ Complete(gen[p])
         /\ dir[gen[p]].built = snap[p] /\ dir[gen[p]].snapshot = snap[p]
         /\ UNCHANGED <<lock, finalized, staging, dir, source, kind>>
         /\ kind[p] # "upgrade" => /\ dir[gen[p]].basis \in {NoGen, pointer}
                                   /\ pointer # NoGen => dir[pointer].built <= snap[p]
<1> USE IndexerAssumption DEF StoreInv, HistoryInv
<1>1. pc[p] = "swap" /\ pointer' = gen[p]
      /\ UNCHANGED <<lock, finalized, staging, dir, source, kind>>
  BY DEF SwapPointer, disk, environment, locals
<1>2. lock = p /\ pointer = expected[p] /\ Complete(gen[p]) /\ gen[p] \in Gens \cap finalized
  BY <1>1 DEF LockDiscipline, Locked, Installation, Ownership, TypeOK
<1>3. gen[p] # NoGen /\ "ccm_manifest" \in dir[gen[p]].has
  BY <1>2, GenAssumption DEF Complete, Artifacts
<1>4. dir[gen[p]].built = snap[p] /\ dir[gen[p]].snapshot = snap[p]
  BY <1>1, <1>3 DEF History, Recorded
<1>5. kind[p] # "upgrade" => /\ dir[gen[p]].basis \in {NoGen, pointer}
                             /\ pointer # NoGen => dir[pointer].built <= snap[p]
  BY <1>1, <1>2, <1>3 DEF History, Derived, Current, Scanned
<1> QED
  BY <1>1, <1>2, <1>4, <1>5

\* Whatever else runs, a full or incremental index is only activated over nothing or
\* over the generation it was derived from (the pointer check of
\* install_staged_generation, core/src/lib.rs).
THEOREM UndoNothing == Spec => IndexRunsUndoNothing
<1>1. StoreInv /\ HistoryInv /\ [Next]_vars =>
        [pointer' # pointer /\ kind[lock] # "upgrade" =>
           dir'[pointer'].basis \in {NoGen, pointer}]_vars
  <2> SUFFICES ASSUME StoreInv, HistoryInv, [Next]_vars, pointer' # pointer,
                      kind[lock] # "upgrade"
               PROVE  dir'[pointer'].basis \in {NoGen, pointer}
    OBVIOUS
  <2>1. PICK p \in Indexers : RunStep(p)
    BY DEF Next, vars, EditSources, LivePersistBegin, LivePersistEnd
  <2>2. SwapPointer(p)
    BY <2>1, OnlySwapMoves
  <2> QED
    BY <2>2, AtSwap
<1> QED
  BY <1>1, StoreInvariant, HistoryInvariant, PTL DEF Spec, IndexRunsUndoNothing

---------------------------------------------------------------------------
(* The store is an atomic index.                                           *)

\* A run changes only the directory it builds, but for those it removes.
LEMMA StepKeepsDirs ==
  ASSUME StoreInv, NEW p \in Indexers, RunStep(p)
  PROVE  DirsKept(p)
<1>1. ASSUME NEW artifact \in Artifacts, Write(p, artifact), pc[p] \notin {"idle", "cleanup"},
             gen[p] # NoGen
      PROVE  DirsKept(p)
  BY <1>1, WriteEffect DEF StoreInv, TypeOK, DirsKept
<1>2. ASSUME NEW gone, Remove(gone) PROVE DirsKept(p)
  BY <1>2 DEF Remove, DirsKept
<1>3. CASE dir' = dir
  BY <1>3 DEF DirsKept
<1>4. CASE GiveUp(p)
  BY <1>2, <1>4 DEF GiveUp
<1> USE DEF Artifacts, StoreInv, Ownership
<1>5. CASE StartFull(p) \/ StartUpdate(p) \/ StartUpgrade(p) \/ ReadExpected(p) \/ Restart(p)
           \/ ScanSources(p) \/ ReadActive(p) \/ LockForCopy(p)
  BY <1>3, <1>5 DEF StartFull, StartUpdate, StartUpgrade, BeginUpgrade, BeginFull, ReadExpected,
     Restart, ScanSources, ReadActive, LockForCopy, disk
<1>6. CASE CopyTable(p)
  BY <1>1, <1>4, <1>6 DEF CopyTable
<1>7. CASE ImportActive(p)
  BY <1>1, <1>2, <1>7 DEF ImportActive
<1>8. CASE WriteTable(p) \/ WriteGraph(p) \/ WriteManifest(p)
  BY <1>1, <1>8 DEF WriteTable, WriteGraph, WriteManifest
<1>9. CASE FailBuild(p) \/ FallBackToFull(p)
  BY <1>2, <1>4, <1>9 DEF FailBuild, FallBackToFull
<1>10. CASE AcquireLock(p) \/ Verify(p) \/ Rename(p) \/ SwapPointer(p)
  BY <1>3, <1>4, <1>10 DEF AcquireLock, Verify, Rename, SwapPointer, disk
<1>11. CASE FailSwap(p) \/ Cleanup(p) \/ SkipCleanup(p) \/ Crash(p)
  BY <1>2, <1>3, <1>11 DEF FailSwap, Cleanup, SkipCleanup, Crash, disk
<1> QED
  BY <1>5, <1>6, <1>7, <1>8, <1>9, <1>10, <1>11 DEF RunStep

\* Runs do not edit the sources.
LEMMA StepKeepsSources ==
  ASSUME NEW p \in Indexers, RunStep(p)
  PROVE  source' = source
<1>1. CASE StartFull(p) \/ StartUpdate(p) \/ StartUpgrade(p) \/ ReadExpected(p) \/ Restart(p)
           \/ ScanSources(p) \/ ReadActive(p) \/ LockForCopy(p)
  BY <1>1 DEF StartFull, StartUpdate, StartUpgrade, BeginUpgrade, BeginFull, ReadExpected,
     Restart, ScanSources, ReadActive, LockForCopy, environment
<1>2. CASE CopyTable(p) \/ ImportActive(p) \/ WriteTable(p) \/ WriteGraph(p) \/ WriteManifest(p)
           \/ FailBuild(p) \/ FallBackToFull(p)
  BY <1>2 DEF CopyTable, ImportActive, WriteTable, WriteGraph, WriteManifest, FailBuild,
     FallBackToFull, environment
<1>3. CASE AcquireLock(p) \/ Verify(p) \/ Rename(p) \/ SwapPointer(p) \/ FailSwap(p)
           \/ Cleanup(p) \/ SkipCleanup(p) \/ Crash(p)
  BY <1>3 DEF AcquireLock, Verify, Rename, SwapPointer, FailSwap, Cleanup, SkipCleanup, Crash,
     environment
<1> QED
  BY <1>1, <1>2, <1>3 DEF RunStep

\* With the pointer, readers keep the index they are served.
LEMMA ServedKept ==
  ASSUME StoreInv, StoreInv', pointer' = pointer,
         \/ \E p \in Indexers : RunStep(p)
         \/ UNCHANGED <<finalized, dir>>
  PROVE  Served' = Served /\ Installed' = Installed
<1> USE DEF Served, Installed
<1>1. CASE UNCHANGED <<finalized, dir>>
  BY <1>1 DEF Complete
<1>2. CASE pointer = NoGen
  BY <1>2, GenAssumption DEF StoreInv, TypeOK
<1>3. CASE pointer # NoGen /\ \E p \in Indexers : RunStep(p)
  <2>1. PICK p \in Indexers : RunStep(p)
    BY <1>3
  <2>2. /\ pointer \in Gens /\ pointer \in finalized /\ Complete(pointer)
        /\ pointer \in finalized' /\ Complete(pointer)'
    BY <1>3 DEF StoreInv, TypeOK, ActiveIsComplete, Complete
  <2>3. dir'[pointer] = dir[pointer] \/ dir'[pointer] = EmptyDirectory
    BY <1>3, <2>1, <2>2, StepKeepsDirs, ServedIsSettled DEF DirsKept
  <2>4. dir'[pointer] # EmptyDirectory
    BY <2>2, EmptyFields DEF Complete, Artifacts
  <2> QED
    BY <2>2, <2>3, <2>4 DEF Complete
<1> QED
  BY <1>1, <1>2, <1>3

\* Moving the pointer activates an index of sources no older than those the active one
\* was installed with, but for a semantic upgrade.
LEMMA SwapActivates ==
  ASSUME StoreInv, HistoryInv, NEW p \in Indexers, SwapPointer(p)
  PROVE  Abstract!Activate
<1>1. UNCHANGED <<source, UpgradeTurn>>
  BY AtSwap DEF UpgradeTurn
<1>2. Served' = snap[p] /\ Installed' = snap[p] /\ snap[p] \in 0..source
  BY AtSwap DEF Served, Installed, Complete, HistoryInv, NotNewer
<1>3. Installed # NoGen /\ ~UpgradeTurn => snap[p] >= Installed
  <2> SUFFICES ASSUME Installed # NoGen, ~UpgradeTurn PROVE snap[p] >= Installed
    OBVIOUS
  <2>1. pointer # NoGen /\ Installed = dir[pointer].built /\ pointer \in Gens
    BY GenAssumption DEF Installed, StoreInv, TypeOK
  <2>2. kind[p] # "upgrade"
    BY AtSwap DEF UpgradeTurn
  <2>3. dir[pointer].built <= snap[p] /\ dir[pointer].built \in Nat /\ snap[p] \in Nat
    BY <2>1, <2>2, AtSwap DEF StoreInv, TypeOK, Directory
  <2> QED
    BY <2>1, <2>3
<1> QED
  BY <1>1, <1>2, <1>3 DEF Abstract!Activate

\* A live persist refreshes what is served, never to before what was installed, or
\* changes nothing a reader sees.
LEMMA PersistRefreshes ==
  ASSUME StoreInv, HistoryInv, LivePersistEnd
  PROVE  Abstract!Refresh \/ UNCHANGED <<source, Served, Installed, UpgradeTurn>>
<1> USE DEF StoreInv, TypeOK
<1>1. UNCHANGED <<source, pointer, finalized, UpgradeTurn>>
  BY DEF LivePersistEnd, locals, UpgradeTurn
<1>2. CASE dir' = dir
  BY <1>1, <1>2 DEF Served, Installed, Complete
<1>3. CASE dir' # dir
  <2>1. pointer = live.gen /\ pointer \in Gens /\ pointer # NoGen
    BY <1>3, PersistEffect, GenAssumption DEF LivePersistEnd, Persist
  <2>2. pointer \in finalized /\ Complete(pointer)
    BY <2>1 DEF ActiveIsComplete
  <2>3. /\ dir'[pointer].has = dir[pointer].has /\ dir'[pointer].built = dir[pointer].built
        /\ dir'[pointer].snapshot = live.snapshot
    <3>1. CASE Persisted
      BY <2>1, <3>1 DEF Persisted, Directory
    <3>2. CASE NotPersisted
      BY <1>3, <3>2 DEF NotPersisted
    <3> QED
      BY <3>1, <3>2 DEF LivePersistEnd
  <2>4. Installed = dir[pointer].built /\ Installed' = Installed /\ Served' = live.snapshot
    BY <1>1, <2>2, <2>3 DEF Served, Installed, Complete
  <2>5. dir[pointer].built \in 0..source /\ live.snapshot \in dir[pointer].built..source
    BY <2>1 DEF HistoryInv, NotNewer, Persisting
  <2> QED
    BY <1>1, <2>4, <2>5 DEF Abstract!Refresh
<1> QED
  BY <1>2, <1>3

\* README.md, "Never half-built", as an implementation: what readers of the store of
\* core/src/lib.rs are served is an atomic index that live servers refresh in place and
\* that no full or incremental run replaces by one of older sources than it was
\* installed with.
THEOREM StoreIsAtomicIndex == Spec => ImplementsAtomicIndex
<1>1. Init => Abstract!Init
  BY DEF Init, Abstract!Init, Served, Installed, UpgradeTurn
<1>2. StoreInv /\ HistoryInv /\ StoreInv' /\ [Next]_vars
        => [Abstract!Next]_<<source, Served, Installed, UpgradeTurn>>
  <2> SUFFICES ASSUME StoreInv, HistoryInv, StoreInv', [Next]_vars
               PROVE  Abstract!Next \/ UNCHANGED <<source, Served, Installed, UpgradeTurn>>
    OBVIOUS
  <2>1. ASSUME NEW p \in Indexers, RunStep(p), pointer' # pointer PROVE Abstract!Next
    BY <2>1, OnlySwapMoves, SwapActivates DEF Abstract!Next
  <2>2. ASSUME NEW p \in Indexers, RunStep(p), pointer' = pointer PROVE Abstract!Next
    <3>1. Served' = Served /\ Installed' = Installed
      BY <2>2, ServedKept
    <3>2. source' = source
      BY <2>2, StepKeepsSources
    <3> QED
      BY <3>1, <3>2 DEF Abstract!Next, Abstract!Turn, UpgradeTurn
  <2>3. CASE EditSources
    <3>1. Served' = Served /\ Installed' = Installed /\ UpgradeTurn' = UpgradeTurn
      BY <2>3 DEF EditSources, disk, locals, Served, Installed, Complete, UpgradeTurn
    <3> QED
      BY <2>3, <3>1 DEF EditSources, Abstract!Next, Abstract!EditSources
  <2>4. CASE LivePersistBegin \/ UNCHANGED vars
    <3>1. UNCHANGED <<source, pointer, lock, finalized, dir, kind>>
      BY <2>4 DEF LivePersistBegin, vars, disk, environment, locals
    <3> QED
      BY <3>1 DEF Served, Installed, Complete, UpgradeTurn
  <2>5. CASE LivePersistEnd
    BY <2>5, PersistRefreshes DEF Abstract!Next
  <2> QED
    BY <2>1, <2>2, <2>3, <2>4, <2>5 DEF Next
<1> QED
  BY <1>1, <1>2, StoreInvariant, HistoryInvariant, PTL
  DEF Spec, ImplementsAtomicIndex, Abstract!Spec

=============================================================================
