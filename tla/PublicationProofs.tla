-------------------------- MODULE PublicationProofs --------------------------
(***************************************************************************)
(* Safety of Publication, for every value of its constants: IInv is an     *)
(* inductive invariant of every execution in which no rollback without the *)
(* writer lock meets another writer.  First the types, then the frame      *)
(* lemmas (who writes what), one lemma per part of the invariant, the      *)
(* theorems, and last the refinement: Publication implements AtomicIndex.  *)
(***************************************************************************)
EXTENDS PublicationInvariant, TLAPS

-----------------------------------------------------------------------------
(* The types.                                                              *)

\* What leaving or giving up an operation changes.
LocalTypeOK ==
    /\ holder \in Procs \cup {Nobody}
    /\ pc \in [Procs -> PcLabels]
    /\ cont \in [Procs -> Conts]
    /\ mem \in [Procs -> Vals \cup {NoVal}]
    /\ gen \in [Procs -> Gens \cup {NoGen}]
    /\ temp \in [Procs -> Bodies]

\* Leave, by which every operation ends, keeps the types.
LEMMA LeaveType ==
    ASSUME TypeOK, NEW p \in Procs, NEW l \in PcLabels, Leave(p, l)
    PROVE  LocalTypeOK'
BY ConstantsAssumption
   DEF ConstantsAssumption, TypeOK, LocalTypeOK, Leave, Goto, Why, Conts,
       Bodies, Cells, EmptyBody

\* So does GiveUp, by which a failed recovery ends.
LEMMA GiveUpType ==
    ASSUME TypeOK, NEW p \in Procs, GiveUp(p)
    PROVE  LocalTypeOK'
<1>1. CASE cont[p] = "failed"
  BY <1>1 DEF GiveUp, TypeOK, LocalTypeOK, Goto, local, PcLabels
<1>2. CASE cont[p] # "failed"
  <2>1. PICK l \in {"down", "idle", "handler"} : Leave(p, l)
    BY <1>2 DEF GiveUp, Raised
  <2>2. l \in PcLabels
    BY <2>1 DEF PcLabels
  <2> QED BY <2>1, <2>2, LeaveType
<1> QED BY <1>1, <1>2

\* The types hold initially: an empty storage directory.
LEMMA InitType == Init => TypeOK
<1> USE ConstantsAssumption DEF ConstantsAssumption
<1> SUFFICES ASSUME Init PROVE TypeOK OBVIOUS
<1>1. body \in [Gens -> Bodies] /\ temp \in [Procs -> Bodies]
  BY DEF Init, EmptyBody, Bodies, Cells
<1>2. root \in [ix : Cells, db : Cells, wal : Vals \cup {NoVal}]
  BY DEF Init, EmptyRoot, Cells
<1>3. damage \in 0..MaxDamage
  BY DEF Init
<1>4. pc \in [Procs -> PcLabels] /\ cont \in [Procs -> Conts]
  BY DEF Init, PcLabels, Conts
<1>5. /\ marker \in BOOLEAN
      /\ current \in Gens \cup {NoGen, Garbled}
      /\ prior \in Gens \cup {NoGen, Garbled}
      /\ dir \in [Gens -> {"absent", "candidate", "sealed"}]
  BY DEF Init
<1>6. /\ attached \subseteq Procs
      /\ holder \in Procs \cup {Nobody}
      /\ mem \in [Procs -> Vals \cup {NoVal}]
      /\ gen \in [Procs -> Gens \cup {NoGen}]
  BY DEF Init
<1> QED BY <1>1, <1>2, <1>3, <1>4, <1>5, <1>6 DEF TypeOK

\* Every step keeps the types: TypeOK is inductive by itself.
LEMMA TypeStep == TypeOK /\ [Next]_vars => TypeOK'
<1> SUFFICES ASSUME TypeOK, [Next]_vars PROVE TypeOK'
  OBVIOUS
<1> USE ConstantsAssumption
    DEF ConstantsAssumption, TypeOK, Bodies, Cells, PcLabels, Conts, Goto,
        Why, disk, local, EmptyBody
<1>1. ASSUME NEW p \in Procs, RecoverClean(p) PROVE TypeOK'
  <2>1. CASE cont[p] = "open"
    BY <2>1, <1>1, LeaveType DEF RecoverClean, LocalTypeOK
  <2>2. CASE cont[p] # "open"
    BY <2>2, <1>1 DEF RecoverClean
  <2> QED BY <2>1, <2>2
<1>2. ASSUME NEW p \in Procs, RecoverGeneration(p) PROVE TypeOK'
  BY <1>2 DEF RecoverGeneration, Published, Verified
<1>3. ASSUME NEW p \in Procs, RecoverNothing(p) PROVE TypeOK'
  BY <1>3 DEF RecoverNothing
<1>4. ASSUME NEW p \in Procs, RecoverRefused(p) PROVE TypeOK'
  BY <1>4, LeaveType DEF RecoverRefused, Raised, LocalTypeOK
<1>5. ASSUME NEW p \in Procs, RepairSkipped(p) PROVE TypeOK'
  BY <1>5 DEF RepairSkipped, StartWork
<1>6. ASSUME NEW p \in Procs, Repair(p) PROVE TypeOK'
  BY <1>6 DEF Repair, Published, Verified
<1>7. ASSUME NEW p \in Procs, Sidecars(p) PROVE TypeOK'
  BY <1>7 DEF Sidecars, DbView
<1>8. ASSUME NEW p \in Procs, MirrorIx(p) PROVE TypeOK'
  BY <1>8 DEF MirrorIx
<1>9. ASSUME NEW p \in Procs, MirrorDb(p) PROVE TypeOK'
  BY <1>9 DEF MirrorDb
<1>10. ASSUME NEW p \in Procs, DropIx(p) PROVE TypeOK'
  BY <1>10 DEF DropIx
<1>11. ASSUME NEW p \in Procs, DropDb(p) PROVE TypeOK'
  BY <1>11 DEF DropDb
<1>12. ASSUME NEW p \in Procs, DropManifest(p) PROVE TypeOK'
  BY <1>12 DEF DropManifest, Missing
<1>13. ASSUME NEW p \in Procs, DropGens(p) PROVE TypeOK'
  BY <1>13 DEF DropGens
<1>14. ASSUME NEW p \in Procs, Unmark(p) PROVE TypeOK'
  <2>1. LocalTypeOK'
    <3>1. CASE UNCHANGED <<cont, local, holder>>
      BY <3>1, <1>14 DEF Unmark, LocalTypeOK, Leave
    <3>2. ASSUME NEW l \in {"idle", "handler"}, Leave(p, l) PROVE LocalTypeOK'
      BY <3>2, LeaveType
    <3> QED BY <3>1, <3>2, <1>14 DEF Unmark, Raised
  <2> QED BY <2>1, <1>14 DEF Unmark, LocalTypeOK
<1>15. ASSUME NEW p \in Procs, Prune(p) PROVE TypeOK'
  <2>1. dir' \in [Gens -> {"absent", "candidate", "sealed"}]
    BY <1>15 DEF Prune
  <2>2. body' \in [Gens -> Bodies]
    BY <1>15 DEF Prune
  <2>3. LocalTypeOK' /\ attached' \subseteq Procs
    <3>1. CASE Leave(p, "idle") /\ UNCHANGED attached
      BY <3>1, LeaveType
    <3>2. CASE UNCHANGED <<local, holder>>
      BY <3>2, <1>15 DEF Prune, LocalTypeOK, StartWork, Leave
    <3> QED BY <3>1, <3>2, <1>15 DEF Prune
  <2> QED BY <2>1, <2>2, <2>3, <1>15 DEF Prune, LocalTypeOK
<1>16. ASSUME NEW p \in Procs, MarkDirty(p) PROVE TypeOK'
  BY <1>16 DEF MarkDirty
<1>17. ASSUME NEW p \in Procs, BeginRebuild(p) PROVE TypeOK'
  BY <1>17 DEF BeginRebuild
<1>18. ASSUME NEW p \in Procs, Mutate(p) PROVE TypeOK'
  <2>1. root' \in [ix : Cells, db : Cells, wal : Vals \cup {NoVal}]
    BY <1>18 DEF Mutate
  <2>2. mem' \in [Procs -> Vals \cup {NoVal}]
    BY <1>18 DEF Mutate
  <2> QED BY <2>1, <2>2, <1>18 DEF Mutate
<1>19. ASSUME NEW p \in Procs, SaveSkipped(p) PROVE TypeOK'
  BY <1>19 DEF SaveSkipped
<1>20. ASSUME NEW p \in Procs, SaveRefused(p) PROVE TypeOK'
  BY <1>20, ZenonT(60) DEF SaveRefused
<1>21. ASSUME NEW p \in Procs, Stage(p) PROVE TypeOK'
  BY <1>21 DEF Stage
<1>22. ASSUME NEW p \in Procs, WriteCandidate(p) PROVE TypeOK'
  BY <1>22 DEF WriteCandidate, DbView
<1>23. ASSUME NEW p \in Procs, CandidateRejected(p) PROVE TypeOK'
  BY <1>23 DEF CandidateRejected
<1>24. ASSUME NEW p \in Procs, Seal(p) PROVE TypeOK'
  BY <1>24 DEF Seal
<1>25. ASSUME NEW p \in Procs, Mirror(p) PROVE TypeOK'
  <2>1. CASE Verified(gen[p])
    BY <2>1, <1>25, ZenonT(60) DEF Mirror, Verified
  <2>2. CASE ~Verified(gen[p])
    BY <2>2, <1>25, ZenonT(60) DEF Mirror
  <2> QED BY <2>1, <2>2
<1>26. ASSUME NEW p \in Procs, Rotate(p) PROVE TypeOK'
  BY <1>26 DEF Rotate, Verified
<1>27. ASSUME NEW p \in Procs, Promote(p) PROVE TypeOK'
  BY <1>27 DEF Promote
<1>28. ASSUME NEW p \in Procs, Cleanup(p) PROVE TypeOK'
  BY <1>28 DEF Cleanup
<1>29. ASSUME NEW p \in Procs, LeaveTransaction(p) PROVE TypeOK'
  <2>1. CASE marker
    BY <2>1, <1>29 DEF LeaveTransaction
  <2>2. CASE ~marker
    <3>1. PICK l \in {"idle", "handler"} : Leave(p, l)
      BY <2>2, <1>29 DEF LeaveTransaction, Raised
    <3> QED BY <3>1, <1>29, LeaveType DEF LeaveTransaction, LocalTypeOK
  <2> QED BY <2>1, <2>2
<1>30. ASSUME NEW p \in Procs, Handler(p) PROVE TypeOK'
  <2>1. CASE marker
    BY <2>1, <1>30 DEF Handler
  <2>2. CASE ~marker
    BY <2>2, <1>30, LeaveType DEF Handler, LocalTypeOK
  <2> QED BY <2>1, <2>2
<1>31. ASSUME NEW p \in Procs, RestoreGeneration(p) PROVE TypeOK'
  BY <1>31 DEF RestoreGeneration, Published, Verified
<1>32. ASSUME NEW p \in Procs, RestoreNothing(p) PROVE TypeOK'
  BY <1>32 DEF RestoreNothing
<1>33. ASSUME NEW p \in Procs, RestoreRefused(p) PROVE TypeOK'
  BY <1>33, GiveUpType DEF RestoreRefused, LocalTypeOK
<1>34. ASSUME NEW p \in Procs, Open(p) PROVE TypeOK'
  BY <1>34 DEF Open
<1>35. ASSUME NEW p \in Procs, BeginTransaction(p) PROVE TypeOK'
  BY <1>35 DEF BeginTransaction
<1>36. ASSUME NEW p \in Procs, BeginClear(p) PROVE TypeOK'
  BY <1>36 DEF BeginClear
<1>37. ASSUME NEW p \in Procs, FailInBody(p) PROVE TypeOK'
  BY <1>37 DEF FailInBody
<1>38. ASSUME NEW p \in Procs, FailInSave(p) PROVE TypeOK'
  BY <1>38 DEF FailInSave
<1>39. ASSUME NEW p \in Procs, FailInRecovery(p) PROVE TypeOK'
  BY <1>39, GiveUpType DEF FailInRecovery, LocalTypeOK
<1>40. ASSUME NEW p \in Procs, IndexingFails(p) PROVE TypeOK'
  BY <1>40 DEF IndexingFails
<1>41. ASSUME NEW p \in Procs, Crash(p) PROVE TypeOK'
  BY <1>41, LeaveType DEF Crash, LocalTypeOK
<1>42. ASSUME Decay PROVE TypeOK'
  <2>1. root' \in [ix : Cells, db : Cells, wal : Vals \cup {NoVal}]
    BY <1>42 DEF Decay
  <2>2. body' \in [Gens -> Bodies]
    BY <1>42 DEF Decay
  <2> QED BY <2>1, <2>2, <1>42 DEF Decay
<1>43. CASE UNCHANGED vars
  BY <1>43 DEF vars
<1> QED
  BY <1>1, <1>2, <1>3, <1>4, <1>5, <1>6, <1>7, <1>8, <1>9, <1>10, <1>11,
     <1>12, <1>13, <1>14, <1>15, <1>16, <1>17, <1>18, <1>19, <1>20,
     <1>21, <1>22, <1>23, <1>24, <1>25, <1>26, <1>27, <1>28, <1>29,
     <1>30, <1>31, <1>32, <1>33, <1>34, <1>35, <1>36, <1>37, <1>38,
     <1>39, <1>40, <1>41, <1>42, <1>43
  DEF Next, Step, Begin, Fail

\* The variables of the publication protocol keep their types, whatever
\* number of processes, generations and working sets there is.
THEOREM TypeCorrect == Spec => []TypeOK
BY InitType, TypeStep, PTL DEF Spec

-----------------------------------------------------------------------------
(* Who writes what.                                                        *)

\* An operation of one process leaves the control state of the others.
LEMMA OthersKeep ==
    ASSUME TypeOK, NEW p \in Procs, Operation(p), NEW q \in Procs, q # p
    PROVE  /\ pc'[q] = pc[q] /\ cont'[q] = cont[q] /\ mem'[q] = mem[q]
           /\ gen'[q] = gen[q] /\ temp'[q] = temp[q] /\ damage' = damage
<1> USE DEF TypeOK, Goto, Why, Leave, GiveUp, StartWork, local, disk
<1>1. CASE Step(p)
  BY <1>1
     DEF Step, RecoverClean, RecoverGeneration, RecoverNothing,
         RecoverRefused, RepairSkipped, Repair, Sidecars, MirrorIx, MirrorDb,
         DropIx, DropDb, DropManifest, DropGens, Unmark, Prune, MarkDirty,
         BeginRebuild, Mutate, SaveSkipped, SaveRefused, Stage,
         WriteCandidate, CandidateRejected, Seal, Mirror, Rotate, Promote,
         Cleanup, LeaveTransaction, Handler, RestoreGeneration,
         RestoreNothing, RestoreRefused
<1>2. CASE Begin(p) \/ Fail(p) \/ Crash(p)
  BY <1>2
     DEF Begin, Fail, Open, BeginTransaction, BeginClear, FailInBody,
         FailInSave, FailInRecovery, IndexingFails, Crash
<1> QED BY <1>1, <1>2 DEF Operation

\* Taking the lock, and failing outside an operation, leave the store.
LEMMA IdleKeeps ==
    ASSUME TypeOK, NEW p \in Procs, Operation(p), ~Active(p)
    PROVE  /\ UNCHANGED <<current, prior, dir, body, root>>
           /\ marker => marker'
<1> USE DEF TypeOK, Goto, Why, Leave, GiveUp, StartWork, local, disk, Active
<1>1. CASE Step(p)
  BY <1>1
     DEF Step, RecoverClean, RecoverGeneration, RecoverNothing,
         RecoverRefused, RepairSkipped, Repair, Sidecars, MirrorIx, MirrorDb,
         DropIx, DropDb, DropManifest, DropGens, Unmark, Prune, MarkDirty,
         BeginRebuild, Mutate, SaveSkipped, SaveRefused, Stage,
         WriteCandidate, CandidateRejected, Seal, Mirror, Rotate, Promote,
         Cleanup, LeaveTransaction, Handler, RestoreGeneration,
         RestoreNothing, RestoreRefused
<1>2. CASE Begin(p) \/ Fail(p) \/ Crash(p)
  BY <1>2
     DEF Begin, Fail, Open, BeginTransaction, BeginClear, FailInBody,
         FailInSave, FailInRecovery, IndexingFails, Crash, RoutineLabels
<1> QED BY <1>1, <1>2 DEF Operation

\* Only decay damages files.
LEMMA Undecayed ==
    ASSUME [Next]_vars, ~Decay
    PROVE  damage' = damage
BY ZenonT(60)
   DEF Next, Step, Begin, Fail, vars, disk, RecoverClean, RecoverGeneration,
       RecoverNothing, RecoverRefused, RepairSkipped, Repair, Sidecars,
       MirrorIx, MirrorDb, DropIx, DropDb, DropManifest, DropGens, Unmark,
       Prune, MarkDirty, BeginRebuild, Mutate, SaveSkipped, SaveRefused,
       Stage, WriteCandidate, CandidateRejected, Seal, Mirror, Rotate,
       Promote, Cleanup, LeaveTransaction, Handler, RestoreGeneration,
       RestoreNothing, RestoreRefused, Open, BeginTransaction, BeginClear,
       FailInBody, FailInSave, FailInRecovery, IndexingFails, Crash

\* While nothing is damaged nothing has decayed.
LEMMA Undamaged ==
    ASSUME TypeOK, [Next]_vars, damage' = 0
    PROVE  ~Decay /\ damage = 0
BY Undecayed, ConstantsAssumption DEF ConstantsAssumption, TypeOK, Decay

\* Who writes the generations.
LEMMA TouchDir ==
    ASSUME [Next]_vars
    PROVE  \/ UNCHANGED <<dir, body>>
           \/ Decay
           \/ \E p \in Procs : \/ DropGens(p) \/ Prune(p) \/ WriteCandidate(p)
                               \/ Seal(p) \/ Cleanup(p)
<1> SUFFICES ASSUME ~UNCHANGED <<dir, body>>
             PROVE  \/ Decay
                    \/ \E p \in Procs : \/ DropGens(p) \/ Prune(p)
                                        \/ WriteCandidate(p) \/ Seal(p)
                                        \/ Cleanup(p)
  OBVIOUS
<1> QED
  BY ZenonT(60)
     DEF Next, Step, Begin, Fail, vars, disk, RecoverClean, RecoverGeneration,
         RecoverNothing, RecoverRefused, RepairSkipped, Repair, Sidecars,
         MirrorIx, MirrorDb, DropIx, DropDb, DropManifest, Unmark, MarkDirty,
         BeginRebuild, Mutate, SaveSkipped, SaveRefused, Stage,
         CandidateRejected, Mirror, Rotate, Promote, LeaveTransaction,
         Handler, RestoreGeneration, RestoreNothing, RestoreRefused, Open,
         BeginTransaction, BeginClear, FailInBody, FailInSave, FailInRecovery,
         IndexingFails, Crash

\* Who writes the manifests: commit_manifest and clear_index.
LEMMA TouchRef ==
    ASSUME [Next]_vars
    PROVE  \/ UNCHANGED <<current, prior>>
           \/ Decay
           \/ \E p \in Procs : Rotate(p) \/ Promote(p) \/ DropManifest(p)
<1> SUFFICES ASSUME ~UNCHANGED <<current, prior>>
             PROVE  \/ Decay
                    \/ \E p \in Procs : \/ Rotate(p) \/ Promote(p)
                                        \/ DropManifest(p)
  OBVIOUS
<1> QED
  BY ZenonT(60)
     DEF Next, Step, Begin, Fail, vars, disk, RecoverClean, RecoverGeneration,
         RecoverNothing, RecoverRefused, RepairSkipped, Repair, Sidecars,
         MirrorIx, MirrorDb, DropIx, DropDb, DropGens, Unmark, Prune,
         MarkDirty, BeginRebuild, Mutate, SaveSkipped, SaveRefused, Stage,
         WriteCandidate, CandidateRejected, Seal, Mirror, Cleanup,
         LeaveTransaction, Handler, RestoreGeneration, RestoreNothing,
         RestoreRefused, Open, BeginTransaction, BeginClear, FailInBody,
         FailInSave, FailInRecovery, IndexingFails, Crash

\* Who writes the roots.
LEMMA TouchRoot ==
    ASSUME [Next]_vars
    PROVE  \/ UNCHANGED root
           \/ Decay
           \/ \E p \in Procs : \/ Sidecars(p) \/ MirrorIx(p) \/ MirrorDb(p)
                               \/ DropIx(p) \/ DropDb(p) \/ Mutate(p)
BY ZenonT(60)
   DEF Next, Step, Begin, Fail, vars, disk, RecoverClean, RecoverGeneration,
       RecoverNothing, RecoverRefused, RepairSkipped, Repair, DropManifest,
       DropGens, Unmark, Prune, MarkDirty, BeginRebuild, SaveSkipped,
       SaveRefused, Stage, WriteCandidate, CandidateRejected, Seal, Mirror,
       Rotate, Promote, Cleanup, LeaveTransaction, Handler, RestoreGeneration,
       RestoreNothing, RestoreRefused, Open, BeginTransaction, BeginClear,
       FailInBody, FailInSave, FailInRecovery, IndexingFails, Crash

\* Who removes the marker.
LEMMA TouchMarker ==
    ASSUME TypeOK, marker, [Next]_vars
    PROVE  marker' \/ \E p \in Procs : Unmark(p)
BY ZenonT(60)
   DEF Next, Step, Begin, Fail, vars, disk, TypeOK, Decay, RecoverClean,
       RecoverGeneration, RecoverNothing, RecoverRefused, RepairSkipped,
       Repair, Sidecars, MirrorIx, MirrorDb, DropIx, DropDb, DropManifest,
       DropGens, Prune, MarkDirty, BeginRebuild, Mutate, SaveSkipped,
       SaveRefused, Stage, WriteCandidate, CandidateRejected, Seal, Mirror,
       Rotate, Promote, Cleanup, LeaveTransaction, Handler, RestoreGeneration,
       RestoreNothing, RestoreRefused, Open, BeginTransaction, BeginClear,
       FailInBody, FailInSave, FailInRecovery, IndexingFails, Crash

------------------------------------------------------------------------------
\* Leaving an operation releases the writer lock.
LEMMA LeaveLock ==
    ASSUME TypeOK, LockInv, NEW p \in Procs,
           NEW l \in {"down", "idle", "handler"}, Leave(p, l)
    PROVE  LockInv'
BY ConstantsAssumption
   DEF ConstantsAssumption, TypeOK, LockInv, Active, RollbackLabels, Leave,
       Goto, Why

\* Giving up releases it, or goes on to the clean-up of save_index.
LEMMA GiveUpLock ==
    ASSUME TypeOK, LockInv, NEW p \in Procs, GiveUp(p), Active(p)
    PROVE  LockInv'
<1>1. CASE cont[p] = "failed"
  BY <1>1 DEF GiveUp, TypeOK, LockInv, Active, RollbackLabels, Goto, local
<1>2. CASE cont[p] # "failed"
  <2>1. PICK l \in {"down", "idle", "handler"} : Leave(p, l)
    BY <1>2 DEF GiveUp, Raised
  <2> QED BY <2>1, LeaveLock
<1> QED BY <1>1, <1>2

\* The lock discipline of publication_transaction, clear_index and __init__:
\* inductive, even when a rollback without the lock meets a writer.
LEMMA LockStep == TypeOK /\ LockInv /\ [Next]_vars => LockInv'
<1> SUFFICES ASSUME TypeOK, LockInv, [Next]_vars PROVE LockInv'
  OBVIOUS
<1> USE ConstantsAssumption
    DEF ConstantsAssumption, TypeOK, LockInv, Active, RollbackLabels, Goto,
        Why
<1>1. ASSUME NEW p \in Procs, RecoverClean(p) PROVE LockInv'
  <2>1. CASE cont[p] = "open"
    BY <2>1, <1>1, LeaveLock DEF RecoverClean
  <2>2. CASE cont[p] # "open"
    BY <2>2, <1>1 DEF RecoverClean
  <2> QED BY <2>1, <2>2
<1>2. ASSUME NEW p \in Procs, RecoverGeneration(p) PROVE LockInv'
  BY <1>2 DEF RecoverGeneration
<1>3. ASSUME NEW p \in Procs, RecoverNothing(p) PROVE LockInv'
  BY <1>3 DEF RecoverNothing
<1>4. ASSUME NEW p \in Procs, RecoverRefused(p) PROVE LockInv'
  <2>1. PICK l \in {"down", "idle", "handler"} : Leave(p, l)
    BY <1>4 DEF RecoverRefused, Raised
  <2> QED BY <2>1, LeaveLock
<1>5. ASSUME NEW p \in Procs, RepairSkipped(p) PROVE LockInv'
  BY <1>5 DEF RepairSkipped, StartWork
<1>6. ASSUME NEW p \in Procs, Repair(p) PROVE LockInv'
  BY <1>6 DEF Repair
<1>7. ASSUME NEW p \in Procs, Sidecars(p) PROVE LockInv'
  BY <1>7 DEF Sidecars
<1>8. ASSUME NEW p \in Procs, MirrorIx(p) PROVE LockInv'
  BY <1>8 DEF MirrorIx
<1>9. ASSUME NEW p \in Procs, MirrorDb(p) PROVE LockInv'
  BY <1>9 DEF MirrorDb
<1>10. ASSUME NEW p \in Procs, DropIx(p) PROVE LockInv'
  BY <1>10 DEF DropIx
<1>11. ASSUME NEW p \in Procs, DropDb(p) PROVE LockInv'
  BY <1>11 DEF DropDb
<1>12. ASSUME NEW p \in Procs, DropManifest(p) PROVE LockInv'
  BY <1>12 DEF DropManifest
<1>13. ASSUME NEW p \in Procs, DropGens(p) PROVE LockInv'
  BY <1>13 DEF DropGens
<1>14. ASSUME NEW p \in Procs, Unmark(p) PROVE LockInv'
  <2>1. CASE UNCHANGED <<cont, local, holder>>
    BY <2>1, <1>14 DEF Unmark, Leave
  <2>2. ASSUME NEW l \in {"idle", "handler"}, Leave(p, l) PROVE LockInv'
    BY <2>2, LeaveLock
  <2> QED BY <2>1, <2>2, <1>14 DEF Unmark, Raised
<1>15. ASSUME NEW p \in Procs, Prune(p) PROVE LockInv'
  <2>1. CASE Leave(p, "idle")
    BY <2>1, LeaveLock
  <2>2. CASE UNCHANGED <<local, holder>>
    BY <2>2, <1>15 DEF Prune, StartWork, Leave
  <2> QED BY <2>1, <2>2, <1>15 DEF Prune
<1>16. ASSUME NEW p \in Procs, MarkDirty(p) PROVE LockInv'
  BY <1>16 DEF MarkDirty
<1>17. ASSUME NEW p \in Procs, BeginRebuild(p) PROVE LockInv'
  BY <1>17 DEF BeginRebuild
<1>18. ASSUME NEW p \in Procs, Mutate(p) PROVE LockInv'
  BY <1>18 DEF Mutate
<1>19. ASSUME NEW p \in Procs, SaveSkipped(p) PROVE LockInv'
  BY <1>19 DEF SaveSkipped
<1>20. ASSUME NEW p \in Procs, SaveRefused(p) PROVE LockInv'
  BY <1>20 DEF SaveRefused
<1>21. ASSUME NEW p \in Procs, Stage(p) PROVE LockInv'
  BY <1>21 DEF Stage
<1>22. ASSUME NEW p \in Procs, WriteCandidate(p) PROVE LockInv'
  BY <1>22 DEF WriteCandidate
<1>23. ASSUME NEW p \in Procs, CandidateRejected(p) PROVE LockInv'
  BY <1>23 DEF CandidateRejected
<1>24. ASSUME NEW p \in Procs, Seal(p) PROVE LockInv'
  BY <1>24 DEF Seal
<1>25. ASSUME NEW p \in Procs, Mirror(p) PROVE LockInv'
  <2>1. CASE Verified(gen[p])
    BY <2>1, <1>25 DEF Mirror
  <2>2. CASE ~Verified(gen[p])
    BY <2>2, <1>25 DEF Mirror
  <2> QED BY <2>1, <2>2
<1>26. ASSUME NEW p \in Procs, Rotate(p) PROVE LockInv'
  BY <1>26 DEF Rotate
<1>27. ASSUME NEW p \in Procs, Promote(p) PROVE LockInv'
  BY <1>27 DEF Promote
<1>28. ASSUME NEW p \in Procs, Cleanup(p) PROVE LockInv'
  BY <1>28 DEF Cleanup
<1>29. ASSUME NEW p \in Procs, LeaveTransaction(p) PROVE LockInv'
  <2>1. CASE marker
    BY <2>1, <1>29 DEF LeaveTransaction
  <2>2. CASE ~marker
    <3>1. PICK l \in {"idle", "handler"} : Leave(p, l)
      BY <2>2, <1>29 DEF LeaveTransaction, Raised
    <3> QED BY <3>1, LeaveLock
  <2> QED BY <2>1, <2>2
<1>30. ASSUME NEW p \in Procs, Handler(p) PROVE LockInv'
  <2>1. CASE marker
    BY <2>1, <1>30 DEF Handler
  <2>2. CASE ~marker
    BY <2>2, <1>30, LeaveLock DEF Handler
  <2> QED BY <2>1, <2>2
<1>31. ASSUME NEW p \in Procs, RestoreGeneration(p) PROVE LockInv'
  BY <1>31 DEF RestoreGeneration
<1>32. ASSUME NEW p \in Procs, RestoreNothing(p) PROVE LockInv'
  BY <1>32 DEF RestoreNothing
<1>33. ASSUME NEW p \in Procs, RestoreRefused(p) PROVE LockInv'
  BY <1>33, GiveUpLock DEF RestoreRefused
<1>34. ASSUME NEW p \in Procs, Open(p) PROVE LockInv'
  BY <1>34 DEF Open
<1>35. ASSUME NEW p \in Procs, BeginTransaction(p) PROVE LockInv'
  BY <1>35 DEF BeginTransaction
<1>36. ASSUME NEW p \in Procs, BeginClear(p) PROVE LockInv'
  BY <1>36 DEF BeginClear
<1>37. ASSUME NEW p \in Procs, FailInBody(p) PROVE LockInv'
  BY <1>37 DEF FailInBody
<1>38. ASSUME NEW p \in Procs, FailInSave(p) PROVE LockInv'
  BY <1>38 DEF FailInSave, RoutineLabels
<1>39. ASSUME NEW p \in Procs, FailInRecovery(p) PROVE LockInv'
  BY <1>39, GiveUpLock DEF FailInRecovery, RoutineLabels
<1>40. ASSUME NEW p \in Procs, IndexingFails(p) PROVE LockInv'
  BY <1>40 DEF IndexingFails
<1>41. ASSUME NEW p \in Procs, Crash(p) PROVE LockInv'
  BY <1>41, LeaveLock DEF Crash
<1>42. ASSUME Decay PROVE LockInv'
  BY <1>42 DEF Decay
<1>43. CASE UNCHANGED vars
  BY <1>43 DEF vars, disk, local
<1> QED BY <1>1, <1>2, <1>3, <1>4, <1>5, <1>6, <1>7, <1>8, <1>9, <1>10,
       <1>11, <1>12, <1>13, <1>14, <1>15, <1>16, <1>17, <1>18, <1>19, <1>20,
       <1>21, <1>22, <1>23, <1>24, <1>25, <1>26, <1>27, <1>28, <1>29, <1>30,
       <1>31, <1>32, <1>33, <1>34, <1>35, <1>36, <1>37, <1>38, <1>39, <1>40,
       <1>41, <1>42, <1>43
    DEF Next, Step, Begin, Fail

\* Then the lock excludes all others, if those rollbacks are alone.
LEMMA OneActive == LockInv /\ RollbackAlone => Exclusive
BY ConstantsAssumption
   DEF ConstantsAssumption, LockInv, RollbackAlone, Exclusive

------------------------------------------------------------------------------
\* A transaction that ends forgets its working set.
LEMMA LeaveWork ==
    ASSUME TypeOK, WorkInv, NEW p \in Procs,
           NEW l \in {"down", "idle", "handler"}, Leave(p, l),
           root' = root, attached \ {p} \subseteq attached'
    PROVE  WorkInv'
BY ConstantsAssumption
   DEF ConstantsAssumption, TypeOK, WorkInv, Unbuilt, Leave, Goto, Why

\* So does a recovery that is given up.
LEMMA GiveUpWork ==
    ASSUME TypeOK, WorkInv, NEW p \in Procs, GiveUp(p), Active(p),
           root' = root, attached' = attached
    PROVE  WorkInv'
<1>1. CASE cont[p] = "failed"
  BY <1>1 DEF GiveUp, TypeOK, WorkInv, Unbuilt, Goto, local
<1>2. CASE cont[p] # "failed"
  <2>1. PICK l \in {"down", "idle", "handler"} : Leave(p, l)
    BY <1>2 DEF GiveUp, Raised
  <2> QED BY <2>1, LeaveWork
<1> QED BY <1>1, <1>2

\* Between _rebase_publication_working_set and the staging the handles stay on
\* the present files, and memory and journal agree.
LEMMA WorkStep ==
    TypeOK /\ LockInv /\ Exclusive /\ WorkInv /\ [Next]_vars => WorkInv'
<1> SUFFICES ASSUME TypeOK, LockInv, Exclusive, WorkInv, [Next]_vars
             PROVE  WorkInv'
  OBVIOUS
<1> USE ConstantsAssumption
    DEF ConstantsAssumption, TypeOK, WorkInv, Unbuilt, Goto, Why, disk, local
<1>1. ASSUME NEW p \in Procs, RecoverClean(p) PROVE WorkInv'
  <2>1. CASE cont[p] = "open"
    BY <2>1, <1>1, LeaveWork DEF RecoverClean
  <2>2. CASE cont[p] # "open"
    BY <2>2, <1>1 DEF RecoverClean
  <2> QED BY <2>1, <2>2
<1>2. ASSUME NEW p \in Procs, RecoverGeneration(p) PROVE WorkInv'
  BY <1>2 DEF RecoverGeneration
<1>3. ASSUME NEW p \in Procs, RecoverNothing(p) PROVE WorkInv'
  BY <1>3 DEF RecoverNothing
<1>4. ASSUME NEW p \in Procs, RecoverRefused(p) PROVE WorkInv'
  <2>1. PICK l \in {"down", "idle", "handler"} : Leave(p, l)
    BY <1>4 DEF RecoverRefused, Raised
  <2> QED BY <2>1, <1>4, LeaveWork DEF RecoverRefused
<1>5. ASSUME NEW p \in Procs, RepairSkipped(p) PROVE WorkInv'
  BY <1>5 DEF RepairSkipped, StartWork
<1>6. ASSUME NEW p \in Procs, Repair(p) PROVE WorkInv'
  BY <1>6 DEF Repair
<1>7. ASSUME NEW p \in Procs, Sidecars(p) PROVE WorkInv'
  <2>1. ASSUME NEW q \in Procs, q # p
        PROVE  pc[q] \notin {"work", "dirty", "stage"}
    BY <1>7, <2>1 DEF Sidecars, Exclusive, Active
  <2> QED BY <1>7, <2>1 DEF Sidecars
<1>8. ASSUME NEW p \in Procs, MirrorIx(p) PROVE WorkInv'
  <2>1. ASSUME NEW q \in Procs, q # p
        PROVE  pc[q] \notin {"work", "dirty", "stage"}
    BY <1>8, <2>1 DEF MirrorIx, Exclusive, Active
  <2> QED BY <1>8, <2>1 DEF MirrorIx
<1>9. ASSUME NEW p \in Procs, MirrorDb(p) PROVE WorkInv'
  <2>1. ASSUME NEW q \in Procs, q # p
        PROVE  pc[q] \notin {"work", "dirty", "stage"}
    BY <1>9, <2>1 DEF MirrorDb, Exclusive, Active
  <2> QED BY <1>9, <2>1 DEF MirrorDb
<1>10. ASSUME NEW p \in Procs, DropIx(p) PROVE WorkInv'
  <2>1. ASSUME NEW q \in Procs, q # p
        PROVE  pc[q] \notin {"work", "dirty", "stage"}
    BY <1>10, <2>1 DEF DropIx, Exclusive, Active
  <2> QED BY <1>10, <2>1 DEF DropIx
<1>11. ASSUME NEW p \in Procs, DropDb(p) PROVE WorkInv'
  <2>1. ASSUME NEW q \in Procs, q # p
        PROVE  pc[q] \notin {"work", "dirty", "stage"}
    BY <1>11, <2>1 DEF DropDb, Exclusive, Active
  <2> QED BY <1>11, <2>1 DEF DropDb
<1>12. ASSUME NEW p \in Procs, DropManifest(p) PROVE WorkInv'
  BY <1>12 DEF DropManifest
<1>13. ASSUME NEW p \in Procs, DropGens(p) PROVE WorkInv'
  BY <1>13 DEF DropGens
<1>14. ASSUME NEW p \in Procs, Unmark(p) PROVE WorkInv'
  <2>1. CASE UNCHANGED <<cont, local, holder>>
    BY <2>1, <1>14 DEF Unmark, Leave
  <2>2. ASSUME NEW l \in {"idle", "handler"}, Leave(p, l) PROVE WorkInv'
    BY <2>2, <1>14, LeaveWork DEF Unmark
  <2> QED BY <2>1, <2>2, <1>14 DEF Unmark, Raised
<1>15. ASSUME NEW p \in Procs, Prune(p) PROVE WorkInv'
  <2>1. CASE Leave(p, "idle") /\ UNCHANGED attached
    BY <2>1, <1>15, LeaveWork DEF Prune
  <2>2. CASE UNCHANGED <<local, holder>>
    BY <2>2, <1>15 DEF Prune, StartWork, Leave
  <2> QED BY <2>1, <2>2, <1>15 DEF Prune
<1>16. ASSUME NEW p \in Procs, MarkDirty(p) PROVE WorkInv'
  BY <1>16 DEF MarkDirty
<1>17. ASSUME NEW p \in Procs, BeginRebuild(p) PROVE WorkInv'
  BY <1>17 DEF BeginRebuild
<1>18. ASSUME NEW p \in Procs, Mutate(p) PROVE WorkInv'
  <2>1. ASSUME NEW q \in Procs, q # p
        PROVE  pc[q] \notin {"work", "dirty", "stage"}
    BY <1>18, <2>1 DEF Mutate, Exclusive, Active
  <2>2. PICK v \in Vals : /\ mem' = [mem EXCEPT ![p] = v]
                          /\ root' = [root EXCEPT !.wal = v]
    BY <1>18 DEF Mutate
  <2>3. mem'[p] = v /\ root'.wal = v /\ p \in attached
    BY <2>2, <1>18 DEF Mutate
  <2>4. ASSUME NEW q \in Procs, q # p
        PROVE  mem'[q] = mem[q] /\ pc'[q] = pc[q]
    BY <2>2, <2>4, <1>18 DEF Mutate
  <2>5. pc'[p] = "work" /\ UNCHANGED <<attached, cont>>
    BY <1>18 DEF Mutate
  <2>6. cont[p] \notin {"none", "open", "rebase", "repair"}
    BY <1>18 DEF Mutate, LockInv
  <2> QED BY <2>1, <2>3, <2>4, <2>5, <2>6
<1>19. ASSUME NEW p \in Procs, SaveSkipped(p) PROVE WorkInv'
  BY <1>19 DEF SaveSkipped
<1>20. ASSUME NEW p \in Procs, SaveRefused(p) PROVE WorkInv'
  BY <1>20 DEF SaveRefused
<1>21. ASSUME NEW p \in Procs, Stage(p) PROVE WorkInv'
  BY <1>21 DEF Stage
<1>22. ASSUME NEW p \in Procs, WriteCandidate(p) PROVE WorkInv'
  BY <1>22 DEF WriteCandidate
<1>23. ASSUME NEW p \in Procs, CandidateRejected(p) PROVE WorkInv'
  BY <1>23 DEF CandidateRejected
<1>24. ASSUME NEW p \in Procs, Seal(p) PROVE WorkInv'
  BY <1>24 DEF Seal
<1>25. ASSUME NEW p \in Procs, Mirror(p) PROVE WorkInv'
  <2>1. CASE Verified(gen[p])
    BY <2>1, <1>25 DEF Mirror
  <2>2. CASE ~Verified(gen[p])
    BY <2>2, <1>25 DEF Mirror
  <2> QED BY <2>1, <2>2
<1>26. ASSUME NEW p \in Procs, Rotate(p) PROVE WorkInv'
  BY <1>26 DEF Rotate
<1>27. ASSUME NEW p \in Procs, Promote(p) PROVE WorkInv'
  BY <1>27 DEF Promote
<1>28. ASSUME NEW p \in Procs, Cleanup(p) PROVE WorkInv'
  BY <1>28 DEF Cleanup
<1>29. ASSUME NEW p \in Procs, LeaveTransaction(p) PROVE WorkInv'
  <2>1. CASE marker
    BY <2>1, <1>29 DEF LeaveTransaction
  <2>2. CASE ~marker
    <3>1. PICK l \in {"idle", "handler"} : Leave(p, l)
      BY <2>2, <1>29 DEF LeaveTransaction, Raised
    <3> QED BY <3>1, <1>29, LeaveWork DEF LeaveTransaction
  <2> QED BY <2>1, <2>2
<1>30. ASSUME NEW p \in Procs, Handler(p) PROVE WorkInv'
  <2>1. CASE marker
    BY <2>1, <1>30 DEF Handler
  <2>2. CASE ~marker
    BY <2>2, <1>30, LeaveWork DEF Handler
  <2> QED BY <2>1, <2>2
<1>31. ASSUME NEW p \in Procs, RestoreGeneration(p) PROVE WorkInv'
  BY <1>31 DEF RestoreGeneration
<1>32. ASSUME NEW p \in Procs, RestoreNothing(p) PROVE WorkInv'
  BY <1>32 DEF RestoreNothing, LockInv
<1>33. ASSUME NEW p \in Procs, RestoreRefused(p) PROVE WorkInv'
  BY <1>33, GiveUpWork DEF RestoreRefused, Active
<1>34. ASSUME NEW p \in Procs, Open(p) PROVE WorkInv'
  BY <1>34 DEF Open, LockInv, Active
<1>35. ASSUME NEW p \in Procs, BeginTransaction(p) PROVE WorkInv'
  BY <1>35 DEF BeginTransaction, LockInv, Active
<1>36. ASSUME NEW p \in Procs, BeginClear(p) PROVE WorkInv'
  BY <1>36 DEF BeginClear
<1>37. ASSUME NEW p \in Procs, FailInBody(p) PROVE WorkInv'
  BY <1>37 DEF FailInBody
<1>38. ASSUME NEW p \in Procs, FailInSave(p) PROVE WorkInv'
  BY <1>38 DEF FailInSave, RoutineLabels
<1>39. ASSUME NEW p \in Procs, FailInRecovery(p) PROVE WorkInv'
  BY <1>39, GiveUpWork DEF FailInRecovery, RoutineLabels, Active
<1>40. ASSUME NEW p \in Procs, IndexingFails(p) PROVE WorkInv'
  BY <1>40 DEF IndexingFails
<1>41. ASSUME NEW p \in Procs, Crash(p) PROVE WorkInv'
  BY <1>41, LeaveWork DEF Crash
<1>42. ASSUME Decay PROVE WorkInv'
  BY <1>42 DEF Decay
<1>43. CASE UNCHANGED vars
  BY <1>43 DEF vars, disk, local
<1> QED BY <1>1, <1>2, <1>3, <1>4, <1>5, <1>6, <1>7, <1>8, <1>9, <1>10,
       <1>11, <1>12, <1>13, <1>14, <1>15, <1>16, <1>17, <1>18, <1>19, <1>20,
       <1>21, <1>22, <1>23, <1>24, <1>25, <1>26, <1>27, <1>28, <1>29, <1>30,
       <1>31, <1>32, <1>33, <1>34, <1>35, <1>36, <1>37, <1>38, <1>39, <1>40,
       <1>41, <1>42, <1>43
    DEF Next, Step, Begin, Fail

------------------------------------------------------------------------------
\* _write_candidate_generation stages one working set, nobody rewrites it.
LEMMA WholeStep ==
    ASSUME TypeOK, WorkInv, StoreInv, [Next]_vars
    PROVE  WholeInv'
<1> USE ConstantsAssumption
    DEF ConstantsAssumption, TypeOK, StoreInv, WholeInv
<1>1. CASE Decay
  <2>1. dir' = dir /\ damage' # 0
    BY <1>1 DEF Decay
  <2>2. CASE body' = body
    BY <2>1, <2>2
  <2>3. CASE \E g \in Gens : body' = [body EXCEPT ![g].ix = Bad]
    <3>1. PICK g \in Gens : body' = [body EXCEPT ![g].ix = Bad]
      BY <2>3
    <3>2. \A h \in Gens : body'[h].db = body[h].db
                          /\ body'[h].ix \in {body[h].ix, Bad}
      BY <3>1
    <3> QED BY <2>1, <3>2
  <2> QED BY <2>2, <2>3, <1>1 DEF Decay
<1>2. CASE UNCHANGED <<dir, body>>
  BY <1>2, Undamaged
<1>3. ASSUME NEW p \in Procs, DropGens(p) \/ Prune(p) \/ Cleanup(p)
      PROVE  WholeInv'
  BY <1>3, Undamaged DEF DropGens, Prune, Cleanup
<1>4. ASSUME NEW p \in Procs, WriteCandidate(p) PROVE WholeInv'
  <2>1. PICK g \in Gens :
          /\ dir' = [dir EXCEPT ![g] = "candidate"]
          /\ body' = [body EXCEPT ![g] = [ix |-> mem[p], db |-> DbView]]
    BY <1>4 DEF WriteCandidate
  <2>2. mem[p] \in Vals /\ DbView = mem[p]
    BY <1>4 DEF WriteCandidate, WorkInv, DbView
  <2> QED BY <2>1, <2>2, Undamaged
<1>5. ASSUME NEW p \in Procs, Seal(p) PROVE WholeInv'
  <2>1. dir[gen[p]] = "candidate" /\ gen[p] \in Gens
    BY <1>5 DEF Seal, PlaceAt, GenAt, Publishing
  <2> QED BY <2>1, <1>5, Undamaged DEF Seal
<1> QED BY <1>1, <1>2, <1>3, <1>4, <1>5, TouchDir

\* commit_manifest never makes the two manifests name the same generation.
LEMMA RefsStep ==
    ASSUME TypeOK, StoreInv, [Next]_vars
    PROVE  RefsInv'
<1> USE ConstantsAssumption DEF ConstantsAssumption, TypeOK, StoreInv, RefsInv
<1>1. CASE Decay
  BY <1>1 DEF Decay
<1>2. ASSUME NEW p \in Procs, Rotate(p) \/ DropManifest(p) PROVE RefsInv'
  BY <1>2 DEF Rotate, DropManifest
<1>3. ASSUME NEW p \in Procs, Promote(p) PROVE RefsInv'
  BY <1>3 DEF Promote, PlaceAt, GenAt, Publishing
<1> QED BY <1>1, <1>2, <1>3, TouchRef

\* No prune, clean-up, rotation or rollback takes a named generation away.
LEMMA ReferencedStep ==
    ASSUME TypeOK, StoreInv, [Next]_vars
    PROVE  ReferencedVerifies'
<1> SUFFICES ASSUME damage' = 0,
                    NEW m \in ({current, prior} \ {NoGen})'
             PROVE  Verified(m)'
  BY DEF ReferencedVerifies
<1> USE ConstantsAssumption
    DEF ConstantsAssumption, TypeOK, StoreInv, ReferencedVerifies, Verified
<1>1. ~Decay /\ damage = 0
  BY Undamaged
<1>2. CASE UNCHANGED <<dir, body, current, prior>>
  BY <1>1, <1>2
<1>3. ASSUME NEW p \in Procs, DropGens(p), UNCHANGED <<current, prior>>
      PROVE  Verified(m)'
  <2>1. Missing
    BY <1>3 DEF DropGens, PlaceAt, MissAt
  <2> QED BY <2>1, <1>3 DEF Missing
<1>4. ASSUME NEW p \in Procs, Prune(p) \/ Cleanup(p),
             UNCHANGED <<current, prior>>
      PROVE  Verified(m)'
  BY <1>1, <1>4 DEF Prune, Cleanup
<1>5. ASSUME NEW p \in Procs, WriteCandidate(p), UNCHANGED <<current, prior>>
      PROVE  Verified(m)'
  BY <1>1, <1>5 DEF WriteCandidate, Fresh
<1>6. ASSUME NEW p \in Procs, Seal(p), UNCHANGED <<current, prior>>
      PROVE  Verified(m)'
  <2>1. Verified(m) /\ m \in Gens
    BY <1>1, <1>6
  <2>2. m # gen[p]
    BY <1>6 DEF Seal, PlaceAt, GenAt, Publishing
  <2>3. dir'[m] = dir[m] /\ body' = body
    BY <2>1, <2>2, <1>6 DEF Seal
  <2> QED BY <2>1, <2>3
<1>7. ASSUME NEW p \in Procs, Rotate(p) \/ DropManifest(p)
      PROVE  Verified(m)'
  BY <1>1, <1>7 DEF Rotate, DropManifest
<1>8. ASSUME NEW p \in Procs, Promote(p) PROVE Verified(m)'
  BY <1>1, <1>8 DEF Promote, PlaceAt, GenAt, Publishing, WholeInv
<1>9. ASSUME NEW p \in Procs,
             \/ DropGens(p) \/ Prune(p) \/ WriteCandidate(p) \/ Seal(p)
             \/ Cleanup(p)
      PROVE  UNCHANGED <<current, prior>>
  BY <1>9 DEF DropGens, Prune, WriteCandidate, Seal, Cleanup
<1> QED
  BY <1>1, <1>2, <1>3, <1>4, <1>5, <1>6, <1>7, <1>8, <1>9, TouchDir, TouchRef

\* The steps of one process keep what holds at its own places: a generation
\* that is being published is new, roots are dropped for good only when no
\* manifest names anything, the marker covers every change of the roots.
LEMMA OwnPlaceStep ==
    ASSUME TypeOK, LockInv, WorkInv, StoreInv, NEW p \in Procs, Operation(p)
    PROVE  PlaceAt(p)'
<1> USE ConstantsAssumption
    DEF ConstantsAssumption, TypeOK, PlaceAt, GenAt, MissAt, MarkerAt,
        Unsettled, Publishing,
        Goto, Why, local, disk
<1> PlaceAt(p)
  BY DEF StoreInv
<1> DEFINE Quiet == {"down", "idle", "handler", "recover", "repair", "prune",
                     "cleanup", "abort", "exit"}
<1>1. CASE pc'[p] \in Quiet
  BY <1>1
<1>2. ASSUME RepairSkipped(p) \/ Prune(p), pc'[p] = "work" PROVE PlaceAt(p)'
  BY <1>2 DEF RepairSkipped, Prune, StartWork, WorkInv, Unbuilt, Leave
<1>3. CASE RecoverGeneration(p) \/ Repair(p) \/ RestoreGeneration(p)
  BY <1>3 DEF RecoverGeneration, Repair, RestoreGeneration, LockInv
<1>4. CASE RecoverNothing(p) \/ RestoreNothing(p)
  BY <1>4 DEF RecoverNothing, RestoreNothing, Missing
<1>5. CASE Sidecars(p) \/ MirrorIx(p) \/ MirrorDb(p)
  BY <1>5 DEF Sidecars, MirrorIx, MirrorDb, Verified
<1>6. CASE DropIx(p) \/ DropDb(p) \/ DropGens(p) \/ DropManifest(p)
  BY <1>6 DEF DropIx, DropDb, DropGens, DropManifest, Missing
<1>7. CASE \/ MarkDirty(p) \/ BeginRebuild(p) \/ Mutate(p) \/ Stage(p)
           \/ BeginClear(p)
  BY <1>7 DEF MarkDirty, BeginRebuild, Mutate, Stage, BeginClear
<1>8. CASE SaveRefused(p) \/ CandidateRejected(p) \/ FailInSave(p)
  BY <1>8 DEF SaveRefused, CandidateRejected, FailInSave, RoutineLabels
<1>16. CASE LeaveTransaction(p) \/ Handler(p)
  <2>1. CASE marker
    <3>1. CASE LeaveTransaction(p)
      BY <2>1, <3>1 DEF LeaveTransaction
    <3>2. CASE Handler(p)
      BY <2>1, <3>2 DEF Handler
    <3> QED BY <3>1, <3>2, <1>16
  <2>2. CASE ~marker
    BY <2>2, <1>16, <1>1 DEF LeaveTransaction, Handler, Leave, Raised
  <2> QED BY <2>1, <2>2
<1>9. CASE WriteCandidate(p)
  BY <1>9 DEF WriteCandidate, Fresh
<1>10. CASE Seal(p)
  BY <1>10 DEF Seal
<1>11. CASE Mirror(p)
  <2>1. CASE Verified(gen[p])
    BY <2>1, <1>11 DEF Mirror, Verified
  <2>2. CASE ~Verified(gen[p])
    BY <2>2, <1>11 DEF Mirror
  <2> QED BY <2>1, <2>2
<1>12. CASE Rotate(p)
  BY <1>12 DEF Rotate, Verified
<1>13. CASE Promote(p)
  BY <1>13 DEF Promote
<1>14. ASSUME \/ Open(p) \/ BeginTransaction(p) \/ RecoverClean(p)
              \/ RecoverRefused(p) \/ RestoreRefused(p) \/ FailInRecovery(p)
              \/ Unmark(p) \/ Crash(p) \/ SaveSkipped(p) \/ Cleanup(p)
              \/ FailInBody(p) \/ IndexingFails(p)
       PROVE  pc'[p] \in Quiet
  BY <1>14
     DEF Open, BeginTransaction, RecoverClean, RecoverRefused, RestoreRefused,
         FailInRecovery, Unmark, Crash, SaveSkipped, Cleanup, FailInBody,
         IndexingFails, GiveUp, Leave, Raised
<1>15. ASSUME RepairSkipped(p) \/ Prune(p), pc'[p] # "work"
       PROVE  pc'[p] \in Quiet
  BY <1>15 DEF RepairSkipped, Prune, StartWork, Leave
<1> QED
  BY <1>1, <1>2, <1>3, <1>4, <1>5, <1>6, <1>7, <1>8, <1>9, <1>10, <1>11,
     <1>12, <1>13, <1>14, <1>15, <1>16
  DEF Operation, Step, Begin, Fail

\* So do the steps of the others, and decay.
LEMMA PlaceStep ==
    ASSUME TypeOK, LockInv, Exclusive, WorkInv, StoreInv, [Next]_vars,
           NEW q \in Procs
    PROVE  PlaceAt(q)'
<1> USE DEF PlaceAt, GenAt, MissAt, MarkerAt, Unsettled, Publishing
<1>0. PlaceAt(q)
  BY DEF StoreInv
<1>1. CASE Decay
  <2>1. UNCHANGED <<marker, dir, pc, cont, local>>
    BY <1>1 DEF Decay
  <2>2. current' \in {current, Garbled} /\ prior' \in {prior, Garbled}
    BY <1>1 DEF Decay
  <2>3. Missing => Missing'
    BY <1>1, ConstantsAssumption DEF Decay, Missing, ConstantsAssumption
  <2>4. ~Verified(current) => ~Verified(current)'
    <3>1. \A g \in Gens : /\ body'[g].ix \in {body[g].ix, Bad}
                          /\ body'[g].db = body[g].db
      BY <1>1 DEF Decay, TypeOK, Bodies
    <3> QED
      BY <2>1, <2>2, <3>1, ConstantsAssumption
         DEF Verified, ConstantsAssumption
  <2> QED
    BY <1>0, <2>1, <2>2, <2>3, <2>4, ConstantsAssumption
       DEF local, ConstantsAssumption
<1>2. CASE UNCHANGED vars
  BY <1>0, <1>2 DEF vars, Verified, Missing, local, disk
<1>3. CASE Operation(q)
  BY <1>3, OwnPlaceStep
<1>4. ASSUME NEW p \in Procs, p # q, Operation(p) PROVE PlaceAt(q)'
  <2>1. CASE Active(q)
    <3>1. ~Active(p)
      BY <1>4, <2>1 DEF Exclusive
    <3> QED BY <1>0, <1>4, <3>1, OthersKeep, IdleKeeps DEF Verified, Missing
  <2>2. CASE ~Active(q)
    BY <2>2, <1>4, OthersKeep DEF Active
  <2> QED BY <2>1, <2>2
<1> QED BY <1>1, <1>2, <1>3, <1>4 DEF Next, Operation

------------------------------------------------------------------------------
\* What is published depends on the manifests and the generations.
LEMMA SamePublished ==
    ASSUME UNCHANGED <<current, prior, dir, body>>
    PROVE  Published' = Published /\ (Missing' <=> Missing)
BY DEF Published, Verified, Missing

\* A published generation verifies, and a manifest names it.
LEMMA PublishedIsNamed ==
    /\ Published # NoGen =>
         /\ Verified(Published) /\ Published \in Gens
         /\ Published \in {current, prior} /\ ~Missing
    /\ Missing => Published = NoGen
BY ConstantsAssumption DEF ConstantsAssumption, Published, Verified, Missing

\* Pruning and the clean-up of a failed save keep what is published.
LEMMA RemovalKeepsPublished ==
    ASSUME TypeOK, NEW p \in Procs, Prune(p) \/ Cleanup(p)
    PROVE  /\ UNCHANGED <<current, prior, root>>
           /\ Published' = Published /\ (Missing' <=> Missing)
           /\ Published # NoGen => body'[Published] = body[Published]
<1> USE DEF TypeOK
<1>1. UNCHANGED <<current, prior, root>>
  BY DEF Prune, Cleanup
<1>2. ASSUME NEW m \in {current, prior}
      PROVE  /\ Verified(m)' <=> Verified(m)
             /\ Verified(m) => body'[m] = body[m]
  <2>1. CASE Prune(p)
    BY <2>1 DEF Prune, Verified
  <2>2. CASE Cleanup(p)
    BY <2>2 DEF Cleanup, Verified
  <2> QED BY <2>1, <2>2
<1>3. Published' = Published
  BY <1>1, <1>2 DEF Published
<1>4. Published # NoGen => body'[Published] = body[Published]
  BY <1>2, PublishedIsNamed
<1> QED BY <1>1, <1>3, <1>4 DEF Missing

\* Roots that show what is published go on doing so.
LEMMA SettledKept ==
    ASSUME Settled, ~Corrupt, UNCHANGED root,
           Published' = Published, Missing' <=> Missing,
           Published # NoGen => body'[Published] = body[Published]
    PROVE  Settled'
BY PublishedIsNamed DEF Settled, RootsMirror, Corrupt

\* Without damage the manifests never name only what does not verify.
LEMMA NotCorrupt ==
    ASSUME ReferencedVerifies, damage = 0
    PROVE  ~Corrupt
BY ConstantsAssumption
   DEF ConstantsAssumption, ReferencedVerifies, Corrupt, Missing, Published,
       Verified

\* How the materialization of a generation, or its removal, progresses.
LEMMA OwnRootStep ==
    ASSUME TypeOK, LockInv, StoreInv, damage = 0,
           NEW p \in Procs, RootAt(p), Operation(p)
    PROVE  RootAt(p)'
<1> USE ConstantsAssumption
    DEF ConstantsAssumption, TypeOK, RootAt, Goto, Why, local, disk
<1> DEFINE Quiet == {"down", "idle", "handler", "recover", "repair", "restore",
                     "dropIx", "stage", "candidate", "sealed", "cleanup",
                     "abort", "exit"}
<1>1. CASE pc'[p] \in Quiet
  BY <1>1
<1>2. CASE RecoverGeneration(p) \/ RestoreGeneration(p)
  BY <1>2, SamePublished DEF RecoverGeneration, RestoreGeneration, LockInv
<1>3. CASE Repair(p)
  BY <1>3, SamePublished DEF Repair
<1>4. CASE Mirror(p)
  <2>1. CASE Verified(gen[p])
    BY <2>1, <1>4 DEF Mirror, Verified
  <2>2. CASE ~Verified(gen[p])
    BY <2>2, <1>1, <1>4 DEF Mirror
  <2> QED BY <2>1, <2>2
<1>5. CASE Sidecars(p)
  BY <1>5, SamePublished DEF Sidecars
<1>6. CASE MirrorIx(p)
  BY <1>6, SamePublished DEF MirrorIx
<1>7. CASE MirrorDb(p)
  <2>1. RootsMirror(temp[p])'
    BY <1>7 DEF MirrorDb, RootsMirror
  <2>2. CASE cont[p] = "publish"
    BY <2>1, <2>2, <1>7 DEF MirrorDb, RootsMirror
  <2>3. CASE cont[p] # "publish"
    <3>1. Settled'
      BY <2>1, <2>3, <1>7, SamePublished, PublishedIsNamed
         DEF MirrorDb, RootsMirror, Settled
    <3> QED BY <3>1, <2>3, <1>7 DEF MirrorDb
  <2> QED BY <2>2, <2>3
<1>8. CASE DropIx(p)
  BY <1>8 DEF DropIx
<1>9. CASE DropDb(p)
  <2>1. root' = EmptyRoot
    BY <1>9 DEF DropDb, EmptyRoot
  <2>2. CASE cont[p] \in {"rebuild", "clear", "open", "rebase"}
    BY <2>1, <2>2, <1>9 DEF DropDb
  <2>3. CASE cont[p] \notin {"rebuild", "clear", "open", "rebase"}
    <3>1. Missing'
      BY <2>3, <1>9 DEF DropDb, StoreInv, PlaceAt, MissAt, Missing
    <3> QED BY <2>1, <2>3, <3>1, <1>9 DEF DropDb, Settled
  <2> QED BY <2>2, <2>3
<1>10. CASE DropManifest(p)
  BY <1>10 DEF DropManifest
<1>11. CASE DropGens(p)
  BY <1>11 DEF DropGens, StoreInv, PlaceAt, MissAt, Missing, Settled
<1>12. CASE Unmark(p)
  <2>1. Settled'
    BY <1>12, SamePublished, SettledKept, NotCorrupt DEF Unmark, StoreInv
  <2>2. pc'[p] \in Quiet \cup {"prune"}
    BY <1>12 DEF Unmark, Leave, Raised
  <2> QED BY <2>1, <2>2, <1>1
<1>13. CASE Prune(p)
  <2>1. pc'[p] \in Quiet \cup {"work"}
    BY <1>13 DEF Prune, Leave, StartWork
  <2>2. Published # NoGen => root'.ix = body'[Published].ix
    BY <1>13, RemovalKeepsPublished, PublishedIsNamed
       DEF Prune, Settled, RootsMirror
  <2> QED BY <2>1, <2>2, <1>1, <1>13, RemovalKeepsPublished
<1>14. CASE RepairSkipped(p)
  BY <1>14, SamePublished DEF RepairSkipped, StartWork, RootsMirror
<1>15. CASE MarkDirty(p)
  BY <1>15, SamePublished DEF MarkDirty
<1>16. CASE Mutate(p)
  <2>1. root'.ix = root.ix
    BY <1>16 DEF Mutate
  <2> QED BY <2>1, <1>16, SamePublished DEF Mutate
<1>17. CASE Rotate(p)
  BY <1>17 DEF Rotate, RootsMirror
<1>18. CASE Promote(p)
  <2>1. Published' = gen[p] /\ gen[p] \in Gens
    BY <1>18
       DEF Promote, StoreInv, PlaceAt, GenAt, Publishing, WholeInv, Published,
           Verified
  <2> QED
    BY <2>1, <1>18, PublishedIsNamed
       DEF Promote, Settled, RootsMirror, Missing
<1>19. ASSUME \/ Open(p) \/ BeginTransaction(p) \/ BeginClear(p)
              \/ RecoverClean(p) \/ RecoverRefused(p) \/ RestoreRefused(p)
              \/ FailInRecovery(p) \/ Crash(p) \/ SaveSkipped(p)
              \/ Cleanup(p) \/ FailInBody(p) \/ IndexingFails(p)
              \/ FailInSave(p) \/ RecoverNothing(p) \/ RestoreNothing(p)
              \/ BeginRebuild(p) \/ SaveRefused(p) \/ Stage(p)
              \/ WriteCandidate(p) \/ CandidateRejected(p) \/ Seal(p)
              \/ LeaveTransaction(p) \/ Handler(p)
       PROVE  pc'[p] \in Quiet
  BY <1>19
     DEF Open, BeginTransaction, BeginClear, RecoverClean, RecoverRefused,
         RestoreRefused, FailInRecovery, Crash, SaveSkipped, Cleanup,
         FailInBody, IndexingFails, GiveUp, Leave, Raised, FailInSave,
         RecoverNothing, RestoreNothing, BeginRebuild, SaveRefused, Stage,
         WriteCandidate, CandidateRejected, Seal, LeaveTransaction, Handler
<1> QED
  BY <1>1, <1>2, <1>3, <1>4, <1>5, <1>6, <1>7, <1>8, <1>9, <1>10, <1>11,
     <1>12, <1>13, <1>14, <1>15, <1>16, <1>17, <1>18, <1>19
  DEF Operation, Step, Begin, Fail

\* The others and decay leave that progress alone.
LEMMA RootStep ==
    ASSUME TypeOK, LockInv, Exclusive, StoreInv, damage = 0,
           NEW q \in Procs, RootAt(q), [Next]_vars, ~Decay
    PROVE  RootAt(q)'
<1>1. CASE UNCHANGED vars
  BY <1>1, SamePublished DEF vars, RootAt, RootsMirror, Settled, local, disk
<1>2. CASE Operation(q)
  BY <1>2, OwnRootStep
<1>3. ASSUME NEW p \in Procs, p # q, Operation(p) PROVE RootAt(q)'
  <2>1. CASE Active(q)
    <3>1. ~Active(p)
      BY <1>3, <2>1 DEF Exclusive
    <3> QED
      BY <1>3, <3>1, OthersKeep, IdleKeeps, SamePublished
         DEF RootAt, RootsMirror, Settled
  <2>2. CASE ~Active(q)
    BY <2>2, <1>3, OthersKeep DEF Active, RootAt
  <2> QED BY <2>1, <2>2
<1> QED BY <1>1, <1>2, <1>3 DEF Next, Operation

\* The marker is removed only from roots that show what is published.
LEMMA FaithfulStep ==
    ASSUME TypeOK, StoreInv, MirrorInv, [Next]_vars
    PROVE  MirrorsFaithful'
<1> SUFFICES ASSUME ~marker', damage' = 0 PROVE Settled'
  BY DEF MirrorsFaithful, Settled, Missing, Published, RootsMirror
<1>1. ~Decay /\ damage = 0
  BY Undamaged
<1>2. ~Corrupt
  BY <1>1, NotCorrupt DEF StoreInv
<1>3. ASSUME NEW p \in Procs, Unmark(p) PROVE Settled'
  <2>1. UNCHANGED <<current, prior, dir, body, root>> /\ Settled
    BY <1>1, <1>3 DEF Unmark, MirrorInv, RootAt
  <2> QED BY <2>1, <1>2, SamePublished, SettledKept
<1>4. CASE \A p \in Procs : ~Unmark(p)
  <2>1. ~marker /\ Settled
    BY <1>1, <1>4, TouchMarker DEF MirrorInv, MirrorsFaithful, Settled
  <2>2. \A p \in Procs : ~Unsettled(p)
    BY <2>1 DEF StoreInv, PlaceAt, MarkerAt
  <2>3. root' = root
    BY <1>1, <2>2, TouchRoot
       DEF Unsettled, Sidecars, MirrorIx, MirrorDb, DropIx, DropDb, Mutate
  <2>4. UNCHANGED <<current, prior>>
    BY <1>1, <2>2, TouchRef DEF Unsettled, Rotate, Promote, DropManifest
  <2>5. CASE UNCHANGED <<dir, body>>
    BY <2>1, <2>3, <2>4, <2>5, <1>2, SamePublished, SettledKept
  <2>6. ASSUME NEW p \in Procs, Prune(p) \/ Cleanup(p) PROVE Settled'
    BY <2>1, <2>6, <1>2, RemovalKeepsPublished, SettledKept
  <2> QED
    BY <1>1, <2>2, <2>5, <2>6, TouchDir
       DEF Unsettled, DropGens, WriteCandidate, Seal
<1> QED BY <1>3, <1>4

------------------------------------------------------------------------------
\* The invariant holds of an empty storage directory.
LEMMA InitInv == Init => IInv
<1> SUFFICES ASSUME Init PROVE IInv
  OBVIOUS
<1> USE ConstantsAssumption DEF ConstantsAssumption, Init
<1>1. TypeOK
  BY InitType
<1>2. LockInv /\ WorkInv
  BY DEF LockInv, WorkInv, Active, RollbackLabels, Unbuilt
<1>3. StoreInv
  BY DEF StoreInv, WholeInv, RefsInv, ReferencedVerifies, PlaceAt, GenAt,
         MissAt, MarkerAt, Publishing, Unsettled
<1>4. MirrorInv
  BY DEF MirrorInv, MirrorsFaithful, RootAt, Missing
<1> QED BY <1>1, <1>2, <1>3, <1>4 DEF IInv

\* Every step keeps the invariant while rollbacks are alone.
LEMMA InvStep ==
    ASSUME IInv, RollbackAlone, [Next]_vars
    PROVE  IInv'
<1> USE DEF IInv
<1>1. Exclusive
  BY OneActive
<1>2. TypeOK' /\ LockInv' /\ WorkInv'
  BY <1>1, TypeStep, LockStep, WorkStep
<1>3. StoreInv'
  BY <1>1, WholeStep, RefsStep, ReferencedStep, PlaceStep
     DEF StoreInv, PlaceAt
<1>4. MirrorInv'
  <2>1. ASSUME damage' = 0, NEW q \in Procs PROVE RootAt(q)'
    BY <1>1, <2>1, Undamaged, RootStep DEF MirrorInv
  <2> QED BY <2>1, FaithfulStep DEF MirrorInv
<1> QED BY <1>2, <1>3, <1>4

\* The inductive invariant of the publication protocol.
THEOREM InvariantHolds == Spec /\ []RollbackAlone => []IInv
BY InitInv, InvStep, PTL DEF Spec

\* Every generation a manifest names and verifies holds one working set: the
\* vectors that save_index staged from memory and the databases it staged
\* from the root paths belong together.
THEOREM CommittedWholeHolds == Spec /\ []RollbackAlone => []CommittedWhole
<1>1. IInv => CommittedWhole
  BY DEF IInv, StoreInv, WholeInv, CommittedWhole, Verified
<1> QED BY InvariantHolds, <1>1, PTL

\* Without damage every manifest file verifies at every moment, so that a crash
\* anywhere leaves something to recover from (indexer.py 2242-2343,
\* epoch_manifest.py 214-236).
THEOREM ReferencedVerifiesHolds ==
    Spec /\ []RollbackAlone => []ReferencedVerifies
<1>1. IInv => ReferencedVerifies
  BY DEF IInv, StoreInv
<1> QED BY InvariantHolds, <1>1, PTL

\* Without a marker the roots are the published generation, byte for byte:
\* readers that open the roots read what the manifests name.
THEOREM MirrorsFaithfulHolds == Spec /\ []RollbackAlone => []MirrorsFaithful
<1>1. IInv => MirrorsFaithful
  BY DEF IInv, MirrorInv, MirrorsFaithful
<1> QED BY InvariantHolds, <1>1, PTL

\* Nobody changes a root or the marker under a process that holds the writer
\* lock: what publication_transaction promises (indexer.py 449-455).
THEOREM WriterUndisturbedHolds == Spec /\ []RollbackAlone => WriterUndisturbed
<1> DEFINE A == (/\ holder # Nobody
        /\ holder' = holder /\ pc'[holder] = pc[holder]
        /\ damage' = damage)
       => marker' = marker /\ root' = root
<1>1. ASSUME IInv, RollbackAlone, [Next]_vars PROVE [A]_vars
  <2> SUFFICES ASSUME holder # Nobody, holder' = holder,
                      pc'[holder] = pc[holder], damage' = damage
               PROVE  marker' = marker /\ root' = root
    OBVIOUS
  <2> USE ConstantsAssumption DEF ConstantsAssumption, IInv, TypeOK
  <2>0. TypeOK /\ LockInv
    BY <1>1
  <2>1. holder \in Procs /\ Active(holder)
    BY <1>1 DEF LockInv
  <2>2. CASE UNCHANGED vars \/ Decay
    BY <1>1, <2>2 DEF vars, disk, Decay
  <2>3. ASSUME NEW p \in Procs, Operation(p), p # holder
        PROVE  marker' = marker /\ root' = root
    <3>1. ~Active(p)
      BY <1>1, <2>1, <2>3, OneActive DEF Exclusive
    <3>2. ~BeginClear(p)
      BY DEF BeginClear
    <3> QED BY <2>0, <2>3, <3>1, <3>2
      DEF Operation, Step, Begin, Fail, Active, disk, RecoverClean,
          RecoverGeneration, RecoverNothing, RecoverRefused, RepairSkipped,
          Repair, Sidecars, MirrorIx, MirrorDb, DropIx, DropDb, DropManifest,
          DropGens, Unmark, Prune, MarkDirty, BeginRebuild, Mutate,
          SaveSkipped, SaveRefused, Stage, WriteCandidate, CandidateRejected,
          Seal, Mirror, Rotate, Promote, Cleanup, LeaveTransaction, Handler,
          RestoreGeneration, RestoreNothing, RestoreRefused, Open,
          BeginTransaction, FailInBody, FailInSave, FailInRecovery,
          IndexingFails, Crash, RoutineLabels
  <2>4. CASE Operation(holder)
    BY <2>0, <2>1, <2>4
      DEF Operation, Step, Begin, Fail, Active, disk, Goto, Leave, GiveUp,
          StartWork, Raised, RecoverClean, RecoverGeneration, RecoverNothing,
          RecoverRefused, RepairSkipped, Repair, Sidecars, MirrorIx, MirrorDb,
          DropIx, DropDb, DropManifest, DropGens, Unmark, Prune, MarkDirty,
          BeginRebuild, Mutate, SaveSkipped, SaveRefused, Stage,
          WriteCandidate, CandidateRejected, Seal, Mirror, Rotate, Promote,
          Cleanup, LeaveTransaction, Handler, RestoreGeneration,
          RestoreNothing, RestoreRefused, Open, BeginTransaction, BeginClear,
          FailInBody, FailInSave, FailInRecovery, IndexingFails, Crash,
          RoutineLabels
  <2> QED BY <1>1, <2>1, <2>2, <2>3, <2>4 DEF Next, Operation
<1> QED BY InvariantHolds, <1>1, PTL DEF Spec, WriterUndisturbed

\* The guard of save_index, which only looks at the root mirror, protects the
\* published index.
THEOREM NoSilentTruncationHolds ==
    Spec /\ []RollbackAlone => NoSilentTruncation
<1>1. ASSUME IInv, [Next]_vars PROVE [StagesHalfAtLeast]_vars
  <2> SUFFICES ASSUME NEW p \in Procs, pc[p] = "work", pc'[p] = "stage",
                      cont[p] = "update", damage = 0, Published # NoGen
               PROVE  Size[body[Published].ix] >= 5
                      => 2 * Size[mem[p]] >= Size[body[Published].ix]
    BY DEF StagesHalfAtLeast
  <2> USE <1>1 DEF IInv
  <2>1. Stage(p)
    <3>1. Operation(p)
      <4>1. \E q \in Procs : Operation(q)
        BY DEF Next, Operation, Decay, vars
      <4> QED BY <4>1, OthersKeep
    <3> QED
      BY <3>1
         DEF Operation, Step, Begin, Fail, TypeOK, Goto, Leave, GiveUp,
             StartWork, Raised, Truncates, RecoverClean, RecoverGeneration,
             RecoverNothing, RecoverRefused, RepairSkipped, Repair, Sidecars,
             MirrorIx, MirrorDb, DropIx, DropDb, DropManifest, DropGens,
             Unmark, Prune, MarkDirty, BeginRebuild, Mutate, SaveSkipped,
             SaveRefused, Stage, WriteCandidate, CandidateRejected, Seal,
             Mirror, Rotate, Promote, Cleanup, LeaveTransaction, Handler,
             RestoreGeneration, RestoreNothing, RestoreRefused, Open,
             BeginTransaction, BeginClear, FailInBody, FailInSave,
             FailInRecovery, IndexingFails, Crash
  <2>2. root.ix = body[Published].ix
    BY DEF MirrorInv, RootAt
  <2>3. body[Published].ix \in Vals
    BY PublishedIsNamed DEF StoreInv, WholeInv, Verified
  <2>4. ~Truncates(root.ix, mem[p]) /\ mem[p] \in Vals
    BY <2>1 DEF Stage, TypeOK
  <2>5. Size[body[Published].ix] \in Nat /\ Size[mem[p]] \in Nat
    BY <2>3, <2>4, ConstantsAssumption DEF ConstantsAssumption
  <2> QED
    BY <2>2, <2>3, <2>4, <2>5 DEF Truncates, TruncationGuardMinCount
<1> QED BY InvariantHolds, <1>1, PTL DEF Spec, NoSilentTruncation

-----------------------------------------------------------------------------
(* The refinement: every step leaves the register of AtomicIndex alone or  *)
(* is a step of it.                                                        *)

\* What does not verify is not there.
LEMMA UnverifiedContent == \A m : ~Verified(m) => Content(m) = NoVal
BY DEF Content

\* What verifies is one whole index.
LEMMA VerifiedContent ==
    ASSUME TypeOK, WholeInv, NEW m, Verified(m)
    PROVE  Content(m) = body[m].ix /\ Content(m) \in Vals
BY DEF TypeOK, WholeInv, Verified, Content

\* The register depends on verified generations only.
LEMMA SameContent ==
    ASSUME UNCHANGED <<current, prior>>,
           \A m \in {current, prior} : /\ Verified(m)' <=> Verified(m)
                                       /\ Verified(m) => body'[m] = body[m]
    PROVE  Resolved' = Resolved /\ Fallback' = Fallback
<1>1. Published' = Published
  BY DEF Published
<1>2. \A m \in {current, prior} : Content(m)' = Content(m)
  BY DEF Content
<1>3. Published \in {current, prior, NoGen}
  BY DEF Published
<1>4. Content(NoGen) = NoVal /\ Content(NoGen)' = NoVal
  BY ConstantsAssumption DEF ConstantsAssumption, Content, Verified
<1> QED BY <1>1, <1>2, <1>3, <1>4 DEF Resolved, Fallback

\* A step that leaves the register alone stutters, or starts or ends a reset.
LEMMA QuietStep ==
    ASSUME UNCHANGED <<damage, Resolved, Fallback>>
    PROVE  [Abs!Next]_(Abs!vars)
<1>1. CASE Clearing' <=> Clearing
  BY <1>1 DEF Abs!vars, Resolved, Fallback, Clearing
<1>2. CASE ~(Clearing' <=> Clearing)
  BY <1>2 DEF Abs!Next, Abs!StartOrStopClear, Resolved, Fallback, Clearing
<1> QED BY <1>1, <1>2

\* Building, pruning and removing generations leaves the register alone.
LEMMA DirStep ==
    ASSUME IInv, NEW p \in Procs,
           \/ DropGens(p) \/ Prune(p) \/ WriteCandidate(p) \/ Seal(p)
           \/ Cleanup(p)
    PROVE  UNCHANGED <<damage, Resolved, Fallback>>
<1> USE ConstantsAssumption DEF ConstantsAssumption, IInv, TypeOK
<1>1. UNCHANGED <<current, prior, damage>>
  BY DEF DropGens, Prune, WriteCandidate, Seal, Cleanup
<1>2. ASSUME NEW m \in {current, prior}
      PROVE  /\ Verified(m)' <=> Verified(m)
             /\ Verified(m) => body'[m] = body[m]
  <2>1. CASE DropGens(p)
    <3>1. m \notin Gens
      BY <2>1 DEF DropGens, StoreInv, PlaceAt, MissAt, Missing
    <3> QED BY <3>1 DEF Verified
  <2>2. CASE Prune(p)
    BY <2>2 DEF Prune, Verified
  <2>3. CASE WriteCandidate(p)
    BY <2>3 DEF WriteCandidate, Fresh, Verified
  <2>4. CASE Seal(p)
    <3>1. m # gen[p]
      BY <2>4 DEF Seal, StoreInv, PlaceAt, GenAt, Publishing
    <3>2. body' = body /\ (m \in Gens => dir'[m] = dir[m])
      BY <2>4, <3>1 DEF Seal
    <3> QED BY <3>2 DEF Verified
  <2>5. CASE Cleanup(p)
    BY <2>5 DEF Cleanup, Verified
  <2> QED BY <2>1, <2>2, <2>3, <2>4, <2>5
<1> QED BY <1>1, <1>2, SameContent

\* The first rename of commit_manifest gives up the fallback at most.
LEMMA RotateStep ==
    ASSUME IInv, NEW p \in Procs, Rotate(p)
    PROVE  [Abs!Next]_(Abs!vars)
<1> USE ConstantsAssumption DEF ConstantsAssumption, IInv, TypeOK
<1>1. UNCHANGED <<dir, body, damage>>
  BY DEF Rotate
<1>2. CASE ~Verified(current)
  <2>1. UNCHANGED <<current, prior>>
    BY <1>2 DEF Rotate
  <2> QED BY <1>1, <2>1, SameContent, QuietStep DEF Verified
<1>3. CASE Verified(current)
  <2>1. prior' = current /\ current' = NoGen
    BY <1>3 DEF Rotate
  <2>2. Published = current /\ Published' = current
    BY <1>1, <1>3, <2>1 DEF Published, Verified
  <2>3. Resolved' = Resolved /\ Resolved # NoVal
    <3>1. Content(current) \in Vals
      BY <1>3, VerifiedContent DEF StoreInv
    <3>2. \A m : Content(m)' = Content(m)
      BY <1>1 DEF Content, Verified
    <3> QED BY <2>2, <3>1, <3>2 DEF Resolved
  <2>4. Fallback' = NoVal
    BY <1>3, <2>1, <2>2 DEF Fallback, Verified
  <2>5. Clearing' <=> Clearing
    BY DEF Rotate, Goto, Clearing
  <2> QED
    BY <1>1, <2>3, <2>4, <2>5
    DEF Abs!Next, Abs!Rotate, Abs!Forget, Resolved, Fallback, Clearing
<1> QED BY <1>2, <1>3

\* The second rename of commit_manifest is the commit point: it publishes the
\* new index and keeps the old one as the fallback.
LEMMA PromoteStep ==
    ASSUME IInv, Exclusive, NEW p \in Procs, Promote(p)
    PROVE  [Abs!Next]_(Abs!vars)
<1> USE ConstantsAssumption DEF ConstantsAssumption, IInv, TypeOK
<1> DEFINE g == gen[p]
<1>1. /\ UNCHANGED <<prior, dir, body, damage>>
      /\ current' = g
      /\ g \in Gens \ {current, prior}
      /\ ~Verified(current)
  BY DEF Promote, StoreInv, PlaceAt, GenAt, Publishing
<1>2. \A m : Content(m)' = Content(m) /\ (Verified(m)' <=> Verified(m))
  BY <1>1 DEF Content, Verified
<1> HIDE DEF g
<1>3. Fallback = NoVal /\ Resolved = Content(prior)
  BY <1>1, UnverifiedContent DEF Fallback, Resolved, Published, Verified
<1>4. CASE ~Verified(g)
  <2>1. Published' = Published /\ Published # g
    BY <1>1, <1>2, <1>4 DEF Published
  <2>2. Fallback' = NoVal /\ Resolved' = Resolved
    BY <1>1, <1>2, <2>1 DEF Fallback, Resolved
  <2> QED BY <1>1, <1>3, <2>2, QuietStep
<1>5. CASE Verified(g)
  <2>1. Published' = g
    BY <1>1, <1>2, <1>5 DEF Published
  <2>2. Resolved' = Content(g) /\ Fallback' = Resolved
    BY <1>1, <1>2, <1>3, <2>1 DEF Fallback, Resolved
  <2>3. Content(g) \in Vals
    BY <1>5, VerifiedContent DEF StoreInv
  <2>4. ~Clearing /\ ~Clearing'
    <3>1. ~Clearing
      BY DEF Promote, Exclusive, Active, Clearing
    <3> QED BY <3>1 DEF Promote, Goto, Clearing
  <2> QED
    BY <1>1, <2>2, <2>3, <2>4
    DEF Abs!Next, Abs!Publish, Resolved, Fallback, Clearing
<1> QED BY <1>4, <1>5

\* The removal of the manifests by clear_index empties the register in order.
LEMMA DropManifestStep ==
    ASSUME IInv, NEW p \in Procs, DropManifest(p)
    PROVE  [Abs!Next]_(Abs!vars)
<1> USE ConstantsAssumption DEF ConstantsAssumption, IInv, TypeOK
<1>1. UNCHANGED <<dir, body, damage>>
  BY DEF DropManifest
<1>2. \A m : Content(m)' = Content(m) /\ (Verified(m)' <=> Verified(m))
  BY <1>1 DEF Content, Verified
<1>3. Content(NoGen) = NoVal /\ ~Verified(NoGen)
  BY DEF Content, Verified
<1>4. CASE UNCHANGED <<current, prior>>
  BY <1>1, <1>2, <1>4, SameContent, QuietStep
<1>5. CASE current # NoGen /\ current' = NoGen /\ UNCHANGED <<prior, pc>>
  <2>1. CASE Verified(current)
    <3>1. Resolved' = Fallback /\ Fallback' = NoVal
      BY <1>2, <1>3, <1>5, <2>1, UnverifiedContent
         DEF Resolved, Fallback, Published
    <3> QED
      BY <1>1, <1>5, <3>1
      DEF DropManifest, Abs!Next, Abs!Clear, Abs!Withdraw, Resolved, Fallback,
          Clearing
  <2>2. CASE ~Verified(current)
    <3>1. Resolved' = Resolved /\ Fallback' = Fallback
      BY <1>2, <1>3, <1>5, <2>2, UnverifiedContent
         DEF Resolved, Fallback, Published
    <3> QED BY <1>1, <3>1, QuietStep
  <2> QED BY <2>1, <2>2
<1>6. CASE prior # NoGen /\ prior' = NoGen /\ UNCHANGED <<current, pc>>
  <2>1. CASE Verified(current)
    <3>1. Resolved' = Resolved /\ Fallback' = NoVal /\ Resolved # NoVal
      BY <1>2, <1>3, <1>6, <2>1, VerifiedContent
         DEF Resolved, Fallback, Published, StoreInv
    <3> QED
      BY <1>1, <1>6, <3>1
      DEF Abs!Next, Abs!Rotate, Abs!Forget, Resolved, Fallback, Clearing
  <2>2. CASE ~Verified(current)
    <3>1. Resolved' = NoVal /\ Fallback' = NoVal /\ Fallback = NoVal
      BY <1>2, <1>3, <1>6, <2>2, UnverifiedContent
         DEF Resolved, Fallback, Published
    <3> QED
      BY <1>1, <1>6, <3>1
      DEF DropManifest, Abs!Next, Abs!Clear, Abs!Withdraw, Resolved, Fallback,
          Clearing
  <2> QED BY <2>1, <2>2
<1> QED BY <1>4, <1>5, <1>6 DEF DropManifest

\* A decayed file costs the register one index at most.
LEMMA DecayStep ==
    ASSUME IInv, Decay
    PROVE  [Abs!Next]_(Abs!vars)
<1> USE ConstantsAssumption DEF ConstantsAssumption, IInv, TypeOK
<1>1. damage' = damage + 1 /\ dir' = dir /\ (Clearing' <=> Clearing)
  BY DEF Decay, Clearing
<1> DEFINE Lost == \/ Resolved' = Fallback /\ Fallback' = NoVal
                   \/ /\ Resolved # NoVal /\ Resolved' = Resolved
                      /\ Fallback' = NoVal
                   \/ UNCHANGED <<Resolved, Fallback>>
<1>2. SUFFICES Lost
  BY <1>1
     DEF Abs!Next, Abs!Decay, Abs!Withdraw, Abs!Forget, Resolved, Fallback,
         Clearing
<1>3. CASE UNCHANGED <<current, prior, body>>
  BY <1>1, <1>3, SameContent DEF Verified
<1>4. CASE current \in Gens /\ current' = Garbled /\ UNCHANGED <<prior, body>>
  <2>1. \A m : Content(m)' = Content(m) /\ (Verified(m)' <=> Verified(m))
    BY <1>1, <1>4 DEF Content, Verified
  <2>2. ~Verified(Garbled) /\ ~Verified(NoGen)
    BY DEF Verified
  <2> QED
    BY <1>4, <2>1, <2>2, UnverifiedContent
       DEF Resolved, Fallback, Published
<1>5. CASE prior \in Gens /\ prior' = Garbled /\ UNCHANGED <<current, body>>
  <2>1. \A m : Content(m)' = Content(m) /\ (Verified(m)' <=> Verified(m))
    BY <1>1, <1>5 DEF Content, Verified
  <2>2. ~Verified(Garbled) /\ ~Verified(NoGen)
    BY DEF Verified
  <2>3. Verified(current) => Content(current) # NoVal
    BY VerifiedContent DEF StoreInv
  <2> QED
    BY <1>5, <2>1, <2>2, <2>3, UnverifiedContent
       DEF Resolved, Fallback, Published
<1>6. ASSUME NEW g \in Gens, body' = [body EXCEPT ![g].ix = Bad],
             UNCHANGED <<current, prior>>
      PROVE  Lost
  <2>1. ~Verified(g)'
    BY <1>6 DEF Verified
  <2>2. \A m : m # g => /\ Content(m)' = Content(m)
                        /\ Verified(m)' <=> Verified(m)
    BY <1>1, <1>6 DEF Content, Verified
  <2>3. Content(g)' = NoVal
    BY <2>1 DEF Content
  <2>4. Verified(current) => Content(current) # NoVal
    BY VerifiedContent DEF StoreInv
  <2>5. ~Verified(NoGen) /\ ~Verified(NoGen)' /\ NoGen # g
    BY DEF Verified
  <2>6. Verified(current) => current # prior
    BY DEF Verified, StoreInv, RefsInv
  <2> QED
    BY <1>6, <2>1, <2>2, <2>3, <2>4, <2>5, <2>6, UnverifiedContent
       DEF Resolved, Fallback, Published
<1> QED BY <1>3, <1>4, <1>5, <1>6 DEF Decay

\* Manifest-based publication is an atomic register with a fallback: a reader
\* that resolves manifest/current.json and manifest/prior.json sees whole
\* published indexes only, in the order of their publication, however many
\* crashes, failed saves and rollbacks happen in between (save_index,
\* commit_manifest, read_with_fallback, recovery, clear_index).
THEOREM Refines == Spec /\ []RollbackAlone => AtomicPublication
<1>1. Init => Abs!Init
  BY ConstantsAssumption
     DEF ConstantsAssumption, Init, Abs!Init, Resolved, Fallback, Clearing,
         Content, Published, Verified
<1>2. ASSUME IInv, RollbackAlone, [Next]_vars PROVE [Abs!Next]_(Abs!vars)
  <2>1. Exclusive
    BY <1>2, OneActive DEF IInv
  <2>2. CASE Decay
    BY <1>2, <2>2, DecayStep
  <2>3. ASSUME NEW p \in Procs, Rotate(p) \/ Promote(p) \/ DropManifest(p)
        PROVE  [Abs!Next]_(Abs!vars)
    BY <1>2, <2>1, <2>3, RotateStep, PromoteStep, DropManifestStep
  <2>4. ASSUME NEW p \in Procs,
               \/ DropGens(p) \/ Prune(p) \/ WriteCandidate(p) \/ Seal(p)
           \/ Cleanup(p)
        PROVE  [Abs!Next]_(Abs!vars)
    BY <1>2, <2>4, DirStep, QuietStep
  <2>5. CASE UNCHANGED <<current, prior, dir, body>> /\ ~Decay
    <3>1. damage' = damage
      BY <1>2, <2>5, Undecayed DEF IInv
    <3> QED BY <2>5, <3>1, SameContent, QuietStep DEF Verified
  <2> QED BY <1>2, <2>2, <2>3, <2>4, <2>5, TouchDir, TouchRef
<1> QED
  BY <1>1, <1>2, InvariantHolds, PTL
     DEF Spec, AtomicPublication, Abs!Spec
==============================================================================
