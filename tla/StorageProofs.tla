---------------------------- MODULE StorageProofs ----------------------------
(***************************************************************************)
(* Proofs about what stores indexes: the writer lock of an index directory *)
(* (WriterLock), and the directories of projects and providers             *)
(* (ProjectStorage).  The two specifications share nothing but this file.  *)
(***************************************************************************)
EXTENDS WriterLockInvariant, ProjectStorage, SequenceTheorems,
        WellFoundedInduction, TLAPS

-----------------------------------------------------------------------------
(***************************************************************************)
(* WriterLock: safety for any numbers of processes, threads and files.     *)
(***************************************************************************)

\* The list of contexts without its last entry.
LEMMA PopKeeps ==
    ASSUME NEW s \in Seq(BOOLEAN), s # <<>>
    PROVE  /\ SubSeq(s, 1, Len(s) - 1) \in Seq(BOOLEAN)
           /\ Len(SubSeq(s, 1, Len(s) - 1)) = Len(s) - 1
           /\ \A i \in 1..(Len(s) - 1) : SubSeq(s, 1, Len(s) - 1)[i] = s[i]
<1>1. Len(s) \in Nat /\ Len(s) > 0 /\ \A i \in 1..Len(s) : s[i] \in BOOLEAN
  BY EmptySeq, LenProperties
<1>2. \A i \in 1..(Len(s) - 1) : s[i] \in BOOLEAN
  BY <1>1
<1>3. Len(s) - 1 \in Int /\ 1 \in Int
  BY <1>1
<1> DEFINE n == Len(s) - 1
<1>4. /\ SubSeq(s, 1, n) \in Seq(BOOLEAN)
      /\ Len(SubSeq(s, 1, n)) = IF 1 <= n THEN n - 1 + 1 ELSE 0
      /\ \A i \in 1 .. n - 1 + 1 : SubSeq(s, 1, n)[i] = s[1 + i - 1]
  <2> HIDE DEF n
  <2> QED BY <1>2, <1>3, SubSeqProperties DEF n
<1>5. n \in Nat
  BY <1>1
<1> HIDE DEF n
<1>6. Len(SubSeq(s, 1, n)) = n /\ 1 .. n - 1 + 1 = 1 .. n
  BY <1>4, <1>5
<1>7. \A i \in 1 .. n : SubSeq(s, 1, n)[i] = s[i]
  BY <1>4, <1>5, <1>6
<1> QED BY <1>4, <1>6, <1>7 DEF n

FilesTypeOK == sharers \in [Opens -> SUBSET Procs] /\ locked \in Opens \cup {Nil}

ObjectTypeOK ==
    /\ mine \in [Procs -> BOOLEAN]
    /\ mutex \in [Procs -> [by : Threads \cup {Nil}, count : Nat]]
    /\ depth \in [Procs -> Nat]
    /\ owner \in [Procs -> Threads \cup {Nil}]
    /\ handle \in [Procs -> Opens \cup {Nil}]

\* Closing and unlocking keep the types of the files.
LEMMA CloseType ==
    ASSUME LockTypeOK, NEW p \in Procs, NEW d \in Opens \cup {Nil},
           Close(p, d) \/ (d # Nil /\ Unlock(p, d))
    PROVE  FilesTypeOK'
<1>1. CASE d # Nil /\ Unlock(p, d)
  BY <1>1, LockConstants DEF LockConstants, LockTypeOK, FilesTypeOK, Unlock
<1>2. CASE Close(p, d)
  <2>1. sharers' \in [Opens -> SUBSET Procs]
    BY <1>2 DEF LockTypeOK, Close
  <2>2. locked' \in {Nil, locked}
    BY <1>2 DEF Close
  <2> QED BY <2>1, <2>2 DEF LockTypeOK, FilesTypeOK
<1> QED BY <1>1, <1>2

\* So do resetting the object and the operations on the thread lock.
LEMMA ObjectType ==
    ASSUME LockTypeOK
    PROVE  /\ \A p \in Procs : ResetObject(p) => ObjectTypeOK'
           /\ \A p \in Procs, t \in Threads :
                /\ Taken(mutex[p], t) \in [by : Threads \cup {Nil}, count : Nat]
                /\ Given(mutex[p]) \in [by : Threads \cup {Nil}, count : Nat]
<1>1. Unlocked \in [by : Threads \cup {Nil}, count : Nat]
  BY DEF Unlocked
<1>2. ASSUME NEW p \in Procs, ResetObject(p) PROVE ObjectTypeOK'
  BY <1>1, <1>2 DEF LockTypeOK, ObjectTypeOK, ResetObject
<1>3. ASSUME NEW p \in Procs, NEW t \in Threads
      PROVE  /\ Taken(mutex[p], t) \in [by : Threads \cup {Nil}, count : Nat]
             /\ Given(mutex[p]) \in [by : Threads \cup {Nil}, count : Nat]
  <2>1. mutex[p] \in [by : Threads \cup {Nil}, count : Nat]
    BY DEF LockTypeOK
  <2>2. mutex[p].by \in Threads \cup {Nil} /\ mutex[p].count \in Nat
    BY <2>1
  <2>3. Taken(mutex[p], t) \in [by : Threads \cup {Nil}, count : Nat]
    BY <2>2 DEF Taken
  <2>4. CASE mutex[p].count > 1
    <3>1. [mutex[p] EXCEPT !.count = @ - 1]
          = [by |-> mutex[p].by, count |-> mutex[p].count - 1]
      BY <2>1
    <3>2. mutex[p].count - 1 \in Nat
      BY <2>2, <2>4
    <3>3. Given(mutex[p]) = [by |-> mutex[p].by, count |-> mutex[p].count - 1]
      BY <2>4, <3>1 DEF Given
    <3> QED BY <2>2, <2>3, <3>2, <3>3
  <2>5. CASE ~(mutex[p].count > 1)
    BY <1>1, <2>3, <2>5 DEF Given
  <2> QED BY <2>4, <2>5
<1> QED BY <1>2, <1>3

\* The types hold initially.
LEMMA InitLockType == LockInit => LockTypeOK
<1>1. <<>> \in Seq(BOOLEAN)
  BY EmptySeq
<1>2. [p \in Procs |-> <<>>] \in [Procs -> Seq(BOOLEAN)]
  BY <1>1
<1>3. [by |-> Nil, count |-> 0] \in [by : Threads \cup {Nil}, count : Nat]
  OBVIOUS
<1> QED BY <1>2, <1>3, LockConstants DEF LockConstants, LockInit, LockTypeOK, Unlocked

\* Entering a block keeps the types.
LEMMA EnteringType ==
    ASSUME LockTypeOK, NEW p \in Procs, NEW t \in Threads,
           Enter(p, t) \/ Reset(p, t) \/ TakeThreadLock(p, t)
           \/ TakeFileLock(p, t) \/ TakeAgain(p, t) \/ AcquireFails(p, t)
    PROVE  LockTypeOK'
<1> USE DEF LockTypeOK
<1>1. CASE Enter(p, t)
  BY <1>1 DEF Enter, Goto, object, blocks, files
<1>2. CASE Reset(p, t)
  <2>1. FilesTypeOK'
    BY <1>2, CloseType DEF Reset
  <2>2. ObjectTypeOK'
    BY <1>2, ObjectType DEF Reset
  <2>3. pc' \in [Procs -> [Threads -> {"run", "reset", "lock", "flock",
                                       "resetOnExit", "stuck"}]]
    BY <1>2 DEF Reset, AfterReset
  <2> QED BY <1>2, <2>1, <2>2, <2>3 DEF Reset, FilesTypeOK, ObjectTypeOK, blocks
<1>3. CASE TakeThreadLock(p, t)
  BY <1>3, ObjectType DEF TakeThreadLock, Goto, blocks
<1>4. \A s \in Seq(BOOLEAN) : Append(s, TRUE) \in Seq(BOOLEAN)
  BY AppendProperties
<1>5. CASE TakeFileLock(p, t)
  <2>1. opened[p][t] \in Opens \cup {Nil}
    OBVIOUS
  <2> QED BY <1>4, <1>5, <2>1 DEF TakeFileLock, EnterBlock, Goto
<1>6. CASE TakeAgain(p, t)
  <2>1. CASE owner[p] = t
    <3>1. /\ EnterBlock(p, t)
          /\ mutex' = [mutex EXCEPT ![p] = Taken(@, t)]
      BY <1>6, <2>1 DEF TakeAgain
    <3>2. mutex' \in [Procs -> [by : Threads \cup {Nil}, count : Nat]]
      BY <3>1, ObjectType
    <3>3. pids' \in [Procs -> Seq(BOOLEAN)]
      BY <1>4, <3>1 DEF EnterBlock
    <3>4. depth' \in [Procs -> Nat] /\ own' \in [Procs -> [Threads -> Nat]]
      BY <3>1 DEF EnterBlock
    <3> QED BY <1>6, <3>2, <3>3, <3>4 DEF TakeAgain, Goto, files
  <2>2. CASE owner[p] # t
    BY <1>6, <2>2 DEF TakeAgain, Goto, files
  <2> QED BY <2>1, <2>2
<1>7. CASE AcquireFails(p, t)
  <2>1. FilesTypeOK'
    BY <1>7, CloseType DEF AcquireFails
  <2> QED BY <1>7, <2>1, ObjectType, LockConstants
          DEF AcquireFails, Goto, FilesTypeOK, blocks, LockConstants
<1> QED BY <1>1, <1>2, <1>3, <1>5, <1>6, <1>7

\* Leaving a block keeps the types.
LEMMA LeavingType ==
    ASSUME LockTypeOK, NEW p \in Procs, NEW t \in Threads, Release(p, t)
    PROVE  LockTypeOK'
<1> USE DEF LockTypeOK
<1>1. own' \in [Procs -> [Threads -> Nat]]
      /\ inherited' \in [Procs -> [Threads -> Nat]]
  <2>1. LeaveBlock(p, t) /\ own[p][t] + inherited[p][t] > 0
    BY DEF Release, Exit, ExitInherited, ExitRaises, Leaving
  <2>2. own[p][t] \in Nat /\ inherited[p][t] \in Nat
    OBVIOUS
  <2>3. CASE own[p][t] > 0
    <3>1. own' = [own EXCEPT ![p][t] = @ - 1] /\ inherited' = inherited
      BY <2>1, <2>3 DEF LeaveBlock
    <3>2. own[p][t] - 1 \in Nat
      BY <2>2, <2>3
    <3> QED BY <3>1, <3>2
  <2>4. CASE ~(own[p][t] > 0)
    <3>1. inherited[p][t] - 1 \in Nat
      BY <2>1, <2>2, <2>4
    <3>2. inherited' = [inherited EXCEPT ![p][t] = @ - 1] /\ own' = own
      BY <2>1, <2>4 DEF LeaveBlock
    <3> QED BY <3>1, <3>2
  <2> QED BY <2>3, <2>4
<1>2. pids' \in [Procs -> Seq(BOOLEAN)]
  <2>1. \A s \in Seq(BOOLEAN) :
          s # <<>> => SubSeq(s, 1, Len(s) - 1) \in Seq(BOOLEAN)
    BY PopKeeps
  <2>2. CASE pids[p] = <<>>
    BY <2>2 DEF Release, Exit, ExitInherited, ExitRaises
  <2>3. CASE pids[p] # <<>>
    <3>1. PopPid(p)
      BY <2>3 DEF Release, Exit, ExitInherited, ExitRaises
    <3> QED BY <2>1, <2>3, <3>1 DEF PopPid
  <2> QED BY <2>2, <2>3
<1>3. CASE Exit(p, t)
  <2>1. FilesTypeOK' /\ owner' \in [Procs -> Threads \cup {Nil}]
        /\ handle' \in [Procs -> Opens \cup {Nil}]
    <3>1. CASE depth[p] = 1
      BY <1>3, <3>1, CloseType DEF Exit, LetGo, Owns
    <3>2. CASE depth[p] # 1
      BY <1>3, <3>2 DEF Exit, FilesTypeOK, files
    <3> QED BY <3>1, <3>2
  <2>2. depth' \in [Procs -> Nat]
    BY <1>3 DEF Exit, Owns
  <2> QED BY <1>1, <1>2, <1>3, <2>1, <2>2, ObjectType DEF Exit, FilesTypeOK
<1>4. CASE ExitInherited(p, t)
  BY <1>1, <1>2, <1>4 DEF ExitInherited, Goto, object, files
<1>5. CASE ExitRaises(p, t)
  BY <1>1, <1>2, <1>5 DEF ExitRaises, object, files
<1> QED BY <1>3, <1>4, <1>5 DEF Release

\* New threads, forks and deaths keep the types.
LEMMA SystemType ==
    ASSUME LockTypeOK, NEW p \in Procs,
           \/ Crash(p)
           \/ \E t \in Threads : Spawn(p, t) \/ \E c \in Procs : Fork(p, t, c)
    PROVE  LockTypeOK'
<1> USE DEF LockTypeOK
<1>1. CASE Crash(p)
  <2>1. ObjectTypeOK'
    BY <1>1, ObjectType DEF Crash
  <2>2. FilesTypeOK'
    <3>1. sharers' \in [Opens -> SUBSET Procs] /\ locked' \in {Nil, locked}
      BY <1>1 DEF Crash
    <3> QED BY <3>1 DEF FilesTypeOK
  <2> QED BY <1>1, <2>1, <2>2, LockConstants, EmptySeq
          DEF Crash, ObjectTypeOK, FilesTypeOK, LockConstants
<1>2. ASSUME NEW t \in Threads, Spawn(p, t) PROVE LockTypeOK'
  BY <1>2 DEF Spawn, object, blocks, files
<1>3. ASSUME NEW t \in Threads, NEW c \in Procs, Fork(p, t, c)
      PROVE  LockTypeOK'
  <2>1. \A n \in Nat : [i \in 1..n |-> FALSE] \in Seq(BOOLEAN)
    OBVIOUS
  <2>2. Len(pids[p]) \in Nat
    BY LenProperties
  <2>3. pids' \in [Procs -> Seq(BOOLEAN)]
    BY <1>3, <2>1, <2>2 DEF Fork
  <2>4. ObjectTypeOK'
    BY <1>3 DEF Fork, ObjectTypeOK
  <2>5. sharers' \in [Opens -> SUBSET Procs]
    BY <1>3 DEF Fork
  <2>6. inherited' \in [Procs -> [Threads -> Nat]]
    BY <1>3 DEF Fork
  <2>7. threads' \in [Procs -> SUBSET Threads]
    BY <1>3 DEF Fork
  <2> HIDE DEF LockTypeOK
  <2>8. /\ pc' = pc /\ opened' = opened /\ own' = own /\ locked' = locked
    BY <1>3 DEF Fork
  <2> QED BY <2>3, <2>4, <2>5, <2>6, <2>7, <2>8 DEF ObjectTypeOK, LockTypeOK
<1> QED BY <1>1, <1>2, <1>3

\* The types are inductive.
LEMMA LockTypeStep == LockTypeOK /\ [LockNext]_lockVars => LockTypeOK'
<1> SUFFICES ASSUME LockTypeOK, [LockNext]_lockVars PROVE LockTypeOK' OBVIOUS
<1>1. CASE UNCHANGED lockVars
  BY <1>1 DEF LockTypeOK, lockVars, object, blocks, files
<1>2. CASE LockNext
  BY <1>2, EnteringType, LeavingType, SystemType DEF LockNext, Proceed
<1> QED BY <1>1, <1>2

\* Type correctness of the lock objects, contexts and files (indexer.py
\* 191-333), whatever is forked, fails or dies.
THEOREM LockTypeCorrect == LockSpec => []LockTypeOK
<1>1. LockInit => LockTypeOK
  BY InitLockType
<1>2. LockTypeOK /\ [LockNext]_lockVars => LockTypeOK'
  BY LockTypeStep
<1> QED BY <1>1, <1>2, PTL DEF LockSpec
------------------------------------------------------------------------------
(***************************************************************************)
(* The files: no lock of another process is ever ended.                    *)
(***************************************************************************)
\* How leaving a block changes the counts of blocks.
LEMMA LeaveCounts ==
    ASSUME LockTypeOK, NEW p \in Procs, NEW t \in Threads, Release(p, t)
    PROVE  /\ own' = [own EXCEPT ![p][t] = IF own[p][t] > 0 THEN @ - 1 ELSE @]
           /\ t \in threads[p] /\ pc[p][t] = "run"
<1>1. LeaveBlock(p, t) /\ t \in threads[p] /\ pc[p][t] = "run"
  BY DEF Release, Exit, ExitInherited, ExitRaises, Leaving
<1>2. own \in [Procs -> [Threads -> Nat]]
  BY DEF LockTypeOK
<1>3. CASE own[p][t] > 0
  BY <1>1, <1>3 DEF LeaveBlock
<1>4. CASE ~(own[p][t] > 0)
  BY <1>1, <1>2, <1>4 DEF LeaveBlock
<1> QED BY <1>1, <1>3, <1>4

\* Threads on their way to the lock exist, in processes that have reset.
LEMMA PlaceStep ==
    ASSUME LockTypeOK, PlaceInv, [LockNext]_lockVars
    PROVE  PlaceInv'
<1> USE DEF PlaceInv
<1>1. CASE UNCHANGED lockVars
  BY <1>1 DEF lockVars, object, blocks, files
<1>2. ASSUME NEW p \in Procs, NEW t \in Threads,
             Enter(p, t) \/ Reset(p, t)
      PROVE  PlaceInv'
  <2>1. CASE Enter(p, t)
    BY <2>1 DEF LockTypeOK, Enter, Goto, object, blocks, files
  <2>2. CASE Reset(p, t)
    BY <2>2 DEF LockTypeOK, Reset, AfterReset, ResetObject, blocks
  <2> QED BY <1>2, <2>1, <2>2
<1>3. ASSUME NEW p \in Procs, NEW t \in Threads,
             \/ TakeThreadLock(p, t) \/ TakeFileLock(p, t)
             \/ TakeAgain(p, t) \/ AcquireFails(p, t)
      PROVE  PlaceInv'
  <2>1. t \in threads[p]
    BY <1>3 DEF TakeThreadLock, TakeFileLock, TakeAgain, AcquireFails
  <2>2. CASE TakeThreadLock(p, t)
    <3>1. PICK d \in Opens : opened' = [opened EXCEPT ![p][t] = d]
      BY <2>2 DEF TakeThreadLock
    <3>2. /\ threads' = threads /\ mine' = mine /\ own' = own
          /\ pc[p][t] = "lock" /\ pc' = [pc EXCEPT ![p][t] = "flock"]
      BY <2>2 DEF TakeThreadLock, Goto, blocks
    <3>3. d # Nil
      BY LockConstants DEF LockConstants
    <3> QED BY <2>1, <3>1, <3>2, <3>3 DEF LockTypeOK
  <2>3. CASE TakeFileLock(p, t)
    BY <2>1, <2>3 DEF LockTypeOK, TakeFileLock, EnterBlock, Goto
  <2>4. CASE TakeAgain(p, t)
    <3>1. \/ own' = [own EXCEPT ![p][t] = @ + 1]
          \/ own' = own
      BY <2>4 DEF TakeAgain, EnterBlock
    <3> QED BY <2>1, <2>4, <3>1 DEF LockTypeOK, TakeAgain, Goto
  <2>5. CASE AcquireFails(p, t)
    BY <2>1, <2>5 DEF LockTypeOK, AcquireFails, Goto, blocks
  <2> QED BY <1>3, <2>2, <2>3, <2>4, <2>5
<1>4. ASSUME NEW p \in Procs, NEW t \in Threads, Release(p, t)
      PROVE  PlaceInv'
  <2>1. /\ own' = [own EXCEPT ![p][t] = IF own[p][t] > 0 THEN @ - 1 ELSE @]
        /\ t \in threads[p] /\ pc[p][t] = "run"
    BY <1>4, LeaveCounts
  <2>2. \/ pc' = pc
        \/ pc' = [pc EXCEPT ![p][t] = "run"]
        \/ pc' = [pc EXCEPT ![p][t] = "resetOnExit"]
    BY <1>4 DEF Release, Exit, ExitInherited, ExitRaises, Goto
  <2>3. threads' = threads /\ mine' = mine /\ opened' = opened
    BY <1>4 DEF Release, Exit, ExitInherited, ExitRaises, object
  <2> QED BY <2>1, <2>2, <2>3 DEF LockTypeOK
<1>5. ASSUME NEW p \in Procs, NEW t \in Threads,
             Spawn(p, t) \/ \E c \in Procs : Fork(p, t, c)
      PROVE  PlaceInv'
  <2>1. CASE Spawn(p, t)
    BY <2>1 DEF LockTypeOK, Spawn, object, blocks, files
  <2>2. ASSUME NEW c \in Procs, Fork(p, t, c) PROVE PlaceInv'
    BY <2>2 DEF LockTypeOK, Fork
  <2> QED BY <1>5, <2>1, <2>2
<1>6. ASSUME NEW p \in Procs, Crash(p) PROVE PlaceInv'
  BY <1>6 DEF LockTypeOK, Crash, ResetObject
<1> QED BY <1>1, <1>2, <1>3, <1>4, <1>5, <1>6 DEF LockNext, Proceed

\* Contexts note the process that entered them.
LEMMA PidStep ==
    ASSUME LockTypeOK, PlaceInv, PidInv, [LockNext]_lockVars
    PROVE  PidInv'
<1> USE DEF PidInv
<1> DEFINE Mine(s, b) == \A i \in 1..Len(s) : s[i] => b
<1>1. \A p \in Procs : Mine(pids[p], mine[p])
  OBVIOUS
<1>2. ASSUME NEW s \in Seq(BOOLEAN) PROVE Mine(Append(s, TRUE), TRUE)
  BY AppendProperties
<1>3. ASSUME NEW s \in Seq(BOOLEAN), s # <<>>, NEW b \in BOOLEAN, Mine(s, b)
      PROVE  Mine(SubSeq(s, 1, Len(s) - 1), b)
  <2>1. Len(s) \in Nat
    BY LenProperties
  <2> QED BY <1>3, <2>1, PopKeeps
<1>4. \A n \in Nat : Mine([i \in 1..n |-> FALSE], FALSE)
  OBVIOUS
<1>5. Mine(<<>>, TRUE)
  OBVIOUS
<1> HIDE DEF Mine
<1> SUFFICES ASSUME NEW q \in Procs PROVE Mine(pids'[q], mine'[q])
  BY DEF Mine
<1>6. mine[q] \in BOOLEAN /\ pids[q] \in Seq(BOOLEAN) /\ Len(pids[q]) \in Nat
  BY LenProperties DEF LockTypeOK
<1>7. ASSUME pids'[q] = pids[q], mine'[q] \in {mine[q], TRUE}
      PROVE  Mine(pids'[q], mine'[q])
  BY <1>1, <1>7 DEF Mine
<1>8. CASE UNCHANGED lockVars
  BY <1>7, <1>8 DEF lockVars, object
<1>9. ASSUME NEW p \in Procs, NEW t \in Threads,
             \/ TakeFileLock(p, t) \/ TakeAgain(p, t)
      PROVE  Mine(pids'[q], mine'[q])
  <2>1. mine' = mine /\ mine[p]
    BY <1>9 DEF PlaceInv, TakeFileLock, TakeAgain
  <2>2. pids' = pids \/ pids' = [pids EXCEPT ![p] = Append(@, TRUE)]
    BY <1>9 DEF TakeFileLock, TakeAgain, EnterBlock
  <2>3. CASE p = q /\ pids' # pids
    <3>1. pids'[q] = Append(pids[q], TRUE) /\ mine'[q] = TRUE
      BY <2>1, <2>2, <2>3 DEF LockTypeOK
    <3> QED BY <1>2, <1>6, <3>1
  <2>4. CASE ~(p = q /\ pids' # pids)
    BY <1>7, <2>1, <2>2, <2>4 DEF LockTypeOK
  <2> QED BY <2>3, <2>4
<1>10. ASSUME NEW p \in Procs, NEW t \in Threads, Release(p, t)
       PROVE  Mine(pids'[q], mine'[q])
  <2>1. mine' = mine
    BY <1>10 DEF Release, Exit, ExitInherited, ExitRaises, object
  <2>2. pids' = pids \/ (pids[p] # <<>> /\ PopPid(p))
    BY <1>10 DEF Release, Exit, ExitInherited, ExitRaises
  <2>3. CASE p = q /\ pids' # pids
    <3>1. /\ pids[q] # <<>> /\ mine'[q] = mine[q]
          /\ pids'[q] = SubSeq(pids[q], 1, Len(pids[q]) - 1)
      BY <2>1, <2>2, <2>3 DEF LockTypeOK, PopPid
    <3> QED BY <1>1, <1>3, <1>6, <3>1
  <2>4. CASE ~(p = q /\ pids' # pids)
    BY <1>7, <2>1, <2>2, <2>4 DEF LockTypeOK, PopPid
  <2> QED BY <2>3, <2>4
<1>11. ASSUME NEW p \in Procs, NEW t \in Threads, NEW c \in Procs, Fork(p, t, c)
       PROVE  Mine(pids'[q], mine'[q])
  <2>1. CASE q = c
    <3>1. Len(pids[p]) \in Nat
      BY LenProperties DEF LockTypeOK
    <3> QED BY <1>4, <1>11, <2>1, <3>1 DEF LockTypeOK, Fork
  <2>2. CASE q # c
    BY <1>7, <1>11, <2>2 DEF LockTypeOK, Fork
  <2> QED BY <2>1, <2>2
<1>12. ASSUME NEW p \in Procs, Crash(p) PROVE Mine(pids'[q], mine'[q])
  <2>1. CASE p = q
    BY <1>5, <1>12, <2>1 DEF LockTypeOK, Crash, ResetObject
  <2>2. CASE p # q
    BY <1>7, <1>12, <2>2 DEF LockTypeOK, Crash, ResetObject
  <2> QED BY <2>1, <2>2
<1>13. ASSUME NEW p \in Procs, NEW t \in Threads,
              \/ Enter(p, t) \/ Reset(p, t) \/ TakeThreadLock(p, t)
              \/ AcquireFails(p, t) \/ Spawn(p, t)
       PROVE  Mine(pids'[q], mine'[q])
  <2>1. pids' = pids /\ (mine' = mine \/ mine' = [mine EXCEPT ![p] = TRUE])
    BY <1>13 DEF Enter, Reset, TakeThreadLock, AcquireFails, Spawn, object,
                 ResetObject
  <2> QED BY <1>7, <2>1 DEF LockTypeOK
<1> QED BY <1>8, <1>9, <1>10, <1>11, <1>12, <1>13 DEF LockNext, Proceed

\* Processes share what they have handles of.
LEMMA SharedStep ==
    ASSUME LockTypeOK, PlaceInv, PidInv, SharedInv, DistinctInv, [LockNext]_lockVars
    PROVE  SharedInv'
<1> USE DEF SharedInv
<1>1. CASE UNCHANGED <<handle, opened, sharers>>
  BY <1>1
<1>2. ASSUME NEW p \in Procs, NEW t \in Threads, Reset(p, t)
      PROVE  SharedInv'
  <2>1. ASSUME handle[p] # Nil, NEW u \in Threads
        PROVE  opened[p][u] # handle[p]
    <3>1. CASE mine[p]
      BY <2>1, <3>1 DEF DistinctInv
    <3>2. CASE ~mine[p]
      BY <2>1, <3>2 DEF PlaceInv
    <3> QED BY <3>1, <3>2
  <2>2. handle' = [handle EXCEPT ![p] = Nil] /\ opened' = opened
    BY <1>2 DEF Reset, ResetObject
  <2>3. sharers' = IF handle[p] = Nil THEN sharers
                   ELSE [sharers EXCEPT ![handle[p]] = @ \ {p}]
    BY <1>2 DEF Reset, Close
  <2> QED BY <2>1, <2>2, <2>3 DEF LockTypeOK
<1>3. ASSUME NEW p \in Procs, NEW t \in Threads, TakeThreadLock(p, t)
      PROVE  SharedInv'
  BY <1>3 DEF LockTypeOK, TakeThreadLock
<1>4. ASSUME NEW p \in Procs, NEW t \in Threads, TakeFileLock(p, t)
      PROVE  SharedInv'
  BY <1>4 DEF LockTypeOK, TakeFileLock
<1>5. ASSUME NEW p \in Procs, NEW t \in Threads, AcquireFails(p, t)
      PROVE  SharedInv'
  <2>1. mine[p] /\ opened[p][t] # Nil
    BY <1>5 DEF PlaceInv, AcquireFails
  <2>2. /\ handle[p] # opened[p][t]
        /\ \A u \in Threads : u # t => opened[p][u] # opened[p][t]
    BY <2>1 DEF DistinctInv
  <2>3. /\ handle' = handle /\ opened' = [opened EXCEPT ![p][t] = Nil]
        /\ sharers' = [sharers EXCEPT ![opened[p][t]] = @ \ {p}]
    BY <1>5, <2>1 DEF AcquireFails, Close
  <2> QED BY <2>1, <2>2, <2>3 DEF LockTypeOK
<1>6. ASSUME NEW p \in Procs, NEW t \in Threads, Release(p, t)
      PROVE  SharedInv'
  <2>1. CASE Exit(p, t) /\ depth[p] = 1
    <3>1. /\ handle[p] # Nil /\ opened' = opened
          /\ handle' = [handle EXCEPT ![p] = Nil]
          /\ sharers' = [sharers EXCEPT ![handle[p]] = @ \ {p}]
      BY <2>1 DEF Exit, LetGo, Unlock, Owns
    <3>2. mine[p]
      <4>1. Len(pids[p]) \in Nat \ {0}
        BY <2>1, EmptySeq DEF Exit, LockTypeOK
      <4> QED BY <2>1, <4>1 DEF Exit, LastPid, PidInv
    <3>3. \A u \in Threads : opened[p][u] # handle[p]
      BY <3>1, <3>2 DEF DistinctInv
    <3> QED BY <3>1, <3>3 DEF LockTypeOK
  <2>2. CASE ~(Exit(p, t) /\ depth[p] = 1)
    <3>1. UNCHANGED <<handle, opened, sharers>>
      BY <1>6, <2>2 DEF Release, Exit, ExitInherited, ExitRaises, object, files
    <3> QED BY <1>1, <3>1
  <2> QED BY <2>1, <2>2
<1>7. ASSUME NEW p \in Procs, NEW t \in Threads, NEW c \in Procs, Fork(p, t, c)
      PROVE  SharedInv'
  <2>1. \A u \in Threads : opened[c][u] = Nil
    BY <1>7 DEF PlaceInv, Fork
  <2> QED BY <1>7, <2>1 DEF LockTypeOK, Fork
<1>8. ASSUME NEW p \in Procs, Crash(p) PROVE SharedInv'
  BY <1>8 DEF LockTypeOK, Crash, ResetObject
<1>9. ASSUME NEW p \in Procs, NEW t \in Threads,
             Enter(p, t) \/ TakeAgain(p, t) \/ Spawn(p, t)
      PROVE  SharedInv'
  BY <1>1, <1>9 DEF Enter, TakeAgain, Spawn, object, files
<1>10. CASE UNCHANGED lockVars
  BY <1>1, <1>10 DEF lockVars, object, files
<1> QED BY <1>2, <1>3, <1>4, <1>5, <1>6, <1>7, <1>8, <1>9, <1>10
        DEF LockNext, Proceed

\* A step that opens and takes nothing leaves descriptions distinct.
LEMMA DistinctKept ==
    ASSUME DistinctInv,
           \A q \in Procs :
             /\ handle'[q] \in {handle[q], Nil}
             /\ mine'[q] => mine[q] \/ handle'[q] = Nil
             /\ \A u \in Threads : opened'[q][u] \in {opened[q][u], Nil}
    PROVE  DistinctInv'
<1>1. ASSUME NEW p \in Procs, NEW q \in Procs, mine'[p], mine'[q],
             handle'[p] = handle'[q], handle'[p] # Nil
      PROVE  p = q
  <2>1. /\ mine[p] /\ mine[q]
        /\ handle[p] = handle'[p] /\ handle[q] = handle'[q]
    BY <1>1
  <2> QED BY <1>1, <2>1 DEF DistinctInv
<1>2. ASSUME NEW p \in Procs, NEW t \in Threads, opened'[p][t] # Nil
      PROVE  opened[p][t] = opened'[p][t]
  BY <1>2
<1>3. ASSUME NEW p \in Procs, NEW t \in Threads, opened'[p][t] # Nil,
             NEW q \in Procs, mine'[q]
      PROVE  handle'[q] # opened'[p][t]
  <2>1. CASE handle'[q] = Nil
    BY <1>3, <2>1
  <2>2. CASE handle'[q] # Nil
    BY <1>2, <1>3, <2>2 DEF DistinctInv
  <2> QED BY <2>1, <2>2
<1>4. ASSUME NEW p \in Procs, NEW t \in Threads, opened'[p][t] # Nil,
             NEW q \in Procs, NEW u \in Threads, opened'[q][u] = opened'[p][t]
      PROVE  q = p /\ u = t
  BY <1>2, <1>4 DEF DistinctInv
<1> QED BY <1>1, <1>3, <1>4 DEF DistinctInv

\* A description is used by one thread of one process.
LEMMA DistinctStep ==
    ASSUME LockTypeOK, PlaceInv, SharedInv, DistinctInv, [LockNext]_lockVars
    PROVE  DistinctInv'
<1>1. CASE UNCHANGED <<mine, handle, opened>>
  BY <1>1 DEF DistinctInv
<1>2. ASSUME NEW p \in Procs, NEW t \in Threads, Reset(p, t)
      PROVE  DistinctInv'
  BY <1>2, DistinctKept DEF LockTypeOK, Reset, ResetObject
<1>3. ASSUME NEW p \in Procs, NEW t \in Threads, TakeThreadLock(p, t)
      PROVE  DistinctInv'
  <2>1. PICK d \in Opens :
            sharers[d] = {} /\ opened' = [opened EXCEPT ![p][t] = d]
    BY <1>3 DEF TakeThreadLock
  <2>2. \A q \in Procs : /\ handle[q] # d
                         /\ \A u \in Threads : opened[q][u] # d
    BY <2>1, LockConstants DEF LockConstants, SharedInv
  <2>3. mine' = mine /\ handle' = handle
    BY <1>3 DEF TakeThreadLock
  <2>4. \A q \in Procs, u \in Threads :
            opened'[q][u] = IF q = p /\ u = t THEN d ELSE opened[q][u]
    BY <2>1 DEF LockTypeOK
  <2>5. ASSUME NEW q \in Procs, NEW u \in Threads, opened'[q][u] # Nil
        PROVE  /\ \A r \in Procs : mine'[r] => handle'[r] # opened'[q][u]
               /\ \A r \in Procs, v \in Threads :
                    opened'[r][v] = opened'[q][u] => r = q /\ v = u
    <3>1. CASE q = p /\ u = t
      BY <2>2, <2>3, <2>4, <3>1
    <3>2. CASE ~(q = p /\ u = t)
      BY <2>2, <2>3, <2>4, <2>5, <3>2 DEF DistinctInv
    <3> QED BY <3>1, <3>2
  <2>6. \A q, r \in Procs :
            (mine'[q] /\ mine'[r] /\ handle'[q] = handle'[r]
             /\ handle'[q] # Nil) => q = r
    BY <2>3 DEF DistinctInv
  <2> QED BY <2>5, <2>6 DEF DistinctInv
<1>4. ASSUME NEW p \in Procs, NEW t \in Threads, TakeFileLock(p, t)
      PROVE  DistinctInv'
  <2>1. mine[p] /\ opened[p][t] # Nil
    BY <1>4 DEF PlaceInv, TakeFileLock
  <2>2. /\ mine' = mine
        /\ handle' = [handle EXCEPT ![p] = opened[p][t]]
        /\ opened' = [opened EXCEPT ![p][t] = Nil]
    BY <1>4 DEF TakeFileLock
  <2>3. \A q \in Procs :
            /\ handle'[q] = IF q = p THEN opened[p][t] ELSE handle[q]
            /\ \A u \in Threads :
                 opened'[q][u] = IF q = p /\ u = t THEN Nil ELSE opened[q][u]
    BY <2>2 DEF LockTypeOK
  <2>4. ASSUME NEW q \in Procs, NEW r \in Procs, mine'[q], mine'[r],
               handle'[q] = handle'[r], handle'[q] # Nil
        PROVE  q = r
    BY <2>1, <2>2, <2>3, <2>4 DEF DistinctInv
  <2>5. ASSUME NEW q \in Procs, NEW u \in Threads, opened'[q][u] # Nil
        PROVE  /\ \A r \in Procs : mine'[r] => handle'[r] # opened'[q][u]
               /\ \A r \in Procs, v \in Threads :
                    opened'[r][v] = opened'[q][u] => r = q /\ v = u
    <3>1. ~(q = p /\ u = t) /\ opened'[q][u] = opened[q][u]
      BY <2>3, <2>5
    <3>2. \A r \in Procs : mine'[r] => handle'[r] # opened'[q][u]
      BY <2>1, <2>2, <2>3, <2>5, <3>1 DEF DistinctInv
    <3>3. \A r \in Procs, v \in Threads :
              opened'[r][v] = opened'[q][u] => r = q /\ v = u
      BY <2>3, <2>5, <3>1 DEF DistinctInv
    <3> QED BY <3>2, <3>3
  <2> QED BY <2>4, <2>5 DEF DistinctInv
<1>5. ASSUME NEW p \in Procs, NEW t \in Threads, AcquireFails(p, t)
      PROVE  DistinctInv'
  BY <1>5, DistinctKept DEF LockTypeOK, AcquireFails
<1>6. ASSUME NEW p \in Procs, NEW t \in Threads, Release(p, t)
      PROVE  DistinctInv'
  <2>1. /\ mine' = mine /\ opened' = opened
        /\ handle' = handle \/ handle' = [handle EXCEPT ![p] = Nil]
    BY <1>6 DEF Release, Exit, ExitInherited, ExitRaises, object, files, LetGo
  <2> QED BY <2>1, DistinctKept DEF LockTypeOK
<1>7. ASSUME NEW p \in Procs, NEW t \in Threads, NEW c \in Procs, Fork(p, t, c)
      PROVE  DistinctInv'
  <2>1. /\ mine' = [mine EXCEPT ![c] = FALSE] /\ opened' = opened
        /\ handle' = [handle EXCEPT ![c] = handle[p]]
    BY <1>7 DEF Fork
  <2>2. /\ \A q \in Procs : mine'[q] => mine[q] /\ handle'[q] = handle[q]
    BY <2>1 DEF LockTypeOK
  <2>3. \A q, r \in Procs :
            (mine'[q] /\ mine'[r] /\ handle'[q] = handle'[r]
             /\ handle'[q] # Nil) => q = r
    BY <2>2 DEF DistinctInv
  <2> QED BY <2>1, <2>2, <2>3 DEF DistinctInv
<1>8. ASSUME NEW p \in Procs, Crash(p) PROVE DistinctInv'
  BY <1>8, DistinctKept DEF LockTypeOK, Crash, ResetObject
<1>9. ASSUME NEW p \in Procs, NEW t \in Threads,
             Enter(p, t) \/ TakeAgain(p, t) \/ Spawn(p, t)
      PROVE  DistinctInv'
  BY <1>1, <1>9 DEF Enter, TakeAgain, Spawn, object, files
<1>10. CASE UNCHANGED lockVars
  BY <1>1, <1>10 DEF lockVars, object, files
<1> QED BY <1>2, <1>3, <1>4, <1>5, <1>6, <1>7, <1>8, <1>9, <1>10
        DEF LockNext, Proceed

\* FilesInv holds initially and is inductive.
LEMMA FilesInit == LockInit => FilesInv
<1> SUFFICES ASSUME LockInit PROVE FilesInv OBVIOUS
<1>1. LockTypeOK
  BY InitLockType
<1>2. PlaceInv /\ SharedInv /\ DistinctInv
  BY LockConstants
  DEF LockConstants, LockInit, PlaceInv, SharedInv, DistinctInv
<1>3. PidInv
  BY DEF LockInit, PidInv
<1> QED BY <1>1, <1>2, <1>3 DEF FilesInv

\* Each of its parts is preserved by every step.
LEMMA FilesStep == FilesInv /\ [LockNext]_lockVars => FilesInv'
BY LockTypeStep, PlaceStep, PidStep, SharedStep, DistinctStep DEF FilesInv

\* Descriptions of the lock file are never mixed up between processes
\* (indexer.py 203-217, 271-316), whatever is forked, fails or dies.
THEOREM FilesHold == LockSpec => []FilesInv
<1>1. LockInit => FilesInv
  BY FilesInit
<1>2. FilesInv /\ [LockNext]_lockVars => FilesInv'
  BY FilesStep
<1> QED BY <1>1, <1>2, PTL DEF LockSpec

\* A description that a process has a handle of is not ended by the closing
\* of another process.
LEMMA CloseKeeps ==
    ASSUME LockTypeOK, NEW q \in Procs, NEW d \in Opens \cup {Nil},
           Close(q, d), NEW p \in Procs, p # q, locked # Nil,
           p \in sharers[locked]
    PROVE  locked' = locked
<1>1. sharers' = IF d = Nil THEN sharers ELSE [sharers EXCEPT ![d] = @ \ {q}]
  BY DEF Close
<1>2. p \in sharers'[locked]
  BY <1>1 DEF LockTypeOK
<1> QED BY <1>2 DEF Close

\* No step of another process ends the lock of one that does not move.
LEMMA KeptStep ==
    ASSUME FilesInv, [LockNext]_lockVars
    PROVE  LockKept
<1> USE DEF FilesInv
<1> SUFFICES ASSUME NEW p \in Procs, Idle(p) PROVE locked' = locked
  BY DEF LockKept
<1>1. /\ mine[p] /\ handle[p] # Nil /\ handle[p] = locked
      /\ threads'[p] = threads[p] /\ pc'[p] = pc[p] /\ depth'[p] = depth[p]
  BY DEF Idle
<1>2. p \in sharers[locked] /\ locked # Nil
  BY <1>1 DEF SharedInv
<1>3. CASE UNCHANGED locked
  BY <1>3
<1>4. ASSUME NEW q \in Procs, NEW t \in Threads, Reset(q, t)
      PROVE  locked' = locked
  <2>1. p # q
    <3>1. pc[q][t] \in {"reset", "resetOnExit"}
          /\ pc'[q][t] \in {"lock", "run"}
      BY <1>4 DEF Reset, AfterReset, LockTypeOK
    <3> QED BY <1>1, <3>1
  <2>2. Close(q, handle[q]) /\ handle[q] \in Opens \cup {Nil}
    BY <1>4 DEF Reset, LockTypeOK
  <2> QED BY <1>2, <2>1, <2>2, CloseKeeps
<1>5. ASSUME NEW q \in Procs, NEW t \in Threads, AcquireFails(q, t)
      PROVE  locked' = locked
  <2>1. p # q
    <3>1. pc[q][t] = "flock" /\ pc'[q][t] = "run"
      BY <1>5 DEF AcquireFails, Goto, LockTypeOK
    <3> QED BY <1>1, <3>1
  <2>2. Close(q, opened[q][t]) /\ opened[q][t] \in Opens \cup {Nil}
    BY <1>5 DEF AcquireFails, LockTypeOK
  <2> QED BY <1>2, <2>1, <2>2, CloseKeeps
<1>6. ASSUME NEW q \in Procs, NEW t \in Threads, Exit(q, t), depth[q] = 1
      PROVE  locked' = locked
  <2>1. p # q
    <3>1. depth'[q] = depth[q] - 1
      BY <1>6 DEF Exit, LockTypeOK
    <3> QED BY <1>1, <1>6, <3>1
  <2>2. mine[q]
    <3>1. Len(pids[q]) \in Nat \ {0}
      BY <1>6, EmptySeq DEF Exit, LockTypeOK
    <3> QED BY <1>6, <3>1 DEF Exit, LastPid, PidInv
  <2>3. handle[q] # locked
    BY <1>1, <2>1, <2>2 DEF DistinctInv
  <2>4. Unlock(q, handle[q])
    BY <1>6 DEF Exit, LetGo
  <2> QED BY <2>3, <2>4 DEF Unlock
<1>7. ASSUME NEW q \in Procs, Crash(q) PROVE locked' = locked
  <2>1. p # q
    <3>1. threads[q] # {} /\ threads'[q] = {}
      BY <1>7 DEF Crash, LockTypeOK
    <3> QED BY <1>1, <3>1
  <2>2. p \in sharers'[locked]
    BY <1>2, <1>7, <2>1 DEF Crash, LockTypeOK
  <2> QED BY <1>7, <2>2 DEF Crash
<1>8. ASSUME NEW q \in Procs, NEW t \in Threads, Release(q, t),
             ~(Exit(q, t) /\ depth[q] = 1)
      PROVE  locked' = locked
  BY <1>8 DEF Release, Exit, ExitInherited, ExitRaises, files
<1>9. ASSUME NEW q \in Procs, NEW t \in Threads,
             \/ Enter(q, t) \/ TakeThreadLock(q, t) \/ TakeFileLock(q, t)
             \/ TakeAgain(q, t) \/ Spawn(q, t)
             \/ \E c \in Procs : Fork(q, t, c)
      PROVE  locked' = locked
  BY <1>2, <1>9
  DEF Enter, TakeThreadLock, TakeFileLock, TakeAgain, Spawn, Fork, files
<1>10. CASE UNCHANGED lockVars
  BY <1>10 DEF lockVars, files
<1> QED BY <1>4, <1>5, <1>6, <1>7, <1>8, <1>9, <1>10 DEF LockNext, Proceed, Release

\* The file lock of a process ends by its own doing only: _reset_after_fork
\* and __exit__ in a fork never release it (indexer.py 208-213, 288-299),
\* however many threads the fork has.
THEOREM KeptFromOthersHolds == LockSpec => KeptFromOthers
<1>1. FilesInv /\ [LockNext]_lockVars => [LockKept]_lockVars
  BY KeptStep
<1> QED BY <1>1, FilesHold, PTL DEF LockSpec, KeptFromOthers
------------------------------------------------------------------------------
(***************************************************************************)
(* Mutual exclusion, if forked processes reset the lock object before they *)
(* start threads.                                                          *)
(***************************************************************************)
\* Who resets is alone; who waits for the file has the thread lock.
LEMMA WaitStep ==
    ASSUME LockTypeOK, PlaceInv, WaitInv, ResetAlone, [LockNext]_lockVars
    PROVE  WaitInv'
<1> USE DEF WaitInv
<1>1. CASE UNCHANGED <<pc, mine, mutex, depth>>
  BY <1>1
<1>2. ASSUME NEW p \in Procs, NEW t \in Threads, Enter(p, t)
      PROVE  WaitInv'
  BY <1>2 DEF LockTypeOK, Enter, Goto, object
<1>3. ASSUME NEW p \in Procs, NEW t \in Threads, Reset(p, t)
      PROVE  WaitInv'
  <2>1. /\ pc[p][t] \in {"reset", "resetOnExit"} /\ ~mine[p]
        /\ \A u \in Threads : u # t => pc[p][u] = "run"
    <3>1. pc[p][t] \in {"reset", "resetOnExit"} /\ ~mine[p] /\ t \in threads[p]
      BY <1>3 DEF Reset, PlaceInv
    <3>2. \A u \in Threads : u # t => u \notin threads[p]
      BY <3>1 DEF ResetAlone
    <3> QED BY <3>1, <3>2 DEF PlaceInv
  <2>2. \A u \in Threads : pc'[p][u] \in {"lock", "run"}
    BY <1>3, <2>1 DEF LockTypeOK, Reset, AfterReset
  <2>3. \A q \in Procs : q # p =>
          /\ pc'[q] = pc[q] /\ mine'[q] = mine[q] /\ mutex'[q] = mutex[q]
          /\ depth'[q] = depth[q]
    BY <1>3 DEF LockTypeOK, Reset, ResetObject
  <2> QED BY <2>2, <2>3
<1>4. ASSUME NEW p \in Procs, NEW t \in Threads, TakeThreadLock(p, t)
      PROVE  WaitInv'
  <2>1. \A u \in Threads : u # t => pc[p][u] # "flock"
    BY <1>4, LockConstants DEF LockConstants, TakeThreadLock
  <2>2. /\ depth' = depth /\ mine' = mine /\ depth[p] = 0
        /\ pc' = [pc EXCEPT ![p][t] = "flock"]
    BY <1>4 DEF TakeThreadLock, Goto
  <2>3. mutex'[p].by = t /\ \A q \in Procs : q # p => mutex'[q] = mutex[q]
    BY <1>4 DEF TakeThreadLock, Taken, LockTypeOK
  <2> QED BY <2>1, <2>2, <2>3 DEF LockTypeOK
<1>5. ASSUME NEW p \in Procs, NEW t \in Threads,
             TakeFileLock(p, t) \/ AcquireFails(p, t)
      PROVE  WaitInv'
  <2>1. \A u \in Threads : u # t => pc[p][u] # "flock"
    BY <1>5 DEF TakeFileLock, AcquireFails
  <2>2. mine' = mine /\ pc' = [pc EXCEPT ![p][t] = "run"]
    BY <1>5 DEF TakeFileLock, AcquireFails, Goto
  <2>3. \A q \in Procs : q # p => mutex'[q] = mutex[q] /\ depth'[q] = depth[q]
    <3>1. /\ mutex' = mutex \/ mutex' = [mutex EXCEPT ![p] = Given(mutex[p])]
          /\ depth' = depth \/ depth' = [depth EXCEPT ![p] = depth[p] + 1]
      <4>1. CASE TakeFileLock(p, t)
        BY <4>1 DEF TakeFileLock, EnterBlock
      <4>2. CASE AcquireFails(p, t)
        BY <4>2 DEF AcquireFails
      <4> QED BY <1>5, <4>1, <4>2
    <3> QED BY <3>1 DEF LockTypeOK
  <2> QED BY <2>1, <2>2, <2>3 DEF LockTypeOK
<1>6. ASSUME NEW p \in Procs, NEW t \in Threads,
             TakeAgain(p, t) \/ Exit(p, t)
      PROVE  WaitInv'
  <2>1. depth[p] > 0
    BY <1>6 DEF TakeAgain, Exit, Owns
  <2>2. \A u \in Threads : pc[p][u] # "flock"
    BY <2>1
  <2>3. mine' = mine /\ (pc' = pc \/ pc' = [pc EXCEPT ![p][t] = "run"])
    BY <1>6 DEF TakeAgain, Exit, Goto
  <2>4. \A q \in Procs : q # p => mutex'[q] = mutex[q] /\ depth'[q] = depth[q]
    <3>1. /\ mutex' = mutex \/ mutex' = [mutex EXCEPT ![p] = mutex'[p]]
          /\ depth' = depth \/ depth' = [depth EXCEPT ![p] = depth'[p]]
      <4>1. CASE TakeAgain(p, t)
        <5>1. \/ EnterBlock(p, t) /\ mutex' = [mutex EXCEPT ![p] = Taken(@, t)]
              \/ UNCHANGED <<depth, mutex>>
          BY <4>1 DEF TakeAgain
        <5> QED BY <5>1 DEF EnterBlock, LockTypeOK
      <4>2. CASE Exit(p, t)
        BY <4>2 DEF Exit, LockTypeOK
      <4> QED BY <1>6, <4>1, <4>2
    <3> QED BY <3>1 DEF LockTypeOK
  <2> QED BY <2>2, <2>3, <2>4 DEF LockTypeOK
<1>7. ASSUME NEW p \in Procs, NEW t \in Threads,
             ExitInherited(p, t) \/ ExitRaises(p, t) \/ Spawn(p, t)
      PROVE  WaitInv'
  <2>1. CASE ExitInherited(p, t)
    BY <2>1 DEF LockTypeOK, ExitInherited, Goto, object
  <2>2. CASE ExitRaises(p, t) \/ Spawn(p, t)
    BY <1>1, <2>2 DEF ExitRaises, Spawn, object
  <2> QED BY <1>7, <2>1, <2>2
<1>8. ASSUME NEW p \in Procs, NEW t \in Threads, NEW c \in Procs, Fork(p, t, c)
      PROVE  WaitInv'
  <2>1. \A u \in Threads : pc[c][u] = "run"
    BY <1>8 DEF Fork, PlaceInv
  <2>2. /\ pc' = pc /\ mine' = [mine EXCEPT ![c] = FALSE]
        /\ mutex' = [mutex EXCEPT ![c] = mutex[p]]
        /\ depth' = [depth EXCEPT ![c] = depth[p]]
    BY <1>8 DEF Fork
  <2>3. \A q \in Procs : q # c =>
          /\ pc'[q] = pc[q] /\ mine'[q] = mine[q] /\ mutex'[q] = mutex[q]
          /\ depth'[q] = depth[q]
    BY <2>2 DEF LockTypeOK
  <2> QED BY <2>1, <2>2, <2>3
<1>9. ASSUME NEW p \in Procs, Crash(p) PROVE WaitInv'
  BY <1>9 DEF LockTypeOK, Crash, ResetObject
<1>10. CASE UNCHANGED lockVars
  BY <1>1, <1>10 DEF lockVars, object
<1> QED BY <1>2, <1>3, <1>4, <1>5, <1>6, <1>7, <1>8, <1>9, <1>10
        DEF LockNext, Proceed, Release

\* A step of p that keeps its own part of OwnInv, and the file lock of the
\* other processes, keeps the invariant.
LEMMA OwnKept ==
    ASSUME OwnInv, NEW p \in Procs,
           \A q \in Procs : q # p =>
             /\ own'[q] = own[q] /\ mine'[q] = mine[q] /\ owner'[q] = owner[q]
             /\ depth'[q] = depth[q] /\ handle'[q] = handle[q]
             /\ mine[q] /\ depth[q] > 0 => locked' = locked,
           \A t \in Threads :
             own'[p][t] > 0 => /\ mine'[p] /\ owner'[p] = t
                               /\ own'[p][t] <= depth'[p],
           mine'[p] /\ depth'[p] > 0 => handle'[p] # Nil /\ locked' = handle'[p]
    PROVE  OwnInv'
<1>1. ASSUME NEW q \in Procs, q # p
      PROVE  /\ \A t \in Threads :
                  own'[q][t] > 0 => /\ mine'[q] /\ owner'[q] = t
                                    /\ own'[q][t] <= depth'[q]
             /\ mine'[q] /\ depth'[q] > 0 => /\ handle'[q] # Nil
                                             /\ locked' = handle'[q]
  BY <1>1 DEF OwnInv
<1> QED BY <1>1 DEF OwnInv

\* Closing and unlocking by p leave the file lock of the others alone.
LEMMA OthersKeep ==
    ASSUME FilesInv, OwnInv, NEW p \in Procs,
           NEW q \in Procs, q # p, mine[q], depth[q] > 0
    PROVE  /\ \A d \in Opens \cup {Nil} : Close(p, d) => locked' = locked
           /\ mine[p] /\ handle[p] # Nil /\ Unlock(p, handle[p])
              => locked' = locked
<1>1. locked # Nil /\ q \in sharers[locked] /\ locked = handle[q]
  BY DEF OwnInv, FilesInv, SharedInv
<1>2. \A d \in Opens \cup {Nil} : Close(p, d) => locked' = locked
  BY <1>1, CloseKeeps DEF FilesInv
<1>3. mine[p] /\ handle[p] # Nil /\ Unlock(p, handle[p]) => locked' = locked
  BY <1>1 DEF FilesInv, DistinctInv, Unlock
<1> QED BY <1>2, <1>3

\* Entering a block keeps OwnInv.
LEMMA OwnEntering ==
    ASSUME InsideInv, ResetAlone, NEW p \in Procs, NEW t \in Threads,
           Enter(p, t) \/ Proceed(p, t) \/ AcquireFails(p, t)
    PROVE  OwnInv'
<1> USE DEF InsideInv, FilesInv
<1>1. CASE Enter(p, t)
  BY <1>1 DEF Enter, object, blocks, files, OwnInv
<1>2. CASE Reset(p, t)
  <2>1. ~mine[p]
    BY <1>2 DEF Reset, WaitInv
  <2>2. own' = own /\ Close(p, handle[p]) /\ handle[p] \in Opens \cup {Nil}
    BY <1>2 DEF Reset, blocks, LockTypeOK
  <2>3. /\ \A q \in Procs : q # p =>
             /\ mine'[q] = mine[q] /\ owner'[q] = owner[q]
             /\ depth'[q] = depth[q] /\ handle'[q] = handle[q]
        /\ depth'[p] = 0
    BY <1>2 DEF Reset, ResetObject, LockTypeOK
  <2>4. \A q \in Procs : q # p /\ mine[q] /\ depth[q] > 0 => locked' = locked
    BY <2>2, OthersKeep
  <2>5. \A u \in Threads : ~(own[p][u] > 0)
    BY <2>1 DEF OwnInv
  <2> QED BY <2>2, <2>3, <2>4, <2>5, OwnKept
<1>3. CASE TakeThreadLock(p, t)
  BY <1>3 DEF TakeThreadLock, blocks, OwnInv
<1>4. CASE TakeFileLock(p, t)
  <2>1. mine[p] /\ depth[p] = 0 /\ opened[p][t] # Nil
    BY <1>4 DEF TakeFileLock, PlaceInv, WaitInv
  <2>2. \A q \in Procs : ~(mine[q] /\ depth[q] > 0)
    BY <1>4 DEF TakeFileLock, OwnInv
  <2>3. \A u \in Threads : own[p][u] \in Nat /\ ~(own[p][u] > 0)
    BY <2>1 DEF OwnInv, LockTypeOK
  <2>4. /\ mine' = mine /\ locked' = opened[p][t]
        /\ handle' = [handle EXCEPT ![p] = opened[p][t]]
        /\ owner' = [owner EXCEPT ![p] = t]
        /\ depth' = [depth EXCEPT ![p] = depth[p] + 1]
        /\ own' = [own EXCEPT ![p][t] = own[p][t] + 1]
    BY <1>4 DEF TakeFileLock, EnterBlock
  <2>5. /\ depth'[p] = 1 /\ handle'[p] = locked' /\ handle'[p] # Nil
        /\ owner'[p] = t /\ mine'[p]
        /\ \A u \in Threads : own'[p][u] = IF u = t THEN 1 ELSE 0
    BY <2>1, <2>3, <2>4 DEF LockTypeOK
  <2>6. \A q \in Procs : q # p =>
          /\ own'[q] = own[q] /\ mine'[q] = mine[q] /\ owner'[q] = owner[q]
          /\ depth'[q] = depth[q] /\ handle'[q] = handle[q]
    BY <2>4 DEF LockTypeOK
  <2> QED BY <2>2, <2>5, <2>6, OwnKept
<1>5. CASE TakeAgain(p, t)
  <2>1. mine[p] /\ depth[p] > 0
    BY <1>5 DEF TakeAgain, PlaceInv
  <2>2. UNCHANGED <<mine, owner, handle, locked>>
    BY <1>5 DEF TakeAgain, files
  <2>3. CASE owner[p] = t
    <3>1. /\ depth' = [depth EXCEPT ![p] = depth[p] + 1]
          /\ own' = [own EXCEPT ![p][t] = own[p][t] + 1]
      BY <1>5, <2>3 DEF TakeAgain, EnterBlock
    <3>2. own[p][t] \in Nat /\ depth[p] \in Nat /\ own[p][t] <= depth[p]
      BY <2>1 DEF OwnInv, LockTypeOK
    <3>3. /\ depth'[p] = depth[p] + 1 /\ own'[p][t] <= depth'[p]
          /\ \A u \in Threads : u # t => own'[p][u] = own[p][u]
      BY <3>1, <3>2 DEF LockTypeOK
    <3>4. \A u \in Threads : u # t => ~(own[p][u] > 0)
      BY <2>3 DEF OwnInv
    <3>5. \A q \in Procs : q # p => own'[q] = own[q] /\ depth'[q] = depth[q]
      BY <3>1 DEF LockTypeOK
    <3>6. handle[p] # Nil /\ locked = handle[p]
      BY <2>1 DEF OwnInv
    <3> QED BY <2>1, <2>2, <2>3, <3>3, <3>4, <3>5, <3>6, OwnKept
  <2>4. CASE owner[p] # t
    <3>1. UNCHANGED <<depth, own>>
      BY <1>5, <2>4 DEF TakeAgain
    <3> QED BY <2>2, <3>1 DEF OwnInv
  <2> QED BY <2>3, <2>4
<1>6. CASE AcquireFails(p, t)
  <2>1. depth[p] = 0 /\ UNCHANGED <<mine, depth, owner, handle, own>>
    BY <1>6 DEF AcquireFails, WaitInv, blocks
  <2>2. Close(p, opened[p][t]) /\ opened[p][t] \in Opens \cup {Nil}
    BY <1>6 DEF AcquireFails, LockTypeOK
  <2>3. \A q \in Procs : q # p /\ mine[q] /\ depth[q] > 0 => locked' = locked
    BY <2>2, OthersKeep
  <2>4. \A u \in Threads :
          own[p][u] > 0 => mine[p] /\ owner[p] = u /\ own[p][u] <= depth[p]
    BY DEF OwnInv
  <2> QED BY <2>1, <2>3, <2>4, OwnKept
<1> QED BY <1>1, <1>2, <1>3, <1>4, <1>5, <1>6 DEF Proceed

\* Leaving a block keeps OwnInv.
LEMMA OwnLeaving ==
    ASSUME InsideInv, NEW p \in Procs, NEW t \in Threads, Release(p, t)
    PROVE  OwnInv'
<1> USE DEF InsideInv, FilesInv
<1>1. own' = [own EXCEPT ![p][t] = IF own[p][t] > 0 THEN @ - 1 ELSE @]
  BY LeaveCounts
<1>2. /\ \A u \in Threads : own'[p][u] =
             IF u = t /\ own[p][u] > 0 THEN own[p][u] - 1 ELSE own[p][u]
      /\ \A q \in Procs : q # p => own'[q] = own[q]
  BY <1>1 DEF LockTypeOK
<1>3. \A u \in Threads :
        /\ own[p][u] \in Nat
        /\ own[p][u] > 0 => mine[p] /\ owner[p] = u /\ own[p][u] <= depth[p]
  BY DEF OwnInv, LockTypeOK
<1>4. depth[p] \in Nat
  BY DEF LockTypeOK
<1>5. mine' = mine
  BY DEF Release, Exit, ExitInherited, ExitRaises, object
<1>6. CASE Exit(p, t)
  <2>1. /\ depth[p] > 0 /\ owner[p] = t /\ handle[p] # Nil
        /\ depth' = [depth EXCEPT ![p] = depth[p] - 1]
    BY <1>6 DEF Exit, Owns
  <2>2. /\ depth'[p] = depth[p] - 1
        /\ \A q \in Procs : q # p => depth'[q] = depth[q]
    BY <2>1 DEF LockTypeOK
  <2>3. \A u \in Threads : own'[p][u] > 0 => u = t /\ own'[p][u] <= depth'[p]
    BY <1>2, <1>3, <1>4, <2>1, <2>2
  <2>4. mine[p]
    <3>1. Len(pids[p]) \in Nat \ {0}
      BY <1>6, EmptySeq DEF Exit, LockTypeOK
    <3> QED BY <1>6, <3>1 DEF Exit, LastPid, PidInv
  <2>5. CASE depth[p] = 1
    <3>1. /\ Unlock(p, handle[p])
          /\ owner' = [owner EXCEPT ![p] = Nil]
          /\ handle' = [handle EXCEPT ![p] = Nil]
      BY <1>6, <2>5 DEF Exit, LetGo
    <3>2. \A q \in Procs : q # p => owner'[q] = owner[q] /\ handle'[q] = handle[q]
      BY <3>1 DEF LockTypeOK
    <3>3. \A q \in Procs : q # p /\ mine[q] /\ depth[q] > 0 => locked' = locked
      BY <2>1, <2>4, <3>1, OthersKeep
    <3>4. depth'[p] = 0 /\ \A u \in Threads : ~(own'[p][u] > 0)
      <4>1. \A u \in Threads : own'[p][u] \in Nat
        BY <1>2, <1>3
      <4> QED BY <2>2, <2>3, <2>5, <4>1
    <3> QED BY <1>2, <1>5, <2>2, <3>2, <3>3, <3>4, OwnKept
  <2>6. CASE depth[p] # 1
    <3>1. UNCHANGED <<owner, handle, locked>>
      BY <1>6, <2>6 DEF Exit, files
    <3>2. locked = handle[p]
      BY <2>1, <2>4 DEF OwnInv
    <3> QED BY <1>2, <1>5, <2>1, <2>2, <2>3, <2>4, <3>1, <3>2, OwnKept
  <2> QED BY <2>5, <2>6
<1>7. CASE ~Exit(p, t)
  <2>1. UNCHANGED <<depth, owner, handle, locked>>
    BY <1>7 DEF Release, ExitInherited, ExitRaises, object, files
  <2>2. \A u \in Threads : own'[p][u] > 0 =>
          mine[p] /\ owner[p] = u /\ own'[p][u] <= depth[p]
    BY <1>2, <1>3, <1>4
  <2>3. mine[p] /\ depth[p] > 0 => handle[p] # Nil /\ locked = handle[p]
    BY DEF OwnInv
  <2> QED BY <1>2, <1>5, <2>1, <2>2, <2>3, OwnKept
<1> QED BY <1>6, <1>7

\* New threads, forks and deaths keep OwnInv.
LEMMA OwnSystem ==
    ASSUME InsideInv, NEW p \in Procs,
           \/ Crash(p)
           \/ \E t \in Threads : Spawn(p, t) \/ \E c \in Procs : Fork(p, t, c)
    PROVE  OwnInv'
<1> USE DEF InsideInv, FilesInv
<1>1. CASE Crash(p)
  <2>1. /\ own' = [own EXCEPT ![p] = [t \in Threads |-> 0]]
        /\ mine' = [mine EXCEPT ![p] = TRUE]
        /\ depth' = [depth EXCEPT ![p] = 0]
        /\ owner' = [owner EXCEPT ![p] = Nil]
        /\ handle' = [handle EXCEPT ![p] = Nil]
    BY <1>1 DEF Crash, ResetObject
  <2>2. /\ depth'[p] = 0 /\ \A t \in Threads : ~(own'[p][t] > 0)
        /\ \A q \in Procs : q # p =>
             /\ own'[q] = own[q] /\ mine'[q] = mine[q] /\ owner'[q] = owner[q]
             /\ depth'[q] = depth[q] /\ handle'[q] = handle[q]
    BY <2>1 DEF LockTypeOK
  <2>3. ASSUME NEW q \in Procs, q # p, mine[q], depth[q] > 0
        PROVE  locked' = locked
    <3>1. locked # Nil /\ q \in sharers[locked]
      BY <2>3 DEF OwnInv, SharedInv
    <3>2. q \in sharers'[locked]
      BY <1>1, <2>3, <3>1 DEF Crash, LockTypeOK
    <3> QED BY <1>1, <3>2 DEF Crash
  <2> QED BY <2>2, <2>3, OwnKept
<1>2. ASSUME NEW t \in Threads, Spawn(p, t) PROVE OwnInv'
  BY <1>2 DEF Spawn, object, blocks, files, OwnInv
<1>3. ASSUME NEW t \in Threads, NEW c \in Procs, Fork(p, t, c)
      PROVE  OwnInv'
  <2>1. /\ mine' = [mine EXCEPT ![c] = FALSE] /\ own' = own
        /\ depth' = [depth EXCEPT ![c] = depth[p]]
        /\ owner' = [owner EXCEPT ![c] = owner[p]]
        /\ handle' = [handle EXCEPT ![c] = handle[p]]
        /\ locked' = locked
    BY <1>3 DEF Fork
  <2>2. \A u \in Threads : ~(own[c][u] > 0)
    BY <1>3 DEF Fork, PlaceInv
  <2>3. ~mine'[c] /\ \A q \in Procs : q # c =>
           /\ mine'[q] = mine[q] /\ owner'[q] = owner[q]
           /\ depth'[q] = depth[q] /\ handle'[q] = handle[q]
    BY <2>1 DEF LockTypeOK
  <2> QED BY <2>1, <2>2, <2>3, OwnKept
<1> QED BY <1>1, <1>2, <1>3

\* InsideInv is inductive as long as forked processes reset alone.
LEMMA InsideStep == InsideInv /\ ResetAlone /\ [LockNext]_lockVars => InsideInv'
<1> SUFFICES ASSUME InsideInv, ResetAlone, [LockNext]_lockVars PROVE InsideInv'
  OBVIOUS
<1>1. FilesInv'
  BY FilesStep DEF InsideInv
<1>2. WaitInv'
  BY WaitStep DEF InsideInv, FilesInv
<1>3. OwnInv'
  <2>1. CASE UNCHANGED lockVars
    BY <2>1 DEF InsideInv, OwnInv, lockVars, object, blocks, files
  <2>2. CASE LockNext
    BY <2>2, OwnEntering, OwnLeaving, OwnSystem DEF LockNext
  <2> QED BY <2>1, <2>2
<1> QED BY <1>1, <1>2, <1>3 DEF InsideInv

\* Initially nobody is inside.
LEMMA InsideInit == LockInit => InsideInv
<1> SUFFICES ASSUME LockInit PROVE InsideInv OBVIOUS
<1>1. WaitInv /\ OwnInv
  BY DEF LockInit, WaitInv, OwnInv
<1> QED BY <1>1, FilesInit DEF InsideInv

\* Who is inside has the file lock, and only one process has it.
LEMMA OneInside == InsideInv => MutualExclusion
<1> SUFFICES ASSUME InsideInv, NEW p \in Procs, NEW q \in Procs,
                    NEW t \in Threads, NEW u \in Threads,
                    Inside(p, t), Inside(q, u)
             PROVE  p = q /\ t = u
  BY DEF MutualExclusion
<1> USE DEF InsideInv, FilesInv
<1>1. /\ own[p][t] > 0 /\ own[q][u] > 0
      /\ own[p][t] \in Nat /\ own[q][u] \in Nat
      /\ depth[p] \in Nat /\ depth[q] \in Nat
  BY DEF Inside, LockTypeOK
<1>2. /\ mine[p] /\ owner[p] = t /\ depth[p] > 0
      /\ mine[q] /\ owner[q] = u /\ depth[q] > 0
  BY <1>1 DEF OwnInv
<1>3. handle[p] = handle[q] /\ handle[p] # Nil
  BY <1>2 DEF OwnInv
<1> QED BY <1>2, <1>3 DEF DistinctInv

\* A thread that counts its entries owns the lock object and counts no more
\* than the object, whose owner holds the file lock; who waits for the file
\* has the thread lock (indexer.py 196-316), whatever fails or dies, if the threads of
\* a forked process start only when it has reset the lock object.
THEOREM InsideInvHolds == LockSpec /\ []ResetAlone => []InsideInv
<1>1. LockInit => InsideInv
  BY InsideInit
<1>2. InsideInv /\ ResetAlone /\ [LockNext]_lockVars => InsideInv'
  BY InsideStep
<1> QED BY <1>1, <1>2, PTL DEF LockSpec

\* One thread of one process at a time is inside blocks it has entered
\* (indexer.py 203-217, 271-316), whatever fails or dies, if the threads of a
\* forked process start only when it has reset the lock object.
THEOREM MutualExclusionHolds == LockSpec /\ []ResetAlone => []MutualExclusion
BY InsideInvHolds, OneInside, PTL

-----------------------------------------------------------------------------
(***************************************************************************)
(* ProjectStorage: for callers that name a provider, or have switched to   *)
(* one, and a working directory that the server does not index by itself:  *)
(* directories, manager, searcher and job agree on the provider, and       *)
(* nothing but deleting and clearing drops an index.                       *)
(***************************************************************************)

(* The inductive invariant.                                                *)

DirType == [there : BOOLEAN, info : Keys \cup {Broken},
            vectors : SUBSET Providers, made : Keys]

ServerType == [dirs : [Dirs -> DirType],
               current : [project : Paths \cup {None}, provider : Keys],
               manager : Dirs \cup {None}]

(* The directory of a provider holds its vectors.  A legacy one, which     *)
(* says so itself, those of one provider: a call may rename it.            *)
OwnVectors(ds) ==
    \A p \in Paths, k \in Providers :
        ds[<<p, k>>].vectors \subseteq {k}

LegacyVectors(ds) ==
    \A p \in Paths :
        LET d == ds[<<p, None>>]
        IN  /\ d.info \in Providers => d.vectors \subseteq {d.info}
            /\ d.info = None => d.vectors = {}

(* What is not there holds nothing.                                        *)
AbsentEmpty(ds) == \A d \in Dirs : ~ds[d].there => ds[d].vectors = {}

Pure(ds) ==
    /\ ds \in [Dirs -> DirType]
    /\ OwnVectors(ds)
    /\ LegacyVectors(ds)
    /\ AbsentEmpty(ds)

(* An active project has a provider, and the cached manager is theirs.     *)
Good(s) ==
    /\ s \in ServerType
    /\ Pure(s.dirs)
    /\ s.current.project # None => s.current.provider # None
    /\ s.manager # None => s.manager = <<s.current.project, s.current.provider>>

ReaderInv == reader # None => reader.at[2] = reader.by

JobInv ==
    /\ job.active => /\ job.path \in Paths /\ job.provider \in Providers
                     /\ job.target = <<job.path, job.provider>>
    /\ job.wrote # None => job.wrote = job.target

IInv == TypeOK /\ Good(Server) /\ ReaderInv /\ JobInv

-----------------------------------------------------------------------------
(* Lemmas on directories.                                                  *)

(* None and Broken are neither projects nor providers.                     *)
LEMMA Names ==
    /\ Cwd \in Paths /\ Ambient \in Providers
    /\ None \notin Paths /\ None \notin Providers
    /\ Broken \notin Providers /\ Broken # None
    /\ Providers \subseteq Keys /\ None \in Keys
    /\ \A k \in Keys : k # None => k \in Providers
BY ConstantsAssumption DEF ConstantsAssumption, Keys

(* A set of natural numbers that is not empty has a least element.         *)
LEMMA Least ==
    ASSUME NEW S \in SUBSET Nat, S # {}
    PROVE  \E m \in S : \A n \in S : m <= n
<1> DEFINE R == OpToRel(<, Nat)
<1>1. IsWellFoundedOn(R, Nat)
    BY NatLessThanWellFounded, Zenon
<1>2. \A m, n \in Nat : n < m => <<n, m>> \in R
    BY Zenon DEF OpToRel
<1> HIDE DEF R
<1>3. PICK m \in S : \A n \in S : ~ (<<n, m>> \in R)
    BY <1>1, WFMin
<1>4. \A n \in S : m \in Nat /\ n \in Nat /\ ~ (n < m)
    BY <1>2, <1>3, Zenon
<1>5. \A n \in S : m <= n
    BY <1>4
<1> QED BY <1>5

(* A glob that finds something takes one of what it finds.                 *)
LEMMA FirstIsOne ==
    ASSUME NEW some \in SUBSET Dirs, some # {},
           listed \in [Keys -> 1 .. Cardinality(Keys)]
    PROVE  FirstOf(some) \in some
<1>1. \A d \in some : d[2] \in Keys
    BY DEF Dirs
<1> DEFINE places == {listed[d[2]] : d \in some}
<1>2. places \in SUBSET Nat /\ places # {}
    BY <1>1
<1>3. PICK m \in places : \A n \in places : m <= n
    BY <1>2, Least
<1>4. \E d \in some : \A e \in some : listed[d[2]] <= listed[e[2]]
    BY <1>3
<1> QED BY <1>4 DEF FirstOf

(* Where an index goes when a legacy directory is renamed.                 *)
Keeps(ds, es) ==
    /\ \A p \in Paths, k \in Providers :
         Populated(ds, <<p, k>>) => es[<<p, k>>].vectors = ds[<<p, k>>].vectors
    /\ \A p \in Paths : Populated(ds, <<p, None>>) =>
         \/ es[<<p, None>>].vectors = ds[<<p, None>>].vectors
         \/ \E k \in Providers :
              /\ ~Populated(ds, <<p, k>>)
              /\ es[<<p, k>>].vectors = ds[<<p, None>>].vectors

(* An index stays where it is, or goes on after it has been renamed.       *)
LEMMA KeepsTwice ==
    /\ \A ds : Keeps(ds, ds)
    /\ \A ds, es, fs : Keeps(ds, es) /\ Keeps(es, fs) => Keeps(ds, fs)
<1>1. ASSUME NEW ds PROVE Keeps(ds, ds)
    BY DEF Keeps
<1>2. ASSUME NEW ds, NEW es, NEW fs, Keeps(ds, es), Keeps(es, fs)
      PROVE  Keeps(ds, fs)
  <2>1. ASSUME NEW p \in Paths, NEW k \in Providers, Populated(ds, <<p, k>>)
        PROVE  fs[<<p, k>>].vectors = ds[<<p, k>>].vectors
    <3>1. es[<<p, k>>].vectors = ds[<<p, k>>].vectors
      BY <2>1, <1>2 DEF Keeps
    <3>2. Populated(es, <<p, k>>)
      BY <3>1, <2>1 DEF Populated
    <3> QED BY <3>1, <3>2, <1>2 DEF Keeps
  <2>2. ASSUME NEW p \in Paths, Populated(ds, <<p, None>>)
        PROVE  \/ fs[<<p, None>>].vectors = ds[<<p, None>>].vectors
               \/ \E k \in Providers :
                    /\ ~Populated(ds, <<p, k>>)
                    /\ fs[<<p, k>>].vectors = ds[<<p, None>>].vectors
    <3>1. CASE es[<<p, None>>].vectors = ds[<<p, None>>].vectors
      <4>1. Populated(es, <<p, None>>)
        BY <3>1, <2>2 DEF Populated
      <4>2. \A k \in Providers : Populated(ds, <<p, k>>) => Populated(es, <<p, k>>)
        BY <1>2 DEF Keeps, Populated
      <4> QED BY <4>1, <4>2, <3>1, <1>2 DEF Keeps
    <3>2. ASSUME NEW k \in Providers, ~Populated(ds, <<p, k>>),
                 es[<<p, k>>].vectors = ds[<<p, None>>].vectors
          PROVE  fs[<<p, k>>].vectors = ds[<<p, None>>].vectors
      BY <3>2, <2>2, <1>2 DEF Keeps, Populated
    <3> QED BY <3>1, <3>2, <2>2, <1>2 DEF Keeps
  <2> QED BY <2>1, <2>2 DEF Keeps
<1> QED BY <1>1, <1>2

(* A legacy directory that is renamed is of the provider it is named after.*)
LEMMA MigratedPure ==
    ASSUME NEW ds, Pure(ds), NEW p \in Paths, NEW k \in Providers
    PROVE  Pure(Migrated(ds, p, k)) /\ Keeps(ds, Migrated(ds, p, k))
<1> DEFINE es == [ds EXCEPT ![<<p, k>>] = ds[<<p, None>>], ![<<p, None>>] = Absent]
<1>1. CASE Migrated(ds, p, k) = ds
    BY <1>1, KeepsTwice
<1>2. ASSUME ~ds[<<p, k>>].there, ds[<<p, None>>].info = k
      PROVE  Pure(es) /\ Keeps(ds, es)
  <2>1. <<p, k>> \in Dirs /\ <<p, None>> \in Dirs /\ <<p, k>> # <<p, None>>
    BY Names DEF Dirs
  <2>2. ds \in [Dirs -> DirType]
    BY DEF Pure
  <2>3. Absent \in DirType
    BY DEF Absent, DirType, Keys
  <2>4. /\ es \in [Dirs -> DirType]
        /\ es[<<p, k>>] = ds[<<p, None>>]
        /\ es[<<p, None>>] = Absent
        /\ \A d \in Dirs : d # <<p, k>> /\ d # <<p, None>> => es[d] = ds[d]
    BY <2>1, <2>2, <2>3
  <2>5. ds[<<p, None>>].vectors \subseteq {k} /\ ds[<<p, k>>].vectors = {}
    BY <1>2, <2>1 DEF Pure, LegacyVectors, AbsentEmpty
  <2> HIDE DEF es
  <2>6. OwnVectors(es)
    <3> SUFFICES ASSUME NEW q \in Paths, NEW l \in Providers
                 PROVE  es[<<q, l>>].vectors \subseteq {l}
      BY DEF OwnVectors
    <3>1. <<q, l>> \in Dirs /\ <<q, l>> # <<p, None>>
      BY Names DEF Dirs
    <3>2. CASE <<q, l>> = <<p, k>>
      BY <3>2, <2>4, <2>5
    <3>3. CASE <<q, l>> # <<p, k>>
      BY <3>1, <3>3, <2>4 DEF Pure, OwnVectors
    <3> QED BY <3>2, <3>3
  <2>7. LegacyVectors(es)
    <3> SUFFICES ASSUME NEW q \in Paths
                 PROVE  /\ es[<<q, None>>].info \in Providers
                           => es[<<q, None>>].vectors \subseteq {es[<<q, None>>].info}
                        /\ es[<<q, None>>].info = None => es[<<q, None>>].vectors = {}
      BY DEF LegacyVectors
    <3>1. <<q, None>> \in Dirs /\ <<q, None>> # <<p, k>>
      BY Names DEF Dirs
    <3>2. CASE q = p
      BY <3>2, <2>4 DEF Absent
    <3>3. CASE q # p
      BY <3>1, <3>3, <2>4 DEF Pure, LegacyVectors
    <3> QED BY <3>2, <3>3
  <2>8. AbsentEmpty(es)
    BY <2>1, <2>4 DEF AbsentEmpty, Absent, Pure
  <2>9. Keeps(ds, es)
    <3>1. ASSUME NEW q \in Paths, NEW l \in Providers, Populated(ds, <<q, l>>)
          PROVE  es[<<q, l>>].vectors = ds[<<q, l>>].vectors
      <4>1. <<q, l>> \in Dirs /\ <<q, l>> # <<p, None>> /\ <<q, l>> # <<p, k>>
        BY <3>1, <2>5, Names DEF Dirs, Populated
      <4> QED BY <4>1, <2>4
    <3>2. ASSUME NEW q \in Paths, q # p
          PROVE  es[<<q, None>>].vectors = ds[<<q, None>>].vectors
      BY <3>2, <2>4, Names DEF Dirs
    <3>3. ~Populated(ds, <<p, k>>) /\ es[<<p, k>>].vectors = ds[<<p, None>>].vectors
      BY <2>4, <2>5 DEF Populated
    <3> QED BY <3>1, <3>2, <3>3 DEF Keeps
  <2> QED BY <2>4, <2>6, <2>7, <2>8, <2>9 DEF Pure
<1> QED BY <1>1, <1>2 DEF Migrated

(* A directory that is created has only its project_info.json.             *)
LEMMA CreatedPure ==
    ASSUME NEW ds, Pure(ds), NEW d \in Dirs, NEW k \in Keys, NEW b \in BOOLEAN
    PROVE  /\ Pure(Created(ds, d, k, b))
           /\ \A e \in Dirs : Created(ds, d, k, b)[e].vectors = ds[e].vectors
           /\ Keeps(ds, Created(ds, d, k, b))
           /\ ~b => \A e \in Dirs : Created(ds, d, k, b)[e].info = ds[e].info
<1> DEFINE es == Created(ds, d, k, b)
           i == IF ds[d].info # None \/ ~b THEN ds[d].info
                ELSE IF k # None THEN k ELSE Ambient
<1>1. ds \in [Dirs -> DirType] /\ ds[d] \in DirType
    BY DEF Pure
<1>2. i \in Keys \cup {Broken}
    BY <1>1, Names DEF DirType
<1> DEFINE fs == [ds EXCEPT ![d].there = TRUE]
<1>13. fs \in [Dirs -> DirType] /\ fs[d].there /\ fs[d].info = ds[d].info
       /\ fs[d].vectors = ds[d].vectors /\ \A e \in Dirs : e # d => fs[e] = ds[e]
    BY <1>1 DEF DirType
<1>3. es = [fs EXCEPT ![d].info = i]
    BY <1>13 DEF Created
<1>4. i = ds[d].info \/ ds[d].info = None
    OBVIOUS
<1>5. ~b => i = ds[d].info
    OBVIOUS
<1> HIDE DEF i, es, fs
<1>6. /\ es \in [Dirs -> DirType]
      /\ es[d].there /\ es[d].info = i /\ es[d].vectors = ds[d].vectors
      /\ \A e \in Dirs : e # d => es[e] = ds[e]
    BY <1>13, <1>2, <1>3 DEF DirType
<1>7. \A e \in Dirs : es[e].vectors = ds[e].vectors
    BY <1>6
<1>8. OwnVectors(es)
  <2> SUFFICES ASSUME NEW q \in Paths, NEW l \in Providers
               PROVE  es[<<q, l>>].vectors \subseteq {l}
    BY DEF OwnVectors
  <2>1. <<q, l>> \in Dirs
    BY Names DEF Dirs
  <2> QED BY <2>1, <1>7 DEF Pure, OwnVectors
<1>9. LegacyVectors(es)
  <2> SUFFICES ASSUME NEW q \in Paths
               PROVE  /\ es[<<q, None>>].info \in Providers
                         => es[<<q, None>>].vectors \subseteq {es[<<q, None>>].info}
                      /\ es[<<q, None>>].info = None => es[<<q, None>>].vectors = {}
    BY DEF LegacyVectors
  <2>1. <<q, None>> \in Dirs
    BY Names DEF Dirs
  <2>2. es[<<q, None>>].info = ds[<<q, None>>].info \/ ds[<<q, None>>].info = None
    BY <2>1, <1>4, <1>6
  <2> QED BY <2>1, <2>2, <1>7 DEF Pure, LegacyVectors
<1>10. AbsentEmpty(es)
    BY <1>6 DEF Pure, AbsentEmpty
<1>11. Keeps(ds, es)
  <2>1. \A p \in Paths, l \in Keys : <<p, l>> \in Dirs
    BY DEF Dirs
  <2> QED BY <2>1, <1>7, Names DEF Keeps
<1>12. ~b => \A e \in Dirs : es[e].info = ds[e].info
    BY <1>5, <1>6
<1> QED BY <1>6, <1>7, <1>8, <1>9, <1>10, <1>11, <1>12 DEF Pure, es

(* What is found is a directory of the project that is there, the one of   *)
(* the provider that is named.                                             *)
LEMMA LocatedPure ==
    ASSUME NEW ds, Pure(ds), NEW p \in Paths, NEW k \in Keys, NEW b \in BOOLEAN,
           listed \in [Keys -> 1 .. Cardinality(Keys)]
    PROVE  LET l == Located(ds, p, k, b)
           IN  /\ Pure(l.dirs) /\ Keeps(ds, l.dirs)
               /\ l.at \in Dirs /\ l.at[1] = p
               /\ k # None => l.at = <<p, k>>
<1> DEFINE siblings == Indexes(ds, p) \ {<<p, None>>}
           at == IF k = None /\ siblings # {} THEN FirstOf(siblings) ELSE <<p, k>>
           moved == IF k # None THEN Migrated(ds, p, k) ELSE ds
           es == Created(moved, at, k, b)
<1>1. Located(ds, p, k, b) = [at |-> at, dirs |-> es]
    BY DEF Located
<1>2. at \in Dirs /\ at[1] = p /\ (k # None => at = <<p, k>>)
  <2>1. CASE k = None /\ siblings # {}
    <3>1. siblings \in SUBSET Dirs /\ \A d \in siblings : d[1] = p
      BY DEF Indexes
    <3>2. FirstOf(siblings) \in siblings
      BY <2>1, <3>1, FirstIsOne
    <3> QED BY <2>1, <3>1, <3>2
  <2>2. CASE ~(k = None /\ siblings # {})
    <3>1. <<p, k>> \in Dirs /\ <<p, k>>[1] = p
      BY DEF Dirs
    <3> QED BY <2>2, <3>1
  <2> QED BY <2>1, <2>2
<1>3. Pure(moved) /\ Keeps(ds, moved)
    BY MigratedPure, KeepsTwice, Names
<1> HIDE DEF at, moved
<1>4. Pure(es) /\ Keeps(moved, es)
    BY <1>2, <1>3, CreatedPure
<1>5. Keeps(ds, es)
    BY <1>3, <1>4, KeepsTwice
<1> HIDE DEF es
<1> QED BY <1>1, <1>2, <1>4, <1>5

(* A caller that names a provider finds the directory of that provider.    *)
LEMMA LocatedNamed ==
    ASSUME NEW ds, Pure(ds), NEW p \in Paths, NEW k \in Providers,
           listed \in [Keys -> 1 .. Cardinality(Keys)]
    PROVE  LET l == Located(ds, p, k, TRUE)
           IN  Pure(l.dirs) /\ Keeps(ds, l.dirs) /\ l.at = <<p, k>> /\ l.at \in Dirs
<1>1. k \in Keys /\ k # None /\ TRUE \in BOOLEAN
    BY Names
<1>2. LET l == Located(ds, p, k, TRUE)
      IN  /\ Pure(l.dirs) /\ Keeps(ds, l.dirs)
          /\ l.at \in Dirs /\ l.at[1] = p
          /\ k # None => l.at = <<p, k>>
    BY <1>1, LocatedPure, Zenon
<1> QED BY <1>1, <1>2

(* An embedder is made for the provider that is named, or that raises.     *)
LEMMA EmbedderRight ==
    ASSUME NEW ds, Pure(ds), NEW p \in Paths, NEW k \in Providers,
           listed \in [Keys -> 1 .. Cardinality(Keys)]
    PROVE  LET e == Embedder(ds, p, k)
           IN  Pure(e.dirs) /\ Keeps(ds, e.dirs) /\ e.by \in {k, None}
<1> DEFINE l == Located(ds, p, k, FALSE)
           d == l.dirs[l.at]
           by == IF d.info \notin Providers THEN FromManifest(d, k)
                 ELSE IF k # None THEN k ELSE d.info
<1>1. Pure(l.dirs) /\ Keeps(ds, l.dirs)
    BY LocatedPure, Names
<1>2. by \in {k, None}
    BY Names DEF FromManifest
<1>3. Embedder(ds, p, k) = [dirs |-> l.dirs, by |-> by]
    BY DEF Embedder
<1> HIDE DEF l, by
<1> QED BY <1>1, <1>2, <1>3

(* A manager is for the project asked for and its provider.                *)
LEMMA ManagedGood ==
    ASSUME NEW s, Good(s), NEW p \in Paths, NEW k \in Keys,
           k # None \/ s.current.provider # None,
           listed \in [Keys -> 1 .. Cardinality(Keys)]
    PROVE  LET m == Managed(s, p, k)
           IN  /\ Good(m) /\ Keeps(s.dirs, m.dirs)
               /\ m.current = [project |-> p,
                               provider |-> IF k # None THEN k ELSE s.current.provider]
               /\ m.current.provider \in Providers
               /\ m.manager = <<p, m.current.provider>>
<1> DEFINE r == IF k # None THEN k ELSE s.current.provider
           now == [project |-> p, provider |-> r]
           l == Located(s.dirs, p, r, TRUE)
           m == Managed(s, p, k)
<1>1. r \in Providers
    BY Names DEF Good, ServerType
<1>2. now.project = p /\ now.provider = r
    OBVIOUS
<1>3. CASE s.current = now /\ s.manager # None
  <2>1. m = s
    BY <1>3 DEF Managed
  <2>2. s.manager = <<p, r>>
    BY <1>3, <1>2 DEF Good
  <2> HIDE DEF m, r
  <2> QED BY <1>3, <1>1, <1>2, <2>1, <2>2, KeepsTwice DEF m, r
<1>4. CASE ~(s.current = now /\ s.manager # None)
  <2>1. Managed(s, p, k) = [dirs |-> l.dirs, current |-> now, manager |-> l.at]
    BY <1>4 DEF Managed
  <2> HIDE DEF r
  <2>5. r \in Providers /\ Pure(s.dirs)
    BY <1>1 DEF Good
  <2>2. Pure(l.dirs) /\ Keeps(s.dirs, l.dirs) /\ l.at = <<p, r>> /\ l.at \in Dirs
    BY <2>5, LocatedNamed
  <2>3. now \in [project : Paths \cup {None}, provider : Keys]
    BY <1>1, Names
  <2> HIDE DEF l, r
  <2>4. /\ m \in ServerType /\ m.dirs = l.dirs /\ m.current = now
        /\ m.manager = <<p, r>>
    BY <2>1, <2>2, <2>3 DEF ServerType, Pure
  <2> HIDE DEF m
  <2>6. Good(m)
    BY <2>2, <2>4, <1>1, <1>2, Names DEF Good
  <2> QED BY <2>2, <2>4, <2>6, <1>1, <1>2 DEF m, r
<1> QED BY <1>3, <1>4

(* A run that has manager and embedder of one provider only adds to, or    *)
(* makes anew, an index of that provider.                                  *)
LEMMA WrittenPure ==
    ASSUME NEW ds, Pure(ds), NEW p \in Paths, NEW k \in Providers,
           NEW es \in Written(ds, <<p, k>>, k)
    PROVE  Pure(es) /\ Keeps(ds, es)
<1> DEFINE d == <<p, k>>
<1>1. d \in Dirs /\ ds \in [Dirs -> DirType]
    BY Names DEF Pure, Dirs
<1>2. CASE es = ds
    BY <1>2, KeepsTwice
<1>3. ASSUME ds[d].there, NEW v \in SUBSET {k}, v # {},
             es = [ds EXCEPT ![d].vectors = v, ![d].made = k]
      PROVE  Pure(es) /\ Keeps(ds, es)
  <2> DEFINE fs == [ds EXCEPT ![d].vectors = v]
  <2>1. /\ fs \in [Dirs -> DirType]
        /\ fs[d].there /\ fs[d].info = ds[d].info /\ fs[d].vectors = v
        /\ \A e \in Dirs : e # d => fs[e] = ds[e]
    BY <1>1, <1>3 DEF DirType
  <2>2. es = [fs EXCEPT ![d].made = k]
    BY <1>3
  <2> HIDE DEF fs
  <2>3. /\ es \in [Dirs -> DirType]
        /\ es[d].there /\ es[d].info = ds[d].info /\ es[d].vectors = v
        /\ \A e \in Dirs : e # d => es[e] = ds[e]
    <3>1. /\ es[d] = [fs[d] EXCEPT !.made = k]
          /\ \A e \in Dirs : e # d => es[e] = fs[e]
          /\ es = [e \in Dirs |-> IF e = d THEN [fs[d] EXCEPT !.made = k] ELSE fs[e]]
      BY <1>1, <2>1, <2>2
    <3>2. /\ [fs[d] EXCEPT !.made = k] \in DirType
          /\ [fs[d] EXCEPT !.made = k].there = fs[d].there
          /\ [fs[d] EXCEPT !.made = k].info = fs[d].info
          /\ [fs[d] EXCEPT !.made = k].vectors = fs[d].vectors
      BY <1>1, <2>1, Names DEF DirType
    <3> QED BY <2>1, <3>1, <3>2, Zenon
  <2>4. OwnVectors(es)
    <3> SUFFICES ASSUME NEW q \in Paths, NEW l \in Providers
                 PROVE  es[<<q, l>>].vectors \subseteq {l}
      BY DEF OwnVectors
    <3>1. <<q, l>> \in Dirs
      BY Names DEF Dirs
    <3> QED BY <3>1, <2>3, <1>3 DEF Pure, OwnVectors
  <2>5. LegacyVectors(es)
    <3>1. \A q \in Paths : <<q, None>> \in Dirs /\ <<q, None>> # d
      BY Names DEF Dirs
    <3>2. \A q \in Paths : es[<<q, None>>] = ds[<<q, None>>]
      BY <3>1, <2>3
    <3> QED BY <3>2 DEF Pure, LegacyVectors
  <2>6. AbsentEmpty(es)
    BY <2>3 DEF Pure, AbsentEmpty
  <2>7. Keeps(ds, es)
    <3>1. \A q \in Paths, l \in Keys : <<q, l>> \in Dirs
      BY DEF Dirs
    <3>2. \A q \in Paths : <<q, None>> # d
      BY Names
    <3>3. Populated(ds, d) => es[d].vectors = ds[d].vectors
      <4>1. ds[d].vectors \in SUBSET {k}
        BY DEF Pure, OwnVectors
      <4>2. \A a, c \in SUBSET {k} : a # {} /\ c # {} => a = c
        OBVIOUS
      <4> QED BY <4>1, <4>2, <1>3, <2>3 DEF Populated
    <3> QED BY <3>1, <3>2, <3>3, <2>3, Names DEF Keeps
  <2> QED BY <2>3, <2>4, <2>5, <2>6, <2>7 DEF Pure
<1>4. es # ds => /\ ds[d].there
                 /\ \E v \in SUBSET {k} : /\ v # {}
                      /\ es = [ds EXCEPT ![d].vectors = v, ![d].made = k]
  <2>1. CASE ~ds[d].there
    BY <2>1 DEF Written
  <2>2. CASE ds[d].there
    <3>1. PICK v \in {{k}} \cup (IF Populated(ds, d) THEN {ds[d].vectors \cup {k}}
                                 ELSE {}) :
            es = [ds EXCEPT ![d].vectors = v, ![d].made = k]
      BY <2>2 DEF Written
    <3>2. v \in SUBSET {k} /\ v # {}
      BY DEF Pure, OwnVectors
    <3> QED BY <3>1, <3>2, <2>2
  <2> QED BY <2>1, <2>2
<1> QED BY <1>2, <1>3, <1>4

-----------------------------------------------------------------------------
(* The invariant holds.                                                    *)

ReaderType == [at : Dirs, by : Providers] \cup {None}

JobType == [path : Paths \cup {None}, provider : Keys,
            target : Dirs \cup {None}, wrote : Dirs \cup {None},
            active : BOOLEAN]

(* What the invariant says of the variables the server's state leaves.     *)
Rest == /\ reader \in ReaderType /\ ReaderInv
        /\ job \in JobType /\ JobInv
        /\ tears \in 0 .. MaxTears
        /\ listed \in [Keys -> 1 .. Cardinality(Keys)]

LEMMA Whole == IInv <=> Good(Server) /\ Rest
<1>1. Server = [dirs |-> dirs, current |-> current, manager |-> manager]
    BY DEF Server
<1>2. Good(Server) => /\ dirs \in [Dirs -> DirType]
                      /\ current \in [project : Paths \cup {None}, provider : Keys]
                      /\ manager \in Dirs \cup {None}
    BY <1>1 DEF Good, ServerType
<1> QED BY <1>2 DEF IInv, Rest, TypeOK, ReaderType, JobType, DirType

(* It is enough to show that a step takes over a good server and pure      *)
(* directories.                                                            *)
LEMMA WholeNext ==
    ASSUME NEW m, Good(m), Pure(dirs'), current' = m.current, manager' = m.manager,
           Rest'
    PROVE  IInv'
<1>1. m \in ServerType /\ dirs' \in [Dirs -> DirType]
    BY DEF Good, Pure
<1>2. /\ Server' \in ServerType /\ Server'.dirs = dirs'
      /\ Server'.current = m.current /\ Server'.manager = m.manager
    BY <1>1 DEF Server, ServerType
<1>3. Good(Server)'
    BY <1>2 DEF Good
<1>4. (IInv <=> Good(Server) /\ Rest)'
    BY Whole, PTL
<1> QED BY <1>3, <1>4

LEMMA InvInit == Init => IInv
<1> SUFFICES ASSUME Init PROVE IInv
    OBVIOUS
<1>1. PICK old \in [Old -> Keys] :
        dirs = [d \in Dirs |->
                  IF d[1] \in Old /\ d[2] = None /\ old[d[1]] # None THEN Legacy(old[d[1]])
                  ELSE Absent]
    BY DEF Init
<1>2. Absent \in DirType /\ \A k \in Providers : Legacy(k) \in DirType
    BY Names DEF Absent, Legacy, DirType
<1>3. \A d \in Dirs : \/ dirs[d] = Absent
                      \/ /\ d[2] = None
                         /\ \E k \in Providers : dirs[d] = Legacy(k)
    BY <1>1, Names
<1>4. dirs \in [Dirs -> DirType]
    BY <1>1, <1>2, <1>3
<1>10. ASSUME NEW d \in Dirs
       PROVE  \/ dirs[d].vectors = {} /\ dirs[d].info = None
              \/ /\ dirs[d].there /\ dirs[d].info \in Providers
                 /\ dirs[d].vectors = {dirs[d].info}
  <2>1. CASE dirs[d] = Absent
    BY <2>1 DEF Absent
  <2>2. ASSUME NEW k \in Providers, dirs[d] = Legacy(k)
        PROVE  /\ dirs[d].there /\ dirs[d].info \in Providers
               /\ dirs[d].vectors = {dirs[d].info}
    BY <2>2 DEF Legacy
  <2> QED BY <2>1, <2>2, <1>3, <1>10
<1>5. OwnVectors(dirs)
  <2> SUFFICES ASSUME NEW p \in Paths, NEW k \in Providers
               PROVE  dirs[<<p, k>>].vectors \subseteq {k}
    BY DEF OwnVectors
  <2>1. <<p, k>> \in Dirs /\ <<p, k>>[2] # None
    BY Names DEF Dirs
  <2> QED BY <2>1, <1>3 DEF Absent
<1>6. LegacyVectors(dirs)
  <2>1. \A p \in Paths : <<p, None>> \in Dirs
    BY Names DEF Dirs
  <2> QED BY <2>1, <1>10, Names DEF LegacyVectors
<1>7. AbsentEmpty(dirs)
    BY <1>10 DEF AbsentEmpty
<1>8. Good(Server)
  <2>1. /\ Server \in ServerType /\ Server.dirs = dirs
        /\ Server.current.project = None /\ Server.manager = None
    BY <1>4, Names DEF Init, Server, ServerType, Nobody
  <2> QED BY <2>1, <1>4, <1>5, <1>6, <1>7 DEF Good, Pure
<1>9. Rest
    BY Names, ConstantsAssumption
    DEF Init, Rest, ReaderType, ReaderInv, JobType, JobInv, NoJob, ConstantsAssumption
<1> QED BY <1>8, <1>9, Whole

(* What the invariant gives a step.                                        *)
LEMMA Held ==
    ASSUME IInv
    PROVE  /\ Good(Server) /\ Pure(dirs) /\ Rest
           /\ Server.dirs = dirs /\ Server.current = current
           /\ Server.manager = manager
           /\ listed \in [Keys -> 1 .. Cardinality(Keys)]
           /\ current.project # None => current.project \in Paths
                                        /\ current.provider \in Providers
           /\ current.provider \in Keys
<1>1. Good(Server) /\ Rest
    BY Whole
<1>2. /\ Server.dirs = dirs /\ Server.current = current
      /\ Server.manager = manager
    BY DEF Server
<1>3. current \in [project : Paths \cup {None}, provider : Keys]
    BY DEF IInv, TypeOK
<1>4. current.project # None => current.provider # None
    BY <1>1, <1>2 DEF Good
<1> QED BY <1>1, <1>2, <1>3, <1>4, Names DEF Good, Rest

(* Other directories, or no manager, leave a server good.                  *)
LEMMA GoodExcept ==
    ASSUME NEW s, Good(s), NEW ds, Pure(ds)
    PROVE  LET t == [s EXCEPT !.dirs = ds]
               u == [s EXCEPT !.manager = None]
           IN  /\ Good(t) /\ t.dirs = ds /\ t.current = s.current
               /\ t.manager = s.manager
               /\ Good(u) /\ u.dirs = s.dirs /\ u.current = s.current
<1> DEFINE t == [s EXCEPT !.dirs = ds]
           u == [s EXCEPT !.manager = None]
<1>1. s \in ServerType /\ ds \in [Dirs -> DirType]
    BY DEF Good, Pure
<1>2. /\ t \in ServerType /\ t.dirs = ds /\ t.current = s.current
      /\ t.manager = s.manager
    BY <1>1 DEF ServerType
<1>3. /\ u \in ServerType /\ u.dirs = s.dirs /\ u.current = s.current
      /\ u.manager = None
    BY <1>1 DEF ServerType
<1> HIDE DEF t, u
<1>4. Good(t) /\ Good(u)
    BY <1>2, <1>3 DEF Good
<1> QED BY <1>2, <1>3, <1>4 DEF t, u

(* A run with the manager of its provider keeps every index.               *)
LEMMA RunPure ==
    ASSUME NEW ds, Pure(ds), NEW p \in Paths, NEW k \in Providers,
           listed \in [Keys -> 1 .. Cardinality(Keys)]
    PROVE  LET e == Embedder(ds, p, k)
               l == Located(e.dirs, p, k, TRUE)
           IN  /\ Pure(e.dirs) /\ Keeps(ds, e.dirs)
               /\ e.by # None =>
                    \A es \in {l.dirs} \cup Written(l.dirs, <<p, k>>, e.by) :
                        Pure(es) /\ Keeps(ds, es)
<1> DEFINE e == Embedder(ds, p, k)
           l == Located(e.dirs, p, k, TRUE)
<1>1. Pure(e.dirs) /\ Keeps(ds, e.dirs) /\ e.by \in {k, None}
    BY EmbedderRight
<1> HIDE DEF e
<1>2. Pure(l.dirs) /\ Keeps(e.dirs, l.dirs)
    BY <1>1, LocatedNamed
<1> HIDE DEF l
<1>3. Keeps(ds, l.dirs)
    BY <1>1, <1>2, KeepsTwice
<1>4. ASSUME NEW es \in Written(l.dirs, <<p, k>>, k)
      PROVE  Pure(es) /\ Keeps(ds, es)
  <2>1. Pure(es) /\ Keeps(l.dirs, es)
    BY <1>2, <1>4, WrittenPure
  <2> QED BY <2>1, <1>3, KeepsTwice
<1>5. e.by # None => \A es \in {l.dirs} \cup Written(l.dirs, <<p, k>>, e.by) :
                         Pure(es) /\ Keeps(ds, es)
    BY <1>1, <1>2, <1>3, <1>4
<1> QED BY <1>1, <1>5 DEF e, l

(* A search that reindexes does it for the active project and provider.    *)
LEMMA RefreshedGood ==
    ASSUME NEW s, Good(s), s.current.project # None, NEW r \in Refreshed(s),
           listed \in [Keys -> 1 .. Cardinality(Keys)]
    PROVE  Good(r) /\ Keeps(s.dirs, r.dirs) /\ r.current = s.current
<1> DEFINE p == s.current.project
           k == s.current.provider
           m == Managed(s, p, k)
           e == Embedder(m.dirs, p, k)
           l == Located(e.dirs, p, k, TRUE)
<1>1. /\ s.current \in [project : Paths \cup {None}, provider : Keys]
      /\ p \in Paths /\ k \in Providers /\ k \in Keys /\ k # None
    BY Names DEF Good, ServerType
<1>2. s.current = [project |-> p, provider |-> k]
    BY <1>1
<1> HIDE DEF p, k
<1>3. /\ Good(m) /\ Keeps(s.dirs, m.dirs) /\ m.manager = <<p, m.current.provider>>
      /\ m.current = [project |-> p, provider |-> IF k # None THEN k ELSE s.current.provider]
    BY <1>1, ManagedGood
<1>4. m.manager = <<p, k>> /\ m.current = s.current
    BY <1>1, <1>2, <1>3
<1> HIDE DEF m
<1>5. Pure(m.dirs)
    BY <1>3 DEF Good
<1>6. /\ Pure(e.dirs) /\ Keeps(m.dirs, e.dirs)
      /\ e.by # None => \A es \in {l.dirs} \cup Written(l.dirs, <<p, k>>, e.by) :
                            Pure(es) /\ Keeps(m.dirs, es)
    BY <1>1, <1>5, RunPure
<1>7. r \in IF e.by = None THEN {[m EXCEPT !.dirs = e.dirs]}
            ELSE {[m EXCEPT !.dirs = d]
                    : d \in {l.dirs} \cup Written(l.dirs, m.manager, e.by)}
    BY DEF Refreshed, p, k, m
<1> HIDE DEF e, l
<1>8. PICK ds : r = [m EXCEPT !.dirs = ds] /\ Pure(ds) /\ Keeps(m.dirs, ds)
    BY <1>4, <1>6, <1>7
<1>9. Good(r) /\ r.dirs = ds /\ r.current = m.current
  <2>1. Good(m) /\ Pure(ds) /\ r = [m EXCEPT !.dirs = ds]
    BY <1>3, <1>8
  <2> QED BY ONLY <2>1, GoodExcept
<1> QED BY <1>3, <1>4, <1>8, <1>9, KeepsTwice

(* A searcher has the manager and the embedder of one provider.            *)
LEMMA GetSearcherStep ==
    ASSUME IInv, ~Sourced, NEW s, Good(s), Keeps(dirs, s.dirs), s.current = current,
           NEW k \in Keys, k # None \/ current.provider # None, GetSearcher(s, k)
    PROVE  IInv' /\ Keeps(dirs, dirs')
<1> DEFINE n == Ensured(s)
           p == IF s.current.project # None THEN s.current.project ELSE Cwd
           m == Managed(n.server, p, k)
           e == Embedder(m.dirs, p, m.current.provider)
<1> USE Held
<1>1. p \in Paths
    BY Names
<1>2. Good(n.server) /\ Keeps(dirs, n.server.dirs) /\ n.server.current = current
      /\ n.job = job
  <2>1. CASE s.current.project # None
    BY <2>1 DEF Ensured
  <2>2. CASE s.current.project = None
    <3> DEFINE l == Located(s.dirs, Cwd, None, TRUE)
    <3>1. n = [server |-> [s EXCEPT !.dirs = l.dirs], job |-> job]
      BY <2>2 DEF Ensured
    <3>2. Pure(s.dirs) /\ TRUE \in BOOLEAN /\ None \in Keys /\ Cwd \in Paths
      BY Names DEF Good
    <3>3. /\ Pure(l.dirs) /\ Keeps(s.dirs, l.dirs)
          /\ l.at \in Dirs /\ l.at[1] = Cwd
          /\ None # None => l.at = <<Cwd, None>>
      BY <3>2, LocatedPure, Zenon
    <3> HIDE DEF l, n
    <3>4. LET t == [s EXCEPT !.dirs = l.dirs]
          IN  Good(t) /\ t.dirs = l.dirs /\ t.current = s.current
      BY <3>3, GoodExcept
    <3> QED BY <3>1, <3>3, <3>4, KeepsTwice
  <2> QED BY <2>1, <2>2
<1>3. /\ dirs' = e.dirs
      /\ current' = m.current
      /\ manager' = m.manager
      /\ reader' = IF e.by = None THEN reader ELSE [at |-> m.manager, by |-> e.by]
      /\ job' = n.job
      /\ UNCHANGED <<tears, listed>>
    BY DEF GetSearcher
<1> HIDE DEF n, p
<1>4. /\ Good(m) /\ Keeps(n.server.dirs, m.dirs) /\ m.current.provider \in Providers
      /\ m.manager = <<p, m.current.provider>>
  <2>1. PICK w : w = n.server
    OBVIOUS
  <2>2. Good(w) /\ (k # None \/ w.current.provider # None)
    BY <2>1, <1>2
  <2>3. m = Managed(w, p, k)
    BY <2>1
  <2> HIDE DEF m
  <2>4. /\ Good(m) /\ Keeps(w.dirs, m.dirs) /\ m.current.provider \in Providers
        /\ m.manager = <<p, m.current.provider>>
    BY <2>2, <2>3, <1>1, ManagedGood
  <2> QED BY <2>1, <2>4
<1> HIDE DEF m
<1>5. Pure(m.dirs)
    BY <1>4 DEF Good
<1>6. Pure(e.dirs) /\ Keeps(m.dirs, e.dirs) /\ e.by \in {m.current.provider, None}
    BY <1>1, <1>4, <1>5, EmbedderRight
<1> HIDE DEF e
<1>7. Keeps(dirs, e.dirs)
    BY <1>2, <1>4, <1>6, KeepsTwice
<1>8. Rest'
  <2>1. reader' \in ReaderType /\ (reader' # None => reader'.at[2] = reader'.by)
    <3>1. CASE e.by = None
      BY <3>1, <1>3 DEF Rest, ReaderInv
    <3>2. CASE e.by # None
      <4>1. m.manager \in Dirs /\ m.manager[2] = m.current.provider
        BY <1>1, <1>4, Names DEF Dirs
      <4> QED BY <4>1, <3>2, <1>3, <1>4, <1>6 DEF ReaderType
    <3> QED BY <3>1, <3>2
  <2> QED BY <2>1, <1>2, <1>3 DEF Rest, ReaderInv, JobInv
<1>10. IInv'
    BY <1>3, <1>4, <1>6, <1>8, WholeNext
<1> QED BY <1>3, <1>7, <1>10

(* A switch finds a directory of the project, and if that describes itself *)
(* also its provider.                                                      *)
LEMMA TargetRight ==
    ASSUME IInv, NEW p \in Paths, NEW k \in Keys
    PROVE  LET t == Target(p, k)
               d == t.dirs[t.at]
           IN  /\ Pure(t.dirs) /\ Keeps(dirs, t.dirs) /\ t.at \in Dirs
               /\ t.provider \in Keys
               /\ d.vectors # {} /\ d.info \in Providers => t.provider # None
<1> DEFINE filled == Indexes(dirs, p)
           old == dirs[<<p, None>>].info
           l   == Located(dirs, p, k, FALSE)
           t   == Target(p, k)
<1> USE Held
<1>1. filled \in SUBSET Dirs /\ \A d \in filled : dirs[d].info \in Providers
    BY DEF Indexes, Readable
<1>2. CASE k = None /\ filled # {}
  <2>1. t = [at |-> FirstOf(filled), dirs |-> dirs, provider |-> dirs[FirstOf(filled)].info]
    BY <1>2 DEF Target
  <2>2. FirstOf(filled) \in filled
    BY <1>1, <1>2, FirstIsOne
  <2> HIDE DEF t, filled
  <2>3. t.dirs = dirs /\ t.at \in Dirs /\ t.provider \in Providers
    BY <1>1, <2>1, <2>2
  <2> QED BY <2>3, KeepsTwice, Names DEF t
<1>3. CASE ~(k = None /\ filled # {}) /\ k = None /\ old \in Providers
           /\ Populated(dirs, <<p, old>>)
  <2>1. t = [at |-> <<p, old>>, dirs |-> dirs, provider |-> old]
    BY <1>3 DEF Target
  <2> HIDE DEF t
  <2>2. t.dirs = dirs /\ t.at \in Dirs /\ t.provider \in Providers
    BY <1>3, <2>1, Names DEF Dirs
  <2> QED BY <2>2, KeepsTwice, Names DEF t
<1>4. CASE /\ ~(k = None /\ filled # {})
           /\ ~(k = None /\ old \in Providers /\ Populated(dirs, <<p, old>>))
  <2>1. t = [at |-> l.at, dirs |-> l.dirs, provider |-> k]
    BY <1>4 DEF Target
  <2>2. /\ Pure(l.dirs) /\ Keeps(dirs, l.dirs)
        /\ l.at \in Dirs /\ l.at[1] = p
        /\ k # None => l.at = <<p, k>>
    <3>1. FALSE \in BOOLEAN
      OBVIOUS
    <3> QED BY <3>1, LocatedPure, Zenon
  <2>3. ASSUME k = None, l.dirs[l.at].vectors # {}, l.dirs[l.at].info \in Providers
        PROVE  FALSE
    <3>1. l.dirs = Created(dirs, l.at, None, FALSE)
      BY <2>3 DEF Located
    <3>2. /\ \A e \in Dirs : Created(dirs, l.at, None, FALSE)[e].vectors = dirs[e].vectors
          /\ \A e \in Dirs : Created(dirs, l.at, None, FALSE)[e].info = dirs[e].info
      <4>1. FALSE \in BOOLEAN /\ None \in Keys /\ ~FALSE
        BY Names
      <4> QED BY <4>1, <2>2, CreatedPure, Zenon
    <3> HIDE DEF l
    <3>3. dirs[l.at].vectors # {} /\ dirs[l.at].info \in Providers
      BY <2>2, <2>3, <3>1, <3>2
    <3>4. dirs[l.at].there
      BY <2>2, <3>3 DEF Pure, AbsentEmpty
    <3>5. l.at \in filled
      BY <2>2, <3>3, <3>4 DEF Indexes, Readable, Populated
    <3> QED BY <3>5, <2>3, <1>4
  <2> HIDE DEF t, l
  <2> QED BY <2>1, <2>2, <2>3 DEF t
<1> QED BY <1>2, <1>3, <1>4

(* What a step leaves alone keeps its part of the invariant.               *)
LEMMA RestSame ==
    ASSUME Rest, UNCHANGED <<tears, listed>>,
           reader' = reader \/ reader' = None, job' = job
    PROVE  Rest'
BY DEF Rest, ReaderInv, JobInv, ReaderType

LEMMA IndexDirectoryStep ==
    ASSUME IInv, ~Implicit, NEW p \in Paths, NEW k \in Keys, IndexDirectory(p, k)
    PROVE  IInv' /\ Keeps(dirs, dirs')
<1> DEFINE l == Located(dirs, p, k, TRUE)
<1> USE Held
<1>1. k \in Providers
    BY Names DEF IndexDirectory
<1>2. Pure(l.dirs) /\ Keeps(dirs, l.dirs) /\ l.at = <<p, k>> /\ l.at \in Dirs
    BY <1>1, LocatedNamed
<1>3. /\ dirs' = l.dirs
      /\ job' = [path |-> p, provider |-> k, target |-> l.at, wrote |-> None,
                 active |-> TRUE]
      /\ UNCHANGED <<current, manager, reader, tears, listed>>
    BY DEF IndexDirectory, Registered
<1> HIDE DEF l
<1>4. Rest'
    BY <1>1, <1>2, <1>3, Names DEF Rest, ReaderInv, JobInv, JobType, ReaderType
<1> QED BY <1>2, <1>3, <1>4, WholeNext

LEMMA WorkStep ==
    ASSUME IInv, Work
    PROVE  IInv' /\ Keeps(dirs, dirs')
<1> DEFINE s == [Server EXCEPT !.manager = None]
           p == job.path
           k == job.provider
           m == Managed(s, p, k)
           e == Embedder(m.dirs, p, k)
           l == Located(e.dirs, p, k, TRUE)
<1> USE Held
<1>1. /\ job.active /\ job \in JobType
      /\ p \in Paths /\ k \in Providers /\ k \in Keys /\ k # None
      /\ job.target = <<p, k>>
    BY Names DEF Work, Rest, JobInv
<1>2. Good(s) /\ s.dirs = dirs /\ s.current = current
    BY GoodExcept, Zenon
<1>3. /\ current' = m.current
      /\ manager' = m.manager
      /\ reader' = None
      /\ \/ /\ e.by = None
            /\ dirs' = e.dirs
            /\ job' = [job EXCEPT !.active = FALSE]
         \/ /\ e.by # None
            /\ dirs' \in {l.dirs} \cup Written(l.dirs, m.manager, e.by)
            /\ job' = [job EXCEPT !.active = FALSE, !.wrote = m.manager]
      /\ UNCHANGED <<tears, listed>>
    BY DEF Work
<1> HIDE DEF s, p, k
<1>4. /\ Good(m) /\ Keeps(dirs, m.dirs) /\ m.manager = <<p, k>>
  <2>1. LET n == Managed(s, p, k)
        IN  /\ Good(n) /\ Keeps(s.dirs, n.dirs)
            /\ n.current = [project |-> p,
                            provider |-> IF k # None THEN k ELSE s.current.provider]
            /\ n.current.provider \in Providers
            /\ n.manager = <<p, n.current.provider>>
    BY <1>1, <1>2, ManagedGood
  <2> QED BY <2>1, <1>1, <1>2
<1> HIDE DEF m
<1>5. Pure(m.dirs)
    BY <1>4 DEF Good
<1>6. /\ Pure(e.dirs) /\ Keeps(m.dirs, e.dirs)
      /\ e.by # None => \A es \in {l.dirs} \cup Written(l.dirs, <<p, k>>, e.by) :
                            Pure(es) /\ Keeps(m.dirs, es)
    BY <1>1, <1>5, RunPure
<1> HIDE DEF e, l
<1>7. Pure(dirs') /\ Keeps(m.dirs, dirs')
    BY <1>3, <1>4, <1>6
<1>8. job' \in JobType /\ ~job'.active /\ (job'.wrote # None => job'.wrote = job'.target)
  <2>1. <<p, k>> \in Dirs
    BY <1>1 DEF Dirs
  <2> QED BY <2>1, <1>1, <1>3, <1>4 DEF JobType, Rest, JobInv
<1>9. Rest'
    BY <1>3, <1>8 DEF Rest, JobInv, ReaderInv, ReaderType
<1>10. IInv'
    BY <1>3, <1>4, <1>7, <1>9, WholeNext
<1> QED BY <1>4, <1>7, <1>10, KeepsTwice

LEMMA SearchCodeStep ==
    ASSUME IInv, ~Implicit, ~Sourced, NEW k \in Keys, SearchCode(k)
    PROVE  IInv' /\ Keeps(dirs, dirs')
<1> USE Held
<1>1. k # None \/ current.provider # None
    BY DEF SearchCode, Definite
<1>2. PICK s \in {Server} \cup (IF current.project # None THEN Refreshed(Server) ELSE {}) :
        GetSearcher(s, k)
    BY DEF SearchCode
<1>3. Good(s) /\ Keeps(dirs, s.dirs) /\ s.current = current
  <2>1. CASE s = Server
    BY <2>1, KeepsTwice
  <2>2. CASE current.project # None /\ s \in Refreshed(Server)
    BY <2>2, RefreshedGood
  <2> QED BY <2>1, <2>2, <1>2
<1> QED BY <1>1, <1>2, <1>3, GetSearcherStep

LEMMA FindSimilarCodeStep ==
    ASSUME IInv, ~Implicit, ~Sourced, FindSimilarCode
    PROVE  IInv' /\ Keeps(dirs, dirs')
<1> USE Held
<1>1. None \in Keys /\ current.provider # None /\ GetSearcher(Server, None)
    BY Names DEF FindSimilarCode, Definite
<1>2. Good(Server) /\ Keeps(dirs, Server.dirs) /\ Server.current = current
    BY KeepsTwice
<1> QED BY <1>1, <1>2, GetSearcherStep

(* The manager a call without a provider gets for some project.            *)
LEMMA ManagedForProject ==
    ASSUME IInv, NEW p \in Paths, current.provider # None
    PROVE  LET m == Managed(Server, p, None)
           IN  Good(m) /\ Keeps(dirs, m.dirs) /\ m.manager \in Dirs
<1> DEFINE m == Managed(Server, p, None)
<1> USE Held
<1>1. PICK w : w = Server
    OBVIOUS
<1>2. Good(w) /\ w.current.provider # None /\ w.dirs = dirs /\ None \in Keys
    BY <1>1, Names
<1>3. m = Managed(w, p, None)
    BY <1>1
<1> HIDE DEF m
<1>4. Good(m) /\ Keeps(dirs, m.dirs) /\ m.manager = <<p, m.current.provider>>
      /\ m.current.provider \in Providers
    BY <1>2, <1>3, ManagedGood
<1>5. m.manager \in Dirs
    BY <1>4, Names DEF Dirs
<1> QED BY <1>4, <1>5 DEF m

LEMMA ConsultStep ==
    ASSUME IInv, ~Implicit, Consult
    PROVE  IInv' /\ Keeps(dirs, dirs')
<1> DEFINE p == IF current.project # None THEN current.project ELSE Cwd
           m == Managed(Server, p, None)
<1> USE Held
<1>1. p \in Paths /\ None \in Keys /\ current.provider # None
    BY Names DEF Consult, Definite
<1>2. /\ dirs' = m.dirs /\ current' = m.current /\ manager' = m.manager
      /\ UNCHANGED <<reader, job, tears, listed>>
    BY DEF Consult
<1> HIDE DEF p
<1>3. Good(m) /\ Keeps(dirs, m.dirs)
    BY <1>1, ManagedForProject
<1> HIDE DEF m
<1>4. Rest' /\ Pure(dirs')
    BY <1>2, <1>3, RestSame DEF Good
<1> QED BY <1>2, <1>3, <1>4, WholeNext

(* A cleared index is empty.                                               *)
LEMMA ClearIndexStep ==
    ASSUME IInv, ClearIndex
    PROVE  IInv'
<1> DEFINE m == Managed(Server, current.project, None)
           d == m.manager
           cleared == [m.dirs EXCEPT ![d].vectors = {}, ![d].made = None]
<1> USE Held
<1>1. current.project \in Paths /\ current.provider # None
    BY Names DEF ClearIndex
<1>2. Good(m) /\ d \in Dirs
    BY <1>1, ManagedForProject
<1>3. /\ dirs' = m.dirs \/ dirs' = cleared
      /\ current' = m.current
      /\ manager' = m.manager
      /\ UNCHANGED <<reader, job, tears, listed>>
    BY DEF ClearIndex
<1> HIDE DEF m
<1>4. Pure(m.dirs) /\ m.dirs \in [Dirs -> DirType]
    BY <1>2 DEF Good, Pure
<1>5. Pure(cleared)
  <2> DEFINE ds == m.dirs
             fs == [ds EXCEPT ![d].vectors = {}]
             es == [fs EXCEPT ![d].made = None]
  <2>1. cleared = es
    OBVIOUS
  <2>2. ds \in [Dirs -> DirType] /\ Pure(ds)
    BY <1>4
  <2> HIDE DEF ds
  <2>3. /\ fs \in [Dirs -> DirType] /\ fs[d].vectors = {}
        /\ \A e \in Dirs : fs[e].there = ds[e].there /\ fs[e].info = ds[e].info
        /\ \A e \in Dirs : e # d => fs[e].vectors = ds[e].vectors
    BY <1>2, <2>2 DEF DirType
  <2> HIDE DEF fs
  <2>4. /\ es \in [Dirs -> DirType] /\ es[d].vectors = {}
        /\ \A e \in Dirs : es[e].there = ds[e].there /\ es[e].info = ds[e].info
        /\ \A e \in Dirs : e # d => es[e].vectors = ds[e].vectors
    BY <1>2, <2>3, Names DEF DirType
  <2> HIDE DEF es
  <2>5. \A e \in Dirs : es[e].vectors \subseteq ds[e].vectors
    BY <2>4
  <2>6. \A p \in Paths, k \in Keys : <<p, k>> \in Dirs
    BY DEF Dirs
  <2>7. OwnVectors(es) /\ AbsentEmpty(es)
    BY <2>2, <2>4, <2>5, <2>6, Names DEF Pure, OwnVectors, AbsentEmpty
  <2>8. LegacyVectors(es)
    BY <2>2, <2>4, <2>5, <2>6, Names DEF Pure, LegacyVectors
  <2> QED BY <2>1, <2>4, <2>7, <2>8 DEF Pure
<1>6. Rest'
    BY <1>3, RestSame
<1> QED BY <1>2, <1>3, <1>4, <1>5, <1>6, WholeNext

(* Nobody is active: that is good with any pure directories.               *)
LEMMA NobodyNext ==
    ASSUME Pure(dirs'), current' = Nobody, manager' = None, Rest'
    PROVE  IInv'
<1> DEFINE m == [dirs |-> dirs', current |-> Nobody, manager |-> None]
<1>1. m.dirs = dirs' /\ m.current = Nobody /\ m.manager = None
    OBVIOUS
<1>2. m \in ServerType
    BY Names DEF Pure, ServerType, Nobody
<1> HIDE DEF m
<1>3. Good(m)
    BY <1>1, <1>2 DEF Good, Nobody
<1> QED BY <1>1, <1>3, WholeNext

(* A switch is to a provider, and leaves no manager.                       *)
LEMMA SwitchProjectStep ==
    ASSUME IInv, NEW p \in Paths, NEW k \in Keys, SwitchProject(p, k)
    PROVE  IInv' /\ Keeps(dirs, dirs')
<1> DEFINE t == Target(p, k)
           d == t.dirs[t.at]
           known == d.vectors # {} /\ (d.info \in Providers
                                       \/ FromManifest(d, t.provider) # None)
           r == IF d.info \in Providers THEN t.provider ELSE d.made
<1> USE Held
<1>1. /\ Pure(t.dirs) /\ Keeps(dirs, t.dirs) /\ t.at \in Dirs
      /\ t.provider \in Keys
      /\ d.vectors # {} /\ d.info \in Providers => t.provider # None
    BY TargetRight
<1>2. /\ dirs' = t.dirs
      /\ IF known
         THEN /\ current' = [project |-> p, provider |-> r]
              /\ manager' = None
              /\ reader' = None
         ELSE UNCHANGED <<current, manager, reader>>
      /\ UNCHANGED <<job, tears, listed>>
    BY DEF SwitchProject
<1>3. d \in DirType
    BY <1>1 DEF Pure
<1>4. known => r \in Keys /\ r # None
    BY <1>1, <1>3 DEF FromManifest, DirType
<1> HIDE DEF t, r, d, known
<1>5. Rest'
    BY <1>2, RestSame
<1>6. CASE known
  <2> DEFINE m == [dirs |-> t.dirs, current |-> [project |-> p, provider |-> r],
                   manager |-> None]
  <2>1. /\ m.dirs = t.dirs /\ m.current = [project |-> p, provider |-> r]
        /\ m.manager = None /\ m.current.provider = r
    OBVIOUS
  <2>2. m \in ServerType
    BY <1>1, <1>4, <1>6 DEF ServerType, Pure
  <2> HIDE DEF m
  <2>3. Good(m)
    BY <1>1, <1>4, <1>6, <2>1, <2>2 DEF Good
  <2> QED BY <1>1, <1>2, <1>5, <1>6, <2>1, <2>3, WholeNext
<1>7. CASE ~known
    BY <1>1, <1>2, <1>5, <1>7, WholeNext
<1> QED BY <1>6, <1>7

(* A directory that is removed leaves the others as they are.              *)
LEMMA RemoveStep ==
    ASSUME IInv, NEW d \in Dirs, Remove(d)
    PROVE  IInv'
<1> USE Held
<1>1. dirs \in [Dirs -> DirType] /\ Absent \in DirType
    BY Names DEF Pure, Absent, DirType
<1>2. /\ dirs' = [dirs EXCEPT ![d] = Absent]
      /\ \/ current' = Nobody /\ manager' = None /\ reader' = None
         \/ UNCHANGED <<current, manager, reader>>
      /\ UNCHANGED <<job, tears, listed>>
    BY DEF Remove
<1>3. /\ dirs' \in [Dirs -> DirType] /\ dirs'[d] = Absent
      /\ \A e \in Dirs : e # d => dirs'[e] = dirs[e]
    BY <1>1, <1>2
<1>4. Pure(dirs')
  <2>1. \A p \in Paths, k \in Keys : <<p, k>> \in Dirs
    BY DEF Dirs
  <2>2. \A e \in Dirs : dirs'[e] = dirs[e] \/ dirs'[e] = Absent
    BY <1>3
  <2>3. Absent.vectors = {} /\ Absent.info = None
    BY DEF Absent
  <2>4. OwnVectors(dirs') /\ AbsentEmpty(dirs')
    BY <2>1, <2>2, <2>3, Names DEF Pure, OwnVectors, AbsentEmpty
  <2>5. LegacyVectors(dirs')
    BY <2>1, <2>2, <2>3, Names DEF Pure, LegacyVectors
  <2> QED BY <1>3, <2>4, <2>5 DEF Pure
<1>5. Rest'
    BY <1>2, RestSame
<1>6. CASE current' = Nobody /\ manager' = None
    BY <1>4, <1>5, <1>6, NobodyNext
<1>7. CASE UNCHANGED <<current, manager>>
    BY <1>4, <1>5, <1>7, WholeNext
<1> QED BY <1>2, <1>6, <1>7

(* A server that starts again knows nothing.                               *)
LEMMA NothingKnown ==
    ASSUME Rest, reader' = None, job' = NoJob, tears' \in 0 .. MaxTears, listed' = listed
    PROVE  Rest'
BY Names DEF Rest, ReaderType, ReaderInv, JobType, JobInv, NoJob

LEMMA RestartStep ==
    ASSUME IInv, Restart
    PROVE  IInv' /\ Keeps(dirs, dirs')
<1> USE Held
<1>1. /\ current' = Nobody /\ manager' = None /\ reader' = None /\ job' = NoJob
      /\ UNCHANGED <<dirs, tears, listed>> /\ tears' \in 0 .. MaxTears
    BY DEF Restart, Rest
<1>2. Rest' /\ Pure(dirs')
    BY <1>1, NothingKnown
<1> QED BY <1>1, <1>2, NobodyNext, KeepsTwice

(* A torn project_info.json changes no vectors.                            *)
LEMMA TearStep ==
    ASSUME IInv, NEW d \in Dirs, Tear(d)
    PROVE  IInv' /\ Keeps(dirs, dirs')
<1> USE Held
<1>1. dirs \in [Dirs -> DirType]
    BY DEF Pure
<1>2. /\ dirs[d].there
      /\ dirs' = [dirs EXCEPT ![d].info = Broken]
      /\ current' = Nobody /\ manager' = None /\ reader' = None /\ job' = NoJob
      /\ listed' = listed /\ tears' \in 0 .. MaxTears
    BY ConstantsAssumption DEF Tear, Rest, ConstantsAssumption
<1>3. /\ dirs' \in [Dirs -> DirType]
      /\ \A e \in Dirs : dirs'[e].vectors = dirs[e].vectors
                         /\ dirs'[e].there = dirs[e].there
      /\ \A e \in Dirs : dirs'[e].info = dirs[e].info \/ dirs'[e].info = Broken
    BY <1>1, <1>2 DEF DirType
<1>4. \A p \in Paths, k \in Keys : <<p, k>> \in Dirs
    BY DEF Dirs
<1>5. OwnVectors(dirs') /\ AbsentEmpty(dirs') /\ Keeps(dirs, dirs')
    BY <1>3, <1>4, Names DEF Pure, OwnVectors, AbsentEmpty, Keeps
<1>6. LegacyVectors(dirs')
    BY <1>3, <1>4, Names DEF Pure, LegacyVectors
<1>7. Rest' /\ Pure(dirs')
    BY <1>2, <1>3, <1>5, <1>6, NothingKnown DEF Pure
<1> QED BY <1>2, <1>5, <1>7, NobodyNext

(* An index that a step keeps is where it was, or where none was.          *)
LEMMA KeepsKept ==
    ASSUME Keeps(dirs, dirs'), NEW d \in Dirs, Populated(dirs, d)
    PROVE  Kept(d)
<1>1. PICK p \in Paths, k \in Keys : d = <<p, k>>
    BY DEF Dirs
<1>2. CASE k \in Providers
  <2>1. dirs'[d].vectors = dirs[d].vectors
    BY <1>1, <1>2 DEF Keeps
  <2> QED BY <2>1 DEF Kept
<1>3. CASE k = None
  <2>1. CASE dirs'[d].vectors = dirs[d].vectors
    BY <2>1 DEF Kept
  <2>2. ASSUME NEW l \in Providers, ~Populated(dirs, <<p, l>>),
               dirs'[<<p, l>>].vectors = dirs[<<p, None>>].vectors
        PROVE  Kept(d)
    <3>1. <<p, l>> \in Dirs /\ <<p, l>>[1] = d[1]
      BY <1>1, Names DEF Dirs
    <3> QED BY <1>1, <1>3, <2>2, <3>1 DEF Kept
  <2> QED BY <1>1, <1>3, <2>1, <2>2 DEF Keeps
<1> QED BY <1>2, <1>3, Names

(* What every step does: the invariant stays, and each index is kept,      *)
(* removed by name or cleared.                                             *)
LEMMA StepHolds ==
    ASSUME ~Implicit, ~Sourced, IInv, [Next]_vars
    PROVE  /\ IInv'
           /\ \A d \in Dirs : Populated(dirs, d) => (Kept(d) \/ Removed(d))
<1>1. ASSUME IInv' /\ Keeps(dirs, dirs')
      PROVE  /\ IInv'
             /\ \A d \in Dirs : Populated(dirs, d) => (Kept(d) \/ Removed(d))
    BY <1>1, KeepsKept
<1>2. ASSUME NEW p \in Paths, NEW k \in Keys, IndexDirectory(p, k)
      PROVE  IInv' /\ Keeps(dirs, dirs')
    BY <1>2, IndexDirectoryStep
<1>3. ASSUME Work PROVE IInv' /\ Keeps(dirs, dirs')
    BY <1>3, WorkStep
<1>4. ASSUME NEW k \in Keys, SearchCode(k) PROVE IInv' /\ Keeps(dirs, dirs')
    BY <1>4, SearchCodeStep
<1>5. ASSUME FindSimilarCode PROVE IInv' /\ Keeps(dirs, dirs')
    BY <1>5, FindSimilarCodeStep
<1>6. ASSUME Consult PROVE IInv' /\ Keeps(dirs, dirs')
    BY <1>6, ConsultStep
<1>7. ASSUME ClearIndex
      PROVE  IInv' /\ \A d \in Dirs : Removed(d)
    BY <1>7, ClearIndexStep DEF Removed
<1>8. ASSUME NEW p \in Paths, NEW k \in Keys, SwitchProject(p, k)
      PROVE  IInv' /\ Keeps(dirs, dirs')
    BY <1>8, SwitchProjectStep
<1>9. ASSUME NEW p \in Paths, NEW k \in Keys, DeleteProject(p, k)
      PROVE  /\ IInv'
             /\ \A d \in Dirs : Kept(d) \/ Removed(d)
  <2>1. PICK e \in Matching(p, k) : Remove(e)
    BY <1>9 DEF DeleteProject
  <2>2. e \in Dirs
    BY DEF Matching, Dirs
  <2>3. Removed(e)
    BY <2>1 DEF Removed
  <2>4. ASSUME NEW d \in Dirs, d # e PROVE Kept(d)
    <3>1. dirs'[d] = dirs[d]
      BY <2>1, <2>2, <2>4, Held DEF Remove, Pure
    <3> QED BY <3>1 DEF Kept
  <2> QED BY <2>1, <2>2, <2>3, <2>4, RemoveStep
<1>10. ASSUME Restart PROVE IInv' /\ Keeps(dirs, dirs')
    BY <1>10, RestartStep
<1>11. ASSUME NEW d \in Dirs, Tear(d) PROVE IInv' /\ Keeps(dirs, dirs')
    BY <1>11, TearStep
<1>12. ASSUME UNCHANGED vars PROVE IInv' /\ Keeps(dirs, dirs')
  <2>1. Rest' /\ Pure(dirs') /\ Good(Server)
    BY <1>12, Held, RestSame DEF vars
  <2> QED BY <1>12, <2>1, Held, WholeNext, KeepsTwice DEF vars
<1> QED BY <1>1, <1>2, <1>3, <1>4, <1>5, <1>6, <1>7, <1>8, <1>9, <1>10, <1>11, <1>12
        DEF Next

-----------------------------------------------------------------------------
(* The theorems.                                                           *)

(* The inductive invariant: directories hold vectors of their provider, or *)
(* if they are legacy of the one they name, and what the server has cached *)
(* is of the active project and provider.                                  *)
THEOREM StorageInvariantHolds ==
    ASSUME ~Implicit, ~Sourced
    PROVE  Spec => []IInv
<1>1. IInv /\ [Next]_vars => IInv'
    BY StepHolds
<1> QED BY <1>1, InvInit, PTL DEF Spec

(* Every variable keeps its type.                                          *)
THEOREM StorageTypeCorrect ==
    ASSUME ~Implicit, ~Sourced
    PROVE  Spec => []TypeOK
<1>1. IInv => TypeOK
    BY DEF IInv
<1> QED BY <1>1, StorageInvariantHolds, PTL

(* The index of a project and a provider holds vectors of that provider    *)
(* only, for any projects, providers and torn files.                       *)
THEOREM VectorsOfProviderHolds ==
    ASSUME ~Implicit, ~Sourced
    PROVE  Spec => []VectorsOfProvider
<1>1. IInv => VectorsOfProvider
    BY Held DEF Pure, OwnVectors, VectorsOfProvider
<1> QED BY <1>1, StorageInvariantHolds, PTL

(* The searcher in use embeds queries with the provider that embedded the  *)
(* chunks it searches.                                                     *)
THEOREM QueryMatchesVectorsHolds ==
    ASSUME ~Implicit, ~Sourced
    PROVE  Spec => []QueryMatchesVectors
<1>1. IInv => QueryMatchesVectors
  <2> SUFFICES ASSUME IInv, reader # None
               PROVE  dirs[reader.at].vectors \subseteq {reader.by}
    BY DEF QueryMatchesVectors
  <2>1. reader \in [at : Dirs, by : Providers] /\ reader.at[2] = reader.by
    BY Held DEF Rest, ReaderInv, ReaderType
  <2>2. PICK p \in Paths, k \in Keys : reader.at = <<p, k>>
    BY <2>1 DEF Dirs
  <2>3. k = reader.by /\ k \in Providers
    BY <2>1, <2>2
  <2> QED BY <2>2, <2>3, Held DEF Pure, OwnVectors
<1> QED BY <1>1, StorageInvariantHolds, PTL

(* A job writes the index in the directory it was registered with.         *)
THEOREM JobIndexesItsTargetHolds ==
    ASSUME ~Implicit, ~Sourced
    PROVE  Spec => []JobIndexesItsTarget
<1>1. IInv => JobIndexesItsTarget
    BY DEF IInv, JobInv, JobIndexesItsTarget
<1> QED BY <1>1, StorageInvariantHolds, PTL

(* Only a deletion, a clearing and a run that indexes drop an index.       *)
THEOREM IndexesKeptHolds ==
    ASSUME ~Implicit, ~Sourced
    PROVE  Spec => IndexesKept
<1>1. IInv /\ [Next]_vars =>
        [\A d \in Dirs : Populated(dirs, d) => (Kept(d) \/ Removed(d))]_vars
    BY StepHolds
<1> QED BY <1>1, StorageInvariantHolds, PTL DEF Spec, IndexesKept
=============================================================================
