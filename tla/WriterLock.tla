------------------------------ MODULE WriterLock ------------------------------
(***************************************************************************)
(* The writer lock of one index directory: _InterProcessWriterLock in      *)
(* search/indexer.py.  Every process has one object for it, shared by its  *)
(* threads: a thread lock, a count of nested acquisitions and the handle   *)
(* of a lock file under flock.  A fork copies that object, held or not,    *)
(* and duplicates its file descriptor; the copy still has the process id   *)
(* of the parent, by which the child knows it and resets it.               *)
(*                                                                         *)
(* A thread that enters a `with' block tests the process id, may reset,    *)
(* waits for the thread lock and then for the file lock; each of these is  *)
(* a step, and so is leaving the block.  Forks and crashes happen at any   *)
(* point.                                                                  *)
(***************************************************************************)
EXTENDS Naturals, Sequences, FiniteSets

CONSTANTS
    Procs,       \* process slots
    Initial,     \* the processes that run at first, none a fork of another
    Threads,     \* thread identifiers within a process
    Main,        \* the thread a process starts with
    Opens,       \* open-file descriptions of the lock file
    Faulty,      \* processes that may die, or whose system calls may fail
    MaxNest,     \* bound: `with' blocks a thread is inside of
    Nil

ASSUME LockConstants ==
    /\ Initial \subseteq Procs /\ Faulty \subseteq Procs
    /\ Main \in Threads
    /\ Nil \notin Threads \cup Opens
    /\ MaxNest \in Nat \ {0}

VARIABLES
    threads,     \* threads[p]: the threads of process p, {} if it is not there
    mine,        \* mine[p]: the lock object of p has p's own process id
    mutex,       \* mutex[p]: the thread lock: who has it, and how often
    depth,       \* depth[p]: nested acquisitions
    owner,       \* owner[p]: the thread that made them
    handle,      \* handle[p]: the locked file
    pids,        \* pids[p]: one entry per open context, TRUE if p opened it
    pc,          \* pc[p][t]: where thread t of p is
    opened,      \* opened[p][t]: a file t has opened and waits to lock
    own,         \* own[p][t]: `with' blocks t has entered in this process
    inherited,   \* inherited[p][t]: blocks t was in when p was forked
    sharers,     \* sharers[d]: processes with a descriptor on description d
    locked       \* the description that has the file lock

object   == <<mine, mutex, depth, owner, handle>>
blocks   == <<own, inherited>>
files    == <<sharers, locked>>
lockVars == <<threads, object, pids, pc, opened, blocks, files>>
------------------------------------------------------------------------------
Unlocked == [by |-> Nil, count |-> 0]

LockTypeOK ==
    /\ threads \in [Procs -> SUBSET Threads]
    /\ mine \in [Procs -> BOOLEAN]
    /\ mutex \in [Procs -> [by : Threads \cup {Nil}, count : Nat]]
    /\ depth \in [Procs -> Nat]
    /\ owner \in [Procs -> Threads \cup {Nil}]
    /\ handle \in [Procs -> Opens \cup {Nil}]
    /\ pids \in [Procs -> Seq(BOOLEAN)]
    /\ pc \in [Procs -> [Threads -> {"run", "reset", "lock", "flock",
                                     "resetOnExit", "stuck"}]]
    /\ opened \in [Procs -> [Threads -> Opens \cup {Nil}]]
    /\ own \in [Procs -> [Threads -> Nat]]
    /\ inherited \in [Procs -> [Threads -> Nat]]
    /\ sharers \in [Opens -> SUBSET Procs]
    /\ locked \in Opens \cup {Nil}

LockInit ==
    /\ threads = [p \in Procs |-> IF p \in Initial THEN {Main} ELSE {}]
    /\ mine = [p \in Procs |-> TRUE]
    /\ mutex = [p \in Procs |-> Unlocked]
    /\ depth = [p \in Procs |-> 0]
    /\ owner = [p \in Procs |-> Nil]
    /\ handle = [p \in Procs |-> Nil]
    /\ pids = [p \in Procs |-> <<>>]
    /\ pc = [p \in Procs |-> [t \in Threads |-> "run"]]
    /\ opened = [p \in Procs |-> [t \in Threads |-> Nil]]
    /\ own = [p \in Procs |-> [t \in Threads |-> 0]]
    /\ inherited = [p \in Procs |-> [t \in Threads |-> 0]]
    /\ sharers = [d \in Opens |-> {}]
    /\ locked = Nil
------------------------------------------------------------------------------
Goto(p, t, l) == pc' = [pc EXCEPT ![p][t] = l]

Taken(m, t) == [by |-> t, count |-> m.count + 1]
Given(m) == IF m.count > 1 THEN [m EXCEPT !.count = @ - 1] ELSE Unlocked

\* Process p closes its descriptor on d: flock ends with the last one.
Close(p, d) ==
    /\ sharers' = IF d = Nil THEN sharers
                  ELSE [sharers EXCEPT ![d] = @ \ {p}]
    /\ locked' = IF locked # Nil /\ sharers'[locked] = {} THEN Nil ELSE locked

\* LOCK_UN ends the lock for everybody who shares the description.
Unlock(p, d) ==
    /\ sharers' = [sharers EXCEPT ![d] = @ \ {p}]
    /\ locked' = IF locked = d THEN Nil ELSE locked
------------------------------------------------------------------------------
(***************************************************************************)
(* Entering a block.                                                       *)
(***************************************************************************)

\* acquire tests the process id, in _reset_after_fork.
Enter(p, t) ==
    /\ t \in threads[p] /\ pc[p][t] = "run"
    /\ own[p][t] + inherited[p][t] < MaxNest
    /\ Goto(p, t, IF mine[p] THEN "lock" ELSE "reset")
    /\ UNCHANGED <<threads, object, pids, opened, blocks, files>>

\* Mutant of ResetObject: the copied count and owner are kept.
ResetHandleOnly(p) ==
    /\ mine' = [mine EXCEPT ![p] = TRUE]
    /\ mutex' = [mutex EXCEPT ![p] = Unlocked]
    /\ handle' = [handle EXCEPT ![p] = Nil]
    /\ UNCHANGED <<depth, owner>>

ResetObject(p) ==
    /\ mine' = [mine EXCEPT ![p] = TRUE]
    /\ mutex' = [mutex EXCEPT ![p] = Unlocked]
    /\ depth' = [depth EXCEPT ![p] = 0]
    /\ owner' = [owner EXCEPT ![p] = Nil]
    /\ handle' = [handle EXCEPT ![p] = Nil]

\* Threads that wait for a thread lock that has been replaced wait for good:
\* its owner will release the new one.
AfterReset(p, t) ==
    [u \in Threads |->
       IF u = t THEN IF pc[p][t] = "reset" THEN "lock" ELSE "run"
       ELSE IF pc[p][u] = "lock" /\ mutex[p].by # Nil THEN "stuck"
       ELSE pc[p][u]]

\* Mutant of Reset: the inherited handle is unlocked, not only closed.
ResetUnlocking(p, t) ==
    /\ pc[p][t] \in {"reset", "resetOnExit"}
    /\ IF handle[p] = Nil THEN UNCHANGED files ELSE Unlock(p, handle[p])
    /\ ResetObject(p)
    /\ pc' = [pc EXCEPT ![p] = AfterReset(p, t)]
    /\ UNCHANGED <<threads, pids, opened, blocks>>

\* The rest of _reset_after_fork.
Reset(p, t) ==
    /\ pc[p][t] \in {"reset", "resetOnExit"}
    /\ Close(p, handle[p])
    /\ ResetObject(p)
    /\ pc' = [pc EXCEPT ![p] = AfterReset(p, t)]
    /\ UNCHANGED <<threads, pids, opened, blocks>>

\* The thread lock is free or already t's; nobody has the object: open the
\* lock file.
TakeThreadLock(p, t) ==
    /\ pc[p][t] = "lock" /\ mutex[p].by \in {Nil, t} /\ depth[p] = 0
    /\ mutex' = [mutex EXCEPT ![p] = Taken(@, t)]
    /\ \E d \in {e \in Opens : sharers[e] = {}} :
         /\ opened' = [opened EXCEPT ![p][t] = d]
         /\ sharers' = [sharers EXCEPT ![d] = {p}]
    /\ Goto(p, t, "flock")
    /\ UNCHANGED <<threads, mine, depth, owner, handle, pids, blocks, locked>>

\* A context is entered: __enter__ notes the process id.
EnterBlock(p, t) ==
    /\ depth' = [depth EXCEPT ![p] = @ + 1]
    /\ pids' = [pids EXCEPT ![p] = Append(@, TRUE)]
    /\ own' = [own EXCEPT ![p][t] = @ + 1]

TakeFileLock(p, t) ==
    /\ pc[p][t] = "flock" /\ locked = Nil
    /\ locked' = opened[p][t]
    /\ handle' = [handle EXCEPT ![p] = opened[p][t]]
    /\ opened' = [opened EXCEPT ![p][t] = Nil]
    /\ owner' = [owner EXCEPT ![p] = t]
    /\ EnterBlock(p, t)
    /\ Goto(p, t, "run")
    /\ UNCHANGED <<threads, mine, mutex, inherited, sharers>>

\* The thread that has the lock enters another block; a thread that finds
\* the object taken by somebody else raises.
TakeAgain(p, t) ==
    /\ pc[p][t] = "lock" /\ mutex[p].by \in {Nil, t} /\ depth[p] > 0
    /\ IF owner[p] = t
       THEN EnterBlock(p, t) /\ mutex' = [mutex EXCEPT ![p] = Taken(@, t)]
       ELSE UNCHANGED <<depth, pids, own, mutex>>
    /\ Goto(p, t, "run")
    /\ UNCHANGED <<threads, mine, owner, handle, opened, inherited, files>>

\* Opening or locking the file fails, or the wait is interrupted.
AcquireFails(p, t) ==
    /\ p \in Faulty /\ pc[p][t] = "flock"
    /\ Close(p, opened[p][t])
    /\ opened' = [opened EXCEPT ![p][t] = Nil]
    /\ mutex' = [mutex EXCEPT ![p] = Given(@)]
    /\ Goto(p, t, "run")
    /\ UNCHANGED <<threads, mine, depth, owner, handle, pids, blocks>>
------------------------------------------------------------------------------
(***************************************************************************)
(* Leaving a block, and what the operating system does to processes.       *)
(***************************************************************************)
\* A block is left, in the process that entered it or in a fork of that one.
LeaveBlock(p, t) ==
    IF own[p][t] > 0
    THEN own' = [own EXCEPT ![p][t] = @ - 1] /\ UNCHANGED inherited
    ELSE inherited' = [inherited EXCEPT ![p][t] = @ - 1] /\ UNCHANGED own

\* What pids[p] has for the block, LIFO whoever entered it.
LastPid(p) == pids[p][Len(pids[p])]
PopPid(p) == pids' = [pids EXCEPT ![p] = SubSeq(@, 1, Len(@) - 1)]

Leaving(p, t) ==
    /\ t \in threads[p] /\ pc[p][t] = "run"
    /\ own[p][t] + inherited[p][t] > 0
    /\ LeaveBlock(p, t)

Owns(p, t) == depth[p] > 0 /\ owner[p] = t /\ handle[p] # Nil

\* Mutant of LetGo: the handle of the closed file is not forgotten.
LetGoKeepingHandle(p) ==
    /\ Unlock(p, handle[p])
    /\ owner' = [owner EXCEPT ![p] = Nil]
    /\ UNCHANGED handle

LetGo(p) ==
    /\ Unlock(p, handle[p])
    /\ owner' = [owner EXCEPT ![p] = Nil]
    /\ handle' = [handle EXCEPT ![p] = Nil]

\* Mutant of Exit: the last release keeps the thread lock.
ExitHoldingMutex(p, t) ==
    /\ Leaving(p, t) /\ pids[p] # <<>> /\ LastPid(p) /\ Owns(p, t)
    /\ PopPid(p)
    /\ depth' = [depth EXCEPT ![p] = @ - 1]
    /\ IF depth[p] = 1 THEN LetGo(p) ELSE UNCHANGED <<owner, handle, files>>
    /\ UNCHANGED <<threads, mine, mutex, pc, opened>>

\* The owner leaves a block it entered in this process.
Exit(p, t) ==
    /\ Leaving(p, t) /\ pids[p] # <<>> /\ LastPid(p) /\ Owns(p, t)
    /\ PopPid(p)
    /\ depth' = [depth EXCEPT ![p] = @ - 1]
    /\ IF depth[p] = 1 THEN LetGo(p) ELSE UNCHANGED <<owner, handle, files>>
    /\ mutex' = [mutex EXCEPT ![p] = Given(@)]
    /\ UNCHANGED <<threads, mine, pc, opened>>

\* A block of the parent's: nothing is released, at most the object is reset.
ExitInherited(p, t) ==
    /\ Leaving(p, t) /\ pids[p] # <<>> /\ ~LastPid(p)
    /\ PopPid(p)
    /\ Goto(p, t, IF mine[p] THEN "run" ELSE "resetOnExit")
    /\ UNCHANGED <<threads, object, opened, files>>

\* release or __exit__ raises: not the owner, or no context is noted.
ExitRaises(p, t) ==
    /\ Leaving(p, t)
    /\ IF pids[p] = <<>> THEN UNCHANGED pids
       ELSE LastPid(p) /\ ~Owns(p, t) /\ PopPid(p)
    /\ UNCHANGED <<threads, object, pc, opened, files>>

Spawn(p, t) ==
    /\ threads[p] # {} /\ t \notin threads[p]
    /\ threads' = [threads EXCEPT ![p] = @ \cup {t}]
    /\ UNCHANGED <<object, pids, pc, opened, blocks, files>>

\* Thread t of p forks: c has that thread only, and copies of the rest.
Fork(p, t, c) ==
    /\ t \in threads[p] /\ pc[p][t] = "run"
    /\ threads[c] = {} /\ c \notin Initial
    /\ threads' = [threads EXCEPT ![c] = {t}]
    /\ mine' = [mine EXCEPT ![c] = FALSE]
    /\ mutex' = [mutex EXCEPT ![c] = mutex[p]]
    /\ depth' = [depth EXCEPT ![c] = depth[p]]
    /\ owner' = [owner EXCEPT ![c] = owner[p]]
    /\ handle' = [handle EXCEPT ![c] = handle[p]]
    /\ pids' = [pids EXCEPT ![c] = [i \in 1..Len(pids[p]) |-> FALSE]]
    /\ inherited' = [inherited EXCEPT ![c][t] = own[p][t] + inherited[p][t]]
    /\ sharers' = [d \in Opens |-> IF p \in sharers[d] THEN sharers[d] \cup {c}
                                   ELSE sharers[d]]
    /\ UNCHANGED <<pc, opened, own, locked>>

\* A process dies: the operating system closes what it had open.
Crash(p) ==
    /\ p \in Faulty /\ threads[p] # {}
    /\ threads' = [threads EXCEPT ![p] = {}]
    /\ sharers' = [d \in Opens |-> sharers[d] \ {p}]
    /\ locked' = IF locked # Nil /\ sharers'[locked] = {} THEN Nil ELSE locked
    /\ ResetObject(p)
    /\ pids' = [pids EXCEPT ![p] = <<>>]
    /\ pc' = [pc EXCEPT ![p] = [t \in Threads |-> "run"]]
    /\ opened' = [opened EXCEPT ![p] = [t \in Threads |-> Nil]]
    /\ own' = [own EXCEPT ![p] = [t \in Threads |-> 0]]
    /\ inherited' = [inherited EXCEPT ![p] = [t \in Threads |-> 0]]
------------------------------------------------------------------------------
\* What a thread does once it waits for the lock or leaves a block.
Proceed(p, t) ==
    \/ Reset(p, t) \/ TakeThreadLock(p, t) \/ TakeFileLock(p, t)
    \/ TakeAgain(p, t)

Release(p, t) == Exit(p, t) \/ ExitInherited(p, t) \/ ExitRaises(p, t)

LockNext ==
    \E p \in Procs :
        \/ \E t \in Threads :
             \/ Proceed(p, t) \/ Release(p, t) \/ Enter(p, t)
             \/ AcquireFails(p, t) \/ Spawn(p, t)
             \/ \E c \in Procs : Fork(p, t, c)
        \/ Crash(p)

LockSpec == LockInit /\ [][LockNext]_lockVars

\* A thread in acquire keeps running, and work inside a block ends.
Fairness == \A p \in Procs, t \in Threads :
                WF_lockVars(Proceed(p, t)) /\ WF_lockVars(Release(p, t))

FairSpec == LockSpec /\ Fairness
------------------------------------------------------------------------------
(***************************************************************************)
(* Properties.                                                             *)
(***************************************************************************)
Inside(p, t) == own[p][t] > 0

\* Two threads, of one process or of two, are never inside blocks they have
\* entered themselves: acquire, release and _reset_after_fork (indexer.py
\* 203-217, 271-316) keep each other out across forks and crashes.
MutualExclusion ==
    \A p, q \in Procs : \A t, u \in Threads :
        Inside(p, t) /\ Inside(q, u) => p = q /\ t = u

\* Process p has the file lock and does not move.
Idle(p) ==
    /\ mine[p] /\ handle[p] # Nil /\ handle[p] = locked
    /\ UNCHANGED <<threads[p], pc[p], own[p], depth[p]>>

LockKept == \A p \in Procs : Idle(p) => locked' = locked

\* The file lock that a process has taken is never ended by another process,
\* a fork of it included (indexer.py 208-213, 288-299).
KeptFromOthers == [][LockKept]_lockVars

Waits(p) == \E t \in Threads : pc[p][t] \in {"lock", "flock"}
SomebodyInside == \E p \in Procs, t \in Threads : Inside(p, t)

\* As long as nobody stays inside, and whatever becomes of faulty processes,
\* somebody gets in when a process waits (indexer.py 271-316).
Granted == \A p \in Procs \ Faulty : Waits(p) ~> SomebodyInside

\* A condition on what forked processes do: one whose lock object is still
\* that of its parent has one thread.
ResetAlone == \A p \in Procs : ~mine[p] => \A t, u \in threads[p] : t = u
==============================================================================
