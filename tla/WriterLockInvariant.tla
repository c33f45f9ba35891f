------------------------- MODULE WriterLockInvariant -------------------------
(***************************************************************************)
(* The inductive invariants behind the safety of WriterLock.  FilesInv     *)
(* holds whatever forked processes do, InsideInv if they are alone until   *)
(* they have reset the lock object.                                        *)
(***************************************************************************)
EXTENDS WriterLock

\* A thread that does not exist, and a process that has not reset its copy of
\* the lock object, are not on their way to the lock.
PlaceInv ==
    \A p \in Procs, t \in Threads :
        /\ t \notin threads[p] => pc[p][t] = "run" /\ own[p][t] = 0
        /\ pc[p][t] \in {"lock", "flock", "stuck"} => mine[p]
        /\ pc[p][t] = "flock" <=> opened[p][t] # Nil

\* A context that notes the process id was entered after the reset.
PidInv == \A p \in Procs : \A i \in 1..Len(pids[p]) : pids[p][i] => mine[p]

\* A process shares the descriptions it has a handle of.
SharedInv ==
    \A p \in Procs :
        /\ handle[p] # Nil => p \in sharers[handle[p]]
        /\ \A t \in Threads :
             opened[p][t] # Nil => p \in sharers[opened[p][t]]

\* No description is in use twice, but by a fork that has not reset yet.
DistinctInv ==
    \A p \in Procs :
        /\ \A q \in Procs : (/\ mine[p] /\ mine[q]
                             /\ handle[p] = handle[q] /\ handle[p] # Nil)
                            => p = q
        /\ \A t \in Threads : opened[p][t] # Nil =>
             /\ \A q \in Procs : mine[q] => handle[q] # opened[p][t]
             /\ \A q \in Procs, u \in Threads :
                  opened[q][u] = opened[p][t] => q = p /\ u = t

FilesInv == LockTypeOK /\ PlaceInv /\ PidInv /\ SharedInv /\ DistinctInv

\* A thread about to reset is the only one of a process that has not; one
\* that waits for the file has the thread lock of an object nobody holds.
WaitInv ==
    \A p \in Procs, t \in Threads :
        /\ pc[p][t] \in {"reset", "resetOnExit"} => ~mine[p]
        /\ pc[p][t] = "flock" => mutex[p].by = t /\ depth[p] = 0

\* Who is inside owns the object of its process, which has the file lock.
OwnInv ==
    \A p \in Procs :
        /\ \A t \in Threads :
             own[p][t] > 0 => /\ mine[p] /\ owner[p] = t
                              /\ own[p][t] <= depth[p]
        /\ mine[p] /\ depth[p] > 0 => /\ handle[p] # Nil
                                      /\ locked = handle[p]

InsideInv == FilesInv /\ WaitInv /\ OwnInv
==============================================================================
