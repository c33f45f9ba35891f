------------------------- MODULE PublicationInvariant -------------------------
(***************************************************************************)
(* The inductive invariant behind the safety of Publication, in named      *)
(* parts, and the condition on its environment: rollbacks that             *)
(* IncrementalIndexer runs without the writer lock meet no other writer.   *)
(***************************************************************************)
EXTENDS Publication

Operation(p) == Step(p) \/ Begin(p) \/ Fail(p) \/ Crash(p)

\* Process p is inside an operation of the manager.
Active(p) == pc[p] \notin {"down", "idle", "handler"}

\* Nobody else is inside an operation while p rolls back without the lock.
RollbackAlone ==
    \A p, q \in Procs : cont[p] = "rollback" /\ Active(q) => q = p

RollbackLabels == {"restore", "sidecars", "mirrorIx", "mirrorDb", "dropIx",
                   "dropDb", "unmark"}

\* The writer lock and the control state of its owner agree, and a process
\* knows on whose behalf it runs.
LockInv ==
    \A p \in Procs :
        /\ cont[p] = "rollback" => pc[p] \in RollbackLabels
        /\ Active(p) /\ cont[p] # "rollback" => holder = p
        /\ holder = p => Active(p)
        /\ ~Active(p) => cont[p] = "none"
        /\ pc[p] = "recover" => cont[p] \in {"open", "rebase"}
        /\ pc[p] \in {"work", "dirty"} => cont[p] \in {"update", "rebuild"}
        /\ pc[p] = "restore" => cont[p] \in {"failed", "abort", "rollback"}

\* At most one process is inside an operation.
Exclusive == \A p, q \in Procs : Active(p) /\ Active(q) => p = q

\* Places before a transaction has built an index in memory.
Unbuilt(p) == \/ pc[p] \in {"recover", "repair", "dirty"}
              \/ cont[p] \in {"none", "open", "rebase", "repair"}
              \/ cont[p] = "rebuild" /\ pc[p] \in {"dropIx", "dropDb"}

\* A transaction works on the present root files, and what it has in memory
\* is what it wrote to their journal.
WorkInv ==
    \A p \in Procs :
        /\ pc[p] \in {"work", "dirty"} => p \in attached
        /\ Unbuilt(p) => mem[p] = NoVal
        /\ pc[p] = "stage" => mem[p] # NoVal
        /\ (pc[p] \in {"work", "stage"} /\ mem[p] # NoVal)
             => root.db = Bad \/ root.wal = mem[p]

\* What a generation directory holds was written from one working set.
WholeInv ==
    \A g \in Gens : dir[g] # "absent" =>
        /\ body[g].db \in Vals
        /\ body[g].ix \in {body[g].db, Bad}
        /\ damage = 0 => body[g].ix # Bad

\* p has a new generation directory that it has not published yet.
Publishing(p) == \/ pc[p] \in {"candidate", "sealed", "rotate", "promote"}
                 \/ /\ cont[p] = "publish"
                    /\ pc[p] \in {"sidecars", "mirrorIx", "mirrorDb"}

GenAt(p) ==
    /\ Publishing(p) =>
         /\ gen[p] \in Gens \ {current, prior}
         /\ dir[gen[p]] = IF pc[p] = "candidate" THEN "candidate" ELSE "sealed"
    /\ pc[p] = "promote" => ~Verified(current)

\* The roots, and after them the generations, are only dropped for good when
\* no manifest names anything, except by a rebuild and by clear_index.
MissAt(p) ==
    (\/ pc[p] = "dropGens"
     \/ pc[p] \in {"dropIx", "dropDb"} /\ cont[p] \notin {"rebuild", "clear"})
    => Missing

RefsInv == current \in Gens => current # prior

\* Places where the roots may differ from what is published.
Unsettled(p) ==
    \/ pc[p] \in {"dirty", "stage", "candidate", "sealed", "sidecars",
                  "mirrorIx", "mirrorDb", "rotate", "promote", "unmark",
                  "restore", "dropIx", "dropDb", "dropManifest", "dropGens"}
    \/ pc[p] = "work" /\ (mem[p] # NoVal \/ cont[p] = "rebuild")

MarkerAt(p) == Unsettled(p) => marker

\* The roots show what is published.
Settled == IF Missing THEN root = EmptyRoot ELSE RootsMirror(body[Published])

\* How far the replacement of the roots by temp[p], or by nothing, has come.
RootAt(p) ==
    /\ pc[p] \in {"sidecars", "mirrorIx", "mirrorDb"} =>
         IF cont[p] = "publish" THEN temp[p] = body[gen[p]]
         ELSE Published # NoGen /\ temp[p] = body[Published]
    /\ pc[p] \in {"mirrorIx", "mirrorDb"} => root.wal = NoVal
    /\ pc[p] = "mirrorDb" => root.ix = temp[p].ix
    /\ pc[p] \in {"rotate", "promote"} => RootsMirror(body[gen[p]])
    /\ pc[p] = "dropDb" => root.ix = NoVal
    /\ pc[p] \in {"dropManifest", "dropGens"} => root = EmptyRoot
    /\ pc[p] \in {"unmark", "prune"} => Settled
    /\ (pc[p] \in {"work", "dirty"} /\ cont[p] = "update"
        /\ Published # NoGen) => root.ix = body[Published].ix

PlaceAt(p) == GenAt(p) /\ MissAt(p) /\ MarkerAt(p)

\* What is true of the manifests and the generations, whatever decayed ...
StoreInv ==
    /\ WholeInv
    /\ RefsInv
    /\ ReferencedVerifies
    /\ \A p \in Procs : PlaceAt(p)

\* ... and of the roots while nothing has.
MirrorInv == damage = 0 => MirrorsFaithful /\ \A p \in Procs : RootAt(p)

IInv == TypeOK /\ LockInv /\ WorkInv /\ StoreInv /\ MirrorInv
==============================================================================
