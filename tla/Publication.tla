----------------------------- MODULE Publication -----------------------------
(***************************************************************************)
(* Crash-safe publication of one project's index: CodeIndexManager in      *)
(* search/indexer.py over the manifests of search/epoch_manifest.py.       *)
(*                                                                         *)
(* Processes share one storage directory.  It holds                        *)
(*   - immutable generation directories under .generations/,               *)
(*   - manifest/current.json and manifest/prior.json, which name them,     *)
(*   - mutable root mirrors of one generation (the working set: code.index *)
(*     with chunk_ids.pkl, and the SQLite databases with their journals),  *)
(*   - a marker file that says the roots may not match any generation.     *)
(* A step is one durable change, or one test whose answer a later step     *)
(* uses.  A process may crash between any two steps, an operating-system   *)
(* error or a cancellation may abort any step, and files may decay.        *)
(*                                                                         *)
(* A generation has two cells: `ix' (code.index and chunk_ids.pkl, written *)
(* from the memory of the writer) and `db' (metadata.db and fts5.db,       *)
(* copied from the root databases).  A cell holds the working set it was   *)
(* written from.                                                           *)
(***************************************************************************)
EXTENDS Naturals, FiniteSets

CONSTANTS
    Procs,        \* processes that open this storage directory
    Indexers,     \* those that run an IncrementalIndexer on it
    Gens,         \* generation tokens
    Vals,         \* working sets
    Size,         \* Size[v]: number of chunk ids in working set v
    NoVal,        \* an empty cell, a file that is not there
    Bad,          \* a damaged cell
    NoGen,        \* a manifest file that is not there
    Garbled,      \* a manifest file that does not parse
    Nobody,       \* the writer lock is free
    MaxDamage     \* bound: how many files decay in one behaviour

ASSUME ConstantsAssumption ==
    /\ Indexers \subseteq Procs
    /\ Nobody \notin Procs
    /\ NoGen \notin Gens /\ Garbled \notin Gens /\ NoGen # Garbled
    /\ NoVal \notin Vals /\ Bad \notin Vals /\ NoVal # Bad
    /\ Size \in [Vals -> Nat]
    /\ MaxDamage \in Nat

VARIABLES
    marker,       \* .publication-in-progress exists
    current,      \* what manifest/current.json names
    prior,        \* what manifest/prior.json names
    dir,          \* dir[g]: state of the directory of generation g
    body,         \* body[g]: what that directory holds
    root,         \* the root mirrors; `wal' is an unmerged SQLite journal
    attached,     \* processes whose SQLite handles are on the present root
    holder,       \* owner of the inter-process writer lock
    pc,           \* pc[p]: where process p is
    cont,         \* cont[p]: on whose behalf p runs a shared routine
    mem,          \* mem[p]: the index p built in memory
    gen,          \* gen[p]: the generation p is publishing
    temp,         \* temp[p]: the copies p made to replace the roots with
    damage        \* how many files decayed

disk  == <<marker, current, prior, dir, body, root>>
local == <<mem, gen, temp>>
vars  == <<disk, attached, holder, pc, cont, local, damage>>
------------------------------------------------------------------------------
Cells == Vals \cup {NoVal, Bad}
\* A database that fails SQLite's integrity check never enters a generation.
Bodies == [ix : Cells, db : Vals \cup {NoVal}]
EmptyBody == [ix |-> NoVal, db |-> NoVal]
EmptyRoot == [ix |-> NoVal, db |-> NoVal, wal |-> NoVal]

PcLabels == {"down", "idle", "handler", "recover", "repair", "work", "dirty",
             "stage", "candidate", "sealed", "sidecars", "mirrorIx",
             "mirrorDb", "rotate", "promote", "unmark", "prune", "restore",
             "dropIx", "dropDb", "dropManifest", "dropGens", "cleanup",
             "abort", "exit"}
Conts == {"none", "open", "rebase", "repair", "update", "rebuild", "publish",
          "failed", "abort", "rollback", "clear"}

TypeOK ==
    /\ marker \in BOOLEAN
    /\ current \in Gens \cup {NoGen, Garbled}
    /\ prior \in Gens \cup {NoGen, Garbled}
    /\ dir \in [Gens -> {"absent", "candidate", "sealed"}]
    /\ body \in [Gens -> Bodies]
    /\ root \in [ix : Cells, db : Cells, wal : Vals \cup {NoVal}]
    /\ attached \subseteq Procs
    /\ holder \in Procs \cup {Nobody}
    /\ pc \in [Procs -> PcLabels]
    /\ cont \in [Procs -> Conts]
    /\ mem \in [Procs -> Vals \cup {NoVal}]
    /\ gen \in [Procs -> Gens \cup {NoGen}]
    /\ temp \in [Procs -> Bodies]
    /\ damage \in 0..MaxDamage

Init ==
    /\ marker = FALSE
    /\ current = NoGen /\ prior = NoGen
    /\ dir = [g \in Gens |-> "absent"]
    /\ body = [g \in Gens |-> EmptyBody]
    /\ root = EmptyRoot
    /\ attached = {}
    /\ holder = Nobody
    /\ pc = [p \in Procs |-> "down"]
    /\ cont = [p \in Procs |-> "none"]
    /\ mem = [p \in Procs |-> NoVal]
    /\ gen = [p \in Procs |-> NoGen]
    /\ temp = [p \in Procs |-> EmptyBody]
    /\ damage = 0
------------------------------------------------------------------------------
\* verify_manifest: every artifact the manifest names has its recorded hash.
Verified(m) == /\ m \in Gens
               /\ dir[m] = "sealed"
               /\ Bad \notin {body[m].ix, body[m].db}

\* read_with_fallback: current if it verifies, else prior if it does.
Published == IF Verified(current) THEN current
             ELSE IF Verified(prior) THEN prior ELSE NoGen

\* Its two ways of finding nothing.
Missing == current = NoGen /\ prior = NoGen
Corrupt == Published = NoGen /\ ~Missing

\* What opening the root databases reads: SQLite replays a journal over the
\* main file.
DbView == IF root.db # Bad /\ root.wal # NoVal THEN root.wal ELSE root.db

RootsMirror(b) == root = [ix |-> b.ix, db |-> b.db, wal |-> NoVal]

\* The truncation guard of save_index: a non-forced save may not replace five
\* chunk ids or more by fewer than half of them.
TruncationGuardMinCount == 5
\* Mutant of Truncates: the threshold itself is let through.
TruncatesAboveMinimum(old, new) ==
    /\ old \in Vals /\ new \in Vals
    /\ Size[old] > 5
    /\ 2 * Size[new] < Size[old]

Truncates(old, new) ==
    /\ old \in Vals /\ new \in Vals
    /\ Size[old] >= TruncationGuardMinCount
    /\ 2 * Size[new] < Size[old]

\* Directory names are random: a new one is named by no manifest file and
\* held by no process.  What a pruning run left over may be gone by then.
Fresh(g) == g \notin {current, prior} /\ \A q \in Procs : gen[q] # g

Goto(p, l) == pc' = [pc EXCEPT ![p] = l]
Why(p, c) == cont' = [cont EXCEPT ![p] = c]

\* Mutant of Leave: the lock is not given back when an exception is raised.
LeaveHolding(p, l) ==
    /\ Goto(p, l)
    /\ Why(p, "none")
    /\ mem' = [mem EXCEPT ![p] = NoVal]
    /\ gen' = [gen EXCEPT ![p] = NoGen]
    /\ temp' = [temp EXCEPT ![p] = EmptyBody]
    /\ holder' = IF holder = p /\ pc[p] # "abort" THEN Nobody ELSE holder

\* Process p leaves its operation and releases the writer lock if it has it.
Leave(p, l) ==
    /\ Goto(p, l)
    /\ Why(p, "none")
    /\ mem' = [mem EXCEPT ![p] = NoVal]
    /\ gen' = [gen EXCEPT ![p] = NoGen]
    /\ temp' = [temp EXCEPT ![p] = EmptyBody]
    /\ holder' = IF holder = p THEN Nobody ELSE holder

\* Where an exception leaves an operation: IncrementalIndexer catches it.
Raised(p) == IF p \in Indexers THEN "handler" ELSE "idle"
------------------------------------------------------------------------------
(***************************************************************************)
(* Opening a manager and opening a transaction: recover, then repair.      *)
(***************************************************************************)
\* CodeIndexManager.__init__ up to the recovery, under the writer lock.
Open(p) ==
    /\ pc[p] = "down" /\ holder = Nobody
    /\ holder' = p
    /\ Goto(p, "recover") /\ Why(p, "open")
    /\ UNCHANGED <<disk, attached, local, damage>>

\* publication_transaction takes the lock and closes the handles it had.
BeginTransaction(p) ==
    /\ pc[p] = "idle" /\ holder = Nobody
    /\ holder' = p
    /\ Goto(p, "recover") /\ Why(p, "rebase")
    /\ attached' = attached \ {p}
    /\ UNCHANGED <<disk, local, damage>>

\* No marker: the roots were left at a publication point.
RecoverClean(p) ==
    /\ pc[p] = "recover" /\ ~marker
    /\ IF cont[p] = "open"
       THEN Leave(p, "idle")
       ELSE Goto(p, "repair") /\ UNCHANGED <<cont, local, holder>>
    /\ UNCHANGED <<disk, attached, damage>>

\* A marker with a verified generation behind it: copy that generation.
RecoverGeneration(p) ==
    /\ pc[p] = "recover" /\ marker /\ Published # NoGen
    /\ temp' = [temp EXCEPT ![p] = body[Published]]
    /\ Goto(p, "sidecars")
    /\ UNCHANGED <<disk, attached, holder, cont, mem, gen, damage>>

\* A marker and no manifest: the first publication never committed.
RecoverNothing(p) ==
    /\ pc[p] = "recover" /\ marker /\ Missing
    /\ Goto(p, "dropIx")
    /\ UNCHANGED <<disk, attached, holder, cont, local, damage>>

\* A marker and manifests that do not verify: raise, the marker stays.
RecoverRefused(p) ==
    /\ pc[p] = "recover" /\ marker /\ Corrupt
    /\ Leave(p, IF cont[p] = "open" THEN "down" ELSE Raised(p))
    /\ UNCHANGED <<disk, attached, damage>>

\* Mutant of StartWork: the handles of the last transaction are kept.
StartWorkOnOldHandles(p) ==
    /\ Goto(p, "work") /\ Why(p, "update")
    /\ UNCHANGED attached

\* The transaction body starts on freshly opened views of the roots.
StartWork(p) ==
    /\ Goto(p, "work") /\ Why(p, "update")
    /\ attached' = attached \cup {p}

\* Journal files of another process also count as a mismatch.
RepairSkipped(p) ==
    /\ pc[p] = "repair"
    /\ Published # NoGen => RootsMirror(body[Published])
    /\ StartWork(p)
    /\ UNCHANGED <<disk, holder, local, damage>>

Repair(p) ==
    /\ pc[p] = "repair" /\ Published # NoGen
    /\ ~RootsMirror(body[Published]) \/ attached \ {p} # {}
    /\ marker' = TRUE
    /\ temp' = [temp EXCEPT ![p] = body[Published]]
    /\ Goto(p, "sidecars") /\ Why(p, "repair")
    /\ UNCHANGED <<current, prior, dir, body, root, attached, holder, mem, gen,
                   damage>>
------------------------------------------------------------------------------
(***************************************************************************)
(* Replacing the roots: by the copies in temp[p], or by nothing.           *)
(***************************************************************************)
\* Mutant of Sidecars: the journals stay beside the replaced databases.
SidecarsKept(p) ==
    /\ pc[p] = "sidecars"
    /\ attached' = {}
    /\ Goto(p, "mirrorIx")
    /\ UNCHANGED <<disk, holder, cont, local, damage>>

\* Close the handles (SQLite merges its own journal), unlink the journals.
Sidecars(p) ==
    /\ pc[p] = "sidecars"
    /\ root' = [root EXCEPT !.wal = NoVal,
                            !.db = IF p \in attached THEN DbView ELSE @]
    /\ attached' = {}
    /\ Goto(p, "mirrorIx")
    /\ UNCHANGED <<marker, current, prior, dir, body, holder, cont, local,
                   damage>>

MirrorIx(p) ==
    /\ pc[p] = "mirrorIx"
    /\ root' = [root EXCEPT !.ix = temp[p].ix]
    /\ Goto(p, "mirrorDb")
    /\ UNCHANGED <<marker, current, prior, dir, body, attached, holder, cont,
                   local, damage>>

\* Handles that were on the old database file now see a file without a name.
MirrorDb(p) ==
    /\ pc[p] = "mirrorDb"
    /\ root' = [root EXCEPT !.db = temp[p].db]
    /\ attached' = {}
    /\ Goto(p, IF cont[p] = "publish" THEN "rotate" ELSE "unmark")
    /\ UNCHANGED <<marker, current, prior, dir, body, holder, cont, local,
                   damage>>

DropIx(p) ==
    /\ pc[p] = "dropIx"
    /\ root' = [root EXCEPT !.ix = NoVal]
    /\ Goto(p, "dropDb")
    /\ UNCHANGED <<marker, current, prior, dir, body, attached, holder, cont,
                   local, damage>>

\* begin_rebuild reopens an empty database and goes on; recovery and
\* clear_index also give up the generations; a rollback is done.
DropDb(p) ==
    /\ pc[p] = "dropDb"
    /\ root' = [root EXCEPT !.db = NoVal, !.wal = NoVal]
    /\ attached' = IF cont[p] = "rebuild" THEN {p} ELSE {}
    /\ Goto(p, CASE cont[p] = "rebuild" -> "work"
                 [] cont[p] = "clear" -> "dropManifest"
                 [] cont[p] \in {"open", "rebase"} -> "dropGens"
                 [] OTHER -> "unmark")
    /\ UNCHANGED <<marker, current, prior, dir, body, holder, cont, local,
                   damage>>

DropGens(p) ==
    /\ pc[p] = "dropGens"
    /\ dir' = [g \in Gens |-> "absent"]
    /\ body' = [g \in Gens |-> EmptyBody]
    /\ Goto(p, "unmark")
    /\ UNCHANGED <<marker, current, prior, root, attached, holder, cont, local,
                   damage>>

\* The roots are at a publication point again.
Unmark(p) ==
    /\ pc[p] = "unmark"
    /\ marker' = FALSE
    /\ \/ /\ cont[p] \in {"open", "rebase", "repair", "publish"}
          /\ Goto(p, "prune") /\ UNCHANGED <<cont, local, holder>>
       \/ /\ cont[p] = "failed"
          /\ Goto(p, "cleanup") /\ UNCHANGED <<cont, local, holder>>
       \/ cont[p] = "abort" /\ Leave(p, Raised(p))
       \/ cont[p] \in {"rollback", "clear"} /\ Leave(p, "idle")
    /\ UNCHANGED <<current, prior, dir, body, root, attached, damage>>

\* Generations that no verified manifest names are removed, unless nothing
\* verifies.
Prune(p) ==
    /\ pc[p] = "prune"
    /\ LET kept == {g \in {current, prior} : Verified(g)}
           gone == IF kept = {} THEN {} ELSE Gens \ kept
       IN /\ dir' = [g \in Gens |-> IF g \in gone THEN "absent" ELSE dir[g]]
          /\ body' = [g \in Gens |-> IF g \in gone THEN EmptyBody ELSE body[g]]
    /\ \/ cont[p] = "open" /\ Leave(p, "idle") /\ UNCHANGED attached
       \/ /\ cont[p] = "rebase"
          /\ Goto(p, "repair") /\ UNCHANGED <<cont, local, holder, attached>>
       \/ /\ cont[p] = "repair"
          /\ StartWork(p) /\ UNCHANGED <<local, holder>>
       \/ /\ cont[p] = "publish"
          /\ Goto(p, "exit") /\ UNCHANGED <<cont, local, holder, attached>>
    /\ UNCHANGED <<marker, current, prior, root, damage>>
------------------------------------------------------------------------------
(***************************************************************************)
(* The body of a transaction: [begin_rebuild], remove and add, save_index. *)
(***************************************************************************)
\* Mutant of MarkDirty: the marker is left to save_index.
MarkDirtyLater(p) ==
    /\ pc[p] = "work" /\ mem[p] = NoVal
    /\ Goto(p, "dirty")
    /\ UNCHANGED <<disk, attached, holder, cont, local, damage>>

\* _mark_working_set_dirty, before any change to the roots.
MarkDirty(p) ==
    /\ pc[p] = "work" /\ mem[p] = NoVal
    /\ marker' = TRUE
    /\ Goto(p, "dirty")
    /\ UNCHANGED <<current, prior, dir, body, root, attached, holder, cont,
                   local, damage>>

\* A full rebuild drops the roots; the generations stay for a rollback.
BeginRebuild(p) ==
    /\ pc[p] = "dirty" /\ cont[p] = "update"
    /\ Goto(p, "dropIx") /\ Why(p, "rebuild")
    /\ UNCHANGED <<disk, attached, holder, local, damage>>

\* remove_file_chunks and add_embeddings: the vectors change in memory, the
\* rows in the database p has open.  A handle that was left behind by
\* somebody's replacement of the file writes where nobody looks (metadata.db
\* has a write-ahead log; a write to fts5.db would raise: FailInBody).
Mutate(p) == \E v \in Vals :
    /\ pc[p] = "dirty"
    /\ mem' = [mem EXCEPT ![p] = v]
    /\ root' = IF p \in attached THEN [root EXCEPT !.wal = v] ELSE root
    /\ Goto(p, "work")
    /\ UNCHANGED <<marker, current, prior, dir, body, attached, holder, cont,
                   gen, temp, damage>>

\* save_index with no index in memory publishes nothing.
SaveSkipped(p) ==
    /\ pc[p] = "work" /\ mem[p] = NoVal
    /\ Goto(p, "exit")
    /\ UNCHANGED <<disk, attached, holder, cont, local, damage>>

\* The truncation guard; a full rebuild saves with force=True.
SaveRefused(p) ==
    /\ pc[p] = "work" /\ mem[p] # NoVal
    /\ cont[p] = "update" /\ Truncates(root.ix, mem[p])
    /\ IF marker \/ Published # NoGen
       THEN Goto(p, "restore") /\ Why(p, "failed")
       ELSE Goto(p, "abort") /\ UNCHANGED cont
    /\ UNCHANGED <<disk, attached, holder, local, damage>>

\* save_index marks the working set dirty once more, then stages it.
Stage(p) ==
    /\ pc[p] = "work" /\ mem[p] # NoVal
    /\ ~(cont[p] = "update" /\ Truncates(root.ix, mem[p]))
    /\ marker' = TRUE
    /\ Goto(p, "stage")
    /\ UNCHANGED <<current, prior, dir, body, root, attached, holder, cont,
                   local, damage>>

\* The index comes from memory, the databases from the root paths.
WriteCandidate(p) == \E g \in Gens :
    /\ pc[p] = "stage" /\ DbView # Bad
    /\ Fresh(g)
    /\ dir' = [dir EXCEPT ![g] = "candidate"]
    /\ body' = [body EXCEPT ![g] = [ix |-> mem[p], db |-> DbView]]
    /\ gen' = [gen EXCEPT ![p] = g]
    /\ Goto(p, "candidate")
    /\ UNCHANGED <<marker, current, prior, root, attached, holder, cont, mem,
                   temp, damage>>

\* The staged database fails SQLite's integrity check.
CandidateRejected(p) ==
    /\ pc[p] = "stage" /\ DbView = Bad
    /\ Goto(p, "restore") /\ Why(p, "failed")
    /\ UNCHANGED <<disk, attached, holder, local, damage>>

\* The validated candidate directory is renamed: immutable from here on.
Seal(p) ==
    /\ pc[p] = "candidate"
    /\ dir' = [dir EXCEPT ![gen[p]] = "sealed"]
    /\ Goto(p, "sealed")
    /\ UNCHANGED <<marker, current, prior, body, root, attached, holder, cont,
                   local, damage>>

\* Validated again, it is copied; the roots are replaced before the commit.
Mirror(p) ==
    /\ pc[p] = "sealed"
    /\ IF Verified(gen[p])
       THEN /\ marker' = TRUE
            /\ temp' = [temp EXCEPT ![p] = body[gen[p]]]
            /\ Goto(p, "sidecars") /\ Why(p, "publish")
       ELSE /\ Goto(p, "restore") /\ Why(p, "failed")
            /\ UNCHANGED <<marker, temp>>
    /\ UNCHANGED <<current, prior, dir, body, root, attached, holder, mem, gen,
                   damage>>

\* Mutant of Rotate: the old manifest is removed, not kept as prior.
RotateAway(p) ==
    /\ pc[p] = "rotate"
    /\ current' = NoGen
    /\ Goto(p, "promote")
    /\ UNCHANGED <<marker, prior, dir, body, root, attached, holder, cont,
                   local, damage>>

\* commit_manifest, first rename: current becomes prior if it verifies.
Rotate(p) ==
    /\ pc[p] = "rotate"
    /\ IF Verified(current)
       THEN prior' = current /\ current' = NoGen
       ELSE UNCHANGED <<current, prior>>
    /\ Goto(p, "promote")
    /\ UNCHANGED <<marker, dir, body, root, attached, holder, cont, local,
                   damage>>

\* commit_manifest, second rename: the commit point.
Promote(p) ==
    /\ pc[p] = "promote"
    /\ current' = gen[p]
    /\ Goto(p, "unmark")
    /\ UNCHANGED <<marker, prior, dir, body, root, attached, holder, cont,
                   local, damage>>
------------------------------------------------------------------------------
(***************************************************************************)
(* Leaving a transaction, rolling back, clearing.                          *)
(***************************************************************************)
\* Mutant of Cleanup: a failed save removes its generation in any case.
CleanupAlways(p) ==
    /\ pc[p] = "cleanup"
    /\ dir' = [g \in Gens |-> IF g = gen[p] THEN "absent" ELSE dir[g]]
    /\ body' = [g \in Gens |-> IF g = gen[p] THEN EmptyBody ELSE body[g]]
    /\ gen' = [gen EXCEPT ![p] = NoGen]
    /\ Goto(p, "abort")
    /\ UNCHANGED <<marker, current, prior, root, attached, holder, cont, mem,
                   temp, damage>>

\* The finally clause of a failed save_index.
Cleanup(p) ==
    /\ pc[p] = "cleanup"
    /\ LET unreferenced == {gen[p]} \ {current, prior}
       IN /\ dir' = [g \in Gens |->
                        IF g \in unreferenced THEN "absent" ELSE dir[g]]
          /\ body' = [g \in Gens |->
                        IF g \in unreferenced THEN EmptyBody ELSE body[g]]
    /\ gen' = [gen EXCEPT ![p] = NoGen]
    /\ Goto(p, "abort")
    /\ UNCHANGED <<marker, current, prior, root, attached, holder, cont, mem,
                   temp, damage>>

\* An exception, or a normal exit, leaves publication_transaction: a marker
\* that is still there means the working set must be rolled back.
LeaveTransaction(p) ==
    /\ pc[p] \in {"abort", "exit"}
    /\ IF marker
       THEN /\ Goto(p, "restore") /\ Why(p, "abort")
            /\ UNCHANGED <<local, holder>>
       ELSE Leave(p, IF pc[p] = "abort" THEN Raised(p) ELSE "idle")
    /\ UNCHANGED <<disk, attached, damage>>

\* rollback_unpublished_changes as the handlers of IncrementalIndexer call
\* it: after the transaction, or without one, and without the writer lock.
Handler(p) ==
    /\ pc[p] = "handler"
    /\ IF marker
       THEN /\ Goto(p, "restore") /\ Why(p, "rollback")
            /\ UNCHANGED <<local, holder>>
       ELSE Leave(p, "idle")
    /\ UNCHANGED <<disk, attached, damage>>

\* _restore_last_published_generation.
RestoreGeneration(p) ==
    /\ pc[p] = "restore" /\ Published # NoGen
    /\ temp' = [temp EXCEPT ![p] = body[Published]]
    /\ Goto(p, "sidecars")
    /\ UNCHANGED <<disk, attached, holder, cont, mem, gen, damage>>

RestoreNothing(p) ==
    /\ pc[p] = "restore" /\ Missing
    /\ Goto(p, "dropIx")
    /\ UNCHANGED <<disk, attached, holder, cont, local, damage>>

\* A restore that cannot be done leaves the marker where it is.
GiveUp(p) ==
    IF cont[p] = "failed"
    THEN Goto(p, "cleanup") /\ UNCHANGED <<cont, local, holder>>
    ELSE Leave(p, CASE cont[p] = "open" -> "down"
                    [] cont[p] \in {"rebase", "repair", "abort"} -> Raised(p)
                    [] OTHER -> "idle")

RestoreRefused(p) ==
    /\ pc[p] = "restore" /\ Corrupt
    /\ GiveUp(p)
    /\ UNCHANGED <<disk, attached, damage>>

\* Mutant of BeginClear: clear_index takes the storage lock only.
BeginClearUnlocked(p) ==
    /\ pc[p] = "idle"
    /\ marker' = TRUE
    /\ Goto(p, "dropIx") /\ Why(p, "clear")
    /\ UNCHANGED <<current, prior, dir, body, root, attached, holder, local,
                   damage>>

\* clear_index: marker, roots, manifest directory, generations, marker.
BeginClear(p) ==
    /\ pc[p] = "idle" /\ holder = Nobody
    /\ holder' = p
    /\ marker' = TRUE
    /\ Goto(p, "dropIx") /\ Why(p, "clear")
    /\ UNCHANGED <<current, prior, dir, body, root, attached, local, damage>>

\* rmtree removes the two files in whatever order the directory lists them.
DropManifest(p) ==
    /\ pc[p] = "dropManifest"
    /\ \/ current # NoGen /\ current' = NoGen /\ UNCHANGED <<prior, pc>>
       \/ prior # NoGen /\ prior' = NoGen /\ UNCHANGED <<current, pc>>
       \/ Missing /\ Goto(p, "dropGens") /\ UNCHANGED <<current, prior>>
    /\ UNCHANGED <<marker, dir, body, root, attached, holder, cont, local,
                   damage>>
------------------------------------------------------------------------------
(***************************************************************************)
(* Failures: exceptions, failures outside a transaction, crashes, decay.   *)
(***************************************************************************)
RoutineLabels == {"sidecars", "mirrorIx", "mirrorDb", "dropIx", "dropDb",
                  "dropManifest", "dropGens", "unmark"}

\* An operating-system error, or the InterruptedError of a cancelled job.
FailInBody(p) ==
    /\ \/ pc[p] \in {"work", "dirty"}
       \/ pc[p] \in {"dropIx", "dropDb"} /\ cont[p] = "rebuild"
       \/ pc[p] = "prune" /\ cont[p] = "publish"
    /\ Goto(p, "abort")
    /\ UNCHANGED <<disk, attached, holder, cont, local, damage>>

\* The except clause of save_index.
FailInSave(p) ==
    /\ \/ pc[p] \in {"stage", "candidate", "sealed", "rotate", "promote"}
       \/ pc[p] \in RoutineLabels /\ cont[p] = "publish"
    /\ Goto(p, "restore") /\ Why(p, "failed")
    /\ UNCHANGED <<disk, attached, holder, local, damage>>

FailInRecovery(p) ==
    /\ pc[p] \in RoutineLabels
    /\ cont[p] \notin {"rebuild", "publish"}
    /\ GiveUp(p)
    /\ UNCHANGED <<disk, attached, damage>>

\* Hashing the tree, chunking or embedding fails, or the job is cancelled,
\* before any transaction: the same handlers run.
IndexingFails(p) ==
    /\ p \in Indexers
    /\ pc[p] = "idle"
    /\ Goto(p, "handler")
    /\ UNCHANGED <<disk, attached, holder, cont, local, damage>>

\* The operating system releases the lock and forgets the rest.
Crash(p) ==
    /\ pc[p] # "down"
    /\ Leave(p, "down")
    /\ attached' = attached \ {p}
    /\ UNCHANGED <<disk, damage>>

\* A file decays: bit rot, a truncation, a stray write.
Decay ==
    /\ damage < MaxDamage
    /\ damage' = damage + 1
    /\ \/ /\ current \in Gens /\ current' = Garbled
          /\ UNCHANGED <<prior, body, root>>
       \/ /\ prior \in Gens /\ prior' = Garbled
          /\ UNCHANGED <<current, body, root>>
       \/ \E g \in Gens :
            /\ dir[g] = "sealed" /\ body' = [body EXCEPT ![g].ix = Bad]
            /\ UNCHANGED <<current, prior, root>>
       \/ /\ root.ix # NoVal /\ root' = [root EXCEPT !.ix = Bad]
          /\ UNCHANGED <<current, prior, body>>
       \/ /\ root.db # NoVal /\ root' = [root EXCEPT !.db = Bad]
          /\ UNCHANGED <<current, prior, body>>
    /\ UNCHANGED <<marker, dir, attached, holder, pc, cont, local>>
------------------------------------------------------------------------------
\* What a running process does by itself once it has begun an operation.
Step(p) ==
    \/ RecoverClean(p) \/ RecoverGeneration(p) \/ RecoverNothing(p)
    \/ RecoverRefused(p) \/ RepairSkipped(p) \/ Repair(p)
    \/ Sidecars(p) \/ MirrorIx(p) \/ MirrorDb(p)
    \/ DropIx(p) \/ DropDb(p) \/ DropManifest(p) \/ DropGens(p)
    \/ Unmark(p) \/ Prune(p)
    \/ MarkDirty(p) \/ BeginRebuild(p) \/ Mutate(p)
    \/ SaveSkipped(p) \/ SaveRefused(p) \/ Stage(p)
    \/ WriteCandidate(p) \/ CandidateRejected(p) \/ Seal(p) \/ Mirror(p)
    \/ Rotate(p) \/ Promote(p)
    \/ Cleanup(p) \/ LeaveTransaction(p) \/ Handler(p)
    \/ RestoreGeneration(p) \/ RestoreNothing(p) \/ RestoreRefused(p)

Begin(p) == Open(p) \/ BeginTransaction(p) \/ BeginClear(p)

Fail(p) == FailInBody(p) \/ FailInSave(p) \/ FailInRecovery(p)
           \/ IndexingFails(p)

Next == \/ \E p \in Procs : Step(p) \/ Begin(p) \/ Fail(p) \/ Crash(p)
        \/ Decay

Spec == Init /\ [][Next]_vars

\* A process that is inside an operation keeps running.  Nothing makes a
\* user start one, and nothing makes a failure happen.
Fairness == \A p \in Procs : WF_vars(Step(p))

FairSpec == Spec /\ Fairness
------------------------------------------------------------------------------
(***************************************************************************)
(* Properties.                                                             *)
(***************************************************************************)
\* The mirrors are the published generation whenever there is no marker,
\* whatever crashed or failed before: save_index, recovery, rollback and
\* clear_index (indexer.py 445-502, 960-990, 2169-2198, 2559-2637, 2804-2838)
\* never remove the marker too early and never touch a root before it.
MirrorsFaithful ==
    (~marker /\ damage = 0) =>
        IF Missing THEN root = EmptyRoot ELSE RootsMirror(body[Published])

\* A generation a manifest names was written from one working set: its
\* vectors and its databases belong together (_write_candidate_generation,
\* indexer.py 2048-2087, takes the former from memory and the latter from
\* the root paths).
CommittedWhole ==
    \A m \in {current, prior} :
        Verified(m) => body[m].ix = body[m].db /\ body[m].ix \in Vals

\* Without damage every manifest file verifies: no prune, clean-up, rollback
\* or rotation removes or replaces what a manifest names (indexer.py
\* 2242-2343, 2614-2628; epoch_manifest.py 214-236).
ReferencedVerifies ==
    damage = 0 => \A m \in {current, prior} \ {NoGen} : Verified(m)

\* While a process holds the writer lock between two of its own steps, no
\* other process replaces a root or the marker: what the lock is for
\* (indexer.py 449-455).
WriterUndisturbed ==
    [][(/\ holder # Nobody
        /\ holder' = holder /\ pc'[holder] = pc[holder]
        /\ damage' = damage)
       => marker' = marker /\ root' = root]_vars

StagesHalfAtLeast ==
    \A p \in Procs :
        (/\ pc[p] = "work" /\ pc'[p] = "stage" /\ cont[p] = "update"
         /\ damage = 0 /\ Published # NoGen)
        => (Size[body[Published].ix] >= 5
            => 2 * Size[mem[p]] >= Size[body[Published].ix])

\* An incremental run never stages less than half of a published index of
\* five chunks or more, although the guard of save_index (indexer.py
\* 2509-2557) only looks at the root mirror.
NoSilentTruncation == [][StagesHalfAtLeast]_vars

\* Every operation gives the writer lock back, so the next writer starts.
LockReleased == \A p \in Procs : (holder = p) ~> (holder # p)

\* After any crash or failure a new manager could open the store and rebuild
\* it from source: no marker would be left over manifests that do not verify
\* (_recover_published_generation).  It does not hold once two files
\* have decayed (MaxDamage = 2): the marker of a rebuild that is interrupted
\* then stays.  No run checks it.
RebuildPossible == ~(holder = Nobody /\ marker /\ Corrupt)

\* The manifests implement the abstract register.
Content(m) == IF ~Verified(m) THEN NoVal
              ELSE IF body[m].ix = body[m].db THEN body[m].ix ELSE Bad

Resolved == Content(Published)
Fallback == IF Published = current THEN Content(prior) ELSE NoVal
Clearing == \E p \in Procs : pc[p] = "dropManifest"

Abs == INSTANCE AtomicIndex WITH published <- Resolved,
                                 fallback  <- Fallback,
                                 clearing  <- Clearing,
                                 decay     <- damage

\* Whatever fails, and wherever a writer crashes, a reader that resolves the
\* manifests sees one whole published index or the one before it, and nothing
\* is lost without damage or a reset (_commit_epoch_manifest, commit_manifest,
\* read_with_fallback, recovery, rollback and clear_index).
AtomicPublication == Abs!Spec
==============================================================================
