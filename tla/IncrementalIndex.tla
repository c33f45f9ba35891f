---------------------------- MODULE IncrementalIndex ----------------------------
(* Incremental indexing of one checkout (search/incremental_indexer.py).      *)
(*                                                                            *)
(* A run compares the checkout with the Merkle snapshot left by an earlier    *)
(* run, chunks and embeds what changed, publishes the result, and then saves  *)
(* the new snapshot.  The index and the snapshot are two stores: publication  *)
(* is one transaction (Publication and WriterLock are about it), the snapshot *)
(* is a file written after it.  What keeps them together is the order of the  *)
(* steps, and that is what this module is about.                              *)
(*                                                                            *)
(* A run is a job thread of index_directory, a search that blocks on its      *)
(* auto-reindex, or the background reindex thread.  The checkout changes at   *)
(* any time, between any two steps of a run.  The content of a file is a      *)
(* version number, one chunk stands for the chunks of one version of a file.  *)
EXTENDS Naturals, FiniteSets

CONSTANTS
  Files,         \* the paths of the checkout, all in one directory
  Supported,     \* those the chunker has a language for
  MaxVersion,    \* bound on the versions of a file
  Chunkless,     \* the versions no chunk comes out of (empty, unparsable)
  Shape,         \* Shape[v]: the lines, kind and name in the chunk ids of v
  Providers,     \* one index for each, Unscoped among them
  Unscoped,      \* the index and the snapshot of no named provider
  AutoProviders, \* the providers whose index a search refreshes
  Names,         \* the project names a caller of index_directory gives
  DirName,       \* the default: the name of the directory
  Runs,          \* threads that index
  Mishaps,       \* what else may happen: see MishapKinds
  MaxFaults,     \* bound on crashes, failures, cancellations and clears
  Missing, Torn, \* a snapshot file that does not exist, or is cut off
  None           \* no task, no tree

MishapKinds == {"overlap",       \* two runs work on one index at once
                "restore",       \* a file goes back to what it was before
                "crash_unsaved", \* a run dies with its snapshot to be saved
                "crash_torn",    \* a run dies while it writes the snapshot
                "unreadable",    \* a file cannot be read when it is chunked
                "save_fails",    \* the snapshot cannot be written
                "clear"}         \* the index is cleared, its snapshot stays

Absent   == 0
Versions == 1 .. MaxVersion
Trees    == [Files -> Versions \cup {Absent}]
Chunks   == [file : Supported, version : Versions, name : Names \cup {DirName}]
States   == {"none", "indexing", "pending", "changed", "error", "cancelled"}

ASSUME FilesAssumption == IsFiniteSet(Files) /\ Supported \subseteq Files
ASSUME VersionAssumption ==
  /\ MaxVersion \in Nat \ {0}
  /\ Chunkless \subseteq Versions
  /\ Shape \in [Versions -> Nat]
ASSUME ProviderAssumption ==
  /\ Unscoped \in Providers
  /\ AutoProviders \subseteq Providers
ASSUME BoundAssumption == MaxFaults \in Nat /\ Mishaps \subseteq MishapKinds
ASSUME MarkerAssumption ==
  /\ Missing \notin Trees /\ Torn \notin Trees /\ None \notin Trees
  /\ Missing # Torn

VARIABLES
  tree,      \* the checkout
  latest,    \* the newest version each file has had
  chunks,    \* chunks[p]: metadata.db and FTS5 of p's index
  rows,      \* rows[p]: vectors in its FAISS index, the dead ones included
  snapshot,  \* snapshot[s]: the Merkle snapshot of scope s
  empty,     \* empty[s]: its metadata declares a corpus with nothing to index
  status,    \* status[p]: the index identity in project_info.json
  pc,        \* where a run is
  task,      \* what it was asked for, the identity it started from
  scan,      \* the Merkle DAG it built
  plan,      \* full or incremental, the files to drop, those to chunk
  made,      \* the chunks it has embedded
  faults     \* faults so far

checkout == <<tree, latest>>
stored   == <<chunks, rows, snapshot, empty>>
locals   == <<task, scan, plan, made>>
vars     == <<tree, latest, chunks, rows, snapshot, empty, status, pc,
              task, scan, plan, made, faults>>

NoPlan   == [full |-> FALSE, drop |-> {}, take |-> {}]
Plain(s) == [state |-> s, of |-> None]
Ready(t) == [state |-> "ready", of |-> t]

Init ==
  /\ tree \in [Files -> {Absent, 1}]
  /\ latest = tree
  /\ chunks = [p \in Providers |-> {}]
  /\ rows = [p \in Providers |-> 0]
  /\ snapshot = [p \in Providers |-> Missing]
  /\ empty = [p \in Providers |-> FALSE]
  /\ status = [p \in Providers |-> Plain("none")]
  /\ pc = [r \in Runs |-> "idle"]
  /\ task = [r \in Runs |-> None]
  /\ scan = [r \in Runs |-> None]
  /\ plan = [r \in Runs |-> NoPlan]
  /\ made = [r \in Runs |-> {}]
  /\ faults = 0

----------------------------------------------------------------------------
(* The checkout: somebody edits, creates, deletes or restores a file.         *)

Edit(f) ==
  /\ latest[f] < MaxVersion
  /\ latest' = [latest EXCEPT ![f] = @ + 1]
  /\ tree' = [tree EXCEPT ![f] = latest[f] + 1]
  /\ UNCHANGED <<stored, status, pc, locals, faults>>

\* A file that comes and goes within one run goes back to what it was.
Delete(f) ==
  /\ tree[f] # Absent
  /\ "restore" \notin Mishaps =>
       \A r \in Runs : pc[r] # "idle" => task[r].start[f] # Absent
  /\ tree' = [tree EXCEPT ![f] = Absent]
  /\ UNCHANGED <<latest, stored, status, pc, locals, faults>>

Restore(f, v) ==
  /\ "restore" \in Mishaps
  /\ v <= latest[f] /\ v # tree[f]
  /\ tree' = [tree EXCEPT ![f] = v]
  /\ UNCHANGED <<latest, stored, status, pc, locals, faults>>

----------------------------------------------------------------------------
(* What the steps compute.                                                    *)

Present(t) == {f \in Files : t[f] # Absent}

\* Mutant of Indexable: a file is chunked whatever its language.
IndexableAny(t) == Present(t)

Indexable(t) == Present(t) \cap Supported

\* The root hash is over the sorted hashes of the files, not over their names.
RootHash(t) == [v \in Versions |-> Cardinality({f \in Files : t[f] = v})]

\* Rows of removed and replaced chunks stay in FAISS until a full rebuild: it
\* is due when they are more than half of what is live (one, if nothing is).
AtLeastOne(n) == IF n = 0 THEN 1 ELSE n
Wasteful(p) ==
  LET live == Cardinality(chunks[p])
  IN rows[p] > 0 /\ 2 * rows[p] > 2 * live + AtLeastOne(live)

\* Mutant of MustRebuild: a snapshot is trusted for an index that is empty.
RebuildNonEmpty(r) ==
  task[r].forced \/ snapshot[task[r].scope] = Missing \/ Wasteful(task[r].provider)

\* Mutant of MustRebuild: no compaction.
RebuildUnmeasured(r) ==
  \/ task[r].forced
  \/ snapshot[task[r].scope] = Missing
  \/ rows[task[r].provider] = 0 /\ (~task[r].auto \/ ~empty[task[r].scope])

\* A run that must not trust the snapshot: forced, none there, an index that
\* holds nothing, or more garbage in it than half of what is live.
MustRebuild(r) ==
  LET p == task[r].provider
      s == task[r].scope
  IN \/ task[r].forced
     \/ snapshot[s] = Missing
     \/ rows[p] = 0 /\ (~task[r].auto \/ ~empty[s])
     \/ Wasteful(p)

\* The differences between a snapshot and a scan. One that cannot be loaded
\* counts as none: every file is added and no file is removed.
Added(old, new) ==
  IF old \in {Missing, Torn} THEN Present(new) ELSE Present(new) \ Present(old)

\* Mutant of Removed: the paths of the scan that the snapshot lacks.
RemovedSwapped(old, new) ==
  IF old \in {Missing, Torn} THEN {} ELSE Present(new) \ Present(old)

Removed(old, new) ==
  IF old \in {Missing, Torn} THEN {} ELSE Present(old) \ Present(new)
Modified(old, new) ==
  IF old \in {Missing, Torn} THEN {}
  ELSE {f \in Present(old) \cap Present(new) : old[f] # new[f]}

ChunkId(c) == <<c.file, Shape[c.version]>>
SameId(new, c) == \E d \in new : ChunkId(d) = ChunkId(c)

\* remove_file_chunks for each file, which only sees the chunks of the
\* project name it is given, then add_embeddings, which overwrites by id.
Updated(old, drop, name, new) ==
  {c \in old : ~(c.file \in drop /\ c.name = name) /\ ~SameId(new, c)} \cup new

----------------------------------------------------------------------------
(* A run, from the request to the identity it leaves.                         *)

At(r, s) == pc[r] = s
Goto(r, s) == pc' = [pc EXCEPT ![r] = s]

\* The run is over, however it ended: its locals are gone.
Leave(r) ==
  /\ Goto(r, "idle")
  /\ task' = [task EXCEPT ![r] = None]
  /\ scan' = [scan EXCEPT ![r] = None]
  /\ plan' = [plan EXCEPT ![r] = NoPlan]
  /\ made' = [made EXCEPT ![r] = {}]

SetStatus(p, s) == status' = [status EXCEPT ![p] = s]

MayStart(r, p) ==
  /\ At(r, "idle")
  /\ "overlap" \notin Mishaps =>
       \A q \in Runs : ~At(q, "idle") => task[q].provider # p

\* Mutant of StartJob: snapshots are keyed by the path alone.
StartJobUnscoped(r, p, name, forced) ==
  /\ MayStart(r, p)
  /\ task' = [task EXCEPT ![r] =
       [provider |-> p, scope |-> Unscoped, name |-> name, auto |-> FALSE,
        forced |-> forced, start |-> tree, before |-> Plain("none")]]
  /\ SetStatus(p, Plain("indexing"))
  /\ Goto(r, "decide")
  /\ UNCHANGED <<checkout, stored, scan, plan, made, faults>>

\* index_directory: the snapshots it uses are those of its provider.
StartJob(r, p, name, forced) ==
  /\ MayStart(r, p)
  /\ task' = [task EXCEPT ![r] =
       [provider |-> p, scope |-> p, name |-> name, auto |-> FALSE,
        forced |-> forced, start |-> tree, before |-> Plain("none")]]
  /\ SetStatus(p, Plain("indexing"))
  /\ Goto(r, "decide")
  /\ UNCHANGED <<checkout, stored, scan, plan, made, faults>>

\* search_code, blocking or in the background: its IncrementalIndexer is
\* built with no snapshot manager, so it uses the one of no provider.
StartAuto(r, p) ==
  /\ MayStart(r, p)
  /\ task' = [task EXCEPT ![r] =
       [provider |-> p, scope |-> Unscoped, name |-> DirName, auto |-> TRUE,
        forced |-> FALSE, start |-> tree, before |-> status[p]]]
  /\ SetStatus(p, Plain("pending"))
  /\ Goto(r, "fresh")
  /\ UNCHANGED <<checkout, stored, scan, plan, made, faults>>

\* needs_reindex: no snapshot, one that cannot be loaded, one that is too
\* old, or a root hash that differs.
Changed(r) ==
  LET s == snapshot[task[r].scope]
  IN s \notin {Missing, Torn} => RootHash(s) # RootHash(tree)

SeeChange(r) ==
  /\ At(r, "fresh")
  /\ Changed(r)
  /\ Goto(r, "decide")
  /\ UNCHANGED <<checkout, stored, status, locals, faults>>

\* Mutant of SeeAge: only a change starts a run, whatever its age.
SeeAgeOfChanged(r) ==
  /\ At(r, "fresh")
  /\ Changed(r)
  /\ Goto(r, "decide")
  /\ UNCHANGED <<checkout, stored, status, locals, faults>>

SeeAge(r) ==
  /\ At(r, "fresh")
  /\ Goto(r, "decide")
  /\ UNCHANGED <<checkout, stored, status, locals, faults>>

\* Nothing to do: the identity of before is put back.
SkipFresh(r) ==
  /\ At(r, "fresh")
  /\ ~Changed(r)
  /\ SetStatus(task[r].provider, task[r].before)
  /\ Leave(r)
  /\ UNCHANGED <<checkout, stored, faults>>

Decide(r) ==
  /\ At(r, "decide")
  /\ plan' = [plan EXCEPT ![r].full = MustRebuild(r)]
  /\ Goto(r, "scan")
  /\ UNCHANGED <<checkout, stored, status, task, scan, made, faults>>

\* The Merkle DAG of the checkout. A full run chunks every file in it.
Scan(r) ==
  /\ At(r, "scan")
  /\ scan' = [scan EXCEPT ![r] = tree]
  /\ IF plan[r].full
     THEN /\ plan' = [plan EXCEPT ![r].take = Indexable(tree)]
          /\ Goto(r, "chunk")
     ELSE /\ Goto(r, "compare")
          /\ UNCHANGED plan
  /\ UNCHANGED <<checkout, stored, status, task, made, faults>>

\* detect_changes: the snapshot is loaded after the scan. With no change the
\* run is over, the snapshot is not written again.
Compare(r) ==
  LET old == snapshot[task[r].scope]
      add == Added(old, scan[r])
      rem == Removed(old, scan[r])
      mod == Modified(old, scan[r])
  IN /\ At(r, "compare")
     /\ plan' = [plan EXCEPT ![r] = [full |-> FALSE, drop |-> rem \cup mod,
                                     take |-> (add \cup mod) \cap Supported]]
     /\ Goto(r, IF add \cup rem \cup mod = {} THEN "finish" ELSE "chunk")
     /\ UNCHANGED <<checkout, stored, status, task, scan, made, faults>>

\* chunk_file reads the file as it is now. One that has gone, or has nothing
\* in it, gives no chunk and no error.
ChunkFile(r, f) ==
  LET new == IF tree[f] \in Chunkless \cup {Absent} THEN {}
             ELSE {[file |-> f, version |-> tree[f], name |-> task[r].name]}
  IN /\ At(r, "chunk")
     /\ f \in plan[r].take
     /\ plan' = [plan EXCEPT ![r].take = @ \ {f}]
     /\ made' = [made EXCEPT ![r] = @ \cup new]
     /\ UNCHANGED <<checkout, stored, status, pc, task, scan, faults>>

\* Neither does one that cannot be read or parsed: chunk_file logs the
\* exception and returns nothing.
SkipFile(r, f) ==
  /\ "unreadable" \in Mishaps
  /\ At(r, "chunk")
  /\ f \in plan[r].take
  /\ plan' = [plan EXCEPT ![r].take = @ \ {f}]
  /\ UNCHANGED <<checkout, stored, status, pc, task, scan, made, faults>>

\* A rebuild that has files to index and nothing to publish is refused.
Barren(r) == plan[r].full /\ made[r] = {} /\ Indexable(scan[r]) # {}

Embed(r) ==
  /\ At(r, "chunk")
  /\ plan[r].take = {}
  /\ ~Barren(r)
  /\ Goto(r, "publish")
  /\ UNCHANGED <<checkout, stored, status, locals, faults>>

Refuse(r) ==
  /\ At(r, "chunk")
  /\ plan[r].take = {}
  /\ Barren(r)
  /\ SetStatus(task[r].provider, Plain("error"))
  /\ Leave(r)
  /\ UNCHANGED <<checkout, stored, faults>>

\* Mutant of Publish: a rebuild adds to what is there.
PublishOver(r) ==
  LET p == task[r].provider
  IN /\ At(r, "publish")
     /\ chunks' = [chunks EXCEPT ![p] =
          Updated(@, plan[r].drop, task[r].name, made[r])]
     /\ rows' = [rows EXCEPT ![p] = @ + Cardinality(made[r])]
     /\ Goto(r, "truncate")
     /\ UNCHANGED <<checkout, snapshot, empty, status, locals, faults>>

\* One storage transaction: begin_rebuild or _remove_old_chunks, then
\* add_embeddings, then save_index.
Publish(r) ==
  LET p == task[r].provider
  IN /\ At(r, "publish")
     /\ IF plan[r].full
        THEN /\ chunks' = [chunks EXCEPT ![p] = made[r]]
             /\ rows' = [rows EXCEPT ![p] = Cardinality(made[r])]
        ELSE /\ chunks' = [chunks EXCEPT ![p] =
                  Updated(@, plan[r].drop, task[r].name, made[r])]
             /\ rows' = [rows EXCEPT ![p] = @ + Cardinality(made[r])]
     /\ Goto(r, "truncate")
     /\ UNCHANGED <<checkout, snapshot, empty, status, locals, faults>>

\* save_snapshot opens the file for writing, which empties it, writes it, and
\* then writes the metadata.
Truncate(r) ==
  /\ At(r, "truncate")
  /\ snapshot' = [snapshot EXCEPT ![task[r].scope] = Torn]
  /\ Goto(r, "fill")
  /\ UNCHANGED <<checkout, chunks, rows, empty, status, locals, faults>>

\* Mutant of Fill: the snapshot is of the checkout as it is when it is saved.
FillFromTree(r) ==
  /\ At(r, "fill")
  /\ snapshot' = [snapshot EXCEPT ![task[r].scope] = tree]
  /\ Goto(r, "describe")
  /\ UNCHANGED <<checkout, chunks, rows, empty, status, locals, faults>>

Fill(r) ==
  /\ At(r, "fill")
  /\ snapshot' = [snapshot EXCEPT ![task[r].scope] = scan[r]]
  /\ Goto(r, "describe")
  /\ UNCHANGED <<checkout, chunks, rows, empty, status, locals, faults>>

\* Only the metadata of a full run has the two counts that can declare an
\* empty corpus.
Describe(r) ==
  /\ At(r, "describe")
  /\ empty' = [empty EXCEPT ![task[r].scope] =
       plan[r].full /\ Indexable(scan[r]) = {} /\ made[r] = {}]
  /\ Goto(r, "finish")
  /\ UNCHANGED <<checkout, chunks, rows, snapshot, status, locals, faults>>

\* Mutant of Finish: the identity of the start is published unchecked.
FinishUnchecked(r) ==
  /\ At(r, "finish")
  /\ SetStatus(task[r].provider, Ready(task[r].start))
  /\ Leave(r)
  /\ UNCHANGED <<checkout, stored, faults>>

\* _finalize_index_identity: ready if the checkout is what it was at the start.
Finish(r) ==
  /\ At(r, "finish")
  /\ SetStatus(task[r].provider,
              IF tree = task[r].start THEN Ready(tree) ELSE Plain("changed"))
  /\ Leave(r)
  /\ UNCHANGED <<checkout, stored, faults>>

----------------------------------------------------------------------------
(* Runs that do not get to their end, and an index that is cleared.           *)

Fault == faults < MaxFaults /\ faults' = faults + 1

\* Up to save_index whatever goes wrong leaves the last good index: chunking,
\* an embedding service that fails, the publication rolled back.
Working(r) == pc[r] \in {"decide", "scan", "compare", "chunk", "publish"}

Fail(r) ==
  /\ Working(r)
  /\ SetStatus(task[r].provider, Plain("error"))
  /\ Leave(r) /\ Fault
  /\ UNCHANGED <<checkout, stored>>

\* cancel_indexing, seen at a progress checkpoint of the job.
Cancel(r) ==
  /\ pc[r] \in {"scan", "chunk", "publish"}
  /\ ~task[r].auto
  /\ SetStatus(task[r].provider, Plain("cancelled"))
  /\ Leave(r) /\ Fault
  /\ UNCHANGED <<checkout, stored>>

SaveFails(r) ==
  /\ "save_fails" \in Mishaps
  /\ pc[r] \in {"truncate", "fill", "describe"}
  /\ SetStatus(task[r].provider, Plain("error"))
  /\ Leave(r) /\ Fault
  /\ UNCHANGED <<checkout, stored>>

\* The process dies. Nothing is undone, and the identity is not rewritten.
Crash(r) ==
  /\ ~At(r, "idle")
  /\ At(r, "truncate") => "crash_unsaved" \in Mishaps
  /\ At(r, "fill") => "crash_torn" \in Mishaps
  /\ Leave(r) /\ Fault
  /\ UNCHANGED <<checkout, stored, status>>

\* clear_index, or the storage directory deleted: the snapshot survives it.
Clear(p) ==
  /\ "clear" \in Mishaps
  /\ \A r \in Runs : pc[r] = "idle"
  /\ chunks' = [chunks EXCEPT ![p] = {}]
  /\ rows' = [rows EXCEPT ![p] = 0]
  /\ Fault
  /\ UNCHANGED <<checkout, snapshot, empty, status, pc, locals>>

----------------------------------------------------------------------------

Change == \/ \E f \in Files : Edit(f) \/ Delete(f)
          \/ \E f \in Files, v \in Versions : Restore(f, v)

Start == \E r \in Runs :
           \/ \E p \in Providers, name \in Names, forced \in BOOLEAN :
                StartJob(r, p, name, forced)
           \/ \E p \in AutoProviders : StartAuto(r, p)

Step(r) == \/ SeeChange(r) \/ SeeAge(r) \/ SkipFresh(r)
           \/ Decide(r) \/ Scan(r) \/ Compare(r)
           \/ \E f \in Files : ChunkFile(r, f) \/ SkipFile(r, f)
           \/ Embed(r) \/ Refuse(r) \/ Publish(r)
           \/ Truncate(r) \/ Fill(r) \/ Describe(r) \/ Finish(r)

Trouble == \/ \E r \in Runs : Fail(r) \/ Cancel(r) \/ SaveFails(r) \/ Crash(r)
           \/ \E p \in Providers : Clear(p)

Next == Change \/ Start \/ (\E r \in Runs : Step(r)) \/ Trouble

Spec == Init /\ [][Next]_vars

\* A thread that runs goes on running. The server comes back to the checkout
\* (the search of a user, the five-minute tick), a snapshot that nobody saves
\* again grows older than the maximum age.
Fairness ==
  /\ \A r \in Runs : WF_vars(Step(r)) /\ SF_vars(SeeAge(r))
  /\ \A p \in AutoProviders : WF_vars(\E r \in Runs : StartAuto(r, p))

FairSpec == Spec /\ Fairness

----------------------------------------------------------------------------
(* Properties                                                                 *)

Identities == [state : States, of : {None}] \cup [state : {"ready"}, of : Trees]
Tasks == [provider : Providers, scope : Providers, name : Names \cup {DirName},
          auto : BOOLEAN, forced : BOOLEAN, start : Trees, before : Identities]

\* Every variable stays in its domain.
TypeOK ==
  /\ tree \in Trees /\ latest \in Trees
  /\ \A f \in Files : tree[f] <= latest[f]
  /\ chunks \in [Providers -> SUBSET Chunks]
  /\ rows \in [Providers -> Nat]
  /\ snapshot \in [Providers -> Trees \cup {Missing, Torn}]
  /\ empty \in [Providers -> BOOLEAN]
  /\ status \in [Providers -> Identities]
  /\ pc \in [Runs -> {"idle", "fresh", "decide", "scan", "compare", "chunk",
                       "publish", "truncate", "fill", "describe", "finish"}]
  /\ task \in [Runs -> Tasks \cup {None}]
  /\ \A r \in Runs : pc[r] # "idle" => task[r] \in Tasks
  /\ scan \in [Runs -> Trees \cup {None}]
  /\ plan \in [Runs -> [full : BOOLEAN, drop : SUBSET Files, take : SUBSET Files]]
  /\ made \in [Runs -> SUBSET Chunks]
  /\ faults \in 0 .. MaxFaults

\* Between its publication and the end of its snapshot a run has put chunks
\* in the index that the snapshot does not speak of yet.
Saving(r) == pc[r] \in {"truncate", "fill"}
Settled(p) == \A r \in Runs : Saving(r) => task[r].provider # p
Trusted(p) == Settled(p) /\ snapshot[p] \in Trees

\* The index follows its snapshot: it has the chunks of one version of a file,
\* and of no file the snapshot does not list. A chunk that breaks this is
\* found by searches for ever, because later runs only drop the chunks of
\* files that differ from the snapshot.
OneVersion(p) == \A c, d \in chunks[p] : c.file = d.file => c = d
Listed(p) == \A c \in chunks[p] : snapshot[p][c.file] # Absent
IndexFollowsSnapshot ==
  \A p \in Providers : OneVersion(p) /\ (Trusted(p) => Listed(p))

\* No chunk is older than the hash the snapshot has for its file: an edit that
\* falls between the scan and the chunking can only leave the index ahead of
\* the snapshot, where the next run sees it, and never behind it, where none
\* would.
NeverBehind ==
  \A p \in Providers :
    Trusted(p) => \A c \in chunks[p] : snapshot[p][c.file] <= c.version

\* An index whose identity is ready for a checkout has exactly the chunks of
\* that checkout, whatever was edited, failed, cancelled or died before.
Contents(p) == {<<c.file, c.version>> : c \in chunks[p]}
ContentsOf(t) == {<<f, t[f]>> : f \in {g \in Indexable(t) : t[g] \notin Chunkless}}
ReadyMeansExact ==
  \A p \in Providers :
    status[p].state = "ready" => Contents(p) = ContentsOf(status[p].of)

\* A full rebuild repairs the index whatever happened to it before, lost and
\* torn snapshots, cleared indexes and chunks of other project names included:
\* when it ends the index follows the snapshot again.
Rebuilt(r) ==
  LET p == task[r].provider
  IN /\ OneVersion(p)
     /\ \A c \in chunks[p] : scan[r][c.file] # Absent
     /\ snapshot[task[r].scope] = scan[r]
RebuildRepairs ==
  \A r \in Runs : At(r, "finish") /\ plan[r].full => Rebuilt(r)

\* A search that skips its reindex as fresh would have a checkout that is what
\* the snapshot says, file by file (needs_reindex).  It does not hold with
\* two files: a file renamed in its directory leaves the root hash as it was
\* (merkle_dag.py 207).  No run checks it.
FreshStep == \A r \in Runs : SkipFresh(r) => snapshot[task[r].scope] = tree
FreshIsUnchanged == [][FreshStep]_vars

\* Once the checkout is left alone and the faults have ended, the index comes
\* to the chunks of the checkout and stays there.
Converges ==
  \A p \in AutoProviders : <>[](Contents(p) = ContentsOf(tree))

\* And its identity comes back to ready, however runs were interrupted.
ReadyAgain == \A p \in AutoProviders : []<>(status[p] = Ready(tree))

\* Compaction limits itself: an index with more garbage than it tolerates is
\* rebuilt, and the garbage is gone.
CompactionEnds == \A p \in AutoProviders : []<>~Wasteful(p)

=============================================================================
