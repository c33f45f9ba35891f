# TLA+ models of code-search

`code-search` indexes a source tree (chunks, embeddings, a FAISS index and two
SQLite databases) and serves searches over it through an MCP server. This
directory holds TLA+ modules of its core, TLC configurations that check them on
small instances, and proofs that the TLA+ proof system checks for every
instance. `PROJECT.json` maps every definition to the lines it stands for.

## 1. The system

| Component | State | Operations | Talks to |
| --- | --- | --- | --- |
| Index store (`search/indexer.py`, `search/epoch_manifest.py`) | marker file, `manifest/current.json` and `prior.json`, generation directories, root mirrors (`code.index`, `chunk_ids.pkl`, `metadata.db`, `fts5.db`), open SQLite handles, the index in memory | open, `publication_transaction`, `begin_rebuild`, `add_embeddings`, `remove_file_chunks`, `save_index`, `rollback_unpublished_changes`, `clear_index`, recovery, repair, pruning | shared storage with other processes; called by the incremental indexer and the searcher |
| Writer and storage locks (`search/indexer.py` 142-382) | thread lock, depth, owner, file handle, pid | acquire, release, reset after fork | taken by every operation above |
| Incremental indexer (`search/incremental_indexer.py`) | none of its own; reads snapshot and tree | `incremental_index`, `_full_index`, `auto_reindex_if_needed` | change detector, chunker, embedder, index store, snapshots |
| Merkle tree and snapshots (`merkle/`) | snapshot file and its metadata | `detect_changes`, `save_snapshot`, `load_snapshot` | incremental indexer |
| Indexing jobs (`search/index_jobs.py`, `mcp_server/code_search_server.py`) | one foreground job record, one background guard | start, progress, cancel, finish, dispatch, release | server threads, incremental indexer |
| Source identity and evidence (`search/identity_checks.py`, `search/index_identity.py`, `search/evidence.py`, `mcp_server/evidence_tools.py`) | identity files | persist, finalize, check | incremental indexer, server |
| Project storage (`mcp_server/code_search_server.py`) | storage directories, active project and provider, cached manager and searcher | resolve, migrate, index, search, switch, clear, delete | all tools |
| Search, fusion, rerankers (`search/searcher.py`, `fusion.py`, `retrieval.py`, ...) | none that lasts | search | index store, remote models |
| Embeddings (`embeddings/`) | query cache in memory and on disk, cache of chunk vectors, the configuration in `project_info.json` and manifest | register, open, embed a query, embed chunks | incremental indexer, searcher, remote models |
| Chunking (`chunking/`) | none | chunk | incremental indexer |
| Metadata store, query history, audit, path validation, scripts, evaluation | SQLite tables; none | reads, appends | index store |

What is hard: several processes and threads write one directory; a writer can
crash, fail or be cancelled between any two file operations; a reader resolves
manifests while they are replaced; SQLite journals outlive the file they belong
to; a fork copies a held lock; a watchdog gives up on a thread that is still
running; index and snapshot are saved in two steps; the checkout changes between
two git commands; four caches of one server are each changed by some of its
tools; remote models fail, come late and answer for fewer texts than they were
asked about. Tool calls do overlap: the MCP library (from version 2 on) runs
synchronous tools on worker threads. `PROJECT.json` lists each of these at its
line under `hazards`.

What makes each component correct:

- **Index store**: what a reader resolves changes in one step from one whole
  index to the next and never gets lost without damage or a reset; the roots
  show what is published unless the marker warns; a generation is made of one
  working set; nothing a manifest names is removed; a live writer is left
  alone; the lock is always given back; a damaged store can be rebuilt.
- **Locks**: at most one thread of one process inside; re-entrant; a forked
  child never releases the lock of its parent.
- **Incremental indexer and snapshots**: after any sequence of runs, failures
  and crashes, what is indexed is what the snapshot says, and a run that
  succeeds makes it the tree that was read.
- **Jobs**: one foreground job at a time, which is the one that is reported; one
  background reindex at a time; what is said of an index is true and taken back
  when nobody is at it any more; every job ends.
- **Project storage**: an index holds vectors of its own provider, and a query
  meets only such; a job writes where it was registered; an index is lost only
  by deleting, clearing or indexing.
- **Identity and evidence**: an identity that is recorded and is that of the
  checkout is the identity of what is indexed; a chunk that is offered as
  evidence is what its label says.
- **Search and rerankers**: an answer has live chunks, once each, within the
  filters; whatever an engine does, no candidate is lost; every search ends.
- **Embeddings**: a vector is that of its text and of the configuration the index
  names, through caches that projects share and answers that come short.

## 2. Modules

| Module | Models | Its theorems |
| --- | --- | --- |
| `AtomicIndex` | what a reader is promised: one index that changes in one step | |
| `Publication` | the index store: generations, manifests, mirrors, marker, recovery, rebuild | `PublicationProofs`; invariant in `PublicationInvariant` |
| `WriterLock` | the inter-process writer lock: threads, nesting, forks, crashes | `StorageProofs`; invariant in `WriterLockInvariant` |
| `IncrementalIndex` | runs of the indexer against snapshot and checkout | `IncrementalIndexProofs`; invariant in `IncrementalIndexInvariant` |
| `IndexJobs` | who may index when: jobs, reindexing searches, background thread, watchdog | `IndexJobsProofs`; invariant in `IndexJobsInvariant` |
| `ProjectStorage` | which directory, provider and manager a call uses | `StorageProofs` |
| `Evidence` | captures of the checkout, command by command, and what a search attests | `EvidenceProofs` |
| `SearchRequest` | one search, from its legs to its answer, over an index that changes | `SearchRequestProofs` |
| `Embedder` | configuration, caches and batches of vectors | `EmbedderProofs` |
| `Selections` | sequences made of elements of others: picked, filtered, deduplicated, sorted | lemmas in `SelectionProofs` |

`MC<module>.tla` and `MC<module>*.cfg` are the instances for TLC. The modules
meet where the code's components do, each taking the others at what they have
been shown to do:

- `Publication` takes the writer lock as held or not; `WriterLock` says what it
  takes for that to be so. `IncrementalIndex` takes a transaction of
  `Publication` as one step (`Publish`), which is what `AtomicPublication` shows.
- `IndexJobs` takes a run of `IncrementalIndex` as scan and outcome. It shows
  where two runs overlap, which `IncrementalIndex` has as the mishap
  `"overlap"`.
- `Evidence` splits into git commands and single reads what `IncrementalIndex`
  and `IndexJobs` take as one capture of the checkout. All three have the fence
  of `finalize_index_identity`, each with the detail its properties need.
- `ProjectStorage` and `Embedder` both have the provider of an index, the one to
  choose a directory, the other to make vectors.

Left of the plan: a reader that loads the files of a generation one by one
without the writer lock (`indexer.py` 1384); `bootstrap_unmanifested`,
`upgrade_legacy` and `publish_root_generation` as operations of `Publication`;
directories within directories in `IncrementalIndex`; the merging of chunks and
the integrity audit as pure operators.

## 3. Publication: model and code

| Variable | In the code |
| --- | --- |
| `marker` | the file `.publication-in-progress` |
| `current`, `prior` | the generation `manifest/current.json` / `prior.json` name, `NoGen` if absent, `Garbled` if it does not parse |
| `dir`, `body` | `.generations/<token>`: absent, a candidate or sealed; `ix` stands for `code.index` and `chunk_ids.pkl`, `db` for `metadata.db` and `fts5.db` |
| `root` | the mirrors of the same files in the storage directory; `wal` is an unmerged SQLite journal beside them |
| `attached` | processes whose SQLite handles are on the present root files |
| `holder` | owner of `.code-search-writer.lock` |
| `pc`, `cont` | the routine a process is in, and the one it returns to: recovery, repair, rollback and publication share the code that replaces the roots |
| `mem`, `gen`, `temp` | the index in memory, the generation being published, the copies about to replace the roots |

A step is one durable change or one test whose answer a later step uses. A
transaction is `BeginTransaction` (lock, then `_recover_published_generation`),
`RecoverClean` / `RecoverGeneration` / `RecoverNothing` / `RecoverRefused`,
`Repair` or `RepairSkipped`, the body (`MarkDirty`, `BeginRebuild`, `Mutate`),
`save_index` (`SaveSkipped`, `SaveRefused`, `Stage`, `WriteCandidate`,
`CandidateRejected`, `Seal`, `Mirror`, then `Sidecars`, `MirrorIx`, `MirrorDb`,
`Rotate`, `Promote`, `Unmark`, `Prune`) and `LeaveTransaction`. `BeginClear`,
`DropIx`, `DropDb`, `DropManifest`, `DropGens` are `clear_index`; the drops are
also those of a rebuild, of a recovery without a manifest and of a rollback.
`FailInBody`, `FailInSave`, `FailInRecovery` are exceptions at any of these
steps, `Crash` ends a process and frees its lock, `Decay` damages one file.
`Handler` is the except clause of the incremental indexer, which rolls back
outside of any transaction and without the writer lock.

Content is abstracted to the working set it was written from. Two facts about
SQLite that the model relies on: a journal beside a database file is replayed
into whatever file has that name; and a handle on a replaced `metadata.db` (it
has a write-ahead log) accepts writes that nobody will see.

### Runs

| Run | Instance | Shows |
| --- | --- | --- |
| `publication_writers` | two indexing processes, three generations, two working sets, one decay | all safety properties, the inductive invariant, the refinement to `AtomicIndex` |
| `publication_progress` | two processes, no decay, fair | every operation gives the lock back |

Bounds. Three generations are the two the manifests name and the one being
written; more are never alive, as pruning removes the rest (a manifest that
does not verify may keep one more alive until then). Two working sets tell
"this index" from "another", and their sizes (5 and 2) are the boundary of the
truncation guard. Two processes are a writer and its competitor. One decay
damages any one of the five places a reader looks at; the proofs are for any
number of decays.
Symmetry: generation tokens, and the processes where both have the same role.
`publication_progress` uses one working set and no symmetry. `publication_writers`
runs under the constraint `RollbackAlone`: a rollback outside of a transaction
meets no other process that is inside an operation. The first finding is what
happens without it.

Fairness: `WF(Step(p))`, for a process that has begun an operation. The code is
straight-line inside an operation, with no wait except for the lock, which
`Step` does not contain. Starting an operation, failing, crashing and decay have
none.

### Findings

- `incremental_index` and `_full_index` roll back in their except clauses
  without the writer lock (`incremental_indexer.py` 397, 408, 711, 722). With
  another process inside a transaction the roots and the marker of that writer
  are replaced, and it then commits a generation whose vectors and databases
  come from two working sets. Without the constraint `RollbackAlone`,
  `WriterUndisturbed` and `CommittedWhole` both fail under
  `MCPublicationWriters.cfg`. The architecture promises the opposite:
  "Concurrent writer conflict: Serialize through process/interprocess locks"
  (`docs/ARCHITECTURE.md` 283).
- A marker over manifests that do not verify cannot be cleared by a rebuild,
  although the design document counts on a rebuild ("acceptable because the FAISS
  index can be rebuilt from source if both fail", `docs/epoch_manifest_design.md`
  187). `RebuildPossible` says so and fails under `MCPublicationWriters.cfg` with
  `MaxDamage = 2`: a rebuild that is interrupted after two decays leaves the marker, and every
  constructor and transaction then raises (`indexer.py` 979).

### Proofs

`ConstantsAssumption` (module `Publication`) is the only assumption: any sets of
processes, generations and working sets. `PublicationProofs` first proves
`Spec => []TypeOK` (no run has it as a property of its own: it is a part of
`IInv`). The other theorems have the form
`Spec /\ []RollbackAlone => ...`: the hypothesis excludes exactly the behaviours
of the first finding, which do violate the conclusions.

The inductive invariant `IInv` (module `PublicationInvariant`, also checked by
`publication_writers`) has five parts.

- `LockInv` ties the control state of a process to the lock; with the hypothesis
  it gives `Exclusive`: at most one process is inside an operation. All the rest
  rests on this.
- `WorkInv`: a transaction writes to the present root files, and the journal
  holds what its memory holds. This is what makes the two halves of a
  generation belong together.
- `StoreInv`: a generation on disk is whole; what a manifest names exists; the
  generation being published is named by nobody; the roots are dropped for good
  only if there is no manifest; the marker is there at every place where the
  roots may differ from what is published.
- `MirrorInv`: without damage, the roots match what is published whenever there
  is no marker, and how far a replacement has come at each step.
- `TypeOK`.

`PublicationProofs` has frame lemmas first (what a step of one process leaves to
the others), then one lemma per part with a step per group of actions, then
`InvStep` and the theorems. Its last part shows that every step either
leaves `Resolved` and `Fallback` alone or is a step of `AtomicIndex`.

Only model-checked: `LockReleased` (liveness under fairness is out of the
prover's reach).

Not modelled: the import of stores written before manifests existed
(`bootstrap_unmanifested`, `upgrade_legacy`), `publish_root_generation`, which
only administration scripts call, and readers. The file system is assumed to
rename atomically; `fsync` and loss of power are not distinguished from a crash
of the process.

## 4. WriterLock: model and code

`_InterProcessWriterLock` is one object per process and directory. `Publication`
knows only who has it; `WriterLock` is the object itself.

| Variable | In the code |
| --- | --- |
| `threads` | the threads of a process that is running |
| `mine` | `_pid == os.getpid()` |
| `mutex`, `depth`, `owner`, `handle` | `_thread_lock`, `_depth`, `_owner_thread`, `_handle` |
| `pids` | `_context_pids`; an entry is TRUE if it equals `os.getpid()` |
| `pc`, `opened` | where a thread is in `acquire` or `release`, and the file it has opened there |
| `own`, `inherited` | the `with` blocks a thread is in: those entered in this process, and those its parent had entered at the fork |
| `sharers`, `locked` | the operating system: who has a descriptor on an open-file description, and which description has the flock |

`acquire` is `Enter` (the test of the process id), `Reset` (the rest of
`_reset_after_fork`), `TakeThreadLock` (thread lock and open), `TakeFileLock`
or, if the object is held, `TakeAgain`; `AcquireFails` is its except clause.
`release` and `__exit__` are `Exit`, `ExitInherited` (no release: the context
is the parent's) and `ExitRaises`. `Fork` copies the object and shares the
descriptions, `Crash` closes what a process has open, `Spawn` starts a thread.
A thread that waits for a thread lock that another thread has replaced by a
reset waits for ever (`"stuck"`).

One condition is not part of the code. `ResetAlone`: a process that still has
its parent's lock object has one thread. The first finding shows that it is
needed.

| Run | Instance | Shows |
| --- | --- | --- |
| `lock_forks` | three processes, each a fork of the one before, two threads, under `ResetAlone` | exclusion, both inductive invariants, no process ends the lock of another |
| `lock_crashes` | two unrelated processes of two threads, one faulty, fair | somebody gets in |

Bounds. Two nested blocks are the shortest nesting; the third process is a fork
that inherits what its parent inherited; two threads make the races; one
description per process is enough for what a process holds, a third for a child
whose parent's is still shared. Symmetry: descriptions, and the threads
other than `Main` (which keeps its role as the first).

Fairness: weak, on a thread inside `acquire` (`Proceed`) and on leaving blocks
(`Release`), the latter being the assumption that work under the lock ends.
`Granted` promises only that somebody gets in: `flock` and Python's locks are
not first come, first served.

Findings.

- `_reset_after_fork` tests and resets without a lock (`indexer.py` 205): two
  threads of a forked process can both reset, and both get in. Without the
  constraint `MutualExclusion` fails under `MCWriterLockForks.cfg` in twelve
  steps.
- `_context_pids` is shared by all threads, so a thread that leaves an inherited
  block takes the entry of another one, whose own exit raises or releases nothing
  (`ExitRaises`, `ExitInherited`), and a lock is never released. This needs two
  threads in a forked process, one of them still inside a block of its parent.
  `lock_forks` has these states: exclusion survives them, `Granted` would not.
- The design document says the operating system releases the lock of a dead
  writer (`docs/epoch_manifest_design.md` 174); a fork of it that lives keeps it:
  `Crash` takes a process off the sharers of a description, and the lock stays
  while one is left.

Proofs (`StorageProofs`), for any sets of processes, threads and descriptions;
`LockConstants` says that the values are what their names say.

- `LockSpec => []LockTypeOK`, `LockSpec => []FilesInv` and from it
  `LockSpec => KeptFromOthers`, without any condition on forks. `FilesInv` says that
  a process has a descriptor on what it has a handle of (`SharedInv`) and that
  no two processes with an object of their own use one description
  (`DistinctInv`). Both are needed: a flock ends with the last descriptor, or
  with an explicit unlock by anybody who shares it; the first case is excluded by
  `SharedInv`, the second by `DistinctInv` and by `PidInv`, which says that a
  context is released only where it was entered.
- `LockSpec /\ []ResetAlone => []InsideInv`, and from it
  `LockSpec /\ []ResetAlone => []MutualExclusion`. `InsideInv` adds that who is
  inside is the owner of an object with the file lock, with no more blocks than
  the object counts (`OwnInv`), and that a thread between the thread lock and the
  file lock is alone there (`WaitInv`). The first finding shows that the
  hypothesis cannot be dropped.

Only model-checked: `Granted`, a liveness property. Not modelled: `_ProcessAwareRLock` around the storage (142-183), which
has the same reset and context list but no file, and Windows' polling lock.

## 5. IncrementalIndex: model and code

The index and the Merkle snapshot are two stores. A run compares the checkout
with the snapshot, publishes the difference, and writes the new snapshot; the
module is about what the order of these steps keeps true while the checkout
changes and runs fail.

| Variable | In the code |
| --- | --- |
| `tree`, `latest` | the files of the checkout, each with the number of its version; the newest version there has been |
| `chunks`, `rows` | the rows of `metadata.db` and FTS5, and the number of vectors in FAISS, which keeps those of removed chunks |
| `snapshot`, `empty` | `<id>_snapshot.json` of a scope (a provider, or none), `Torn` if it is cut off; its metadata has both counts of an empty corpus |
| `status` | the index identity in `project_info.json`, with the checkout a ready one is for |
| `pc`, `task` | where a run is, what it was asked for, the identity it started from and, for a search, the one it found |
| `scan`, `plan`, `made` | the DAG it built, the mode and the files to drop and to chunk, the chunks it embedded |
| `faults` | the bound on faults |

A run is `StartJob` (`index_directory`) or `StartAuto` (a search, in the
foreground or in the background), then for a search `SeeChange`, `SeeAge` or
`SkipFresh` (`needs_reindex`), then `Decide` (full or incremental), `Scan`,
`Compare`, `ChunkFile` for each file, `Embed` or `Refuse`, `Publish` (one
transaction of `Publication`), `Truncate`, `Fill` and `Describe`
(`save_snapshot`) and `Finish` (the second reading of the identity). `Fail`,
`Cancel`, `SaveFails` and `Crash` end it earlier; `Clear` is `clear_index`.
`Edit`, `Delete` and `Restore` are what people do to the checkout.

One version stands for the content of a file, one chunk for its chunks; `Shape`
says which versions give a chunk the same id (same lines, kind and name: it is
overwritten), `Chunkless` which give none. The root hash is modelled as the
code computes it, from the hashes of the files and not from their names.

`Mishaps` are environment assumptions that nothing in the code enforces. Each of
them, alone, breaks `ReadyMeansExact` or `IndexFollowsSnapshot`; TLC finds it in
a few steps when `MCIncrementalIndexSafe.cfg` (for the last two rows
`MCIncrementalIndexFair.cfg`) is changed as the first column says.

| Change | Property | What happens |
| --- | --- | --- |
| `Mishaps = {"restore"}` | `ReadyMeansExact` | a file is edited while a run works and is put back before the next run, which finds no change; both identities of the first run are equal (`identity_checks.py` 89) |
| `AutoProviders = {other}` | `ReadyMeansExact` | jobs go by the snapshot of their provider, searches by the unscoped one (`code_search_server.py` 1229 and 1444, but 1990) |
| `Mishaps = {"crash_unsaved"}`, or `"save_fails"` | `ReadyMeansExact` | the index is published, the snapshot is not; the file it added is deleted and its chunk stays (`incremental_indexer.py` 363) |
| `Mishaps = {"crash_torn"}` | `ReadyMeansExact` | the snapshot is written in place; a cut off one exists but loads as none, so every file is added and none is removed (`snapshot_manager.py` 103) |
| two runs, `Mishaps = {"overlap"}` | `IndexFollowsSnapshot` | comparison and snapshot are outside the writer lock; two runs publish the same change, or save in the other order |
| `Names = {DirName, Chosen}` | `ReadyMeansExact` | `remove_file_chunks` only sees chunks of the project name it is given (`indexer.py` 1962); a search always uses that of the directory |
| `Chunkless = {2}`, fair | `CompactionEnds` | when all files have become empty, the rebuild that would compact is refused (`incremental_indexer.py` 592), for good |
| `FreshIsUnchanged` as the property | `FreshIsUnchanged` | a file renamed in its directory leaves the root hash as it was (`merkle_dag.py` 207), and a search takes the index as fresh |

The lines the documents have on these: "It removes deleted or replaced chunk
metadata" (`docs/ARCHITECTURE.md` 155), "A partially written or
source-incoherent index must not become ready" (29), "Each project/provider pair
has its own index, manifest, Merkle snapshot, and configuration" (259).

### Runs

| Run | Instance | Shows |
| --- | --- | --- |
| `index_safe` | two runs, the index of none and of a named provider, one file of two versions, one fault | the index follows its snapshot and is never behind it; ready means exact; the inductive invariant |
| `index_repair` | one run, two project names, two faults, all mishaps but overlap | a full rebuild repairs whatever happened |
| `index_fair` | two files, one of an unknown language, three versions, the index may be cleared, one fault, fair | index and checkout come together, the identity becomes ready, garbage is compacted |

Bounds. A file that exists, is edited, and goes has been through everything the
comparison distinguishes; files meet only in the root hash, in the compaction
ratio and in the refusal of an empty rebuild, for which `index_fair` has two.
Three versions and two shapes give a chunk that is replaced by id and one that is
not, and enough dead vectors for the compaction. Two runs are one on each index,
until a fault, which starts a second round of one (`OneAfterFault`). `CHECK_DEADLOCK FALSE`: when no version is
left and jobs have no name to run under, nothing remains to be done.

Fairness. Weak on the steps of a run: a thread goes on. Weak on `StartAuto`: the
server comes back to the checkout, by the searches of users and the tick of five
minutes. Strong on `SeeAge`: a snapshot that is not written again grows older
than the maximum age; a run that looks at it again and again finds it old at
some point. None on the checkout, jobs, failures. `Converges` and `ReadyAgain`
hold because versions and faults are bounded, that is, once the checkout is left
alone.

`ReadyAgain` rests on the age: a run that dies leaves its identity pending, and
a search that finds the snapshot fresh puts back what it found, pending included.

Not modelled here: directories within directories, the recovery of an index by
its git state; embeddings are in `Embedder`, directories in `ProjectStorage`,
hashes of the body of Markdown files and the parts of an identity in `Evidence`. A file that cannot be read for a moment counts as one
without chunks and its hash goes into the snapshot: it is missing until it
changes or a rebuild is asked for; only `index_repair` has that mishap.

### Proofs

`IncrementalIndexProofs` proves `Spec => []TypeOK` from the assumptions on the
constants alone. Three theorems, `IndexFollowsHolds`, `NeverBehindHolds` and
`ReadyMeansExactHolds`, are for any files, versions, providers, runs and bounds,
under the hypothesis `Disciplined`: no `Mishaps`, one project name, and searches
of the unscoped index only. It is the negation of the table above, where each
part of it is dropped and a property fails. Failures and cancellations up to the
publication, crashes anywhere but between the publication and the end of the
snapshot, and edits and deletions at any step are all allowed.

The properties are not inductive; `IndexInv` (module
`IncrementalIndexInvariant`, checked by `index_safe`) is. Its parts:

- `TypeInv`: the types, and that a run past its scan has one.
- `RunInv`: a run has its index and its snapshot to itself, and the identity of
  that index is not ready while it works. A step of a run is therefore local
  (lemma `ActsLocal`), and most of the proof is about one run.
- `PastInv`: snapshots, scans and starting points are in the past of the
  checkout: a file that now differs from them is newer than them or gone, and
  will not be the same again. This is why a file read after it was hashed does
  no harm, and what `"restore"` takes away. It also says that a file which is
  what it was at the start of a run was scanned like that, which makes the second
  reading of the identity sufficient.
- `StoreInv`: an index that nobody is saving belongs to its snapshot. It has one
  version of a file, of listed files only, not older than the snapshot, and for
  every file that is now what the snapshot says, the right chunks. `Matches`
  is restricted to those files because the index may be ahead for the others.
- `MakeInv`: the same of what a run has made so far and its scan, for the files
  that it has chunked; with `MergeBelongs` and `RebuildBelongs` (what dropping,
  overwriting and adding leave) it gives the relation of index and scan after
  the publication.
- `SaveInv`: that relation is kept until the scan is the snapshot.
- `ReadyInv`: identities that are ready, or that a search will put back, are
  exact.

The proof has the type lemmas first, then a lemma on what changes, starts and
steps of a run leave alone (`ChangeMoves`, `StartsAlone`, `ActsLocal`), then one
step lemma for each part of `IndexInv`.

`RebuildRepairsHolds` is about mishaps, so `Disciplined` would empty it. Its
hypothesis is `Lone`: no two runs overlap on one index, and searches refresh the
unscoped index only, as in the second row of the table (elsewhere a search would
write the snapshot of another index, that of a rebuild at work among them). All
other mishaps may happen, before the rebuild and during it. The inductive invariant `RepairInv` says of each run
whether it is a rebuild that has started over (`RebuildOf`): what it has made so far is
one version of each file it has chunked, all in its scan, which is why neither
the old index nor the old snapshot matters; that is the index from `Publish` on,
and the scan is the snapshot from the save on. `OwnInv` keeps other runs off both.
Nothing is said of the checkout, so nothing is needed of it.

Only model-checked: the liveness properties `Converges`, `ReadyAgain` and
`CompactionEnds`.

## 6. IndexJobs: model and code

One server. `index_directory` registers a job and starts a thread for it; a
search reindexes before it answers, or leaves that to a background thread.

| Variable | In the code |
| --- | --- |
| `mode` | how the server is deployed: calls on threads, `CODE_SEARCH_NONBLOCKING_SEARCH` |
| `source` | the version of the checkout |
| `job` | `IndexingJobState.job`: number, target, status, cancellation asked for |
| `guard` | `BackgroundReindexGuard`: the flag, whether it is older than the watchdog allows, whether it was ever taken over |
| `call` | what a tool call has done so far |
| `run` | what a thread that indexes has captured, scanned and found |
| `identity`, `index` | the identity state in `project_info.json` and the index of each target |
| `crashed` | the server has been restarted |

`index_directory` is `Ask` (the first look, under the lock), `TurnAway`,
`Register` (the second look and the registration), `Launch` or `LaunchRaises`.
A search is `SearchBlocking` or `Dispatch`, then `Enter`, `Pend` or `NeverEnter`
of `auto_reindex_with_identity`. A thread indexes by `Scan`, `Complete`,
`NothingChanged`, `Skip`, `Fail` or `Interrupt`, and `Settle`
(`finalize_index_identity`), then `Report`, `Release` or `Answer`. `Cancel`,
`Clear`, `Overdue`, `Restart` and `Edit` come in between.

| Run | Instance | Shows |
| --- | --- | --- |
| `jobs` | two targets, one with a malformed `project_info.json`, two calls, two background threads, two jobs, two edits, three deployments, fair | job and flag are true of the threads; a sequential server never indexes twice at once and what it says of an index is true; every job ends |

Bounds. Two calls race for the slot, two jobs follow each other, two background
threads are one that hangs and its successor. `Bounded` looks at servers that
are not sequential without edits, restarts and watchdog, and with two runs at a
time: what is claimed of them is about slot and flag, which edits leave alone;
the sequential server has the restarts, and the theorem is without `Bounded`.
`CHECK_DEADLOCK FALSE`: with its slot taken
by a malformed target, a server turns everything away.

Fairness. A call that has begun and a thread that runs go on. A thread that hangs
for ever is not fair; for that case the watchdog exists, and it is only in the
safety properties. `WorkEnds` is not claimed of a malformed target.

Findings.

- A `project_info.json` that is JSON but no object raises past the clauses for
  `OSError` and `ValueError` (`code_search_server.py` 1933), after the job is
  registered: the slot says "indexing" until the server is restarted, and every
  search and every `index_directory` is turned away. `LaunchRaises` has it, and
  `WorkEnds` excludes it.
- `release()` has no owner (`index_jobs.py` 276): a thread that the watchdog gave
  up on clears the flag of its successor, and a third may start. `FlagsTrue`
  holds only until the watchdog has struck (`guard.reclaimed`).
- A background reindex and a job know nothing of each other
  (`code_search_server.py` 1412), nor do two calls on threads: both write the
  index and the identity of one target, and one that had nothing to do puts
  "ready" back over the state of the other (`identity_checks.py` 179).
  `OneIndexer` and `IdentityTrue` are therefore stated of sequential servers
  (`Sequential`), and fail without that condition.

Proofs (`IndexJobsProofs`), for any targets, calls, threads, bounds and
deployments, from `JobsAssumption`. The invariant (`IndexJobsInvariant`) has the
shape of what is under way (`ShapeInv`), the slot (`SlotInv`), `FlagsTrue`, which
is inductive with these two, and for sequential servers `AloneInv` (one call or
one run at a time) and `TruthInv`: the version a run scanned is no older than the
one it captured, so equal captures before and after leave nothing in between;
what a search may put back is exact, because nobody else has touched the index
meanwhile. `WorkEnds` is only model-checked.

Not modelled: progress reports, `OSError` on `project_info.json`. A call that
names no target gets any.

## 7. ProjectStorage: model and code

| Variable | In the code |
| --- | --- |
| `dirs` | the directories of the storage by project and provider (None for the legacy form): whether there, the provider in `project_info.json`, the providers whose vectors it holds, the one its verified manifest names |
| `current` | `_current_project`, `_current_provider` |
| `manager`, `reader` | the cached index manager and searcher, the latter with its embedder |
| `job` | what the foreground job was asked, the directory it was registered with, the one it wrote |
| `tears` | bound on torn files |
| `listed` | the order in which the file system lists directories, on which two globs depend |

`Located` is `get_project_storage_dir` with the migration of a legacy directory,
`Managed` is `get_index_manager`, `Embedder` the choice of a provider, `GetSearcher`
is `get_searcher`. The actions are the tools: `IndexDirectory` and `Work` (its
thread), `SearchCode` with its reindex (`Refreshed`) and the registration of the
working directory (`Ensured`), `FindSimilarCode`, `Consult`, `ClearIndex`,
`SwitchProject`, `DeleteProject`; `Restart` and `Tear` end the process.

| Run | Instance | Shows |
| --- | --- | --- |
| `storage` | two projects, one of which an earlier version may have indexed with either provider or none, two providers, every order of directories, one torn file | vectors of one provider only, queries meet their own vectors, a job writes where it was registered, no index is lost |

Bounds. Two projects and two providers are an active and another one. The torn
file is looked at with one project, and so are the orders in which the two
providers or a legacy directory come in unusual places (`OneOrUsual`): a glob is
over the directories of one project. Two constants restrict the callers: with `Implicit = FALSE` they name a provider when they index, and before
anything is active; with `Sourced = FALSE` the working directory does not start a
job by itself (such a job names no provider).

Findings.

- `index_directory` of a project without a provider, while another provider is
  active, writes with the embedder of the one into the directory of the other
  (`code_search_server.py` 1125): "Each project/provider pair has its own index,
  manifest, Merkle snapshot, and configuration" (`docs/ARCHITECTURE.md` 259).
  With `Implicit = TRUE`, `JobIndexesItsTarget` and `VectorsOfProvider` fail in
  three steps.
- After a switch to A, an `index_directory` of B without a provider renames the
  legacy directory it has just registered; the job fails, and a second attempt
  splits identity and index over two directories.
- `delete_project` with a hash that is gone deletes the first sibling whose name
  begins like that of the project (3463-3472): a directory of another provider,
  or, for `foo`, one of a project `foo_bar` (`Extends`). That a deletion which
  names an index deletes only that one does not hold.
- `switch_project` without a provider may validate the legacy directory while the
  searches that follow read the empty one of the provider.
- A directory without `project_info.json` is deleted without the server being
  told (`Remove` resets only for a readable one), and a migration under a cached
  manager leaves it at a name that is gone.

Proofs (`StorageProofs`, beside those of `WriterLock`), for any projects, providers, torn files, orders
and extensions of names, under `~Implicit` and `~Sourced`: all four properties
and the types. The invariant: directories are `Pure` (the one of a provider has
vectors of that provider only; a legacy one, of the one it names; what is not
there is empty), the server is `Good` (an active project has a provider, and the
cached manager is at their directory), searcher and job agree with it. Each
helper keeps `Pure` and `Good`, so the proof has a lemma for each and one step
for each tool; `IndexesKept` follows from what the helpers keep of each populated
directory (`Keeps`).

## 8. Evidence: model and code

| Variable | In the code |
| --- | --- |
| `commits`, `head`, `stage`, `work`, `origin` | a git checkout: trees committed, the one checked out, the index of git, the files, the remote |
| `edits` | bound on edits, and the number that makes a text new |
| `info` | status and identity in `project_info.json` |
| `index`, `view` | the published index, and what the cached manager has loaded of it |
| `taken` | what the git commands of a capture have said so far |
| `run`, `query` | an indexing run, and a `search_code_evidence` |

`ReadHead`, `ReadStatus`, `DiffWork`, `DiffStage` and `ReadOthers` are the
commands of `capture_index_identity`, each atomic; `Identity` is what they add
up to. A run is `Start`, `Pend`, then `Skip`, or `Scan` file by file and
`Publish`, then `Finalize` or `Fail`. A search for evidence is `ReadInfo`,
`Opened`, `Search`, `ReadChunks`, `ReadInfo` again and `Attach`. `Edit`, `Drop`,
`Add`, `Commit` and `Pull` are people, at any moment in between.

A text has a body and, in Markdown, a front matter, which the hash of a file
leaves out. Without `Rewinds`, a file goes from one text to new ones and is not
again what it was while a commit is checked out.

| Run | Instance | Shows |
| --- | --- | --- |
| `evidence` | one file, two edits, two commits, reindexing searches, any command may fail | an identity that is ready and present has exactly its texts indexed; evidence is what its label says |

Bounds. `Hopeful` ends what cannot come to evidence any more; of the captures of
the run and of the query, which only read, one goes first (`Midway`). Two edits and two
commits are an old state, a new one and one in between; one file has every state
git knows of, and files meet only in whether a status is clean: two files with
one edit and one commit pass as well. The kind `"auto"` has all that `"part"`
has, and may also put back what it found. The first commit may have been indexed
before there were identities, so that a search loads an index nobody here made
(`Load`).

Findings.

- The commit is read before the status (`index_identity.py` 538). A commit
  between the two makes the closing capture "revision r, clean" over the texts of
  r+1, and if the run began at r clean, that is recorded as ready. It does no
  harm while the branch goes forward, as r is not the present revision any more:
  that is why `ReadyIndexExact` speaks of the present identity. Who goes back to r
  has an index of r+1 that is called exact.
- A file that is edited, read, and put back before the second capture is in the
  index and in neither capture: with `Rewinds = TRUE`, `ReadyIndexExact` fails
  (`identity_checks.py` 89; "A partially written or source-incoherent index must
  not become ready", `docs/ARCHITECTURE.md` 28-29).
- `hash_file` leaves out the front matter of Markdown (`merkle_dag.py` 13-36, 154):
  with `Fronted = {f}`, an incremental run keeps the old chunks of a file whose
  front matter was edited, and records the new identity over them.
- Files that git ignores and the indexer does not are in no fingerprint
  (`merkle_dag.py` 99-113); not in the model.
- When runs happen in another process, the cached manager goes on serving what it
  has loaded (`code_search_server.py` 1121) while the identity that the other
  process records is found ready and present: with `Foreign = TRUE`,
  `EvidenceTrue` fails.
- `clear_index` leaves a ready identity (`Clear`), and a status that names no
  project does not look for a job or at what is on disk.

Proofs (`EvidenceProofs`). `Spec => []TypeOK` from the assumptions on the
constants. Under `~Rewinds` and `Fronted = {}`, which the second and third
findings show to be needed, `Spec => []ReadyIndexExact`, for any files, remotes,
kinds of run, edits and commits, and also for runs of another process. The
argument is an order of texts (`Later`): while a commit stays checked out, each
file only moves on. So what a capture has read is no later than the file
(`CaptureInv`), what a run has read is later than its first capture and no later
than the file (`StartInv`), and so is what an index with that identity has
(`ReadyInv`). If that identity is the present one, the file is at both ends
equal, and the text in between is that text. A diff that misses a file its status
lists (`Certain`) belongs to two moments and claims nothing. `RevsInv` says that
no identity is of a later commit, so a new commit makes all of this vacuous, and
`TextsInv` that a body is written once, so a file whose body did not change is
the same. Only the first capture of a run is needed for this; the second makes
that a run over a changed source says so.

Its second part has `Spec => []EvidenceTrue`, under the same two hypotheses and
`~Foreign`, which the fifth finding shows to be needed. `ReadyIndexExact` is not
enough for it: it compares with the present identity, and an answer outlives
that. What has to be shown is that the label, taken once before the search and
once after it, fixes what was in the index between. `EInv` extends the invariant
of `EvidenceProofs`:

- `SteadyInv`: what a capture says of a file fits what it read of it, unless
  the file has left what its status said and cannot return to it while the commit
  stays (`Past`). If the commit is the present one, a second capture with the same result means that no file
  had left: then the identity `Denotes` what its statuses say (`Said`), file by file
  (`Steady`). For that no file may be removed from git and still be there, and
  no new one leave it (`Tracked`).
- `FirstInv`, `SecondInv`: the run's own two captures, and `ExactInv`, what
  follows for the identity it records: each file indexed is the text it says. What
  the run read is not before the first capture (`EvidenceProofs`) nor after what
  the second has read (`Before`); where both say the same, that leaves one text.
- `AskedInv`, `ChunksInv`: while a search works, an index published meanwhile lies
  between what the identity says and the present file; if the identity
  is recorded when the search looks again, it is exactly that, also if a run in
  between took it away and put it back.
- `ViewInv`: what the server has loaded is what is published. This is where
  `~Foreign` is used.
- `AnswerInv`: a label is true of the chunks it is put on and is of no later commit than
  the present one, so that a commit after the answer changes nothing about it.

Every part was checked by TLC on the instance of `evidence`, and in simulation
with two files, before it was proved. Not modelled: submodules, checkouts without
git, the other evidence tools, whose answers are made of the same four phases.

## 9. SearchRequest: model and code

One request, from its two legs to its answer, beside a reindex that removes and
adds files under the same storage lock, which each call of the manager takes for
itself.

| Variable | In the code |
| --- | --- |
| `vectors`, `live`, `rows` | FAISS with its chunk ids, `metadata.db`, the full-text table |
| `updates`, `lived` | calls of the reindex so far (a bound), and every chunk that was live during the request (history) |
| `request`, `promoted` | mode, number of results, filters and engine; what the signals of the query favour |
| `phase`, `near`, `words`, `candidates` | where the request is, what its legs returned, the hybrid order |
| `calls`, `late`, `applied`, `judged` | scoring calls, the time being up, what is reported of engine and agentic ranking |
| `answer` | the answer |

`VectorLeg` and `LexicalLeg` are `search` and `search_bm25` with over-fetching,
stale keys and padding; `Fuse` and `Blend` are rank fusion and signals;
`StartCalls`, `CallEnds`, `SonnetTimeout`, `OpenaiTimeout` and `Settle` are the
pointwise engines, `Listwise`, `CrossEncode`, `CrossEncoderFails` and
`NotReranked` the others; `PerFile`, `Answer` and `Agentic` make the answer. What
a query finds relevant is an order of keys, a score is high or low.

| Run | Instance | Shows |
| --- | --- | --- |
| `search` | six files, one of two chunks; a clean index and one with stale vectors, former rows and padding; four modes, five engine settings; two updates of two files; calls end in any order, fail or never end | the answer is sound, nothing is lost, fusion keeps what both legs agree on, every request is answered |

Bounds. A pool of four is the least at which the tolerance of 30 % for failed
calls makes a difference; two and five results are less and more than the pool;
seven chunks leave a tail after it. Requests without a promoted chunk, which say
what fusion alone does, are hybrid and without an engine (`FusionAlone`). Updates after the last leg change nothing, so
they are bounded to before. `CHECK_DEADLOCK FALSE`: a request ends.

Fairness. The thread of the request runs on; timers go off; calls of the OpenAI
engine end by their own timeout. Nothing makes a Sonnet call end: `Answered`
rests on the timeout of the cohort.

Findings.

- The cross-encoder and the listwise engine may raise (`int` of an environment
  variable, a client made outside of the `try`), against "Never raises"
  (`listwise_sonnet_reranker.py` 362) and "Failures inside an engine must preserve
  the hybrid order rather than raise" (`reranker_registry.py` 10-11); the cross-encoder reports itself not applied
  although it reorders, for which `NothingLost` excludes it.
- `last_reranker_metadata` belongs to the searcher: of two searches at once, one
  reports the engine of the other.
- Results are reduced to one per file without a refill, and three times k is
  fetched before stale and repeated keys are dropped: fewer than k may be
  answered although more would match.
- After the timeout of the OpenAI engine, leaving its executor waits for the call
  that runs, up to that call's own timeout (`openai_reranker.py` 255).
- The two legs may see two states of the index; `AnswerSound` promises only that
  each chunk was live at some moment of the request.

Proofs (`SearchRequestProofs`), for any files and chunks, any index found, any
rankings by similarity, by BM25 and by a model, any numbers of results, pools and
weights, and any reindex while the legs are read; `SearchAssumption` says that
rankings are of keys (or of the filler of a short id list), replies are lists of integers,
and limits and weights are positive.

- `Spec => []AnswerSound` and `Spec => []NothingLost`, from the invariant `IInv`.
  Legs, candidates and answer are each a `Listing` of `Allowed` chunks: none twice,
  each live at some moment and let through by the filters (`SoundInv`). A reindex
  can only enlarge `Allowed`, so what has been read stays sound (`ReindexStep`).
  Candidates are of different files, hence the last deduplication takes nothing off
  a hybrid answer, and its length is decided by the hybrid order (`HybridInv`).
  A semantic answer is part of its leg (`AnswerInv`), by whose similarity the
  chunks of a file are compared. Each call of an engine belongs to one place of the pool
  (`CallsInv`): when none is running, high, low and failed scores are a permutation
  of the pool (`GradedFacts`), and a ranking accepted by `Permutes` is one because
  it names as many places as there are (`PermutesFacts`). What is behind
  the pool is where it was (`RankFacts`). A reply of the agentic model may name a
  number twice, a wrong one, or none, and loses no result (`AgenticFacts`).
- `Spec => []FusionMonotone`. A share of a ranking is a sum over its places, of
  which only one counts when nothing occurs twice (`ShareFacts`); shares fall with
  the place, for any weight (`ShareFalls`), as whole numbers do when they are divided by more
  (`Division`). Sorting by score keeps the earlier of two first unless the later
  has more (`DescendingFacts`); the cut and the deduplication keep the order of what
  they leave. The mutant whose vector leg repeats a chunk breaks exactly the hypothesis of
  `ShareFacts`.

TLC checked `IInv` on the instance of `search` before it was proved. `Answered` is
liveness and checked by TLC only.

Not modelled: query rewriting and expansion as text, weights, prompts and parsing
of the engines, the envelope of a response.

## 10. Embedder: model and code

| Variable | In the code |
| --- | --- |
| `env` | the environment of the server: provider, model, dimension, input mode, keys, threshold of the Batch API |
| `stored`, `index` | the configuration in `project_info.json`, and that in the manifest with the vectors |
| `memory`, `asked` | the query cache of the process (oldest first) and `query_embeddings_v3` |
| `documents` | `doc_embedding_cache`, oldest first |
| `call` | where each search and each run is |

`Configured` is the choice of provider, model, dimension and input mode from
caller, project, manifest and environment. A search is `OpenSearch`, `Look`,
`Take`, `Touch`, `ReadRow`, `EncodeQuery`, `Trim`, `WriteRow`, `Return`: the steps
of `embed_query` on the shared cache, between which other threads run. A run is
`OpenIndex`, `Bulk`, `LookUp`, `Post`, `Settle`, `Publish`, `Describe`: batches,
requests with retries and short answers, the Batch API. `Restart` starts the
server in another environment, `Tear` loses a description. A vector is its text,
the space it is in (provider, model, input mode) and its dimension.

| Run | Instance | Shows |
| --- | --- | --- |
| `embedding` | two projects, four environments, two searches at a time or one run, a text that occurs twice, queries that differ in case, requests that fail, are answered short or in another dimension, caches that cannot be opened | a query gets its own vector, an index has the right vector for each chunk, and is opened again with the configuration it was made with |

Bounds. The limits are the least at which each thing happens: one cached query
and one cached row (256 and 200 000 in the code), two texts in a batch and in a
request, two tries (four). Queries and chunks share no cache, so `OneCache` looks
at one of them at a time, and at searches only over vectors in the order of a full
run, as a search embeds its query whatever the index holds. Two searches at once
are of two projects of one model in different dimensions, which share a row. The native dimension
of a local model is chosen equal to that of another provider, so that only the
space tells their vectors apart.
`Uncached = {"full"}`: of the runs, only full ones may find the cache closed, as
of the third finding. The environments with the Batch API have the input type on,
as of the fourth.

Findings.

- The query cache is trimmed when a query is encoded, not when it is found on
  disk (`embedder.py` 1327): it grows past its maximum.
- Two searches on threads race on the same `OrderedDict` (1296-1304): one that has
  seen its key loses it to the eviction of the other and ends with a `KeyError`.
  `Take` has that outcome; `QueryExact` is about the searches that are answered.
- An incremental run whose cache cannot be opened takes a short answer as it is
  (`embedder.py` 955-963, 1095; `incremental_indexer.py` 819-839): vectors are
  missing or shifted to other chunks. The grouped path refuses that ("instead of
  producing a silent partial index", `embedder.py` 1149-1154), and full runs
  count what they get (`incremental_indexer.py` 613).
- The Batch API always asks for documents and checks no dimension
  (`voyage_batch_embedder.py` 129-150): with `VOYAGE_INPUT_TYPE` off, bulk and
  single requests of one index are in two spaces.
- `JINA_TRUNCATE_DIM` outside of the model's dimensions is accepted when a
  project is registered (`embedder.py` 141-147) and refused whenever it is
  opened (307-322): nothing is ever indexed there, and `Reopened` says nothing of it.
- `OPENAI_BASE_URL` is not in the key of the caches: two servers' models of one
  name share vectors.
- A torn description without a manifest can never be opened; it has to be
  deleted.

Proofs (`EmbedderProofs`), for any projects, queries, texts, threads, environments
and limits. Of the environment, `SettingsAssumption` says what reading it gives:
strings, numbers and booleans, none of which is `Unset`, what Python has as `None`.

- `Spec => []QueryExact`. A row of either cache has a vector of its space and its
  text (`Exact`); its dimension may be that of another project, so each search
  looks at it before it takes the row. Other searches may
  evict, replace and reorder rows between any two of its steps; the proof does not
  care which, as each keeps all rows exact (`MemoryInv`, `AskedInv`), and what a
  search holds is its own (`Sure`). Indexers share no state with this (`IndexFrame`).
- `Spec => []Reopened`. Resolving a description that was resolved before gives
  the same again, in every environment (`ResolvedAgain`, `ResolvedStored`); a
  first resolution gives one that is `Settled` in this sense (`ResolvedFirst`). The
  invariant `ConfigInv` says that manifest and description agree where both are, and that
  runs of one project that go on at once have one configuration (`RunInv`): it is
  decided by what does not change before the first of them publishes, and by its
  manifest afterwards. `Torn` descriptions fall back to the manifest.

- `Spec /\ []BulkTyped => []IndexExact`, if incremental runs find the cache open.
  Both hypotheses negate findings: the fourth (`BulkTyped`: runs that go by the
  Batch API are of input-typed configurations) and the third (`"incremental"` is
  not in `Uncached`); without either the statement is false, and with both the run
  checks it. `IndexExact` compares two sequences in different orders,
  so the invariant counts: for every set of chunks of a project, an index has as
  many vectors of them as the source has (`Indexed`), and what a run has done and
  what it has to do are together as many as its files have (`GoodIn`). A full
  run may lose vectors on the way, as `zip` cuts what does not match, but then it
  has too few, for good (`LostIn`), or remembers an exception, and `Whole` refuses
  it. Between request and answer (`Posting`), all
  answers are those of their texts or there are fewer than were asked for; an
  answer of another dimension raises. Rows of the cache are true whoever
  wrote them (`DocumentsInv`), so a row that is found fits wherever it is used, and
  a text that is evicted between two batches is asked for again. An incremental
  run keeps of the old index what is outside its files and adds what it made of
  them; that both have one configuration is `ConfigInv`.

That rests on what selections, deduplication and sorting by file do to how often
an element occurs. `Selections` states them by the place each element gets
instead of recursively, as the number of those before it; `SelectionProofs` shows
that this fills the places of the result without gaps and in order
(`PlacedFacts`, `PickedFacts`, `SortedFacts`), and what it means for the elements,
for repetitions (`OnceDistinct`, `DistinctSize`, `SortedElements`) and for
how many there are of a kind (`AmongFacts`, `OnceFacts`, `CountAmong`,
`CountSorted`). `SearchRequest` uses the same operators.
`With(x, Op)` is `Op(x)`, written so that TLC evaluates `x` once. It needs cardinalities and least elements, and no induction over
the data.

Not modelled: loading of local models
and devices, the numbers, the cache of the last searcher, a few models whose
cases are those of others.

## 11. Not modelled

| Part | Why |
| --- | --- |
| `chunking/` | parsing with tree-sitter; no state. The merging of small chunks could be a pure operator |
| `search/integrity_audit.py`, `path_validation.py`, `index_format.py` | read-only checks and string processing |
| `mcp_server/query_history.py` | a best-effort log in one table |
| `mcp_server/doctor.py`, `logging_config.py`, tool registration | diagnostics and wiring |
| `scripts/`, `bench/` | command lines over the parts above, offline evaluation |
| `search/llm_judge.py` | scores for evaluation only |
| a reader that loads file by file | `Publication` stops at what a reader resolves; next in the plan |

## 12. What TLC does and what the proofs do

`tlc -config <cfg> <module>` runs an instance; `tlapm <module>.tla` checks a
module's proofs. Every invariant a proof rests on was checked by TLC before it
was proved: `IInv` of `Publication`, `InsideInv` and `FilesInv` of `WriterLock`
and `IndexInv` of `IncrementalIndex` are properties of runs.

Proved are all invariants of all runs, all action properties and the refinement.

Out of reach of the prover and left to TLC: liveness under fairness
(`LockReleased`, `Granted`, `Converges`, `ReadyAgain`, `CompactionEnds`, `WorkEnds`,
`Answered`) and `ENABLED`. What would need induction over data is stated without it:
selections by the place of each element (`Selections`), and the shares of a
ranking by a function over its places, about which least numbers suffice (`UpTo`). All assumptions on constants are named in the module that declares
them, and TLC evaluates them in every run.
