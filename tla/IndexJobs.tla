----------------------------- MODULE IndexJobs -----------------------------
(***************************************************************************)
(* Who may index, when, and what project_info.json says meanwhile: the     *)
(* foreground job of index_directory (its registration, its thread, its    *)
(* cancellation), the reindex a search runs before it answers, the reindex *)
(* a search leaves to a background thread, the flag and the watchdog of    *)
(* that thread, and the identity each of them writes.                      *)
(*                                                                         *)
(* Several tool calls overlap when the transport runs them on threads; a   *)
(* search starts background threads when CODE_SEARCH_NONBLOCKING_SEARCH is *)
(* set. "mode" says which, and is read only.                               *)
(***************************************************************************)
EXTENDS Naturals, FiniteSets

CONSTANTS
  Targets,    \* storage directories: one per project and provider
  Malformed,  \* those whose project_info.json is JSON but no object
  Calls,      \* tool calls that may be under way
  Bgs,        \* background reindex threads
  MaxJobs,    \* bound: jobs registered
  MaxSource,  \* bound: changes of the checkout
  Modes,      \* how the server is deployed: a set of [threads, nonblocking]
  None

ASSUME JobsAssumption ==
  /\ Malformed \subseteq Targets
  /\ Modes \subseteq [threads : BOOLEAN, nonblocking : BOOLEAN]
  /\ MaxJobs \in Nat
  /\ MaxSource \in Nat
  /\ Calls \cap Bgs = {}
  /\ (1..MaxJobs) \cap (Calls \cup Bgs) = {}
  /\ None \notin 0..MaxSource /\ None \notin {"ok", "skipped", "failed", "cancelled"}

VARIABLES
  mode,      \* [threads, nonblocking]
  source,    \* the version of the checkout
  job,       \* IndexingJobState.job
  guard,     \* BackgroundReindexGuard: [active, overdue, reclaimed]
  call,      \* what each tool call is doing
  run,       \* what each thread that indexes is doing
  identity,  \* per target: the identity state in project_info.json
  index,     \* per target: what the index holds
  crashed    \* the server has been restarted

vars == <<mode, source, job, guard, call, run, identity, index, crashed>>

Jobs == 1..MaxJobs
Runners == Jobs \cup Bgs \cup Calls   \* a call indexes itself when it blocks
NoJob == [id |-> 0, target |-> None, status |-> "none", cancel |-> FALSE]

Plain(s) == [state |-> s, of |-> None]
Ready(v) == [state |-> "ready", of |-> v]

NoRun == [at |-> "off", target |-> None, start |-> None, seen |-> None,
          before |-> Plain("none"), out |-> None]
NoCall == [at |-> "idle", target |-> None]

Init ==
  /\ mode \in Modes
  /\ source = 0
  /\ job = NoJob
  /\ guard = [active |-> FALSE, overdue |-> FALSE, reclaimed |-> FALSE]
  /\ call = [c \in Calls |-> NoCall]
  /\ run = [x \in Runners |-> NoRun]
  /\ identity = [t \in Targets |-> Plain("none")]
  /\ index = [t \in Targets |-> [of |-> None, whole |-> FALSE]]
  /\ crashed = FALSE

-----------------------------------------------------------------------------
Persist(t, s) == identity' = [identity EXCEPT ![t] = s]

\* What a capture of the checkout gives: its version, or an error.
Captures == {source, None}

Active == job.status = "indexing"

\* Tool calls are handled one after the other, unless the transport runs
\* them on threads.
MayCall(c) ==
  /\ call[c].at = "idle"
  /\ run[c].at = "off"
  /\ mode.threads \/ \A d \in Calls : call[d].at = "idle" /\ run[d].at = "off"

Goto(c, at, t) == call' = [call EXCEPT ![c] = [at |-> at, target |-> t]]

\* index_directory: the first look at the active job, under the lock. The
\* paths are checked after it, without the lock.
Ask(c, t) ==
  /\ MayCall(c)
  /\ ~Active
  /\ job.id < MaxJobs
  /\ Goto(c, "asked", t)
  /\ UNCHANGED <<mode, source, job, guard, run, identity, index, crashed>>

\* Mutant of Register: the job is registered on the first look alone.
RegisterUnchecked(c) ==
  /\ call[c].at = "asked"
  /\ job.id < MaxJobs
  /\ job' = [id |-> job.id + 1, target |-> call[c].target,
             status |-> "indexing", cancel |-> FALSE]
  /\ Goto(c, "registered", call[c].target)
  /\ UNCHANGED <<mode, source, guard, run, identity, index, crashed>>

\* The second look and the registration are one critical section.
Register(c) ==
  /\ call[c].at = "asked"
  /\ ~Active
  /\ job.id < MaxJobs
  /\ job' = [id |-> job.id + 1, target |-> call[c].target,
             status |-> "indexing", cancel |-> FALSE]
  /\ Goto(c, "registered", call[c].target)
  /\ UNCHANGED <<mode, source, guard, run, identity, index, crashed>>

\* The call is told of the active job and ends; so does one whose path is
\* not a directory or is refused as a project root.
TurnAway(c) ==
  /\ call[c].at = "asked"
  /\ Goto(c, "idle", None)
  /\ UNCHANGED <<mode, source, job, guard, run, identity, index, crashed>>

\* The identity of the checkout is captured, the file says "indexing", the
\* thread is started. A capture that fails is kept for the end of the job.
Launch(c) ==
  LET t == call[c].target
  IN /\ call[c].at = "registered"
     /\ t \notin Malformed
     /\ \E start \in Captures :
          run' = [run EXCEPT ![job.id] =
                    [NoRun EXCEPT !.at = "index", !.target = t, !.start = start]]
     /\ Persist(t, Plain("indexing"))
     /\ Goto(c, "idle", None)
     /\ UNCHANGED <<mode, source, job, guard, index, crashed>>

\* Only OSError and ValueError are caught when project_info.json is updated:
\* on a root that is no object the call raises with its job registered.
LaunchRaises(c) ==
  /\ call[c].at = "registered"
  /\ call[c].target \in Malformed
  /\ Goto(c, "idle", None)
  /\ UNCHANGED <<mode, source, job, guard, run, identity, index, crashed>>

\* cancel_indexing leaves a request in the slot; the thread comes to it.
Cancel(c) ==
  /\ MayCall(c)
  /\ Active
  /\ ~job.cancel
  /\ job' = [job EXCEPT !.cancel = TRUE]
  /\ UNCHANGED <<mode, source, guard, call, run, identity, index, crashed>>

-----------------------------------------------------------------------------
(* A search that may reindex answers at once while a job is active.        *)

\* Mutant of SearchBlocking: a search does not look at the job.
SearchUnrefused(c, t) ==
  /\ MayCall(c)
  /\ ~mode.nonblocking
  /\ run' = [run EXCEPT ![c] = [NoRun EXCEPT !.at = "enter", !.target = t]]
  /\ UNCHANGED <<mode, source, job, guard, call, identity, index, crashed>>

SearchBlocking(c, t) ==
  /\ MayCall(c)
  /\ ~Active
  /\ ~mode.nonblocking
  /\ run' = [run EXCEPT ![c] = [NoRun EXCEPT !.at = "enter", !.target = t]]
  /\ UNCHANGED <<mode, source, job, guard, call, identity, index, crashed>>

\* _dispatch_background_reindex: the flag is tested and set in one critical
\* section; one that is older than the watchdog's deadline is taken over.
Dispatch(c, b, t) ==
  /\ MayCall(c)
  /\ ~Active
  /\ mode.nonblocking
  /\ guard.active => guard.overdue
  /\ run[b].at = "off"
  /\ guard' = [active |-> TRUE, overdue |-> FALSE,
               reclaimed |-> guard.reclaimed \/ guard.active]
  /\ run' = [run EXCEPT ![b] = [NoRun EXCEPT !.at = "enter", !.target = t]]
  /\ UNCHANGED <<mode, source, job, call, identity, index, crashed>>

\* 1800 seconds pass.
Overdue ==
  /\ guard.active
  /\ ~guard.overdue
  /\ guard' = [guard EXCEPT !.overdue = TRUE]
  /\ UNCHANGED <<mode, source, job, call, run, identity, index, crashed>>

\* auto_reindex_with_identity reads the state it may have to put back ...
Enter(x) ==
  /\ run[x].at = "enter"
  /\ run' = [run EXCEPT ![x].at = "pend", ![x].before = identity[run[x].target]]
  /\ UNCHANGED <<mode, source, job, guard, call, identity, index, crashed>>

\* ... captures the identity of the checkout and writes "pending".
Pend(x) ==
  /\ run[x].at = "pend"
  /\ run[x].target \notin Malformed
  /\ \E start \in Captures :
       run' = [run EXCEPT ![x].at = "index", ![x].start = start]
  /\ Persist(run[x].target, Plain("pending"))
  /\ UNCHANGED <<mode, source, job, guard, call, index, crashed>>

\* A run whose manager or embedder cannot be built never gets that far; one
\* whose project_info.json cannot be updated raises there.
NeverEnter(x) ==
  /\ \/ run[x].at = "enter"
     \/ run[x].at = "pend" /\ run[x].target \in Malformed
  /\ run' = [run EXCEPT ![x] = [NoRun EXCEPT !.at = "leave",
                                            !.target = run[x].target]]
  /\ UNCHANGED <<mode, source, job, guard, call, identity, index, crashed>>

-----------------------------------------------------------------------------
(* The run of the indexer: a scan, then one of its outcomes.               *)

Scan(x) ==
  /\ run[x].at = "index"
  /\ run' = [run EXCEPT ![x].at = "write", ![x].seen = source]
  /\ UNCHANGED <<mode, source, job, guard, call, identity, index, crashed>>

End(x, out) ==
  run' = [run EXCEPT ![x].at = "settle", ![x].seen = None, ![x].out = out]

\* The index is brought to what was scanned.
Complete(x) ==
  /\ run[x].at = "write"
  /\ index' = [index EXCEPT ![run[x].target] =
                 [of |-> run[x].seen, whole |-> TRUE]]
  /\ End(x, "ok")
  /\ UNCHANGED <<mode, source, job, guard, call, identity, crashed>>

\* A scan that finds no change leaves the index; so does one of an index that
\* was cleared behind its snapshot.
NothingChanged(x) ==
  LET i == index[run[x].target]
  IN /\ run[x].at = "write"
     /\ i.of = None \/ (i.whole /\ i.of = run[x].seen)
     /\ End(x, "ok")
     /\ UNCHANGED <<mode, source, job, guard, call, identity, index, crashed>>

\* The index is young enough for a search: there is no scan.
Skip(x) ==
  /\ run[x].at = "index"
  /\ x \notin Jobs
  /\ End(x, "skipped")
  /\ UNCHANGED <<mode, source, job, guard, call, identity, index, crashed>>

\* The run fails or raises; a rebuild may have written a part of the index.
Fail(x) ==
  /\ run[x].at \in {"index", "write"}
  /\ \/ index' = [index EXCEPT ![run[x].target] =
                    [of |-> run[x].seen, whole |-> FALSE]]
     \/ UNCHANGED index
  /\ End(x, "failed")
  /\ UNCHANGED <<mode, source, job, guard, call, identity, crashed>>

\* progress_callback or cancel_check of the job's own id raises at a
\* checkpoint; a run past its last one completes.
Interrupt(x) ==
  /\ x \in Jobs
  /\ run[x].at \in {"index", "write"}
  /\ job.id = x /\ job.cancel
  /\ \/ index' = [index EXCEPT ![run[x].target] =
                    [of |-> run[x].seen, whole |-> FALSE]]
     \/ UNCHANGED index
  /\ End(x, "cancelled")
  /\ UNCHANGED <<mode, source, job, guard, call, identity, crashed>>

\* Mutant of Verdict: a run is trusted whatever the checkout did meanwhile.
VerdictUnfenced(x, end) == Ready(end)

\* finalize_index_identity: ready when the checkout is what it was.
Verdict(x, end) ==
  IF end = None \/ run[x].start = None THEN Plain("error")
  ELSE IF end = run[x].start THEN Ready(end)
  ELSE Plain("source_changed")

\* What is persisted when the run is over. A search that had nothing to do
\* puts back what it read before.
Outcome(x, end) ==
  CASE run[x].out = "ok" -> Verdict(x, end)
    [] run[x].out = "failed" -> Plain("error")
    [] run[x].out = "cancelled" -> Plain("cancelled")
    [] run[x].out = "skipped" -> run[x].before

Settle(x) ==
  /\ run[x].at = "settle"
  /\ \E end \in Captures :
       /\ Persist(run[x].target, Outcome(x, end))
       /\ run' = [run EXCEPT ![x] = [NoRun EXCEPT !.at = "leave",
                    !.target = run[x].target,
                    !.out = IF run[x].out = "ok" /\ Verdict(x, end).state # "ready"
                            THEN "failed" ELSE run[x].out]]
  /\ UNCHANGED <<mode, source, job, guard, call, index, crashed>>

\* The status of _job_terminal_state, or that of an InterruptedError.
Terminal(out) == IF out = "ok" THEN "completed" ELSE out

\* The job's thread updates its own job, if that is still the one in the slot.
Report(x) ==
  /\ x \in Jobs
  /\ run[x].at = "leave"
  /\ job' = IF job.id # x THEN job
            ELSE [job EXCEPT !.status = Terminal(run[x].out)]
  /\ run' = [run EXCEPT ![x] = NoRun]
  /\ UNCHANGED <<mode, source, guard, call, identity, index, crashed>>

\* Mutant of Release: only a thread that got to its end clears the flag.
ReleaseOnSuccess(b) ==
  /\ run[b].at = "leave"
  /\ run' = [run EXCEPT ![b] = NoRun]
  /\ guard' = IF run[b].out \in {"ok", "skipped"}
              THEN [guard EXCEPT !.active = FALSE, !.overdue = FALSE]
              ELSE guard
  /\ UNCHANGED <<mode, source, job, call, identity, index, crashed>>

\* finally: release(). The flag has no owner: a thread that was taken for
\* stuck clears that of its successor.
Release(b) ==
  /\ run[b].at = "leave"
  /\ run' = [run EXCEPT ![b] = NoRun]
  /\ guard' = [guard EXCEPT !.active = FALSE, !.overdue = FALSE]
  /\ UNCHANGED <<mode, source, job, call, identity, index, crashed>>

\* The search goes on to its answer.
Answer(c) ==
  /\ run[c].at = "leave"
  /\ run' = [run EXCEPT ![c] = NoRun]
  /\ UNCHANGED <<mode, source, job, guard, call, identity, index, crashed>>

-----------------------------------------------------------------------------
\* clear_index asks no job; the identity stays.
Clear(c, t) ==
  /\ MayCall(c)
  /\ index[t].of # None
  /\ index' = [index EXCEPT ![t] = [of |-> None, whole |-> FALSE]]
  /\ UNCHANGED <<mode, source, job, guard, call, run, identity, crashed>>

\* Somebody edits the checkout.
Edit ==
  /\ source < MaxSource
  /\ source' = source + 1
  /\ UNCHANGED <<mode, job, guard, call, run, identity, index, crashed>>

\* The server ends and is started again: its threads and its memory are gone.
Restart ==
  /\ ~crashed
  /\ crashed' = TRUE
  /\ job' = [NoJob EXCEPT !.id = job.id]
  /\ guard' = [active |-> FALSE, overdue |-> FALSE, reclaimed |-> FALSE]
  /\ call' = [c \in Calls |-> NoCall]
  /\ run' = [x \in Runners |-> NoRun]
  /\ UNCHANGED <<mode, source, identity, index>>

Indexes(x) ==
  \/ Scan(x) \/ Complete(x) \/ NothingChanged(x) \/ Fail(x)
  \/ Interrupt(x) \/ Settle(x)

Searches(x) == Enter(x) \/ NeverEnter(x) \/ Pend(x) \/ Skip(x) \/ Indexes(x)

CallStep(c) ==
  \/ \E t \in Targets : Ask(c, t) \/ SearchBlocking(c, t) \/ Clear(c, t)
  \/ \E t \in Targets, b \in Bgs : Dispatch(c, b, t)
  \/ Register(c) \/ TurnAway(c) \/ Launch(c) \/ LaunchRaises(c) \/ Cancel(c)

Next ==
  \/ \E c \in Calls : CallStep(c) \/ Searches(c) \/ Answer(c)
  \/ \E j \in Jobs : Indexes(j) \/ Report(j)
  \/ \E b \in Bgs : Searches(b) \/ Release(b)
  \/ Overdue \/ Edit \/ Restart

Spec == Init /\ [][Next]_vars

\* A call that has begun and a thread that runs go on: a thread that hangs
\* for ever is not a fair one.
FairSpec ==
  /\ Spec
  /\ \A c \in Calls : WF_vars(TurnAway(c) \/ Register(c) \/ Launch(c)
                               \/ LaunchRaises(c) \/ Searches(c) \/ Answer(c))
  /\ \A j \in Jobs : WF_vars(Indexes(j) \/ Report(j))
  /\ \A b \in Bgs : WF_vars(Searches(b) \/ Release(b))

-----------------------------------------------------------------------------
Versions == 0..MaxSource \cup {None}
States == {"none", "indexing", "pending", "ready", "source_changed", "error",
           "cancelled"}
Identities == [state : States, of : Versions]

\* Every variable has its type.
TypeOK ==
  /\ mode \in Modes
  /\ source \in 0..MaxSource
  /\ job \in [id : 0..MaxJobs, target : Targets \cup {None}, cancel : BOOLEAN,
              status : {"none", "indexing", "completed", "failed", "cancelled"}]
  /\ guard \in [active : BOOLEAN, overdue : BOOLEAN, reclaimed : BOOLEAN]
  /\ call \in [Calls -> [at : {"idle", "asked", "registered"},
                         target : Targets \cup {None}]]
  /\ run \in [Runners -> [at : {"off", "enter", "pend", "index", "write",
                                "settle", "leave"},
                          target : Targets \cup {None},
                          start : Versions, seen : Versions,
                          before : Identities,
                          out : {None, "ok", "skipped", "failed", "cancelled"}]]
  /\ identity \in [Targets -> Identities]
  /\ index \in [Targets -> [of : Versions, whole : BOOLEAN]]
  /\ crashed \in BOOLEAN

Indexing(x) == run[x].at # "off"

\* There is at most one foreground job at a time, however many calls ask for
\* one at once: a job whose thread runs, or whose call is about to start it,
\* is the one in the slot, and the slot says so until the thread has reported.
OneJob ==
  /\ \A j \in Jobs : Indexing(j) => job.id = j /\ Active
  /\ \A c \in Calls : call[c].at = "registered" => Active /\ ~Indexing(job.id)
  /\ \A c, d \in Calls :
       call[c].at = "registered" /\ call[d].at = "registered" => c = d

\* The flag is up exactly while a background thread runs, and there is one,
\* unless the watchdog took the flag of an earlier one over.
OneBackground ==
  ~guard.reclaimed =>
    /\ \A a, b \in Bgs : Indexing(a) /\ Indexing(b) => a = b
    /\ guard.active <=> \E b \in Bgs : Indexing(b)

\* What get_indexing_progress reads, the job in the slot and the flag, are
\* true of the threads, whatever calls race for them (index_directory
\* 1853-1916, IndexingJobState, BackgroundReindexGuard).
FlagsTrue == OneJob /\ OneBackground

Sequential == ~mode.threads /\ ~mode.nonblocking

\* A server whose tool calls come one after the other and whose searches block
\* never has two runs of the indexer at once. Nothing else than the refusal
\* of a search while a job is active keeps them apart (search_code 1370-1385).
OneIndexer ==
  Sequential => \A x, y \in Runners : Indexing(x) /\ Indexing(y) => x = y

\* "ready" is true: an index that is there is whole, and of the version the
\* identity names.
ReadyIsExact ==
  \A t \in Targets :
    identity[t].state = "ready" /\ index[t].of # None =>
      index[t].whole /\ index[t].of = identity[t].of

\* "indexing" and "pending" are said of an index only while somebody is at
\* it, until the server is restarted: they are taken back on every path.
Transient(t) == identity[t].state \in {"indexing", "pending"}
NothingDangles ==
  ~crashed =>
    \A t \in Targets : Transient(t) =>
      \E x \in Runners :
        run[x].target = t /\ run[x].at \in {"index", "write", "settle"}

\* In such a server project_info.json is true, through failures, changes of
\* the checkout, cancellations, restarts and clear_index (identity_checks.py
\* 1-11).
IdentityTrue == Sequential => ReadyIsExact /\ NothingDangles

\* Every job ends, unless its project_info.json is malformed: then the slot
\* is taken until the server is restarted. The flag of the background reindex
\* comes down again (index_directory 1918-2216, _run 1215-1264).
WorkEnds ==
  /\ Active /\ job.target \notin Malformed ~> ~Active
  /\ guard.active ~> ~guard.active
=============================================================================
