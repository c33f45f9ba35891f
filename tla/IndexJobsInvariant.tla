------------------------- MODULE IndexJobsInvariant -------------------------
(***************************************************************************)
(* The inductive invariant of IndexJobs.                                   *)
(***************************************************************************)
EXTENDS IndexJobs

\* What is under way has a target; a run that settles has an outcome; a job
\* never skips nor puts back.
ShapeInv ==
  /\ \A c \in Calls : call[c].at # "idle" => call[c].target \in Targets
  /\ \A x \in Runners : Indexing(x) => run[x].target \in Targets
  /\ \A x \in Runners : run[x].at = "settle" => run[x].out # None
  /\ \A j \in Jobs : /\ run[j].at \notin {"enter", "pend"}
                     /\ run[j].out # "skipped"
                     /\ run[j].at = "leave" => run[j].out # None

\* An active job has been registered.
SlotInv == Active => job.id \in Jobs

Busy(c) == call[c].at # "idle" \/ run[c].at # "off"

\* One call at a time, no background thread, and no search that reindexes
\* while there is a job.
AloneInv ==
  /\ \A b \in Bgs : ~Indexing(b)
  /\ \A c, d \in Calls : Busy(c) /\ Busy(d) => c = d
  /\ \A c \in Calls : Indexing(c) => ~Active /\ call[c].at = "idle"

Begun(x) == run[x].at \in {"index", "write", "settle"}

\* What a search may yet put back.
MayPutBack(x) ==
  \/ run[x].at \in {"pend", "index"}
  \/ run[x].at = "settle" /\ run[x].out = "skipped"

Exact(t, v) == index[t].of # None => index[t].whole /\ index[t].of = v

\* v is a version of the checkout since the run x captured its identity.
Since(x, v) ==
  /\ v \in 0..source
  /\ run[x].start # None => run[x].start <= v

\* What a run has captured, scanned and written belongs together, and the
\* identity of its target is its own meanwhile.
RunTrue(x) ==
  /\ Begun(x) => Transient(run[x].target)
  /\ Begun(x) /\ run[x].start # None => run[x].start \in 0..source
  /\ run[x].at = "write" => Since(x, run[x].seen)
  /\ run[x].at = "settle" /\ run[x].out = "ok" =>
       \/ index[run[x].target].of = None
       \/ index[run[x].target].whole /\ Since(x, index[run[x].target].of)
  /\ MayPutBack(x) /\ run[x].before.state = "ready" =>
       Exact(run[x].target, run[x].before.of)
  /\ MayPutBack(x) /\ ~crashed =>
       run[x].before.state \notin {"indexing", "pending"}

TruthInv ==
  /\ \A x \in Runners : RunTrue(x)
  /\ ReadyIsExact
  /\ NothingDangles

IInv ==
  /\ TypeOK
  /\ ShapeInv
  /\ SlotInv
  /\ FlagsTrue
  /\ Sequential => AloneInv /\ TruthInv
=============================================================================
