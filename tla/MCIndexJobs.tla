---------------------------- MODULE MCIndexJobs ----------------------------
(* Small instances of IndexJobs for TLC. *)
EXTENDS IndexJobs, TLC

Deployed == {[threads |-> FALSE, nonblocking |-> FALSE],
             [threads |-> FALSE, nonblocking |-> TRUE],
             [threads |-> TRUE, nonblocking |-> FALSE]}

\* What is explored of a server that is not sequential: its checkout does not
\* change, it is not restarted, two runs of the indexer overlap, no watchdog
\* has struck.
Bounded ==
  ~Sequential =>
    /\ source = 0
    /\ ~crashed
    /\ ~guard.reclaimed
    /\ Cardinality({x \in Runners : Indexing(x)}) <= 2
=============================================================================
