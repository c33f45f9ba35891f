----------------------------- MODULE MCEvidence -----------------------------
EXTENDS Evidence

NoFiles == {}

(* The query may still give evidence: it has not been answered and what its*)
(* capture has read so far agrees with what it has to confirm.             *)
Hopeful ==
    LET c == taken["query"]
        wanted == query.asked
    IN  /\ query.at # "answered"
        /\ c.at # "failed"
        /\ c.at \notin {"out", "head"} =>
             /\ c.rev = wanted.rev
             /\ IF wanted.dirty = None THEN c.at \in {"status", "done"}
                ELSE /\ c.codes \in {None, wanted.dirty.codes}
                     /\ c.work \in {None, wanted.dirty.work}
                     /\ c.stage \in {None, wanted.dirty.stage}
                     /\ c.others \in {None, wanted.dirty.others}

(* Of two captures, which only read the checkout, one goes first.          *)
Midway(a) == taken[a].at \in {"head", "status", "diff", "cached", "others"}
Bounded == Hopeful /\ ~(Midway("run") /\ Midway("query"))
=============================================================================
