------------------------- MODULE MCIncrementalIndex -------------------------
(* Instances of IncrementalIndex for TLC.                                     *)
EXTENDS IncrementalIndexInvariant, TLC

Symmetry == Permutations(Runs)

\* Version 2 has moved the chunk of version 1, the later ones edit it in place.
ShapeOf == [v \in Versions |-> IF v = 1 THEN 1 ELSE 2]

\* Two indexes are worked on at once until something goes wrong, one after that.
OneAfterFault == faults > 0 => \A r, q \in Runs : Active(r) /\ Active(q) => q = r

=============================================================================
