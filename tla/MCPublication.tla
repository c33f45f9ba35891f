---------------------------- MODULE MCPublication ----------------------------
(* Small instances of Publication for TLC. *)
EXTENDS PublicationInvariant, TLC

CONSTANTS large, small

\* Replacing `large' by `small' is what the truncation guard refuses.
MCSize == [v \in Vals |-> IF v = large THEN 5 ELSE 2]

Symmetry == Permutations(Gens)
SymmetryWriters == Permutations(Gens) \cup Permutations(Procs)
==============================================================================
