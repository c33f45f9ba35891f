----------------------------- MODULE MCWriterLock -----------------------------
(* Small instances of WriterLock for TLC. *)
EXTENDS WriterLockInvariant, TLC

Symmetry == Permutations(Opens) \cup Permutations(Threads \ {Main})
==============================================================================
