--------------------------- MODULE MCProjectStorage ---------------------------
(* Small instances of ProjectStorage for TLC.                              *)
EXTENDS ProjectStorage

NoNames == {}

(* With two projects the providers are listed in one order, and legacy     *)
(* directories before or after them.                                       *)
UsualOrder ==
    \A k, l \in Providers :
      /\ listed[Ambient] <= listed[k]
      /\ listed[None] < listed[k] <=> listed[None] < listed[l]

(* Torn metadata and the other orders are looked at with one project only. *)
OneOrUsual ==
    \/ tears = 0 /\ UsualOrder
    \/ \A d \in Dirs : dirs[d].there => d[1] = Cwd
===============================================================================
