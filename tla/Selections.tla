----------------------------- MODULE Selections -----------------------------
(***************************************************************************)
(* Sequences made of the elements of another one: some of them, or all in  *)
(* another order.  They are stated by the place of each element, without   *)
(* recursion, so that what they hold can be proved.                        *)
(***************************************************************************)
EXTENDS Naturals, FiniteSets, Sequences

(* Op(x).  TLC evaluates x once, however often Op uses it.                 *)
With(x, Op(_)) == CHOOSE y \in {Op(z) : z \in {x}} : TRUE

(* The elements of s at the positions that rank is of, each where rank     *)
(* puts it.                                                                *)
Placed(s, rank) ==
    LET m == Cardinality(DOMAIN rank)
    IN  SubSeq([n \in 1 .. m |-> s[CHOOSE i \in DOMAIN rank : rank[i] = n]], 1, m)

(* The elements of s at the positions in S, in their order.                *)
Picked(s, S) ==
    With(S, LAMBDA P : Placed(s, [i \in P |-> Cardinality({j \in P : j <= i})]))

(* Those that are in M.                                                    *)
Among(s, M) ==
    With(s, LAMBDA t : Picked(t, {i \in DOMAIN t : t[i] \in M}))

(* Each element where it is first.                                         *)
Once(s) ==
    With(s, LAMBDA t :
        Picked(t, {i \in DOMAIN t : \A j \in 1 .. i - 1 : t[j] # t[i]}))

(* All elements, so that i comes before j if it is in ahead[j].            *)
Sorted(s, ahead) == Placed(s, [i \in DOMAIN s |-> Cardinality(ahead[i]) + 1])
=============================================================================
