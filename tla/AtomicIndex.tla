----------------------------- MODULE AtomicIndex -----------------------------
(***************************************************************************)
(* What generation publication promises to everybody who resolves the      *)
(* index through its manifests: one register, `published', that a writer   *)
(* replaces in a single step by a whole new index, and one older value,    *)
(* `fallback', that is all a reader can be sent back to.  Nothing else is   *)
(* ever visible: no half-written index, no third value, no return of an    *)
(* index older than the fallback.  What is published is only ever taken    *)
(* away by a reset of the index that is under way, or by decay: damage to  *)
(* the files that hold it.  A crash takes nothing away.                    *)
(*                                                                         *)
(* Module Publication (search/indexer.py and search/epoch_manifest.py)     *)
(* implements this register with files, renames and a recovery procedure.  *)
(***************************************************************************)
EXTENDS Naturals

CONSTANTS Vals,      \* the whole indexes a writer may publish
          NoVal      \* nothing is published

VARIABLES published, \* what a reader that falls back correctly resolves to
          fallback,  \* what it resolves to if `published' is lost
          clearing,  \* a reset of the index is under way
          decay      \* how many times the stored files were damaged

vars == <<published, fallback, clearing, decay>>

Init == /\ published = NoVal
        /\ fallback = NoVal
        /\ clearing = FALSE
        /\ decay = 0

\* A new index becomes visible; the one it replaces becomes the fallback.
Publish(v) == /\ ~clearing
              /\ published' = v
              /\ fallback' = published
              /\ UNCHANGED <<clearing, decay>>

\* The older index is given up, with the newer one still there to be read.
Forget == /\ published # NoVal
          /\ fallback' = NoVal
          /\ UNCHANGED published

\* The newest index goes away: readers are sent back to the fallback, and
\* there is none behind it.
Withdraw == /\ published' = fallback
            /\ fallback' = NoVal

\* A writer rotates the manifests before it publishes.
Rotate == Forget /\ UNCHANGED <<clearing, decay>>

StartOrStopClear == /\ clearing' = ~clearing
                    /\ UNCHANGED <<published, fallback, decay>>

Clear == /\ clearing
         /\ Withdraw
         /\ UNCHANGED <<clearing, decay>>

Decay == /\ decay' = decay + 1
         /\ UNCHANGED clearing
         /\ \/ Withdraw
            \/ Forget
            \/ UNCHANGED <<published, fallback>>

Next == \/ \E v \in Vals : Publish(v)
        \/ Rotate
        \/ StartOrStopClear
        \/ Clear
        \/ Decay

Spec == Init /\ [][Next]_vars
==============================================================================
