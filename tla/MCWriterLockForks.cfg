\* A process, its fork and the fork of that one; one with its parent's object is
\* alone.
CONSTANTS
    Procs = {p1, p2, p3}
    Initial = {p1}
    Threads = {main, t2}
    Main = main
    Opens = {f1, f2, f3}
    Faulty = {}
    MaxNest = 2
    Nil = Nil
SPECIFICATION LockSpec
CONSTRAINT ResetAlone
INVARIANTS
    MutualExclusion
    InsideInv
    
PROPERTY
    KeptFromOthers
SYMMETRY Symmetry
