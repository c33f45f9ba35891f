\* Unrelated processes of two threads; one of them may die.
CONSTANTS
    Procs = {p1, p2}
    Initial = {p1, p2}
    Threads = {main, t2}
    Main = main
    Opens = {f1, f2}
    Faulty = {p1}
    MaxNest = 2
    Nil = Nil
SPECIFICATION FairSpec
PROPERTIES
    Granted
