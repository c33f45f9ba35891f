\* Two processes, one working set; every operation gives the lock back.
CONSTANTS
    Procs = {p1, p2}
    Indexers = {}
    Gens = {g1, g2, g3}
    large = large
    small = small
    Vals = {large}
    Size <- MCSize
    NoVal = NoVal
    Bad = Bad
    NoGen = NoGen
    Garbled = Garbled
    Nobody = Nobody
    MaxDamage = 0
SPECIFICATION FairSpec
PROPERTIES
    LockReleased
