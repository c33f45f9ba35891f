\* Two indexing processes; their rollbacks meet no other writer; one file
\* decays.
CONSTANTS
    Procs = {p1, p2}
    Indexers = {p1, p2}
    Gens = {g1, g2, g3}
    large = large
    small = small
    Vals = {large, small}
    Size <- MCSize
    NoVal = NoVal
    Bad = Bad
    NoGen = NoGen
    Garbled = Garbled
    Nobody = Nobody
    MaxDamage = 1
SPECIFICATION Spec
CONSTRAINT RollbackAlone
INVARIANTS
    MirrorsFaithful
    CommittedWhole
    ReferencedVerifies
    IInv
PROPERTIES
    
    NoSilentTruncation
    AtomicPublication
SYMMETRY SymmetryWriters
