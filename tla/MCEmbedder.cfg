\* Two searches or one run at a time.
CONSTANTS
    a = a
    b = b
    Projects = {a, b}
    Named <- MCNamed
    ChunksOf <- MCChunks
    Queries = {"q", "Q"}
    Folded <- MCFolded
    Environments <- MCEnvironments
    Searchers = {s1, s2}
    Indexers = {i1}
    MemoryMax = 1
    DocumentMax = 1
    Batch = 2
    Request = 2
    Attempts = 2
    Uncached = {"full"}
    NativeDimension = 896
    Unset = Unset
SPECIFICATION Spec
CONSTRAINT OneCache
INVARIANTS
    QueryExact
    IndexExact
    Reopened
SYMMETRY Symmetry
