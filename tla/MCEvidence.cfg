SPECIFICATION Spec
CONSTANTS
    Files = {f}
    Fronted <- NoFiles
    Origins = {o1}
    MaxEdits = 2
    MaxCommits = 2
    Kinds = {"auto"}
    Foreign = FALSE
    Rewinds = FALSE
    None = None
CONSTRAINT Bounded
INVARIANTS
    TypeOK
    ReadyIndexExact
    EvidenceTrue
