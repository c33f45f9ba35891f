CONSTANTS
    f1 = f1  f2 = f2  f3 = f3  f4 = f4  f5 = f5  f6 = f6
    c1 = c1  c2 = c2  c3 = c3  c4 = c4  c5 = c5  c6 = c6  c7 = c7
    Files = {f1, f2, f3, f4, f5, f6}
    Chunks = {c1, c2, c3, c4, c5, c6, c7}
    NoChunk = NoChunk
    Texts = 2
    FileOf <- MCFileOf
    Matching <- MCMatching
    Stores <- MCStores
    VectorOrders <- MCVectorOrders
    LexicalOrders <- MCLexicalOrders
    Boosted <- MCBoosted
    Central <- MCCentral
    Modes = {"keyword", "semantic", "hybrid", "similar"}
    Engines = {"sonnet", "openai", "listwise", "cross-encoder", "off"}
    Ks = {2, 5}
    CandidateK = 6
    VectorWeight = 1
    LexicalWeight = 1
    PoolSize = 4
    JudgePool = 3
    Replies <- MCReplies
    Rankings <- MCRankings
    Subject = c1
    Edited = {f1, f2}
    MaxUpdates = 2
SPECIFICATION Spec
CONSTRAINT FusionAlone
CHECK_DEADLOCK FALSE
INVARIANTS AnswerSound NothingLost FusionMonotone
PROPERTY Answered
