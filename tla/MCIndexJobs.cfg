SPECIFICATION FairSpec
CONSTANTS
  Targets = {t1, t2}
  Malformed = {t2}
  Calls = {c1, c2}
  Bgs = {b1, b2}
  MaxJobs = 2
  MaxSource = 2
  Modes <- Deployed
  None = None
CONSTRAINT Bounded
CHECK_DEADLOCK FALSE
INVARIANTS FlagsTrue OneIndexer 
PROPERTY WorkEnds
