SPECIFICATION FairSpec
CONSTANTS
  Files = {f1, f2}
  Supported = {f1}
  MaxVersion = 3
  Chunkless = {}
  Shape <- ShapeOf
  Providers = {Unscoped}
  Unscoped = Unscoped
  AutoProviders = {Unscoped}
  Names = {}
  DirName = DirName
  Runs = {r1}
  Mishaps = {"clear"}
  MaxFaults = 1
  Missing = Missing
  Torn = Torn
  None = None
CHECK_DEADLOCK FALSE
INVARIANT TypeOK
PROPERTIES Converges ReadyAgain CompactionEnds
