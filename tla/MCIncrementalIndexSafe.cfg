SPECIFICATION Spec
CONSTANTS
  Files = {f1}
  Supported = {f1}
  MaxVersion = 2
  Chunkless = {}
  Shape <- ShapeOf
  Providers = {Unscoped, other}
  Unscoped = Unscoped
  AutoProviders = {Unscoped}
  Names = {DirName}
  DirName = DirName
  Runs = {r1, r2}
  Mishaps = {}
  MaxFaults = 1
  Missing = Missing
  Torn = Torn
  None = None
CHECK_DEADLOCK FALSE
SYMMETRY Symmetry
CONSTRAINT OneAfterFault
INVARIANTS IndexInv IndexFollowsSnapshot NeverBehind ReadyMeansExact
