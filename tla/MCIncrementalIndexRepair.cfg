SPECIFICATION Spec
CONSTANTS
  Files = {f1}
  Supported = {f1}
  MaxVersion = 2
  Chunkless = {}
  Shape <- ShapeOf
  Providers = {Unscoped}
  Unscoped = Unscoped
  AutoProviders = {Unscoped}
  Names = {DirName, Chosen}
  DirName = DirName
  Runs = {r1}
  Mishaps = {"restore", "crash_unsaved", "crash_torn", "save_fails", "clear", "unreadable"}
  MaxFaults = 2
  Missing = Missing
  Torn = Torn
  None = None
CHECK_DEADLOCK FALSE
INVARIANT RebuildRepairs
