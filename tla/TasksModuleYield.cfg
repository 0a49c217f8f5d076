\* A coroutine requires a module whose body yields.
SPECIFICATION Spec
CONSTANTS
  Threads = {t1, t2}
  None = None
  YieldingNatives = {}
  MaxNested = 2
  Delays = {0, 1}
  JobIds = {1}
  MaxEntries = 2
  DepthLimit = FALSE
  ManualResume = FALSE
  Calls = {"spawn", "yield", "require"}
INVARIANT
  YieldsFromOwnFrames
