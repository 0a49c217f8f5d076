\* A blocking wait at the call depth limit runs the scheduler.
SPECIFICATION Spec
CONSTANTS
  Threads = {t1, t2}
  None = None
  YieldingNatives = {}
  MaxNested = 2
  Delays = {0, 1}
  JobIds = {1}
  MaxEntries = 2
  DepthLimit = TRUE
  ManualResume = FALSE
  Calls = {"spawn", "wait"}
INVARIANT
  NoLostWake
