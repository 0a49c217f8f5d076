\* Scripts that leave a coroutine the scheduler has to the scheduler.
SPECIFICATION Spec
CONSTANTS
  Threads = {t1, t2, t3}
  None = None
  YieldingNatives = {}
  MaxNested = 2
  Delays = {0, 1}
  JobIds = {1, 2}
  MaxEntries = 2
  DepthLimit = FALSE
  ManualResume = FALSE
  Calls = {"resume", "close", "yield", "spawn", "delay", "wait", "cancel", "background", "poll", "try"}
SYMMETRY Symmetry
INVARIANTS
  YieldsFromOwnFrames
  NoLostWake
  WakesAnswerWaits
