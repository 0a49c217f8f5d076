\* Scripts that misuse the libraries too: 3 coroutines, one with a native body.
SPECIFICATION Spec
CONSTANTS
  Threads = {t1, t2, t3}
  None = None
  YieldingNatives = {t3}
  MaxNested = 1
  Delays = {0}
  JobIds = {1}
  MaxEntries = 1
  DepthLimit = TRUE
  ManualResume = TRUE
  Calls = {"create", "resume", "yield", "spawn", "defer", "wait", "cancel", "background", "try", "require"}
SYMMETRY Symmetry
INVARIANTS
  TypeOK
  NeverReentered
  StatusMatchesStack
  CallersChain
  WaitedJobsRun
  EndsIdle
