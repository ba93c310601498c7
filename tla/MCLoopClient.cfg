CONSTANTS
  Handles = {root, f1, f2}
  Root = root
  Null = null
  MaxCQEntries = 2
  MaxTime = 2
  Futures = TRUE
  MayThrow = FALSE
  Delays = {0, 1}
SPECIFICATION MCSpec
INVARIANTS TypeOK NoDangling QueuedOnce NoLostWakeup StoppedMeansDone
PROPERTIES NeverEarly ReadyRuns SuspendedResumes
