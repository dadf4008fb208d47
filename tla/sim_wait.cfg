SPECIFICATION Spec
CONSTANTS
  n1 = n1
  Node = {n1}
  Horizon = 9
  MaxEvents = 100
  NetDelay = 1
  DuplicateGap = 1
  ExtraDelays = {}
  Durations = {0, 1}
  Ops = {"recv", "sleep", "spawn"}
  Actions <- CrashActions
  Times = {1}
  PastAllowed = FALSE
  MaxTasks = 3
  MaxMsgs = 1
  MaxSleeps = 2
  MaxCalls = 2
  MaxRuns = 1
INVARIANTS NoLostWakeup QuiescentIsStuck
CHECK_DEADLOCK FALSE
