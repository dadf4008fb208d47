SPECIFICATION Spec
CONSTANTS
  n1 = n1
  Node = {n1}
  Horizon = 1
  MaxEvents = 100
  NetDelay = 1
  DuplicateGap = 1
  ExtraDelays = {}
  Durations = {2}
  Ops = {"sleep"}
  Actions = {}
  Times = {}
  PastAllowed = FALSE
  MaxTasks = 0
  MaxMsgs = 0
  MaxSleeps = 1
  MaxCalls = 0
  MaxRuns = 1
INVARIANTS DeadlockIsForever
CHECK_DEADLOCK FALSE
