SPECIFICATION FairSpec
CONSTANTS
  n1 = n1
  Node = {n1}
  Horizon = 9
  MaxEvents = 100
  NetDelay = 1
  DuplicateGap = 1
  ExtraDelays = {}
  Durations = {1, 3}
  Ops = {"sleep", "clock", "recv", "spawn"}
  Actions <- SkewActions
  Times = {1, 2}
  PastAllowed = FALSE
  MaxTasks = 2
  MaxMsgs = 0
  MaxSleeps = 2
  MaxCalls = 2
  MaxRuns = 2
INVARIANTS TotalOrder SleepersWake
PROPERTIES TimeMonotone LocalClockMonotone SleepersResume
CHECK_DEADLOCK FALSE
