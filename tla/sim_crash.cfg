SPECIFICATION Spec
CONSTANTS
  n1 = n1
  n2 = n2
  Node = {n1, n2}
  Horizon = 5
  MaxEvents = 100
  NetDelay = 1
  DuplicateGap = 1
  ExtraDelays = {}
  Durations = {1}
  Ops = {"recv"}
  Actions <- CrashActions
  Times = {1, 2}
  PastAllowed = FALSE
  MaxTasks = 0
  MaxMsgs = 2
  MaxSleeps = 1
  MaxCalls = 2
  MaxRuns = 1
INVARIANTS TypeOK NoGhosts CrashedIsDown NoStaleMessage
PROPERTIES ImplementsDatagram
CHECK_DEADLOCK FALSE
