SPECIFICATION Spec
CONSTANTS
  n1 = n1
  n2 = n2
  Node = {n1, n2}
  Horizon = 3
  MaxEvents = 8
  NetDelay = 1
  DuplicateGap = 1
  ExtraDelays = {1}
  Durations = {1}
  Ops = {"recv", "drop", "duplicate", "outside", "driver"}
  Actions <- AllActions
  Times = {1}
  PastAllowed = FALSE
  MaxTasks = 0
  MaxMsgs = 1
  MaxSleeps = 0
  MaxCalls = 2
  MaxRuns = 2
PROPERTIES ImplementsDatagram
CHECK_DEADLOCK FALSE
