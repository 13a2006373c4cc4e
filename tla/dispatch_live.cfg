\* The server over one session, with fairness.
SPECIFICATION LiveSpec
CONSTANTS
  Sessions = {s1}
  EventTasks = {e1}
  Sweeper = sweeper
  Clis = {}
  Server = server
  None = none
  CleanupAfterAnalysis = TRUE
  MaxIngests = 2
  MaxCalls = 0
  MaxFaults = 1
PROPERTIES
  SessionsSettle
