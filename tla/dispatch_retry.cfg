\* --retry-failed against a session whose analysis failed.
SPECIFICATION Spec
CONSTANTS
  Sessions = {s1}
  EventTasks = {e1}
  Sweeper = sweeper
  Clis = {c1}
  Server = server
  None = none
  CleanupAfterAnalysis = FALSE
  MaxIngests = 1
  MaxCalls = 1
  MaxFaults = 0
PROPERTIES
  RetryExitHonest
