\* The sweeper over two sessions.
SPECIFICATION Spec
CONSTANTS
  Sessions = {s1, s2}
  EventTasks = {}
  Sweeper = sweeper
  Clis = {}
  Server = server
  None = none
  CleanupAfterAnalysis = TRUE
  MaxIngests = 3
  MaxCalls = 0
  MaxFaults = 0
PROPERTIES
  SweepsOnlyQuietSessions
