\* The server the sweeper and one `secondsight analyze`, over one session.
SPECIFICATION Spec
CONSTANTS
  Sessions = {s1}
  EventTasks = {}
  Sweeper = sweeper
  Clis = {c1}
  Server = server
  None = none
  CleanupAfterAnalysis = FALSE
  MaxIngests = 1
  MaxCalls = 1
  MaxFaults = 1
INVARIANTS
  TypeOK
  IInv
PROPERTIES
  AnalyzeExitHonest
  LedgerSpec
