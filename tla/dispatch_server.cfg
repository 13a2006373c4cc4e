\* The server alone: two sessions, a callback task, the sweeper.
SPECIFICATION Spec
CONSTANTS
  Sessions = {s1, s2}
  EventTasks = {e1}
  Sweeper = sweeper
  Clis = {}
  Server = server
  None = none
  CleanupAfterAnalysis = TRUE
  MaxIngests = 2
  MaxCalls = 0
  MaxFaults = 1
INVARIANTS
  ExclusiveDispatch
  ReportGrounded
  AuditComplete
PROPERTIES
  BackupFollowsReport
  NoRerunOfAnalyzed
  ReportNeverRegresses
