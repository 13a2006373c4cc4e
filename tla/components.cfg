SPECIFICATION Spec
CHECK_DEADLOCK FALSE
CONSTANTS
  Timeout = 2
  Repairs = 1
  Prompts = 2
  MaxFallbacks = 2
  Sessions = {s1}
  Callers = {c1, c2, c3}
  NoOne = NoOne
  Pids = {p1, p2, p3}
  NoPid = NoPid
  MaxStarts = 2
  MaxEdits = 3
  Ids = {d1, d2}
  MaxClock = 4
INVARIANTS
  TypeOK
  WithinBudget
  NothingLeft
  FilesStayFindable
  FlagsStayFindable
  UnreadOnlyIfLate
  OneValue
  LittleLeftOpen
  StrangersSafe
  DaemonFindable
  ShownIsLoaded
  CheckedServerAnalyzes
  NotModified
  HandledOnce
PROPERTIES
  NoCostLeak
  RepairsOnlyAnswers
  OnlyAnswersRepaired
  AnalysisEnds
