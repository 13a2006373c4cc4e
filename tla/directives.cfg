\* The server's aggregation and the command's, and a user.
SPECIFICATION Spec
CONSTANTS
  Analyzers = {a1, a2}
  Users = {u1}
  Ids = {d1, d2}
  None = None
  f1 = f1
  f2 = f2
  short = short
  long = long
  reworded = reworded
  s1 = s1
  s2 = s2
  k1 = k1
  k2 = k2
  Patterns <- Overlapping
  Flags = {f1, f2}
  Texts = {short, long, reworded}
  Sources = {s1, s2}
  Topics = {k1, k2}
  Similarity <- CurriedSimilarity
  Length <- LengthOf
  Hint <- HintFor
  InitWeight = 1
  MaxWeight = 2
  BoostDelta = 1
  DecayDelta = 2
  MissGrace = 1
  ObsoleteThreshold = 1
  RevisionCap = 2
  CapacityCeiling = 1
  TopN = 1
  Stored <- Earlier
  MaxRuns = 2
  MaxEdits = 1
  MaxFaults = 1
CHECK_DEADLOCK FALSE
SYMMETRY Symmetry
INVARIANTS
  TypeOK
  LedgerMatches
PROPERTIES
  AnalyzerDefers
  CeilingMet
  CapNearlyHolds
