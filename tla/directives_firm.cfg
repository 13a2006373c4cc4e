\* A user disables a directive while an aggregation holds a copy of it.
SPECIFICATION Spec
CONSTANTS
  Analyzers = {a1}
  Users = {u1}
  Ids = {d1, d2}
  None = None
  f1 = f1
  f2 = f2
  short = short
  long = long
  reworded = reworded
  s1 = s1
  s2 = s2
  k1 = k1
  k2 = k2
  Patterns <- Overlapping
  Flags = {f1, f2}
  Texts = {short, long, reworded}
  Sources = {s1, s2}
  Topics = {k1, k2}
  Similarity <- CurriedSimilarity
  Length <- LengthOf
  Hint <- HintFor
  InitWeight = 1
  MaxWeight = 2
  BoostDelta = 1
  DecayDelta = 1
  MissGrace = 1
  ObsoleteThreshold = 1
  RevisionCap = 2
  CapacityCeiling = 1
  TopN = 1
  Stored <- Earlier
  MaxRuns = 1
  MaxEdits = 1
  MaxFaults = 0
CHECK_DEADLOCK FALSE
SYMMETRY Symmetry
PROPERTIES
  DisabledIsFirm
