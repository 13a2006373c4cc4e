\* A prompt in each of two sessions, two runs of sync beside the server.
SPECIFICATION Spec
CONSTANTS
  Sessions = {s1, s2}
  Agents = {a1}
  Events = {p1, p2}
  Hooks <- TwoSessions
  s1 = s1
  s2 = s2
  p1 = p1
  p2 = p2
  b1 = b1
  f1 = f1
  a1 = a1
  MaxStarts = 1
  MaxSyncs = 2
  MaxFaults = 2
CHECK_DEADLOCK FALSE
INVARIANTS
  TraceFirst
PROPERTIES
  SyncRestoresAll
  StoreSpec
