\* Two events of one session, and a sync while the server inserts.
SPECIFICATION Spec
CONSTANTS
  Sessions = {s1}
  Agents = {a1}
  Events = {p1, p2}
  Hooks <- TwoPrompts
  s1 = s1
  s2 = s2
  p1 = p1
  p2 = p2
  b1 = b1
  f1 = f1
  a1 = a1
  MaxStarts = 0
  MaxSyncs = 1
  MaxFaults = 2
CHECK_DEADLOCK FALSE
PROPERTIES
  LogDropsOnlyRestored
