\* Two prompts of one session, a restart and a failed insert.
SPECIFICATION Spec
CONSTANTS
  Sessions = {s1}
  Agents = {a1}
  Events = {p1, p2}
  Hooks <- TwoPrompts
  s1 = s1
  s2 = s2
  p1 = p1
  p2 = p2
  b1 = b1
  f1 = f1
  a1 = a1
  MaxStarts = 1
  MaxSyncs = 0
  MaxFaults = 1
CHECK_DEADLOCK FALSE
PROPERTIES
  TracedSegmentsAdvance
