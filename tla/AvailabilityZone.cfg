SPECIFICATION Spec
CONSTANTS
  noon = noon
  dawn = dawn
  d1 = d1
  d2 = d2
  c1 = c1
  c2 = c2
  w1 = w1
  w2 = w2
  Slot = {noon, dawn}
  Day = {d1, d2}
  LocalDay <- MCLocalDay
  UtcDay <- MCUtcDay
  Reader = {c1, c2}
  Writer = {w1, w2}
  TTL = 2
  MaxLag = 1
  MaxTime = 5
  MaxCommits = 2
  MaxWeeks = 0
  MaxFaults = 0
SYMMETRY Symmetry
CHECK_DEADLOCK FALSE
PROPERTIES
  InvalidationFindsDay
