SPECIFICATION Spec
CONSTANTS
  r1 = r1
  r2 = r2
  r3 = r3
  m1 = m1
  m2 = m2
  cut = cut
  style = style
  k1 = k1
  NoRequest = NoRequest
  NoKey = NoKey
  Request = {r1, r2, r3}
  Raw = {}
  Canceller = {c1}
  Master = {m1, m2}
  Service = {cut, style}
  Key = {k1}
  Bodies <- BodiesKey
  Duration <- MCDuration
  Offers <- MCOffers
  WorkTime <- MCWorkTime
  Step = 1
  Deadline = 1
  Grace = 1
  ExcludeInstalled = FALSE
  Slow = {}
  MaxTime = 4
  MaxFaults = 0
SYMMETRY Symmetry
INVARIANTS
  FailedRequestFreesKey
