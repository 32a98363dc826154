SPECIFICATION FairSpec
CONSTANTS
  r1 = r1
  r2 = r2
  r3 = r3
  m1 = m1
  m2 = m2
  cut = cut
  style = style
  k1 = k1
  NoRequest = NoRequest
  NoKey = NoKey
  Request = {r1, r2, r3}
  Raw = {r3}
  Canceller = {c1}
  Master = {m1, m2}
  Service = {cut, style}
  Key = {k1}
  Bodies <- BodiesLive
  Duration <- MCDuration
  Offers <- MCOffers
  WorkTime <- MCWorkTime
  Step = 1
  Deadline = 2
  Grace = 1
  ExcludeInstalled = TRUE
  Slow = {}
  MaxTime = 4
  MaxFaults = 1
INVARIANTS
  NoDoubleBooking
PROPERTIES
  ConflictJustified
  RequestAnswered
  VisitSettled
  KeyReusable
