SPECIFICATION FairSpec
CONSTANTS
  c1 = c1
  c2 = c2
  c3 = c3
  Call = {c1, c2, c3}
  Person = {anna, boris}
  Founder = anna
  Seed = seed
  None = none
  Ttl = 1
  MaxTime = 2
  MaxFaults = 1
  Plans <- Meetings
CHECK_DEADLOCK FALSE
INVARIANTS
  OneAccountPerPerson
  MasterWhole
  RefusalJustified
  SpentCodeRefused
PROPERTIES
  LoneSignIn
  CallAnswered
