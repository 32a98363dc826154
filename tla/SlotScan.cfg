SPECIFICATION FairSpec
CONSTANTS
  Step = 3
  DayLength = 10
  Durations = {1, 3, 4}
  MaxBusy = 3
INVARIANTS
  OffersAreFree
  OffersAreExact
  GapsAreOffered
PROPERTIES
  ScanEnds
