SPECIFICATION FairSpec
CONSTANTS
  Caller = {docker, monitor}
  Dependency = {postgres, redis}
  Ms = 2
  Patience = 5
INVARIANTS
  AnsweredInTime
PROPERTIES
  AnswerHonest
  RecoveryReported
