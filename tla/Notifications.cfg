SPECIFICATION FairSpec
CONSTANTS
  Worker = {w1, w2}
  Canceller = {c1, c2}
  NoWorker = NoWorker
  Start = 2
  End = 3
  Lead = 0
  Deadline = 2
  Attempts = 2
  Address = {TRUE}
  MaxTime = 4
  MaxFaults = 1
CHECK_DEADLOCK FALSE
INVARIANTS
  TypeOK
  MailedOnce
  KeyMeansSent
PROPERTIES
  NoReminderWhenCancelled
  NewsInOrder
  MailArrives
