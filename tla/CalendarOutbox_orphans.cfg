SPECIFICATION FairSpec
CONSTANTS
  w1 = w1
  w2 = w2
  Worker = {w1, w2}
  NoWorker = NoWorker
  NoEvent = NoEvent
  NoScan = NoScan
  MaxRevision = 2
  MaxAttempts = 1
  MaxFaults = 0
PROPERTY OrphansLeave
CHECK_DEADLOCK FALSE
