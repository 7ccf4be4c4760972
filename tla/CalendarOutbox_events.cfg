SPECIFICATION FairSpec
CONSTANTS
  w1 = w1
  w2 = w2
  Worker = {w1, w2}
  NoWorker = NoWorker
  NoEvent = NoEvent
  NoScan = NoScan
  MaxRevision = 3
  MaxAttempts = 1
  MaxFaults = 1
INVARIANTS TypeOK LeaseIsHeld SyncedIsTrue
PROPERTIES RemoteNeverRegresses LinkedOrphansLeave PendingSettles
\* The outbox runs dry when the revisions are used up.
CHECK_DEADLOCK FALSE
