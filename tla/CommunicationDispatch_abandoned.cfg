SPECIFICATION FairSpec
CONSTANTS
  Intent = {i1}
  Salon = {s1}
  SalonOf <- MCSalonOf
  Channel <- MCSms
  KnownTemplate = {i1}
  ScheduledFor <- MCScheduled
  NotAfter <- MCNotAfter
  Id <- MCId
  Worker = {w1}
  LeaseTTL = 0
  DeferFor = 1
  ReservationTTL = 2
  RunLimit = 1
  SalonLimits = {1}
  MaxAttempts = 2
  MaxTime = 4
PROPERTIES UnsentHoldsEnd
CHECK_DEADLOCK FALSE
