SPECIFICATION Spec
CONSTANTS
  Intent = {i1, i2}
  Salon = {s1, s2}
  SalonOf <- MCOwnSalon
  Channel <- MCEmailFirst
  KnownTemplate <- MCKnown
  ScheduledFor <- MCScheduled
  NotAfter <- MCNotAfter
  Id <- MCId
  Worker = {w1, w2}
  LeaseTTL = 0
  DeferFor = 1
  ReservationTTL = 2
  RunLimit = 1
  SalonLimits = {1}
  MaxAttempts = 2
  MaxTime = 2
SYMMETRY MCSymmetry
INVARIANT StatusTellsTruth
CHECK_DEADLOCK FALSE
