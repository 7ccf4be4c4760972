SPECIFICATION Spec
CONSTANTS
  Reservation = {r1, r2}
  DedupeKey = {k1, k2}
  Purchase = {p1}
  Grant <- MCTopupGrant
  TopupCredits = 4
  TopupCents = 3
  ReservationTTL = 0
  RecoveryTTL = 0
  ClockLag = 0
  MaxSegments = 2
  MaxLots = 3
  MaxTime = 0
SYMMETRY MCSymmetry
INVARIANTS TypeOK CacheIsLedger ReversalWithinEvidence
PROPERTIES NeverAuthorizedBelowZero
CHECK_DEADLOCK FALSE
