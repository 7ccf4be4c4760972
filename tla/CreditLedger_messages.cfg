SPECIFICATION Spec
CONSTANTS
  Reservation = {r1, r2}
  DedupeKey = {k1}
  Purchase = {}
  Grant <- MCGrant
  TopupCredits = 2
  TopupCents = 2
  ReservationTTL = 0
  RecoveryTTL = 1
  ClockLag = 1
  MaxSegments = 2
  MaxLots = 5
  MaxTime = 2
SYMMETRY MCSymmetry
INVARIANT HoldsBacked
PROPERTIES ImplementsMessageCharge
CHECK_DEADLOCK FALSE
