SPECIFICATION Spec
CONSTANTS
  Salon = {s1, s2}
  BusinessOf <- MCOwnBusiness
  Cap = 1
  AttemptTTL = 1
  ClaimTTL = 1
  SessionTTL = 0
  Request = {q1, q2, q3}
  MaxAttempts = 2
  MaxClaims = 2
  MaxTime = 2
SYMMETRY MCSymmetry
INVARIANTS OneSubscription
CHECK_DEADLOCK FALSE
