SPECIFICATION SettledSpec
CONSTANTS
    MaxFaults = 1
    Worker = {w1, w2}
    Refund = {r1, r2}
    NoRefund = NoRefund
    MaxEpoch = 2
    MaxFailures = 2
    MaxAttempts = 1
    PoisonAttempts = 2
    MaxDashboard = 1
    Ended = {"paid"}
SYMMETRY MCSymmetry
INVARIANTS RowMatchesStripe ClaimExclusive
CHECK_DEADLOCK FALSE
