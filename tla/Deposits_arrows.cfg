SPECIFICATION Spec
CONSTANTS
    MaxFaults = 0
    Worker = {w1}
    Refund = {r1}
    NoRefund = NoRefund
    MaxEpoch = 1
    MaxFailures = 3
    MaxAttempts = 2
    PoisonAttempts = 3
    MaxDashboard = 0
    Ended = {}
INVARIANT OneArrow
CHECK_DEADLOCK FALSE
