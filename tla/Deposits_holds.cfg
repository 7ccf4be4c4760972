SPECIFICATION FairSpec
CONSTANTS
    MaxFaults = 1
    Worker = {w1}
    Refund = {r1}
    NoRefund = NoRefund
    MaxEpoch = 1
    MaxFailures = 3
    MaxAttempts = 2
    PoisonAttempts = 3
    MaxDashboard = 0
    Ended = {}
INVARIANTS TypeOK HoldPair SlotExclusive MoneyIsReal
PROPERTIES HoldEnds LatePaymentSettles RequestResolves
CHECK_DEADLOCK FALSE
