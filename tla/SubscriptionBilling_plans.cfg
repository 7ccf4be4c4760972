SPECIFICATION Spec
CONSTANTS
  Offer <- MCThreePlans
  Catalogue <- MCThreePlans
  Plan <- MCThreePlans
  PlanOf <- MCPlanOf
  MonthlySmsCredits <- MCCredits
  Term = 1
  Promoted = FALSE
  Listens <- MCPaid
  Routes = {"reconcile"}
  MaxAttempts = 1
  ClockLag = 0
  SameSecond = FALSE
  LiveStatus = {"active"}
  Starts <- MCOnePlan
  Breaks = {}
  Repeats = {}
  MaxEvents = 4
  MaxTime = 0
INVARIANT UpgradeToppedUp
CHECK_DEADLOCK FALSE
