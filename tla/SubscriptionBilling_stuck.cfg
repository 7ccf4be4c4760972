SPECIFICATION FairSpec
CONSTANTS
  Offer <- MCOnePlan
  Catalogue <- MCOnePlan
  Plan <- MCTwoPlans
  PlanOf <- MCPlanOf
  MonthlySmsCredits <- MCCredits
  Term = 1
  Promoted = FALSE
  Listens <- MCPaid
  Routes = {}
  MaxAttempts = 2
  ClockLag = 0
  SameSecond = FALSE
  LiveStatus = {"active"}
  Starts <- MCOnePlan
  Breaks = {1, 2}
  Repeats = {1, 2}
  MaxEvents = 2
  MaxTime = 0
PROPERTY EveryEventEnds
CHECK_DEADLOCK FALSE
