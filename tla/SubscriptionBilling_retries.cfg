SPECIFICATION FairSpec
CONSTANTS
  Offer <- MCOffers
  Catalogue <- MCTwoPlans
  Plan <- MCTwoPlans
  PlanOf <- MCPlanOf
  MonthlySmsCredits <- MCCredits
  Term = 1
  Promoted = FALSE
  Listens <- EventType
  Routes = {}
  MaxAttempts = 2
  ClockLag = 0
  SameSecond = TRUE
  LiveStatus = {"active"}
  Starts <- MCOffers
  Breaks = {1, 2}
  Repeats = {1, 2}
  MaxEvents = 2
  MaxTime = 0
PROPERTY RetriesEnd
CHECK_DEADLOCK FALSE
