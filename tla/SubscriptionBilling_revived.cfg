SPECIFICATION Spec
CONSTANTS
  Offer <- MCOnePlan
  Catalogue <- MCOnePlan
  Plan <- MCTwoPlans
  PlanOf <- MCPlanOf
  MonthlySmsCredits <- MCCredits
  Term = 1
  Promoted = FALSE
  Listens <- EventType
  Routes = {}
  MaxAttempts = 1
  ClockLag = 0
  SameSecond = FALSE
  LiveStatus = {"active"}
  Starts <- MCOnePlan
  Breaks = {}
  Repeats = {}
  MaxEvents = 3
  MaxTime = 0
PROPERTY CanceledStaysCanceled
CHECK_DEADLOCK FALSE
