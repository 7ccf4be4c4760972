SPECIFICATION Spec
CONSTANTS
  Offer <- MCOnePlan
  Catalogue <- MCOnePlan
  Plan <- MCTwoPlans
  PlanOf <- MCPlanOf
  MonthlySmsCredits <- MCCredits
  Term = 1
  Promoted = TRUE
  Listens <- EventType
  Routes = {"windows"}
  MaxAttempts = 2
  ClockLag = 1
  SameSecond = FALSE
  LiveStatus = {"active"}
  Starts <- MCOnePlan
  Breaks = {2}
  Repeats = {}
  MaxEvents = 3
  MaxTime = 1
INVARIANTS TypeOK ProtectionProven
PROPERTIES HistoryStands ClaimedOnce ImplementsMonthlyAllowance
CHECK_DEADLOCK FALSE
