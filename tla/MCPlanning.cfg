SPECIFICATION MCSpec
CONSTANTS
  Roads <- MCRoads
  NoName = NoName
  Strip = "strip"
  Landmarks <- MCLandmarks
  Sign <- MCSign
  Exit <- MCExit
  RunnerCounts = {500, 2000, 20000, 40000}
  Retries = 2
  Explorations = 1
  Candidates = 2
  Overlaps <- MCOverlaps
  Sweeps = {0, 5, 10}
  MaxTicks = 3
  Responses <- MCResponses
  MaxResponses = 2
  MaxMessages = 2
  MaxFaults = 1
  Resends = 1
  Plans <- MCPlans
  Judgements <- MCJudgements
  NoValue = NoValue
INVARIANTS RouteIsSound PlanIsSound ClosuresAreRight ClosedTicksInARow
INVARIANTS  RacesOfOneResponse  PassedIsSafe
CHECK_DEADLOCK FALSE
