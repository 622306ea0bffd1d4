SPECIFICATION MCSpec
CONSTANTS
  a = a
  b = b
  Sims = {a, b}
  Plans <- MCPlans
  Caps <- MCCaps
  MaxFaults = 1
INVARIANTS  StoppedIsGone ResultsAddUp
PROPERTY SimulationEnds
CHECK_DEADLOCK FALSE
