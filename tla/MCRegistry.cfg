SPECIFICATION Spec
CONSTANTS
  runner = runner
  sim = sim
  Types = {runner}
  Sims = {sim}
  TypeOf <- MCTypeOf
  s1 = s1
  SimsOf <- MCInSim
  Sessions = {s1, s2}
  Reapers = {r1}
  MaxFlushes = 0
  MaxFailures = 1
INVARIANTS LiveIndexed UntrackForgets
SYMMETRY SessionSymmetry
CHECK_DEADLOCK FALSE
