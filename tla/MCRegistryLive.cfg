SPECIFICATION FairSpec
CONSTANTS
  runner = runner
  sim = sim
  Types = {runner}
  Sims = {sim, idle}
  TypeOf <- MCTypeOf
  s1 = s1
  SimsOf <- MCInSim
  Sessions = {s1}
  Reapers = {r1}
  MaxFlushes = 1
  MaxFailures = 1
INVARIANTS TypeOK FlushForgets
PROPERTIES StaleEntriesPruned
CHECK_DEADLOCK FALSE
