SPECIFICATION FairSpec
CONSTANTS
  s1 = s1
  s2 = s2
  simA = simA
  simB = simB
  NoSim = NoSim
  AgentType = AgentType
  Dispatchers = {d1, d2}
  Sessions = {s1, s2}
  Sims = {simA, simB}
  SimOf <- MCSimOf
  MaxSeen = 1000
  Scenarios <- MCQuiet
PROPERTY StartGunIsHeard
CHECK_DEADLOCK FALSE
