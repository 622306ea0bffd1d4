SPECIFICATION FairSpec
CONSTANTS
  viewer = viewer
  other = other
  g1 = g1
  c1 = c1
  Clients = {c1, c2}
  NoClient = noclient
  Sessions = {viewer, other}
  Gateways = {g1, g2}
  SessionOf <- MCTwoSessions
  GatewayOf <- MCGatewayOf
  Sims = {m1}
  NoSim = nosim
  Calls = {k1, k2}
  MaxFailures = 1
  MaxExpiries = 4
INVARIANTS StoreIsLastWord EntriesBacked
PROPERTY EventuallyForgotten
CHECK_DEADLOCK FALSE
