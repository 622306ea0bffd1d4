SPECIFICATION FairSpec
CONSTANTS
  obs = obs
  k1 = k1
  k2 = k2
  sA = sA
  sB = sB
  sess = sess
  Clients = {obs, k1}
  Observer = Observer
  Sessions <- MCSessions
  SessionOf <- MCSessionOf
  Sims = {sA, sB}
  NoSim = NoSim
  Workers = {w1}
  Messages <- MCOneSim
  SendCap = 1
  MaxMessages = 0
  MaxFrames = 2
INVARIANTS TypeOK IndexesAgree RoutedAreOpen
PROPERTIES  NobodyStuck
CHECK_DEADLOCK FALSE
