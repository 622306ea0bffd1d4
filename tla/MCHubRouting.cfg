SPECIFICATION Spec
CONSTANTS
  obs = obs
  k1 = k1
  k2 = k2
  sA = sA
  sB = sB
  sess = sess
  Clients = {obs, k1}
  Observer = Observer
  Sessions <- MCSessions
  SessionOf <- MCSessionOf
  Sims = {sA, sB}
  NoSim = NoSim
  Workers = {w1}
  Messages <- MCEveryKind
  SendCap = 1
  MaxMessages = 1
  MaxFrames = 1
 
PROPERTIES ObserverFiltered SessionScoped
CHECK_DEADLOCK FALSE
