SPECIFICATION MCSpec
CONSTANTS
  r1 = r1
  Fates <- MCFates
  Runners = {r1, r2}
  MaxTicks = 3
  MaxRevivals = 1
  MaxLosses = 1
  Profiles <- MCProfiles
  Count = 100
  Race = 3000
  Interval = 700
  TicksMax = 5
  Minutes = 15
  Uses = {1, 6, 11}
  Amounts = {3, 12}
  MaxExtras = 3
  w1 = w1
  Workers = {w1, w2}
  QueueMax = 2
  BatchMax = 2
  MaxTurns = 2
  MaxCalls = 2
  MaxDrops = 1
   
INVARIANTS VitalsAgree NobodyFinishesEarly
  
PROPERTIES FinishIsFinal RaceEnds
CHECK_DEADLOCK FALSE
