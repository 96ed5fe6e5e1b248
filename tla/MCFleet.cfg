CONSTANTS
  None = None
  Turns = {t1, t2}
  MaxQueue = 1
  MaxReady = 2
  MaxPerReplica = 1
  MinReplicas = 0
  ScaleToZero = TRUE
  Rounds = 2
SPECIFICATION FleetSpec
INVARIANTS FleetTypeOK IdleIsIdle
PROPERTIES GateSpec OneAtATime MarksClear SizeFollows QuietRests DemandServed
