CONSTANTS
  Modes = {"static", "auto-scaling"}
  Requests = {1, 2}
  MaxRequests = 2
  MaxReplicas = 2
  Keep = 2
  MaxFailures <- Failures
SPECIFICATION FairSpec
INVARIANTS TypeOK ObservedIsBuilt 
PROPERTIES Converges StatusSettles
