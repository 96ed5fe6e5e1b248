CONSTANTS
  Modes = {"auto-scaling"}
  Requests = {1}
  MaxRequests = 2
  MaxReplicas = 2
  Keep = 2
  MaxFailures <- NoFailures
SPECIFICATION Spec
PROPERTY SweptAreInert
