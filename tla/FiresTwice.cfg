\* The timer of a one-time schedule and one run-now.
CONSTANTS
  Jobs = {j1, j2}
  None = None
  Workers = 2
  Requests = {q1}
  Concurrency = 1
  Cap = 2
  Budget <- Crons
SPECIFICATION Spec
CHECK_DEADLOCK FALSE
INVARIANTS FiresOnce
