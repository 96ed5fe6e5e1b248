CONSTANTS
  Runs = {r1, r2}
  None = None
  Procs = {p1, p2}
  MaxTrouble = 1
  WritesFail = FALSE
SPECIFICATION FairSpec
PROPERTIES AgentStatusLeaves
