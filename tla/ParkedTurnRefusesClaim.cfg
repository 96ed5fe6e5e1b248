CONSTANTS
  Runs = {r1, r2}
  None = None
  Procs = {p1}
  MaxTrouble = 1
  WritesFail = FALSE
SPECIFICATION Spec
PROPERTIES ParkedTurnRefusesClaim
