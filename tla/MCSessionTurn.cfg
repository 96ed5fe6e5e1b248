CONSTANTS
  Runs = {r1, r2}
  None = None
  Procs = {p1, p2}
  MaxTrouble = 2
  WritesFail = TRUE
SPECIFICATION Spec
INVARIANTS TypeOK RegistryExact NothingLeaks
PROPERTIES TurnsNeverOverlap DraftKept LockSpec
SYMMETRY RunSymmetry
