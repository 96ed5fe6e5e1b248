CONSTANTS
  root = root
  mid = mid
  leaf = leaf
  outer = outer
  inner = inner
  rootEnd = rootEnd
  midEnd = midEnd
  midEnd2 = midEnd2
  leafEnd = leafEnd
  Sessions = {root, mid}
  Calls = {outer}
  Parent <- OnceParent
  Child <- OnceChild
  Settlers = {rootEnd, midEnd}
  Of <- PairOf
  Sweeper = Sweeper
  None = None
  MaxTries = 2
  MaxPrompts = 2
  MaxTrouble = 1
SPECIFICATION FairSpec
CHECK_DEADLOCK FALSE
INVARIANTS TypeOK
PROPERTIES ContractSpec ResultReaches OutcomeReached
