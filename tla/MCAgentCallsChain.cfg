CONSTANTS
  root = root
  mid = mid
  leaf = leaf
  outer = outer
  inner = inner
  rootEnd = rootEnd
  midEnd = midEnd
  midEnd2 = midEnd2
  leafEnd = leafEnd
  Sessions = {root, mid, leaf}
  Calls = {outer, inner}
  Parent <- ChainParent
  Child <- ChainChild
  Settlers = {midEnd, midEnd2, leafEnd}
  Of <- ChainOf
  Sweeper = Sweeper
  None = None
  MaxTries = 1
  MaxPrompts = 2
  MaxTrouble = 0
SPECIFICATION Spec
CHECK_DEADLOCK FALSE
PROPERTIES ContractSpec HeldBack
