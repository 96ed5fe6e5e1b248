CONSTANTS
  root = root
  mid = mid
  leaf = leaf
  outer = outer
  inner = inner
  rootEnd = rootEnd
  midEnd = midEnd
  midEnd2 = midEnd2
  leafEnd = leafEnd
  Sessions = {root, mid}
  Calls = {outer, inner}
  Parent <- TwiceParent
  Child <- TwiceChild
  Settlers = {rootEnd, midEnd}
  Of <- PairOf
  Sweeper = Sweeper
  None = None
  MaxTries = 1
  MaxPrompts = 1
  MaxTrouble = 0
SPECIFICATION Spec
CHECK_DEADLOCK FALSE
PROPERTIES RunningCallStaysOpen
