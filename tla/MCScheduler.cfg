\* Two jobs of the mixes of Lives over one slot and two workers, one request
\* on the schedule at a time, up to two accidents.
CONSTANTS
  Jobs = {j1, j2}
  None = None
  Workers = 2
  Requests = {q1}
  Concurrency = 1
  Cap = 1
  Budget <- Lives
SPECIFICATION FairSpec
CHECK_DEADLOCK FALSE
INVARIANTS TypeOK SlotBacksRun CancelFindsTurn EnabledHasTimer
PROPERTIES JobSpec SlotReclaimed SourceHears RunCloses
