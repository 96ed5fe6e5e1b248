CONSTANTS
  Turns = {t1, t2, t3, t4, t5}
  MaxQueue = 2
  MaxReady = 2
  MaxPerReplica = 2
SPECIFICATION FairSpec
INVARIANTS TypeOK BooksBalance NoIdleCapacity
PROPERTIES AdmissionWithinCap FifoAdmission WaiterAnswered
