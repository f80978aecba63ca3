SPECIFICATION Spec
CONSTANTS
  Ids = {a, b}
  DirectIds = {}
  WaitIds = {}
  Barrier = Barrier
  Err = Err
  NoAnswer = NoAnswer
  Capacity = 2
  MaxGroup = 2
  MaxEvents = 3
  MaxFaults = 1
  MaxRuns = 1
SYMMETRY IdSymmetry
INVARIANTS TypeOK LeaseAccounted LogAgreement FlushCovers
PROPERTIES FenceHolds
CHECK_DEADLOCK FALSE
