SPECIFICATION Spec
CONSTANTS
  Ids = {a, b}
  DirectIds = {a, b}
  WaitIds = {}
  Barrier = Barrier
  Err = Err
  NoAnswer = NoAnswer
  Capacity = 2
  MaxGroup = 2
  MaxEvents = 2
  MaxFaults = 0
  MaxRuns = 2
SYMMETRY IdSymmetry
INVARIANTS LeaseAccounted LogAgreement CommittedOnce AckedIsDurable
CHECK_DEADLOCK FALSE
