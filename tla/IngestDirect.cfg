SPECIFICATION FairSpec
CONSTANTS
  Ids = {a}
  DirectIds = {a}
  WaitIds = {}
  Barrier = Barrier
  Err = Err
  NoAnswer = NoAnswer
  Capacity = 2
  MaxGroup = 2
  MaxEvents = 1
  MaxFaults = 1
  MaxRuns = 1
PROPERTIES ShutdownEnds LeaseReturns
CHECK_DEADLOCK FALSE
