SPECIFICATION FairSpec
CONSTANTS
  Ids = {a}
  DirectIds = {}
  WaitIds = {}
  Barrier = Barrier
  Err = Err
  NoAnswer = NoAnswer
  Capacity = 2
  MaxGroup = 2
  MaxEvents = 2
  MaxFaults = 1
  MaxRuns = 1
PROPERTIES EveryoneAnswered ShutdownEnds LeaseReturns
CHECK_DEADLOCK FALSE
