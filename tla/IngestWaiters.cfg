SPECIFICATION FairSpec
CONSTANTS
  Ids = {a}
  DirectIds = {}
  WaitIds = {a}
  Barrier = Barrier
  Err = Err
  NoAnswer = NoAnswer
  Capacity = 1
  MaxGroup = 1
  MaxEvents = 2
  MaxFaults = 1
  MaxRuns = 1
PROPERTIES SubmittersWake
CHECK_DEADLOCK FALSE
