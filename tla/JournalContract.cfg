SPECIFICATION Spec
CONSTANTS
  Values = {a, b}
  MaxRecords = 2
  SegmentBytes = 8
  MaxTotalBytes = 20
  MaxSegments = 3
  MaxSequence = 5
  MaxSegmentId = 5
  NoValue = NoValue
  NoJournal = NoJournal
SYMMETRY ValueSymmetry
PROPERTY DurableLogSpec
