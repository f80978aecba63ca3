SPECIFICATION Spec
CONSTANTS
  Values = {a, b}
  MaxRecords = 2
  SegmentBytes = 8
  MaxTotalBytes = 13
  MaxSegments = 3
  MaxSequence = 5
  MaxSegmentId = 5
  NoValue = NoValue
  NoJournal = NoJournal
SYMMETRY ValueSymmetry
INVARIANTS TypeOK RecoverySucceeds ScanSucceeds DiskBudget
