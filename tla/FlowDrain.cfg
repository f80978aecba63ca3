SPECIFICATION FairSpec
CONSTANTS
    Producers = {p1}
    NumStages = 2
    Deps <- Twin
    Capacity = 1
    MaxBytes = 2
    Charges = {2}
    SEQUENCE_MASK = 3
    MaxItems = 1
    Cancelled = Cancelled
    None = None
PROPERTY CloseDrains
