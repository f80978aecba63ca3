SPECIFICATION FairSpec
CONSTANTS
    Producers = {p1, p2}
    NumStages = 1
    Deps <- Twin
    Capacity = 1
    MaxBytes = 4
    Charges = {2, 3}
    SEQUENCE_MASK = 2
    MaxItems = 1
    Cancelled = Cancelled
    None = None
PROPERTY WaitersWake
