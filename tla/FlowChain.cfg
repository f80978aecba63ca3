SPECIFICATION Spec
CONSTANTS
    Producers = {p1}
    NumStages = 2
    Deps <- Chain
    Capacity = 2
    MaxBytes = 3
    Charges = {1, 2}
    SEQUENCE_MASK = 3
    MaxItems = 2
    Cancelled = Cancelled
    None = None
INVARIANT ReclaimBehindStages
PROPERTY BroadcastSpec
