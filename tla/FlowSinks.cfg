SPECIFICATION Spec
CONSTANTS
    Producers = {p1}
    NumStages = 2
    Deps <- Twin
    Capacity = 2
    MaxBytes = 4
    Charges = {2, 5}
    SEQUENCE_MASK = 3
    MaxItems = 2
    Cancelled = Cancelled
    None = None
INVARIANTS IndInv ReclaimBehindStages ChargeConserved
