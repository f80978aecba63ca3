SPECIFICATION Spec
CONSTANTS
    Producers = {p1, p2}
    NumStages = 1
    Deps <- Twin
    Capacity = 2
    MaxBytes = 4
    Charges = {1, 2}
    SEQUENCE_MASK = 3
    MaxItems = 1
    Cancelled = Cancelled
    None = None
SYMMETRY ProducerSymmetry
INVARIANTS TypeOK SlotOwnership ChargeConserved
