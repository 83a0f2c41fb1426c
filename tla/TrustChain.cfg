SPECIFICATION Spec
CONSTANTS
    Witness = {w1, w2, w3}
    Name = {n1, n2}
    MaxFrames = 5
    MaxOrdinary = 2
    None = None
    Empty = Empty
    Half = Half
SYMMETRY Symmetry
INVARIANTS SealTellsTheTruth OnlyBoundBrokerWrites NoAdmissionOnceBound
PROPERTY ImplementsLifecycle
CHECK_DEADLOCK FALSE
