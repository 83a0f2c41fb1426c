SPECIFICATION Spec
CONSTANTS
    Worker = {w1, w2, w3}
    Lane = {1, 2, 3}
    Direction <- MCDirection
    Hint = {0, 5}
    ChunkBytesFor <- MCChunkBytesFor
    ChunkCount = 1
    MaxLanesFor <- MCMaxLanesFor
    MaxPinned = 3
    TtlEnabled = TRUE
    None = none
INVARIANTS
    BudgetRespected
    LaneExclusive
PROPERTY
    WaiterWoken
