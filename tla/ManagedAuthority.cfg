SPECIFICATION Spec
CONSTANTS
    Broker = {b1, b2, b3}
    Object = {o1, o2}
    MaxFrames = 13
    None = None
    Torn = Torn
INVARIANTS
    NoFalseClean
    EffectsDurable
    CleanRootOpens
CHECK_DEADLOCK FALSE
