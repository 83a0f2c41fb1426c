SPECIFICATION Spec
CONSTANTS
    Id = {1, 2}
    MaxRequest = 6
    MaxReboot = 1
INVARIANTS
    HostMatchesGuest
    RebootedStaysEmpty
PROPERTY TimeoutIsFinal
CHECK_DEADLOCK FALSE
