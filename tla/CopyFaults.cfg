SPECIFICATION CopySpec
CONSTANTS
    None = None
    p1 = p1
    p2 = p2
    m1 = m1
    m2 = m2
    m3 = m3
    m4 = m4
    v1 = v1
    b1 = b1
    b2 = b2
    b3 = b3
    b4 = b4
    w1 = w1
    w2 = w2
    Proc = {p1}
    Inode = {m1, m2, m3}
    Backing = {b1, b2, b3}
    View = {}
    Work = {w1, w2}
    TotalLimit = 4
    OwnerLimit = 3
    Size <- Equal
    Registrations <- NoRegistrations
    Imports <- NoRegistrations
    Faults <- OneFault
    Staged <- Alone
    Dying <- Anyone
CHECK_DEADLOCK FALSE
INVARIANTS
    CopiesRetained
    CancelledNeverPublished
    EventsTellTheTruth
PROPERTY ShutdownEnds
