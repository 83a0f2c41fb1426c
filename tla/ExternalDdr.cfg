SPECIFICATION Spec
CONSTANTS
    None = None
    p1 = p1
    p2 = p2
    m1 = m1
    m2 = m2
    m3 = m3
    m4 = m4
    b1 = b1
    b2 = b2
    v1 = v1
    v2 = v2
    Proc = {p1, p2}
    Inode = {m1, m2, m3, m4}
    Backing = {b1, b2}
    View = {v1, v2}
    Work = {}
    TotalLimit = 4
    OwnerLimit = 3
    Size <- MCSize
    Registrations <- Competing
    Imports <- Readers
    Faults <- NoFaults
ACTION_CONSTRAINT InScope
CHECK_DEADLOCK FALSE
INVARIANTS
    ExposureAccounted
    CleanMeansDrained
    JournalMatchesCatalog
    ReferencesResolve
    QuotaHolds
    NeverSelfPoisoned
PROPERTIES
    ExposureStopsAdmission
