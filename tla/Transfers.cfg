CONSTANTS
    c1 = c1
    c2 = c2
    o1 = o1
    o2 = o2
    b1 = b1
    b2 = b2
    l1 = l1
    k1 = k1
    w1 = w1
    e1 = e1
    e2 = e2
    None = None
    Released = Released
    Client = {c1, c2}
    Object = {o1, o2}
    Block = {b1, b2}
    Lease = {l1}
    Key = {k1}
    Request <- Requests
    Worker = {w1}
    Event = {e1, e2}
SPECIFICATION Spec
ACTION_CONSTRAINT InScope
CHECK_DEADLOCK FALSE
INVARIANTS
    CatalogConsistent
    FreedOnce
    OneOutcome
PROPERTIES
    EventsEnd
    WaitsEnd
    ShutdownCompletes
