CONSTANTS
    c1 = c1
    c2 = c2
    o1 = o1
    o2 = o2
    b1 = b1
    b2 = b2
    l1 = l1
    k1 = k1
    w1 = w1
    e1 = e1
    e2 = e2
    None = None
    Released = Released
    Client = {c1, c2}
    Object = {o1, o2}
    Block = {b1, b2}
    Lease = {}
    Key = {}
    Request <- HbmRequests
    Worker = {w1}
    Event = {e1}
SPECIFICATION Spec
CHECK_DEADLOCK FALSE
INVARIANT
    CopiesLiveMemory
