SPECIFICATION Spec
CONSTANTS
    Object = {o1}
    Access = {a1, a2}
    Plan = {p1, p2}
    Handler = {h1, h2, h3}
    Size = 2
    None = None
SYMMETRY Symmetry
INVARIANTS
    ReleasedIsStale
    CatalogMatchesProvider
    ValidationOrder
CHECK_DEADLOCK FALSE
