CONSTANTS
    Procs = {w1, w2}
    Names = {m, n}
    Urls = {x, y}
    MaxOps = 4
SPECIFICATION Spec
SYMMETRY Symmetry
CHECK_DEADLOCK FALSE
INVARIANTS
    TypeOK
    OneSite
    SeedAccounted
PROPERTIES
    ResetRestores
