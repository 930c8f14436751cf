CONSTANTS
    Procs = {w1, w2}
    Urls = {seed, a}
    Seed = seed
    Ops = {"check", "toggle", "delete", "expunge", "reset"}
    ValidResults = {"True", "response"}
    MaxPk = 4
    MaxOps = 4
SPECIFICATION Spec
SYMMETRY Symmetry
CHECK_DEADLOCK FALSE
INVARIANTS
    TypeOK
    UniquePages
    NoDanglingLinks
    CheckedAtAgrees
    ErrorsExplained
PROPERTIES
    LinksMatchBody
