CONSTANTS
    Procs = {w1, w2}
    Urls = {seed, a}
    Seed = seed
    Ops = {"check", "reset"}
    ValidResults = {"True"}
    MaxPk = 3
    MaxOps = 3
SPECIFICATION Spec
SYMMETRY Symmetry
CHECK_DEADLOCK FALSE
PROPERTIES
    NoResurrection
