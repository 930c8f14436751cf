CONSTANTS
    Procs = {w1}
    Urls = {seed, a}
    Seed = seed
    Ops = {"check", "toggle", "delete", "expunge", "reset"}
    ValidResults = {"response"}
    MaxPk = 5
    MaxOps = 5
SPECIFICATION Spec
SYMMETRY Symmetry
CHECK_DEADLOCK FALSE
INVARIANTS
    LinkableRespected
PROPERTIES
    OnlyOrphansDeleted
    StaysChecked
    CheckedAtAdvances
    NoResurrection
    Implements
