CONSTANTS
    Procs = {w1, w2}
    Names = {title, version}
    Texts = {x, y}
    Blank = blank
    MaxPk = 4
    MaxRuns = 3
SPECIFICATION Spec
SYMMETRY Symmetry
CHECK_DEADLOCK FALSE
INVARIANTS
    TypeOK
    OneValue
    BlankExplained
PROPERTIES
    ValuesMatchRun
