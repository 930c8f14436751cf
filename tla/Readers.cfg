CONSTANTS
    a = a
    b = b
    c = c
    Urls <- MCUrls
    Schedulable = {a, b}
    MaxNum = 2
    PAGE_SIZE = 1
    None = None
SPECIFICATION Spec
INVARIANTS
    TypeOK
    DrawnInOrder
    CountsAgree
    NothingMissed
PROPERTIES
    Ends
