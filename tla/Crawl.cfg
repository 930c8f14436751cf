CONSTANTS
    s = s
    a = a
    b = b
    c = c
    Urls <- MCUrls
    Links <- MCLinks
    Seed = s
    Dead = {b}
    Poison = {}
    Schedulable = {a, b}
    Rotation = 2
    ValidResults = {"response"}
SPECIFICATION Spec
INVARIANTS
    TypeOK
    ScheduledFirst
    FirstFoundFirstChecked
PROPERTIES
    Covered
    Rechecked
