CONSTANTS
    s = s
    a = a
    b = b
    c = c
    Urls <- MCUrls
    Links <- MCLinks
    Seed = s
    Dead = {b}
    Poison = {}
    Schedulable = {}
    Rotation = 2
    ValidResults = {"True"}
SPECIFICATION Spec
PROPERTIES
    Tried
