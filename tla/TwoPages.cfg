CONSTANTS
    Strings <- MCStrings
    SitePath <- SitePathRoot
    Disallowed = {}
    Api <- ApiPaths
    Bodies <- OddBodies
    MaxPages = 3
SPECIFICATION Spec
INVARIANTS
    NeverTwice
