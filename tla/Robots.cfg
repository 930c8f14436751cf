CONSTANTS
    Strings <- MCStrings
    SitePath <- SitePathSection
    Disallowed <- AtRoot
    Api <- ApiPaths
    Bodies <- PlainBodies
    MaxPages = 3
SPECIFICATION Spec
INVARIANTS
    RobotsRespected
