CONSTANTS
    FirstDay <- MCFirstDay
    LastDay <- MCLastDay
    Inputs <- MCInputs
    mean_block_size = 2
    max_block_size = 4
    size = 2
    Strings <- MCStrings
    SitePath <- SitePathSection
    Disallowed <- AtRoot
    Api <- ApiPaths
    Bodies <- AllBodies
    MaxPages = 3
SPECIFICATION AlgorithmsSpec
INVARIANTS
    ReadAsWritten
    NextMonthNear
    PiecesFit
    TypeOK
    LinksFollowed
    OneAddress
    SelfByFragment
    RobotsAtRoot
PROPERTIES
    CutUp
CHECK_DEADLOCK FALSE
