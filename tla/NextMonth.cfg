CONSTANTS
    FirstDay <- MCFirstDay
    LastDay <- MCLastDay
    Inputs = {}
    mean_block_size = 2
    max_block_size = 4
    size = 2
SPECIFICATION MCSpec
INVARIANTS
    NextMonthExample
CHECK_DEADLOCK FALSE
