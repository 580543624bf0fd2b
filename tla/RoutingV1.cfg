SPECIFICATION FairSpec
CONSTANTS
    a = a
    b1 = b1
    b2 = b2
    t1 = t1
    Bot = {a, b1, b2}
    Task = {t1}
    Origin <- MCOrigin
    Llm = {a, b1}
    ReviewLimit = 2
    MaxCommands = 3
    MaxPlan = 2
    MaxBroken = 1
    MaxCrashes = 1
INVARIANTS TypeOK OnePlace
PROPERTY TaskEnds
CHECK_DEADLOCK FALSE
