SPECIFICATION FairSpec
CONSTANTS
    m1 = m1
    m2 = m2
    h1 = h1
    Member = {m1, m2}
    Handler = {h1}
    Questions = 1
    FailAt = {}
    Budget <- TickBudget
PROPERTIES
    EveryReporterServed
    RunCloses
CHECK_DEADLOCK FALSE
