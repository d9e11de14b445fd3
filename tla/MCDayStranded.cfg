SPECIFICATION Spec
CONSTANTS
    m1 = m1
    m2 = m2
    h1 = h1
    Member = {m1}
    Handler = {h1}
    Questions = 1
    FailAt <- UnrepeatedSteps
    Budget <- FailedRestart
INVARIANT
    ClosedAtRest
CHECK_DEADLOCK FALSE
