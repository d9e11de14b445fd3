SPECIFICATION Spec
CONSTANTS
    m1 = m1
    m2 = m2
    h1 = h1
    Member = {m1}
    Handler = {h1}
    Questions = 1
    FailAt <- UntimedSteps
    Budget <- FaultBudget
INVARIANTS
    TypeOK
    DeadlineGuarded
    ExtraAsksAccountedFor
    ForgottenAccountedFor
PROPERTY
    DeliversTheDay
CHECK_DEADLOCK FALSE
