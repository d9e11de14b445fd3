SPECIFICATION Spec
CONSTANTS
    m1 = m1
    m2 = m2
    a1 = a1
    a2 = a2
    b1 = b1
    Member = {m1, m2}
    Message = {a1, a2, b1}
    Author <- TheAuthors
    Starts <- SmallStarts
INVARIANTS
    TypeOK
    HeaderIsHonest
    PostedOnce
    RowDescribesPost
    NudgeAccountedFor
CHECK_DEADLOCK FALSE
