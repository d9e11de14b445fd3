SPECIFICATION Spec
CONSTANTS
    h1 = h1
    h2 = h2
    q1 = q1
    q2 = q2
    Question = {q1, q2}
    Handler = {h1, h2}
    MaxMessages = 3
    Budget = 2
SYMMETRY Symmetry
INVARIANTS
    TypeOK
    MisfiledAccountedFor
    OneAnswerPerMessage
    NoAnswerLost
    CompletedReportIsWhole
    PostedOncePerOpening
    DmShowsNextQuestion
CHECK_DEADLOCK FALSE
