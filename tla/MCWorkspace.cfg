SPECIFICATION Spec
CONSTANTS
    a1 = a1
    a2 = a2
    a3 = a3
    b1 = b1
    ana = ana
    ben = ben
    s1 = s1
    Id = {a1, a2, a3, b1}
    EmailOf <- SmallEmailOf
    NoEmail = NoEmail
    Starts <- SmallStarts
    PageOf <- SmallPageOf
    PageCap = 2
    Chunk = 1
    Matches <- SmallMatches
    Limit = 1
    Issue = {k1}
    k1 = k1
    Secret = {s1}
    Reporter = b1
    Day = 2
    Retention = 1
INVARIANTS
    TypeOK
    LastAdminGuarded
    DirectoryIsCurrent
    SettledSearchIsCurrent
    ClosingsAccountedFor
    RowIsNewest
    DisconnectHolds
PROPERTIES
    OneRowPerPerson
    LoginGivesDueRank
    NoOlderResults
CHECK_DEADLOCK FALSE
