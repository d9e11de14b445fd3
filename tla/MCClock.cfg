CONSTANTS
    ann = ann
    bob = bob
    west = west
    home = home
    east = east
    NoZone = NoZone
    NoInstant = NoInstant
    Member = {ann, bob}
    Zone = {west, home, east}
    Home <- SmallHome
    Offset <- SmallOffset
    Day = 5
    TickSlot = 1
    Starts <- SmallStarts
    Weekly <- SmallWeekly
    Timeout = 3
    Horizon = 10
SPECIFICATION Spec
INVARIANTS
    TypeOK
    AskedAtTheirTime
    ReportClockKept
    HealthIsHonest
CHECK_DEADLOCK FALSE
