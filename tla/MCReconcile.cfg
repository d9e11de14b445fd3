SPECIFICATION FairSpec
CONSTANTS
    s1 = s1
    nine = nine
    ten = ten
    monday = monday
    bad = bad
    daily = daily
    weekly = weekly
    NoTick = NoTick
    NoRow = NoRow
    Standup = {s1}
    Schedule = {nine, ten, monday, bad}
    Tick = {daily, weekly}
    TickOf <- TheTickOf
    MaxJobs = 2
    Budget <- TroubleBudget
INVARIANTS
    TypeOK
    QuietMeansSynced
PROPERTIES
    NoChurn
    SelfHeals
