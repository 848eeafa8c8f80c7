SPECIFICATION Spec
CONSTANTS
    Intents = {i1}
    Calls = {k1}
    Blockers = {b1}
    None = None
    ActiveLimit = 1
    DayLimit = 2
    BlockLimit = 0
    BurstLimit = 9
    Ops = {"create", "poll", "block"}
PROPERTY BannedStayDormant
