SPECIFICATION FairSpec
CONSTANTS
    Intents = {i1}
    Calls = {k1, k2}
    Blockers = {b1, b2}
    None = None
    ActiveLimit = 1
    DayLimit = 1
    BlockLimit = 1
    BurstLimit = 9
    Ops = {"create", "poll", "refresh", "block", "close"}
INVARIANT
    BlocksWithinLimit
PROPERTIES
    BanEnds
    SilentNotFound
