SPECIFICATION Spec
CONSTANTS
    Intents = {i1, i2}
    Calls = {k1}
    Blockers = {b1}
    None = None
    ActiveLimit = 1
    DayLimit = 2
    BlockLimit = 1
    BurstLimit = 9
    Ops = {"create", "poll"}
INVARIANT ActiveWithinLimit
