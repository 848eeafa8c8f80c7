SPECIFICATION Spec
CONSTANTS
    Intents = {i1, i2}
    Calls = {k1, k2}
    Blockers = {b1}
    None = None
    ActiveLimit = 1
    DayLimit = 1
    BlockLimit = 0
    BurstLimit = 9
    Ops = {"create", "delete", "refresh", "poll", "connect", "block", "close", "hardban"}
SYMMETRY Symmetric
INVARIANTS
    TypeOK
    CreatedNearLimit
    LeftoversAreFew
PROPERTY
    StandingSpec
