SPECIFICATION Spec
CONSTANTS
    Agents = {a, b}
    Requests = {r1, r2}
    Calls = {k1, k2}
    None = none
    PendingLimit = 1
    DayLimit = 2
    Ops = {"connect", "accept", "reject", "cancel", "block", "delete"}
CHECK_DEADLOCK FALSE
SYMMETRY Symmetric
INVARIANTS
    TypeOK
    SessionFitsRequest
    PendingNearLimit
    TodayNearLimit
    SentNotOvercounted
PROPERTIES
    OpenedOnce
    AnswerStands
    IntroSpec
