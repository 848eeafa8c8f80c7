SPECIFICATION Spec
CONSTANTS
    Agents = {a, b}
    Requests = {r1}
    Calls = {k1}
    None = none
    PendingLimit = 1
    DayLimit = 1
    Ops = {"connect", "accept", "reject", "cancel", "block", "delete"}
CHECK_DEADLOCK FALSE
SYMMETRY Symmetric
PROPERTY
    BlockedStayApart
