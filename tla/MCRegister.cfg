SPECIFICATION FairSpec
CONSTANTS
    Users = {u1, u2}
    Pubkeys = {p1, p2}
    Tokens = {t1, t2}
    Callbacks = {k1, k2}
    None = none
    AgentLimit = 1
    MaxFaults = 1
CHECK_DEADLOCK FALSE
INVARIANTS
    TypeOK
    AgentLimitHolds
    CompleteIsEarned
    BoundIsReported
PROPERTIES
    RegistrySpec
    CallbackReturns
    BindingReported
