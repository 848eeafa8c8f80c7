SPECIFICATION Spec
CONSTANTS
    Users = {u1}
    Pubkeys = {p1, p2}
    Tokens = {t1, t2}
    Callbacks = {k1, k2}
    None = none
    AgentLimit = 1
    MaxFaults = 0
CHECK_DEADLOCK FALSE
SYMMETRY Symmetric
INVARIANT
    AllWithinLimit
