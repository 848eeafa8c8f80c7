SPECIFICATION DurableSpec
CONSTANTS
    AgentA = a
    AgentB = b
    Conns = {c1}
    Requests = {q1, q2}
    HandoffTasks = {t1, t2}
    None = none
    MessageCap = 1
    BufferLimit = 0
    PersistEvery = 1
    JoinWindow = 1
    ActiveWindow = 1
    InactivityWindow = 0
    HandoffWindow = 1
    Ops = {"propose", "accept", "reject"}
    MaxFrames = 0
    MaxRestarts = 0
    MaxFaults = 0
PROPERTIES
    RowEventuallyClosed
