SPECIFICATION FairSpec
CONSTANTS
    AgentA = a
    AgentB = b
    Conns = {c1, c2}
    Requests = {q1}
    HandoffTasks = {t1}
    None = none
    MessageCap = 0
    BufferLimit = 0
    PersistEvery = 1
    JoinWindow = 0
    ActiveWindow = 0
    InactivityWindow = 0
    HandoffWindow = 0
    Ops = {"end", "block"}
    MaxFrames = 0
    MaxRestarts = 0
    MaxFaults = 0
PROPERTIES
    LockEventuallyFree
    HelloServed
    EndReturns
