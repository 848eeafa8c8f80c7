SPECIFICATION Spec
CONSTANTS
    AgentA = a
    AgentB = b
    Conns = {c1, c2}
    Requests = {}
    HandoffTasks = {t1}
    None = none
    MessageCap = 1
    BufferLimit = 0
    PersistEvery = 1
    JoinWindow = 1
    ActiveWindow = 1
    InactivityWindow = 1
    HandoffWindow = 1
    Ops = {}
    MaxFrames = 0
    MaxRestarts = 0
    MaxFaults = 0
SYMMETRY Symmetric
PROPERTY
    ClosedIsFinal
