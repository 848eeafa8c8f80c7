SPECIFICATION Spec
CONSTANTS
    AgentA = a
    AgentB = b
    Conns = {c1, c2, c3}
    Requests = {}
    HandoffTasks = {t1}
    None = none
    MessageCap = 3
    BufferLimit = 2
    PersistEvery = 2
    JoinWindow = 0
    ActiveWindow = 0
    InactivityWindow = 0
    HandoffWindow = 0
    Ops = {}
    MaxFrames = 3
    MaxRestarts = 0
    MaxFaults = 0
SYMMETRY Symmetric
INVARIANTS
    TypeOK
    NoneStranded
    LoopIsRegistered
PROPERTY
    ChannelSpec
