SPECIFICATION Spec
CONSTANTS
    AgentA = a
    AgentB = b
    Conns = {c1, c2}
    Requests = {}
    HandoffTasks = {t1}
    None = none
    MessageCap = 4
    BufferLimit = 1
    PersistEvery = 2
    JoinWindow = 0
    ActiveWindow = 0
    InactivityWindow = 0
    HandoffWindow = 0
    Ops = {"delete"}
    MaxFrames = 7
    MaxRestarts = 2
    MaxFaults = 1
SYMMETRY Symmetric
VIEW WithoutContents
INVARIANTS
    CapAcrossRestarts
    StartedOnce
    LockDiscipline
    HolderIsAtWork
PROPERTIES
    SavedCountGrows
    LockGoesBack
