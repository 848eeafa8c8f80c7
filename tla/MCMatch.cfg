SPECIFICATION Spec
CONSTANTS
    AgentA = a
    AgentB = b
    Conns = {c1, c2}
    Requests = {q1, q2}
    HandoffTasks = {t1}
    None = none
    MessageCap = 1
    BufferLimit = 0
    PersistEvery = 1
    JoinWindow = 1
    ActiveWindow = 0
    InactivityWindow = 0
    HandoffWindow = 0
    Ops = {"propose", "accept", "reject"}
    MaxFrames = 0
    MaxRestarts = 1
    MaxFaults = 0
SYMMETRY Symmetric
VIEW MatchOnly
INVARIANTS
    MutualConsent
    DeadlineFitsStatus
    RunningIsWatched
PROPERTY
    LifeSpec
