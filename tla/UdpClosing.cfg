SPECIFICATION FairSpec
CONSTANTS
    c1 = c1
    c2 = c2
    readA = readA
    readB = readB
    readC = readC
    None = None
    Callers = {c1, c2}
    Commands <- TwoCommands
    Shape <- SameShape
    MaxRetries = 1
    KeepAlive = FALSE
    Reactions <- Faulty
    SendMayFail = TRUE
    MaxFrames = 2
    MaxCalls = 1
    MaxTimers = 8
INVARIANTS
    FutureBelongsToWaiter
    NobodyHangs
    WaitsOnOpenTransport
    AnswersOwnCommand
    NothingLeftBehind
    MutualExclusion
    NoLostWakeup
PROPERTIES
    LateLossIsHarmless
    ImplementsService
