SPECIFICATION FairSpec
CONSTANTS
    c1 = c1
    c2 = c2
    Callers = {c1, c2}
    readA = readA
    readB = readB
    None = None
    Commands <- TwoCommands
    MaxTimers = 8
    Shape <- OtherShape
    MaxRetries = 1
    KeepAlive = FALSE
    Inline = FALSE
    Reactions <- Faulty
    MaxFrames = 2
    MaxCalls = 1
INVARIANTS
    TypeOK
    NothingLeftBehind
PROPERTIES
    LateLossIsHarmless
    CallsReturn
    ImplementsService
