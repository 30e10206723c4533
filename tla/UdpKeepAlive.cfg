SYMMETRY Symmetry
SPECIFICATION HistorySpec
CONSTANTS
    c1 = c1
    c2 = c2
    readA = readA
    readB = readB
    readC = readC
    None = None
    Callers = {c1, c2}
    Commands <- ThreeCommands
    Shape <- SameShape
    MaxRetries = 1
    KeepAlive = TRUE
    Reactions <- Late
    SendMayFail = FALSE
    MaxFrames = 3
    MaxCalls = 1
    MaxTimers = 8
INVARIANTS
    AnswersSameShape
    TimersAccounted
PROPERTIES
    FutureNeverReplaced
