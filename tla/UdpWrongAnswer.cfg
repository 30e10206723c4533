SPECIFICATION Spec
CONSTANTS
    c1 = c1
    readA = readA
    readB = readB
    readC = readC
    None = None
    Callers = {c1}
    Commands <- TwoCommands
    Shape <- SameShape
    MaxRetries = 2
    KeepAlive = TRUE
    Reactions <- Doubled
    SendMayFail = FALSE
    MaxFrames = 5
    MaxCalls = 2
    MaxTimers = 8
INVARIANT AnswersOwnCommand
