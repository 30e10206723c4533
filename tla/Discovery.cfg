SPECIFICATION Spec
CONSTANTS
    Addresses = {0, 5}
    Timeouts = {1}
    RetryCounts = {0, 4}
INVARIANTS
    FoundWhereItIs
    TakenByTrial
CHECK_DEADLOCK FALSE
