SPECIFICATION EngineSpec
CONSTANTS
    Events = {e1}
    TraceOnly = {}
    Unpostable = {}
    EngineBatch = 1
    ItemIds = {i1}
    Replayers = {r1}
    MaxReplays = 4
    ReplayerMayDie = FALSE
    Nil = Nil
CHECK_DEADLOCK FALSE
INVARIANTS FailureIsRecorded
