SPECIFICATION FocusSpec
CONSTANTS
    Events = {e1, e2}
    TraceOnly = {}
    Unpostable = {e2}
    EngineBatch = 2
    ItemIds = {i1}
    Replayers = {r1, r2}
    MaxReplays = 4
    ReplayerMayDie = TRUE
    Workers = {w1, w2}
    LeaseIds = {l1, l2}
    MaxAttempts = 2
    PublisherBatch = 1
    Crashable = {"worker"}
    LeaseOutlived = FALSE
    Nil = Nil
CHECK_DEADLOCK FALSE
INVARIANTS EngineTypeOK OneAccountingEffect StatusIsBacked PublishingIsRecoverable
PROPERTIES AccountingImmutable PipelinePromiseKept EventuallyPosted ReplayEnds EventuallySettled
