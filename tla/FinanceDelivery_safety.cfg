SPECIFICATION Spec
CONSTANTS
    Events = {e1}
    Workers = {w1, w2}
    LeaseIds = {l1, l2, l3}
    MaxAttempts = 2
    PublisherBatch = 1
    Crashable = {"worker", "recovery", "operator"}
    LeaseOutlived = TRUE
    Nil = Nil
VIEW View
SYMMETRY Symmetry
CHECK_DEADLOCK FALSE
INVARIANTS TypeOK OneActiveLease ExclusiveHolder PublishedIsIngested IngestedOnce
PROPERTIES PromiseKept
