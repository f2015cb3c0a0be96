SPECIFICATION CustomerSpec
CONSTANTS
    p1 = p1
    p2 = p2
    Pages = {p1, p2}
    Carts <- Baskets
    Promos <- Codes
    Tips <- Tip
    MaxTries <- Twice
    Keys = {k1, k2}
    Requests = {r1, r2}
    Resolvers = {v1, v2}
    Faults = {"request", "resolver"}
    None = None
    Nil = Nil
    Events <- Facts
    CaptureOf <- Captures
    FailureOf <- Failures
    TraceOnly = {}
    Unpostable = {}
    EngineBatch = 1
    ItemIds = {}
    Replayers = {}
    MaxReplays = 1
    ReplayerMayDie = FALSE
    Workers = {w1}
    LeaseIds = {l1}
    MaxAttempts = 1
    PublisherBatch = 1
    Crashable = {}
    LeaseOutlived = FALSE
SYMMETRY CustomerSymmetry
VIEW CustomerView
CHECK_DEADLOCK FALSE
INVARIANTS CustomerTypeOK NoSilentDuplicate ChargedAsQuoted LimitHoldsAlone OnePrompt FactsAreSettlements ReceiptsArePayments
PROPERTIES SettledIsFinal
