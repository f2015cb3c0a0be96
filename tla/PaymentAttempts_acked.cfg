SPECIFICATION PaymentSpec
CONSTANTS
    Keys = {k1}
    Requests = {r1}
    Resolvers = {v1}
    Faults = {"resolver"}
    None = None
SYMMETRY Symmetry
CHECK_DEADLOCK FALSE
INVARIANTS AckedIsApplied
