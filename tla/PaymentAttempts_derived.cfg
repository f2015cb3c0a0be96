SPECIFICATION PaymentSpec
CONSTANTS
    Keys = {k1, k2}
    Requests = {r1}
    Resolvers = {v1, v2}
    Faults = {}
    None = None
SYMMETRY Symmetry
CHECK_DEADLOCK FALSE
VIEW View
INVARIANTS OrderPaidIffSettled
