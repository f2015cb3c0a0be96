SPECIFICATION Spec
CONSTANTS
    o1 = o1
    o2 = o2
    r1 = r1
    r2 = r2
    Nil = Nil
    Orders = {o1}
    Riders = {r1, r2}
    RiderRank <- SmallAndLarge
    OrderRank <- Light
    MaxRank = 2
    Scheduled = {}
    Negotiable = {}
    Upgradable = {}
    OfferHandlers = {}
    MaxOffers = 0
    AgreedFare = 5
CHECK_DEADLOCK FALSE
PROPERTIES NoStealing
