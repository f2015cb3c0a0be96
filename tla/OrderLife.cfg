SPECIFICATION LifeSpec
CONSTANTS
    o1 = o1
    o2 = o2
    r1 = r1
    r2 = r2
    Nil = Nil
    Orders = {o1}
    Riders = {r1, r2}
    RiderRank <- SmallAndLarge
    OrderRank <- Light
    MaxRank = 2
    Scheduled = {o1}
    Negotiable = {o1}
    Upgradable = {o1}
    OfferHandlers = {h1}
    MaxOffers = 2
    AgreedFare = 5
CHECK_DEADLOCK FALSE
INVARIANTS TypeOK  CreditedOnce
PROPERTIES OnlyDispatchSteals CancelledStaysIn ScheduledLeaves
