SPECIFICATION CheckoutSpec
CONSTANTS
    p1 = p1
    p2 = p2
    Pages = {p1, p2}
    Carts <- JustLoad
    Promos <- JustContested
    Tips <- Tip
    MaxTries <- Twice
CHECK_DEADLOCK FALSE
INVARIANTS ShownIsCharged
