------------------------------ MODULE MCCheckout ------------------------------
EXTENDS Checkout

CONSTANTS p1, p2

\* p1 may press the button twice.
Twice == [p \in Pages |-> IF p = p1 THEN 2 ELSE 1]
Tip == {0, 200}

Contested == [type |-> "percent", value |-> 20, max |-> 500, min |-> 2000,
              limit |-> 1, used |-> 0, active |-> TRUE]
Codes == {Contested,
          [Contested EXCEPT !.type = "fixed", !.value = 5000],
          [Contested EXCEPT !.type = "free_delivery"],
          [Contested EXCEPT !.active = FALSE],
          [Contested EXCEPT !.value = 10, !.limit = 2]}

\* Both sides of what the bikes and the bakkies carry, and of the code's minimum.
Weights == {30000, 30001, 1000000, 1000001}
Load == [category |-> "materials", grams |-> 45 * 1000, price |-> 4000]
JustLoad == {Load}
JustContested == {Contested}
Baskets == [category : Category, grams : Weights, price : {1999, 2000}]
             \union {Load}
=============================================================================
