------------------------------- MODULE Checkout -------------------------------
(***************************************************************************)
(* Placing orders: the checkout page of each customer, createOrder on the  *)
(* server, and the promo code that their orders compete for.               *)
(*                                                                         *)
(* A request carries no idempotency key.  The client gives up on an answer *)
(* after fifteen seconds while the handler goes on, and createOrder is a   *)
(* row of statements without a transaction: whatever fails after the first *)
(* leaves an order behind and is reported as a failure to place one.       *)
(***************************************************************************)
EXTENDS Pricing, FiniteSets

CONSTANTS Pages,    \* checkout pages, one for each customer
          Carts,    \* category, grams, price
          Promos,   \* the promo codes that there may be
          Tips,
          MaxTries  \* bound on the presses of the button, for each page

ASSUME CheckoutConstants ==
    /\ Carts \subseteq Cart /\ Promos \subseteq Promo /\ Tips \subseteq Nat
    /\ \A p \in Pages : MaxTries[p] \in Nat

VARIABLES promo,     \* promos: one row
          page,
          placement, \* the createOrder handlers of each page's tries, and their orders
          irregular  \* have two placements evaluated the code at the same time, or
                     \* has an admin lowered its limit or changed its count?

checkoutVars == <<promo, page, placement, irregular>>

Try(p) == 1..MaxTries[p]
Tries == UNION {{p} \X Try(p) : p \in Pages}
\* What decides how much a code takes off.
Terms(code) == [type |-> code.type, value |-> code.value, max |-> code.max]
NoTerms == [type |-> "none", value |-> 0, max |-> 0]

\* terms: those of the code when the page was granted it; repriced: the placement
\* found others.  No step reads them.
NoPlacement == [pc |-> "none", asked |-> FALSE, quoted |-> FALSE, shown |-> 0, seen |-> 0,
                discount |-> 0, total |-> 0, redeemed |-> FALSE, terms |-> NoTerms,
                repriced |-> FALSE]

CheckoutInit ==
    /\ promo \in Promos
    /\ \E carts \in [Pages -> Carts], tips \in [Pages -> Tips] :
         page = [p \in Pages |-> [pc |-> "open", cart |-> carts[p], tip |-> tips[p],
                                  granted |-> FALSE, discount |-> 0, terms |-> NoTerms,
                                  tries |-> 0, refused |-> 0]]
    /\ placement = [p \in Pages |-> [n \in Try(p) |-> NoPlacement]]
    /\ irregular = FALSE

-----------------------------------------------------------------------------
(* The promo code on the page.                                              *)

\* applyPromo: validateCode looks at the code and answers; a lost answer leaves
\* the page without a discount.
ApplyPromo(p) ==
    /\ page[p].pc = "open" /\ ~page[p].granted
    /\ Valid(promo, Subtotal(page[p].cart))
    /\ page' = [page EXCEPT ![p].granted = TRUE, ![p].terms = Terms(promo),
                  ![p].discount = Discount(promo, Subtotal(page[p].cart), Fee(page[p].cart))]
    /\ UNCHANGED <<promo, placement, irregular>>

RemovePromo(p) ==
    /\ page[p].pc = "open" /\ page[p].granted
    /\ page' = [page EXCEPT ![p].granted = FALSE, ![p].discount = 0, ![p].terms = NoTerms]
    /\ UNCHANGED <<promo, placement, irregular>>

\* updatePromo by an admin writes any field, the count of redemptions included; a code
\* that is renamed or deleted is found as little as one that is not active.
UpdatePromo ==
    /\ \E new \in Promos : promo' \in {new, [new EXCEPT !.used = promo.used]}
    /\ irregular' = (irregular \/ promo'.limit < promo.limit \/ promo'.used # promo.used)
    /\ UNCHANGED <<page, placement>>

-----------------------------------------------------------------------------
(* handleSubmit and its answer.                                             *)

\* Mutation: the button is not disabled while an order is being placed.
NeverLoading(p) == FALSE
Loading(p) == page[p].pc = "placing"

\* What the page shows for the total: the quote, or without one the price of the goods.
Shown(p, quoted) ==
    IF quoted THEN Quote(page[p].cart, page[p].tip, page[p].discount) ELSE page[p].cart.price

Submit(p) ==
    /\ page[p].pc # "left" /\ ~Loading(p) /\ page[p].tries < MaxTries[p]
    /\ page' = [page EXCEPT ![p].pc = "placing", ![p].tries = @ + 1]
    /\ \E quoted \in BOOLEAN : placement' = [placement EXCEPT ![p][page[p].tries + 1] =
         [NoPlacement EXCEPT !.pc = "sent", !.asked = page[p].granted, !.quoted = quoted,
            !.shown = Shown(p, quoted), !.terms = page[p].terms]]
    /\ UNCHANGED <<promo, irregular>>

\* The order is there: the page leaves for it and empties the cart.
Succeeds(p) ==
    /\ page[p].pc = "placing" /\ placement[p][page[p].tries].pc = "done"
    /\ page' = [page EXCEPT ![p].pc = "left"]
    /\ UNCHANGED <<promo, placement, irregular>>

\* The request or its answer is lost, takes too long, or is an error.
GivesUp(p) ==
    /\ page[p].pc = "placing"
    /\ page' = [page EXCEPT ![p].pc = "open", ![p].refused = @ + 1]
    /\ UNCHANGED <<promo, placement, irregular>>

-----------------------------------------------------------------------------
(* createOrder.                                                             *)

Steps(p, n, from, new) ==
    /\ placement[p][n].pc = from
    /\ placement' = [placement EXCEPT ![p][n] = new]

\* Order.create, the detail record and dispatchOrder, which sets the price.
Create(p, n) ==
    LET next == IF placement[p][n].asked THEN "dispatched" ELSE "pricing"
    IN /\ Steps(p, n, "sent", [placement[p][n] EXCEPT !.pc = next, !.total = Dispatched(page[p].cart)])
       /\ UNCHANGED <<promo, page, irregular>>

Evaluating == {q \in Tries : placement[q[1]][q[2]].pc = "counting"}

\* A code that is no longer valid is ignored.
EvaluatePromo(p, n) ==
    LET cart == page[p].cart
        valid == Valid(promo, Subtotal(cart))
    IN /\ Steps(p, n, "dispatched",
            [placement[p][n] EXCEPT !.pc = IF valid THEN "counting" ELSE "pricing",
               !.seen = promo.used, !.repriced = Terms(promo) # placement[p][n].terms,
               !.discount = IF valid THEN Discount(promo, Subtotal(cart), Fee(cart)) ELSE 0])
       /\ irregular' = (irregular \/ (valid /\ Evaluating # {}))
       /\ UNCHANGED <<promo, page>>

CountRedemption(p, n) ==
    /\ Steps(p, n, "counting", [placement[p][n] EXCEPT !.pc = "pricing", !.redeemed = TRUE])
    /\ promo' = [promo EXCEPT !.used = placement[p][n].seen + 1]
    /\ UNCHANGED <<page, irregular>>

\* Mutation: the discount comes off without the tip being added.
ForgetTip(p, n) ==
    /\ Steps(p, n, "pricing",
         [placement[p][n] EXCEPT !.pc = "done",
            !.total = Charge(placement[p][n].total, 0, placement[p][n].discount)])
    /\ UNCHANGED <<promo, page, irregular>>

SetTotal(p, n) ==
    /\ Steps(p, n, "pricing",
         [placement[p][n] EXCEPT !.pc = "done",
            !.total = Charge(placement[p][n].total, page[p].tip, placement[p][n].discount)])
    /\ UNCHANGED <<promo, page, irregular>>

\* The request never arrives, or a statement throws.
PlacementFails(p, n) ==
    /\ placement[p][n].pc \in {"sent", "dispatched", "counting", "pricing"}
    /\ placement' = [placement EXCEPT ![p][n].pc =
                       IF placement[p][n].pc = "sent" THEN "lost" ELSE "broken"]
    /\ UNCHANGED <<promo, page, irregular>>

-----------------------------------------------------------------------------
OnPage(p) == \/ ApplyPromo(p) \/ RemovePromo(p) \/ Submit(p)
             \/ Succeeds(p) \/ GivesUp(p)
Placing(p, n) == \/ Create(p, n) \/ EvaluatePromo(p, n) \/ CountRedemption(p, n)
                 \/ SetTotal(p, n) \/ PlacementFails(p, n)

CheckoutNext == \/ \E p \in Pages : OnPage(p)
                \/ \E q \in Tries : Placing(q[1], q[2])
                \/ UpdatePromo

CheckoutSpec == CheckoutInit /\ [][CheckoutNext]_checkoutVars
-----------------------------------------------------------------------------
Placed(p) == {n \in Try(p) : placement[p][n].pc \notin {"none", "sent", "lost"}}
Redeemed == {q \in Tries : placement[q[1]][q[2]].redeemed}

TermsRow == [type : {"none", "percent", "fixed", "free_delivery"}, value : Nat, max : Nat]
PageRow == [pc : {"open", "placing", "left"}, cart : Carts, tip : Tips,
            granted : BOOLEAN, discount : Nat, terms : TermsRow, tries : Nat, refused : Nat]
PlacementRow ==
    [pc : {"none", "sent", "dispatched", "counting", "pricing", "done", "lost", "broken"},
     asked : BOOLEAN, quoted : BOOLEAN, shown : Nat, seen : Nat, discount : Nat, total : Nat,
     redeemed : BOOLEAN, terms : TermsRow, repriced : BOOLEAN]

CheckoutTypeOK ==
    /\ promo \in Promo
    /\ page \in [Pages -> PageRow]
    /\ DOMAIN placement = Pages
    /\ \A p \in Pages : placement[p] \in [Try(p) -> PlacementRow]
    /\ irregular \in BOOLEAN

\* A cart becomes a second order only after the page was left without an answer or
\* with an error to the first, and a page that leaves leaves one more than those
\* at most (handleSubmit, createOrder).
NoSilentDuplicate ==
    \A p \in Pages : Cardinality(Placed(p)) <= page[p].refused + (IF page[p].pc = "open" THEN 0 ELSE 1)

\* An order is charged the quote of its cart, less what its code is worth when it is
\* placed.  If the page showed a quote, that is what was shown, or that and the discount
\* which the page had been granted, unless an admin changed the terms of the code in
\* between; and without a code always what was shown (quoteOrder, createOrder).
ChargedAsQuoted ==
    \A q \in Tries :
        LET x == placement[q[1]][q[2]]
            Less(discount) == Quote(page[q[1]].cart, page[q[1]].tip, discount)
        IN x.pc = "done" => /\ x.total = Less(x.discount)
                            /\ x.quoted /\ ~x.repriced => x.total \in {x.shown, Less(0)}
                            /\ x.quoted /\ ~x.asked => x.total = x.shown

\* The code's limit is passed only by placements that evaluated it at the same time, or
\* because an admin lowered it or changed the count: one after the other they never
\* redeem it more often (evaluatePromo).
LimitHoldsAlone == ~irregular => Cardinality(Redeemed) <= promo.limit

\* "The discount shown to the customer always matches what's charged" (promoEval,
\* CheckoutPage): an order placed with a code, from a quote that was shown, is charged
\* the total of that quote.
ShownIsCharged ==
    \A q \in Tries : LET x == placement[q[1]][q[2]]
                     IN x.pc = "done" /\ x.asked /\ x.quoted => x.total = x.shown
=============================================================================
