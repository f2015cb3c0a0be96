---------------------------- MODULE CheckoutProofs -----------------------------
(***************************************************************************)
(* Checkout, for every cart, tip, promo code and number of pages: an order *)
(* is charged what was shown or the full quote as long as the terms of its *)
(* code stay, a second order of one cart follows a failure, and a code is  *)
(* redeemed within its limit by placements that do not overlap.            *)
(***************************************************************************)
EXTENDS Checkout, FiniteSetTheorems, TLAPS

-----------------------------------------------------------------------------
(* The price list.                                                          *)

LEMMA FeeIsNat ==
    ASSUME NEW cart \in Cart
    PROVE  Fee(cart) \in Nat /\ Subtotal(cart) \in Nat
<1>1. Subtotal(cart) \in Nat
  BY DEF Cart, Subtotal
<1>2. \A cents \in Int : RoundDelivery(cents) \in Nat
  BY DEF RoundDelivery, AtLeast
<1>3. HeavySurcharge(cart.category, cart.grams) \in Int
  BY DEF HeavySurcharge, AtLeast, BikeMaxGrams, Kilogram, Cart
<1>4. ErrandFee(cart.category) \in Int
  BY DEF ErrandFee, ErrandHour
<1>5. \A vehicle : FeeTier(vehicle) \in {"bike", "bakkie", "truck"}
  BY DEF FeeTier
<1>6. \A tier \in {"bike", "bakkie", "truck"} : BaseFee[tier] \in Int /\ PerKm[tier] \in Int
  BY DEF BaseFee, PerKm
<1>7. ASSUME NEW vehicle PROVE DeliveryFee(cart.category, vehicle, cart.grams) \in Nat
  <2>1. PICK tier \in {"bike", "bakkie", "truck"} : tier = FeeTier(vehicle)
    BY <1>5
  <2>2. BaseFee[tier] + DefaultKm * PerKm[tier] + HeavySurcharge(cart.category, cart.grams)
          + ErrandFee(cart.category) \in Int
    BY <1>3, <1>4, <1>6 DEF DefaultKm
  <2> QED BY <1>2, <2>1, <2>2 DEF DeliveryFee
<1> QED BY <1>1, <1>7 DEF Fee

LEMMA DiscountInRange ==
    ASSUME NEW code, code.type \in {"percent", "fixed", "free_delivery"},
           code.value \in Nat, code.max \in Nat, NEW sub \in Nat, NEW fee \in Nat
    PROVE  Discount(code, sub, fee) \in 0..(sub + fee)
<1>1. /\ code.value \in Nat /\ code.max \in Nat /\ sub + fee \in Nat
      /\ code.type \in {"percent", "fixed", "free_delivery"}
  OBVIOUS
<1>2. \A a, b \in Nat : AtMost(a, b) \in 0..b
  BY DEF AtMost
<1>3. CASE code.type = "percent"
  <2>1. sub * code.value \in Nat
    <3>1. \A m, n \in Nat : m * n \in Nat
      OBVIOUS
    <3> QED BY <1>1, <3>1
  <2>2. (sub * code.value + 50) \div 100 \in Nat
    <3> DEFINE n == sub * code.value
    <3>1. \A m \in Nat : (m + 50) \div 100 \in Nat
      OBVIOUS
    <3>2. n \in Nat
      BY <2>1
    <3> HIDE DEF n
    <3>3. (n + 50) \div 100 \in Nat
      BY <3>1, <3>2
    <3> QED BY <3>3 DEF n
  <2> DEFINE reduction == AtMost((sub * code.value + 50) \div 100, code.max)
  <2>3. reduction \in Nat
    <3>1. \A m \in Nat : AtMost(m, code.max) \in Nat
      BY <1>1 DEF AtMost
    <3> QED BY <2>2, <3>1
  <2>4. Discount(code, sub, fee) = AtMost(reduction, sub + fee)
    BY <1>3, Zenon DEF Discount
  <2> HIDE DEF reduction
  <2> QED BY <1>1, <1>2, <2>3, <2>4
<1>4. CASE code.type = "fixed"
  <2>1. Discount(code, sub, fee) = AtMost(code.value, sub + fee)
    BY <1>4 DEF Discount
  <2> QED BY <1>1, <1>2, <2>1
<1>5. CASE code.type = "free_delivery"
  <2>1. Discount(code, sub, fee) = AtMost(fee, sub + fee)
    BY <1>5 DEF Discount
  <2> QED BY <1>1, <1>2, <2>1
<1> QED BY <1>1, <1>3, <1>4, <1>5

\* What is charged in two updates is what the quote computes at once.
LEMMA ChargeIsQuote ==
    ASSUME NEW cart \in Cart, NEW tip \in Nat,
           NEW discount \in 0..(Subtotal(cart) + Fee(cart))
    PROVE  /\ Charge(Dispatched(cart), tip, discount) = Quote(cart, tip, discount)
           /\ Quote(cart, tip, discount) \in Nat
BY FeeIsNat DEF Charge, Dispatched, Quote, AtLeast, AtMost

-----------------------------------------------------------------------------
(* The inductive invariant.                                                 *)

CodeTerms == [type : {"percent", "fixed", "free_delivery"}, value : Nat, max : Nat]

\* What a code of these terms takes off the cart of a page.
Worth(p, terms) == Discount(terms, Subtotal(page[p].cart), Fee(page[p].cart))
Quoted(p, discount) == Quote(page[p].cart, page[p].tip, discount)
Reductions(p) == 0..(Subtotal(page[p].cart) + Fee(page[p].cart))

PageOK(p) ==
    /\ page[p].granted => page[p].terms \in CodeTerms
    /\ page[p].discount = IF page[p].granted THEN Worth(p, page[p].terms) ELSE 0
    /\ page[p].tries = page[p].refused + (IF page[p].pc = "open" THEN 0 ELSE 1)

\* A placement keeps what was shown when it was sent, and nears it step by step.
RowOK(p, x) ==
    /\ x.pc = "none" => ~x.redeemed
    /\ x.asked => x.terms \in CodeTerms
    /\ x.pc # "none" /\ x.quoted => x.shown = Quoted(p, IF x.asked THEN Worth(p, x.terms) ELSE 0)
    /\ x.pc \in {"dispatched", "counting"} => x.asked
    /\ x.pc \in {"dispatched", "counting", "pricing"} => x.total = Dispatched(page[p].cart)
    /\ x.discount \in Reductions(p) /\ (~x.asked => x.discount = 0)
    /\ x.asked /\ ~x.repriced => x.discount \in {0, Worth(p, x.terms)}
    /\ x.pc = "done" => x.total = Quoted(p, x.discount)

RowsOK == \A p \in Pages : \A n \in Try(p) :
             /\ RowOK(p, placement[p][n])
             /\ placement[p][n].pc # "none" => n <= page[p].tries

\* As long as no two placements have evaluated the code at once, the one that is
\* about to count its redemption knows the count and is within the limit.
Alone ==
    /\ Cardinality(Redeemed) <= promo.used /\ Cardinality(Redeemed) <= promo.limit
    /\ \A p \in Pages : \A n \in Try(p) : placement[p][n].pc = "counting" =>
          /\ placement[p][n].seen = promo.used /\ promo.used < promo.limit
          /\ \A q \in Pages : \A m \in Try(q) : placement[q][m].pc = "counting" => q = p /\ m = n

LimitInv == IsFiniteSet(Redeemed) /\ (~irregular => Alone)

CheckoutInv == CheckoutTypeOK /\ (\A p \in Pages : PageOK(p)) /\ RowsOK /\ LimitInv

LEMMA TriesArePairs ==
    /\ \A p \in Pages : \A n \in Try(p) : <<p, n>> \in Tries
    /\ \A q \in Tries : q[1] \in Pages /\ q[2] \in Try(q[1]) /\ q = <<q[1], q[2]>>
BY DEF Tries

LEMMA CartIsTyped ==
    ASSUME CheckoutTypeOK, NEW p \in Pages
    PROVE  /\ page[p] \in PageRow /\ page[p].cart \in Cart /\ page[p].tip \in Nat
           /\ Subtotal(page[p].cart) \in Nat /\ Fee(page[p].cart) \in Nat
           /\ 0 \in Reductions(p) /\ Reductions(p) \subseteq Nat
           /\ \A terms \in CodeTerms : Worth(p, terms) \in Reductions(p)
<1>1. page[p] \in PageRow /\ page[p].cart \in Cart /\ page[p].tip \in Nat
  BY CheckoutConstants DEF CheckoutTypeOK, PageRow
<1>2. Subtotal(page[p].cart) \in Nat /\ Fee(page[p].cart) \in Nat
  BY <1>1, FeeIsNat
<1>3. ASSUME NEW terms \in CodeTerms PROVE Worth(p, terms) \in Reductions(p)
  <2>1. /\ terms.type \in {"percent", "fixed", "free_delivery"}
        /\ terms.value \in Nat /\ terms.max \in Nat
    BY DEF CodeTerms
  <2> QED BY <1>2, <2>1, DiscountInRange DEF Worth, Reductions
<1>4. 0 \in Reductions(p) /\ Reductions(p) \subseteq Nat
  BY <1>2 DEF Reductions
<1> QED BY <1>1, <1>2, <1>3, <1>4

\* What a code takes off depends on its terms only.
LEMMA TermsDecide ==
    ASSUME NEW code \in Promo, NEW sub, NEW fee
    PROVE  Terms(code) \in CodeTerms /\ Discount(Terms(code), sub, fee) = Discount(code, sub, fee)
<1>1. /\ Terms(code).type = code.type /\ Terms(code).value = code.value
      /\ Terms(code).max = code.max
  BY DEF Terms
<1>2. Terms(code) \in CodeTerms
  BY DEF Terms, CodeTerms, Promo
<1>3. Discount(Terms(code), sub, fee) = Discount(code, sub, fee)
  BY <1>1 DEF Discount
<1> QED BY <1>2, <1>3

\* What the page shows and what a placement charges are numbers.
LEMMA QuotedIsNat ==
    ASSUME CheckoutTypeOK, NEW p \in Pages, NEW discount \in Reductions(p)
    PROVE  /\ Quoted(p, discount) \in Nat
           /\ Charge(Dispatched(page[p].cart), page[p].tip, discount) = Quoted(p, discount)
           /\ Dispatched(page[p].cart) \in Nat
<1>1. Dispatched(page[p].cart) \in Nat
  BY CartIsTyped DEF Dispatched
<1> QED BY <1>1, CartIsTyped, ChargeIsQuote DEF Quoted, Reductions

LEMMA InitInv == CheckoutInit => CheckoutInv
<1> SUFFICES ASSUME CheckoutInit PROVE CheckoutInv
  OBVIOUS
<1> USE CheckoutConstants DEF CheckoutInit
<1>1. NoPlacement \in PlacementRow
  BY DEF NoPlacement, PlacementRow, NoTerms, TermsRow
<1>2. PICK carts \in [Pages -> Carts], tips \in [Pages -> Tips] :
        page = [p \in Pages |-> [pc |-> "open", cart |-> carts[p], tip |-> tips[p],
                                 granted |-> FALSE, discount |-> 0, terms |-> NoTerms,
                                 tries |-> 0, refused |-> 0]]
  OBVIOUS
<1>3. page \in [Pages -> PageRow]
  BY <1>2 DEF PageRow, NoTerms, TermsRow
<1>4. CheckoutTypeOK
  BY <1>1, <1>3 DEF CheckoutTypeOK
<1>5. \A p \in Pages : PageOK(p)
  BY <1>2 DEF PageOK
<1>6. \A p \in Pages : \A n \in Try(p) : placement[p][n] = NoPlacement
  OBVIOUS
<1>7. RowsOK
  <2>1. \A p \in Pages : 0 \in Reductions(p)
    BY <1>4, CartIsTyped
  <2> QED BY <1>6, <2>1 DEF RowsOK, RowOK, NoPlacement
<1>8. Redeemed = {}
  BY <1>6, TriesArePairs DEF Redeemed, NoPlacement
<1>9. IsFiniteSet(Redeemed) /\ Cardinality(Redeemed) = 0
  BY <1>8, FS_EmptySet
<1>10. promo.used \in Nat /\ promo.limit \in Nat
  BY DEF Promo
<1>11. LimitInv
  BY <1>6, <1>9, <1>10 DEF LimitInv, Alone, NoPlacement
<1> QED BY <1>4, <1>5, <1>7, <1>11 DEF CheckoutInv

-----------------------------------------------------------------------------
(* Steps of the page.                                                       *)

SameCart(p) == page'[p].cart = page[p].cart /\ page'[p].tip = page[p].tip

LEMMA RowStays ==
    ASSUME NEW p \in Pages, SameCart(p), NEW x, RowOK(p, x)
    PROVE  RowOK(p, x)'
BY DEF SameCart, RowOK, Quoted, Worth, Reductions

\* No placement changes, and every page keeps its cart and tip.
LEMMA PageStep ==
    ASSUME CheckoutInv, UNCHANGED placement, promo' \in Promo, irregular' \in BOOLEAN,
           page' \in [Pages -> PageRow], LimitInv',
           \A p \in Pages : /\ SameCart(p) /\ PageOK(p)'
                            /\ page'[p].tries >= page[p].tries
    PROVE  CheckoutInv'
<1> USE DEF CheckoutInv
<1>1. CheckoutTypeOK'
  BY DEF CheckoutTypeOK
<1>2. ASSUME NEW p \in Pages, NEW n \in Try(p)
      PROVE  RowOK(p, placement[p][n])' /\ (placement'[p][n].pc # "none" => n <= page'[p].tries)
  <2>1. PICK x : x = placement[p][n]
    OBVIOUS
  <2>2. RowOK(p, x)'
    BY <2>1, RowStays DEF RowsOK
  <2>3. placement'[p][n] = x
    BY <2>1
  <2>4. page[p].tries \in Nat /\ page'[p].tries \in Nat /\ n \in Nat
    BY CheckoutConstants DEF CheckoutTypeOK, PageRow, Try
  <2>5. RowOK(p, placement[p][n])'
    BY <2>2, <2>3, Zenon DEF RowOK
  <2>6. placement[p][n].pc # "none" => n <= page[p].tries
    BY DEF RowsOK
  <2> QED BY <2>1, <2>3, <2>4, <2>5, <2>6
<1>3. RowsOK'
  BY <1>2 DEF RowsOK
<1> QED BY <1>1, <1>3

\* Raising the limit disturbs nobody; every other edit of the limits is irregular.
LEMMA LimitStays ==
    ASSUME CheckoutInv, UNCHANGED placement, promo' \in Promo,
           ~irregular' => ~irregular /\ promo'.limit >= promo.limit /\ promo'.used = promo.used
    PROVE  LimitInv'
<1>1. Redeemed' = Redeemed
  BY DEF Redeemed
<1>2. /\ promo.limit \in Nat /\ promo'.limit \in Nat /\ promo.used \in Nat
      /\ IsFiniteSet(Redeemed) /\ Cardinality(Redeemed) \in Nat
  BY FS_CardinalityType DEF CheckoutInv, LimitInv, CheckoutTypeOK, Promo
<1>3. ASSUME ~irregular' PROVE Alone'
  <2>1. Alone /\ promo'.limit >= promo.limit /\ promo'.used = promo.used
    BY <1>3 DEF CheckoutInv, LimitInv
  <2>2. Cardinality(Redeemed') <= promo'.used /\ Cardinality(Redeemed') <= promo'.limit
    BY <1>1, <1>2, <2>1 DEF Alone
  <2>3. ASSUME NEW p \in Pages, NEW n \in Try(p), placement'[p][n].pc = "counting"
        PROVE  /\ placement'[p][n].seen = promo'.used /\ promo'.used < promo'.limit
               /\ \A q \in Pages : \A m \in Try(q) :
                    placement'[q][m].pc = "counting" => q = p /\ m = n
    <3>1. placement' = placement
      OBVIOUS
    <3>2. placement[p][n].seen = promo.used /\ promo.used < promo.limit
      BY <2>1, <2>3, <3>1 DEF Alone
    <3>3. \A q \in Pages : \A m \in Try(q) : placement[q][m].pc = "counting" => q = p /\ m = n
      BY <2>1, <2>3, <3>1 DEF Alone
    <3> QED BY <1>2, <2>1, <3>1, <3>2, <3>3
  <2> QED BY <2>2, <2>3 DEF Alone
<1> QED BY <1>1, <1>2, <1>3 DEF LimitInv

LEMMA OnPageInv ==
    ASSUME CheckoutInv, NEW p \in Pages,
           ApplyPromo(p) \/ RemovePromo(p) \/ Succeeds(p) \/ GivesUp(p)
    PROVE  CheckoutInv'
<1> USE DEF CheckoutInv
<1>1. /\ page \in [Pages -> PageRow] /\ page[p] \in PageRow /\ promo \in Promo
      /\ PageOK(p)
  BY DEF CheckoutTypeOK
<1>2. PICK row \in PageRow :
        /\ page' = [page EXCEPT ![p] = row]
        /\ row.cart = page[p].cart /\ row.tip = page[p].tip /\ row.tries = page[p].tries
        /\ row.granted => row.terms \in CodeTerms
        /\ row.discount = IF row.granted THEN Worth(p, row.terms) ELSE 0
        /\ row.tries = row.refused + (IF row.pc = "open" THEN 0 ELSE 1)
  <2> DEFINE Fits(row) ==
        /\ page' = [page EXCEPT ![p] = row]
        /\ row.cart = page[p].cart /\ row.tip = page[p].tip /\ row.tries = page[p].tries
        /\ row.granted => row.terms \in CodeTerms
        /\ row.discount = IF row.granted THEN Worth(p, row.terms) ELSE 0
        /\ row.tries = row.refused + (IF row.pc = "open" THEN 0 ELSE 1)
  <2>1. CASE ApplyPromo(p)
    <3> DEFINE terms == Terms(promo)
               new == [page[p] EXCEPT !.granted = TRUE, !.terms = terms,
                                      !.discount = Worth(p, terms)]
    <3>0. /\ terms \in CodeTerms /\ terms \in TermsRow /\ Worth(p, terms) \in Nat
          /\ Worth(p, terms) = Discount(promo, Subtotal(page[p].cart), Fee(page[p].cart))
      BY <1>1, TermsDecide, CartIsTyped DEF Worth, CodeTerms, TermsRow
    <3>1. new \in PageRow
      BY <1>1, <3>0 DEF PageRow
    <3>2. page' = [page EXCEPT ![p] = new]
      BY <1>1, <2>1, <3>0 DEF ApplyPromo, PageRow
    <3>3. Fits(new)
      <4> HIDE DEF terms
      <4> QED BY <1>1, <2>1, <3>0, <3>2 DEF ApplyPromo, PageOK, PageRow
    <3> QED BY <3>1, <3>3
  <2>2. CASE RemovePromo(p)
    <3> DEFINE new == [page[p] EXCEPT !.granted = FALSE, !.discount = 0, !.terms = NoTerms]
    <3>1. new \in PageRow
      BY <1>1 DEF PageRow, NoTerms, TermsRow
    <3>2. page' = [page EXCEPT ![p] = new]
      BY <1>1, <2>2 DEF RemovePromo, PageRow
    <3>3. Fits(new)
      BY <1>1, <2>2, <3>2 DEF RemovePromo, PageOK, PageRow
    <3> QED BY <3>1, <3>3
  <2>3. CASE Succeeds(p)
    <3> DEFINE new == [page[p] EXCEPT !.pc = "left"]
    <3>1. new \in PageRow
      BY <1>1 DEF PageRow
    <3>2. page' = [page EXCEPT ![p] = new]
      BY <1>1, <2>3 DEF Succeeds, PageRow
    <3>3. Fits(new)
      BY <1>1, <2>3, <3>2 DEF Succeeds, PageOK, PageRow
    <3> QED BY <3>1, <3>3
  <2>4. CASE GivesUp(p)
    <3> DEFINE new == [page[p] EXCEPT !.pc = "open", !.refused = @ + 1]
    <3>0. page[p].refused + 1 \in Nat
      BY <1>1 DEF PageRow
    <3>1. new \in PageRow
      BY <1>1, <3>0 DEF PageRow
    <3>2. page' = [page EXCEPT ![p] = new]
      BY <1>1, <2>4 DEF GivesUp, PageRow
    <3>3. Fits(new)
      BY <1>1, <2>4, <3>2 DEF GivesUp, PageOK, PageRow
    <3> QED BY <3>1, <3>3
  <2> QED BY <2>1, <2>2, <2>3, <2>4
<1>3. UNCHANGED <<promo, placement, irregular>>
  BY DEF ApplyPromo, RemovePromo, Succeeds, GivesUp
<1>4. page'[p] = row /\ \A q \in Pages \ {p} : page'[q] = page[q]
  BY <1>1, <1>2
<1>5. \A q \in Pages : SameCart(q)
  BY <1>2, <1>4 DEF SameCart
<1>6. page' \in [Pages -> PageRow]
  BY <1>1, <1>2
<1>7. ASSUME NEW q \in Pages PROVE PageOK(q)' /\ page'[q].tries >= page[q].tries
  <2>1. page[q].tries \in Nat /\ page'[q].cart = page[q].cart
    BY <1>1, <1>5 DEF PageRow, SameCart
  <2>2. CASE q = p
    <3>1. page'[q] = row
      BY <1>4, <2>2
    <3>2. PageOK(q)'
      <4>1. \A terms : Worth(q, terms)' = Worth(p, terms)
        BY <2>1, <2>2 DEF Worth
      <4> HIDE DEF CheckoutInv
      <4> QED BY <1>2, <3>1, <4>1 DEF PageOK
    <3>3. page'[q].tries = page[q].tries
      BY <1>2, <2>2, <3>1
    <3> QED BY <2>1, <3>2, <3>3
  <2>3. CASE q # p
    <3>1. page'[q] = page[q] /\ PageOK(q)
      BY <1>4, <2>3
    <3> QED BY <2>1, <3>1 DEF PageOK, Worth
  <2> QED BY <2>2, <2>3
<1>8. promo' \in Promo /\ irregular' \in BOOLEAN
  BY <1>1, <1>3 DEF CheckoutTypeOK
<1>9. LimitInv'
  <2>1. promo.limit \in Nat
    BY <1>1 DEF Promo
  <2> QED BY <1>3, <1>8, <2>1, LimitStays
<1> QED BY <1>3, <1>5, <1>6, <1>7, <1>8, <1>9, PageStep

LEMMA PageUnchanged ==
    ASSUME CheckoutInv, UNCHANGED page
    PROVE  \A q \in Pages : /\ SameCart(q) /\ PageOK(q)'
                            /\ page'[q].tries >= page[q].tries
<1> TAKE q \in Pages
<1>1. SameCart(q) /\ page[q].tries \in Nat /\ PageOK(q) /\ page' = page
  BY DEF SameCart, CheckoutInv, CheckoutTypeOK, PageRow
<1> QED BY <1>1 DEF PageOK, Worth

LEMMA UpdatePromoInv == ASSUME CheckoutInv, UpdatePromo PROVE CheckoutInv'
<1>1. PICK new \in Promos : promo' \in {new, [new EXCEPT !.used = promo.used]}
  BY DEF UpdatePromo
<1>2. promo \in Promo /\ new \in Promo /\ promo.used \in Nat /\ irregular \in BOOLEAN
  BY CheckoutConstants DEF CheckoutInv, CheckoutTypeOK, Promo
<1>3. promo' \in Promo
  BY <1>1, <1>2 DEF Promo
<1>4. /\ irregular' = (irregular \/ promo'.limit < promo.limit \/ promo'.used # promo.used)
      /\ UNCHANGED <<page, placement>>
  BY DEF UpdatePromo
<1>5. promo.limit \in Nat /\ promo'.limit \in Nat
  BY <1>2, <1>3 DEF Promo
<1>6. ~irregular' => ~irregular /\ promo'.limit >= promo.limit /\ promo'.used = promo.used
  <2>1. ~irregular' => ~irregular /\ ~(promo'.limit < promo.limit) /\ promo'.used = promo.used
    BY <1>4, Zenon
  <2>2. ~(promo'.limit < promo.limit) => promo'.limit >= promo.limit
    BY <1>5
  <2> QED BY <2>1, <2>2, Zenon
<1>7. LimitInv' /\ irregular' \in BOOLEAN
  BY <1>3, <1>4, <1>6, LimitStays
<1>8. page' \in [Pages -> PageRow]
  BY <1>4 DEF CheckoutInv, CheckoutTypeOK
<1> QED BY <1>3, <1>4, <1>7, <1>8, PageUnchanged, PageStep

-----------------------------------------------------------------------------
(* Steps of a placement.                                                    *)

Moves(p, n, new) == placement' = [placement EXCEPT ![p][n] = new]

LEMMA MovedRow ==
    ASSUME CheckoutTypeOK, NEW p \in Pages, NEW n \in Try(p), NEW new \in PlacementRow,
           Moves(p, n, new)
    PROVE  /\ placement'[p][n] = new
           /\ \A q \in Pages : \A m \in Try(q) : <<q, m>> # <<p, n>> => placement'[q][m] = placement[q][m]
           /\ DOMAIN placement' = Pages
           /\ \A q \in Pages : placement'[q] \in [Try(q) -> PlacementRow]
<1>1. /\ placement[p] \in [Try(p) -> PlacementRow] /\ DOMAIN placement = Pages
      /\ \A q \in Pages : placement[q] \in [Try(q) -> PlacementRow]
  BY DEF CheckoutTypeOK
<1>2. placement' = [placement EXCEPT ![p] = [placement[p] EXCEPT ![n] = new]]
  BY DEF Moves
<1>3. DOMAIN placement' = Pages
  BY <1>1, <1>2
<1>4. placement'[p] = [placement[p] EXCEPT ![n] = new]
  BY <1>1, <1>2
<1>5. \A q \in Pages : q # p => placement'[q] = placement[q]
  BY <1>1, <1>2
<1>6. placement'[p] \in [Try(p) -> PlacementRow] /\ placement'[p][n] = new
  BY <1>1, <1>4
<1>7. \A m \in Try(p) : m # n => placement'[p][m] = placement[p][m]
  BY <1>1, <1>4
<1> QED BY <1>1, <1>3, <1>5, <1>6, <1>7

\* One row of one page changes; what is left is that the row and the limit are right.
LEMMA PlacementStep ==
    ASSUME CheckoutInv, NEW p \in Pages, NEW n \in Try(p), NEW new \in PlacementRow,
           Moves(p, n, new), RowOK(p, new)', new.pc # "none" => n <= page'[p].tries,
           promo' \in Promo, irregular' \in BOOLEAN,
           page' \in [Pages -> PageRow],
           \A q \in Pages : /\ SameCart(q) /\ PageOK(q)'
                            /\ page'[q].tries >= page[q].tries,
           LimitInv'
    PROVE  CheckoutInv'
<1>1. CheckoutTypeOK'
  BY MovedRow DEF CheckoutInv, CheckoutTypeOK
<1>2. ASSUME NEW q \in Pages, NEW m \in Try(q)
      PROVE  RowOK(q, placement[q][m])' /\ (placement'[q][m].pc # "none" => m <= page'[q].tries)
  <2>1. CASE q = p /\ m = n
    <3>1. placement'[q][m] = new
      BY <2>1, MovedRow DEF CheckoutInv
    <3>2. RowOK(q, placement[q][m])'
      BY <2>1, <3>1, Zenon DEF RowOK
    <3> QED BY <2>1, <3>1, <3>2
  <2>2. CASE <<q, m>> # <<p, n>>
    <3>1. PICK x : x = placement[q][m]
      OBVIOUS
    <3>2. placement'[q][m] = x
      BY <2>2, <3>1, MovedRow DEF CheckoutInv
    <3>3. RowOK(q, x) /\ (x.pc # "none" => m <= page[q].tries)
      BY <3>1, Zenon DEF CheckoutInv, RowsOK
    <3>4. page[q].tries \in Nat /\ page'[q].tries \in Nat /\ m \in Nat
      BY CheckoutConstants DEF CheckoutInv, CheckoutTypeOK, PageRow, Try
    <3>5. RowOK(q, x)'
      BY <3>3, RowStays
    <3>6. x.pc # "none" => m <= page'[q].tries
      BY <3>3, <3>4
    <3>7. RowOK(q, placement[q][m])'
      BY <3>2, <3>5, Zenon DEF RowOK
    <3> QED BY <3>2, <3>6, <3>7
  <2> QED BY <2>1, <2>2
<1>3. RowsOK'
  BY <1>2 DEF RowsOK, Try
<1> QED BY <1>1, <1>3 DEF CheckoutInv

\* Nobody joins those that are about to count a redemption.
LEMMA LimitKept ==
    ASSUME CheckoutInv, NEW p \in Pages, NEW n \in Try(p), NEW new \in PlacementRow,
           Moves(p, n, new), new.redeemed = placement[p][n].redeemed, new.pc # "counting",
           UNCHANGED <<promo, irregular>>
    PROVE  LimitInv'
<1>1. /\ placement'[p][n] = new
      /\ \A q \in Pages : \A m \in Try(q) : <<q, m>> # <<p, n>> => placement'[q][m] = placement[q][m]
  BY MovedRow DEF CheckoutInv
<1>2. \A q \in Tries : placement'[q[1]][q[2]].redeemed = placement[q[1]][q[2]].redeemed
  BY <1>1, TriesArePairs
<1>3. Redeemed' = Redeemed
  BY <1>2, Zenon DEF Redeemed
<1>4. \A q \in Pages : \A m \in Try(q) : placement'[q][m].pc = "counting" => placement'[q][m] = placement[q][m]
  BY <1>1
<1>5. ASSUME Alone PROVE Alone'
  <2>1. Cardinality(Redeemed') <= promo'.used /\ Cardinality(Redeemed') <= promo'.limit
    BY <1>3, <1>5 DEF Alone
  <2>2. ASSUME NEW q \in Pages, NEW m \in Try(q), placement'[q][m].pc = "counting"
        PROVE  /\ placement'[q][m].seen = promo'.used /\ promo'.used < promo'.limit
               /\ \A r \in Pages : \A l \in Try(r) :
                    placement'[r][l].pc = "counting" => r = q /\ l = m
    BY <1>4, <1>5, <2>2 DEF Alone
  <2> QED BY <2>1, <2>2 DEF Alone
<1> QED BY <1>3, <1>5 DEF LimitInv, CheckoutInv

LEMMA SubmitInv == ASSUME CheckoutInv, NEW p \in Pages, Submit(p) PROVE CheckoutInv'
<1> PICK quoted \in BOOLEAN : placement' = [placement EXCEPT ![p][page[p].tries + 1] =
         [NoPlacement EXCEPT !.pc = "sent", !.asked = page[p].granted, !.quoted = quoted,
            !.shown = Shown(p, quoted), !.terms = page[p].terms]]
  BY DEF Submit
<1>0. PICK n, new, row :
        /\ n = page[p].tries + 1
        /\ new = [NoPlacement EXCEPT !.pc = "sent", !.asked = page[p].granted, !.quoted = quoted,
                    !.shown = Shown(p, quoted), !.terms = page[p].terms]
        /\ row = [page[p] EXCEPT !.pc = "placing", !.tries = n]
  OBVIOUS
<1>1. /\ CheckoutTypeOK /\ page \in [Pages -> PageRow] /\ page[p] \in PageRow
      /\ PageOK(p) /\ page[p].tries \in Nat /\ page[p].granted \in BOOLEAN
  BY DEF CheckoutInv, CheckoutTypeOK, PageRow
<1>2. n \in Try(p) /\ n \in Nat
  BY <1>0, <1>1, CheckoutConstants DEF Submit, Try
<1>3. /\ quoted => Shown(p, quoted) = Quoted(p, IF page[p].granted THEN Worth(p, page[p].terms) ELSE 0)
      /\ Shown(p, quoted) \in Nat
  <2>1. page[p].discount = IF page[p].granted THEN Worth(p, page[p].terms) ELSE 0
    BY <1>1 DEF PageOK
  <2>2. page[p].discount \in Reductions(p)
    BY <1>1, <2>1, CartIsTyped DEF PageOK
  <2>3. Quoted(p, page[p].discount) \in Nat /\ page[p].cart.price \in Nat
    BY <1>1, <2>2, QuotedIsNat, CartIsTyped DEF Cart
  <2> QED BY <2>1, <2>3 DEF Shown, Quoted
<1>4. /\ new \in PlacementRow /\ new.pc = "sent" /\ new.asked = page[p].granted
      /\ new.quoted = quoted /\ new.terms = page[p].terms
      /\ new.shown = Shown(p, quoted) /\ new.redeemed = FALSE /\ new.discount = 0
  <2>1. page[p].terms \in TermsRow
    BY <1>1 DEF PageRow
  <2> QED BY <1>0, <1>1, <1>3, <2>1 DEF NoPlacement, PlacementRow
<1>5. page' = [page EXCEPT ![p] = row] /\ Moves(p, n, new) /\ UNCHANGED <<promo, irregular>>
  BY <1>0, <1>1 DEF Submit, Moves
<1>6. row \in PageRow /\ row.tries = n /\ row.cart = page[p].cart /\ row.tip = page[p].tip
  BY <1>0, <1>1, <1>2 DEF PageRow
<1>7. /\ page' \in [Pages -> PageRow] /\ page'[p] = row
      /\ \A q \in Pages : q # p => page'[q] = page[q]
  BY <1>1, <1>5, <1>6
<1>8. \A q \in Pages : SameCart(q)
  BY <1>6, <1>7 DEF SameCart
<1>9. ASSUME NEW q \in Pages PROVE PageOK(q)' /\ page'[q].tries >= page[q].tries
  <2>1. /\ \A terms : Worth(q, terms)' = Worth(q, terms)
        /\ page[q].tries \in Nat /\ PageOK(q)
    BY <1>1, <1>8 DEF PageRow, CheckoutInv, Worth, SameCart
  <2>2. CASE q = p
    <3>1. /\ row.discount = page[p].discount /\ row.granted = page[p].granted
          /\ row.terms = page[p].terms
          /\ row.pc = "placing" /\ row.refused = page[p].refused
      BY <1>0, <1>1 DEF PageRow
    <3>2. page[p].pc \in {"open", "placing", "left"} /\ page[p].pc # "left" /\ page[p].pc # "placing"
      BY <1>1 DEF Submit, Loading, PageRow
    <3>3. page[p].refused \in Nat
      BY <1>1 DEF PageRow
    <3>4. row.tries = row.refused + 1
      BY <1>0, <1>1, <1>6, <3>1, <3>2, <3>3 DEF PageOK
    <3>5. page'[q] = row
      BY <1>7, <2>2
    <3>6. PageOK(q)'
      BY <2>1, <2>2, <3>1, <3>4, <3>5 DEF PageOK
    <3>7. row.tries >= page[q].tries
      BY <1>0, <1>1, <1>6, <2>2
    <3> QED BY <3>5, <3>6, <3>7
  <2>3. CASE q # p
    <3>1. page'[q] = page[q]
      BY <1>7, <2>3
    <3> QED BY <2>1, <3>1 DEF PageOK
  <2> QED BY <2>2, <2>3
<1>10. RowOK(p, new)'
  <2>0. 0 \in Reductions(p)
    BY <1>1, CartIsTyped
  <2>1. RowOK(p, new)
    BY <1>1, <1>3, <1>4, <2>0 DEF RowOK, PageOK
  <2> QED BY <1>8, <2>1, RowStays
<1>11. placement[p][n].redeemed = FALSE
  <2>1. placement[p][n].pc = "none"
    BY <1>0, <1>1, <1>2 DEF CheckoutInv, RowsOK, CheckoutTypeOK, PlacementRow
  <2>2. placement[p][n].redeemed \in BOOLEAN
    BY <1>1, <1>2 DEF CheckoutTypeOK, PlacementRow
  <2> QED BY <1>2, <2>1, <2>2 DEF CheckoutInv, RowsOK, RowOK
<1>12. LimitInv'
  BY <1>2, <1>4, <1>5, <1>11, LimitKept
<1>13. n <= page'[p].tries
  BY <1>2, <1>6, <1>7
<1>14. promo' \in Promo /\ irregular' \in BOOLEAN
  BY <1>1, <1>5 DEF CheckoutTypeOK
<1> QED BY <1>2, <1>4, <1>5, <1>7, <1>8, <1>9, <1>10, <1>12, <1>13, <1>14, PlacementStep

LEMMA CreateInv ==
    ASSUME CheckoutInv, NEW p \in Pages, NEW n \in Try(p), Create(p, n) PROVE CheckoutInv'
<1> DEFINE old == placement[p][n]
           next == IF old.asked THEN "dispatched" ELSE "pricing"
<1>0. PICK new : new = [old EXCEPT !.pc = next, !.total = Dispatched(page[p].cart)]
  OBVIOUS
<1>1. /\ CheckoutTypeOK /\ old \in PlacementRow /\ old.pc = "sent" /\ RowOK(p, old)
      /\ n <= page[p].tries
  BY DEF CheckoutInv, CheckoutTypeOK, RowsOK, Create, Steps
<1>2. Dispatched(page[p].cart) \in Nat
  BY <1>1, CartIsTyped DEF Dispatched
<1>3. Moves(p, n, new) /\ UNCHANGED <<promo, page, irregular>>
  BY <1>0 DEF Create, Steps, Moves
<1>4. /\ new \in PlacementRow /\ new.pc = next /\ new.total = Dispatched(page[p].cart)
      /\ new.asked = old.asked /\ new.shown = old.shown /\ new.discount = old.discount
      /\ new.redeemed = old.redeemed /\ new.quoted = old.quoted /\ new.terms = old.terms
      /\ new.repriced = old.repriced
  BY <1>0, <1>1, <1>2 DEF PlacementRow
<1>5. RowOK(p, new)
  BY <1>1, <1>4 DEF RowOK
<1>6. SameCart(p)
  BY <1>3 DEF SameCart
<1>7. RowOK(p, new)'
  BY <1>5, <1>6, RowStays
<1>8. LimitInv'
  BY <1>3, <1>4, LimitKept
<1> QED BY <1>1, <1>3, <1>4, <1>6, <1>7, <1>8, PageUnchanged, PlacementStep DEF CheckoutTypeOK

LEMMA SetTotalInv ==
    ASSUME CheckoutInv, NEW p \in Pages, NEW n \in Try(p), SetTotal(p, n) PROVE CheckoutInv'
<1> DEFINE old == placement[p][n]
           charge == Charge(old.total, page[p].tip, old.discount)
<1>0. PICK new : new = [old EXCEPT !.pc = "done", !.total = charge]
  OBVIOUS
<1>1. /\ CheckoutTypeOK /\ old \in PlacementRow /\ old.pc = "pricing" /\ RowOK(p, old)
      /\ n <= page[p].tries
  BY DEF CheckoutInv, CheckoutTypeOK, RowsOK, SetTotal, Steps
<1>2. old.total = Dispatched(page[p].cart) /\ old.discount \in Reductions(p)
  BY <1>1 DEF RowOK
<1>3. charge = Quoted(p, old.discount) /\ charge \in Nat
  BY <1>1, <1>2, QuotedIsNat
<1>5. Moves(p, n, new) /\ UNCHANGED <<promo, page, irregular>>
  BY <1>0 DEF SetTotal, Steps, Moves
<1> HIDE DEF charge
<1>6. /\ new \in PlacementRow /\ new.pc = "done" /\ new.total = charge
      /\ new.asked = old.asked /\ new.shown = old.shown /\ new.discount = old.discount
      /\ new.redeemed = old.redeemed /\ new.quoted = old.quoted /\ new.terms = old.terms
      /\ new.repriced = old.repriced
  BY <1>0, <1>1, <1>3 DEF PlacementRow
<1>7. RowOK(p, new)
  BY <1>1, <1>3, <1>6 DEF RowOK
<1>8. SameCart(p)
  BY <1>5 DEF SameCart
<1>9. RowOK(p, new)'
  BY <1>7, <1>8, RowStays
<1>10. LimitInv'
  BY <1>5, <1>6, LimitKept
<1> QED BY <1>1, <1>5, <1>6, <1>8, <1>9, <1>10, PageUnchanged, PlacementStep DEF CheckoutTypeOK

LEMMA PlacementFailsInv ==
    ASSUME CheckoutInv, NEW p \in Pages, NEW n \in Try(p), PlacementFails(p, n)
    PROVE  CheckoutInv'
<1> DEFINE old == placement[p][n]
           end == IF old.pc = "sent" THEN "lost" ELSE "broken"
<1>0. PICK new : new = [old EXCEPT !.pc = end]
  OBVIOUS
<1>1. /\ CheckoutTypeOK /\ old \in PlacementRow /\ RowOK(p, old)
      /\ old.pc \in {"sent", "dispatched", "counting", "pricing"} /\ n <= page[p].tries
  BY DEF CheckoutInv, CheckoutTypeOK, RowsOK, PlacementFails
<1>2. Moves(p, n, new) /\ UNCHANGED <<promo, page, irregular>>
  BY <1>0, <1>1 DEF PlacementFails, Moves
<1>3. /\ new \in PlacementRow /\ new.pc \in {"lost", "broken"} /\ new.total = old.total
      /\ new.asked = old.asked /\ new.shown = old.shown /\ new.discount = old.discount
      /\ new.redeemed = old.redeemed /\ new.quoted = old.quoted /\ new.terms = old.terms
      /\ new.repriced = old.repriced
  BY <1>0, <1>1 DEF PlacementRow
<1>4. RowOK(p, new)
  BY <1>1, <1>3 DEF RowOK
<1>5. SameCart(p)
  BY <1>2 DEF SameCart
<1>6. RowOK(p, new)'
  BY <1>4, <1>5, RowStays
<1>7. LimitInv'
  BY <1>2, <1>3, LimitKept
<1> QED BY <1>1, <1>2, <1>3, <1>5, <1>6, <1>7, PageUnchanged, PlacementStep DEF CheckoutTypeOK

LEMMA EvaluatePromoInv ==
    ASSUME CheckoutInv, NEW p \in Pages, NEW n \in Try(p), EvaluatePromo(p, n)
    PROVE  CheckoutInv'
<1> DEFINE old == placement[p][n]
           valid == Valid(promo, Subtotal(page[p].cart))
<1> DEFINE worth == Discount(promo, Subtotal(page[p].cart), Fee(page[p].cart))
<1>0. PICK new : new = [old EXCEPT !.pc = IF valid THEN "counting" ELSE "pricing",
                          !.seen = promo.used, !.repriced = Terms(promo) # old.terms,
                          !.discount = IF valid THEN worth ELSE 0]
  OBVIOUS
<1>1. /\ CheckoutTypeOK /\ promo \in Promo /\ old \in PlacementRow /\ old.pc = "dispatched"
      /\ RowOK(p, old) /\ n <= page[p].tries
  BY DEF CheckoutInv, CheckoutTypeOK, RowsOK, EvaluatePromo, Steps
<1>2. /\ worth = Worth(p, Terms(promo)) /\ worth \in Reductions(p) /\ worth \in Nat
      /\ 0 \in Reductions(p) /\ promo.used \in Nat /\ promo.limit \in Nat
  <2>1. Terms(promo) \in CodeTerms /\ worth = Worth(p, Terms(promo))
    BY <1>1, TermsDecide DEF Worth
  <2> HIDE DEF worth
  <2> QED BY <1>1, <2>1, CartIsTyped DEF Promo
<1>3. /\ Moves(p, n, new) /\ UNCHANGED <<promo, page>>
      /\ irregular' = (irregular \/ (valid /\ Evaluating # {}))
  BY <1>0 DEF EvaluatePromo, Steps, Moves
<1>4. /\ new \in PlacementRow /\ new.pc = (IF valid THEN "counting" ELSE "pricing")
      /\ new.total = old.total /\ new.asked = old.asked /\ new.shown = old.shown
      /\ new.discount = (IF valid THEN worth ELSE 0)
      /\ new.seen = promo.used /\ new.redeemed = old.redeemed /\ new.quoted = old.quoted
      /\ new.terms = old.terms /\ new.repriced = (Terms(promo) # old.terms)
  BY <1>0, <1>1, <1>2 DEF PlacementRow
<1> HIDE DEF worth, valid
<1>5. RowOK(p, new)
  BY <1>1, <1>2, <1>4 DEF RowOK
<1>6. SameCart(p)
  BY <1>3 DEF SameCart
<1>7. RowOK(p, new)'
  BY <1>5, <1>6, RowStays
<1>8. /\ placement'[p][n] = new
      /\ \A q \in Pages : \A m \in Try(q) : <<q, m>> # <<p, n>> => placement'[q][m] = placement[q][m]
  BY <1>1, <1>3, <1>4, MovedRow
<1>9. Redeemed' = Redeemed
  <2>1. \A q \in Tries : placement'[q[1]][q[2]].redeemed = placement[q[1]][q[2]].redeemed
    BY <1>4, <1>8, TriesArePairs
  <2> QED BY <2>1, Zenon DEF Redeemed
<1>10. ASSUME ~irregular' PROVE Alone'
  <2>1. Alone
    BY <1>3, <1>10 DEF CheckoutInv, LimitInv
  <2>2. Cardinality(Redeemed') <= promo'.used /\ Cardinality(Redeemed') <= promo'.limit
    BY <1>3, <1>9, <2>1 DEF Alone
  <2>3. ASSUME valid, NEW q \in Pages, NEW m \in Try(q), placement[q][m].pc = "counting" PROVE FALSE
    BY <1>3, <1>10, <2>3, TriesArePairs DEF Evaluating
  <2>4. valid => promo.used < promo.limit
    BY DEF Valid, LimitLeft, valid
  <2>5. ASSUME NEW q \in Pages, NEW m \in Try(q), placement'[q][m].pc = "counting"
        PROVE  /\ placement'[q][m].seen = promo'.used /\ promo'.used < promo'.limit
               /\ \A r \in Pages : \A l \in Try(r) :
                    placement'[r][l].pc = "counting" => r = q /\ l = m
    <3> HIDE DEF valid
    <3>1. CASE valid
      <4>1. \A r \in Pages : \A l \in Try(r) : placement'[r][l].pc = "counting" => r = p /\ l = n
        BY <1>8, <2>3, <3>1
      <4> QED BY <1>3, <1>4, <1>8, <2>4, <2>5, <3>1, <4>1
    <3>2. CASE ~valid
      <4>1. \A r \in Pages : \A l \in Try(r) :
              placement'[r][l].pc = "counting" => placement'[r][l] = placement[r][l]
        BY <1>4, <1>8, <3>2
      <4> QED BY <1>3, <2>1, <2>5, <4>1 DEF Alone
    <3> QED BY <3>1, <3>2
  <2> QED BY <2>2, <2>5 DEF Alone
<1>11. LimitInv' /\ irregular' \in BOOLEAN
  BY <1>1, <1>3, <1>9, <1>10 DEF LimitInv, CheckoutInv, CheckoutTypeOK
<1> QED BY <1>1, <1>3, <1>4, <1>6, <1>7, <1>11, PageUnchanged, PlacementStep DEF CheckoutTypeOK

LEMMA CountRedemptionInv ==
    ASSUME CheckoutInv, NEW p \in Pages, NEW n \in Try(p), CountRedemption(p, n)
    PROVE  CheckoutInv'
<1> DEFINE old == placement[p][n]
<1>0. PICK new : new = [old EXCEPT !.pc = "pricing", !.redeemed = TRUE]
  OBVIOUS
<1>1. /\ CheckoutTypeOK /\ promo \in Promo /\ old \in PlacementRow /\ old.pc = "counting"
      /\ RowOK(p, old) /\ n <= page[p].tries
  BY DEF CheckoutInv, CheckoutTypeOK, RowsOK, CountRedemption, Steps
<1>2. /\ Moves(p, n, new) /\ promo' = [promo EXCEPT !.used = old.seen + 1]
      /\ UNCHANGED <<page, irregular>>
  BY <1>0 DEF CountRedemption, Steps, Moves
<1>3. /\ new \in PlacementRow /\ new.pc = "pricing" /\ new.total = old.total
      /\ new.asked = old.asked /\ new.shown = old.shown /\ new.discount = old.discount
      /\ new.redeemed = TRUE /\ new.quoted = old.quoted /\ new.terms = old.terms
      /\ new.repriced = old.repriced
  BY <1>0, <1>1 DEF PlacementRow
<1>4. old.seen \in Nat /\ old.seen + 1 \in Nat
  BY <1>1 DEF PlacementRow
<1>5. /\ promo' \in Promo /\ promo'.used = old.seen + 1 /\ promo'.limit = promo.limit
  BY <1>1, <1>2, <1>4 DEF Promo
<1>6. RowOK(p, new)
  BY <1>1, <1>3 DEF RowOK
<1>7. SameCart(p)
  BY <1>2 DEF SameCart
<1>8. RowOK(p, new)'
  BY <1>5, <1>6, <1>7, RowStays
<1>9. /\ placement'[p][n] = new
      /\ \A q \in Pages : \A m \in Try(q) : <<q, m>> # <<p, n>> => placement'[q][m] = placement[q][m]
  BY <1>1, <1>2, <1>3, MovedRow
<1>10. Redeemed' = Redeemed \cup {<<p, n>>}
  <2>1. \A q \in Tries : placement'[q[1]][q[2]].redeemed
                           <=> (placement[q[1]][q[2]].redeemed \/ q = <<p, n>>)
    BY <1>3, <1>9, TriesArePairs
  <2>2. <<p, n>> \in Tries
    BY TriesArePairs
  <2> QED BY <2>1, <2>2 DEF Redeemed
<1>11. IsFiniteSet(Redeemed) /\ Cardinality(Redeemed) \in Nat
  BY FS_CardinalityType DEF CheckoutInv, LimitInv
<1>12. IsFiniteSet(Redeemed') /\ Cardinality(Redeemed') \in Nat
       /\ Cardinality(Redeemed') <= Cardinality(Redeemed) + 1
  <2> DEFINE more == Redeemed \cup {<<p, n>>}
  <2>1. IsFiniteSet(more) /\ Cardinality(more) =
          IF <<p, n>> \in Redeemed THEN Cardinality(Redeemed) ELSE Cardinality(Redeemed) + 1
    BY <1>11, FS_AddElement
  <2>2. Cardinality(more) \in Nat /\ Cardinality(more) <= Cardinality(Redeemed) + 1
    BY <1>11, <2>1
  <2> QED BY <1>10, <2>1, <2>2
<1>13. ASSUME ~irregular' PROVE Alone'
  <2>1. Alone
    BY <1>2, <1>13 DEF CheckoutInv, LimitInv
  <2>2. old.seen = promo.used /\ promo.used < promo.limit /\ Cardinality(Redeemed) <= promo.used
    BY <1>1, <2>1 DEF Alone
  <2>3. promo.used \in Nat /\ promo.limit \in Nat
    BY <1>1 DEF Promo
  <2>4. Cardinality(Redeemed') <= promo'.used /\ Cardinality(Redeemed') <= promo'.limit
    BY <1>5, <1>11, <1>12, <2>2, <2>3
  <2>5. ASSUME NEW q \in Pages, NEW m \in Try(q), placement'[q][m].pc = "counting" PROVE FALSE
    <3>1. placement'[q][m] = placement[q][m] /\ <<q, m>> # <<p, n>>
      BY <1>3, <1>9, <2>5
    <3> QED BY <1>1, <2>1, <2>5, <3>1 DEF Alone
  <2> QED BY <2>4, <2>5 DEF Alone
<1>14. LimitInv' /\ irregular' \in BOOLEAN
  BY <1>1, <1>2, <1>12, <1>13 DEF LimitInv, CheckoutTypeOK
<1> QED BY <1>1, <1>2, <1>3, <1>5, <1>7, <1>8, <1>14, PageUnchanged, PlacementStep DEF CheckoutTypeOK

-----------------------------------------------------------------------------
(* The theorems.                                                            *)

LEMMA NextInv == CheckoutInv /\ [CheckoutNext]_checkoutVars => CheckoutInv'
<1> SUFFICES ASSUME CheckoutInv, [CheckoutNext]_checkoutVars PROVE CheckoutInv'
  OBVIOUS
<1>1. ASSUME NEW p \in Pages, OnPage(p) PROVE CheckoutInv'
  BY <1>1, OnPageInv, SubmitInv DEF OnPage
<1>2. ASSUME NEW q \in Tries, Placing(q[1], q[2]) PROVE CheckoutInv'
  <2>1. q[1] \in Pages /\ q[2] \in Try(q[1])
    BY TriesArePairs
  <2> QED BY <1>2, <2>1, CreateInv, EvaluatePromoInv, CountRedemptionInv, SetTotalInv,
             PlacementFailsInv DEF Placing
<1>3. CASE UpdatePromo
  BY <1>3, UpdatePromoInv
<1>4. CASE UNCHANGED checkoutVars
  <2>1. promo' = promo /\ page' = page /\ placement' = placement /\ irregular' = irregular
    BY <1>4 DEF checkoutVars
  <2>2. promo' \in Promo /\ page' \in [Pages -> PageRow] /\ irregular' \in BOOLEAN
    BY <2>1 DEF CheckoutInv, CheckoutTypeOK
  <2>3. LimitInv'
    <3>1. promo.limit \in Nat
      BY DEF CheckoutInv, CheckoutTypeOK, Promo
    <3> QED BY <2>1, <2>2, <3>1, LimitStays
  <2> QED BY <2>1, <2>2, <2>3, PageUnchanged, PageStep
<1> QED BY <1>1, <1>2, <1>3, <1>4 DEF CheckoutNext

LEMMA Invariance == CheckoutSpec => []CheckoutInv
BY InitInv, NextInv, PTL DEF CheckoutSpec

\* The state of the checkout stays in its type, amounts that are charged never
\* negative among them (CheckoutPage, createOrder).
THEOREM CheckoutTyped == CheckoutSpec => []CheckoutTypeOK
<1>1. CheckoutInv => CheckoutTypeOK
  BY DEF CheckoutInv
<1> QED BY Invariance, <1>1, PTL

\* For every price, weight, tip and promo code, and whatever an admin makes of the code
\* meanwhile, an order is charged the quote of its cart less what the code is worth when
\* it is placed; after a quote was shown that is the shown total or the full quote as long
\* as the terms of the code stay, and without a code exactly what was shown (quoteOrder,
\* createOrder).
THEOREM ChargesMatchQuotes == CheckoutSpec => []ChargedAsQuoted
<1>1. CheckoutInv => ChargedAsQuoted
  <2> SUFFICES ASSUME CheckoutInv, NEW q \in Tries, placement[q[1]][q[2]].pc = "done"
               PROVE  LET x == placement[q[1]][q[2]]
                          Less(discount) == Quote(page[q[1]].cart, page[q[1]].tip, discount)
                      IN /\ x.total = Less(x.discount)
                         /\ x.quoted /\ ~x.repriced => x.total \in {x.shown, Less(0)}
                         /\ x.quoted /\ ~x.asked => x.total = x.shown
    BY DEF ChargedAsQuoted
  <2>1. RowOK(q[1], placement[q[1]][q[2]])
    BY TriesArePairs DEF CheckoutInv, RowsOK
  <2> QED BY <2>1 DEF RowOK, Quoted
<1> QED BY Invariance, <1>1, PTL

\* However many customers compete for a code, its limit is passed only by
\* placements that evaluated it at the same time, or after an admin lowered it or
\* changed the count (evaluatePromo, createOrder).
THEOREM LimitIsPassedTogether == CheckoutSpec => []LimitHoldsAlone
<1>1. CheckoutInv => LimitHoldsAlone
  BY DEF CheckoutInv, LimitInv, Alone, LimitHoldsAlone
<1> QED BY Invariance, <1>1, PTL

\* However often the button is pressed, the orders of one cart are at most one
\* more than the failures that its page reported (handleSubmit, createOrder).
THEOREM DuplicatesAreReported == CheckoutSpec => []NoSilentDuplicate
<1>1. CheckoutInv => NoSilentDuplicate
  <2> SUFFICES ASSUME CheckoutInv, NEW p \in Pages
               PROVE  Cardinality(Placed(p))
                        <= page[p].refused + (IF page[p].pc = "open" THEN 0 ELSE 1)
    BY DEF NoSilentDuplicate
  <2>1. page[p].tries \in Nat /\ PageOK(p)
    BY DEF CheckoutInv, CheckoutTypeOK, PageRow
  <2>2. Placed(p) \subseteq 1..page[p].tries
    <3> SUFFICES ASSUME NEW n \in Placed(p) PROVE n \in 1..page[p].tries
      OBVIOUS
    <3>1. n \in Try(p) /\ placement[p][n].pc # "none"
      BY DEF Placed
    <3>2. n <= page[p].tries
      BY <3>1 DEF CheckoutInv, RowsOK
    <3>3. n \in Nat /\ n >= 1
      BY <3>1, CheckoutConstants DEF Try
    <3> QED BY <2>1, <3>2, <3>3
  <2>3. IsFiniteSet(1..page[p].tries) /\ Cardinality(1..page[p].tries) = page[p].tries
    <3>1. \A t \in Int : /\ IsFiniteSet(1..t)
                         /\ Cardinality(1..t) = IF 1 > t THEN 0 ELSE t - 1 + 1
      BY FS_Interval
    <3>2. \A t \in Nat : IsFiniteSet(1..t) /\ Cardinality(1..t) = t
      BY <3>1
    <3> QED BY <2>1, <3>2
  <2>4. Cardinality(Placed(p)) <= page[p].tries
    BY <2>2, <2>3, FS_Subset
  <2> QED BY <2>1, <2>4 DEF PageOK
<1> QED BY Invariance, <1>1, PTL
================================================================================
