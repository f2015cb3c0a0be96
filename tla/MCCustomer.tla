------------------------------ MODULE MCCustomer ------------------------------
(***************************************************************************)
(* What customers do, checked in one run on instances of several shapes:   *)
(* two customers who compete for one code with the same cart, one customer *)
(* with every cart and code at the limits of the price list, two payment   *)
(* requests with one key and every fault, one request at a time with two   *)
(* keys and no fault, and one attempt on its way to the ledger.            *)
(***************************************************************************)
EXTENDS MCPaymentAttempts, MCCheckout, PaymentReceipts

VARIABLE focus  \* what this behaviour is about

\* Every price is asked for once, and the code may become any other until then.
Alone == INSTANCE Checkout WITH Pages <- {p1}, MaxTries <- [p \in {p1} |-> 1]
NoLateEdit == placement[p1][1].pc \in {"done", "lost", "broken"} => UNCHANGED promo

\* Where customers compete, an admin raises or lowers the code's limit or sets its count,
\* and all of them saw a quote.
Contest == INSTANCE Checkout WITH Promos <- {Contested, [Contested EXCEPT !.limit = 2]}
AllQuoted == \A q \in Tries : LET x == placement'[q[1]][q[2]] IN x.pc # "none" => x.quoted

\* The finance events of the attempts.
Facts == {"captured", "failed"} \X Keys
Captures == [k \in Keys |-> <<"captured", k>>]
Failures == [k \in Keys |-> <<"failed", k>>]

First == CHOOSE r \in Requests : TRUE
Faultless == INSTANCE PaymentReceipts WITH Faults <- {}, Requests <- {First}
Few == INSTANCE PaymentReceipts WITH Requests <- {First}

\* The keys are alike: the first one used is always the same.
FirstKey == CHOOSE k \in Keys : TRUE
Uses(r, k) == request'[r].pc # "idle" /\ request'[r].key = k
OneKey == \A r \in Requests, k \in Keys \ {FirstKey} : ~Uses(r, k)
FirstKeyFirst == created' = <<>> => OneKey
OneResolver == Cardinality({v \in Resolvers : resolver'[v].pc # "idle"}) <= 1
\* Three of the four notices that there may be of two attempts.
ThreeNotices == Cardinality(notices') <= 3

\* The delivery succeeds at once, its lease does not run out, every fact has a rule,
\* and nothing is replayed.
Delivered == /\ \A w \in Workers : worker'[w].pc \in InTry \union {"idle", "leased"}
             /\ \A l \in LeaseIds : ~lease'[l].overdue
             /\ UNCHANGED <<item, replayer, rules>>

CustomerSymmetry == Permutations(Resolvers)
Checkouts == {"contest", "prices"}
Payments == {"requests", "outcomes"}

CustomerView ==
    <<focus, CASE focus \in Checkouts -> checkoutVars
               [] focus \in Payments  -> View
               [] OTHER               -> <<View, pipelineVars>> >>

CustomerInit ==
    /\ ReceiptInit /\ CheckoutInit
    /\ rules = Events
    /\ focus \in Checkouts \union Payments \union {"receipts"}
    /\ focus # "prices" => promo = Contested
    /\ \A p \in Pages : focus # "prices" \/ p # p1 => page[p].cart = Load /\ page[p].tip = 200

CustomerNext ==
    /\ UNCHANGED focus
    /\ \/ focus = "contest" /\ Contest!CheckoutNext /\ AllQuoted /\ UNCHANGED receiptVars
       \/ focus = "prices" /\ Alone!CheckoutNext /\ NoLateEdit /\ UNCHANGED receiptVars
       \/ focus = "requests" /\ PaymentStep /\ OneKey /\ UNCHANGED checkoutVars
       \/ focus = "outcomes" /\ Faultless!PaymentStep /\ FirstKeyFirst /\ ThreeNotices
                             /\ UNCHANGED checkoutVars
       \/ focus = "receipts" /\ Few!ReceiptNext /\ OneKey /\ OneResolver /\ Delivered
                             /\ UNCHANGED checkoutVars

CustomerSpec == CustomerInit /\ [][CustomerNext]_<<receiptVars, checkoutVars, focus>>
-----------------------------------------------------------------------------
\* Payments, pages and placed orders have the types they should, and no order is
\* charged less than nothing.
CustomerTypeOK == PaymentTypeOK /\ CheckoutTypeOK
=============================================================================
