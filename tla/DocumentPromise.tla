--------------------------- MODULE DocumentPromise ---------------------------
(***************************************************************************)
(* What the back office promises about one money document (a vendor        *)
(* settlement, a rider's payout, a procurement run, a treasury transfer, a *)
(* tax transaction): it is drafted, opened and closed in this order, it is *)
(* paid towards its amount only while it is open and never beyond it, and  *)
(* accounting is told of the opening and of the closing, once each and in  *)
(* the same step.  Requests, row locks and rollbacks are not visible here. *)
(***************************************************************************)
EXTENDS Integers

CONSTANTS Docs, Amounts

VARIABLES stage,     \* none, draft, open, closed
          owed,      \* what has to be paid before it can be closed
          paid,      \* what has been paid of it
          announced  \* what accounting has been told: opened, closed

vars == <<stage, owed, paid, announced>>

Init == /\ stage = [d \in Docs |-> "none"]
        /\ owed = [d \in Docs |-> 0]
        /\ paid = [d \in Docs |-> 0]
        /\ announced = [d \in Docs |-> {}]

Draft(d) == /\ stage[d] = "none"
            /\ stage' = [stage EXCEPT ![d] = "draft"]
            /\ \E amount \in Amounts : owed' = [owed EXCEPT ![d] = amount]
            /\ UNCHANGED <<paid, announced>>

\* A tax transaction is recognised when it is written: it has no draft.
Recognise(d) == /\ stage[d] = "none"
                /\ stage' = [stage EXCEPT ![d] = "open"]
                /\ \E amount \in Amounts : owed' = [owed EXCEPT ![d] = amount]
                /\ announced' = [announced EXCEPT ![d] = {"opened"}]
                /\ UNCHANGED paid

Open(d) == /\ stage[d] = "draft"
           /\ stage' = [stage EXCEPT ![d] = "open"]
           /\ announced' = [announced EXCEPT ![d] = {"opened"}]
           /\ UNCHANGED <<owed, paid>>

PayPart(d) == /\ stage[d] = "open"
              /\ \E sum \in Amounts : /\ paid[d] < sum /\ sum < owed[d]
                                  /\ paid' = [paid EXCEPT ![d] = sum]
              /\ UNCHANGED <<stage, owed, announced>>

\* The last payment of what is owed, or the end of a document on which nothing is.
Close(d) == /\ stage[d] = "open"
            /\ stage' = [stage EXCEPT ![d] = "closed"]
            /\ paid' = [paid EXCEPT ![d] = owed[d]]
            /\ announced' = [announced EXCEPT ![d] = {"opened", "closed"}]
            /\ UNCHANGED owed

Next == \E d \in Docs : Draft(d) \/ Recognise(d) \/ Open(d) \/ PayPart(d) \/ Close(d)

Spec == Init /\ [][Next]_vars
=============================================================================
