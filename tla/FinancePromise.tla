--------------------------- MODULE FinancePromise ---------------------------
(***************************************************************************)
(* What the finance pipeline promises about one business fact (a captured  *)
(* payment, a completed order): once the transaction that caused it has    *)
(* committed, the fact enters the event engine at most once and reaches    *)
(* the ledger at most once, in this order, and none of it is ever undone.  *)
(* The outbox, the leases, the workers, the retries and the crashes of the *)
(* implementation are not visible here.                                    *)
(***************************************************************************)
CONSTANT Events

VARIABLES committed,  \* facts whose causing transaction has committed
          ingested,   \* facts the event engine has durably accepted
          posted      \* facts with their accounting effect in the ledger

vars == <<committed, ingested, posted>>

Init == committed = {} /\ ingested = {} /\ posted = {}

Commit(e) == /\ e \notin committed
             /\ committed' = committed \union {e}
             /\ UNCHANGED <<ingested, posted>>

Ingest(e) == /\ e \in committed \ ingested
             /\ ingested' = ingested \union {e}
             /\ UNCHANGED <<committed, posted>>

Post(e) == /\ e \in ingested \ posted
           /\ posted' = posted \union {e}
           /\ UNCHANGED <<committed, ingested>>

Next == \E e \in Events : Commit(e) \/ Ingest(e) \/ Post(e)

Spec == Init /\ [][Next]_vars
=============================================================================
