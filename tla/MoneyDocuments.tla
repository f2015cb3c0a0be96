--------------------------- MODULE MoneyDocuments ----------------------------
(***************************************************************************)
(* The documents by which the back office moves money: vendor settlements, *)
(* riders' payouts, procurement runs, treasury transfers and tax           *)
(* transactions, with the finance events each of them announces.           *)
(*                                                                         *)
(* Every operation on a document is one transaction that locks the row     *)
(* with SELECT ... FOR UPDATE, decides on what it read, updates the row    *)
(* and enqueues its outbox events.  A request therefore has two steps:     *)
(* Lock, and the commit of its operation; a refusal, an error or the death *)
(* of the process rolls the transaction back.  Requests are sent again     *)
(* freely: nothing identifies a repeated one.                              *)
(***************************************************************************)
EXTENDS Integers

CONSTANTS Docs,
          Requests,   \* transactions running at the same time
          Users,
          MaxAmount,  \* bound on the amounts of a document
          Nil

ASSUME DocumentConstants ==
    /\ MaxAmount \in Nat \ {0}
    /\ Nil \notin Users /\ Nil \notin Docs
    \* Nil is no payload and no kind of document.
    /\ Nil \notin [due : Nat, paid : Nat]
    /\ Nil \notin {"settlement", "payout", "procurement", "transfer", "tax"}

VARIABLES doc,      \* the rows
          event,    \* the outbox events of each document, by their key
          request,
          received  \* what was paid on each document, as its payer knows it

docVars == <<doc, event, request, received>>

Payable == {"settlement", "payout"}
Kind == Payable \union {"procurement", "transfer", "tax"}
Open == {"approved", "partially_paid", "recognized"}
Closed == {"paid", "completed", "reversed"}
Operation == {"approve", "pay", "complete", "reverse"}
EventKey == {"opened", "closed", "refund_due"}
Amount == 0..MaxAmount

\* due is amount_due_minor, amount_spent_minor, amount_minor or tax_amount_minor;
\* refund is amount_refundable_minor.
NoDoc == [kind |-> Nil, status |-> "none", due |-> 0, paid |-> 0, refund |-> 0,
          maker |-> Nil, checker |-> Nil]
NoRequest == [op |-> "idle", doc |-> Nil, user |-> Nil, amount |-> 0, seen |-> NoDoc]

DocInit ==
    /\ doc = [d \in Docs |-> NoDoc]
    /\ event = [d \in Docs |-> [k \in EventKey |-> Nil]]
    /\ request = [h \in Requests |-> NoRequest]
    /\ received = [d \in Docs |-> 0]

-----------------------------------------------------------------------------
(* Outbox events.                                                           *)

SettlementPayload(row) == [due |-> row.due, paid |-> row.paid]
PayoutPayload(row) == [due |-> row.due, paid |-> row.paid]
ProcurementPayload(row) == [due |-> row.due, paid |-> row.refund]
TransferPayload(row) == [due |-> row.due, paid |-> 0]
TaxPayload(row) == [due |-> row.due, paid |-> 0]

Payload(row) ==
    CASE row.kind = "settlement"  -> SettlementPayload(row)
      [] row.kind = "payout"      -> PayoutPayload(row)
      [] row.kind = "procurement" -> ProcurementPayload(row)
      [] row.kind = "transfer"    -> TransferPayload(row)
      [] row.kind = "tax"         -> TaxPayload(row)

\* enqueueFinanceOutboxEvent: a key that is taken by another payload throws, and
\* the transaction rolls back; the same payload is found and kept.
Enqueues(d, keys, row) ==
    /\ \A k \in keys : event[d][k] \in {Nil, Payload(row)}
    /\ event' = [event EXCEPT ![d] =
                   [k \in EventKey |-> IF k \in keys THEN Payload(row) ELSE event[d][k]]]

-----------------------------------------------------------------------------
(* Creation.                                                                *)

Draft(kind, due) == [kind |-> kind, status |-> "draft", due |-> due, paid |-> 0, refund |-> 0,
                     maker |-> Nil, checker |-> Nil]

\* The calculators: what was sold or earned, less what is held back.  A negative
\* amount is refused.
SettlementDue(gross, deductions) == gross - deductions
PayoutDue(gross, deductions) == gross - deductions
Larger(a, b) == IF a > b THEN a ELSE b
\* Mutation: what was overspent is refunded as a negative amount.
Difference(authorized, spent) == authorized - spent
Refundable(authorized, spent) == Larger(0, authorized - spent)

CreateSettlement(d) ==
    /\ doc[d].status = "none"
    /\ \E gross, deductions \in Amount :
         /\ SettlementDue(gross, deductions) >= 0
         /\ doc' = [doc EXCEPT ![d] = Draft("settlement", SettlementDue(gross, deductions))]
    /\ UNCHANGED <<event, request, received>>

CreatePayout(d) ==
    /\ doc[d].status = "none"
    /\ \E gross, deductions \in Amount :
         /\ PayoutDue(gross, deductions) >= 0
         /\ doc' = [doc EXCEPT ![d] = Draft("payout", PayoutDue(gross, deductions))]
    /\ UNCHANGED <<event, request, received>>

CreateProcurement(d) ==
    /\ doc[d].status = "none"
    /\ \E spent, authorized \in Amount :
         doc' = [doc EXCEPT ![d] = [Draft("procurement", spent)
                                      EXCEPT !.refund = Refundable(authorized, spent)]]
    /\ UNCHANGED <<event, request, received>>

CreateTransfer(d) ==
    /\ doc[d].status = "none"
    /\ \E user \in Users, amount \in Amount \ {0} :
         doc' = [doc EXCEPT ![d] = [Draft("transfer", amount) EXCEPT !.maker = user]]
    /\ UNCHANGED <<event, request, received>>

\* A tax transaction is announced in the transaction that creates it.
CreateTax(d) ==
    /\ doc[d].status = "none"
    /\ \E amount \in Amount :
         LET row == [Draft("tax", amount) EXCEPT !.status = "recognized"]
         IN /\ doc' = [doc EXCEPT ![d] = row]
            /\ Enqueues(d, {"opened"}, row)
    /\ UNCHANGED <<request, received>>

-----------------------------------------------------------------------------
(* Locked transactions.                                                     *)

\* Mutation: the row is read without a lock.
NeverLocked(d) == FALSE
RowLocked(d) == \E h \in Requests : request[h].op # "idle" /\ request[h].doc = d

\* What a request brings with it; the validators refuse an amount below one.
Calls == [op : {"approve"}, user : Users, amount : {0}]
           \union [op : {"pay"}, user : {Nil}, amount : Amount \ {0}]
           \union [op : {"complete", "reverse"}, user : {Nil}, amount : {0}]

Lock(h) ==
    /\ request[h].op = "idle"
    /\ \E d \in Docs, call \in Calls :
         /\ doc[d].status # "none" /\ ~RowLocked(d)
         /\ request' = [request EXCEPT ![h] =
              [op |-> call.op, doc |-> d, user |-> call.user, amount |-> call.amount,
               seen |-> doc[d]]]
    /\ UNCHANGED <<doc, event, received>>

\* The row and the events are committed, and the caller is answered.
Commit(h, row, keys) ==
    /\ doc' = [doc EXCEPT ![request[h].doc] = row]
    /\ Enqueues(request[h].doc, keys, row)
    /\ request' = [request EXCEPT ![h] = NoRequest]

Asked(h, op, kind) == request[h].op = op /\ request[h].seen.kind = kind
Approved(h) == [request[h].seen EXCEPT !.status = "approved", !.checker = request[h].user]

ApproveSettlement(h) ==
    /\ Asked(h, "approve", "settlement") /\ request[h].seen.status = "draft"
    /\ Commit(h, Approved(h), {"opened"})
    /\ UNCHANGED received

ApprovePayout(h) ==
    /\ Asked(h, "approve", "payout") /\ request[h].seen.status = "draft"
    /\ Commit(h, Approved(h), {"opened"})
    /\ UNCHANGED received

ApproveProcurement(h) ==
    /\ Asked(h, "approve", "procurement") /\ request[h].seen.status = "draft"
    /\ Commit(h, Approved(h), {"opened"})
    /\ UNCHANGED received

\* Mutation: the requester is compared only when somebody else has approved.
ComparesChecker(h) == request[h].seen.checker # request[h].user
\* The requester may not approve.
IsChecker(h) == request[h].seen.maker # request[h].user

ApproveTransfer(h) ==
    /\ Asked(h, "approve", "transfer") /\ IsChecker(h)
    /\ request[h].seen.status = "draft"
    /\ Commit(h, Approved(h), {"opened"})
    /\ UNCHANGED received

WithinDue(h) ==
    /\ request[h].amount > 0
    /\ request[h].seen.paid + request[h].amount <= request[h].seen.due

PaidRow(h) ==
    LET nextPaid == request[h].seen.paid + request[h].amount
    IN [request[h].seen EXCEPT !.paid = nextPaid,
          !.status = IF nextPaid = request[h].seen.due THEN "paid" ELSE "partially_paid"]

\* Mutation: every payment is announced as the final one.
AnnounceAlways(h) == {"closed"}
PaymentEvents(h) == IF PaidRow(h).status = "paid" THEN {"closed"} ELSE {}

Receive(h) ==
    received' = [received EXCEPT ![request[h].doc] = @ + request[h].amount]

PaySettlement(h) ==
    /\ Asked(h, "pay", "settlement") /\ WithinDue(h)
    /\ request[h].seen.status \in {"approved", "partially_paid"}
    /\ Commit(h, PaidRow(h), PaymentEvents(h)) /\ Receive(h)

PayPayout(h) ==
    /\ Asked(h, "pay", "payout") /\ WithinDue(h)
    /\ request[h].seen.status \in {"approved", "partially_paid"}
    /\ Commit(h, PaidRow(h), PaymentEvents(h)) /\ Receive(h)

CompleteProcurement(h) ==
    /\ Asked(h, "complete", "procurement") /\ request[h].seen.status = "approved"
    /\ Commit(h, [request[h].seen EXCEPT !.status = "completed"],
              {"closed"} \union IF request[h].seen.refund > 0 THEN {"refund_due"} ELSE {})
    /\ UNCHANGED received

\* Mutation: a draft can be completed.
CompleteDraft(h) ==
    /\ Asked(h, "complete", "transfer") /\ request[h].seen.status # "completed"
    /\ Commit(h, [request[h].seen EXCEPT !.status = "completed"], {"closed"})
    /\ UNCHANGED received

CompleteTransfer(h) ==
    /\ Asked(h, "complete", "transfer") /\ request[h].seen.status = "approved"
    /\ Commit(h, [request[h].seen EXCEPT !.status = "completed"], {"closed"})
    /\ UNCHANGED received

ReverseTax(h) ==
    /\ Asked(h, "reverse", "tax") /\ request[h].seen.status # "reversed"
    /\ Commit(h, [request[h].seen EXCEPT !.status = "reversed"], {"closed"})
    /\ UNCHANGED received

\* A refusal, a repeated approval or completion that returns what is there, an
\* error or the death of the process: the row and the outbox stay as they are.
RollBack(h) ==
    /\ request[h].op # "idle"
    /\ request' = [request EXCEPT ![h] = NoRequest]
    /\ UNCHANGED <<doc, event, received>>

-----------------------------------------------------------------------------
Create(d) == \/ CreateSettlement(d) \/ CreatePayout(d) \/ CreateProcurement(d)
             \/ CreateTransfer(d) \/ CreateTax(d)
Operate(h) == \/ ApproveSettlement(h) \/ ApprovePayout(h) \/ ApproveProcurement(h)
              \/ ApproveTransfer(h) \/ PaySettlement(h) \/ PayPayout(h)
              \/ CompleteProcurement(h) \/ CompleteTransfer(h) \/ ReverseTax(h)

DocNext == \/ \E d \in Docs : Create(d)
           \/ \E h \in Requests : Lock(h) \/ Operate(h) \/ RollBack(h)

DocSpec == DocInit /\ [][DocNext]_docVars
-----------------------------------------------------------------------------
Row == [kind : Kind \union {Nil}, status : {"none", "draft"} \union Open \union Closed,
        due : Nat, paid : Nat, refund : Nat, maker : Users \union {Nil},
        checker : Users \union {Nil}]
EventPayload == [due : Nat, paid : Nat]

DocTypeOK ==
    /\ doc \in [Docs -> Row]
    /\ event \in [Docs -> [EventKey -> EventPayload \union {Nil}]]
    /\ request \in [Requests -> [op : Operation \union {"idle"}, doc : Docs \union {Nil},
                                 user : Users \union {Nil}, amount : Nat, seen : Row]]
    /\ received \in [Docs -> Nat]

\* No payment is lost and none goes over the amount due, however many are marked
\* at once (markVendorSettlementPaid, markMzayaPayoutPaid): what the row says was
\* paid is the sum of the payments that were accepted.
PaymentsAddUp ==
    \A d \in Docs : doc[d].paid = received[d] /\ received[d] <= doc[d].due

\* The state of a document and what accounting was told of it never disagree,
\* whatever requests race, fail or are repeated: it hears of an opened document,
\* of a closed one with its final amounts, and of a refund exactly when one is due.
Announced(d) ==
    /\ event[d]["opened"] # Nil <=> doc[d].status \in Open \union Closed
    /\ event[d]["closed"] # Nil <=> doc[d].status \in Closed
    /\ event[d]["closed"] # Nil => event[d]["closed"] = Payload(doc[d])
    /\ event[d]["refund_due"] # Nil <=> doc[d].status = "completed" /\ doc[d].refund > 0
StatusIsAnnounced == \A d \in Docs : Announced(d)

\* MAKER_CHECKER_VIOLATION: no transfer goes on to its bank on the word of the
\* person who asked for it, also when approval and completion are repeated.
MakerIsNotChecker ==
    \A d \in Docs : doc[d].kind = "transfer" /\ doc[d].status \in Open \union Closed =>
                      doc[d].checker \in Users \ {doc[d].maker}

\* The refinement: the documents implement DocumentPromise.
Stage(row) == CASE row.status \in {"none", "draft"} -> row.status
                [] row.status \in Open -> "open"
                [] row.status \in Closed -> "closed"
Owed(row) == IF row.kind \in Payable THEN row.due ELSE 0
Told(events) == {k \in {"opened", "closed"} : events[k] # Nil}
Promise == INSTANCE DocumentPromise WITH Amounts <- Amount,
             stage <- [d \in Docs |-> Stage(doc[d])],
             owed <- [d \in Docs |-> Owed(doc[d])],
             paid <- [d \in Docs |-> doc[d].paid],
             announced <- [d \in Docs |-> Told(event[d])]

\* Whatever the requests do, a document is drafted, opened, paid within its
\* amount and closed in this order, and each change is announced as it happens.
DocPromiseKept == Promise!Spec
=============================================================================
