------------------------ MODULE MoneyDocumentsProofs -------------------------
(***************************************************************************)
(* The back office's documents, for every number of documents, users and   *)
(* concurrent requests and every bound on the amounts: payments add up,    *)
(* accounting is told what happened, a transfer has two people, and the    *)
(* documents implement DocumentPromise.  The last part is about the        *)
(* reconciliation of these documents.                                      *)
(***************************************************************************)
EXTENDS DocumentReconciliation, TLAPS

\* What the status of a row says of its kind and amounts: only payables are paid
\* in parts, only procurement is refunded, and a row is paid when its due is.
Fits(row) ==
    /\ row \in Row /\ row.due \in Amount
    /\ row.status = "none" => row = NoDoc
    /\ row.status # "none" => row.kind \in Kind
    /\ row.kind \in Payable => row.status \in {"draft", "approved", "partially_paid", "paid"}
    /\ row.kind = "tax" => row.status \in {"recognized", "reversed"}
    /\ row.kind \in {"procurement", "transfer"} => row.status \in {"draft", "approved", "completed"}
    /\ row.kind \notin Payable => row.paid = 0
    /\ row.kind # "procurement" => row.refund = 0
    /\ row.status \in {"draft", "approved"} => row.paid = 0
    /\ row.status = "partially_paid" => row.paid < row.due
    /\ row.status = "paid" => row.paid = row.due
    /\ row.kind = "transfer" => row.maker \in Users
    /\ row.kind = "transfer" /\ row.status \in Open \union Closed =>
          row.checker \in Users \ {row.maker}

\* A document, its events and the payments that were accepted for it agree.
DocOK(d) == /\ Fits(doc[d])
            /\ doc[d].paid = received[d] /\ received[d] <= doc[d].due
            /\ Announced(d)

\* A request holds the lock of its document alone, and the row is as it read it.
Locks == \A g, h \in Requests : request[g].op # "idle" /\ request[h].op # "idle" /\ g # h =>
            request[g].doc # request[h].doc
Seen == \A h \in Requests : request[h].op # "idle" =>
            /\ request[h].doc \in Docs
            /\ request[h].seen = doc[request[h].doc]
            /\ request[h].seen.status # "none"
            /\ request[h].op = "approve" => request[h].user \in Users

DocInv == DocTypeOK /\ Locks /\ Seen /\ \A d \in Docs : DocOK(d)

RequestRow == [op : Operation \union {"idle"}, doc : Docs \union {Nil},
               user : Users \union {Nil}, amount : Nat, seen : Row]

-----------------------------------------------------------------------------
(* Rows and payloads.                                                       *)

LEMMA KindsDiffer == Nil \notin Kind
BY DocumentConstants DEF Kind, Payable

LEMMA NoDocFits == NoDoc \in Row /\ Fits(NoDoc)
<1>1. NoDoc \in Row
  BY DEF NoDoc, Row
<1>2. NoDoc.due \in Amount
  BY DocumentConstants DEF NoDoc, Amount
<1> QED
  BY <1>1, <1>2, KindsDiffer DEF NoDoc, Fits, Open, Closed, Kind, Payable

LEMMA PayloadType ==
    ASSUME NEW row \in Row, row.kind \in Kind
    PROVE  Payload(row) \in EventPayload /\ Payload(row) # Nil
<1>1. Payload(row) \in EventPayload
  BY DEF Row, Kind, Payable, EventPayload, Payload, SettlementPayload, PayoutPayload,
         ProcurementPayload, TransferPayload, TaxPayload
<1>2. Nil \notin EventPayload
  BY DocumentConstants DEF EventPayload
<1> QED BY <1>1, <1>2

LEMMA InitInv == DocInit => DocInv
<1> SUFFICES ASSUME DocInit PROVE DocInv
  OBVIOUS
<1>1. DocTypeOK
  BY NoDocFits DEF DocInit, DocTypeOK, NoRequest, Operation
<1>2. Locks /\ Seen
  BY DEF DocInit, Locks, Seen, NoRequest
<1>3. ASSUME NEW d \in Docs PROVE DocOK(d)
  <2>1. doc[d] = NoDoc /\ received[d] = 0 /\ \A k \in EventKey : event[d][k] = Nil
    BY DEF DocInit
  <2>2. Announced(d)
    BY <2>1 DEF Announced, NoDoc, EventKey, Open, Closed
  <2> QED BY <2>1, <2>2, NoDocFits DEF DocOK, NoDoc
<1> QED BY <1>1, <1>2, <1>3 DEF DocInv

-----------------------------------------------------------------------------
(* The two ways in which a row changes.                                     *)

\* Enqueueing keeps the type of the outbox, leaves other documents and keys alone
\* and leaves the payload under each key.
LEMMA EnqueuesType ==
    ASSUME DocTypeOK, NEW d \in Docs, NEW keys, NEW row \in Row, row.kind \in Kind,
           Enqueues(d, keys, row)
    PROVE  /\ event' \in [Docs -> [EventKey -> EventPayload \union {Nil}]]
           /\ \A e \in Docs \ {d} : event'[e] = event[e]
           /\ \A k \in EventKey : event'[d][k] = IF k \in keys THEN Payload(row) ELSE event[d][k]
<1> DEFINE f == [k \in EventKey |-> IF k \in keys THEN Payload(row) ELSE event[d][k]]
<1>1. event \in [Docs -> [EventKey -> EventPayload \union {Nil}]]
  BY DEF DocTypeOK
<1>2. f \in [EventKey -> EventPayload \union {Nil}]
  BY <1>1, PayloadType
<1>3. event' = [event EXCEPT ![d] = f]
  BY DEF Enqueues
<1> HIDE DEF f
<1>4. /\ event' \in [Docs -> [EventKey -> EventPayload \union {Nil}]]
      /\ event'[d] = f
      /\ \A e \in Docs \ {d} : event'[e] = event[e]
  BY <1>1, <1>2, <1>3
<1> USE DEF f
<1> QED BY <1>4

\* A document is written for the first time: nobody holds its lock.
LEMMA CreationInv ==
    ASSUME DocInv, NEW d \in Docs, doc[d].status = "none",
           NEW row \in Row, doc' = [doc EXCEPT ![d] = row],
           UNCHANGED request, UNCHANGED received,
           event' \in [Docs -> [EventKey -> EventPayload \union {Nil}]],
           \A e \in Docs \ {d} : event'[e] = event[e],
           DocOK(d)'
    PROVE  DocInv'
<1>1. DocTypeOK'
  BY DEF DocInv, DocTypeOK
<1>2. \A e \in Docs \ {d} : doc'[e] = doc[e]
  BY DEF DocInv, DocTypeOK
<1>3. Locks'
  BY DEF DocInv, Locks
<1>4. Seen'
  BY <1>2 DEF DocInv, Seen
<1>5. ASSUME NEW e \in Docs, e # d PROVE DocOK(e)'
  BY <1>2, <1>5 DEF DocInv, DocOK, Announced
<1> QED BY <1>1, <1>3, <1>4, <1>5 DEF DocInv

\* A commit writes the row that its request holds, and frees it.
LEMMA CommitInv ==
    ASSUME DocInv, NEW h \in Requests, NEW d \in Docs, d = request[h].doc,
           NEW row \in Row, NEW keys, request[h].op # "idle", row.kind \in Kind,
           Commit(h, row, keys),
           received' \in [Docs -> Nat],
           \A e \in Docs \ {d} : received'[e] = received[e],
           DocOK(d)'
    PROVE  DocInv'
<1>1. /\ event' \in [Docs -> [EventKey -> EventPayload \union {Nil}]]
      /\ \A e \in Docs \ {d} : event'[e] = event[e]
  BY EnqueuesType DEF DocInv, Commit
<1>2. doc' = [doc EXCEPT ![d] = row] /\ doc \in [Docs -> Row]
  BY DEF Commit, DocInv, DocTypeOK
<1>3. request' = [request EXCEPT ![h] = NoRequest] /\ request \in [Requests -> RequestRow]
  BY DEF Commit, DocInv, DocTypeOK, RequestRow
<1>4. NoRequest \in RequestRow
  BY NoDocFits DEF NoRequest, RequestRow
<1>5. /\ doc' \in [Docs -> Row] /\ \A e \in Docs \ {d} : doc'[e] = doc[e]
      /\ request' \in [Requests -> RequestRow]
      /\ request'[h].op = "idle"
      /\ \A g \in Requests \ {h} : request'[g] = request[g]
  BY <1>2, <1>3, <1>4 DEF NoRequest
<1>6. DocTypeOK'
  BY <1>1, <1>5 DEF DocTypeOK, RequestRow
<1>7. Locks'
  BY <1>5 DEF DocInv, Locks
<1>8. \A g \in Requests \ {h} : request[g].op # "idle" => request[g].doc # d
  BY DEF DocInv, Locks
<1>9. Seen'
  BY <1>5, <1>8 DEF DocInv, Seen
<1>10. ASSUME NEW e \in Docs, e # d PROVE DocOK(e)'
  BY <1>1, <1>5, <1>10 DEF DocInv, DocOK, Announced
<1> QED BY <1>6, <1>7, <1>9, <1>10 DEF DocInv

-----------------------------------------------------------------------------
(* Creation.                                                                *)

LEMMA NothingBefore ==
    ASSUME DocInv, NEW d \in Docs, doc[d].status = "none"
    PROVE  received[d] = 0 /\ \A k \in EventKey : event[d][k] = Nil
<1>1. DocOK(d) /\ doc[d] = NoDoc
  BY DEF DocInv, DocOK, Fits
<1> QED BY <1>1 DEF DocOK, Announced, NoDoc, EventKey, Open, Closed

LEMMA DraftInv ==
    ASSUME DocInv, NEW d \in Docs, doc[d].status = "none",
           NEW row, Fits(row), row.status = "draft", row.paid = 0,
           doc' = [doc EXCEPT ![d] = row], UNCHANGED <<event, request, received>>
    PROVE  DocInv'
<1>1. row \in Row
  BY DEF Fits
<1>2. doc'[d] = row
  BY DEF DocInv, DocTypeOK
<1>3. Announced(d)'
  BY <1>2, NothingBefore DEF Announced, EventKey, Open, Closed
<1>4. DocOK(d)'
  BY <1>1, <1>2, <1>3, NothingBefore DEF DocOK, Fits, Amount, Row
<1> QED BY <1>1, <1>4, CreationInv DEF DocInv, DocTypeOK

LEMMA DraftFits ==
    ASSUME NEW kind \in Kind \ {"tax", "transfer"}, NEW due \in Amount
    PROVE  /\ Fits(Draft(kind, due))
           /\ Draft(kind, due).status = "draft" /\ Draft(kind, due).paid = 0
<1> DEFINE row == Draft(kind, due)
<1>1. /\ row \in Row /\ row.kind = kind /\ row.status = "draft" /\ row.due = due
      /\ row.paid = 0 /\ row.refund = 0
  BY DEF Draft, Row, Amount, Kind, Payable
<1> HIDE DEF row
<1>2. Fits(row)
  BY <1>1 DEF Fits, Open, Closed, Kind, Payable
<1> QED BY <1>1, <1>2 DEF row

LEMMA CreateInv ==
    ASSUME DocInv, NEW d \in Docs, Create(d)
    PROVE  DocInv'
<1>1. CASE CreateSettlement(d)
  <2>1. PICK gross, deductions \in Amount :
          /\ SettlementDue(gross, deductions) >= 0
          /\ doc' = [doc EXCEPT ![d] = Draft("settlement", SettlementDue(gross, deductions))]
    BY <1>1 DEF CreateSettlement
  <2>2. SettlementDue(gross, deductions) \in Amount
    BY <2>1, DocumentConstants DEF SettlementDue, Amount
  <2> QED BY <1>1, <2>1, <2>2, DraftFits, DraftInv DEF CreateSettlement, Kind, Payable
<1>2. CASE CreatePayout(d)
  <2>1. PICK gross, deductions \in Amount :
          /\ PayoutDue(gross, deductions) >= 0
          /\ doc' = [doc EXCEPT ![d] = Draft("payout", PayoutDue(gross, deductions))]
    BY <1>2 DEF CreatePayout
  <2>2. PayoutDue(gross, deductions) \in Amount
    BY <2>1, DocumentConstants DEF PayoutDue, Amount
  <2> QED BY <1>2, <2>1, <2>2, DraftFits, DraftInv DEF CreatePayout, Kind, Payable
<1>3. CASE CreateProcurement(d)
  <2>1. PICK spent, authorized \in Amount :
          doc' = [doc EXCEPT ![d] = [Draft("procurement", spent)
                                       EXCEPT !.refund = Refundable(authorized, spent)]]
    BY <1>3 DEF CreateProcurement
  <2> DEFINE row == [Draft("procurement", spent) EXCEPT !.refund = Refundable(authorized, spent)]
  <2>2. Refundable(authorized, spent) \in Nat
    BY DEF Refundable, Larger, Amount
  <2>3. /\ row \in Row /\ row.kind = "procurement" /\ row.status = "draft"
        /\ row.due = spent /\ row.paid = 0
    BY <2>2 DEF Draft, Row, Amount, Kind, Payable
  <2>4. doc' = [doc EXCEPT ![d] = row]
    BY <2>1
  <2> HIDE DEF row
  <2>5. Fits(row)
    BY <2>3 DEF Fits, Open, Closed, Kind, Payable
  <2> QED BY <1>3, <2>3, <2>4, <2>5, DraftInv DEF CreateProcurement
<1>4. CASE CreateTransfer(d)
  <2>1. PICK user \in Users, amount \in Amount \ {0} :
          doc' = [doc EXCEPT ![d] = [Draft("transfer", amount) EXCEPT !.maker = user]]
    BY <1>4 DEF CreateTransfer
  <2> DEFINE row == [Draft("transfer", amount) EXCEPT !.maker = user]
  <2>2. /\ row \in Row /\ row.kind = "transfer" /\ row.status = "draft" /\ row.maker = user
        /\ row.due = amount /\ row.paid = 0 /\ row.refund = 0
    BY DEF Draft, Row, Amount, Kind, Payable
  <2>3. doc' = [doc EXCEPT ![d] = row]
    BY <2>1
  <2> HIDE DEF row
  <2>4. Fits(row)
    BY <2>2 DEF Fits, Open, Closed, Kind, Payable
  <2> QED BY <1>4, <2>2, <2>3, <2>4, DraftInv DEF CreateTransfer
<1>5. CASE CreateTax(d)
  <2>1. PICK amount \in Amount :
          /\ doc' = [doc EXCEPT ![d] = [Draft("tax", amount) EXCEPT !.status = "recognized"]]
          /\ Enqueues(d, {"opened"}, [Draft("tax", amount) EXCEPT !.status = "recognized"])
    BY <1>5 DEF CreateTax
  <2> DEFINE row == [Draft("tax", amount) EXCEPT !.status = "recognized"]
  <2>2. /\ row \in Row /\ row.kind = "tax" /\ row.status = "recognized"
        /\ row.due = amount /\ row.paid = 0 /\ row.refund = 0
    BY DEF Draft, Row, Amount, Kind, Payable, Open
  <2>3. doc' = [doc EXCEPT ![d] = row] /\ Enqueues(d, {"opened"}, row)
    BY <2>1
  <2> HIDE DEF row
  <2>4. Fits(row) /\ row.kind \in Kind
    BY <2>2 DEF Fits, Open, Closed, Kind, Payable
  <2>5. /\ event' \in [Docs -> [EventKey -> EventPayload \union {Nil}]]
        /\ \A e \in Docs \ {d} : event'[e] = event[e]
        /\ \A k \in EventKey : event'[d][k] = IF k \in {"opened"} THEN Payload(row) ELSE event[d][k]
    BY <2>2, <2>3, <2>4, EnqueuesType DEF DocInv
  <2>6. doc'[d] = row /\ doc[d].status = "none" /\ received' = received
    BY <1>5, <2>3 DEF CreateTax, DocInv, DocTypeOK
  <2>7. Announced(d)'
    BY <2>2, <2>4, <2>5, <2>6, NothingBefore, PayloadType DEF Announced, EventKey, Open, Closed
  <2>8. DocOK(d)'
    BY <2>2, <2>4, <2>6, <2>7, NothingBefore, DocumentConstants DEF DocOK, Amount
  <2> QED BY <1>5, <2>2, <2>3, <2>5, <2>6, <2>8, CreationInv DEF CreateTax
<1> QED BY <1>1, <1>2, <1>3, <1>4, <1>5 DEF Create

-----------------------------------------------------------------------------
(* Locked transactions.                                                     *)

LEMMA LockInv ==
    ASSUME DocInv, NEW h \in Requests, Lock(h)
    PROVE  DocInv'
<1>1. PICK d \in Docs, call \in Calls :
        /\ doc[d].status # "none" /\ ~RowLocked(d)
        /\ request' = [request EXCEPT ![h] =
             [op |-> call.op, doc |-> d, user |-> call.user, amount |-> call.amount,
              seen |-> doc[d]]]
  BY DEF Lock
<1> DEFINE r == [op |-> call.op, doc |-> d, user |-> call.user, amount |-> call.amount,
                 seen |-> doc[d]]
<1>2. /\ call.op \in Operation /\ call.user \in Users \union {Nil} /\ call.amount \in Nat
      /\ call.op = "approve" => call.user \in Users
  BY DEF Calls, Operation, Amount
<1>3. /\ r \in RequestRow /\ r.op # "idle" /\ r.doc = d /\ r.seen = doc[d]
      /\ r.op = "approve" => r.user \in Users
  BY <1>2 DEF RequestRow, DocInv, DocTypeOK, Operation
<1>4. request' = [request EXCEPT ![h] = r] /\ request \in [Requests -> RequestRow]
  BY <1>1 DEF DocInv, DocTypeOK, RequestRow
<1> HIDE DEF r
<1>5. /\ request' \in [Requests -> RequestRow] /\ request'[h] = r
      /\ \A g \in Requests \ {h} : request'[g] = request[g]
  BY <1>3, <1>4
<1>6. DocTypeOK'
  BY <1>5 DEF Lock, DocInv, DocTypeOK, RequestRow
<1>7. Locks'
  BY <1>1, <1>3, <1>5 DEF DocInv, Locks, RowLocked
<1>8. Seen'
  BY <1>1, <1>3, <1>5 DEF Lock, DocInv, Seen
<1>9. \A e \in Docs : DocOK(e)'
  BY DEF Lock, DocInv, DocOK, Announced
<1> QED BY <1>6, <1>7, <1>8, <1>9 DEF DocInv

LEMMA RollBackInv ==
    ASSUME DocInv, NEW h \in Requests, RollBack(h)
    PROVE  DocInv'
<1>1. NoRequest \in RequestRow /\ request \in [Requests -> RequestRow]
  BY NoDocFits DEF NoRequest, RequestRow, DocInv, DocTypeOK
<1>2. /\ request' \in [Requests -> RequestRow] /\ request'[h].op = "idle"
      /\ \A g \in Requests \ {h} : request'[g] = request[g]
  BY <1>1 DEF RollBack, NoRequest
<1>3. DocTypeOK'
  BY <1>2 DEF RollBack, DocInv, DocTypeOK, RequestRow
<1>4. Locks' /\ Seen'
  BY <1>2 DEF RollBack, DocInv, Locks, Seen
<1>5. \A e \in Docs : DocOK(e)'
  BY DEF RollBack, DocInv, DocOK, Announced
<1> QED BY <1>3, <1>4, <1>5 DEF DocInv

\* What a request that holds a lock knows.
LEMMA HeldRow ==
    ASSUME DocInv, NEW h \in Requests, request[h].op # "idle"
    PROVE  /\ request[h].doc \in Docs /\ DocOK(request[h].doc)
           /\ request[h].seen = doc[request[h].doc] /\ request[h].seen \in Row
           /\ request[h].seen.kind \in Kind /\ Fits(request[h].seen)
           /\ request[h].op = "approve" => request[h].user \in Users
           /\ request[h].amount \in Nat
<1>1. /\ request[h].doc \in Docs /\ request[h].seen = doc[request[h].doc]
      /\ request[h].seen.status # "none"
      /\ request[h].op = "approve" => request[h].user \in Users
  BY DEF DocInv, Seen
<1>2. request[h].amount \in Nat
  BY DEF DocInv, DocTypeOK
<1>3. DocOK(request[h].doc)
  BY <1>1 DEF DocInv
<1> QED BY <1>1, <1>2, <1>3 DEF DocOK, Fits

\* What a commit writes on its document.
LEMMA CommitWrites ==
    ASSUME DocInv, NEW h \in Requests, NEW d \in Docs, d = request[h].doc,
           NEW row \in Row, NEW keys, row.kind \in Kind, Commit(h, row, keys)
    PROVE  /\ doc'[d] = row
           /\ \A k \in EventKey : event'[d][k] = IF k \in keys THEN Payload(row) ELSE event[d][k]
<1>1. doc' = [doc EXCEPT ![d] = row] /\ doc \in [Docs -> Row]
  BY DEF Commit, DocInv, DocTypeOK
<1> QED BY <1>1, EnqueuesType DEF Commit, DocInv

\* An approval keeps the amounts and announces the opening.
LEMMA ApproveInv ==
    ASSUME DocInv, NEW h \in Requests, request[h].op = "approve",
           request[h].seen.kind \in Kind \ {"tax"}, request[h].seen.status = "draft",
           request[h].seen.kind = "transfer" => IsChecker(h),
           Commit(h, Approved(h), {"opened"}), UNCHANGED received
    PROVE  DocInv'
<1>1. PICK d \in Docs : d = request[h].doc
  BY HeldRow
<1> DEFINE row == Approved(h)
           seen == request[h].seen
<1>2. /\ DocOK(d) /\ seen = doc[d] /\ seen \in Row /\ Fits(seen)
      /\ request[h].user \in Users
  BY <1>1, HeldRow
<1>3. /\ row \in Row /\ row.kind = seen.kind /\ row.status = "approved"
      /\ row.checker = request[h].user /\ row.maker = seen.maker
      /\ row.due = seen.due /\ row.paid = seen.paid /\ row.refund = seen.refund
  BY <1>2 DEF Approved, Row, Open
<1>4. Commit(h, row, {"opened"})
  OBVIOUS
<1>5. seen.kind = "transfer" => row.checker # row.maker
  BY <1>3 DEF IsChecker
<1> HIDE DEF row
<1>6. Fits(row) /\ row.kind \in Kind
  BY <1>2, <1>3, <1>5 DEF Fits, Kind, Payable, Open, Closed
<1>7. /\ doc'[d] = row
      /\ \A k \in EventKey : event'[d][k] = IF k \in {"opened"} THEN Payload(row) ELSE event[d][k]
  BY <1>1, <1>2, <1>3, <1>4, <1>6, CommitWrites
<1>8. Announced(d)'
  BY <1>2, <1>3, <1>6, <1>7, PayloadType DEF DocOK, Announced, EventKey, Open, Closed
<1>9. DocOK(d)'
  BY <1>2, <1>3, <1>6, <1>7, <1>8 DEF DocOK
<1> QED BY <1>1, <1>2, <1>3, <1>4, <1>6, <1>9, CommitInv DEF DocInv, DocTypeOK

\* A payment adds to what was paid, and announces the closing when it is the last.
LEMMA PayInv ==
    ASSUME DocInv, NEW h \in Requests, request[h].op = "pay",
           request[h].seen.kind \in Payable, WithinDue(h),
           request[h].seen.status \in {"approved", "partially_paid"},
           Commit(h, PaidRow(h), PaymentEvents(h)), Receive(h)
    PROVE  DocInv'
<1>1. PICK d \in Docs : d = request[h].doc
  BY HeldRow
<1> DEFINE row == PaidRow(h)
           seen == request[h].seen
           n == request[h].amount
<1>2. /\ DocOK(d) /\ seen = doc[d] /\ seen \in Row /\ Fits(seen) /\ n \in Nat
      /\ seen.due \in Nat /\ seen.paid \in Nat
  BY <1>1, HeldRow DEF Row
<1>3. seen.paid + n <= seen.due /\ n > 0
  BY DEF WithinDue
<1>4. /\ row \in Row /\ row.kind = seen.kind
      /\ row.status = IF seen.paid + n = seen.due THEN "paid" ELSE "partially_paid"
      /\ row.checker = seen.checker /\ row.maker = seen.maker
      /\ row.due = seen.due /\ row.paid = seen.paid + n /\ row.refund = seen.refund
  <2> DEFINE status == IF seen.paid + n = seen.due THEN "paid" ELSE "partially_paid"
             sum == seen.paid + n
  <2>1. row = [seen EXCEPT !.paid = sum, !.status = status]
    BY DEF PaidRow
  <2>2. sum \in Nat /\ status \in {"paid", "partially_paid"}
    BY <1>2
  <2> HIDE DEF sum, status, row
  <2>3. /\ row \in Row /\ row.kind = seen.kind /\ row.status = status /\ row.paid = sum
        /\ row.checker = seen.checker /\ row.maker = seen.maker
        /\ row.due = seen.due /\ row.refund = seen.refund
    BY <1>2, <2>1, <2>2 DEF Row, Open, Closed
  <2> QED BY <2>3 DEF sum, status
<1>5. Commit(h, row, PaymentEvents(h)) /\ PaymentEvents(h) = IF row.status = "paid" THEN {"closed"} ELSE {}
  BY DEF PaymentEvents
<1>6. /\ received' \in [Docs -> Nat] /\ received'[d] = received[d] + n
      /\ \A e \in Docs \ {d} : received'[e] = received[e]
  BY <1>1, <1>2 DEF Receive, DocInv, DocTypeOK
<1> HIDE DEF row
<1>7. Fits(row) /\ row.kind \in Kind
  BY <1>2, <1>3, <1>4 DEF Fits, Kind, Payable, Open, Closed
<1>8. /\ doc'[d] = row
      /\ \A k \in EventKey :
           event'[d][k] = IF k \in PaymentEvents(h) THEN Payload(row) ELSE event[d][k]
  BY <1>1, <1>2, <1>4, <1>5, <1>7, CommitWrites
<1>9. Announced(d)'
  <2>1. event'[d]["opened"] = event[d]["opened"] /\ event'[d]["refund_due"] = event[d]["refund_due"]
    BY <1>5, <1>8 DEF EventKey
  <2>2. event'[d]["closed"] = IF row.status = "paid" THEN Payload(row) ELSE event[d]["closed"]
    BY <1>5, <1>8 DEF EventKey
  <2>3. /\ event[d]["opened"] # Nil /\ event[d]["closed"] = Nil /\ event[d]["refund_due"] = Nil
    BY <1>2 DEF DocOK, Announced, Open, Closed
  <2> QED BY <1>4, <1>7, <1>8, <2>1, <2>2, <2>3, PayloadType DEF Announced, Open, Closed
<1>10. DocOK(d)'
  BY <1>2, <1>3, <1>4, <1>6, <1>7, <1>8, <1>9 DEF DocOK
<1> QED BY <1>1, <1>2, <1>4, <1>5, <1>6, <1>7, <1>10, CommitInv

\* The row of a document on which nothing is paid, when it is closed.
IsClosed(row, seen, status) ==
    /\ row.kind = seen.kind /\ row.status = status
    /\ row.checker = seen.checker /\ row.maker = seen.maker
    /\ row.due = seen.due /\ row.paid = seen.paid /\ row.refund = seen.refund

LEMMA ClosedRow ==
    ASSUME NEW seen \in Row, NEW status \in {"completed", "reversed"}
    PROVE  /\ [seen EXCEPT !.status = status] \in Row
           /\ IsClosed([seen EXCEPT !.status = status], seen, status)
BY DEF Row, Closed, IsClosed

\* A document on which nothing is paid is closed with the amounts it has.
LEMMA CloseInv ==
    ASSUME DocInv, NEW h \in Requests, request[h].op # "idle",
           request[h].seen.kind \in Kind \ Payable, request[h].seen.status \in Open,
           NEW status \in {"completed", "reversed"},
           status = "reversed" <=> request[h].seen.kind = "tax",
           NEW row \in Row, IsClosed(row, request[h].seen, status),
           NEW keys, Commit(h, row, keys), UNCHANGED received,
           "opened" \notin keys, "closed" \in keys,
           "refund_due" \in keys <=> status = "completed" /\ row.refund > 0
    PROVE  DocInv'
<1>1. PICK d \in Docs : d = request[h].doc
  BY HeldRow
<1> DEFINE seen == request[h].seen
<1>2. /\ DocOK(d) /\ seen = doc[d] /\ seen \in Row /\ Fits(seen)
  BY <1>1, HeldRow
<1>3. /\ row \in Row /\ row.kind = seen.kind /\ row.status = status
      /\ row.checker = seen.checker /\ row.maker = seen.maker
      /\ row.due = seen.due /\ row.paid = seen.paid /\ row.refund = seen.refund
  BY DEF IsClosed
<1>4. Fits(row) /\ row.kind \in Kind
  BY <1>2, <1>3 DEF Fits, Kind, Payable, Open, Closed
<1>5. /\ doc'[d] = row
      /\ \A k \in EventKey : event'[d][k] = IF k \in keys THEN Payload(row) ELSE event[d][k]
  BY <1>1, <1>2, <1>3, <1>4, CommitWrites
<1>6. Announced(d)'
  <2>1. event'[d]["opened"] = event[d]["opened"] /\ event'[d]["closed"] = Payload(row)
    BY <1>5 DEF EventKey
  <2>2. event'[d]["refund_due"] = IF row.status = "completed" /\ row.refund > 0
                                    THEN Payload(row) ELSE event[d]["refund_due"]
    BY <1>3, <1>5 DEF EventKey
  <2>3. event[d]["opened"] # Nil /\ event[d]["refund_due"] = Nil
    BY <1>2 DEF DocOK, Announced, Open, Closed
  <2> QED BY <1>3, <1>4, <1>5, <2>1, <2>2, <2>3, PayloadType DEF Announced, Open, Closed
<1>7. DocOK(d)'
  BY <1>2, <1>3, <1>4, <1>5, <1>6 DEF DocOK
<1> QED BY <1>1, <1>2, <1>3, <1>4, <1>7, CommitInv DEF DocInv, DocTypeOK

LEMMA OperateInv ==
    ASSUME DocInv, NEW h \in Requests, Operate(h)
    PROVE  DocInv'
<1>1. CASE ApproveSettlement(h)
  BY <1>1, ApproveInv DEF ApproveSettlement, Asked, Kind, Payable
<1>2. CASE ApprovePayout(h)
  BY <1>2, ApproveInv DEF ApprovePayout, Asked, Kind, Payable
<1>3. CASE ApproveProcurement(h)
  BY <1>3, ApproveInv DEF ApproveProcurement, Asked, Kind, Payable
<1>4. CASE ApproveTransfer(h)
  BY <1>4, ApproveInv DEF ApproveTransfer, Asked, Kind, Payable
<1>5. CASE PaySettlement(h)
  BY <1>5, PayInv DEF PaySettlement, Asked, Payable
<1>6. CASE PayPayout(h)
  BY <1>6, PayInv DEF PayPayout, Asked, Payable
<1>7. CASE CompleteProcurement(h)
  <2> DEFINE row == [request[h].seen EXCEPT !.status = "completed"]
             keys == {"closed"} \union IF request[h].seen.refund > 0 THEN {"refund_due"} ELSE {}
  <2>1. row \in Row /\ IsClosed(row, request[h].seen, "completed")
    BY <1>7, HeldRow, ClosedRow DEF CompleteProcurement, Asked
  <2>2. /\ Commit(h, row, keys) /\ UNCHANGED received
        /\ request[h].op # "idle" /\ request[h].seen.kind = "procurement"
        /\ request[h].seen.status = "approved"
    BY <1>7 DEF CompleteProcurement, Asked
  <2>3. /\ "opened" \notin keys /\ "closed" \in keys
        /\ "refund_due" \in keys <=> row.refund > 0
    BY <2>1 DEF IsClosed
  <2> HIDE DEF row, keys
  <2> QED BY <2>1, <2>2, <2>3, CloseInv DEF Kind, Payable, Open
<1>8. CASE CompleteTransfer(h)
  <2> DEFINE row == [request[h].seen EXCEPT !.status = "completed"]
  <2>1. row \in Row /\ IsClosed(row, request[h].seen, "completed") /\ Fits(request[h].seen)
    BY <1>8, HeldRow, ClosedRow DEF CompleteTransfer, Asked
  <2>2. /\ Commit(h, row, {"closed"}) /\ UNCHANGED received
        /\ request[h].op # "idle" /\ request[h].seen.kind = "transfer"
        /\ request[h].seen.status = "approved"
    BY <1>8 DEF CompleteTransfer, Asked
  <2>3. row.refund = 0
    BY <2>1, <2>2 DEF IsClosed, Fits
  <2> HIDE DEF row
  <2> QED BY <2>1, <2>2, <2>3, CloseInv DEF Kind, Payable, Open
<1>9. CASE ReverseTax(h)
  <2> DEFINE row == [request[h].seen EXCEPT !.status = "reversed"]
  <2>1. row \in Row /\ IsClosed(row, request[h].seen, "reversed") /\ Fits(request[h].seen)
    BY <1>9, HeldRow, ClosedRow DEF ReverseTax, Asked
  <2>2. /\ Commit(h, row, {"closed"}) /\ UNCHANGED received
        /\ request[h].op # "idle" /\ request[h].seen.kind = "tax"
        /\ request[h].seen.status # "reversed"
    BY <1>9 DEF ReverseTax, Asked
  <2>3. request[h].seen.status = "recognized"
    BY <2>1, <2>2 DEF Fits
  <2> HIDE DEF row
  <2> QED BY <2>1, <2>2, <2>3, CloseInv DEF Kind, Payable, Open
<1> QED BY <1>1, <1>2, <1>3, <1>4, <1>5, <1>6, <1>7, <1>8, <1>9 DEF Operate

LEMMA NextInv ==
    ASSUME DocInv, [DocNext]_docVars
    PROVE  DocInv'
<1>1. CASE UNCHANGED docVars
  BY <1>1 DEF docVars, DocInv, DocTypeOK, Locks, Seen, DocOK, Announced
<1>2. ASSUME NEW d \in Docs, Create(d) PROVE DocInv'
  BY <1>2, CreateInv
<1>3. ASSUME NEW h \in Requests, Lock(h) PROVE DocInv'
  BY <1>3, LockInv
<1>4. ASSUME NEW h \in Requests, Operate(h) PROVE DocInv'
  BY <1>4, OperateInv
<1>5. ASSUME NEW h \in Requests, RollBack(h) PROVE DocInv'
  BY <1>5, RollBackInv
<1> QED BY <1>1, <1>2, <1>3, <1>4, <1>5 DEF DocNext

LEMMA Invariance == DocSpec => []DocInv
<1>1. DocInv /\ [DocNext]_docVars => DocInv'
  BY NextInv
<1> QED BY InitInv, <1>1, PTL DEF DocSpec

\* Documents, events, requests and received payments have the types they should.
THEOREM TypeCorrect == DocSpec => []DocTypeOK
<1>1. DocInv => DocTypeOK
  BY DEF DocInv
<1> QED BY Invariance, <1>1, PTL

\* However many payments are marked at once, the row adds up those accepted and
\* none goes over the amount due.
THEOREM PaymentsAreKept == DocSpec => []PaymentsAddUp
<1>1. DocInv => PaymentsAddUp
  BY DEF DocInv, DocOK, PaymentsAddUp
<1> QED BY Invariance, <1>1, PTL

\* Accounting hears of the opening, the closing and the refund of a document
\* exactly when they happen, and of the closing with the amounts of the row.
THEOREM AccountingIsTold == DocSpec => []StatusIsAnnounced
<1>1. DocInv => StatusIsAnnounced
  BY DEF DocInv, DocOK, StatusIsAnnounced
<1> QED BY Invariance, <1>1, PTL

\* No transfer is approved or completed on the word of the one who asked for it.
THEOREM TwoPeople == DocSpec => []MakerIsNotChecker
<1>1. DocInv => MakerIsNotChecker
  BY DEF DocInv, DocOK, Fits, MakerIsNotChecker
<1> QED BY Invariance, <1>1, PTL

-----------------------------------------------------------------------------
(* The refinement.                                                          *)

LEMMA InitMaps ==
    DocInit => Promise!Init
<1> SUFFICES ASSUME DocInit PROVE Promise!Init
  OBVIOUS
<1>1. ASSUME NEW d \in Docs
      PROVE  Stage(doc[d]) = "none" /\ Owed(doc[d]) = 0 /\ doc[d].paid = 0
  BY DEF DocInit, NoDoc, Stage, Owed, Open, Closed, Payable
<1>2. ASSUME NEW d \in Docs PROVE Told(event[d]) = {}
  BY DEF DocInit, Told, EventKey
<1> QED BY <1>1, <1>2 DEF Promise!Init

\* What a step may do to a document.
Same(old, new) == new.kind = old.kind /\ new.due = old.due
MovesOn(old, new) ==
    \/ old.status = "none" /\ new.status = "draft"
    \/ old.status = "none" /\ new.status = "recognized"
    \/ Same(old, new) /\ old.status = "draft" /\ new.status = "approved"
    \/ /\ Same(old, new) /\ old.kind \in Payable /\ new.paid > old.paid
       /\ old.status \in {"approved", "partially_paid"}
       /\ new.status \in {"partially_paid", "paid"}
    \/ /\ Same(old, new) /\ old.kind \notin Payable /\ old.status \in Open
       /\ new.status \in {"completed", "reversed"}

\* Every step leaves the documents and events alone, or moves one document.
LEMMA CommitMoves ==
    ASSUME DocInv, NEW h \in Requests, request[h].op # "idle", NEW row \in Row, NEW keys,
           row.kind \in Kind, Commit(h, row, keys), MovesOn(request[h].seen, row)
    PROVE  \E d \in Docs : /\ MovesOn(doc[d], doc'[d])
                           /\ \A e \in Docs \ {d} : doc'[e] = doc[e] /\ event'[e] = event[e]
<1>1. PICK d \in Docs : d = request[h].doc /\ request[h].seen = doc[d]
  BY HeldRow
<1>2. doc' = [doc EXCEPT ![d] = row] /\ doc \in [Docs -> Row]
  BY <1>1 DEF Commit, DocInv, DocTypeOK
<1>3. \A e \in Docs \ {d} : event'[e] = event[e]
  BY <1>1, EnqueuesType DEF Commit, DocInv
<1> QED BY <1>1, <1>2, <1>3

LEMMA CreateMoves ==
    ASSUME DocInv, NEW d \in Docs, Create(d)
    PROVE  /\ doc[d].status = "none" /\ doc'[d].status \in {"draft", "recognized"}
           /\ \A e \in Docs \ {d} : doc'[e] = doc[e] /\ event'[e] = event[e]
<1> USE DEF DocInv, DocTypeOK
<1>1. CASE CreateSettlement(d)
  BY <1>1 DEF CreateSettlement, Draft
<1>2. CASE CreatePayout(d)
  BY <1>2 DEF CreatePayout, Draft
<1>3. CASE CreateProcurement(d)
  BY <1>3 DEF CreateProcurement, Draft
<1>4. CASE CreateTransfer(d)
  BY <1>4 DEF CreateTransfer, Draft
<1>5. CASE CreateTax(d)
  BY <1>5 DEF CreateTax, Draft, Enqueues
<1> QED BY <1>1, <1>2, <1>3, <1>4, <1>5 DEF Create

LEMMA ApprovalMoves ==
    ASSUME DocInv, NEW h \in Requests, request[h].op = "approve", request[h].seen.status = "draft"
    PROVE  /\ Approved(h) \in Row /\ Approved(h).kind \in Kind
           /\ MovesOn(request[h].seen, Approved(h))
<1>1. request[h].seen \in Row /\ request[h].seen.kind \in Kind /\ request[h].user \in Users
  BY HeldRow
<1> QED BY <1>1 DEF Approved, Row, MovesOn, Same, Open

LEMMA PaymentMoves ==
    ASSUME DocInv, NEW h \in Requests, request[h].op = "pay", request[h].seen.kind \in Payable,
           WithinDue(h), request[h].seen.status \in {"approved", "partially_paid"}
    PROVE  /\ PaidRow(h) \in Row /\ PaidRow(h).kind \in Kind
           /\ MovesOn(request[h].seen, PaidRow(h))
<1> DEFINE seen == request[h].seen
           sum == request[h].seen.paid + request[h].amount
           status == IF sum = seen.due THEN "paid" ELSE "partially_paid"
           row == PaidRow(h)
<1>1. seen \in Row /\ seen.kind \in Kind /\ request[h].amount \in Nat /\ seen.paid \in Nat
  BY HeldRow DEF Row
<1>2. row = [seen EXCEPT !.paid = sum, !.status = status]
  BY DEF PaidRow
<1>3. sum \in Nat /\ sum > seen.paid /\ status \in {"paid", "partially_paid"}
  BY <1>1 DEF WithinDue
<1> HIDE DEF sum, status, row
<1>4. /\ row \in Row /\ row.kind = seen.kind /\ row.due = seen.due
      /\ row.paid = sum /\ row.status = status
  BY <1>1, <1>2, <1>3 DEF Row, Open, Closed
<1>5. MovesOn(seen, row)
  BY <1>3, <1>4 DEF MovesOn, Same
<1> QED BY <1>1, <1>4, <1>5 DEF row

LEMMA ClosingMoves ==
    ASSUME NEW seen \in Row, seen.kind \in Kind \ Payable, seen.status \in Open,
           NEW status \in {"completed", "reversed"}
    PROVE  /\ [seen EXCEPT !.status = status] \in Row
           /\ [seen EXCEPT !.status = status].kind \in Kind
           /\ MovesOn(seen, [seen EXCEPT !.status = status])
BY DEF Row, Closed, MovesOn, Same

LEMMA StepMoves ==
    ASSUME DocInv, [DocNext]_docVars
    PROVE  \/ UNCHANGED <<doc, event>>
           \/ \E d \in Docs : /\ MovesOn(doc[d], doc'[d])
                              /\ \A e \in Docs \ {d} : doc'[e] = doc[e] /\ event'[e] = event[e]
<1>1. CASE UNCHANGED docVars
  BY <1>1 DEF docVars
<1>2. ASSUME NEW d \in Docs, Create(d) PROVE MovesOn(doc[d], doc'[d])
  BY <1>2, CreateMoves DEF MovesOn
<1>3. ASSUME NEW h \in Requests, Lock(h) \/ RollBack(h) PROVE UNCHANGED <<doc, event>>
  BY <1>3 DEF Lock, RollBack
<1>4. ASSUME NEW h \in Requests, Operate(h)
      PROVE \E d \in Docs : /\ MovesOn(doc[d], doc'[d])
                            /\ \A e \in Docs \ {d} : doc'[e] = doc[e] /\ event'[e] = event[e]
  <2>1. CASE ApproveSettlement(h)
    BY <2>1, ApprovalMoves, CommitMoves DEF ApproveSettlement, Asked
  <2>2. CASE ApprovePayout(h)
    BY <2>2, ApprovalMoves, CommitMoves DEF ApprovePayout, Asked
  <2>3. CASE ApproveProcurement(h)
    BY <2>3, ApprovalMoves, CommitMoves DEF ApproveProcurement, Asked
  <2>4. CASE ApproveTransfer(h)
    BY <2>4, ApprovalMoves, CommitMoves DEF ApproveTransfer, Asked
  <2>5. CASE PaySettlement(h)
    BY <2>5, PaymentMoves, CommitMoves DEF PaySettlement, Asked, Payable
  <2>6. CASE PayPayout(h)
    BY <2>6, PaymentMoves, CommitMoves DEF PayPayout, Asked, Payable
  <2>7. CASE CompleteProcurement(h)
    BY <2>7, HeldRow, ClosingMoves, CommitMoves
       DEF CompleteProcurement, Asked, Kind, Payable, Open
  <2>8. CASE CompleteTransfer(h)
    BY <2>8, HeldRow, ClosingMoves, CommitMoves
       DEF CompleteTransfer, Asked, Kind, Payable, Open
  <2>9. CASE ReverseTax(h)
    <3>1. request[h].seen.status \in Open
      BY <2>9, HeldRow DEF ReverseTax, Asked, Fits, Open
    <3> QED BY <2>9, <3>1, HeldRow, ClosingMoves, CommitMoves
            DEF ReverseTax, Asked, Kind, Payable
  <2> QED BY <1>4, <2>1, <2>2, <2>3, <2>4, <2>5, <2>6, <2>7, <2>8, <2>9 DEF Operate
<1> QED BY <1>1, <1>2, <1>3, <1>4, CreateMoves DEF DocNext

\* What a document that fits looks like to its promise.
LEMMA Views ==
    ASSUME NEW row, Fits(row), NEW events, NEW told, told = Told(events),
           events["opened"] # Nil <=> row.status \in Open \union Closed,
           events["closed"] # Nil <=> row.status \in Closed
    PROVE  /\ Stage(row) \in {"none", "draft"} => told = {}
           /\ Stage(row) = "open" => told = {"opened"}
           /\ Stage(row) = "closed" => told = {"opened", "closed"} /\ row.paid = Owed(row)
           /\ Stage(row) \in {"none", "draft"} => row.paid = 0
           /\ Owed(row) \in Amount
<1>1. row.status \in {"none", "draft"} \union Open \union Closed /\ row.due \in Amount
  BY DEF Fits, Row
<1>2. /\ Stage(row) \in {"none", "draft"} <=> row.status \in {"none", "draft"}
      /\ Stage(row) = "open" <=> row.status \in Open
      /\ Stage(row) = "closed" <=> row.status \in Closed
  BY <1>1 DEF Stage, Open, Closed
<1>3. Owed(row) \in Amount
  BY <1>1, DocumentConstants DEF Owed, Amount
<1>4. row.status \in Closed => row.paid = Owed(row)
  BY DEF Fits, Owed, Closed, Kind, Payable, Row
<1>5. row.status \in {"none", "draft"} => row.paid = 0
  BY DEF Fits, NoDoc
<1>6. row.status \in Open => row.status \notin Closed
  BY DEF Open, Closed
<1>7. row.status \in {"none", "draft"} => row.status \notin Open \union Closed
  BY DEF Open, Closed
<1>8. ("opened" \in told <=> row.status \in Open \union Closed)
      /\ ("closed" \in told <=> row.status \in Closed) /\ told \subseteq {"opened", "closed"}
  BY DEF Told
<1> QED BY <1>2, <1>3, <1>4, <1>5, <1>6, <1>7, <1>8

\* Every step of the requests is a step of the promise, or one it does not see.
LEMMA StepMaps ==
    ASSUME DocInv, DocInv', [DocNext]_docVars
    PROVE  [Promise!Next]_Promise!vars
<1>1. CASE UNCHANGED <<doc, event>>
  BY <1>1 DEF Promise!vars
<1>2. ASSUME NEW d \in Docs, MovesOn(doc[d], doc'[d]),
             \A e \in Docs \ {d} : doc'[e] = doc[e] /\ event'[e] = event[e]
      PROVE  Promise!Next
  <2> DEFINE stage == [e \in Docs |-> Stage(doc[e])]
             owed == [e \in Docs |-> Owed(doc[e])]
             paid == [e \in Docs |-> doc[e].paid]
             announced == [e \in Docs |-> Told(event[e])]
             old == doc[d]
             new == doc'[d]
  <2>1. /\ stage' = [stage EXCEPT ![d] = Stage(new)]
        /\ owed' = [owed EXCEPT ![d] = Owed(new)]
        /\ paid' = [paid EXCEPT ![d] = new.paid]
        /\ announced' = [announced EXCEPT ![d] = Told(event'[d])]
    BY <1>2
  <2>2. /\ Fits(old) /\ Fits(new)
        /\ event[d]["opened"] # Nil <=> old.status \in Open \union Closed
        /\ event[d]["closed"] # Nil <=> old.status \in Closed
        /\ event'[d]["opened"] # Nil <=> new.status \in Open \union Closed
        /\ event'[d]["closed"] # Nil <=> new.status \in Closed
    BY DEF DocInv, DocOK, Announced
  <2>3. /\ Stage(old) \in {"none", "draft"} => Told(event[d]) = {} /\ old.paid = 0
        /\ Stage(old) = "open" => Told(event[d]) = {"opened"}
        /\ Owed(old) \in Amount
    BY <2>2, Views
  <2>4. /\ Stage(new) \in {"none", "draft"} => Told(event'[d]) = {} /\ new.paid = 0
        /\ Stage(new) = "open" => Told(event'[d]) = {"opened"}
        /\ Stage(new) = "closed" => Told(event'[d]) = {"opened", "closed"} /\ new.paid = Owed(new)
        /\ Owed(new) \in Amount
    BY <2>2, Views
  <2>5. /\ stage[d] = Stage(old) /\ owed[d] = Owed(old) /\ paid[d] = old.paid
        /\ announced[d] = Told(event[d])
        /\ stage = [stage EXCEPT ![d] = stage[d]] /\ owed = [owed EXCEPT ![d] = owed[d]]
        /\ paid = [paid EXCEPT ![d] = paid[d]]
        /\ announced = [announced EXCEPT ![d] = announced[d]]
    OBVIOUS
  <2>6. old.paid \in Nat /\ new.paid \in Nat /\ old.due \in Nat /\ new.due \in Amount
    BY <2>2 DEF Fits, Row
  <2> HIDE DEF stage, owed, paid, announced, old, new
  <2>7. CASE old.status = "none" /\ new.status = "draft"
    <3>1. Stage(old) = "none" /\ Stage(new) = "draft"
      BY <2>7 DEF Stage, Open, Closed
    <3>2. UNCHANGED <<paid, announced>>
      BY <2>1, <2>3, <2>4, <2>5, <3>1
    <3>3. Promise!Draft(d)
      BY <2>1, <2>4, <2>5, <3>1, <3>2 DEF Promise!Draft, stage, owed, paid, announced
    <3> QED BY <3>3 DEF Promise!Next
  <2>8. CASE old.status = "none" /\ new.status = "recognized"
    <3>1. Stage(old) = "none" /\ Stage(new) = "open"
      BY <2>8 DEF Stage, Open, Closed
    <3>2. new.paid = 0
      BY <2>2, <2>8 DEF Fits, Payable, Kind
    <3>3. UNCHANGED paid
      BY <2>1, <2>3, <2>5, <3>1, <3>2
    <3>4. Promise!Recognise(d)
      BY <2>1, <2>4, <2>5, <3>1, <3>3 DEF Promise!Recognise, stage, owed, paid, announced
    <3> QED BY <3>4 DEF Promise!Next
  <2>9. CASE Same(old, new) /\ old.status = "draft" /\ new.status = "approved"
    <3>1. Stage(old) = "draft" /\ Stage(new) = "open"
      BY <2>9 DEF Stage, Open, Closed
    <3>2. new.paid = 0 /\ Owed(new) = Owed(old)
      BY <2>2, <2>9 DEF Fits, Same, Owed
    <3>3. UNCHANGED <<owed, paid>>
      BY <2>1, <2>3, <2>5, <3>1, <3>2
    <3>4. Promise!Open(d)
      BY <2>1, <2>4, <2>5, <3>1, <3>3 DEF Promise!Open, stage, owed, paid, announced
    <3> QED BY <3>4 DEF Promise!Next
  <2>10. CASE /\ Same(old, new) /\ old.kind \in Payable /\ new.paid > old.paid
              /\ old.status \in {"approved", "partially_paid"}
              /\ new.status = "partially_paid"
    <3>1. Stage(old) = "open" /\ Stage(new) = "open"
      BY <2>10 DEF Stage, Open, Closed
    <3>2. new.paid < Owed(old) /\ Owed(new) = Owed(old)
      BY <2>2, <2>10 DEF Fits, Same, Owed
    <3>3. new.paid \in Amount
      BY <2>2, <2>6, <2>10, DocumentConstants DEF Fits, Same, Amount
    <3>4. UNCHANGED <<stage, owed, announced>>
      BY <2>1, <2>3, <2>4, <2>5, <3>1, <3>2
    <3>5. paid' = [paid EXCEPT ![d] = new.paid] /\ paid[d] < new.paid /\ new.paid < owed[d]
      BY <2>1, <2>5, <2>6, <2>10, <3>2
    <3>6. Promise!PayPart(d)
      BY <2>5, <3>1, <3>3, <3>4, <3>5 DEF Promise!PayPart, stage, owed, paid, announced
    <3> QED BY <3>6 DEF Promise!Next
  <2>11. CASE /\ Same(old, new) /\ old.status \in Open
              /\ new.status \in {"paid", "completed", "reversed"}
    <3>1. Stage(old) = "open" /\ Stage(new) = "closed"
      BY <2>11 DEF Stage, Open, Closed
    <3>2. Owed(new) = Owed(old)
      BY <2>11 DEF Same, Owed
    <3>3. UNCHANGED owed /\ new.paid = owed[d]
      BY <2>1, <2>4, <2>5, <3>1, <3>2
    <3>4. Promise!Close(d)
      BY <2>1, <2>4, <2>5, <3>1, <3>3 DEF Promise!Close, stage, owed, paid, announced
    <3> QED BY <3>4 DEF Promise!Next
  <2> QED BY <1>2, <2>7, <2>8, <2>9, <2>10, <2>11 DEF MovesOn, Open, old, new
<1> QED BY <1>1, <1>2, StepMoves

\* The documents implement DocumentPromise.
THEOREM DocumentsKeepPromise == DocSpec => DocPromiseKept
<1>1. DocInit => Promise!Init
  BY InitMaps
<1>2. DocInv /\ DocInv' /\ [DocNext]_docVars => [Promise!Next]_Promise!vars
  BY StepMaps
<1> QED BY Invariance, <1>1, <1>2, PTL DEF DocSpec, DocPromiseKept, Promise!Spec

-----------------------------------------------------------------------------
(* Reconciliation, for every number of jobs, admins and crashes: a match     *)
(* speaks of an event that is in the ledger, a mark has a result behind it,  *)
(* and reconciling never changes a document.                                 *)

Progress == {"outbox", "business", "accounting", "posted"}
ReconcilerRow ==
    [pc : {"idle", "reading", "marking"}, doc : Docs \union {Nil}, seen : Row,
     mark : {"pending", "matched", "exception"},
     verdict : {"pending", "matched", "exception"}]

\* What is about to be marked was stored as a result, and the document is there.
ReconcilerOK(r) ==
    /\ reconciler[r].pc # "idle" => reconciler[r].doc \in Docs
    /\ reconciler[r].pc = "marking" =>
         \E x \in results : x.doc = reconciler[r].doc /\ x.status = reconciler[r].verdict

ReconInv == /\ TypeOK /\ MatchIsBooked /\ MarkHasResult
            /\ \A r \in Reconcilers : ReconcilerOK(r)

LEMMA IdleRow == Idle \in ReconcilerRow
BY NoDocFits DEF Idle, ReconcilerRow

LEMMA ReconInitInv == Init => ReconInv
<1> SUFFICES ASSUME Init PROVE ReconInv
  OBVIOUS
<1>1. DocTypeOK
  BY InitInv DEF Init, DocInv
<1>2. TypeOK
  BY <1>1, IdleRow, CrashBound DEF Init, TypeOK, ReconcilerRow
<1>3. MatchIsBooked /\ MarkHasResult
  BY DEF Init, MatchIsBooked, MarkHasResult
<1>4. \A r \in Reconcilers : ReconcilerOK(r)
  BY DEF Init, ReconcilerOK, Idle
<1> QED BY <1>2, <1>3, <1>4 DEF ReconInv

-----------------------------------------------------------------------------
(* Steps.                                                                   *)

\* The pipeline takes an event further, and never back from the ledger.
LEMMA PipelineInv ==
    ASSUME ReconInv, NEW d \in Docs, NEW k \in Stages, Pipeline(d, k)
    PROVE  ReconInv'
<1>1. PICK from, to \in Progress : Moves(d, k, from, to) /\ from # "posted"
  BY DEF Pipeline, Ingest, Prepare, Post, Progress
<1>2. /\ booked' = [booked EXCEPT ![d][k] = to] /\ booked[d][k] = from
      /\ UNCHANGED <<mark, results, reconciler, crashes>> /\ UNCHANGED docVars
  BY <1>1 DEF Moves
<1>3. booked \in [Docs -> [Stages -> Progress]]
  BY DEF ReconInv, TypeOK, Progress
<1>4. /\ booked' \in [Docs -> [Stages -> Progress]]
      /\ \A e \in Docs, j \in Stages : booked[e][j] = "posted" => booked'[e][j] = "posted"
  BY <1>1, <1>2, <1>3
<1>5. TypeOK'
  BY <1>2, <1>4 DEF ReconInv, TypeOK, DocTypeOK, docVars, Progress
<1>6. MatchIsBooked'
  BY <1>2, <1>4 DEF ReconInv, TypeOK, MatchIsBooked
<1>7. MarkHasResult' /\ \A r \in Reconcilers : ReconcilerOK(r)'
  BY <1>2 DEF ReconInv, MarkHasResult, ReconcilerOK
<1> QED BY <1>5, <1>6, <1>7 DEF ReconInv

\* A reconciler goes on: what it does to marks, results and itself is left to show.
LEMMA ReconcilerInv ==
    ASSUME ReconInv, NEW r \in Reconcilers, NEW row \in ReconcilerRow,
           reconciler' = [reconciler EXCEPT ![r] = row],
           UNCHANGED booked, UNCHANGED docVars, crashes' \in 0..MaxCrashes,
           mark' \in [Docs -> {"pending", "matched", "exception"}],
           results' \subseteq [doc : Docs, key : Stages, status : {"matched", "exception"}],
           results \subseteq results',
           MatchIsBooked', MarkHasResult', ReconcilerOK(r)'
    PROVE  ReconInv'
<1>1. reconciler \in [Reconcilers -> ReconcilerRow]
  BY DEF ReconInv, TypeOK, ReconcilerRow
<1>2. /\ reconciler' \in [Reconcilers -> ReconcilerRow]
      /\ \A q \in Reconcilers \ {r} : reconciler'[q] = reconciler[q]
  BY <1>1
<1>3. TypeOK'
  BY <1>2 DEF ReconInv, TypeOK, DocTypeOK, docVars, ReconcilerRow
<1>4. ASSUME NEW q \in Reconcilers \ {r} PROVE ReconcilerOK(q)'
  BY <1>2 DEF ReconInv, ReconcilerOK
<1> QED BY <1>3, <1>4 DEF ReconInv

LEMMA PickInv ==
    ASSUME ReconInv, NEW r \in Reconcilers, NEW d \in Docs, StartReading(r, d)
    PROVE  ReconInv'
<1>1. PICK row : row = [Idle EXCEPT !.pc = "reading", !.doc = d, !.seen = doc[d], !.mark = mark[d]]
  OBVIOUS
<1>2. doc[d] \in Row /\ mark[d] \in {"pending", "matched", "exception"}
  BY DEF ReconInv, TypeOK, DocTypeOK
<1>3. row \in ReconcilerRow /\ row.pc = "reading" /\ row.doc = d
  BY <1>1, <1>2, IdleRow DEF Idle, ReconcilerRow
<1>4. /\ reconciler' = [reconciler EXCEPT ![r] = row]
      /\ UNCHANGED <<booked, mark, results, crashes>> /\ UNCHANGED docVars
  BY <1>1 DEF StartReading
<1>5. ReconcilerOK(r)'
  BY <1>3, <1>4 DEF ReconInv, TypeOK, ReconcilerOK
<1>6. MatchIsBooked' /\ MarkHasResult'
  BY <1>4 DEF ReconInv, MatchIsBooked, MarkHasResult
<1> QED BY <1>3, <1>4, <1>5, <1>6, ReconcilerInv DEF ReconInv, TypeOK

\* The result that is stored as a match was read when the event was in the ledger.
LEMMA StoreResultInv ==
    ASSUME ReconInv, NEW r \in Reconcilers, StoreResult(r)
    PROVE  ReconInv'
<1> DEFINE old == reconciler[r]
           d == old.doc
           verdict == Verdict(old.seen, d)
<1>1. PICK x, row : /\ x = [doc |-> d, key |-> KeyFor(old.seen), status |-> verdict]
                    /\ row = [old EXCEPT !.pc = "marking", !.seen = NoDoc, !.verdict = verdict]
  OBVIOUS
<1>2. old \in ReconcilerRow /\ d \in Docs /\ old.pc = "reading"
  BY DEF ReconInv, TypeOK, ReconcilerOK, ReconcilerRow, StoreResult
<1>3. KeyFor(old.seen) \in Stages /\ verdict \in {"matched", "exception"}
  BY DEF KeyFor, Stages, Verdict
<1>4. /\ results' = results \union {x} /\ reconciler' = [reconciler EXCEPT ![r] = row]
      /\ UNCHANGED <<booked, mark, crashes>> /\ UNCHANGED docVars
  BY <1>1, <1>2 DEF StoreResult, ReconInv, TypeOK, ReconcilerRow
<1>5. /\ row \in ReconcilerRow /\ row.pc = "marking" /\ row.doc = d /\ row.verdict = verdict
  BY <1>1, <1>2, <1>3, NoDocFits DEF ReconcilerRow
<1>6. x.doc = d /\ x.key = KeyFor(old.seen) /\ x.status = verdict
  BY <1>1
<1>7. x \in [doc : Docs, key : Stages, status : {"matched", "exception"}]
  BY <1>1, <1>2, <1>3
<1>8. verdict = "matched" => booked[d][KeyFor(old.seen)] = "posted"
  BY DEF Verdict, Agrees, IsPosted
<1>9. MatchIsBooked'
  BY <1>4, <1>6, <1>8 DEF ReconInv, MatchIsBooked
<1>10. MarkHasResult'
  BY <1>4 DEF ReconInv, MarkHasResult
<1>11. ReconcilerOK(r)'
  <2>1. reconciler'[r] = row
    BY <1>4 DEF ReconInv, TypeOK
  <2> QED BY <1>2, <1>4, <1>5, <1>6, <2>1 DEF ReconcilerOK
<1> QED BY <1>4, <1>5, <1>7, <1>9, <1>10, <1>11, ReconcilerInv DEF ReconInv, TypeOK

LEMMA WriteMarkInv ==
    ASSUME ReconInv, NEW r \in Reconcilers, WriteMark(r)
    PROVE  ReconInv'
<1>1. PICK d, verdict : d = reconciler[r].doc /\ verdict = reconciler[r].verdict
  OBVIOUS
<1>2. /\ reconciler[r].pc = "marking" /\ d \in Docs
      /\ \E x \in results : x.doc = d /\ x.status = verdict
  BY <1>1 DEF WriteMark, ReconInv, ReconcilerOK
<1>3. /\ reconciler' = [reconciler EXCEPT ![r] = Idle]
      /\ UNCHANGED <<booked, results, crashes>> /\ UNCHANGED docVars
      /\ mark' = mark \/ mark' = [mark EXCEPT ![d] = verdict]
  BY <1>1 DEF WriteMark
<1>4. /\ results \subseteq [doc : Docs, key : Stages, status : {"matched", "exception"}]
      /\ mark \in [Docs -> {"pending", "matched", "exception"}]
  BY DEF ReconInv, TypeOK
<1>5. /\ mark' \in [Docs -> {"pending", "matched", "exception"}]
      /\ \A e \in Docs : mark'[e] = mark[e] \/ (e = d /\ mark'[e] = verdict)
  BY <1>2, <1>3, <1>4
<1>6. MarkHasResult'
  BY <1>2, <1>3, <1>5 DEF ReconInv, MarkHasResult
<1>7. MatchIsBooked'
  BY <1>3 DEF ReconInv, MatchIsBooked
<1>8. ReconcilerOK(r)'
  BY <1>3 DEF ReconInv, TypeOK, ReconcilerOK, Idle
<1> QED BY <1>3, <1>4, <1>5, <1>6, <1>7, <1>8, IdleRow, ReconcilerInv DEF ReconInv, TypeOK

LEMMA DiesInv ==
    ASSUME ReconInv, NEW r \in Reconcilers, ReconcilerDies(r)
    PROVE  ReconInv'
<1>1. /\ reconciler' = [reconciler EXCEPT ![r] = Idle] /\ crashes' = crashes + 1
      /\ crashes < MaxCrashes
      /\ UNCHANGED <<booked, mark, results>> /\ UNCHANGED docVars
  BY DEF ReconcilerDies
<1>2. crashes' \in 0..MaxCrashes
  BY <1>1, CrashBound DEF ReconInv, TypeOK
<1>3. MatchIsBooked' /\ MarkHasResult'
  BY <1>1 DEF ReconInv, MatchIsBooked, MarkHasResult
<1>4. ReconcilerOK(r)'
  BY <1>1 DEF ReconInv, TypeOK, ReconcilerOK, Idle
<1> QED BY <1>1, <1>2, <1>3, <1>4, IdleRow, ReconcilerInv DEF ReconInv, TypeOK

-----------------------------------------------------------------------------
(* The theorems.                                                            *)

\* The documents do what they do without the reconciliation: no job, admin or
\* delivery of an event adds a step to their life (matchVendorSettlementFinance and
\* its like only update finance_reconciliation_status).
THEOREM ReconcilingOnlyReads == Spec => DocSpec
<1>1. Init => DocInit
  BY DEF Init
<1>2. [Next]_vars => [DocNext]_docVars
  BY DEF Next, vars, docVars, Pipeline, Ingest, Prepare, Post, Moves, Finishes, StoreResult,
         WriteMark, ReconcilerDies, Picks, JobPicks, AdminPicks, StartReading
<1> QED BY <1>1, <1>2, PTL DEF Spec, DocSpec

LEMMA ReconNextInv ==
    ASSUME ReconInv, DocTypeOK', [Next]_vars
    PROVE  ReconInv'
<1>1. CASE UNCHANGED reconVars
  BY <1>1 DEF reconVars, ReconInv, TypeOK, MatchIsBooked, MarkHasResult, ReconcilerOK
<1>2. ASSUME NEW d \in Docs, NEW k \in Stages, Pipeline(d, k) PROVE ReconInv'
  BY <1>2, PipelineInv
<1>3. ASSUME NEW r \in Reconcilers, Finishes(r) PROVE ReconInv'
  BY <1>3, StoreResultInv, WriteMarkInv DEF Finishes
<1>4. ASSUME NEW r \in Reconcilers, ReconcilerDies(r) PROVE ReconInv'
  BY <1>4, DiesInv
<1>5. ASSUME NEW r \in Reconcilers, NEW d \in Docs, Picks(r, d) PROVE ReconInv'
  BY <1>5, PickInv DEF Picks, JobPicks, AdminPicks
<1>6. CASE UNCHANGED vars
  BY <1>1, <1>6 DEF vars
<1> QED BY <1>1, <1>2, <1>3, <1>4, <1>5, <1>6 DEF Next

LEMMA ReconInvariance == Spec => []ReconInv
<1>1. Init => ReconInv
  BY ReconInitInv
<1>2. ReconInv /\ DocTypeOK' /\ [Next]_vars => ReconInv'
  BY ReconNextInv
<1>3. Spec => []DocTypeOK
  BY ReconcilingOnlyReads, TypeCorrect, PTL
<1> QED BY <1>1, <1>2, <1>3, PTL DEF Spec

\* Marks, results and reconcilers stay within their types.
THEOREM ReconTyped == Spec => []TypeOK
<1>1. ReconInv => TypeOK
  BY DEF ReconInv
<1> QED BY ReconInvariance, <1>1, PTL

\* Whatever becomes of a document while it is compared, a match that is stored
\* speaks of an event that is in the ledger (matchVendorSettlementFinance).
THEOREM MatchesAreBooked == Spec => []MatchIsBooked
<1>1. ReconInv => MatchIsBooked
  BY DEF ReconInv
<1> QED BY ReconInvariance, <1>1, PTL

\* Whichever reconciler dies between its two writes, no document is marked without
\* a result of that verdict for the snapshots to count.
THEOREM MarksHaveResults == Spec => []MarkHasResult
<1>1. ReconInv => MarkHasResult
  BY DEF ReconInv
<1> QED BY ReconInvariance, <1>1, PTL
=============================================================================
