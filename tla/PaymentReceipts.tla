--------------------------- MODULE PaymentReceipts ---------------------------
(***************************************************************************)
(* From the customer's payment to the ledger: the payments of an order     *)
(* (PaymentAttempts) and the finance pipeline (FinancePipeline).           *)
(*                                                                         *)
(* The halves meet in the transaction of applyPaymentOutcome, which        *)
(* settles an attempt and writes the outbox row of its finance event.      *)
(* They share nothing else: no payment handler reads an outbox row, and    *)
(* delivery and the engine look at no attempt.                             *)
(***************************************************************************)
EXTENDS PaymentAttempts, FinancePipeline

CONSTANTS CaptureOf, \* payment:<id>:captured:v1 of each attempt
          FailureOf  \* payment:<id>:failed:v1

ASSUME ReceiptConstants ==
    /\ CaptureOf \in [Keys -> Events] /\ FailureOf \in [Keys -> Events]
    /\ \A j, k \in Keys : /\ CaptureOf[j] # FailureOf[k]
                          /\ j # k => CaptureOf[j] # CaptureOf[k] /\ FailureOf[j] # FailureOf[k]

receiptVars == <<paymentVars, pipelineVars>>

ReceiptInit == PaymentInit /\ PipelineInit

Enqueued(e) == outbox[e].status # "none"

\* Mutation: a failure is reported as a capture.
AlwaysCapture(v) == CaptureOf[resolver[v].key]

\* emitPaymentCaptured or emitPaymentFailed of the attempt that v resolves.
Fact(v) == IF resolver[v].next = "success" THEN CaptureOf[resolver[v].key]
                                           ELSE FailureOf[resolver[v].key]

\* enqueueFinanceOutboxEvent finds the event or creates it.
RecordFact(v) ==
    /\ IF Enqueued(Fact(v)) THEN UNCHANGED vars ELSE Enqueue(Fact(v))
    /\ UNCHANGED engineVars

PaymentStep ==
    \/ \E v \in Resolvers : Commit(v) /\ RecordFact(v)
    \/ PaymentNext /\ ~(\E v \in Resolvers : Commit(v)) /\ UNCHANGED pipelineVars

\* Other transactions enqueue other facts.
PaymentFacts == {CaptureOf[k] : k \in Keys} \union {FailureOf[k] : k \in Keys}

FinanceStep ==
    /\ PipelineNext
    /\ \A e \in PaymentFacts : Enqueued(e)' => Enqueued(e)
    /\ UNCHANGED paymentVars

ReceiptNext == PaymentStep \/ FinanceStep

ReceiptSpec == ReceiptInit /\ [][ReceiptNext]_receiptVars
-----------------------------------------------------------------------------
\* "Finance event publication is atomic with the authoritative payment
\* resolution" (applyPaymentOutcome): accounting is told of a capture exactly when
\* an attempt is settled, and of a failure only of an attempt that has failed.
FactsAreSettlements ==
    \A k \in Keys :
        /\ Enqueued(CaptureOf[k]) <=> attempt[k].status = "success"
        /\ Enqueued(FailureOf[k]) => attempt[k].status \in Outcome

\* End to end: an entry of the ledger for a payment has a settled attempt behind
\* it and a payment that the provider has reported, and is the only one; and an
\* order that shows as paid has its fact on the way to the ledger
\* (applyPaymentOutcome to postAccountingEvent).
ReceiptsArePayments ==
    /\ \A k \in Keys : ledger[CaptureOf[k]] > 0 =>
          /\ ledger[CaptureOf[k]] = 1
          /\ attempt[k].status = "success"
          /\ \E j \in Keys : <<j, "success">> \in notices
    /\ orderPaid => \E k \in Keys : Enqueued(CaptureOf[k])
=============================================================================
