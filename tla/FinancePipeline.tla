--------------------------- MODULE FinancePipeline ---------------------------
(***************************************************************************)
(* The whole finance pipeline, from the transaction that commits a         *)
(* business fact to its accounting effect: the delivery of outbox events   *)
(* (FinanceDelivery) and the engine that processes, posts and replays the  *)
(* business events they become (FinanceEngine).                            *)
(*                                                                         *)
(* The halves meet in the row of the business event.  Delivery counts the  *)
(* rows with an event's key, the engine has the row's status: the insert   *)
(* of ingestBusinessEvent is one step of both.  They share nothing else:   *)
(* delivery never looks at the status, and the engine at no outbox row.    *)
(***************************************************************************)
EXTENDS FinanceDelivery, FinanceEngine

pipelineVars == <<vars, engineVars>>

PipelineInit == Init /\ EngineInit

\* The insert of ingestBusinessEvent.  A second row with the key would be another
\* event to the engine, and is only counted.
Inserts(e) == received'[e] # received[e] /\ business[e] = "none"

DeliveryStep ==
    /\ Next
    /\ IF \E e \in Events : Inserts(e)
       THEN \E e \in Events : Inserts(e) /\ Receive(e)
       ELSE UNCHANGED engineVars

EngineStep == Work /\ UNCHANGED vars

PipelineNext == DeliveryStep \/ EngineStep

PipelineSpec == PipelineInit /\ [][PipelineNext]_pipelineVars
-----------------------------------------------------------------------------
\* Why the halves never disagree about the row they share: the insert is the only
\* step that writes either its existence or its first status, and no replay
\* removes it.
RowsAgree == \A e \in Events : received[e] = IF business[e] = "none" THEN 0 ELSE 1

\* A fact has its accounting effect when its accounting event is posted with the one
\* ledger transaction it owes, or owes none.
Accounted(e) == accounting[e] = "posted" /\ ledger[e] = IF e \in TraceOnly THEN 0 ELSE 1

PipelinePromise == INSTANCE FinancePromise WITH
    committed <- {e \in Events : outbox[e].status # "none"},
    ingested  <- {e \in Events : business[e] # "none"},
    posted    <- {e \in Events : Accounted(e)}

\* End to end: a committed fact enters the engine at most once and then the ledger
\* at most once, and nothing takes any of it back, however often deliveries are
\* retried, workers die, operators replay dead letters and jobs replay events.
PipelinePromiseKept == PipelinePromise!Spec
=============================================================================
