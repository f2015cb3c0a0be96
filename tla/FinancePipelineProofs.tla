------------------------ MODULE FinancePipelineProofs ------------------------
(***************************************************************************)
(* The event engine alone, and the whole pipeline, for every number of     *)
(* events, workers, leases, replay items and replay jobs.  The engine has  *)
(* one accounting effect per event, for ever.  In the pipeline both halves *)
(* keep what was proved of each alone, they agree about the business       *)
(* events, and together they implement FinancePromise.                     *)
(***************************************************************************)
EXTENDS FinancePipeline, FinanceDeliveryProofs

(* The engine.                                                              *)

USE DEF BusinessStatus, AccountingStatus, ItemStatus, ReplayPC, IdleReplayer

\* Moving one replay on keeps the table of replays well typed.
LEMMA ReplayGotoType ==
    ASSUME EngineTypeOK, NEW r \in Replayers, NEW pc \in ReplayPC
    PROVE  [replayer EXCEPT ![r].pc = pc] \in [Replayers -> ReplayerState]
<1>1. [replayer[r] EXCEPT !.pc = pc] \in ReplayerState
  BY DEF EngineTypeOK, ReplayerState
<1> QED BY <1>1 DEF EngineTypeOK

\* So does giving an item another status.
LEMMA ItemStatusType ==
    ASSUME EngineTypeOK, NEW i \in ItemIds, NEW status \in ItemStatus
    PROVE  [item EXCEPT ![i].status = status] \in [ItemIds -> ReplayItem]
<1>1. [item[i] EXCEPT !.status = status] \in ReplayItem
  BY DEF EngineTypeOK, ReplayItem
<1> QED BY <1>1 DEF EngineTypeOK

LEMMA EngineInitInv == EngineInit => EngineInv
<1> SUFFICES ASSUME EngineInit PROVE EngineInv
  OBVIOUS
<1>1. EngineTypeOK
  BY EngineConstants DEF EngineInit, EngineTypeOK, ReplayItem, ReplayerState
<1>2. OneAccountingEffect /\ StatusIsBacked
  BY DEF EngineInit, OneAccountingEffect, StatusIsBacked
<1>3. ReplaysKnowEvent
  BY DEF EngineInit, ReplaysKnowEvent
<1> QED BY <1>1, <1>2, <1>3 DEF EngineInv

LEMMA ReceiveInv ==
    ASSUME EngineInv, NEW e \in Events, Receive(e)
    PROVE  EngineInv'
<1> USE DEF EngineInv, Receive, books
<1>1. EngineTypeOK'
  BY EngineConstants
     DEF EngineTypeOK, ReplayItem, ReplayerState, ReplaysKnowEvent
<1>2. OneAccountingEffect'
  BY DEF OneAccountingEffect, EngineTypeOK
<1>3. StatusIsBacked'
  BY DEF StatusIsBacked, EngineTypeOK, ReplaysKnowEvent
<1>4. ReplaysKnowEvent'
  BY EngineConstants DEF ReplaysKnowEvent, EngineTypeOK, ReplayItem, ReplayerState
<1> QED BY <1>1, <1>2, <1>3, <1>4

LEMMA ChangeRulesInv ==
    ASSUME EngineInv, NEW e \in Events, ChangeRules(e)
    PROVE  EngineInv'
<1> USE DEF EngineInv, ChangeRules
<1>1. EngineTypeOK'
  BY EngineConstants
     DEF EngineTypeOK, ReplayItem, ReplayerState, ReplaysKnowEvent
<1>2. OneAccountingEffect'
  BY DEF OneAccountingEffect, EngineTypeOK
<1>3. StatusIsBacked'
  BY DEF StatusIsBacked, EngineTypeOK, ReplaysKnowEvent
<1>4. ReplaysKnowEvent'
  BY EngineConstants DEF ReplaysKnowEvent, EngineTypeOK, ReplayItem, ReplayerState
<1> QED BY <1>1, <1>2, <1>3, <1>4

\* A rejected event leaves no trace but the log; an accepted one its accounting
\* event.
LEMMA ProcessBusinessEventInv ==
    ASSUME EngineInv, NEW e \in Events, ProcessBusinessEvent(e)
    PROVE  EngineInv'
<1> USE DEF EngineInv, ProcessBusinessEvent, ProcessTransaction, Prepares, Commits
<1>1. EngineTypeOK'
  BY EngineConstants
     DEF EngineTypeOK, ReplayItem, ReplayerState, ReplaysKnowEvent
<1>2. OneAccountingEffect'
  BY DEF OneAccountingEffect, EngineTypeOK
<1>3. StatusIsBacked'
  BY DEF StatusIsBacked, EngineTypeOK, ReplaysKnowEvent
<1>4. ReplaysKnowEvent'
  BY EngineConstants DEF ReplaysKnowEvent, EngineTypeOK, ReplayItem, ReplayerState
<1> QED BY <1>1, <1>2, <1>3, <1>4

\* The ledger and both statuses change together.
LEMMA PostAccountingEventInv ==
    ASSUME EngineInv, NEW e \in Events, PostAccountingEvent(e)
    PROVE  EngineInv'
<1> USE DEF EngineInv, PostAccountingEvent, LedgerAfter
<1>1. EngineTypeOK'
  BY EngineConstants
     DEF EngineTypeOK, ReplayItem, ReplayerState, ReplaysKnowEvent
<1>2. OneAccountingEffect'
  BY DEF OneAccountingEffect, EngineTypeOK
<1>3. StatusIsBacked'
  BY DEF StatusIsBacked, EngineTypeOK, ReplaysKnowEvent
<1>4. ReplaysKnowEvent'
  BY EngineConstants DEF ReplaysKnowEvent, EngineTypeOK, ReplayItem, ReplayerState
<1> QED BY <1>1, <1>2, <1>3, <1>4

\* One lemma per statement of a replay.
LEMMA QueueReplayInv ==
    ASSUME EngineInv, NEW e \in Events, NEW i \in ItemIds, QueueReplay(e, i)
    PROVE  EngineInv'
<1> USE DEF EngineInv, QueueReplay, Unused, books
<1>1. EngineTypeOK'
  BY EngineConstants
     DEF EngineTypeOK, ReplayItem, ReplayerState, ReplaysKnowEvent
<1>2. OneAccountingEffect'
  BY DEF OneAccountingEffect, EngineTypeOK
<1>3. StatusIsBacked'
  BY DEF StatusIsBacked, EngineTypeOK, ReplaysKnowEvent
<1>4. ReplaysKnowEvent'
  BY EngineConstants DEF ReplaysKnowEvent, EngineTypeOK, ReplayItem, ReplayerState
<1> QED BY <1>1, <1>2, <1>3, <1>4

LEMMA ReadItemInv ==
    ASSUME EngineInv, NEW r \in Replayers, NEW i \in ItemIds, ReadItem(r, i)
    PROVE  EngineInv'
<1> USE DEF EngineInv, ReadItem, books
<1>1. EngineTypeOK'
  BY EngineConstants
     DEF EngineTypeOK, ReplayItem, ReplayerState, ReplaysKnowEvent
<1>2. OneAccountingEffect'
  BY DEF OneAccountingEffect, EngineTypeOK
<1>3. StatusIsBacked'
  BY DEF StatusIsBacked, EngineTypeOK, ReplaysKnowEvent
<1>4. ReplaysKnowEvent'
  BY EngineConstants DEF ReplaysKnowEvent, EngineTypeOK, ReplayItem, ReplayerState
<1> QED BY <1>1, <1>2, <1>3, <1>4

LEMMA StartItemInv ==
    ASSUME EngineInv, NEW r \in Replayers, StartItem(r)
    PROVE  EngineInv'
<1> USE DEF EngineInv, StartItem, ReplayGoto, books, AtMostReplays
<1>1. EngineTypeOK'
  BY EngineConstants
     DEF EngineTypeOK, ReplayItem, ReplayerState, ReplaysKnowEvent
<1>2. OneAccountingEffect'
  BY DEF OneAccountingEffect, EngineTypeOK
<1>3. StatusIsBacked'
  BY DEF StatusIsBacked, EngineTypeOK, ReplaysKnowEvent
<1>4. ReplaysKnowEvent'
  BY EngineConstants DEF ReplaysKnowEvent, EngineTypeOK, ReplayItem, ReplayerState
<1> QED BY <1>1, <1>2, <1>3, <1>4

LEMMA ResetEventInv ==
    ASSUME EngineInv, NEW r \in Replayers, ResetEvent(r)
    PROVE  EngineInv'
<1> USE DEF EngineInv, ResetEvent, ReplayGoto, books
<1>1. EngineTypeOK'
  BY EngineConstants
     DEF EngineTypeOK, ReplayItem, ReplayerState, ReplaysKnowEvent
<1>2. OneAccountingEffect'
  BY DEF OneAccountingEffect, EngineTypeOK
<1>3. StatusIsBacked'
  BY DEF StatusIsBacked, EngineTypeOK, ReplaysKnowEvent
<1>4. ReplaysKnowEvent'
  BY EngineConstants DEF ReplaysKnowEvent, EngineTypeOK, ReplayItem, ReplayerState
<1> QED BY <1>1, <1>2, <1>3, <1>4

LEMMA ReplayProcessInv ==
    ASSUME EngineInv, NEW r \in Replayers, ReplayProcess(r)
    PROVE  EngineInv'
<1> USE DEF EngineInv, ReplayProcess, ProcessTransaction, Prepares, Commits, AlreadyDone, ReplayGoto
<1>1. EngineTypeOK'
  BY EngineConstants
     DEF EngineTypeOK, ReplayItem, ReplayerState, ReplaysKnowEvent
<1>2. OneAccountingEffect'
  BY DEF OneAccountingEffect, EngineTypeOK
<1>3. StatusIsBacked'
  BY DEF StatusIsBacked, EngineTypeOK, ReplaysKnowEvent
<1>4. ReplaysKnowEvent'
  BY EngineConstants DEF ReplaysKnowEvent, EngineTypeOK, ReplayItem, ReplayerState
<1> QED BY <1>1, <1>2, <1>3, <1>4

LEMMA CompleteItemInv ==
    ASSUME EngineInv, NEW r \in Replayers, CompleteItem(r)
    PROVE  EngineInv'
<1> USE DEF EngineInv, CompleteItem, books
<1>1. EngineTypeOK'
  BY EngineConstants
     DEF EngineTypeOK, ReplayItem, ReplayerState, ReplaysKnowEvent
<1>2. OneAccountingEffect'
  BY DEF OneAccountingEffect, EngineTypeOK
<1>3. StatusIsBacked'
  BY DEF StatusIsBacked, EngineTypeOK, ReplaysKnowEvent
<1>4. ReplaysKnowEvent'
  BY EngineConstants DEF ReplaysKnowEvent, EngineTypeOK, ReplayItem, ReplayerState
<1> QED BY <1>1, <1>2, <1>3, <1>4

LEMMA ReplayStepFailsInv ==
    ASSUME EngineInv, NEW r \in Replayers, ReplayStepFails(r)
    PROVE  EngineInv'
<1> USE DEF EngineInv, ReplayStepFails, ReplayGoto, books
<1>1. EngineTypeOK'
  BY EngineConstants
     DEF EngineTypeOK, ReplayItem, ReplayerState, ReplaysKnowEvent
<1>2. OneAccountingEffect'
  BY DEF OneAccountingEffect, EngineTypeOK
<1>3. StatusIsBacked'
  BY DEF StatusIsBacked, EngineTypeOK, ReplaysKnowEvent
<1>4. ReplaysKnowEvent'
  BY EngineConstants DEF ReplaysKnowEvent, EngineTypeOK, ReplayItem, ReplayerState
<1> QED BY <1>1, <1>2, <1>3, <1>4

LEMMA RequeueItemInv ==
    ASSUME EngineInv, NEW r \in Replayers, RequeueItem(r)
    PROVE  EngineInv'
<1> USE DEF EngineInv, RequeueItem, AttemptsAtCatch, books
<1>1. EngineTypeOK'
  BY EngineConstants
     DEF EngineTypeOK, ReplayItem, ReplayerState, ReplaysKnowEvent
<1>2. OneAccountingEffect'
  BY DEF OneAccountingEffect, EngineTypeOK
<1>3. StatusIsBacked'
  BY DEF StatusIsBacked, EngineTypeOK, ReplaysKnowEvent
<1>4. ReplaysKnowEvent'
  BY EngineConstants DEF ReplaysKnowEvent, EngineTypeOK, ReplayItem, ReplayerState
<1> QED BY <1>1, <1>2, <1>3, <1>4

LEMMA ReplayerDiesInv ==
    ASSUME EngineInv, NEW r \in Replayers, ReplayerDies(r)
    PROVE  EngineInv'
<1> USE DEF EngineInv, ReplayerDies, books
<1>1. EngineTypeOK'
  BY EngineConstants
     DEF EngineTypeOK, ReplayItem, ReplayerState, ReplaysKnowEvent
<1>2. OneAccountingEffect'
  BY DEF OneAccountingEffect, EngineTypeOK
<1>3. StatusIsBacked'
  BY DEF StatusIsBacked, EngineTypeOK, ReplaysKnowEvent
<1>4. ReplaysKnowEvent'
  BY EngineConstants DEF ReplaysKnowEvent, EngineTypeOK, ReplayItem, ReplayerState
<1> QED BY <1>1, <1>2, <1>3, <1>4

LEMMA EngineNextInv == EngineInv /\ [EngineNext]_engineVars => EngineInv'
<1> SUFFICES ASSUME EngineInv, [EngineNext]_engineVars PROVE EngineInv'
  OBVIOUS
<1>1. CASE \E e \in Events : \/ Receive(e) \/ ChangeRules(e)
                            \/ ProcessBusinessEvent(e) \/ PostAccountingEvent(e)
                            \/ \E i \in ItemIds : QueueReplay(e, i)
  BY <1>1, ReceiveInv, ChangeRulesInv, ProcessBusinessEventInv,
     PostAccountingEventInv, QueueReplayInv
<1>2. CASE \E r \in Replayers : \/ \E i \in ItemIds : ReadItem(r, i)
                               \/ ReplayProgress(r) \/ ReplayerDies(r)
  BY <1>2, ReadItemInv, StartItemInv, ResetEventInv, ReplayProcessInv,
     CompleteItemInv, ReplayStepFailsInv, RequeueItemInv, ReplayerDiesInv
  DEF ReplayProgress
<1>3. CASE UNCHANGED engineVars
  BY <1>3 DEF engineVars, EngineInv, EngineTypeOK, OneAccountingEffect, StatusIsBacked,
     ReplaysKnowEvent
<1> QED BY <1>1, <1>2, <1>3 DEF EngineNext, Work

THEOREM EngineInvariantHolds == EngineSpec => []EngineInv
BY EngineInitInv, EngineNextInv, PTL DEF EngineSpec

\* The tables keep their types in every reachable state.
THEOREM EngineTypeCorrect == EngineSpec => []EngineTypeOK
BY EngineInvariantHolds, PTL DEF EngineInv

\* One ledger transaction per posted event, however it is retried or replayed.
THEOREM OneAccountingEffectHolds == EngineSpec => []OneAccountingEffect
BY EngineInvariantHolds, PTL DEF EngineInv

\* A business event is posted or prepared only with the accounting event that
\* says so, and an accounting event has its business event, although
\* processReplayItem resets the status without a look at either.
THEOREM StatusIsBackedHolds == EngineSpec => []StatusIsBacked
BY EngineInvariantHolds, PTL DEF EngineInv

\* No step undoes accounting: the steps that write it are the two transactions,
\* and neither leaves "posted" or lowers the ledger.
THEOREM AccountingImmutableHolds == EngineSpec => AccountingImmutable
<1>1. ASSUME EngineInv, [EngineNext]_engineVars
      PROVE  \A e \in Events : /\ accounting[e] = "posted" => accounting'[e] = "posted"
                               /\ ledger'[e] >= ledger[e]
  <2> USE DEF EngineInv
  <2>1. CASE \E e \in Events : ProcessBusinessEvent(e)
    BY <1>1, <2>1 DEF ProcessBusinessEvent, ProcessTransaction, EngineTypeOK
  <2>2. CASE \E e \in Events : PostAccountingEvent(e)
    BY <1>1, <2>2 DEF PostAccountingEvent, LedgerAfter, EngineTypeOK
  <2>3. CASE \E r \in Replayers : ReplayProcess(r)
    BY <1>1, <2>3 DEF ReplayProcess, ProcessTransaction, EngineTypeOK
  <2>4. CASE UNCHANGED <<accounting, ledger>>
    BY <1>1, <2>4 DEF EngineTypeOK
  <2> QED BY <1>1, <2>1, <2>2, <2>3, <2>4 DEF EngineNext, Work, engineVars, ReplayProgress,
     Receive, ChangeRules, QueueReplay, ReadItem, StartItem, ResetEvent,
     CompleteItem, ReplayStepFails, RequeueItem, ReplayerDies, books
<1>2. ASSUME EngineInv, [EngineNext]_engineVars
      PROVE  [\A e \in Events :
                /\ accounting[e] = "posted" => accounting'[e] = "posted"
                /\ ledger'[e] >= ledger[e]]_engineVars
  BY <1>1, <1>2
<1> QED BY <1>2, EngineInvariantHolds, PTL DEF EngineSpec, AccountingImmutable

-----------------------------------------------------------------------------
(* The pipeline.                                                            *)

\* A replay is of an event that arrived: without it a reset would make an event to
\* the engine of which delivery knows nothing.
ItemsArrived == \A i \in ItemIds : item[i].event # Nil => business[item[i].event] # "none"

PipelineInv == DeliveryInv /\ EngineInv /\ ItemsArrived /\ RowsAgree

\* What delivery calls ingested is what the engine knows.
LEMMA SameEvents ==
    ASSUME PipelineInv, NEW e \in Events
    PROVE  /\ received[e] \in {0, 1}
           /\ received[e] = 0 <=> business[e] = "none"
BY DEF PipelineInv, RowsAgree

\* The fact behind an accounting effect is posted, and a posted one has its effect.
LEMMA AccountedIsPosted ==
    ASSUME EngineInv, NEW e \in Events
    PROVE  Accounted(e) <=> accounting[e] = "posted"
BY DEF EngineInv, OneAccountingEffect, Accounted

-----------------------------------------------------------------------------
(* Each half alone.                                                         *)

LEMMA StepsOfDelivery == [PipelineNext]_pipelineVars => [Next]_vars
BY DEF PipelineNext, DeliveryStep, EngineStep, pipelineVars

LEMMA StepsOfEngine == [PipelineNext]_pipelineVars => [EngineNext]_engineVars
BY DEF PipelineNext, DeliveryStep, EngineStep, EngineNext, pipelineVars

\* Put together, delivery does nothing that it does not do alone (financeEventDelivery),
\* so that every theorem about it holds here.
THEOREM DeliveryUnchanged == PipelineSpec => Spec
<1>1. PipelineInit => Init
  BY DEF PipelineInit
<1> QED BY <1>1, StepsOfDelivery, PTL DEF PipelineSpec, Spec

\* Nor does the engine: events arrive as it expects them (financeEventEngine).
THEOREM EngineUnchanged == PipelineSpec => EngineSpec
<1>1. PipelineInit => EngineInit
  BY DEF PipelineInit
<1> QED BY <1>1, StepsOfEngine, PTL DEF PipelineSpec, EngineSpec

-----------------------------------------------------------------------------
(* The row that they share.                                                 *)

\* The insert is the arrival of the event; no other step of delivery is anything to
\* the engine.
LEMMA DeliveryMoves ==
    ASSUME PipelineInv, DeliveryStep
    PROVE  \/ \E e \in Events : IngestsFact(e) /\ Receive(e)
           \/ UNCHANGED received /\ UNCHANGED engineVars
<1>1. CASE UNCHANGED received
  BY <1>1 DEF DeliveryStep, Inserts
<1>2. CASE \E e \in Events : IngestsFact(e)
  <2> PICK e \in Events : IngestsFact(e)
    BY <1>2
  <2>1. received \in [Events -> Nat]
    BY DEF PipelineInv, DeliveryInv, TypeOK
  <2>2. /\ received[e] = 0 /\ received'[e] = 1
        /\ \A f \in Events : f # e => received'[f] = received[f]
    BY <2>1 DEF IngestsFact
  <2>3. Inserts(e) /\ \A f \in Events : Inserts(f) => f = e
    BY <2>2, SameEvents DEF Inserts
  <2> QED BY <2>3 DEF DeliveryStep
<1> QED BY <1>1, <1>2, PromisedMoves DEF DeliveryStep, PipelineInv, CommitsFact

LEMMA ReplayArrived ==
    ASSUME PipelineInv, NEW r \in Replayers, replayer[r].pc # "idle"
    PROVE  business[item[replayer[r].item].event] # "none"
BY EngineConstants DEF PipelineInv, ItemsArrived, EngineInv, ReplaysKnowEvent

\* No step of the engine makes an event or removes one.
LEMMA EngineMoves ==
    ASSUME PipelineInv, Work
    PROVE  \A e \in Events : business'[e] = "none" <=> business[e] = "none"
<1> USE DEF PipelineInv, EngineInv, EngineTypeOK
<1>1. CASE \E e \in Events : ProcessBusinessEvent(e)
  BY <1>1 DEF ProcessBusinessEvent, ProcessTransaction, Commits
<1>2. CASE \E e \in Events : PostAccountingEvent(e)
  BY <1>2 DEF PostAccountingEvent, StatusIsBacked
<1>3. CASE \E r \in Replayers : ReplayProcess(r)
  <2> PICK r \in Replayers : ReplayProcess(r)
    BY <1>3
  <2> QED BY ReplayArrived DEF ReplayProcess, ProcessTransaction, Commits
<1>4. CASE \E r \in Replayers : ResetEvent(r)
  BY <1>4, ReplayArrived DEF ResetEvent
<1>5. CASE UNCHANGED business
  BY <1>5
<1> QED BY <1>1, <1>2, <1>3, <1>4, <1>5 DEF Work, ReplayProgress,
     ChangeRules, QueueReplay, ReadItem, StartItem,
     CompleteItem, ReplayStepFails, RequeueItem, ReplayerDies, books

LEMMA ItemsStayArrived ==
    ASSUME PipelineInv, [PipelineNext]_pipelineVars
    PROVE  ItemsArrived'
<1> USE DEF PipelineInv, ItemsArrived
<1>1. /\ item \in [ItemIds -> ReplayItem] /\ business \in [Events -> BusinessStatus]
      /\ \A i \in ItemIds : item[i].event \in Events \union {Nil}
  BY DEF EngineInv, EngineTypeOK, ReplayItem
<1>2. \A e \in Events : business[e] # "none" => business'[e] # "none"
  <2>1. CASE DeliveryStep
    BY <1>1, <2>1, DeliveryMoves DEF Receive, engineVars
  <2>2. CASE EngineStep
    BY <2>2, EngineMoves DEF EngineStep
  <2> QED BY <2>1, <2>2 DEF PipelineNext, pipelineVars, engineVars
<1>3. CASE \E e \in Events, i \in ItemIds : QueueReplay(e, i)
  BY <1>1, <1>3 DEF QueueReplay
<1>4. CASE \A i \in ItemIds : item'[i].event = item[i].event
  BY <1>1, <1>2, <1>4
<1>5. CASE \E r \in Replayers : StartItem(r) \/ CompleteItem(r) \/ RequeueItem(r)
  <2>1. \A i \in ItemIds : item'[i].event = item[i].event
    BY <1>1, <1>5 DEF StartItem, CompleteItem, RequeueItem, ReplayItem
  <2> QED BY <1>4, <2>1
<1>6. CASE UNCHANGED item
  BY <1>4, <1>6
<1>7. CASE DeliveryStep
  BY <1>6, <1>7, DeliveryMoves DEF Receive, engineVars
<1> QED BY <1>3, <1>5, <1>6, <1>7 DEF PipelineNext, EngineStep, Work, ReplayProgress,
     ChangeRules, ProcessBusinessEvent, PostAccountingEvent, ReadItem, ResetEvent,
     ReplayProcess, ReplayStepFails, ReplayerDies, books, pipelineVars, engineVars

LEMMA RowsStayAgreed ==
    ASSUME PipelineInv, [PipelineNext]_pipelineVars
    PROVE  RowsAgree'
<1> USE DEF PipelineInv, RowsAgree
<1>1. received \in [Events -> Nat] /\ business \in [Events -> BusinessStatus]
  BY DEF DeliveryInv, TypeOK, EngineInv, EngineTypeOK
<1>2. ASSUME NEW e \in Events, IngestsFact(e), Receive(e) PROVE RowsAgree'
  BY <1>1, <1>2 DEF IngestsFact, Receive
<1>3. CASE UNCHANGED received /\ UNCHANGED engineVars
  BY <1>3 DEF engineVars
<1>4. CASE EngineStep
  BY <1>4, EngineMoves DEF EngineStep, vars
<1>5. CASE UNCHANGED pipelineVars
  BY <1>5 DEF pipelineVars, vars, engineVars
<1> QED BY <1>2, <1>3, <1>4, <1>5, DeliveryMoves DEF PipelineNext

LEMMA PipelineInvariance == PipelineSpec => []PipelineInv
<1>1. PipelineInit => ItemsArrived /\ RowsAgree
  BY DEF PipelineInit, Init, EngineInit, ItemsArrived, RowsAgree
<1>2. PipelineInv /\ [PipelineNext]_pipelineVars => ItemsArrived' /\ RowsAgree'
  BY ItemsStayArrived, RowsStayAgreed
<1>3. DeliveryInv /\ EngineInv /\ ItemsArrived /\ RowsAgree <=> PipelineInv
  BY DEF PipelineInv
<1> QED BY <1>1, <1>2, <1>3, DeliveryUnchanged, EngineUnchanged, InvariantHolds,
           EngineInvariantHolds, PTL DEF PipelineSpec

\* The insert of a business event and its first status are never apart, whoever
\* resets the event later (ingestBusinessEvent, processReplayItem).
THEOREM RowsAlwaysAgree == PipelineSpec => []RowsAgree
BY PipelineInvariance, PTL DEF PipelineInv

-----------------------------------------------------------------------------
(* The promise.                                                             *)

\* A delivery step commits a fact, ingests one, or is none of the engine's business.
LEMMA DeliveryStepMaps ==
    ASSUME PipelineInv, PipelineInv', DeliveryStep
    PROVE  [PipelinePromise!Next]_(PipelinePromise!vars)
<1>1. UNCHANGED {e \in Events : Accounted(e)}
  <2>1. UNCHANGED <<accounting, ledger>>
    BY DeliveryMoves DEF Receive, books, engineVars
  <2> QED BY <2>1 DEF Accounted
<1>2. business \in [Events -> BusinessStatus] /\ received \in [Events -> Nat]
  BY DEF PipelineInv, EngineInv, EngineTypeOK, DeliveryInv, TypeOK
<1>3. ASSUME NEW e \in Events, CommitsFact(e) PROVE PipelinePromise!Commit(e)
  <2>1. UNCHANGED business
    <3>1. received[e] # 1 \/ received'[e] = received[e]
      BY <1>3 DEF CommitsFact
    <3>2. \A f \in Events : ~IngestsFact(f)
      BY <1>2, <1>3 DEF CommitsFact, IngestsFact
    <3> QED BY <3>2, DeliveryMoves DEF engineVars
  <2> QED BY <1>1, <1>3, <2>1 DEF CommitsFact, Committed, PipelinePromise!Commit
<1>4. ASSUME NEW e \in Events, IngestsFact(e) PROVE PipelinePromise!Ingest(e)
  <2>1. \A f \in Events : /\ f # e => received'[f] = received[f]
                          /\ business'[f] # "none" <=> received'[f] # 0
                          /\ business[f] # "none" <=> received[f] # 0
    BY <1>2, <1>4 DEF IngestsFact, PipelineInv, RowsAgree
  <2>2. received[e] = 0 /\ received'[e] = 1
    BY <1>2, <1>4 DEF IngestsFact
  <2>3. UNCHANGED {f \in Events : outbox[f].status # "none"} /\ outbox[e].status # "none"
    BY <1>4 DEF IngestsFact, Committed
  <2> QED BY <1>1, <2>1, <2>2, <2>3 DEF PipelinePromise!Ingest
<1>5. CASE UNCHANGED <<Committed, received>>
  <2>1. \A f \in Events : business'[f] # "none" <=> business[f] # "none"
    BY <1>5 DEF PipelineInv, RowsAgree
  <2> QED BY <1>1, <1>5, <2>1 DEF Committed, PipelinePromise!vars
<1> QED BY <1>3, <1>4, <1>5, PromisedMoves
        DEF DeliveryStep, PipelineInv, PipelinePromise!Next

\* An engine step posts a fact that it knows, or changes nothing that is promised.
LEMMA EngineStepMaps ==
    ASSUME PipelineInv, PipelineInv', EngineStep
    PROVE  [PipelinePromise!Next]_(PipelinePromise!vars)
<1>1. /\ UNCHANGED {e \in Events : outbox[e].status # "none"}
      /\ UNCHANGED {e \in Events : business[e] # "none"}
  BY EngineMoves DEF EngineStep, vars
<1>2. /\ \A e \in Events : Accounted(e) <=> accounting[e] = "posted"
      /\ \A e \in Events : Accounted(e)' <=> accounting'[e] = "posted"
  BY AccountedIsPosted DEF PipelineInv, EngineInv, OneAccountingEffect, Accounted
<1>3. accounting \in [Events -> AccountingStatus]
  BY DEF PipelineInv, EngineInv, EngineTypeOK
<1>4. ASSUME NEW e \in Events, PostAccountingEvent(e) PROVE PipelinePromise!Post(e)
  <2>1. business[e] # "none" /\ accounting[e] = "prepared"
    BY <1>4 DEF PostAccountingEvent, PipelineInv, EngineInv, StatusIsBacked
  <2>2. accounting' = [accounting EXCEPT ![e] = "posted"]
    BY <1>4 DEF PostAccountingEvent
  <2> QED BY <1>1, <1>2, <1>3, <2>1, <2>2 DEF PipelinePromise!Post
<1>5. CASE \A e \in Events : accounting'[e] = "posted" <=> accounting[e] = "posted"
  BY <1>1, <1>2, <1>5 DEF PipelinePromise!vars
<1>6. ASSUME ~\E e \in Events : PostAccountingEvent(e)
      PROVE  \A e \in Events : accounting'[e] = "posted" <=> accounting[e] = "posted"
  <2>1. CASE \E e \in Events : ProcessBusinessEvent(e)
    BY <1>3, <2>1 DEF ProcessBusinessEvent, ProcessTransaction
  <2>2. CASE \E r \in Replayers : ReplayProcess(r)
    BY <1>3, <2>2 DEF ReplayProcess, ProcessTransaction
  <2>3. CASE UNCHANGED accounting
    BY <2>3
  <2> QED BY <1>6, <2>1, <2>2, <2>3 DEF EngineStep, Work, ReplayProgress,
     ChangeRules, QueueReplay, ReadItem, StartItem, ResetEvent,
     CompleteItem, ReplayStepFails, RequeueItem, ReplayerDies, books
<1> QED BY <1>4, <1>5, <1>6 DEF PipelinePromise!Next

\* The pipeline keeps its promise from the business transaction to the ledger
\* (financeOutbox to financeAccountingPosting): no retry, crash, replay or change of
\* the rules accounts for a fact twice, before it is committed, or takes it back.
THEOREM PipelineKeepsPromise == PipelineSpec => PipelinePromiseKept
<1>1. PipelineInit => PipelinePromise!Init
  BY DEF PipelineInit, Init, EngineInit, Accounted, PipelinePromise!Init
<1>2. PipelineInv /\ PipelineInv' /\ [PipelineNext]_pipelineVars
        => [PipelinePromise!Next]_(PipelinePromise!vars)
  <2>1. ASSUME UNCHANGED pipelineVars PROVE UNCHANGED PipelinePromise!vars
    BY <2>1 DEF pipelineVars, vars, engineVars, Accounted, PipelinePromise!vars
  <2> QED BY <2>1, DeliveryStepMaps, EngineStepMaps DEF PipelineNext
<1> QED BY <1>1, <1>2, PipelineInvariance, PTL
        DEF PipelineSpec, PipelinePromiseKept, PipelinePromise!Spec
-----------------------------------------------------------------------------
(* Across the halves.                                                       *)

\* While the recovery job does not die between its two writes, no event is left in
\* 'publishing', whatever the engine does meanwhile (financeEventRecovery).
THEOREM PipelineIsRecoverable ==
    ASSUME "recovery" \notin Crashable
    PROVE  PipelineSpec => []PublishingIsRecoverable
BY DeliveryUnchanged, PublishingStaysRecoverable, PTL

\* What is ingested was committed, which only the invariants of delivery show.
IngestedIsCommitted == \A e \in Events : received[e] > 0 => e \in Committed

LEMMA IngestedStaysCommitted ==
    ASSUME DeliveryInv, IngestedIsCommitted, [Next]_vars
    PROVE  IngestedIsCommitted'
<1>1. received \in [Events -> Nat]
  BY DEF DeliveryInv, TypeOK
<1>2. ASSUME NEW e \in Events, CommitsFact(e) PROVE IngestedIsCommitted'
  BY <1>1, <1>2 DEF CommitsFact, IngestedIsCommitted
<1>3. ASSUME NEW e \in Events, IngestsFact(e) PROVE IngestedIsCommitted'
  BY <1>1, <1>3 DEF IngestsFact, IngestedIsCommitted
<1>4. CASE UNCHANGED <<Committed, received>>
  BY <1>4 DEF IngestedIsCommitted
<1> QED BY <1>2, <1>3, <1>4, PromisedMoves

\* The ledger never has a transaction without its fact: one that was committed and
\* entered the engine once (recordFinanceEvent, postLedgerTransaction).
EffectHasFact ==
    \A e \in Events : ledger[e] > 0 => outbox[e].status # "none" /\ received[e] = 1

THEOREM EveryEffectHasFact == PipelineSpec => []EffectHasFact
<1>1. Init => IngestedIsCommitted
  BY DEF Init, IngestedIsCommitted
<1>2. DeliveryInv /\ IngestedIsCommitted /\ [Next]_vars => IngestedIsCommitted'
  BY IngestedStaysCommitted
<1>3. Spec => []IngestedIsCommitted
  BY <1>1, <1>2, InvariantHolds, PTL DEF Spec
<1>4. ASSUME PipelineInv, IngestedIsCommitted PROVE EffectHasFact
  <2> SUFFICES ASSUME NEW e \in Events, ledger[e] > 0
               PROVE  outbox[e].status # "none" /\ received[e] = 1
    BY DEF EffectHasFact
  <2>1. accounting[e] = "posted"
    BY <1>4 DEF PipelineInv, EngineInv, OneAccountingEffect
  <2>2. business[e] # "none"
    BY <1>4, <2>1 DEF PipelineInv, EngineInv, StatusIsBacked
  <2> QED BY <1>4, <2>2, SameEvents DEF IngestedIsCommitted, Committed
<1> QED BY <1>3, <1>4, DeliveryUnchanged, PipelineInvariance, PTL
=============================================================================
