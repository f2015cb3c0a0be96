----------------------- MODULE FinanceDeliveryProofs ------------------------
(***************************************************************************)
(* Safety of the outbox delivery for every number of events, workers,      *)
(* leases and attempts, with every process allowed to die at every step.   *)
(***************************************************************************)
EXTENDS FinanceDelivery, TLAPS

USE DEF Status, LeaseStatus, PC, InTry, Call, IdleWorker, IdleRecovery, IdleOperator

\* The saturated attempt counter stays in range.
LEMMA AtMostType ==
    ASSUME NEW n \in 0..MaxAttempts
    PROVE  AtMostAttempts(n + 1) \in 0..MaxAttempts
BY DeliveryConstants DEF AtMostAttempts

\* Updating one column keeps a table's type.
LEMMA GotoType ==
    ASSUME TypeOK, NEW w \in Workers, NEW pc \in PC
    PROVE  [worker EXCEPT ![w].pc = pc] \in [Workers -> WorkerState]
<1>1. [worker[w] EXCEPT !.pc = pc] \in WorkerState
  BY DEF TypeOK, WorkerState
<1> QED BY <1>1 DEF TypeOK

LEMMA CallType ==
    ASSUME TypeOK, NEW w \in Workers, NEW pc \in PC,
           NEW e \in Events \union {Nil}, NEW l \in LeaseIds \union {Nil}
    PROVE  [worker EXCEPT ![w] = Call(pc, e, l)] \in [Workers -> WorkerState]
<1>1. Call(pc, e, l) \in WorkerState
  BY DeliveryConstants DEF WorkerState
<1> QED BY <1>1 DEF TypeOK

LEMMA OutboxStatusType ==
    ASSUME TypeOK, NEW e, NEW status \in Status
    PROVE  [outbox EXCEPT ![e].status = status] \in [Events -> OutboxRow]
<1>1. e \in Events => [outbox[e] EXCEPT !.status = status] \in OutboxRow
  BY DEF TypeOK, OutboxRow
<1> QED BY <1>1 DEF TypeOK

LEMMA LeaseStatusType ==
    ASSUME TypeOK, NEW l, NEW status \in LeaseStatus
    PROVE  [lease EXCEPT ![l].status = status] \in [LeaseIds -> LeaseRow]
<1>1. l \in LeaseIds => [lease[l] EXCEPT !.status = status] \in LeaseRow
  BY DEF TypeOK, LeaseRow
<1> QED BY <1>1 DEF TypeOK

LEMMA InitInv == Init => DeliveryInv
<1> SUFFICES ASSUME Init PROVE DeliveryInv
  OBVIOUS
<1>1. TypeOK
  BY DeliveryConstants
     DEF Init, TypeOK, OutboxRow, LeaseRow, WorkerState
<1>2. OneActiveLease
  BY DEF Init, OneActiveLease, Active
<1>3. PublishedIsIngested /\ IngestedOnce
  BY DEF Init, PublishedIsIngested, IngestedOnce
<1>4. CallsKnowEvent /\ IngestedBeforePublish /\ OwnLease /\ KnownIsCommitted
  BY DEF Init, CallsKnowEvent, IngestedBeforePublish, OwnLease, KnownIsCommitted
<1> QED BY <1>1, <1>2, <1>3, <1>4 DEF DeliveryInv

\* A committed business transaction adds a pending row.
LEMMA EnqueueInv ==
    ASSUME DeliveryInv, NEW e \in Events, Enqueue(e)
    PROVE  DeliveryInv'
<1> USE DEF DeliveryInv, Enqueue
<1>1. TypeOK'
  BY DeliveryConstants
     DEF TypeOK, OutboxRow, LeaseRow, WorkerState, CallsKnowEvent
<1>2. OneActiveLease'
  BY DEF OneActiveLease, Active, TypeOK, LeaseRow
<1>3. PublishedIsIngested'
  BY DEF PublishedIsIngested, IngestedBeforePublish, TypeOK, OutboxRow
<1>4. IngestedOnce'
  BY DEF IngestedOnce, TypeOK
<1>5. CallsKnowEvent'
  BY DEF CallsKnowEvent, TypeOK, WorkerState
<1>6. IngestedBeforePublish'
  BY DEF IngestedBeforePublish, CallsKnowEvent, TypeOK, WorkerState
<1>7. OwnLease'
  BY DEF OwnLease, TypeOK, WorkerState
<1>8. KnownIsCommitted'
  BY DEF KnownIsCommitted, CallsKnowEvent, TypeOK, WorkerState, OutboxRow
<1> QED BY <1>1, <1>2, <1>3, <1>4, <1>5, <1>6, <1>7, <1>8

\* The only step that makes a lease active: every lease of the event that was
\* active is expired by the same transaction.
LEMMA AcquireInv ==
    ASSUME DeliveryInv, NEW w \in Workers, NEW e \in Events, AcquireLease(w, e)
    PROVE  DeliveryInv'
<1> USE DEF DeliveryInv, AcquireLease, ExpireOverdue, Held, Claimable
<1>1. TypeOK'
  <2> USE DeliveryConstants DEF TypeOK
  <2>1. outbox' \in [Events -> OutboxRow]
    BY DEF OutboxRow, WorkerState
  <2>2. lease' \in [LeaseIds -> LeaseRow]
    <3> PICK k \in LeaseIds :
           lease' = [ExpireOverdue(e) EXCEPT ![k] =
                       [event |-> e, status |-> "active", overdue |-> FALSE]]
      OBVIOUS
    <3>1. \A l \in LeaseIds : ExpireOverdue(e)[l] \in LeaseRow
      BY DEF LeaseRow
    <3>2. [event |-> e, status |-> "active", overdue |-> FALSE] \in LeaseRow
      BY DEF LeaseRow
    <3> QED BY <3>1, <3>2
  <2>3. deadLetters' \in [Events -> SUBSET {"quarantined", "replay_requested"}]
    BY DEF WorkerState
  <2>4. received' \in [Events -> Nat]
    BY DEF WorkerState
  <2>5. worker' \in [Workers -> WorkerState]
    BY CallType
  <2>6. recovery' \in [batch : SUBSET LeaseIds, current : LeaseIds \union {Nil}]
    OBVIOUS
  <2>7. operator' \in [event : Events \union {Nil},
                      row : {"none", "quarantined", "replay_requested"},
                      seen : Status, pc : {"idle", "requeue", "mark"}]
    OBVIOUS
  <2> QED BY <2>1, <2>2, <2>3, <2>4, <2>5, <2>6, <2>7
<1>2. OneActiveLease'
  BY DEF OneActiveLease, Active, TypeOK, LeaseRow
<1>3. PublishedIsIngested'
  BY DEF PublishedIsIngested, IngestedBeforePublish, TypeOK, OutboxRow
<1>4. IngestedOnce'
  BY DEF IngestedOnce, TypeOK
<1>5. CallsKnowEvent'
  BY DEF CallsKnowEvent, TypeOK, WorkerState
<1>6. IngestedBeforePublish'
  BY DEF IngestedBeforePublish, CallsKnowEvent, TypeOK, WorkerState
<1>7. OwnLease'
  BY DEF OwnLease, TypeOK, WorkerState
<1>8. KnownIsCommitted'
  BY DEF KnownIsCommitted, CallsKnowEvent, TypeOK, WorkerState, OutboxRow
<1> QED BY <1>1, <1>2, <1>3, <1>4, <1>5, <1>6, <1>7, <1>8

\* One lemma per step of a deliverOutboxEvent call.
LEMMA OpenAttemptInv ==
    ASSUME DeliveryInv, NEW w \in Workers, OpenAttempt(w)
    PROVE  DeliveryInv'
<1> USE DEF DeliveryInv, OpenAttempt
<1>1. TypeOK'
  <2> USE DeliveryConstants, AtMostType DEF TypeOK
  <2>1. outbox' \in [Events -> OutboxRow]
    BY DEF OutboxRow, WorkerState
  <2>2. lease' \in [LeaseIds -> LeaseRow]
    BY DEF LeaseRow, WorkerState
  <2>3. deadLetters' \in [Events -> SUBSET {"quarantined", "replay_requested"}]
    BY DEF WorkerState
  <2>4. received' \in [Events -> Nat]
    BY DEF WorkerState
  <2>5. worker' \in [Workers -> WorkerState]
    <3> DEFINE row == outbox[worker[w].event]
    <3>1. worker[w] \in WorkerState /\ row \in OutboxRow
      BY DEF CallsKnowEvent
    <3>2. AtMostAttempts(row.attempts + 1) \in 0..MaxAttempts /\ row.status \in Status
      BY <3>1 DEF OutboxRow
    <3>3. [worker[w] EXCEPT !.pc = "delivering", !.attempt = AtMostAttempts(row.attempts + 1),
                            !.seen = row.status] \in WorkerState
      BY <3>1, <3>2 DEF WorkerState
    <3> QED BY <3>3
  <2>6. recovery' \in [batch : SUBSET LeaseIds, current : LeaseIds \union {Nil}]
    OBVIOUS
  <2>7. operator' \in [event : Events \union {Nil},
                      row : {"none", "quarantined", "replay_requested"},
                      seen : Status, pc : {"idle", "requeue", "mark"}]
    OBVIOUS
  <2> QED BY <2>1, <2>2, <2>3, <2>4, <2>5, <2>6, <2>7
<1>2. OneActiveLease'
  BY DEF OneActiveLease, Active, TypeOK, LeaseRow
<1>3. PublishedIsIngested'
  BY DEF PublishedIsIngested, IngestedBeforePublish, TypeOK, OutboxRow
<1>4. IngestedOnce'
  BY DEF IngestedOnce, TypeOK
<1>5. CallsKnowEvent'
  BY DEF CallsKnowEvent, TypeOK, WorkerState
<1>6. IngestedBeforePublish'
  BY DEF IngestedBeforePublish, CallsKnowEvent, TypeOK, WorkerState
<1>7. OwnLease'
  BY DEF OwnLease, TypeOK, WorkerState
<1>8. KnownIsCommitted'
  BY DEF KnownIsCommitted, CallsKnowEvent, TypeOK, WorkerState, OutboxRow
<1> QED BY <1>1, <1>2, <1>3, <1>4, <1>5, <1>6, <1>7, <1>8

LEMMA FindExistingInv ==
    ASSUME DeliveryInv, NEW w \in Workers, FindExisting(w)
    PROVE  DeliveryInv'
<1> USE DEF DeliveryInv, FindExisting, Goto
<1>1. TypeOK'
  <2>1. worker' \in [Workers -> WorkerState]
    BY GotoType
  <2> QED BY <2>1 DEF TypeOK
<1>2. OneActiveLease'
  BY DEF OneActiveLease, Active, TypeOK, LeaseRow
<1>3. PublishedIsIngested'
  BY DEF PublishedIsIngested, IngestedBeforePublish, TypeOK, OutboxRow
<1>4. IngestedOnce'
  BY DEF IngestedOnce, TypeOK
<1>5. CallsKnowEvent'
  BY DEF CallsKnowEvent, TypeOK, WorkerState
<1>6. IngestedBeforePublish'
  BY DEF IngestedBeforePublish, CallsKnowEvent, TypeOK, WorkerState
<1>7. OwnLease'
  BY DEF OwnLease, TypeOK, WorkerState
<1>8. KnownIsCommitted'
  BY DEF KnownIsCommitted, CallsKnowEvent, TypeOK, WorkerState, OutboxRow
<1> QED BY <1>1, <1>2, <1>3, <1>4, <1>5, <1>6, <1>7, <1>8

LEMMA CreateEventInv ==
    ASSUME DeliveryInv, NEW w \in Workers, CreateEvent(w)
    PROVE  DeliveryInv'
<1> USE DEF DeliveryInv, CreateEvent, Goto, KeyTaken
<1>1. TypeOK'
  <2> USE DeliveryConstants DEF TypeOK
  <2>1. outbox' \in [Events -> OutboxRow]
    BY DEF OutboxRow, WorkerState
  <2>2. lease' \in [LeaseIds -> LeaseRow]
    BY DEF LeaseRow, WorkerState
  <2>3. deadLetters' \in [Events -> SUBSET {"quarantined", "replay_requested"}]
    BY DEF WorkerState
  <2>4. received' \in [Events -> Nat]
    BY DEF WorkerState
  <2>5. worker' \in [Workers -> WorkerState]
    <3>1. worker' = [worker EXCEPT ![w].pc = IF received[worker[w].event] > 0
                                             THEN "failed" ELSE "ingested"]
      OBVIOUS
    <3> QED BY <3>1, GotoType
  <2>6. recovery' \in [batch : SUBSET LeaseIds, current : LeaseIds \union {Nil}]
    OBVIOUS
  <2>7. operator' \in [event : Events \union {Nil},
                      row : {"none", "quarantined", "replay_requested"},
                      seen : Status, pc : {"idle", "requeue", "mark"}]
    OBVIOUS
  <2> QED BY <2>1, <2>2, <2>3, <2>4, <2>5, <2>6, <2>7
<1>2. OneActiveLease'
  BY DEF OneActiveLease, Active, TypeOK, LeaseRow
<1>3. PublishedIsIngested'
  BY DEF PublishedIsIngested, IngestedBeforePublish, TypeOK, OutboxRow
<1>4. IngestedOnce'
  BY DEF IngestedOnce, TypeOK
<1>5. CallsKnowEvent'
  <2>1. \A v \in Workers : /\ worker'[v].event = worker[v].event
                           /\ worker'[v].lease = worker[v].lease
                           /\ worker'[v].pc # "idle" => worker[v].pc # "idle"
    BY DEF TypeOK, WorkerState
  <2> QED BY <2>1 DEF CallsKnowEvent
<1>6. IngestedBeforePublish'
  BY DEF IngestedBeforePublish, CallsKnowEvent, TypeOK, WorkerState
<1>7. OwnLease'
  BY DEF OwnLease, TypeOK, WorkerState
<1>8. KnownIsCommitted'
  <2>1. \A v \in Workers : /\ worker'[v].event = worker[v].event
                           /\ worker'[v].pc # "idle" => worker[v].pc # "idle"
    BY DEF TypeOK, WorkerState
  <2> QED BY <2>1 DEF KnownIsCommitted
<1> QED BY <1>1, <1>2, <1>3, <1>4, <1>5, <1>6, <1>7, <1>8

LEMMA PublishInv ==
    ASSUME DeliveryInv, NEW w \in Workers, Publish(w)
    PROVE  DeliveryInv'
<1> USE DEF DeliveryInv, Publish, SaveOutbox, SaveStatus, SaveAttempts
<1>1. TypeOK'
  <2> USE DeliveryConstants DEF TypeOK
  <2>1. outbox' \in [Events -> OutboxRow]
    BY DEF OutboxRow, WorkerState
  <2>2. lease' \in [LeaseIds -> LeaseRow]
    BY DEF LeaseRow, WorkerState
  <2>3. deadLetters' \in [Events -> SUBSET {"quarantined", "replay_requested"}]
    BY DEF WorkerState
  <2>4. received' \in [Events -> Nat]
    BY DEF WorkerState
  <2>5. worker' \in [Workers -> WorkerState]
    <3>1. worker[w] \in WorkerState
      OBVIOUS
    <3>2. [worker[w] EXCEPT !.pc = "published", !.seen = "published",
                            !.counted = TRUE] \in WorkerState
      BY <3>1 DEF WorkerState
    <3> QED BY <3>2
  <2>6. recovery' \in [batch : SUBSET LeaseIds, current : LeaseIds \union {Nil}]
    OBVIOUS
  <2>7. operator' \in [event : Events \union {Nil},
                      row : {"none", "quarantined", "replay_requested"},
                      seen : Status, pc : {"idle", "requeue", "mark"}]
    OBVIOUS
  <2> QED BY <2>1, <2>2, <2>3, <2>4, <2>5, <2>6, <2>7
<1>2. OneActiveLease'
  BY DEF OneActiveLease, Active, TypeOK, LeaseRow
<1>3. PublishedIsIngested'
  BY DEF PublishedIsIngested, IngestedBeforePublish, TypeOK, OutboxRow
<1>4. IngestedOnce'
  BY DEF IngestedOnce, TypeOK
<1>5. CallsKnowEvent'
  BY DEF CallsKnowEvent, TypeOK, WorkerState
<1>6. IngestedBeforePublish'
  BY DEF IngestedBeforePublish, CallsKnowEvent, TypeOK, WorkerState
<1>7. OwnLease'
  BY DEF OwnLease, TypeOK, WorkerState
<1>8. KnownIsCommitted'
  BY DEF KnownIsCommitted, CallsKnowEvent, TypeOK, WorkerState, OutboxRow
<1> QED BY <1>1, <1>2, <1>3, <1>4, <1>5, <1>6, <1>7, <1>8

LEMMA ReleaseInv ==
    ASSUME DeliveryInv, NEW w \in Workers, Release(w)
    PROVE  DeliveryInv'
<1> USE DEF DeliveryInv, Release, ReleaseLease
<1>1. TypeOK'
  <2> USE DeliveryConstants DEF TypeOK
  <2>1. outbox' \in [Events -> OutboxRow]
    BY DEF OutboxRow, WorkerState
  <2>2. lease' \in [LeaseIds -> LeaseRow]
    BY LeaseStatusType
  <2>3. deadLetters' \in [Events -> SUBSET {"quarantined", "replay_requested"}]
    BY DEF WorkerState
  <2>4. received' \in [Events -> Nat]
    BY DEF WorkerState
  <2>5. worker' \in [Workers -> WorkerState]
    BY DEF WorkerState, OutboxRow, CallsKnowEvent
  <2>6. recovery' \in [batch : SUBSET LeaseIds, current : LeaseIds \union {Nil}]
    OBVIOUS
  <2>7. operator' \in [event : Events \union {Nil},
                      row : {"none", "quarantined", "replay_requested"},
                      seen : Status, pc : {"idle", "requeue", "mark"}]
    OBVIOUS
  <2> QED BY <2>1, <2>2, <2>3, <2>4, <2>5, <2>6, <2>7
<1>2. OneActiveLease'
  BY DEF OneActiveLease, Active, TypeOK, LeaseRow
<1>3. PublishedIsIngested'
  BY DEF PublishedIsIngested, IngestedBeforePublish, TypeOK, OutboxRow
<1>4. IngestedOnce'
  BY DEF IngestedOnce, TypeOK
<1>5. CallsKnowEvent'
  BY DEF CallsKnowEvent, TypeOK, WorkerState
<1>6. IngestedBeforePublish'
  BY DEF IngestedBeforePublish, CallsKnowEvent, TypeOK, WorkerState
<1>7. OwnLease'
  BY DEF OwnLease, TypeOK, WorkerState
<1>8. KnownIsCommitted'
  BY DEF KnownIsCommitted, CallsKnowEvent, TypeOK, WorkerState, OutboxRow
<1> QED BY <1>1, <1>2, <1>3, <1>4, <1>5, <1>6, <1>7, <1>8

LEMMA StepFailsInv ==
    ASSUME DeliveryInv, NEW w \in Workers, StepFails(w)
    PROVE  DeliveryInv'
<1> USE DEF DeliveryInv, StepFails, Goto
<1>1. TypeOK'
  <2> USE DeliveryConstants DEF TypeOK
  <2>1. outbox' \in [Events -> OutboxRow]
    BY DEF OutboxRow, WorkerState
  <2>2. lease' \in [LeaseIds -> LeaseRow]
    BY DEF LeaseRow, WorkerState
  <2>3. deadLetters' \in [Events -> SUBSET {"quarantined", "replay_requested"}]
    BY DEF WorkerState
  <2>4. received' \in [Events -> Nat]
    BY DEF WorkerState
  <2>5. worker' \in [Workers -> WorkerState]
    BY GotoType
  <2>6. recovery' \in [batch : SUBSET LeaseIds, current : LeaseIds \union {Nil}]
    OBVIOUS
  <2>7. operator' \in [event : Events \union {Nil},
                      row : {"none", "quarantined", "replay_requested"},
                      seen : Status, pc : {"idle", "requeue", "mark"}]
    OBVIOUS
  <2> QED BY <2>1, <2>2, <2>3, <2>4, <2>5, <2>6, <2>7
<1>2. OneActiveLease'
  BY DEF OneActiveLease, Active, TypeOK, LeaseRow
<1>3. PublishedIsIngested'
  BY DEF PublishedIsIngested, IngestedBeforePublish, TypeOK, OutboxRow
<1>4. IngestedOnce'
  BY DEF IngestedOnce, TypeOK
<1>5. CallsKnowEvent'
  BY DEF CallsKnowEvent, TypeOK, WorkerState
<1>6. IngestedBeforePublish'
  BY DEF IngestedBeforePublish, CallsKnowEvent, TypeOK, WorkerState
<1>7. OwnLease'
  BY DEF OwnLease, TypeOK, WorkerState
<1>8. KnownIsCommitted'
  BY DEF KnownIsCommitted, CallsKnowEvent, TypeOK, WorkerState, OutboxRow
<1> QED BY <1>1, <1>2, <1>3, <1>4, <1>5, <1>6, <1>7, <1>8

LEMMA RecordFailureInv ==
    ASSUME DeliveryInv, NEW w \in Workers, RecordFailure(w)
    PROVE  DeliveryInv'
<1> USE DEF DeliveryInv, RecordFailure, Goto, SaveOutbox, SaveStatus, SaveAttempts
<1>1. TypeOK'
  <2> USE DeliveryConstants DEF TypeOK
  <2>1. outbox' \in [Events -> OutboxRow]
    BY DEF OutboxRow, WorkerState
  <2>2. lease' \in [LeaseIds -> LeaseRow]
    BY DEF LeaseRow, WorkerState
  <2>3. deadLetters' \in [Events -> SUBSET {"quarantined", "replay_requested"}]
    BY DEF WorkerState
  <2>4. received' \in [Events -> Nat]
    BY DEF WorkerState
  <2>5. worker' \in [Workers -> WorkerState]
    BY GotoType
  <2>6. recovery' \in [batch : SUBSET LeaseIds, current : LeaseIds \union {Nil}]
    OBVIOUS
  <2>7. operator' \in [event : Events \union {Nil},
                      row : {"none", "quarantined", "replay_requested"},
                      seen : Status, pc : {"idle", "requeue", "mark"}]
    OBVIOUS
  <2> QED BY <2>1, <2>2, <2>3, <2>4, <2>5, <2>6, <2>7
<1>2. OneActiveLease'
  BY DEF OneActiveLease, Active, TypeOK, LeaseRow
<1>3. PublishedIsIngested'
  BY DEF PublishedIsIngested, IngestedBeforePublish, TypeOK, OutboxRow
<1>4. IngestedOnce'
  BY DEF IngestedOnce, TypeOK
<1>5. CallsKnowEvent'
  BY DEF CallsKnowEvent, TypeOK, WorkerState
<1>6. IngestedBeforePublish'
  BY DEF IngestedBeforePublish, CallsKnowEvent, TypeOK, WorkerState
<1>7. OwnLease'
  BY DEF OwnLease, TypeOK, WorkerState
<1>8. KnownIsCommitted'
  BY DEF KnownIsCommitted, CallsKnowEvent, TypeOK, WorkerState, OutboxRow
<1> QED BY <1>1, <1>2, <1>3, <1>4, <1>5, <1>6, <1>7, <1>8

LEMMA ReleaseAfterFailureInv ==
    ASSUME DeliveryInv, NEW w \in Workers, ReleaseAfterFailure(w)
    PROVE  DeliveryInv'
<1> USE DEF DeliveryInv, ReleaseAfterFailure, ReleaseLease, Throw
<1>1. TypeOK'
  <2> USE DeliveryConstants DEF TypeOK
  <2>1. outbox' \in [Events -> OutboxRow]
    BY DEF OutboxRow, WorkerState
  <2>2. lease' \in [LeaseIds -> LeaseRow]
    BY LeaseStatusType
  <2>3. deadLetters' \in [Events -> SUBSET {"quarantined", "replay_requested"}]
    BY DEF WorkerState
  <2>4. received' \in [Events -> Nat]
    BY DEF WorkerState
  <2>5. worker' \in [Workers -> WorkerState]
    <3>1. worker[w].event \in Events \union {Nil}
      BY DEF WorkerState
    <3> QED BY <3>1, CallType
  <2>6. recovery' \in [batch : SUBSET LeaseIds, current : LeaseIds \union {Nil}]
    OBVIOUS
  <2>7. operator' \in [event : Events \union {Nil},
                      row : {"none", "quarantined", "replay_requested"},
                      seen : Status, pc : {"idle", "requeue", "mark"}]
    OBVIOUS
  <2> QED BY <2>1, <2>2, <2>3, <2>4, <2>5, <2>6, <2>7
<1>2. OneActiveLease'
  BY DEF OneActiveLease, Active, TypeOK, LeaseRow
<1>3. PublishedIsIngested'
  BY DEF PublishedIsIngested, IngestedBeforePublish, TypeOK, OutboxRow
<1>4. IngestedOnce'
  BY DEF IngestedOnce, TypeOK
<1>5. CallsKnowEvent'
  BY DEF CallsKnowEvent, TypeOK, WorkerState
<1>6. IngestedBeforePublish'
  BY DEF IngestedBeforePublish, CallsKnowEvent, TypeOK, WorkerState
<1>7. OwnLease'
  BY DEF OwnLease, TypeOK, WorkerState
<1>8. KnownIsCommitted'
  BY DEF KnownIsCommitted, CallsKnowEvent, TypeOK, WorkerState, OutboxRow
<1> QED BY <1>1, <1>2, <1>3, <1>4, <1>5, <1>6, <1>7, <1>8

LEMMA EscapesTryInv ==
    ASSUME DeliveryInv, NEW w \in Workers, EscapesTry(w)
    PROVE  DeliveryInv'
<1> USE DEF DeliveryInv, EscapesTry, Throw
<1>1. TypeOK'
  <2> USE DeliveryConstants DEF TypeOK
  <2>1. outbox' \in [Events -> OutboxRow]
    BY DEF OutboxRow, WorkerState
  <2>2. lease' \in [LeaseIds -> LeaseRow]
    BY DEF LeaseRow, WorkerState
  <2>3. deadLetters' \in [Events -> SUBSET {"quarantined", "replay_requested"}]
    BY DEF WorkerState
  <2>4. received' \in [Events -> Nat]
    BY DEF WorkerState
  <2>5. worker' \in [Workers -> WorkerState]
    <3>1. worker[w].event \in Events \union {Nil}
      BY DEF WorkerState
    <3> QED BY <3>1, CallType
  <2>6. recovery' \in [batch : SUBSET LeaseIds, current : LeaseIds \union {Nil}]
    OBVIOUS
  <2>7. operator' \in [event : Events \union {Nil},
                      row : {"none", "quarantined", "replay_requested"},
                      seen : Status, pc : {"idle", "requeue", "mark"}]
    OBVIOUS
  <2> QED BY <2>1, <2>2, <2>3, <2>4, <2>5, <2>6, <2>7
<1>2. OneActiveLease'
  BY DEF OneActiveLease, Active, TypeOK, LeaseRow
<1>3. PublishedIsIngested'
  BY DEF PublishedIsIngested, IngestedBeforePublish, TypeOK, OutboxRow
<1>4. IngestedOnce'
  BY DEF IngestedOnce, TypeOK
<1>5. CallsKnowEvent'
  BY DEF CallsKnowEvent, TypeOK, WorkerState
<1>6. IngestedBeforePublish'
  BY DEF IngestedBeforePublish, CallsKnowEvent, TypeOK, WorkerState
<1>7. OwnLease'
  BY DEF OwnLease, TypeOK, WorkerState
<1>8. KnownIsCommitted'
  BY DEF KnownIsCommitted, CallsKnowEvent, TypeOK, WorkerState, OutboxRow
<1> QED BY <1>1, <1>2, <1>3, <1>4, <1>5, <1>6, <1>7, <1>8

LEMMA JobRereadsInv ==
    ASSUME DeliveryInv, NEW w \in Workers, JobRereads(w)
    PROVE  DeliveryInv'
<1> USE DEF DeliveryInv, JobRereads
<1>1. TypeOK'
  <2> USE DeliveryConstants DEF TypeOK
  <2>1. outbox' \in [Events -> OutboxRow]
    BY DEF OutboxRow, WorkerState
  <2>2. lease' \in [LeaseIds -> LeaseRow]
    BY DEF LeaseRow, WorkerState
  <2>3. deadLetters' \in [Events -> SUBSET {"quarantined", "replay_requested"}]
    BY DEF WorkerState
  <2>4. received' \in [Events -> Nat]
    BY DEF WorkerState
  <2>5. worker' \in [Workers -> WorkerState]
    <3>1. [worker[w] EXCEPT !.pc = "exhausted"] \in WorkerState
      BY DEF WorkerState
    <3>2. IdleWorker \in WorkerState
      BY DEF WorkerState
    <3> QED BY <3>1, <3>2
  <2>6. recovery' \in [batch : SUBSET LeaseIds, current : LeaseIds \union {Nil}]
    OBVIOUS
  <2>7. operator' \in [event : Events \union {Nil},
                      row : {"none", "quarantined", "replay_requested"},
                      seen : Status, pc : {"idle", "requeue", "mark"}]
    OBVIOUS
  <2> QED BY <2>1, <2>2, <2>3, <2>4, <2>5, <2>6, <2>7
<1>2. OneActiveLease'
  BY DEF OneActiveLease, Active, TypeOK, LeaseRow
<1>3. PublishedIsIngested'
  BY DEF PublishedIsIngested, IngestedBeforePublish, TypeOK, OutboxRow
<1>4. IngestedOnce'
  BY DEF IngestedOnce, TypeOK
<1>5. CallsKnowEvent'
  BY DEF CallsKnowEvent, TypeOK, WorkerState
<1>6. IngestedBeforePublish'
  BY DEF IngestedBeforePublish, CallsKnowEvent, TypeOK, WorkerState
<1>7. OwnLease'
  BY DEF OwnLease, TypeOK, WorkerState
<1>8. KnownIsCommitted'
  BY DEF KnownIsCommitted, CallsKnowEvent, TypeOK, WorkerState, OutboxRow
<1> QED BY <1>1, <1>2, <1>3, <1>4, <1>5, <1>6, <1>7, <1>8

LEMMA DrainLogsInv ==
    ASSUME DeliveryInv, NEW w \in Workers, DrainLogs(w)
    PROVE  DeliveryInv'
<1> USE DEF DeliveryInv, DrainLogs
<1>1. TypeOK'
  BY DeliveryConstants
     DEF TypeOK, OutboxRow, LeaseRow, WorkerState, CallsKnowEvent
<1>2. OneActiveLease'
  BY DEF OneActiveLease, Active, TypeOK, LeaseRow
<1>3. PublishedIsIngested'
  BY DEF PublishedIsIngested, IngestedBeforePublish, TypeOK, OutboxRow
<1>4. IngestedOnce'
  BY DEF IngestedOnce, TypeOK
<1>5. CallsKnowEvent'
  BY DEF CallsKnowEvent, TypeOK, WorkerState
<1>6. IngestedBeforePublish'
  BY DEF IngestedBeforePublish, CallsKnowEvent, TypeOK, WorkerState
<1>7. OwnLease'
  BY DEF OwnLease, TypeOK, WorkerState
<1>8. KnownIsCommitted'
  BY DEF KnownIsCommitted, CallsKnowEvent, TypeOK, WorkerState, OutboxRow
<1> QED BY <1>1, <1>2, <1>3, <1>4, <1>5, <1>6, <1>7, <1>8

LEMMA FindOrCreateDeadLetterInv ==
    ASSUME DeliveryInv, NEW w \in Workers, FindOrCreateDeadLetter(w)
    PROVE  DeliveryInv'
<1> USE DEF DeliveryInv, FindOrCreateDeadLetter
<1>1. TypeOK'
  <2> USE DeliveryConstants DEF TypeOK
  <2>1. outbox' \in [Events -> OutboxRow]
    BY DEF OutboxRow, WorkerState
  <2>2. lease' \in [LeaseIds -> LeaseRow]
    BY DEF LeaseRow, WorkerState
  <2>3. deadLetters' \in [Events -> SUBSET {"quarantined", "replay_requested"}]
    BY DEF WorkerState
  <2>4. received' \in [Events -> Nat]
    BY DEF WorkerState
  <2>5. worker' \in [Workers -> WorkerState]
    <3>1. outbox[worker[w].event] \in OutboxRow /\ worker[w] \in WorkerState
      BY DEF CallsKnowEvent
    <3>2. outbox[worker[w].event].status \in Status
      BY <3>1 DEF OutboxRow
    <3>3. [worker[w] EXCEPT !.pc = "quarantining",
             !.seen = outbox[worker[w].event].status] \in WorkerState
      BY <3>1, <3>2 DEF WorkerState
    <3> QED BY <3>3
  <2>6. recovery' \in [batch : SUBSET LeaseIds, current : LeaseIds \union {Nil}]
    OBVIOUS
  <2>7. operator' \in [event : Events \union {Nil},
                      row : {"none", "quarantined", "replay_requested"},
                      seen : Status, pc : {"idle", "requeue", "mark"}]
    OBVIOUS
  <2> QED BY <2>1, <2>2, <2>3, <2>4, <2>5, <2>6, <2>7
<1>2. OneActiveLease'
  BY DEF OneActiveLease, Active, TypeOK, LeaseRow
<1>3. PublishedIsIngested'
  BY DEF PublishedIsIngested, IngestedBeforePublish, TypeOK, OutboxRow
<1>4. IngestedOnce'
  BY DEF IngestedOnce, TypeOK
<1>5. CallsKnowEvent'
  BY DEF CallsKnowEvent, TypeOK, WorkerState
<1>6. IngestedBeforePublish'
  BY DEF IngestedBeforePublish, CallsKnowEvent, TypeOK, WorkerState
<1>7. OwnLease'
  BY DEF OwnLease, TypeOK, WorkerState
<1>8. KnownIsCommitted'
  BY DEF KnownIsCommitted, CallsKnowEvent, TypeOK, WorkerState, OutboxRow
<1> QED BY <1>1, <1>2, <1>3, <1>4, <1>5, <1>6, <1>7, <1>8

LEMMA QuarantineInv ==
    ASSUME DeliveryInv, NEW w \in Workers, Quarantine(w)
    PROVE  DeliveryInv'
<1> USE DEF DeliveryInv, Quarantine, SaveStatus
<1>1. TypeOK'
  <2> USE DeliveryConstants DEF TypeOK
  <2>1. outbox' \in [Events -> OutboxRow]
    <3>1. worker[w].event \in Events => outbox[worker[w].event] \in OutboxRow
      OBVIOUS
    <3>2. worker[w].event \in Events => SaveStatus(w, "dead_letter") \in Status
      BY <3>1 DEF OutboxRow
    <3> QED BY <3>2, OutboxStatusType DEF CallsKnowEvent
  <2>2. lease' \in [LeaseIds -> LeaseRow]
    BY DEF LeaseRow, WorkerState
  <2>3. deadLetters' \in [Events -> SUBSET {"quarantined", "replay_requested"}]
    BY DEF WorkerState
  <2>4. received' \in [Events -> Nat]
    BY DEF WorkerState
  <2>5. worker' \in [Workers -> WorkerState]
    BY DEF WorkerState, OutboxRow, CallsKnowEvent
  <2>6. recovery' \in [batch : SUBSET LeaseIds, current : LeaseIds \union {Nil}]
    OBVIOUS
  <2>7. operator' \in [event : Events \union {Nil},
                      row : {"none", "quarantined", "replay_requested"},
                      seen : Status, pc : {"idle", "requeue", "mark"}]
    OBVIOUS
  <2> QED BY <2>1, <2>2, <2>3, <2>4, <2>5, <2>6, <2>7
<1>2. OneActiveLease'
  BY DEF OneActiveLease, Active, TypeOK, LeaseRow
<1>3. PublishedIsIngested'
  BY DEF PublishedIsIngested, IngestedBeforePublish, TypeOK, OutboxRow
<1>4. IngestedOnce'
  BY DEF IngestedOnce, TypeOK
<1>5. CallsKnowEvent'
  BY DEF CallsKnowEvent, TypeOK, WorkerState
<1>6. IngestedBeforePublish'
  BY DEF IngestedBeforePublish, CallsKnowEvent, TypeOK, WorkerState
<1>7. OwnLease'
  BY DEF OwnLease, TypeOK, WorkerState
<1>8. KnownIsCommitted'
  BY DEF KnownIsCommitted, CallsKnowEvent, TypeOK, WorkerState, OutboxRow
<1> QED BY <1>1, <1>2, <1>3, <1>4, <1>5, <1>6, <1>7, <1>8

LEMMA WorkerCrashInv ==
    ASSUME DeliveryInv, NEW w \in Workers, WorkerCrash(w)
    PROVE  DeliveryInv'
<1> USE DEF DeliveryInv, WorkerCrash
<1>1. TypeOK'
  BY DeliveryConstants
     DEF TypeOK, OutboxRow, LeaseRow, WorkerState, CallsKnowEvent
<1>2. OneActiveLease'
  BY DEF OneActiveLease, Active, TypeOK, LeaseRow
<1>3. PublishedIsIngested'
  BY DEF PublishedIsIngested, IngestedBeforePublish, TypeOK, OutboxRow
<1>4. IngestedOnce'
  BY DEF IngestedOnce, TypeOK
<1>5. CallsKnowEvent'
  BY DEF CallsKnowEvent, TypeOK, WorkerState
<1>6. IngestedBeforePublish'
  BY DEF IngestedBeforePublish, CallsKnowEvent, TypeOK, WorkerState
<1>7. OwnLease'
  BY DEF OwnLease, TypeOK, WorkerState
<1>8. KnownIsCommitted'
  BY DEF KnownIsCommitted, CallsKnowEvent, TypeOK, WorkerState, OutboxRow
<1> QED BY <1>1, <1>2, <1>3, <1>4, <1>5, <1>6, <1>7, <1>8

\* Time, the recovery job, the operator.
LEMMA LeaseRunsOutInv ==
    ASSUME DeliveryInv, NEW l \in LeaseIds, LeaseRunsOut(l)
    PROVE  DeliveryInv'
<1> USE DEF DeliveryInv, LeaseRunsOut
<1>1. TypeOK'
  <2> USE DeliveryConstants DEF TypeOK
  <2>1. outbox' \in [Events -> OutboxRow]
    BY DEF OutboxRow, WorkerState
  <2>2. lease' \in [LeaseIds -> LeaseRow]
    <3>1. lease[l] \in LeaseRow
      OBVIOUS
    <3>2. [lease[l] EXCEPT !.overdue = TRUE] \in LeaseRow
      BY <3>1 DEF LeaseRow
    <3> QED BY <3>2
  <2>3. deadLetters' \in [Events -> SUBSET {"quarantined", "replay_requested"}]
    BY DEF WorkerState
  <2>4. received' \in [Events -> Nat]
    BY DEF WorkerState
  <2>5. worker' \in [Workers -> WorkerState]
    BY DEF WorkerState, OutboxRow, CallsKnowEvent
  <2>6. recovery' \in [batch : SUBSET LeaseIds, current : LeaseIds \union {Nil}]
    OBVIOUS
  <2>7. operator' \in [event : Events \union {Nil},
                      row : {"none", "quarantined", "replay_requested"},
                      seen : Status, pc : {"idle", "requeue", "mark"}]
    OBVIOUS
  <2> QED BY <2>1, <2>2, <2>3, <2>4, <2>5, <2>6, <2>7
<1>2. OneActiveLease'
  BY DEF OneActiveLease, Active, TypeOK, LeaseRow
<1>3. PublishedIsIngested'
  BY DEF PublishedIsIngested, IngestedBeforePublish, TypeOK, OutboxRow
<1>4. IngestedOnce'
  BY DEF IngestedOnce, TypeOK
<1>5. CallsKnowEvent'
  BY DEF CallsKnowEvent, TypeOK, WorkerState
<1>6. IngestedBeforePublish'
  BY DEF IngestedBeforePublish, CallsKnowEvent, TypeOK, WorkerState
<1>7. OwnLease'
  BY DEF OwnLease, TypeOK, WorkerState
<1>8. KnownIsCommitted'
  BY DEF KnownIsCommitted, CallsKnowEvent, TypeOK, WorkerState, OutboxRow
<1> QED BY <1>1, <1>2, <1>3, <1>4, <1>5, <1>6, <1>7, <1>8

LEMMA FindStaleInv ==
    ASSUME DeliveryInv, FindStale
    PROVE  DeliveryInv'
<1> USE DEF DeliveryInv, FindStale
<1>1. TypeOK'
  BY DeliveryConstants
     DEF TypeOK, OutboxRow, LeaseRow, WorkerState, CallsKnowEvent
<1>2. OneActiveLease'
  BY DEF OneActiveLease, Active, TypeOK, LeaseRow
<1>3. PublishedIsIngested'
  BY DEF PublishedIsIngested, IngestedBeforePublish, TypeOK, OutboxRow
<1>4. IngestedOnce'
  BY DEF IngestedOnce, TypeOK
<1>5. CallsKnowEvent'
  BY DEF CallsKnowEvent, TypeOK, WorkerState
<1>6. IngestedBeforePublish'
  BY DEF IngestedBeforePublish, CallsKnowEvent, TypeOK, WorkerState
<1>7. OwnLease'
  BY DEF OwnLease, TypeOK, WorkerState
<1>8. KnownIsCommitted'
  BY DEF KnownIsCommitted, CallsKnowEvent, TypeOK, WorkerState, OutboxRow
<1> QED BY <1>1, <1>2, <1>3, <1>4, <1>5, <1>6, <1>7, <1>8

LEMMA RequeueOutboxInv ==
    ASSUME DeliveryInv, RequeueOutbox
    PROVE  DeliveryInv'
<1> USE DEF DeliveryInv, RequeueOutbox
<1>1. TypeOK'
  <2> USE DeliveryConstants DEF TypeOK
  <2>1. outbox' \in [Events -> OutboxRow]
    <3> DEFINE e == lease[recovery.current].event
    <3>1. CASE e \in Events
      <4>1. outbox[e] \in OutboxRow
        BY <3>1
      <4>2. [outbox[e] EXCEPT !.status = IF @ = "publishing" THEN "retry" ELSE @]
              \in OutboxRow
        BY <4>1 DEF OutboxRow
      <4> QED BY <3>1, <4>2
    <3>2. CASE e \notin Events
      BY <3>2
    <3> QED BY <3>1, <3>2
  <2>2. lease' \in [LeaseIds -> LeaseRow]
    BY DEF LeaseRow, WorkerState
  <2>3. deadLetters' \in [Events -> SUBSET {"quarantined", "replay_requested"}]
    BY DEF WorkerState
  <2>4. received' \in [Events -> Nat]
    BY DEF WorkerState
  <2>5. worker' \in [Workers -> WorkerState]
    BY DEF WorkerState, OutboxRow, CallsKnowEvent
  <2>6. recovery' \in [batch : SUBSET LeaseIds, current : LeaseIds \union {Nil}]
    OBVIOUS
  <2>7. operator' \in [event : Events \union {Nil},
                      row : {"none", "quarantined", "replay_requested"},
                      seen : Status, pc : {"idle", "requeue", "mark"}]
    OBVIOUS
  <2> QED BY <2>1, <2>2, <2>3, <2>4, <2>5, <2>6, <2>7
<1>2. OneActiveLease'
  BY DEF OneActiveLease, Active, TypeOK, LeaseRow
<1>3. PublishedIsIngested'
  BY DEF PublishedIsIngested, IngestedBeforePublish, TypeOK, OutboxRow
<1>4. IngestedOnce'
  BY DEF IngestedOnce, TypeOK
<1>5. CallsKnowEvent'
  BY DEF CallsKnowEvent, TypeOK, WorkerState
<1>6. IngestedBeforePublish'
  BY DEF IngestedBeforePublish, CallsKnowEvent, TypeOK, WorkerState
<1>7. OwnLease'
  BY DEF OwnLease, TypeOK, WorkerState
<1>8. KnownIsCommitted'
  BY DEF KnownIsCommitted, CallsKnowEvent, TypeOK, WorkerState, OutboxRow
<1> QED BY <1>1, <1>2, <1>3, <1>4, <1>5, <1>6, <1>7, <1>8

LEMMA RecoveryCrashInv ==
    ASSUME DeliveryInv, RecoveryCrash
    PROVE  DeliveryInv'
<1> USE DEF DeliveryInv, RecoveryCrash
<1>1. TypeOK'
  BY DeliveryConstants
     DEF TypeOK, OutboxRow, LeaseRow, WorkerState, CallsKnowEvent
<1>2. OneActiveLease'
  BY DEF OneActiveLease, Active, TypeOK, LeaseRow
<1>3. PublishedIsIngested'
  BY DEF PublishedIsIngested, IngestedBeforePublish, TypeOK, OutboxRow
<1>4. IngestedOnce'
  BY DEF IngestedOnce, TypeOK
<1>5. CallsKnowEvent'
  BY DEF CallsKnowEvent, TypeOK, WorkerState
<1>6. IngestedBeforePublish'
  BY DEF IngestedBeforePublish, CallsKnowEvent, TypeOK, WorkerState
<1>7. OwnLease'
  BY DEF OwnLease, TypeOK, WorkerState
<1>8. KnownIsCommitted'
  BY DEF KnownIsCommitted, CallsKnowEvent, TypeOK, WorkerState, OutboxRow
<1> QED BY <1>1, <1>2, <1>3, <1>4, <1>5, <1>6, <1>7, <1>8

LEMMA ReplayOutboxInv ==
    ASSUME DeliveryInv, ReplayOutbox
    PROVE  DeliveryInv'
<1> USE DEF DeliveryInv, ReplayOutbox
<1>1. TypeOK'
  <2> USE DeliveryConstants DEF TypeOK
  <2>1. outbox' \in [Events -> OutboxRow]
    <3> DEFINE e == operator.event
    <3>1. CASE e \in Events
      <4>1. outbox[e] \in OutboxRow
        BY <3>1
      <4>2. [outbox[e] EXCEPT !.status = IF operator.seen = "retry" THEN @ ELSE "retry"]
              \in OutboxRow
        BY <4>1 DEF OutboxRow
      <4> QED BY <3>1, <4>2
    <3>2. CASE e \notin Events
      BY <3>2
    <3> QED BY <3>1, <3>2
  <2>2. lease' \in [LeaseIds -> LeaseRow]
    BY DEF LeaseRow, WorkerState
  <2>3. deadLetters' \in [Events -> SUBSET {"quarantined", "replay_requested"}]
    BY DEF WorkerState
  <2>4. received' \in [Events -> Nat]
    BY DEF WorkerState
  <2>5. worker' \in [Workers -> WorkerState]
    BY DEF WorkerState, OutboxRow, CallsKnowEvent
  <2>6. recovery' \in [batch : SUBSET LeaseIds, current : LeaseIds \union {Nil}]
    OBVIOUS
  <2>7. operator' \in [event : Events \union {Nil},
                      row : {"none", "quarantined", "replay_requested"},
                      seen : Status, pc : {"idle", "requeue", "mark"}]
    OBVIOUS
  <2> QED BY <2>1, <2>2, <2>3, <2>4, <2>5, <2>6, <2>7
<1>2. OneActiveLease'
  BY DEF OneActiveLease, Active, TypeOK, LeaseRow
<1>3. PublishedIsIngested'
  BY DEF PublishedIsIngested, IngestedBeforePublish, TypeOK, OutboxRow
<1>4. IngestedOnce'
  BY DEF IngestedOnce, TypeOK
<1>5. CallsKnowEvent'
  BY DEF CallsKnowEvent, TypeOK, WorkerState
<1>6. IngestedBeforePublish'
  BY DEF IngestedBeforePublish, CallsKnowEvent, TypeOK, WorkerState
<1>7. OwnLease'
  BY DEF OwnLease, TypeOK, WorkerState
<1>8. KnownIsCommitted'
  BY DEF KnownIsCommitted, CallsKnowEvent, TypeOK, WorkerState, OutboxRow
<1> QED BY <1>1, <1>2, <1>3, <1>4, <1>5, <1>6, <1>7, <1>8

LEMMA MarkReplayedInv ==
    ASSUME DeliveryInv, MarkReplayed
    PROVE  DeliveryInv'
<1> USE DEF DeliveryInv, MarkReplayed
<1>1. TypeOK'
  BY DeliveryConstants
     DEF TypeOK, OutboxRow, LeaseRow, WorkerState, CallsKnowEvent
<1>2. OneActiveLease'
  BY DEF OneActiveLease, Active, TypeOK, LeaseRow
<1>3. PublishedIsIngested'
  BY DEF PublishedIsIngested, IngestedBeforePublish, TypeOK, OutboxRow
<1>4. IngestedOnce'
  BY DEF IngestedOnce, TypeOK
<1>5. CallsKnowEvent'
  BY DEF CallsKnowEvent, TypeOK, WorkerState
<1>6. IngestedBeforePublish'
  BY DEF IngestedBeforePublish, CallsKnowEvent, TypeOK, WorkerState
<1>7. OwnLease'
  BY DEF OwnLease, TypeOK, WorkerState
<1>8. KnownIsCommitted'
  BY DEF KnownIsCommitted, CallsKnowEvent, TypeOK, WorkerState, OutboxRow
<1> QED BY <1>1, <1>2, <1>3, <1>4, <1>5, <1>6, <1>7, <1>8

LEMMA OperatorCrashInv ==
    ASSUME DeliveryInv, OperatorCrash
    PROVE  DeliveryInv'
<1> USE DEF DeliveryInv, OperatorCrash
<1>1. TypeOK'
  BY DeliveryConstants
     DEF TypeOK, OutboxRow, LeaseRow, WorkerState, CallsKnowEvent
<1>2. OneActiveLease'
  BY DEF OneActiveLease, Active, TypeOK, LeaseRow
<1>3. PublishedIsIngested'
  BY DEF PublishedIsIngested, IngestedBeforePublish, TypeOK, OutboxRow
<1>4. IngestedOnce'
  BY DEF IngestedOnce, TypeOK
<1>5. CallsKnowEvent'
  BY DEF CallsKnowEvent, TypeOK, WorkerState
<1>6. IngestedBeforePublish'
  BY DEF IngestedBeforePublish, CallsKnowEvent, TypeOK, WorkerState
<1>7. OwnLease'
  BY DEF OwnLease, TypeOK, WorkerState
<1>8. KnownIsCommitted'
  BY DEF KnownIsCommitted, CallsKnowEvent, TypeOK, WorkerState, OutboxRow
<1> QED BY <1>1, <1>2, <1>3, <1>4, <1>5, <1>6, <1>7, <1>8

LEMMA RecoverLeaseInv ==
    ASSUME DeliveryInv, NEW k \in LeaseIds, RecoverLease(k)
    PROVE  DeliveryInv'
<1> USE DEF DeliveryInv, RecoverLease
<1>1. TypeOK'
  <2> USE DeliveryConstants DEF TypeOK
  <2>1. outbox' \in [Events -> OutboxRow]
    BY DEF OutboxRow, WorkerState
  <2>2. lease' \in [LeaseIds -> LeaseRow]
    BY LeaseStatusType
  <2>3. deadLetters' \in [Events -> SUBSET {"quarantined", "replay_requested"}]
    BY DEF WorkerState
  <2>4. received' \in [Events -> Nat]
    BY DEF WorkerState
  <2>5. worker' \in [Workers -> WorkerState]
    BY DEF WorkerState, OutboxRow, CallsKnowEvent
  <2>6. recovery' \in [batch : SUBSET LeaseIds, current : LeaseIds \union {Nil}]
    OBVIOUS
  <2>7. operator' \in [event : Events \union {Nil},
                      row : {"none", "quarantined", "replay_requested"},
                      seen : Status, pc : {"idle", "requeue", "mark"}]
    OBVIOUS
  <2> QED BY <2>1, <2>2, <2>3, <2>4, <2>5, <2>6, <2>7
<1>2. OneActiveLease'
  BY DEF OneActiveLease, Active, TypeOK, LeaseRow
<1>3. PublishedIsIngested'
  BY DEF PublishedIsIngested, IngestedBeforePublish, TypeOK, OutboxRow
<1>4. IngestedOnce'
  BY DEF IngestedOnce, TypeOK
<1>5. CallsKnowEvent'
  BY DEF CallsKnowEvent, TypeOK, WorkerState
<1>6. IngestedBeforePublish'
  BY DEF IngestedBeforePublish, CallsKnowEvent, TypeOK, WorkerState
<1>7. OwnLease'
  BY DEF OwnLease, TypeOK, WorkerState
<1>8. KnownIsCommitted'
  BY DEF KnownIsCommitted, CallsKnowEvent, TypeOK, WorkerState, OutboxRow
<1> QED BY <1>1, <1>2, <1>3, <1>4, <1>5, <1>6, <1>7, <1>8

LEMMA OpenReplayInv ==
    ASSUME DeliveryInv, NEW e \in Events, NEW row \in deadLetters[e], OpenReplay(e, row)
    PROVE  DeliveryInv'
<1> USE DEF DeliveryInv, OpenReplay
<1>1. TypeOK'
  BY DeliveryConstants
     DEF TypeOK, OutboxRow, LeaseRow, WorkerState, CallsKnowEvent
<1>2. OneActiveLease'
  BY DEF OneActiveLease, Active, TypeOK, LeaseRow
<1>3. PublishedIsIngested'
  BY DEF PublishedIsIngested, IngestedBeforePublish, TypeOK, OutboxRow
<1>4. IngestedOnce'
  BY DEF IngestedOnce, TypeOK
<1>5. CallsKnowEvent'
  BY DEF CallsKnowEvent, TypeOK, WorkerState
<1>6. IngestedBeforePublish'
  BY DEF IngestedBeforePublish, CallsKnowEvent, TypeOK, WorkerState
<1>7. OwnLease'
  BY DEF OwnLease, TypeOK, WorkerState
<1>8. KnownIsCommitted'
  BY DEF KnownIsCommitted, CallsKnowEvent, TypeOK, WorkerState, OutboxRow
<1> QED BY <1>1, <1>2, <1>3, <1>4, <1>5, <1>6, <1>7, <1>8

\* Every step of the specification keeps the invariant.
LEMMA NextInv == DeliveryInv /\ [Next]_vars => DeliveryInv'
<1> SUFFICES ASSUME DeliveryInv, [Next]_vars PROVE DeliveryInv'
  OBVIOUS
<1>1. CASE \E e \in Events : Enqueue(e)
  BY <1>1, EnqueueInv
<1>2. CASE \E w \in Workers : WorkerStep(w)
  <2> PICK w \in Workers : WorkerStep(w)
    BY <1>2
  <2>1. CASE \E e \in Events : AcquireLease(w, e)
    BY <2>1, AcquireInv
  <2>2. CASE Progress(w)
    BY <2>2, OpenAttemptInv, FindExistingInv, CreateEventInv, PublishInv,
       ReleaseInv, RecordFailureInv, ReleaseAfterFailureInv, JobRereadsInv,
       DrainLogsInv, FindOrCreateDeadLetterInv, QuarantineInv
    DEF Progress
  <2>3. CASE StepFails(w) \/ EscapesTry(w) \/ WorkerCrash(w)
    BY <2>3, StepFailsInv, EscapesTryInv, WorkerCrashInv
  <2> QED BY <2>1, <2>2, <2>3 DEF WorkerStep
<1>3. CASE \E l \in LeaseIds : LeaseRunsOut(l)
  BY <1>3, LeaseRunsOutInv
<1>4. CASE RecoveryStep \/ RecoveryCrash
  BY <1>4, FindStaleInv, RecoverLeaseInv, RequeueOutboxInv, RecoveryCrashInv
  DEF RecoveryStep
<1>5. CASE OperatorStep \/ OperatorCrash
  BY <1>5, OpenReplayInv, ReplayOutboxInv, MarkReplayedInv, OperatorCrashInv
  DEF OperatorStep
<1>6. CASE UNCHANGED vars
  BY <1>6 DEF vars, DeliveryInv, TypeOK, OneActiveLease, Active,
     PublishedIsIngested, IngestedOnce, CallsKnowEvent, IngestedBeforePublish,
     OwnLease, KnownIsCommitted
<1> QED BY <1>1, <1>2, <1>3, <1>4, <1>5, <1>6 DEF Next

THEOREM InvariantHolds == Spec => []DeliveryInv
BY InitInv, NextInv, PTL DEF Spec

\* The tables keep their types in every reachable state.
THEOREM TypeCorrect == Spec => []TypeOK
BY InvariantHolds, PTL DEF DeliveryInv

\* acquireDeliveryLease never leaves two active leases on one outbox event,
\* however many workers, recovery runs and crashes there are.
THEOREM OneActiveLeaseHolds == Spec => []OneActiveLease
BY InvariantHolds, PTL DEF DeliveryInv

\* At most one live call holds an active lease of an event.
THEOREM ExclusiveHolderHolds == Spec => []ExclusiveHolder
<1>1. ASSUME DeliveryInv, NEW v \in LeaseHolders, NEW w \in LeaseHolders,
             worker[v].event = worker[w].event
      PROVE  v = w
  <2>1. v \in Workers /\ w \in Workers
    BY <1>1 DEF LeaseHolders
  <2>2. worker[v] \in WorkerState /\ worker[w] \in WorkerState
    BY <1>1, <2>1 DEF DeliveryInv, TypeOK
  <2>3. worker[v].lease \in LeaseIds /\ worker[w].lease \in LeaseIds
    BY <1>1, <2>2 DEF LeaseHolders, WorkerState
  <2>4. Active(worker[w].lease, worker[w].event)
        /\ Active(worker[v].lease, worker[v].event)
    BY <1>1 DEF LeaseHolders
  <2>5. worker[v].event \in Events
    BY <1>1, <2>1, <2>2, <2>3, DeliveryConstants
       DEF DeliveryInv, CallsKnowEvent, WorkerState
  <2>6. worker[v].lease = worker[w].lease
    BY <1>1, <2>3, <2>4, <2>5 DEF DeliveryInv, OneActiveLease
  <2> QED BY <1>1, <2>1, <2>3, <2>6, DeliveryConstants DEF DeliveryInv, OwnLease
<1>2. DeliveryInv => ExclusiveHolder
  BY <1>1 DEF ExclusiveHolder
<1> QED BY <1>2, InvariantHolds, PTL

\* A published row always has its business event.
THEOREM PublishedIsIngestedHolds == Spec => []PublishedIsIngested
BY InvariantHolds, PTL DEF DeliveryInv

\* Retries and races never make a second business event for one key.
THEOREM IngestedOnceHolds == Spec => []IngestedOnce
BY InvariantHolds, PTL DEF DeliveryInv

\* No row goes back to not being committed.
LEMMA CommittedStays ==
    ASSUME DeliveryInv, [Next]_vars, NEW e \in Events, outbox[e].status # "none"
    PROVE  outbox'[e].status # "none"
<1> USE DEF DeliveryInv
<1>1. CASE \E x \in Events : Enqueue(x)
  BY <1>1 DEF Enqueue, TypeOK
<1>2. CASE \E w \in Workers : WorkerStep(w)
  <2> PICK w \in Workers : WorkerStep(w)
    BY <1>2
  <2>1. CASE \E x \in Events : AcquireLease(w, x)
    BY <2>1 DEF AcquireLease, TypeOK, OutboxRow
  <2>2. CASE Publish(w) \/ RecordFailure(w) \/ Quarantine(w)
    BY <2>2 DEF Publish, RecordFailure, Quarantine, SaveOutbox, SaveStatus,
       TypeOK, OutboxRow
  <2>3. CASE outbox' = outbox
    BY <2>3
  <2> QED BY <2>1, <2>2, <2>3 DEF WorkerStep, Progress, OpenAttempt,
     FindExisting, CreateEvent, Release, StepFails, ReleaseAfterFailure,
     EscapesTry, JobRereads, DrainLogs, FindOrCreateDeadLetter, WorkerCrash
<1>3. CASE \E l \in LeaseIds : LeaseRunsOut(l)
  BY <1>3 DEF LeaseRunsOut
<1>4. CASE RecoveryStep \/ RecoveryCrash
  BY <1>4 DEF RecoveryStep, FindStale, RecoverLease, RequeueOutbox,
     RecoveryCrash, TypeOK, OutboxRow
<1>5. CASE OperatorStep \/ OperatorCrash
  BY <1>5 DEF OperatorStep, OpenReplay, ReplayOutbox, MarkReplayed,
     OperatorCrash, TypeOK, OutboxRow
<1>6. CASE UNCHANGED vars
  BY <1>6 DEF vars
<1> QED BY <1>1, <1>2, <1>3, <1>4, <1>5, <1>6 DEF Next

\* Only the transaction that causes an event commits its row.
LEMMA NoneStays ==
    ASSUME DeliveryInv, [Next]_vars, NEW e \in Events, outbox[e].status = "none",
           ~\E x \in Events : Enqueue(x)
    PROVE  outbox'[e].status = "none"
<1> USE DEF DeliveryInv
<1>2. CASE \E w \in Workers : WorkerStep(w)
  <2> PICK w \in Workers : WorkerStep(w)
    BY <1>2
  <2>1. CASE \E x \in Events : AcquireLease(w, x)
    BY <2>1 DEF AcquireLease, Claimable, TypeOK
  <2>2. worker[w].pc # "idle" => worker[w].event # e
    BY DEF KnownIsCommitted
  <2>3. CASE Progress(w) \/ StepFails(w) \/ EscapesTry(w) \/ WorkerCrash(w)
    BY <2>2, <2>3 DEF Progress, OpenAttempt, FindExisting,
       CreateEvent, Publish, Release, StepFails, RecordFailure,
       ReleaseAfterFailure, EscapesTry, JobRereads, DrainLogs,
       FindOrCreateDeadLetter, Quarantine, WorkerCrash, SaveOutbox, TypeOK
  <2> QED BY <2>1, <2>3 DEF WorkerStep
<1>3. CASE \E l \in LeaseIds : LeaseRunsOut(l)
  BY <1>3 DEF LeaseRunsOut
<1>4. CASE RecoveryStep \/ RecoveryCrash
  BY <1>4 DEF RecoveryStep, FindStale, RecoverLease, RequeueOutbox,
     RecoveryCrash, TypeOK, OutboxRow
<1>5. CASE OperatorStep \/ OperatorCrash
  BY <1>5 DEF OperatorStep, OpenReplay, ReplayOutbox, MarkReplayed,
     OperatorCrash, TypeOK, OutboxRow, KnownIsCommitted
<1>6. CASE UNCHANGED vars
  BY <1>6 DEF vars
<1> QED BY <1>2, <1>3, <1>4, <1>5, <1>6 DEF Next

\* What a step does to the facts that are promised: it commits one, it ingests one
\* that is committed and was not, or it does neither.
Committed == {e \in Events : outbox[e].status # "none"}

CommitsFact(e) == e \notin Committed /\ Committed' = Committed \union {e} /\ UNCHANGED received
IngestsFact(e) == /\ e \in Committed /\ received[e] = 0
               /\ received' = [received EXCEPT ![e] = 1] /\ UNCHANGED Committed

LEMMA PromisedMoves ==
    ASSUME DeliveryInv, [Next]_vars
    PROVE  \/ \E e \in Events : CommitsFact(e) \/ IngestsFact(e)
           \/ UNCHANGED <<Committed, received>>
<1>1. CASE \E e \in Events : Enqueue(e)
  <2> PICK e \in Events : Enqueue(e)
    BY <1>1
  <2>1. Committed' = Committed \union {e} /\ e \notin Committed
    BY DEF Enqueue, DeliveryInv, TypeOK, Committed
  <2> QED BY <2>1 DEF Enqueue, CommitsFact
<1>2. CASE \E w \in Workers : CreateEvent(w) /\ received' # received
  <2> PICK w \in Workers : CreateEvent(w) /\ received' # received
    BY <1>2
  <2> DEFINE e == worker[w].event
  <2>1. e \in Events /\ e \in Committed
    BY DEF CreateEvent, DeliveryInv, CallsKnowEvent, KnownIsCommitted, Committed
  <2>2. received[e] = 0 /\ received' = [received EXCEPT ![e] = @ + 1]
    BY <2>1 DEF CreateEvent, KeyTaken, DeliveryInv, TypeOK
  <2>3. UNCHANGED Committed
    BY DEF CreateEvent, Committed
  <2>4. received' = [received EXCEPT ![e] = 1]
    BY <2>2
  <2>5. IngestsFact(e)
    BY <2>1, <2>2, <2>3, <2>4 DEF IngestsFact
  <2> QED BY <2>1, <2>5
<1>3. CASE /\ ~\E e \in Events : Enqueue(e)
           /\ ~\E w \in Workers : CreateEvent(w) /\ received' # received
  <2>1. received' = received
    BY <1>3 DEF Next, vars, WorkerStep, Progress, RecoveryStep,
       OperatorStep, AcquireLease, OpenAttempt, FindExisting, CreateEvent,
       Publish, Release, StepFails, RecordFailure, ReleaseAfterFailure,
       EscapesTry, JobRereads, DrainLogs, FindOrCreateDeadLetter, Quarantine,
       WorkerCrash, LeaseRunsOut, FindStale, RecoverLease, RequeueOutbox,
       RecoveryCrash, OpenReplay, ReplayOutbox, MarkReplayed, OperatorCrash
  <2>2. \A e \in Events : outbox[e].status = "none" => outbox'[e].status = "none"
    BY <1>3, NoneStays
  <2>3. UNCHANGED Committed
    BY <2>2, CommittedStays DEF Committed
  <2> QED BY <2>1, <2>3
<1> QED BY <1>1, <1>2, <1>3

\* The outbox with its workers, leases, recovery and dead letters implements
\* FinancePromise: a committed fact is ingested at most once, and neither the
\* commit nor the ingestion is ever undone.
THEOREM PromiseImplemented == Spec => PromiseKept
<1>1. Init => Promise!Init
  BY DEF Init, Promise!Init
<1>2. ASSUME DeliveryInv, [Next]_vars
      PROVE  [Promise!Next]_(Promise!vars)
  <2>1. ASSUME NEW e \in Events, CommitsFact(e) PROVE Promise!Commit(e)
    BY <2>1 DEF CommitsFact, Committed, Promise!Commit
  <2>2. ASSUME NEW e \in Events, IngestsFact(e) PROVE Promise!Ingest(e)
    BY <1>2, <2>2 DEF IngestsFact, Committed, Promise!Ingest, DeliveryInv, TypeOK
  <2>3. CASE UNCHANGED <<Committed, received>>
    BY <2>3 DEF Committed, Promise!vars
  <2> QED BY <1>2, <2>1, <2>2, <2>3, PromisedMoves DEF Promise!Next
<1> QED BY <1>1, <1>2, InvariantHolds, PTL DEF Spec, PromiseKept, Promise!Spec

-----------------------------------------------------------------------------
(* Why no outbox row stays in 'publishing' for ever, also when workers die   *)
(* or outlive their leases: as long as the recovery job does not die between *)
(* its two writes, such a row has an active lease or the recovery job is     *)
(* about to requeue it.  FinanceDelivery_stranded shows the row that is      *)
(* abandoned when it does die there.                                         *)

\* As long as the lease of a call counts, nobody else has started on its event: a
\* call that is about to give the lease back has taken the row out of 'publishing',
\* and one whose memory says otherwise has nothing to take out.
Settles(row) ==
    /\ row.pc \in InTry \union {"leased", "failed", "recorded"} => row.lease # Nil
    /\ row.lease # Nil => lease[row.lease].event = row.event
    /\ row.lease # Nil /\ Active(row.lease, row.event) =>
         /\ row.pc \in {"published", "recorded"} => outbox[row.event].status # "publishing"
         /\ row.pc \in InTry \union {"failed"} /\ row.seen # "publishing" =>
              outbox[row.event].status # "publishing"

RecoveryInv == PublishingIsRecoverable /\ \A w \in Workers : Settles(worker[w])

NoNewPublishing ==
    \A e \in Events : outbox'[e].status = "publishing" => outbox[e].status = "publishing"

\* Statuses other than 'publishing' are all that saves and requeues write.
LEMMA StatusWrite ==
    ASSUME TypeOK, NEW e, NEW row, row.status # "publishing" \/ row.status = outbox[e].status,
           outbox' = [outbox EXCEPT ![e] = row]
    PROVE  NoNewPublishing
BY DEF TypeOK, NoNewPublishing

-----------------------------------------------------------------------------
(* Steps that leave the leases alone.                                       *)

\* A call that is not this one still settles its row.
LEMMA SettlesStays ==
    ASSUME NoNewPublishing, NEW row \in WorkerState, Settles(row),
           row.pc \in InTry \union {"failed", "recorded"} => row.event \in Events,
           row.lease # Nil => /\ lease'[row.lease].event = lease[row.lease].event
                              /\ Active(row.lease, row.event)' => Active(row.lease, row.event)
    PROVE  Settles(row)'
BY DEF Settles, NoNewPublishing

\* So do all calls that a step leaves alone, if it starts no delivery.
LEMMA OthersSettle ==
    ASSUME DeliveryInv, RecoveryInv, NoNewPublishing, NEW v \in Workers, worker'[v] = worker[v],
           \A l \in LeaseIds : /\ lease'[l].event = lease[l].event
                               /\ lease'[l].status = "active" => lease[l].status = "active"
    PROVE  Settles(worker[v])'
<1>1. PICK r \in WorkerState : r = worker[v]
  BY DEF DeliveryInv, TypeOK
<1>2. /\ Settles(r) /\ (r.pc # "idle" => r.event \in Events)
      /\ r.lease \in LeaseIds \union {Nil}
  BY <1>1 DEF RecoveryInv, DeliveryInv, CallsKnowEvent, WorkerState
<1>3. Settles(r)'
  BY <1>2, SettlesStays DEF Active
<1> QED BY <1>1, <1>3 DEF Settles

\* A call goes on, with its lease or without one.
LEMMA CallInv ==
    ASSUME DeliveryInv, RecoveryInv, NEW w \in Workers, NEW row,
           worker' = [worker EXCEPT ![w] = row],
           UNCHANGED <<lease, recovery>>, NoNewPublishing, Settles(row)'
    PROVE  RecoveryInv'
<1>1. /\ worker'[w] = row /\ \A v \in Workers \ {w} : worker'[v] = worker[v]
  BY DEF DeliveryInv, TypeOK
<1>2. PublishingIsRecoverable'
  BY DEF RecoveryInv, PublishingIsRecoverable, NoNewPublishing, Active
<1>3. Settles(worker[w])'
  BY <1>1 DEF Settles
<1>4. \A v \in Workers \ {w} : Settles(worker[v])'
  BY <1>1, OthersSettle
<1> QED BY <1>2, <1>3, <1>4 DEF RecoveryInv

\* Nobody else touches a lease or starts a delivery.
LEMMA OthersInv ==
    ASSUME DeliveryInv, RecoveryInv, UNCHANGED <<lease, recovery, worker>>, NoNewPublishing
    PROVE  RecoveryInv'
<1>1. PublishingIsRecoverable'
  BY DEF RecoveryInv, PublishingIsRecoverable, NoNewPublishing, Active
<1>2. \A v \in Workers : Settles(worker[v])'
  BY OthersSettle
<1> QED BY <1>1, <1>2 DEF RecoveryInv

\* What is written back by SaveStatus is the new status, or what the row has.
LEMMA SaveInv ==
    ASSUME DeliveryInv, NEW w \in Workers, NEW status, status # "publishing",
           SaveOutbox(w, status)
    PROVE  NoNewPublishing
<1>1. PICK row : /\ row = [status |-> SaveStatus(w, status), attempts |-> SaveAttempts(w)]
                 /\ outbox' = [outbox EXCEPT ![worker[w].event] = row]
  BY DEF SaveOutbox
<1>2. row.status = status \/ row.status = outbox[worker[w].event].status
  BY <1>1 DEF SaveStatus
<1> QED BY <1>1, <1>2, StatusWrite DEF DeliveryInv

\* After a save under a lease that counts the row is not in 'publishing'.
LEMMA SaveSettles ==
    ASSUME DeliveryInv, RecoveryInv, NEW w \in Workers, NEW status, status # "publishing",
           worker[w].pc \in InTry \union {"failed"}, SaveOutbox(w, status),
           Active(worker[w].lease, worker[w].event)
    PROVE  outbox'[worker[w].event].status # "publishing"
<1>1. worker[w].event \in Events /\ outbox \in [Events -> OutboxRow]
  BY DEF DeliveryInv, TypeOK, CallsKnowEvent
<1>2. outbox'[worker[w].event].status = SaveStatus(w, status)
  BY <1>1 DEF SaveOutbox
<1>3. worker[w].seen # "publishing" => outbox[worker[w].event].status # "publishing"
  BY DEF RecoveryInv, Settles
<1> QED BY <1>2, <1>3 DEF SaveStatus

LEMMA ProgressInv ==
    ASSUME DeliveryInv, RecoveryInv, NEW w \in Workers,
           \/ OpenAttempt(w) \/ FindExisting(w) \/ CreateEvent(w) \/ Publish(w)
           \/ RecordFailure(w) \/ JobRereads(w) \/ DrainLogs(w)
           \/ FindOrCreateDeadLetter(w) \/ Quarantine(w)
           \/ StepFails(w) \/ EscapesTry(w) \/ WorkerCrash(w)
    PROVE  RecoveryInv'
<1>1. PICK old : old = worker[w]
  OBVIOUS
<1>2. /\ old \in WorkerState /\ Settles(old) /\ (old.pc # "idle" => old.event \in Events)
      /\ worker \in [Workers -> WorkerState]
  BY <1>1 DEF DeliveryInv, TypeOK, CallsKnowEvent, RecoveryInv, Settles
<1>3. CASE OpenAttempt(w)
  <2>1. PICK row : row = [old EXCEPT !.pc = "delivering",
                            !.attempt = AtMostAttempts(outbox[old.event].attempts + 1),
                            !.seen = outbox[old.event].status]
    OBVIOUS
  <2>2. /\ worker' = [worker EXCEPT ![w] = row] /\ UNCHANGED <<lease, recovery, outbox>>
        /\ row.lease = old.lease /\ row.event = old.event /\ row.pc = "delivering"
        /\ row.seen = outbox[old.event].status /\ old.lease # Nil
    BY <1>1, <1>2, <1>3, <2>1 DEF OpenAttempt, WorkerState, Settles
  <2>3. NoNewPublishing /\ Settles(row)'
    BY <1>2, <2>2 DEF NoNewPublishing, Settles, Active
  <2> QED BY <1>1, <2>2, <2>3, CallInv
<1>4. CASE Publish(w)
  <2>1. PICK row : row = [old EXCEPT !.pc = "published", !.seen = "published", !.counted = TRUE]
    OBVIOUS
  <2>2. /\ worker' = [worker EXCEPT ![w] = row] /\ UNCHANGED <<lease, recovery>>
        /\ row.lease = old.lease /\ row.event = old.event /\ row.pc = "published"
        /\ old.lease # Nil /\ old.pc = "ingested" /\ SaveOutbox(w, "published")
    BY <1>1, <1>2, <1>4, <2>1 DEF Publish, WorkerState, Settles
  <2>3. /\ NoNewPublishing
        /\ Active(row.lease, row.event) => outbox'[row.event].status # "publishing"
    BY <1>1, <2>2, SaveInv, SaveSettles
  <2>4. Settles(row)'
    BY <1>2, <2>2, <2>3 DEF Settles, Active
  <2> QED BY <1>1, <2>2, <2>3, <2>4, CallInv
<1>5. CASE RecordFailure(w)
  <2>1. PICK row, status : /\ row = [old EXCEPT !.pc = "recorded"]
                           /\ status = IF old.attempt >= MaxAttempts THEN "dead_letter" ELSE "retry"
    OBVIOUS
  <2>2. /\ worker' = [worker EXCEPT ![w] = row] /\ UNCHANGED <<lease, recovery>>
        /\ row.lease = old.lease /\ row.event = old.event /\ row.pc = "recorded"
        /\ old.lease # Nil /\ old.pc = "failed" /\ status # "publishing" /\ SaveOutbox(w, status)
    BY <1>1, <1>2, <1>5, <2>1 DEF RecordFailure, Goto, WorkerState, Settles
  <2>3. /\ NoNewPublishing
        /\ Active(row.lease, row.event) => outbox'[row.event].status # "publishing"
    BY <1>1, <2>2, SaveInv, SaveSettles
  <2>4. Settles(row)'
    BY <1>2, <2>2, <2>3 DEF Settles, Active
  <2> QED BY <1>1, <2>2, <2>3, <2>4, CallInv
<1>6. CASE FindExisting(w) \/ CreateEvent(w) \/ StepFails(w)
  <2>1. PICK pc \in {"ingested", "creating", "failed"} :
          /\ worker' = [worker EXCEPT ![w].pc = pc] /\ UNCHANGED <<lease, recovery, outbox>>
          /\ old.pc \in InTry
    BY <1>1, <1>6 DEF FindExisting, CreateEvent, StepFails, Goto
  <2>2. PICK row : row = [old EXCEPT !.pc = pc]
    OBVIOUS
  <2>3. /\ worker' = [worker EXCEPT ![w] = row]
        /\ row.lease = old.lease /\ row.event = old.event /\ row.pc = pc
        /\ row.seen = old.seen /\ old.lease # Nil
    BY <1>1, <1>2, <2>1, <2>2 DEF WorkerState, Settles
  <2>4. NoNewPublishing /\ Settles(row)'
    BY <1>2, <2>1, <2>3 DEF NoNewPublishing, Settles, Active
  <2> QED BY <1>1, <2>1, <2>3, <2>4, CallInv
\* What is left has no lease afterwards.
<1>7. CASE \/ EscapesTry(w) \/ DrainLogs(w) \/ WorkerCrash(w)
  <2>1. PICK row : row = IF EscapesTry(w) THEN Call("thrown", old.event, Nil) ELSE IdleWorker
    OBVIOUS
  <2>2. worker' = [worker EXCEPT ![w] = row] /\ UNCHANGED <<lease, recovery, outbox>>
    BY <1>1, <1>7, <2>1 DEF EscapesTry, DrainLogs, WorkerCrash, Throw
  <2>3. row.lease = Nil /\ row.pc \in {"idle", "thrown"}
    BY <2>1
  <2>4. NoNewPublishing /\ Settles(row)'
    BY <2>2, <2>3 DEF NoNewPublishing, Settles
  <2> QED BY <2>2, <2>3, <2>4, CallInv
<1>8. CASE JobRereads(w)
  <2>1. PICK row : row = IF outbox[old.event].attempts >= MaxAttempts
                         THEN [old EXCEPT !.pc = "exhausted"] ELSE IdleWorker
    OBVIOUS
  <2>2. worker' = [worker EXCEPT ![w] = row] /\ UNCHANGED <<lease, recovery, outbox>>
    BY <1>1, <1>8, <2>1 DEF JobRereads
  <2>3. /\ row.lease = Nil \/ (row.lease = old.lease /\ row.event = old.event)
        /\ row.pc \in {"idle", "exhausted"}
    BY <1>2, <2>1 DEF WorkerState
  <2>4. NoNewPublishing /\ Settles(row)'
    BY <1>2, <2>2, <2>3 DEF NoNewPublishing, Settles
  <2> QED BY <1>1, <2>2, <2>3, <2>4, CallInv
<1>9. CASE FindOrCreateDeadLetter(w)
  <2>1. PICK row : row = [old EXCEPT !.pc = "quarantining", !.seen = outbox[old.event].status]
    OBVIOUS
  <2>2. /\ worker' = [worker EXCEPT ![w] = row] /\ UNCHANGED <<lease, recovery, outbox>>
        /\ row.lease = old.lease /\ row.event = old.event /\ row.pc = "quarantining"
    BY <1>1, <1>2, <1>9, <2>1 DEF FindOrCreateDeadLetter, WorkerState
  <2>3. NoNewPublishing /\ Settles(row)'
    BY <1>2, <2>2 DEF NoNewPublishing, Settles
  <2> QED BY <1>1, <2>2, <2>3, CallInv
<1>10. CASE Quarantine(w)
  <2>1. /\ worker' = [worker EXCEPT ![w] = IdleWorker] /\ UNCHANGED <<lease, recovery>>
        /\ outbox' = [outbox EXCEPT ![worker[w].event].status = SaveStatus(w, "dead_letter")]
    BY <1>10 DEF Quarantine
  <2>2. PICK row : row = [outbox[worker[w].event] EXCEPT !.status = SaveStatus(w, "dead_letter")]
    OBVIOUS
  <2>3. outbox' = [outbox EXCEPT ![worker[w].event] = row]
    BY <2>1, <2>2
  <2>4. worker[w].event \in Events
    BY <1>1, <1>2, <1>10 DEF Quarantine
  <2>5. row.status # "publishing" \/ row.status = outbox[worker[w].event].status
    BY <2>2, <2>4 DEF SaveStatus, DeliveryInv, TypeOK, OutboxRow
  <2>6. NoNewPublishing
    BY <2>3, <2>5, StatusWrite DEF DeliveryInv
  <2>7. Settles(IdleWorker)'
    BY DEF Settles
  <2> QED BY <2>1, <2>6, <2>7, CallInv
<1> QED BY <1>3, <1>4, <1>5, <1>6, <1>7, <1>8, <1>9, <1>10

-----------------------------------------------------------------------------
(* Steps that change a lease.                                               *)

\* A call gives its lease back after its row has left 'publishing', or after
\* somebody else has taken over.
LEMMA GivesBackInv ==
    ASSUME DeliveryInv, RecoveryInv, NEW w \in Workers,
           Release(w) \/ ReleaseAfterFailure(w)
    PROVE  RecoveryInv'
<1>1. PICK l : l = worker[w].lease
  OBVIOUS
<1>2. PICK row \in {IdleWorker, Call("thrown", worker[w].event, Nil)} :
        /\ worker' = [worker EXCEPT ![w] = row]
        /\ worker[w].pc \in {"published", "recorded"} /\ UNCHANGED <<outbox, recovery>>
        /\ lease' = [lease EXCEPT ![l].status = "released"]
  BY <1>1 DEF Release, ReleaseAfterFailure, ReleaseLease, Throw
<1>3. /\ l \in LeaseIds /\ lease[l].event = worker[w].event
      /\ lease[l].status = "active" => outbox[worker[w].event].status # "publishing"
  BY <1>1, <1>2 DEF RecoveryInv, Settles, Active, DeliveryInv, TypeOK, WorkerState
<1>4. /\ lease \in [LeaseIds -> LeaseRow] /\ worker \in [Workers -> WorkerState]
      /\ recovery.current \in LeaseIds \union {Nil}
      /\ row.lease = Nil /\ row.pc \in {"idle", "thrown"}
  BY DEF DeliveryInv, TypeOK
<1>5. /\ worker'[w] = row /\ \A v \in Workers \ {w} : worker'[v] = worker[v]
  BY <1>2, <1>4
<1>6. /\ \A m \in LeaseIds \ {l} : lease'[m] = lease[m]
      /\ \A m \in LeaseIds : /\ lease'[m].event = lease[m].event
                             /\ lease'[m].status = "active" => lease[m].status = "active"
  BY <1>2, <1>4 DEF LeaseRow
<1>7. PublishingIsRecoverable'
  <2> SUFFICES ASSUME NEW e \in Events, outbox'[e].status = "publishing"
               PROVE  \/ \E m \in LeaseIds : Active(m, e)'
                      \/ recovery'.current # Nil /\ lease'[recovery'.current].event = e
    BY DEF PublishingIsRecoverable
  <2>1. CASE \E m \in LeaseIds : Active(m, e)
    <3>1. PICK m \in LeaseIds : Active(m, e)
      BY <2>1
    <3>2. m # l
      BY <1>2, <1>3, <3>1 DEF Active
    <3> QED BY <1>6, <3>1, <3>2 DEF Active
  <2>2. CASE recovery.current # Nil /\ lease[recovery.current].event = e
    BY <1>2, <1>4, <1>6, <2>2
  <2> QED BY <1>2, <2>1, <2>2 DEF RecoveryInv, PublishingIsRecoverable
<1>8. Settles(worker[w])'
  BY <1>4, <1>5 DEF Settles
<1>9. NoNewPublishing
  BY <1>2 DEF NoNewPublishing
<1>10. \A v \in Workers \ {w} : Settles(worker[v])'
  BY <1>5, <1>6, <1>9, OthersSettle
<1> QED BY <1>7, <1>8, <1>10 DEF RecoveryInv

\* A delivery starts: the leases of the event that earlier calls still have count
\* no more, and the lease it takes is nobody's.
LEMMA StartsInv ==
    ASSUME DeliveryInv, RecoveryInv, NEW w \in Workers, NEW e \in Events, AcquireLease(w, e)
    PROVE  RecoveryInv'
<1>1. PICK l \in LeaseIds :
        /\ lease[l].status # "active" /\ ~Held(l)
        /\ lease' = [ExpireOverdue(e) EXCEPT ![l] =
                       [event |-> e, status |-> "active", overdue |-> FALSE]]
        /\ worker' = [worker EXCEPT ![w] = Call("leased", e, l)]
  BY DEF AcquireLease
<1>2. /\ outbox' = [outbox EXCEPT ![e].status = "publishing"] /\ UNCHANGED recovery
      /\ \A m \in LeaseIds : Active(m, e) => lease[m].overdue
  BY DEF AcquireLease
<1>3. /\ lease \in [LeaseIds -> LeaseRow] /\ worker \in [Workers -> WorkerState]
      /\ outbox \in [Events -> OutboxRow] /\ recovery.current \in LeaseIds \union {Nil}
  BY DEF DeliveryInv, TypeOK
<1>4. /\ Active(l, e)' /\ lease'[l].event = e
      /\ \A m \in LeaseIds \ {l} : lease'[m].event = lease[m].event /\ ~Active(m, e)'
      /\ \A m \in LeaseIds \ {l} : ~Active(m, e) => lease'[m] = lease[m]
  BY <1>1, <1>2, <1>3 DEF ExpireOverdue, Active, LeaseRow
<1>5. /\ worker'[w] = Call("leased", e, l)
      /\ \A v \in Workers \ {w} : worker'[v] = worker[v]
  BY <1>1, <1>3
<1>6. \A f \in Events \ {e} : outbox'[f] = outbox[f]
  BY <1>2, <1>3
<1>7. PublishingIsRecoverable'
  <2> SUFFICES ASSUME NEW f \in Events, outbox'[f].status = "publishing"
               PROVE  \/ \E m \in LeaseIds : Active(m, f)'
                      \/ recovery'.current # Nil /\ lease'[recovery'.current].event = f
    BY DEF PublishingIsRecoverable
  <2>1. CASE f = e
    BY <1>4, <2>1
  <2>2. CASE f # e
    <3>1. \/ \E m \in LeaseIds : Active(m, f)
          \/ recovery.current # Nil /\ lease[recovery.current].event = f
      BY <1>6, <2>2 DEF RecoveryInv, PublishingIsRecoverable
    <3>2. CASE \E m \in LeaseIds : Active(m, f)
      <4>1. PICK m \in LeaseIds : Active(m, f)
        BY <3>2
      <4>2. m # l /\ ~Active(m, e)
        BY <1>1, <2>2, <4>1 DEF Active
      <4> QED BY <1>4, <4>1, <4>2 DEF Active
    <3>3. CASE recovery.current # Nil /\ lease[recovery.current].event = f
      <4>1. l # recovery.current
        BY <1>1 DEF Held
      <4> QED BY <1>2, <1>3, <1>4, <3>3, <4>1
    <3> QED BY <3>1, <3>2, <3>3
  <2> QED BY <2>1, <2>2
<1>8. Settles(worker[w])'
  <2>1. l # Nil
    BY DeliveryConstants
  <2> QED BY <1>4, <1>5, <2>1 DEF Settles
<1>9. ASSUME NEW v \in Workers \ {w} PROVE Settles(worker[v])'
  <2>1. PICK r \in WorkerState : r = worker[v]
    BY <1>3
  <2>2. Settles(r) /\ worker'[v] = r /\ (r.pc # "idle" \/ r.lease # Nil => r.event \in Events)
    BY <1>5, <2>1 DEF RecoveryInv, DeliveryInv, CallsKnowEvent
  <2>3. r.lease # Nil => r.lease \in LeaseIds \ {l}
    BY <1>1, <2>1 DEF Held, WorkerState
  <2>4. Settles(r)'
    <3>1. CASE r.lease # Nil /\ r.event # e
      <4>1. ~Active(r.lease, e)
        BY <2>2, <3>1 DEF Settles, Active
      <4>2. lease'[r.lease] = lease[r.lease] /\ outbox'[r.event] = outbox[r.event]
        BY <1>4, <1>6, <2>2, <2>3, <3>1, <4>1
      <4> QED BY <2>2, <4>2 DEF Settles, Active
    <3>2. CASE r.lease # Nil /\ r.event = e
      BY <1>4, <2>2, <2>3, <3>2 DEF Settles
    <3>3. CASE r.lease = Nil
      BY <2>2, <3>3 DEF Settles
    <3> QED BY <3>1, <3>2, <3>3
  <2> QED BY <2>2, <2>4 DEF Settles
<1> QED BY <1>7, <1>8, <1>9 DEF RecoveryInv

\* Leases run out at any time.
LEMMA ClockInv ==
    ASSUME DeliveryInv, RecoveryInv, NEW l \in LeaseIds, LeaseRunsOut(l)
    PROVE  RecoveryInv'
<1>1. /\ lease' = [lease EXCEPT ![l].overdue = TRUE]
      /\ UNCHANGED <<outbox, worker, recovery>>
  BY DEF LeaseRunsOut
<1>2. /\ lease \in [LeaseIds -> LeaseRow] /\ recovery.current \in LeaseIds \union {Nil}
  BY DEF DeliveryInv, TypeOK
<1>3. \A m \in LeaseIds : lease'[m].event = lease[m].event /\ lease'[m].status = lease[m].status
  BY <1>1, <1>2 DEF LeaseRow
<1>4. PublishingIsRecoverable'
  BY <1>1, <1>2, <1>3 DEF RecoveryInv, PublishingIsRecoverable, Active
<1>5. NoNewPublishing
  BY <1>1 DEF NoNewPublishing
<1>6. \A v \in Workers : Settles(worker[v])'
  BY <1>1, <1>3, <1>5, OthersSettle
<1> QED BY <1>4, <1>6 DEF RecoveryInv

LEMMA FindsInv == ASSUME DeliveryInv, RecoveryInv, FindStale PROVE RecoveryInv'
<1>1. /\ recovery = IdleRecovery /\ UNCHANGED <<outbox, lease, worker>>
      /\ recovery' = [IdleRecovery EXCEPT !.batch =
           {l \in LeaseIds : lease[l].status = "active" /\ lease[l].overdue}]
  BY DEF FindStale
<1>2. PublishingIsRecoverable'
  BY <1>1 DEF RecoveryInv, PublishingIsRecoverable, Active
<1>3. NoNewPublishing
  BY <1>1 DEF NoNewPublishing
<1>4. \A v \in Workers : Settles(worker[v])'
  BY <1>1, <1>3, OthersSettle
<1> QED BY <1>2, <1>4 DEF RecoveryInv

\* Between the two writes of recovery its memory is what keeps the row in sight.
LEMMA ExpiresInv ==
    ASSUME DeliveryInv, RecoveryInv, NEW l \in LeaseIds, RecoverLease(l)
    PROVE  RecoveryInv'
<1>1. /\ recovery.current = Nil /\ l \in recovery.batch /\ UNCHANGED <<outbox, worker>>
      /\ lease' = [lease EXCEPT ![l].status = "expired"]
      /\ recovery' = [batch |-> recovery.batch \ {l}, current |-> l]
  BY DEF RecoverLease
<1>2. lease \in [LeaseIds -> LeaseRow] /\ l # Nil
  BY DeliveryConstants DEF DeliveryInv, TypeOK
<1>3. /\ \A m \in LeaseIds \ {l} : lease'[m] = lease[m]
      /\ \A m \in LeaseIds : /\ lease'[m].event = lease[m].event
                             /\ lease'[m].status = "active" => lease[m].status = "active"
  BY <1>1, <1>2 DEF LeaseRow
<1>4. PublishingIsRecoverable'
  BY <1>1, <1>2, <1>3 DEF RecoveryInv, PublishingIsRecoverable, Active
<1>5. NoNewPublishing
  BY <1>1 DEF NoNewPublishing
<1>6. \A v \in Workers : Settles(worker[v])'
  BY <1>1, <1>3, <1>5, OthersSettle
<1> QED BY <1>4, <1>6 DEF RecoveryInv

LEMMA RequeuesInv == ASSUME DeliveryInv, RecoveryInv, RequeueOutbox PROVE RecoveryInv'
<1>1. PICK e : e = lease[recovery.current].event
  OBVIOUS
<1>2. /\ recovery.current # Nil /\ UNCHANGED <<lease, worker>>
      /\ outbox' = [outbox EXCEPT ![e].status = IF @ = "publishing" THEN "retry" ELSE @]
      /\ recovery' = [recovery EXCEPT !.current = Nil]
  BY <1>1 DEF RequeueOutbox
<1>3. outbox \in [Events -> OutboxRow]
  BY <1>2 DEF DeliveryInv, TypeOK
<1>4. NoNewPublishing /\ (e \in Events => outbox'[e].status # "publishing")
  BY <1>2, <1>3 DEF NoNewPublishing, OutboxRow
<1>5. PublishingIsRecoverable'
  BY <1>1, <1>2, <1>3, <1>4 DEF RecoveryInv, PublishingIsRecoverable, NoNewPublishing, Active
<1>6. \A v \in Workers : Settles(worker[v])'
  BY <1>2, <1>4, OthersSettle
<1> QED BY <1>5, <1>6 DEF RecoveryInv

-----------------------------------------------------------------------------
(* The theorem.                                                             *)

LEMMA EnqueueOrReplay ==
    ASSUME DeliveryInv, RecoveryInv,
           (\E e \in Events : Enqueue(e)) \/ OperatorStep \/ OperatorCrash
    PROVE  RecoveryInv'
<1>1. UNCHANGED <<lease, recovery, worker>>
  BY DEF Enqueue, OperatorStep, OpenReplay, ReplayOutbox, MarkReplayed, OperatorCrash
<1>2. outbox \in [Events -> OutboxRow]
  BY DEF DeliveryInv, TypeOK
<1>3. NoNewPublishing
  BY <1>2 DEF Enqueue, OperatorStep, OpenReplay, ReplayOutbox, MarkReplayed, OperatorCrash,
              NoNewPublishing, OutboxRow
<1> QED BY <1>1, <1>3, OthersInv

LEMMA RecoveryNextInv ==
    ASSUME DeliveryInv, RecoveryInv, [Next]_vars, "recovery" \notin Crashable
    PROVE  RecoveryInv'
<1>1. CASE (\E e \in Events : Enqueue(e)) \/ OperatorStep \/ OperatorCrash
  BY <1>1, EnqueueOrReplay
<1>2. ASSUME NEW w \in Workers, WorkerStep(w) PROVE RecoveryInv'
  <2>1. CASE \E e \in Events : AcquireLease(w, e)
    BY <2>1, StartsInv
  <2>2. CASE Release(w) \/ ReleaseAfterFailure(w)
    BY <2>2, GivesBackInv
  <2> QED BY <1>2, <2>1, <2>2, ProgressInv DEF WorkerStep, Progress
<1>3. ASSUME NEW l \in LeaseIds, LeaseRunsOut(l) PROVE RecoveryInv'
  BY <1>3, ClockInv
<1>4. CASE RecoveryStep
  BY <1>4, FindsInv, ExpiresInv, RequeuesInv DEF RecoveryStep
<1>5. CASE RecoveryCrash
  BY <1>5 DEF RecoveryCrash
<1>6. CASE UNCHANGED vars
  <2>1. UNCHANGED <<lease, recovery, worker>> /\ NoNewPublishing
    BY <1>6 DEF vars, NoNewPublishing
  <2> QED BY <2>1, OthersInv
<1> QED BY <1>1, <1>2, <1>3, <1>4, <1>5, <1>6 DEF Next

\* However many workers die or outlive their leases, and whatever operators replay
\* meanwhile, a row in 'publishing' is never abandoned (recoverStaleLeases), as long
\* as the recovery job lives on.
THEOREM PublishingStaysRecoverable ==
    ASSUME "recovery" \notin Crashable
    PROVE  Spec => []PublishingIsRecoverable
<1>1. Init => RecoveryInv
  BY DEF Init, RecoveryInv, PublishingIsRecoverable, Settles
<1>2. DeliveryInv /\ RecoveryInv /\ [Next]_vars => RecoveryInv'
  BY RecoveryNextInv
<1>3. RecoveryInv => PublishingIsRecoverable
  BY DEF RecoveryInv
<1> QED BY <1>1, <1>2, <1>3, InvariantHolds, PTL DEF Spec
=============================================================================
