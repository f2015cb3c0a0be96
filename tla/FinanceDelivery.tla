-------------------------- MODULE FinanceDelivery ---------------------------
(***************************************************************************)
(* The transactional outbox and its delivery to the finance event engine:  *)
(* financeOutbox, financeDeliveryLease, financeEventDelivery,              *)
(* financeEventRecovery, financeDeadLetter and the publisher job.          *)
(*                                                                         *)
(* Every database statement outside a transaction is a step of its own,    *)
(* because each commits alone: workers, the recovery job and an operator   *)
(* interleave between them, and a process may die between any two.         *)
(*                                                                         *)
(* Sequelize's instance.update writes only the columns that differ from    *)
(* the values the instance was last read or written with.  The worker's    *)
(* field "seen" is that value of the status column (see SaveStatus).       *)
(*                                                                         *)
(* Abstractions.  Time is the flag "overdue" of a lease; available_at only *)
(* delays when the publisher looks at a row.  The attempt rows are read by *)
(* nobody but dashboards and are left out.  attempt_count is only compared *)
(* with MAX_ATTEMPTS and saturates there.  The row of a lease that is not  *)
(* active and that no process holds is never read again, and its identity  *)
(* is used again.                                                          *)
(***************************************************************************)
EXTENDS FinanceEvents

CONSTANTS Workers,      \* publisher ticks and drains running at the same time
          LeaseIds,     \* rows of finance_delivery_leases in use at one time
          MaxAttempts,  \* MAX_ATTEMPTS
          PublisherBatch, \* rows that one tick of the publisher takes, the oldest first
          Crashable,    \* the processes that may die: worker, recovery, operator
          LeaseOutlived \* may a lease run out while its worker is still alive?

ASSUME DeliveryConstants ==
    /\ Nil \notin Events \union LeaseIds
    /\ MaxAttempts \in Nat \ {0}
    /\ PublisherBatch \in Nat \ {0}
    /\ Crashable \subseteq {"worker", "recovery", "operator"}
    /\ LeaseOutlived \in BOOLEAN

VARIABLES outbox,      \* finance_outbox_events: status and attempt_count
          lease,       \* finance_delivery_leases
          deadLetters, \* statuses of the event's finance_dead_letters rows
          received,    \* number of finance_business_events rows with its key
          worker,      \* where each deliverOutboxEvent call stands
          recovery,    \* where the recovery job stands
          operator     \* where the dead-letter replay request stands

vars == <<outbox, lease, deadLetters, received, worker, recovery, operator>>

Status == {"none", "pending", "retry", "publishing", "published", "dead_letter"}
Claimable == {"pending", "retry"}
LeaseStatus == {"active", "released", "expired"}
\* The calls inside the try block of deliverOutboxEvent.
InTry == {"delivering", "creating", "ingested", "published"}
PC == InTry \union {"idle", "leased", "failed", "recorded", "thrown",
                    "exhausted", "quarantining"}

\* A call that has not read the outbox row yet, or no longer uses it.
Call(pc, e, l) == [pc |-> pc, event |-> e, lease |-> l, attempt |-> 0,
                   seen |-> "none", counted |-> FALSE]
IdleWorker == Call("idle", Nil, Nil)
IdleRecovery == [batch |-> {}, current |-> Nil]
IdleOperator == [event |-> Nil, row |-> "none", seen |-> "none", pc |-> "idle"]

AtMostAttempts(n) == IF n <= MaxAttempts THEN n ELSE MaxAttempts

Active(l, e) == lease[l].status = "active" /\ lease[l].event = e

Held(l) == \/ \E w \in Workers : worker[w].lease = l
           \/ l \in recovery.batch
           \/ l = recovery.current

Init ==
    /\ outbox = [e \in Events |-> [status |-> "none", attempts |-> 0]]
    /\ lease = [l \in LeaseIds |->
                  [event |-> Nil, status |-> "released", overdue |-> FALSE]]
    /\ deadLetters = [e \in Events |-> {}]
    /\ received = [e \in Events |-> 0]
    /\ worker = [w \in Workers |-> IdleWorker]
    /\ recovery = IdleRecovery
    /\ operator = IdleOperator

-----------------------------------------------------------------------------
(* The business transaction that causes the event writes the outbox row.    *)
(* A second call with the same key finds the row and changes nothing.       *)
Enqueue(e) ==
    /\ outbox[e].status = "none"
    /\ outbox' = [outbox EXCEPT ![e] = [status |-> "pending", attempts |-> 0]]
    /\ UNCHANGED <<lease, deadLetters, received, worker, recovery, operator>>

-----------------------------------------------------------------------------
(* One call of deliverOutboxEvent.                                          *)

Goto(w, pc) == worker' = [worker EXCEPT ![w].pc = pc]

\* instance.update({ status }) of the row the worker holds in memory.
SaveStatus(w, status) ==
    IF worker[w].seen = status THEN outbox[worker[w].event].status ELSE status

\* instance.update({ attempt_count: attemptNumber }) of the same row.
SaveAttempts(w) ==
    IF worker[w].counted THEN outbox[worker[w].event].attempts
                         ELSE worker[w].attempt

SaveOutbox(w, status) ==
    /\ outbox' = [outbox EXCEPT ![worker[w].event] =
                    [status |-> SaveStatus(w, status),
                     attempts |-> SaveAttempts(w)]]

\* Mutation: the overdue lease is not expired before a new one is created.
KeepOverdue(e) == lease

\* The leases of e after acquireDeliveryLease has expired the overdue ones.
ExpireOverdue(e) ==
    [l \in LeaseIds |-> IF Active(l, e) /\ lease[l].overdue
                        THEN [lease[l] EXCEPT !.status = "expired"]
                        ELSE lease[l]]

\* One transaction holding the lock of the outbox row.  When a lease that has
\* not run out is active the call returns null and changes nothing.
AcquireLease(w, e) ==
    /\ worker[w].pc = "idle"
    /\ outbox[e].status \in Claimable
    /\ \A l \in LeaseIds : Active(l, e) => lease[l].overdue
    /\ \E l \in LeaseIds :
         /\ lease[l].status # "active" /\ ~Held(l)
         /\ lease' = [ExpireOverdue(e) EXCEPT ![l] =
                        [event |-> e, status |-> "active", overdue |-> FALSE]]
         /\ worker' = [worker EXCEPT ![w] = Call("leased", e, l)]
    /\ outbox' = [outbox EXCEPT ![e].status = "publishing"]
    /\ UNCHANGED <<deadLetters, received, recovery, operator>>

\* The row is read again after the transaction, and the attempt is recorded.
OpenAttempt(w) ==
    /\ worker[w].pc = "leased"
    /\ worker' = [worker EXCEPT ![w].pc = "delivering",
                     ![w].attempt = AtMostAttempts(outbox[worker[w].event].attempts + 1),
                     ![w].seen = outbox[worker[w].event].status]
    /\ UNCHANGED <<outbox, lease, deadLetters, received, recovery, operator>>

\* Mutation: the row is published without waiting for the ingestion.
FindExistingBlindly(w) ==
    /\ worker[w].pc = "delivering"
    /\ Goto(w, "ingested")
    /\ UNCHANGED <<outbox, lease, deadLetters, received, recovery, operator>>

\* ingestBusinessEvent looks for the key first ...
FindExisting(w) ==
    /\ worker[w].pc = "delivering"
    /\ Goto(w, IF received[worker[w].event] > 0 THEN "ingested" ELSE "creating")
    /\ UNCHANGED <<outbox, lease, deadLetters, received, recovery, operator>>

\* Mutation: no unique index on idempotency_key.
NoUniqueKey(e) == FALSE

\* ... and inserts in a statement of its own; the unique index on
\* idempotency_key refuses the second of two racing inserts.
KeyTaken(e) == received[e] > 0

CreateEvent(w) ==
    /\ worker[w].pc = "creating"
    /\ IF KeyTaken(worker[w].event)
       THEN Goto(w, "failed") /\ UNCHANGED received
       ELSE /\ Goto(w, "ingested")
            /\ received' = [received EXCEPT ![worker[w].event] = @ + 1]
    /\ UNCHANGED <<outbox, lease, deadLetters, recovery, operator>>

Publish(w) ==
    /\ worker[w].pc = "ingested"
    /\ SaveOutbox(w, "published")
    /\ worker' = [worker EXCEPT ![w].pc = "published",
                     ![w].seen = "published", ![w].counted = TRUE]
    /\ UNCHANGED <<lease, deadLetters, received, recovery, operator>>

ReleaseLease(w) ==
    lease' = [lease EXCEPT ![worker[w].lease].status = "released"]

Release(w) ==
    /\ worker[w].pc = "published"
    /\ ReleaseLease(w)
    /\ worker' = [worker EXCEPT ![w] = IdleWorker]
    /\ UNCHANGED <<outbox, deadLetters, received, recovery, operator>>

\* The error reaches the job, which knows the event only.
Throw(w) ==
    worker' = [worker EXCEPT ![w] = Call("thrown", worker[w].event, Nil)]

\* Any statement of the try block may throw, the release of the lease too.
StepFails(w) ==
    /\ worker[w].pc \in InTry
    /\ Goto(w, "failed")
    /\ UNCHANGED <<outbox, lease, deadLetters, received, recovery, operator>>

\* Mutation: the failure leaves the row's status as it is.
RecordFailureAttempt(w) ==
    /\ worker[w].pc = "failed"
    /\ Goto(w, "recorded")
    /\ UNCHANGED <<outbox, lease, deadLetters, received, recovery, operator>>

RecordFailure(w) ==
    /\ worker[w].pc = "failed"
    /\ SaveOutbox(w, IF worker[w].attempt >= MaxAttempts THEN "dead_letter"
                                                         ELSE "retry")
    /\ Goto(w, "recorded")
    /\ UNCHANGED <<lease, deadLetters, received, recovery, operator>>

ReleaseAfterFailure(w) ==
    /\ worker[w].pc = "recorded"
    /\ ReleaseLease(w)
    /\ Throw(w)
    /\ UNCHANGED <<outbox, deadLetters, received, recovery, operator>>

\* Statements before the try block and inside the catch block throw to the
\* job; the lease stays active and the outbox row as it is.
EscapesTry(w) ==
    /\ worker[w].pc \in {"leased", "failed", "recorded"}
    /\ Throw(w)
    /\ UNCHANGED <<outbox, lease, deadLetters, received, recovery, operator>>

-----------------------------------------------------------------------------
(* The publisher job's handler for an error of deliverOutboxEvent, and      *)
(* quarantineOutboxEvent.                                                   *)

JobRereads(w) ==
    /\ worker[w].pc = "thrown"
    /\ worker' = [worker EXCEPT ![w] =
         IF outbox[worker[w].event].attempts >= MaxAttempts
         THEN [@ EXCEPT !.pc = "exhausted"] ELSE IdleWorker]
    /\ UNCHANGED <<outbox, lease, deadLetters, received, recovery, operator>>

\* drainFinancePipeline, an operator's request, only logs the error.
DrainLogs(w) ==
    /\ worker[w].pc = "thrown"
    /\ worker' = [worker EXCEPT ![w] = IdleWorker]
    /\ UNCHANGED <<outbox, lease, deadLetters, received, recovery, operator>>

FindOrCreateDeadLetter(w) ==
    /\ worker[w].pc = "exhausted"
    /\ deadLetters' = [deadLetters EXCEPT ![worker[w].event] =
                         @ \union {"quarantined"}]
    /\ worker' = [worker EXCEPT ![w].pc = "quarantining",
                     ![w].seen = outbox[worker[w].event].status]
    /\ UNCHANGED <<outbox, lease, received, recovery, operator>>

\* Mutation: the row is moved to the dead letters instead of being marked.
QuarantineMovesRow(w) ==
    /\ worker[w].pc = "quarantining"
    /\ outbox' = [outbox EXCEPT ![worker[w].event].status = "none"]
    /\ worker' = [worker EXCEPT ![w] = IdleWorker]
    /\ UNCHANGED <<lease, deadLetters, received, recovery, operator>>

\* Mutation: the status of the dead letter is written to the outbox row.
QuarantineWrongStatus(w) ==
    /\ worker[w].pc = "quarantining"
    /\ outbox' = [outbox EXCEPT ![worker[w].event].status = "quarantined"]
    /\ worker' = [worker EXCEPT ![w] = IdleWorker]
    /\ UNCHANGED <<lease, deadLetters, received, recovery, operator>>

Quarantine(w) ==
    /\ worker[w].pc = "quarantining"
    /\ outbox' = [outbox EXCEPT ![worker[w].event].status =
                    SaveStatus(w, "dead_letter")]
    /\ worker' = [worker EXCEPT ![w] = IdleWorker]
    /\ UNCHANGED <<lease, deadLetters, received, recovery, operator>>

-----------------------------------------------------------------------------
(* Time, and the recovery job.                                              *)

LeaseRunsOut(l) ==
    /\ lease[l].status = "active" /\ ~lease[l].overdue
    /\ LeaseOutlived \/ \A w \in Workers : worker[w].lease # l
    /\ lease' = [lease EXCEPT ![l].overdue = TRUE]
    /\ UNCHANGED <<outbox, deadLetters, received, worker, recovery, operator>>

FindStale ==
    /\ recovery = IdleRecovery
    /\ LET stale == {l \in LeaseIds : lease[l].status = "active"
                                      /\ lease[l].overdue}
       IN /\ stale # {}
          /\ recovery' = [IdleRecovery EXCEPT !.batch = stale]
    /\ UNCHANGED <<outbox, lease, deadLetters, received, worker, operator>>

\* The snapshot is not re-checked: the lease may have been released since.
RecoverLease(l) ==
    /\ recovery.current = Nil
    /\ l \in recovery.batch
    /\ lease' = [lease EXCEPT ![l].status = "expired"]
    /\ recovery' = [batch |-> recovery.batch \ {l}, current |-> l]
    /\ UNCHANGED <<outbox, deadLetters, received, worker, operator>>

\* Mutation: the lease is expired but its row is not requeued.
RequeueNothing ==
    /\ recovery.current # Nil
    /\ recovery' = [recovery EXCEPT !.current = Nil]
    /\ UNCHANGED <<outbox, lease, deadLetters, received, worker, operator>>

RequeueOutbox ==
    /\ recovery.current # Nil
    /\ LET e == lease[recovery.current].event
       IN outbox' = [outbox EXCEPT ![e].status =
                       IF @ = "publishing" THEN "retry" ELSE @]
    /\ recovery' = [recovery EXCEPT !.current = Nil]
    /\ UNCHANGED <<lease, deadLetters, received, worker, operator>>

-----------------------------------------------------------------------------
(* An operator's POST dead-letters/:id/replay.  Neither the status of the   *)
(* dead letter nor that of the outbox row is checked.                       *)

OpenReplay(e, row) ==
    /\ operator.pc = "idle"
    /\ row \in deadLetters[e]
    /\ operator' = [event |-> e, row |-> row, seen |-> outbox[e].status,
                    pc |-> "requeue"]
    /\ UNCHANGED <<outbox, lease, deadLetters, received, worker, recovery>>

ReplayOutbox ==
    /\ operator.pc = "requeue"
    /\ outbox' = [outbox EXCEPT ![operator.event].status =
                    IF operator.seen = "retry" THEN @ ELSE "retry"]
    /\ operator' = [operator EXCEPT !.pc = "mark"]
    /\ UNCHANGED <<lease, deadLetters, received, worker, recovery>>

MarkReplayed ==
    /\ operator.pc = "mark"
    /\ deadLetters' = [deadLetters EXCEPT ![operator.event] =
                         (@ \ {operator.row}) \union {"replay_requested"}]
    /\ operator' = IdleOperator
    /\ UNCHANGED <<outbox, lease, received, worker, recovery>>

-----------------------------------------------------------------------------
(* A process dies (deploy, kill, lost database connection): its memory is   *)
(* gone, the rows stay as they are.                                         *)


WorkerCrash(w) ==
    /\ "worker" \in Crashable
    /\ worker[w].pc # "idle"
    /\ worker' = [worker EXCEPT ![w] = IdleWorker]
    /\ UNCHANGED <<outbox, lease, deadLetters, received, recovery, operator>>

RecoveryCrash ==
    /\ "recovery" \in Crashable
    /\ recovery # IdleRecovery
    /\ recovery' = IdleRecovery
    /\ UNCHANGED <<outbox, lease, deadLetters, received, worker, operator>>

OperatorCrash ==
    /\ "operator" \in Crashable
    /\ operator.pc # "idle"
    /\ operator' = IdleOperator
    /\ UNCHANGED <<outbox, lease, deadLetters, received, worker, recovery>>

-----------------------------------------------------------------------------
Progress(w) ==
    \/ OpenAttempt(w) \/ FindExisting(w) \/ CreateEvent(w) \/ Publish(w)
    \/ Release(w) \/ RecordFailure(w) \/ ReleaseAfterFailure(w)
    \/ JobRereads(w) \/ DrainLogs(w) \/ FindOrCreateDeadLetter(w)
    \/ Quarantine(w)

WorkerStep(w) ==
    \/ \E e \in Events : AcquireLease(w, e)
    \/ Progress(w) \/ StepFails(w) \/ EscapesTry(w) \/ WorkerCrash(w)

RecoveryStep == \/ FindStale
                \/ \E l \in LeaseIds : RecoverLease(l)
                \/ RequeueOutbox

OperatorStep == \/ \E e \in Events : \E row \in deadLetters[e] : OpenReplay(e, row)
                \/ ReplayOutbox \/ MarkReplayed

Next ==
    \/ \E e \in Events : Enqueue(e)
    \/ \E w \in Workers : WorkerStep(w)
    \/ \E l \in LeaseIds : LeaseRunsOut(l)
    \/ RecoveryStep \/ RecoveryCrash
    \/ OperatorStep \/ OperatorCrash

Spec == Init /\ [][Next]_vars

\* A statement returns or throws.
Returns(w) == Progress(w) \/ StepFails(w)

\* Rows the publisher takes in vain: acquireDeliveryLease returns null.
Refused == {e \in Events : /\ outbox[e].status \in Claimable
                           /\ \E l \in LeaseIds : Active(l, e) /\ ~lease[l].overdue}

\* A batch that is not filled by rows in the way reaches another row, in whatever
\* order it is taken.
PublisherReaches(S) ==
    /\ Refused \subseteq S
    /\ \E w \in Workers : \E e \in Events \ S : AcquireLease(w, e)

\* The cron schedules run for ever and a started call returns or throws, or its
\* process dies.  Nothing says that a statement succeeds, that deaths come to an
\* end or that every row is among the oldest.  The operator and the business
\* transactions owe nothing.
Fairness ==
    /\ \A w \in Workers : WF_vars(Returns(w))
    /\ \A S \in FewerThan(PublisherBatch) : WF_vars(PublisherReaches(S))
    /\ \A l \in LeaseIds : WF_vars(LeaseRunsOut(l))
    /\ WF_vars(RecoveryStep)

FairSpec == Spec /\ Fairness
-----------------------------------------------------------------------------
OutboxRow == [status : Status, attempts : 0..MaxAttempts]
LeaseRow == [event : Events \union {Nil}, status : LeaseStatus, overdue : BOOLEAN]
WorkerState == [pc : PC, event : Events \union {Nil}, lease : LeaseIds \union {Nil},
                attempt : 0..MaxAttempts, seen : Status, counted : BOOLEAN]

TypeOK ==
    /\ outbox \in [Events -> OutboxRow]
    /\ lease \in [LeaseIds -> LeaseRow]
    /\ deadLetters \in [Events -> SUBSET {"quarantined", "replay_requested"}]
    /\ received \in [Events -> Nat]
    /\ worker \in [Workers -> WorkerState]
    /\ recovery \in [batch : SUBSET LeaseIds, current : LeaseIds \union {Nil}]
    /\ operator \in [event : Events \union {Nil},
                     row : {"none", "quarantined", "replay_requested"},
                     seen : Status, pc : {"idle", "requeue", "mark"}]

\* "One active lease is intended per outbox event" (tests/leaseSafety.test.js):
\* the row lock and the check in acquireDeliveryLease keep it so, though the
\* model declares no unique index, releases are unconditional, and the
\* recovery job overwrites leases it read earlier.
OneActiveLease ==
    \A e \in Events : \A l, m \in LeaseIds :
        Active(l, e) /\ Active(m, e) => l = m

\* Two live workers whose leases both count are never in the same event's try
\* block: a second delivery starts only after the first one's lease is gone.
LeaseHolders == {w \in Workers : /\ worker[w].lease # Nil
                                 /\ Active(worker[w].lease, worker[w].event)}
ExclusiveHolder ==
    \A v, w \in LeaseHolders : worker[v].event = worker[w].event => v = w

\* An outbox row is marked published only once the event engine durably holds
\* the business event, whatever a late or retried worker writes.
PublishedIsIngested ==
    \A e \in Events : outbox[e].status = "published" => received[e] > 0

\* Retries, late workers and crashes converge on one FinanceBusinessEvent per
\* idempotency key (tests/financeFailureInjection.e2e.test.js).
IngestedOnce == \A e \in Events : received[e] <= 1

\* A row in 'publishing' is never abandoned: an active lease keeps it visible
\* to the recovery job, or the recovery job is between its two writes.
PublishingIsRecoverable ==
    \A e \in Events : outbox[e].status = "publishing" =>
        \/ \E l \in LeaseIds : Active(l, e)
        \/ recovery.current # Nil /\ lease[recovery.current].event = e

\* Why the invariants above are kept by every step: a call under way knows its
\* event, it reaches the outbox write only after the business event exists, and
\* no two calls remember the same lease.
CallsKnowEvent ==
    \A w \in Workers : worker[w].pc # "idle" \/ worker[w].lease # Nil =>
                          worker[w].event \in Events

IngestedBeforePublish ==
    \A w \in Workers : worker[w].pc = "ingested" => received[worker[w].event] > 0

OwnLease ==
    \A v, w \in Workers :
        worker[v].lease = worker[w].lease /\ worker[v].lease # Nil => v = w

\* Whatever works on an event found its committed row.
KnownIsCommitted ==
    /\ \A w \in Workers : worker[w].pc # "idle" =>
                            outbox[worker[w].event].status # "none"
    /\ \A e \in Events : deadLetters[e] # {} => outbox[e].status # "none"
    /\ operator.pc # "idle" => outbox[operator.event].status # "none"

DeliveryInv ==
    /\ TypeOK /\ OneActiveLease /\ PublishedIsIngested /\ IngestedOnce
    /\ CallsKnowEvent /\ IngestedBeforePublish /\ OwnLease /\ KnownIsCommitted

\* A delivery ends without counting an attempt: its process dies, or a statement
\* outside the try block throws.  What comes after is counted already.
CutShort(e) ==
    \E w \in Workers :
        /\ worker[w].event = e
        /\ worker[w].pc \in InTry \union {"leased", "failed", "recorded"}
        /\ EscapesTry(w) \/ WorkerCrash(w)

IsReplayed(e) == \E row \in deadLetters[e] : OpenReplay(e, row)

\* Every committed event is eventually published or put before an operator, if
\* its deliveries are not cut short for ever, and if the events that are, or
\* that operators replay for ever, do not fill a batch of the publisher.
EventuallySettled ==
    \A S \in FewerThan(PublisherBatch) : \A e \in Events \ S :
        <>[][/\ \A f \in Events \ S : ~CutShort(f)
             /\ \A f \in Events \ (S \union {e}) : ~IsReplayed(f)]_vars
        => (outbox[e].status # "none" ~>
              outbox[e].status \in {"published", "dead_letter"})

\* What the event engine was promised: committed facts, accepted at most once.
Promise == INSTANCE FinancePromise WITH
    committed <- {e \in Events : outbox[e].status # "none"},
    ingested  <- {e \in Events : received[e] > 0},
    posted    <- {}

PromiseKept == Promise!Spec
=============================================================================
