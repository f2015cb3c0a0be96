--------------------------- MODULE FinanceEngine ----------------------------
(***************************************************************************)
(* The finance event engine behind the outbox: business events are turned  *)
(* into accounting events (financeEventEngine, financePostingEngine,       *)
(* financePostingRule), accounting events are posted to the ledger         *)
(* (financeAccountingPosting, ledger), and business events are replayed    *)
(* (financeReplay and its job).                                            *)
(*                                                                         *)
(* processBusinessEvent and postAccountingEvent each run in one            *)
(* transaction that locks its row, so each is one step; a replay is a      *)
(* sequence of statements that commit alone.  An event has at most one     *)
(* accounting event (unique business_event_id) and that has one ledger     *)
(* reference.  A replay item that is completed or dead is never read again *)
(* and its identity is used again; attempts are only compared with the     *)
(* replay limit and saturate there.                                        *)
(***************************************************************************)
EXTENDS FinanceEvents

CONSTANTS TraceOnly,  \* those whose journal has no positive line
          Unpostable, \* those whose journal has one, or an account that is not resolved
          ItemIds,    \* rows of finance_replay_queue in use at one time
          Replayers,  \* ticks of the replay job running at the same time
          MaxReplays, \* the 8 in processReplayItem
          EngineBatch, \* rows that a tick of the processor or poster takes, the oldest first
          ReplayerMayDie \* does a process die in the middle of a replay?

ASSUME EngineConstants ==
    /\ TraceOnly \subseteq Events /\ Unpostable \subseteq Events \ TraceOnly
    /\ EngineBatch \in Nat \ {0}
    /\ MaxReplays \in Nat \ {0}
    /\ ReplayerMayDie \in BOOLEAN
    /\ Nil \notin Events \union ItemIds

VARIABLES business,   \* status of the finance_business_events row
          accounting, \* status of its finance_accounting_events row
          ledger,     \* ledger transactions with its accounting reference
          rules,      \* events for which a rule and a balanced template resolve
          rejected,   \* events whose processing has thrown (the job's log)
          failures,   \* events with an open finance_posting_failures row
          item,       \* finance_replay_queue
          replayer    \* where each processReplayItem call stands

engineVars == <<business, accounting, ledger, rules, rejected, failures, item, replayer>>
\* What a replay's bookkeeping leaves alone.
books == <<accounting, ledger, rules, rejected, failures>>

BusinessStatus == {"none", "received", "processing", "prepared", "failed", "posted"}
AccountingStatus == {"none", "prepared", "posted"}
ItemStatus == {"queued", "processing", "completed", "dead_letter"}
ReplayPC == {"idle", "read", "started", "reset", "processed", "failed"}

IdleReplayer == [pc |-> "idle", item |-> Nil, attempts |-> 0]

EngineInit ==
    /\ business = [e \in Events |-> "none"]
    /\ accounting = [e \in Events |-> "none"]
    /\ ledger = [e \in Events |-> 0]
    /\ rules \in SUBSET Events
    /\ rejected = {}
    /\ failures = {}
    /\ item = [i \in ItemIds |-> [event |-> Nil, status |-> "completed", attempts |-> 0]]
    /\ replayer = [r \in Replayers |-> IdleReplayer]

-----------------------------------------------------------------------------
\* ingestBusinessEvent created the row (see FinanceDelivery).
Receive(e) ==
    /\ business[e] = "none"
    /\ business' = [business EXCEPT ![e] = "received"]
    /\ UNCHANGED <<item, replayer>> /\ UNCHANGED books

\* Posting rules and templates are configuration: they come and go.
ChangeRules(e) ==
    /\ rules' = IF e \in rules THEN rules \ {e} ELSE rules \union {e}
    /\ UNCHANGED <<business, accounting, ledger, rejected, failures, item, replayer>>

\* sequelize.transaction(callback) commits what the callback wrote only when
\* the callback returns; the callback of processBusinessEvent rethrows.
Commits(outcome) == outcome = "returned"

\* prepareAccountingEvent: the existing accounting event, or a new one when a
\* rule matches and its journal balances.
Prepares(e) == accounting[e] # "none" \/ e \in rules

AlreadyDone(e) == business[e] \in {"prepared", "posted"}

\* Mutation: the event is called prepared without its accounting event.
PreparedTooEarly(e) ==
    /\ business' = [business EXCEPT ![e] = "prepared"]
    /\ UNCHANGED <<accounting, failures, rejected>>

\* The transaction of processBusinessEvent, for an event it does not skip.
ProcessTransaction(e) ==
    LET outcome == IF Prepares(e) THEN "returned" ELSE "threw"
        wrote   == IF Prepares(e) THEN "prepared" ELSE "failed"
    IN /\ business' = [business EXCEPT ![e] = IF Commits(outcome) THEN wrote ELSE @]
       /\ accounting' = [accounting EXCEPT ![e] =
             IF Commits(outcome) /\ @ = "none" THEN "prepared" ELSE @]
       /\ failures' = IF Commits(outcome) /\ wrote = "failed"
                      THEN failures \union {e} ELSE failures
       /\ rejected' = IF outcome = "threw" THEN rejected \union {e} ELSE rejected

\* The business event job; the admin endpoint calls the same function.
ProcessBusinessEvent(e) ==
    /\ business[e] \in {"received", "failed"}
    /\ ProcessTransaction(e)
    /\ UNCHANGED <<ledger, rules, item, replayer>>

\* postLedgerTransaction: an existing transaction with the reference is
\* returned, otherwise a new one is written.
LedgerAfter(e) == IF e \in TraceOnly \/ ledger[e] > 0 THEN ledger[e] ELSE ledger[e] + 1

\* One transaction: the ledger entries and both statuses, or nothing: a failure in
\* between rolls it back, and an event that cannot be posted stays prepared.
PostAccountingEvent(e) ==
    /\ accounting[e] = "prepared"
    /\ e \notin Unpostable
    /\ ledger' = [ledger EXCEPT ![e] = LedgerAfter(e)]
    /\ accounting' = [accounting EXCEPT ![e] = "posted"]
    /\ business' = [business EXCEPT ![e] = "posted"]
    /\ UNCHANGED <<rules, rejected, failures, item, replayer>>

-----------------------------------------------------------------------------
(* Replays.                                                                 *)

AtMostReplays(n) == IF n <= MaxReplays THEN n ELSE MaxReplays

Unused(i) == /\ item[i].status \in {"completed", "dead_letter"}
             /\ \A r \in Replayers : replayer[r].item # i

\* queueReplay: findOrCreate of the queued item of an existing event, in any
\* status of the event.
QueueReplay(e, i) ==
    /\ business[e] # "none"
    /\ ~\E j \in ItemIds : item[j].event = e /\ item[j].status = "queued"
    /\ Unused(i)
    /\ item' = [item EXCEPT ![i] = [event |-> e, status |-> "queued", attempts |-> 0]]
    /\ UNCHANGED <<business, replayer>> /\ UNCHANGED books

ReplayGoto(r, pc) == replayer' = [replayer EXCEPT ![r].pc = pc]

\* getReadyReplayItems reads a list; its items are processed later, without a
\* second look.
ReadItem(r, i) ==
    /\ replayer[r].pc = "idle"
    /\ item[i].status = "queued"
    /\ replayer' = [replayer EXCEPT ![r] =
                      [pc |-> "read", item |-> i, attempts |-> item[i].attempts]]
    /\ UNCHANGED <<business, item>> /\ UNCHANGED books

StartItem(r) ==
    /\ replayer[r].pc = "read"
    /\ item' = [item EXCEPT ![replayer[r].item].status = "processing",
                  ![replayer[r].item].attempts = AtMostReplays(replayer[r].attempts + 1)]
    /\ ReplayGoto(r, "started")
    /\ UNCHANGED business /\ UNCHANGED books

\* Mutation: the replay takes the accounting event back as well.
ResetAccountingToo(r) ==
    LET e == item[replayer[r].item].event
    IN /\ replayer[r].pc = "started"
       /\ business' = [business EXCEPT ![e] = "received"]
       /\ accounting' = [accounting EXCEPT ![e] = IF @ = "none" THEN @ ELSE "prepared"]
       /\ ReplayGoto(r, "reset")
       /\ UNCHANGED <<ledger, rules, rejected, failures, item>>

\* Mutation: the event is marked as being processed.
ResetToProcessing(r) ==
    /\ replayer[r].pc = "started"
    /\ business' = [business EXCEPT ![item[replayer[r].item].event] = "processing"]
    /\ ReplayGoto(r, "reset")
    /\ UNCHANGED item /\ UNCHANGED books

\* The update of the business event has no condition on its status.
ResetEvent(r) ==
    /\ replayer[r].pc = "started"
    /\ business' = [business EXCEPT ![item[replayer[r].item].event] = "received"]
    /\ ReplayGoto(r, "reset")
    /\ UNCHANGED item /\ UNCHANGED books

ReplayProcess(r) ==
    /\ replayer[r].pc = "reset"
    /\ LET e == item[replayer[r].item].event
       IN IF AlreadyDone(e)
          THEN /\ ReplayGoto(r, "processed")
               /\ UNCHANGED <<business, accounting, failures, rejected>>
          ELSE /\ ProcessTransaction(e)
               /\ ReplayGoto(r, IF Prepares(e) THEN "processed" ELSE "failed")
    /\ UNCHANGED <<ledger, rules, item>>

\* Mutation: a status the replay queue does not have.
CompleteAsReplayed(r) ==
    /\ replayer[r].pc = "processed"
    /\ item' = [item EXCEPT ![replayer[r].item].status = "replayed"]
    /\ replayer' = [replayer EXCEPT ![r] = IdleReplayer]
    /\ UNCHANGED business /\ UNCHANGED books

CompleteItem(r) ==
    /\ replayer[r].pc = "processed"
    /\ item' = [item EXCEPT ![replayer[r].item].status = "completed"]
    /\ replayer' = [replayer EXCEPT ![r] = IdleReplayer]
    /\ UNCHANGED business /\ UNCHANGED books

\* Any statement of the try block may throw.
ReplayStepFails(r) ==
    /\ replayer[r].pc \in {"read", "started", "reset", "processed"}
    /\ ReplayGoto(r, "failed")
    /\ UNCHANGED <<business, item>> /\ UNCHANGED books

\* The catch block adds one to an attempt count that was already increased.
AttemptsAtCatch(r) == replayer[r].attempts + 2

\* Mutation: an item is never given up.
RequeueForEver(r) ==
    /\ replayer[r].pc = "failed"
    /\ item' = [item EXCEPT ![replayer[r].item].status = "queued"]
    /\ replayer' = [replayer EXCEPT ![r] = IdleReplayer]
    /\ UNCHANGED business /\ UNCHANGED books

RequeueItem(r) ==
    /\ replayer[r].pc = "failed"
    /\ item' = [item EXCEPT ![replayer[r].item].status =
                  IF AttemptsAtCatch(r) >= MaxReplays THEN "dead_letter" ELSE "queued"]
    /\ replayer' = [replayer EXCEPT ![r] = IdleReplayer]
    /\ UNCHANGED business /\ UNCHANGED books

ReplayerDies(r) ==
    /\ ReplayerMayDie
    /\ replayer[r].pc # "idle"
    /\ replayer' = [replayer EXCEPT ![r] = IdleReplayer]
    /\ UNCHANGED <<business, item>> /\ UNCHANGED books

-----------------------------------------------------------------------------
ReplayProgress(r) ==
    \/ StartItem(r) \/ ResetEvent(r) \/ ReplayProcess(r) \/ CompleteItem(r)
    \/ ReplayStepFails(r) \/ RequeueItem(r)

\* Everything but the arrival of an event.
Work ==
    \/ \E e \in Events : \/ ChangeRules(e) \/ ProcessBusinessEvent(e)
                         \/ PostAccountingEvent(e)
                         \/ \E i \in ItemIds : QueueReplay(e, i)
    \/ \E r \in Replayers : \/ \E i \in ItemIds : ReadItem(r, i)
                            \/ ReplayProgress(r) \/ ReplayerDies(r)

EngineNext == Work \/ \E e \in Events : Receive(e)

EngineSpec == EngineInit /\ [][EngineNext]_engineVars

\* What the jobs take in vain, again and again: an event that is rejected or not
\* posted is rolled back to where it was, among the oldest.
Unprepared == {e \in Events : business[e] \in {"received", "failed"} /\ ~Prepares(e)}
NotPosted == {e \in Unpostable : accounting[e] = "prepared"}

\* A batch that is not filled by such rows reaches another one, in whatever order it
\* is taken.
ProcessorReaches(S) == /\ Unprepared \subseteq S
                       /\ \E e \in Events \ S : ProcessBusinessEvent(e)
PosterReaches(S) == /\ NotPosted \subseteq S
                    /\ \E e \in Events \ S : PostAccountingEvent(e)

\* The three jobs run for ever, what a tick reaches and nothing stands against is
\* done in the end, and not every replay is refused its first write or dies before
\* it; an operator and the configuration owe nothing.
EngineFairness ==
    /\ \A S \in FewerThan(EngineBatch) : /\ WF_engineVars(ProcessorReaches(S))
                                         /\ WF_engineVars(PosterReaches(S))
    /\ \A r \in Replayers : WF_engineVars(ReplayProgress(r)) /\ SF_engineVars(StartItem(r))
    /\ \A i \in ItemIds : WF_engineVars(\E r \in Replayers : ReadItem(r, i))

EngineFairSpec == EngineSpec /\ EngineFairness
-----------------------------------------------------------------------------
ReplayItem == [event : Events \union {Nil}, status : ItemStatus, attempts : 0..MaxReplays]
ReplayerState == [pc : ReplayPC, item : ItemIds \union {Nil}, attempts : 0..MaxReplays]

EngineTypeOK ==
    /\ business \in [Events -> BusinessStatus]
    /\ accounting \in [Events -> AccountingStatus]
    /\ ledger \in [Events -> Nat]
    /\ rules \subseteq Events /\ rejected \subseteq Events /\ failures \subseteq Events
    /\ item \in [ItemIds -> ReplayItem]
    /\ replayer \in [Replayers -> ReplayerState]

\* "One accounting effect per idempotency key" (incident runbook): however
\* often an event is processed, replayed and posted, the ledger holds exactly
\* one transaction for it once its accounting event is posted, and none before.
OneAccountingEffect ==
    \A e \in Events :
        ledger[e] = IF accounting[e] = "posted" /\ e \notin TraceOnly THEN 1 ELSE 0

\* The status of a business event never says more than its accounting shows,
\* whoever resets it meanwhile: posted only with an accounting event that is
\* posted, prepared only with one; and nothing is accounted that never arrived.
StatusIsBacked ==
    \A e \in Events : /\ business[e] = "posted" => accounting[e] = "posted"
                      /\ business[e] = "prepared" => accounting[e] # "none"
                      /\ accounting[e] # "none" => business[e] # "none"

\* Why every step keeps the invariants above: a replay under way works on an
\* event that exists.
ReplaysKnowEvent ==
    /\ \A i \in ItemIds : item[i].status \in {"queued", "processing"} =>
                           item[i].event \in Events
    /\ \A r \in Replayers : replayer[r].pc # "idle" =>
                             /\ replayer[r].item \in ItemIds
                             /\ item[replayer[r].item].event \in Events

EngineInv ==
    /\ EngineTypeOK /\ OneAccountingEffect /\ StatusIsBacked /\ ReplaysKnowEvent

\* "Historical accounting is immutable" (release runbook): no step takes an
\* accounting event back from posted or removes a ledger transaction.
AccountingImmutable ==
    [][\A e \in Events : /\ accounting[e] = "posted" => accounting'[e] = "posted"
                         /\ ledger'[e] >= ledger[e]]_engineVars

\* Events that may be in the way of others for ever: without a rule, not to be
\* posted, or reset again and again.
InTheWay == {e \in Events : \/ e \notin rules \/ e \in Unpostable
                            \/ \E i \in ItemIds : item[i].event = e}

\* An event whose posting rule stays in place and whose accounts resolve gets its
\* accounting posted, whatever replays do to its status meanwhile, as long as the
\* other events in the way do not fill a batch.
EventuallyPosted ==
    \A S \in FewerThan(EngineBatch) : \A e \in Events \ (S \union Unpostable) :
        (business[e] # "none" /\ [](e \in rules /\ InTheWay \subseteq S \union {e}))
            ~> (accounting[e] = "posted")

\* A queued replay is carried out or given up in a bounded number of attempts;
\* only the death of its process leaves it behind, in "processing", where
\* getReadyReplayItems no longer finds it.
LeftBehind(i) == /\ item[i].status = "processing"
                 /\ \A r \in Replayers : replayer[r].item # i

ReplayEnds ==
    \A i \in ItemIds : item[i].status = "queued" ~>
                         \/ item[i].status \in {"completed", "dead_letter"}
                         \/ LeftBehind(i)

\* The error handler of processBusinessEvent marks the event failed and has a
\* posting failure recorded, for the automatic replay job to find.
FailureIsRecorded == rejected \subseteq failures
=============================================================================
