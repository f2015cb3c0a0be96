------------------------ MODULE DocumentReconciliation -----------------------
(***************************************************************************)
(* Reconciliation of the money documents with accounting: the hourly jobs  *)
(* and the manual endpoint of each domain, which compare a document with   *)
(* its outbox event, business event, accounting event and ledger entry,    *)
(* and the domain snapshots that the cutover waits for.                    *)
(*                                                                         *)
(* The documents are those of MoneyDocuments and change while they are     *)
(* being reconciled.  Of the pipeline between outbox and ledger only how   *)
(* far an event has come is kept; FinanceDelivery and FinanceEngine model  *)
(* how it gets there.  A reconciliation reads in several statements, each  *)
(* of which only finds what can no longer go away, so that its reads are   *)
(* one step; its two writes are two.  Treasury transfers also wait for a   *)
(* bank movement and are left out.                                         *)
(***************************************************************************)
EXTENDS MoneyDocuments

CONSTANTS Jobs,       \* reconciliations by the hourly jobs, at the same time
          Admins,     \* reconciliations by the endpoint
          MaxCrashes  \* bound on the times the process of one dies

ASSUME CrashBound == MaxCrashes \in Nat

VARIABLES booked,   \* how far each outbox event has come
          mark,     \* finance_reconciliation_status
          results,  \* the rows of the result tables
          reconciler,
          crashes

reconVars == <<booked, mark, results, reconciler, crashes>>
vars == <<docVars, reconVars>>

Reconcilers == Jobs \union Admins

\* The events that a document is compared with.
Stages == {"opened", "closed"}
Idle == [pc |-> "idle", doc |-> Nil, seen |-> NoDoc, mark |-> "pending", verdict |-> "pending"]

Init ==
    /\ DocInit
    /\ booked = [d \in Docs |-> [k \in Stages |-> "outbox"]]
    /\ mark = [d \in Docs |-> "pending"]
    /\ results = {}
    /\ reconciler = [r \in Reconcilers |-> Idle]
    /\ crashes = 0

-----------------------------------------------------------------------------
(* The pipeline.                                                            *)

Moves(d, k, from, to) ==
    /\ event[d][k] # Nil /\ booked[d][k] = from
    /\ booked' = [booked EXCEPT ![d][k] = to]
    /\ UNCHANGED <<mark, results, reconciler, crashes>> /\ UNCHANGED docVars

Ingest(d, k) == Moves(d, k, "outbox", "business")
Prepare(d, k) == Moves(d, k, "business", "accounting")
Post(d, k) == Moves(d, k, "accounting", "posted")

-----------------------------------------------------------------------------
(* One reconciliation.                                                      *)

\* What the jobs look for: partly paid documents are not among it.
Reconciled == {"approved", "recognized"} \union Closed

\* Mutation: what was compared once is not compared again.
OnlyPending(d) == doc[d].status \in Reconciled /\ mark[d] = "pending"
Selected(d) == doc[d].status \in Reconciled /\ mark[d] # "matched"

StartReading(r, d) ==
    /\ reconciler[r].pc = "idle" /\ doc[d].kind \in Kind \ {"transfer"}
    /\ reconciler' = [reconciler EXCEPT ![r] =
                        [Idle EXCEPT !.pc = "reading", !.doc = d, !.seen = doc[d], !.mark = mark[d]]]
    /\ UNCHANGED <<booked, mark, results, crashes>> /\ UNCHANGED docVars

JobPicks(r, d) == Selected(d) /\ StartReading(r, d)
\* The endpoint takes any document.
AdminPicks(r, d) == StartReading(r, d)

\* The event that the document, as it was read, should have caused last.
KeyFor(row) == IF row.status \in Closed THEN "closed" ELSE "opened"

\* Mutation: an accounting event counts as posted.
IsPrepared(d, k) == booked[d][k] \in {"accounting", "posted"}
\* The accounting event has its ledger entry, or is one of no value that is posted
\* without (accountingEventIsSatisfied).
IsPosted(d, k) == booked[d][k] = "posted"

SettlementAmounts(row, payload) ==
    IF row.status = "paid" THEN <<row.paid, payload.paid>> ELSE <<row.due, payload.due>>
PayoutAmounts(row, payload) ==
    IF row.status = "paid" THEN <<row.paid, payload.paid>> ELSE <<row.due, payload.due>>
ProcurementAmounts(row, payload) == <<row.due, payload.due>>
TaxAmounts(row, payload) == <<row.due, payload.due>>
Amounts(row, payload) ==
    CASE row.kind = "settlement"  -> SettlementAmounts(row, payload)
      [] row.kind = "payout"      -> PayoutAmounts(row, payload)
      [] row.kind = "procurement" -> ProcurementAmounts(row, payload)
      [] row.kind = "tax"         -> TaxAmounts(row, payload)

Agrees(row, d) ==
    LET k == KeyFor(row)
    IN /\ event[d][k] # Nil /\ IsPosted(d, k)
       /\ Amounts(row, event[d][k])[1] = Amounts(row, event[d][k])[2]

Verdict(row, d) == IF Agrees(row, d) THEN "matched" ELSE "exception"

\* Mutation: the status is written first.
MarkFirst(r) ==
    /\ reconciler[r].pc = "reading"
    /\ LET d == reconciler[r].doc
           verdict == Verdict(reconciler[r].seen, d)
       IN /\ mark' = [mark EXCEPT ![d] = verdict]
          /\ reconciler' = [reconciler EXCEPT ![r].pc = "marking", ![r].verdict = verdict]
    /\ UNCHANGED <<booked, results, crashes>> /\ UNCHANGED docVars

StoreResult(r) ==
    /\ reconciler[r].pc = "reading"
    /\ LET d == reconciler[r].doc
           row == reconciler[r].seen
       IN /\ results' = results \union {[doc |-> d, key |-> KeyFor(row), status |-> Verdict(row, d)]}
          /\ reconciler' = [reconciler EXCEPT ![r].pc = "marking",
                               ![r].seen = NoDoc, ![r].verdict = Verdict(row, d)]
    /\ UNCHANGED <<booked, mark, crashes>> /\ UNCHANGED docVars

\* Only a column that differs from the row as it was read is written; the update
\* waits for a transaction that has the row.
WriteMark(r) ==
    /\ reconciler[r].pc = "marking" /\ ~RowLocked(reconciler[r].doc)
    /\ mark' = IF reconciler[r].verdict = reconciler[r].mark THEN mark
               ELSE [mark EXCEPT ![reconciler[r].doc] = reconciler[r].verdict]
    /\ reconciler' = [reconciler EXCEPT ![r] = Idle]
    /\ UNCHANGED <<booked, results, crashes>> /\ UNCHANGED docVars

ReconcilerDies(r) ==
    /\ reconciler[r].pc # "idle" /\ crashes < MaxCrashes
    /\ reconciler' = [reconciler EXCEPT ![r] = Idle]
    /\ crashes' = crashes + 1
    /\ UNCHANGED <<booked, mark, results>> /\ UNCHANGED docVars

-----------------------------------------------------------------------------
Pipeline(d, k) == Ingest(d, k) \/ Prepare(d, k) \/ Post(d, k)
Picks(r, d) == (r \in Jobs /\ JobPicks(r, d)) \/ (r \in Admins /\ AdminPicks(r, d))
Finishes(r) == StoreResult(r) \/ WriteMark(r)

Next == \/ DocNext /\ UNCHANGED reconVars
        \/ \E d \in Docs, k \in Stages : Pipeline(d, k)
        \/ \E r \in Reconcilers :
             Finishes(r) \/ ReconcilerDies(r) \/ \E d \in Docs : Picks(r, d)

Spec == Init /\ [][Next]_vars

\* Transactions end, and the job comes back every hour to what it has not matched:
\* each comparison renews updated_at, by which it takes the oldest hundred, so that no
\* document keeps others from their turn.  Nothing is asked of the pipeline, whose
\* events may be dead-lettered or never get a rule.
Fairness ==
    /\ \A h \in Requests : WF_vars(UNCHANGED reconVars /\ (Operate(h) \/ RollBack(h)))
    /\ \A j \in Jobs, d \in Docs : SF_vars(JobPicks(j, d))
    /\ \A r \in Reconcilers : SF_vars(Finishes(r))
FairSpec == Spec /\ Fairness
-----------------------------------------------------------------------------
TypeOK ==
    /\ DocTypeOK
    /\ booked \in [Docs -> [Stages -> {"outbox", "business", "accounting", "posted"}]]
    /\ mark \in [Docs -> {"pending", "matched", "exception"}]
    /\ results \subseteq [doc : Docs, key : Stages, status : {"matched", "exception"}]
    /\ reconciler \in [Reconcilers ->
         [pc : {"idle", "reading", "marking"}, doc : Docs \union {Nil}, seen : Row,
          mark : {"pending", "matched", "exception"},
          verdict : {"pending", "matched", "exception"}]]
    /\ crashes \in 0..MaxCrashes

\* A match can be relied on, although the document and its events went on while
\* it was being established: the event it speaks of is posted, with its entry in the
\* ledger unless it has no value.
MatchIsBooked ==
    \A x \in results : x.status = "matched" => booked[x.doc][x.key] = "posted"

\* No document is marked as an exception that the domain's snapshot, which counts
\* result rows, does not show; whoever runs or dies in between.
MarkHasResult ==
    \A d \in Docs : mark[d] # "pending" =>
        \E x \in results : x.doc = d /\ x.status = mark[d]

\* A document that stays opened or closed, with the event of that state posted, is
\* matched in the end, whatever it was called before, whoever overtakes the job with an
\* older verdict, and wherever a reconciliation dies.
Matchable(d) == /\ doc[d].kind \in Kind \ {"transfer"} /\ doc[d].status \in Reconciled
                /\ IsPosted(d, KeyFor(doc[d]))
EventuallyMatched == \A d \in Docs : Matchable(d) ~> mark[d] = "matched" \/ ~Matchable(d)
=============================================================================
