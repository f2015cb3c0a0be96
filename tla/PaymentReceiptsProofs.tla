------------------------ MODULE PaymentReceiptsProofs ------------------------
(***************************************************************************)
(* Taking payment for an order, and the way of a payment to the ledger,    *)
(* for every number of keys, requests and resolvers, events, workers and   *)
(* replays, with every handler allowed to fail at every step.  Alone: one  *)
(* prompt, captures that match settlements, and settlements that last.     *)
(* With the finance pipeline: facts that match settlements, each enqueued  *)
(* once, and no entry of the ledger without its payment.                   *)
(***************************************************************************)
EXTENDS PaymentReceipts, FinancePipelineProofs, FiniteSetTheorems, SequenceTheorems

(* Payments.                                                                *)

RequestRow == [pc : RequestPC, key : Keys \union {None}, reply : Reply]
ResolverRow == [pc : ResolverPC, notice : Notice \union {None},
                key : Keys \union {None}, next : Outcome, paid : BOOLEAN]

\* The states in which a request owns the attempt it has reserved.
Calling == {"calling", "storing", "refusing"}
\* The states in which a resolver works on an attempt.
Applying == {"resolving"} \union InTransaction

Reserved == {k \in Keys : attempt[k].status # "none"}
PaymentReported == \E k \in Keys : <<k, "success">> \in notices

\* What a request knows: its attempt is pending and has no reference yet, and the
\* provider is called once with it.
RequestOK(row) ==
    /\ row.pc # "idle" => row.key \in Keys
    /\ row.pc \in Calling => attempt[row.key].status = "pending" /\ ~attempt[row.key].ref
    /\ row.pc = "calling" => prompts[row.key] = 0

\* What a resolver knows: its notice was sent, its attempt has a reference, it
\* brings a payment only when one was reported, and while it holds the row the
\* transition it has checked stays possible.
ResolverOK(row) ==
    /\ row.notice # None => row.notice \in notices
    /\ row.pc = "recorded" => row.notice \in notices
    /\ row.pc \in {"polling"} \union Applying => row.key \in Keys /\ attempt[row.key].ref
    /\ row.pc \in Applying /\ row.next = "success" => PaymentReported
    /\ row.pc \in InTransaction => CanTransition(attempt[row.key].status, row.next)
    /\ row.pc \in {"counted", "updated"} /\ row.paid => row.next = "success" \/ captured # {}

\* A reserved attempt has one owner, and a locked one too.
Owners == \A q, r \in Requests : request[q].pc \in Calling /\ request[r].pc \in Calling /\ q # r =>
             request[q].key # request[r].key
Holders == \A u, v \in Resolvers :
             resolver[u].pc \in InTransaction /\ resolver[v].pc \in InTransaction /\ u # v =>
               resolver[u].key # resolver[v].key

\* What the rows say: an attempt exists before its prompt, has its reference
\* before it settles, and is counted once.
AttemptsOK ==
    /\ Len(created) = Cardinality(Reserved)
    /\ \A k \in Keys : /\ attempt[k].status = "none" => prompts[k] = 0 /\ ~attempt[k].ref
                       /\ attempt[k].status = "success" => attempt[k].ref
                       /\ prompts[k] <= 1
                       /\ provider[k] \in Outcome => <<k, provider[k]>> \in notices

PaymentInv ==
    /\ PaymentTypeOK
    /\ \A r \in Requests : RequestOK(request[r])
    /\ \A v \in Resolvers : ResolverOK(resolver[v])
    /\ Owners /\ Holders /\ AttemptsOK
    /\ CapturedWithSettlement /\ CaptureHasPayment

LEMMA ReservedIsFinite == IsFiniteSet(Reserved) /\ Cardinality(Reserved) <= Cardinality(Keys)
BY PaymentConstants, FS_Subset DEF Reserved

LEMMA PaymentInitInv == PaymentInit => PaymentInv
<1> SUFFICES ASSUME PaymentInit PROVE PaymentInv
  OBVIOUS
<1>1. Reserved = {}
  BY DEF PaymentInit, Reserved
<1>2. created = <<>> /\ Len(created) = 0 /\ Cardinality(Reserved) = 0
  BY <1>1, FS_EmptySet DEF PaymentInit
<1>3. PaymentTypeOK
  <2>1. created \in Seq(Keys) /\ Len(created) <= Cardinality(Keys)
    BY <1>2, ReservedIsFinite, PaymentConstants, FS_CardinalityType
  <2>2. IdleResolver \in ResolverRow
    BY DEF IdleResolver, ResolverRow, ResolverPC, Outcome
  <2> QED BY <2>1, <2>2 DEF PaymentInit, PaymentTypeOK, ResolverRow, AttemptStatus, RequestPC, Reply, Outcome
<1>4. \A r \in Requests : RequestOK(request[r])
  BY DEF PaymentInit, RequestOK, Calling
<1>5. \A v \in Resolvers : ResolverOK(resolver[v])
  BY DEF PaymentInit, ResolverOK, IdleResolver, Applying, InTransaction
<1>6. Owners /\ Holders
  BY DEF PaymentInit, Owners, Holders, IdleResolver, Calling, InTransaction
<1>7. AttemptsOK
  BY <1>2 DEF PaymentInit, AttemptsOK, Outcome
<1>8. CapturedWithSettlement /\ CaptureHasPayment
  BY DEF PaymentInit, CapturedWithSettlement, CaptureHasPayment
<1> QED BY <1>3, <1>4, <1>5, <1>6, <1>7, <1>8 DEF PaymentInv

-----------------------------------------------------------------------------
(* Steps that change one handler alone.                                     *)

LEMMA RequestFrame ==
    ASSUME PaymentInv, NEW r \in Requests, NEW row \in RequestRow,
           request' = [request EXCEPT ![r] = row], row.pc \notin Calling,
           row.pc # "idle" => row.key \in Keys,
           UNCHANGED <<events, acked, resolver>>, UNCHANGED paymentBooks, UNCHANGED outside
    PROVE  PaymentInv'
<1> USE DEF paymentBooks, outside
<1>1. /\ request' \in [Requests -> RequestRow] /\ request'[r] = row
      /\ \A q \in Requests \ {r} : request'[q] = request[q]
  BY DEF PaymentInv, PaymentTypeOK, RequestRow
<1>2. PaymentTypeOK'
  BY <1>1 DEF PaymentInv, PaymentTypeOK, RequestRow
<1>3. (\A q \in Requests : RequestOK(request[q]))'
  BY <1>1 DEF PaymentInv, RequestOK, Calling
<1>4. (\A v \in Resolvers : ResolverOK(resolver[v]))'
  BY DEF PaymentInv, ResolverOK, PaymentReported
<1>5. Owners' /\ Holders'
  BY <1>1 DEF PaymentInv, Owners, Holders
<1>6. AttemptsOK' /\ CapturedWithSettlement' /\ CaptureHasPayment'
  BY DEF PaymentInv, AttemptsOK, Reserved, CapturedWithSettlement, CaptureHasPayment
<1> QED BY <1>2, <1>3, <1>4, <1>5, <1>6 DEF PaymentInv

LEMMA ResolverFrame ==
    ASSUME PaymentInv, NEW v \in Resolvers, NEW row \in ResolverRow,
           resolver' = [resolver EXCEPT ![v] = row], ResolverOK(row),
           row.pc \in InTransaction => \A u \in Resolvers \ {v} :
               resolver[u].pc \in InTransaction => resolver[u].key # row.key,
           events' \subseteq notices, acked' \subseteq notices,
           UNCHANGED request, UNCHANGED paymentBooks, UNCHANGED outside
    PROVE  PaymentInv'
<1> USE DEF paymentBooks, outside
<1>1. /\ resolver' \in [Resolvers -> ResolverRow] /\ resolver'[v] = row
      /\ \A u \in Resolvers \ {v} : resolver'[u] = resolver[u]
  BY DEF PaymentInv, PaymentTypeOK, ResolverRow
<1>2. PaymentTypeOK'
  BY <1>1 DEF PaymentInv, PaymentTypeOK, ResolverRow
<1>3. (\A q \in Requests : RequestOK(request[q]))'
  BY DEF PaymentInv, RequestOK
<1>4. (\A u \in Resolvers : ResolverOK(resolver[u]))'
  <2>1. ASSUME NEW u \in Resolvers PROVE ResolverOK(resolver'[u])
    BY <1>1 DEF PaymentInv
  <2>2. ASSUME NEW u \in Resolvers PROVE ResolverOK(resolver[u])'
    BY <2>1 DEF ResolverOK, PaymentReported
  <2> QED BY <2>2
<1>5. Owners'
  BY DEF PaymentInv, Owners
<1>6. Holders'
  BY <1>1 DEF PaymentInv, Holders
<1>7. AttemptsOK' /\ CapturedWithSettlement' /\ CaptureHasPayment'
  BY DEF PaymentInv, AttemptsOK, Reserved, CapturedWithSettlement, CaptureHasPayment
<1> QED BY <1>2, <1>3, <1>4, <1>5, <1>6, <1>7 DEF PaymentInv

LEMMA AnsweredRow ==
    ASSUME PaymentTypeOK, NEW r \in Requests, NEW reply \in Reply, Respond(r, reply)
    PROVE  \E row \in RequestRow : /\ request' = [request EXCEPT ![r] = row]
                                   /\ row.pc = "idle" /\ row.key = request[r].key
<1> DEFINE row == [request[r] EXCEPT !.pc = "idle", !.reply = reply]
<1>1. row \in RequestRow /\ row.pc = "idle" /\ row.key = request[r].key
  BY DEF PaymentTypeOK, RequestRow, RequestPC
<1>2. request' = [request EXCEPT ![r] = row]
  BY DEF PaymentTypeOK, Respond
<1> QED BY <1>1, <1>2

LEMMA MovedRow ==
    ASSUME PaymentTypeOK, NEW r \in Requests, NEW pc \in RequestPC, GoRequest(r, pc)
    PROVE  \E row \in RequestRow : /\ request' = [request EXCEPT ![r] = row]
                                   /\ row.pc = pc /\ row.key = request[r].key
<1> DEFINE row == [request[r] EXCEPT !.pc = pc]
<1>1. row \in RequestRow /\ row.pc = pc /\ row.key = request[r].key
  BY DEF PaymentTypeOK, RequestRow
<1>2. request' = [request EXCEPT ![r] = row]
  BY DEF PaymentTypeOK, GoRequest
<1> QED BY <1>1, <1>2

-----------------------------------------------------------------------------
(* initiateOrderPayment.                                                    *)

LEMMA RefusalInv ==
    ASSUME PaymentInv, NEW r \in Requests, NEW reply \in Reply, Respond(r, reply),
           UNCHANGED <<events, acked, resolver>>, UNCHANGED paymentBooks, UNCHANGED outside
    PROVE  PaymentInv'
<1>1. PICK row \in RequestRow : request' = [request EXCEPT ![r] = row] /\ row.pc = "idle"
  BY AnsweredRow DEF PaymentInv
<1> QED BY <1>1, RequestFrame DEF Calling

LEMMA CheckOrderInv ==
    ASSUME PaymentInv, NEW r \in Requests, NEW k \in Keys, CheckOrder(r, k)
    PROVE  PaymentInv'
<1> DEFINE row == [pc |-> "checked", key |-> k, reply |-> "none"]
<1>1. row \in RequestRow /\ row.pc = "checked" /\ row.key = k
  BY DEF RequestRow, RequestPC, Reply
<1>2. request' = [request EXCEPT ![r] = row]
  BY DEF CheckOrder
<1> HIDE DEF row
<1> QED BY <1>1, <1>2, RequestFrame DEF CheckOrder, Calling

LEMMA FindAttemptInv ==
    ASSUME PaymentInv, NEW r \in Requests, FindAttempt(r)
    PROVE  PaymentInv'
<1>1. /\ UNCHANGED <<events, acked, resolver>> /\ UNCHANGED paymentBooks /\ UNCHANGED outside
      /\ request[r].pc = "checked"
  BY DEF FindAttempt
<1>2. CASE Respond(r, "paid") \/ Respond(r, "already")
  BY <1>1, <1>2, RefusalInv DEF Reply
<1>3. CASE GoRequest(r, "reserving")
  <2>1. PICK row \in RequestRow : /\ request' = [request EXCEPT ![r] = row]
                                  /\ row.pc = "reserving" /\ row.key = request[r].key
    BY <1>3, MovedRow DEF PaymentInv, RequestPC
  <2>2. request[r].key \in Keys
    BY <1>1 DEF PaymentInv, RequestOK
  <2> QED BY <1>1, <2>1, <2>2, RequestFrame DEF Calling
<1> QED BY <1>2, <1>3 DEF FindAttempt

LEMMA ReserveInv ==
    ASSUME PaymentInv, NEW r \in Requests, Reserve(r)
    PROVE  PaymentInv'
<1>1. PICK k \in Keys : k = request[r].key
  BY DEF Reserve, PaymentInv, RequestOK
<1>2. CASE KeyReserved(k)
  BY <1>1, <1>2, RefusalInv DEF Reserve, Reply
<1>3. CASE ~KeyReserved(k)
  <2>1. PICK row \in RequestRow : /\ request' = [request EXCEPT ![r] = row]
                                  /\ row.pc = "calling" /\ row.key = k
    BY <1>1, <1>3, MovedRow DEF Reserve, PaymentInv, RequestPC
  <2>2. /\ request' \in [Requests -> RequestRow] /\ request'[r] = row
        /\ \A q \in Requests \ {r} : request'[q] = request[q]
    BY <2>1 DEF PaymentInv, PaymentTypeOK, RequestRow
  <2>3. /\ attempt' = [attempt EXCEPT ![k] = [status |-> "pending", ref |-> FALSE]]
        /\ created' = Append(created, k)
        /\ UNCHANGED <<orderPaid, captured, failed, events, acked, resolver>>
        /\ UNCHANGED outside
    BY <1>1, <1>3 DEF Reserve
  <2>4. /\ attempt'[k] = [status |-> "pending", ref |-> FALSE]
        /\ attempt' \in [Keys -> [status : AttemptStatus, ref : BOOLEAN]]
        /\ \A j \in Keys \ {k} : attempt'[j] = attempt[j]
    BY <2>3 DEF PaymentInv, PaymentTypeOK, AttemptStatus
  <2>5. attempt[k].status = "none" /\ prompts[k] = 0 /\ ~attempt[k].ref
    BY <1>3 DEF KeyReserved, PaymentInv, AttemptsOK
  <2>6. Reserved' = Reserved \union {k} /\ k \notin Reserved
    BY <2>4, <2>5 DEF Reserved
  <2>7. Cardinality(Reserved') = Cardinality(Reserved) + 1
    BY <2>6, ReservedIsFinite, FS_AddElement
  <2>8. created' \in Seq(Keys) /\ Len(created') = Cardinality(Reserved')
    BY <2>3, <2>7, AppendProperties DEF PaymentInv, PaymentTypeOK, AttemptsOK
  <2>9. Cardinality(Reserved') <= Cardinality(Keys)
    BY PaymentConstants, FS_Subset DEF Reserved
  <2>10. PaymentTypeOK'
    BY <2>2, <2>3, <2>4, <2>8, <2>9 DEF PaymentInv, PaymentTypeOK, RequestRow, outside
  <2>11. (\A q \in Requests : RequestOK(request[q]))'
    <3>1. ASSUME NEW q \in Requests, q # r PROVE RequestOK(request[q])'
      BY <2>2, <2>3, <2>4, <2>5, <3>1 DEF PaymentInv, RequestOK, Calling, outside
    <3>2. RequestOK(request[r])'
      BY <2>1, <2>2, <2>3, <2>4, <2>5 DEF RequestOK, outside
    <3> QED BY <3>1, <3>2
  <2>12. (\A v \in Resolvers : ResolverOK(resolver[v]))'
    BY <2>3, <2>4, <2>5 DEF PaymentInv, ResolverOK, PaymentReported, outside, Applying
  <2>13. Owners' /\ Holders'
    BY <2>1, <2>2, <2>3, <2>5 DEF PaymentInv, Owners, Holders, RequestOK
  <2>14. AttemptsOK'
    BY <2>3, <2>4, <2>5, <2>8 DEF PaymentInv, AttemptsOK, outside
  <2>15. CapturedWithSettlement' /\ CaptureHasPayment'
    BY <2>3, <2>4, <2>5 DEF PaymentInv, CapturedWithSettlement, CaptureHasPayment, outside
  <2> QED BY <2>10, <2>11, <2>12, <2>13, <2>14, <2>15 DEF PaymentInv
<1> QED BY <1>2, <1>3

\* A request that leaves "calling", with a prompt or without.
LEMMA PromptInv ==
    ASSUME PaymentInv, NEW r \in Requests, request[r].pc = "calling",
           NEW arrived \in {0, 1}, NEW pc \in {"storing", "refusing"},
           prompts' = [prompts EXCEPT ![request[r].key] = @ + arrived], GoRequest(r, pc),
           UNCHANGED <<events, notices, provider, acked, resolver>>, UNCHANGED paymentBooks
    PROVE  PaymentInv'
<1> USE DEF paymentBooks
<1>1. PICK k \in Keys : k = request[r].key
  BY DEF PaymentInv, RequestOK
<1>2. PICK row \in RequestRow : /\ request' = [request EXCEPT ![r] = row]
                                /\ row.pc = pc /\ row.key = k
  BY <1>1, MovedRow DEF PaymentInv, RequestPC
<1>3. /\ request' \in [Requests -> RequestRow] /\ request'[r] = row
      /\ \A q \in Requests \ {r} : request'[q] = request[q]
  BY <1>2 DEF PaymentInv, PaymentTypeOK, RequestRow
<1>4. /\ prompts[k] = 0 /\ attempt[k].status = "pending" /\ ~attempt[k].ref
  BY <1>1 DEF PaymentInv, RequestOK, Calling
<1>5. /\ prompts' \in [Keys -> Nat] /\ prompts'[k] = arrived
      /\ \A j \in Keys \ {k} : prompts'[j] = prompts[j]
  BY <1>1, <1>4 DEF PaymentInv, PaymentTypeOK
<1>6. PaymentTypeOK'
  BY <1>3, <1>5 DEF PaymentInv, PaymentTypeOK, RequestRow
<1>7. (\A q \in Requests : RequestOK(request[q]))'
  <2>1. ASSUME NEW q \in Requests, q # r PROVE RequestOK(request[q])'
    BY <1>1, <1>3, <1>5, <2>1 DEF PaymentInv, RequestOK, Owners, Calling
  <2>2. RequestOK(request[r])'
    BY <1>2, <1>3, <1>4 DEF RequestOK
  <2> QED BY <2>1, <2>2
<1>8. (\A v \in Resolvers : ResolverOK(resolver[v]))'
  BY DEF PaymentInv, ResolverOK, PaymentReported
<1>9. Owners' /\ Holders'
  BY <1>1, <1>2, <1>3 DEF PaymentInv, Owners, Holders, Calling
<1>10. AttemptsOK'
  BY <1>4, <1>5 DEF PaymentInv, AttemptsOK, Reserved
<1>11. CapturedWithSettlement' /\ CaptureHasPayment'
  BY DEF PaymentInv, CapturedWithSettlement, CaptureHasPayment
<1> QED BY <1>6, <1>7, <1>8, <1>9, <1>10, <1>11 DEF PaymentInv

\* The owner of an attempt writes its row: the reference, or the failure.
LEMMA OwnAttemptInv ==
    ASSUME PaymentInv, NEW r \in Requests, request[r].pc \in {"storing", "refusing"},
           NEW k \in Keys, k = request[r].key,
           NEW new \in [status : AttemptStatus, ref : BOOLEAN],
           new.status \in {"pending", "failed"},
           attempt' = [attempt EXCEPT ![k] = new],
           NEW reply \in Reply, Respond(r, reply),
           UNCHANGED <<created, orderPaid, captured, failed, events, acked, resolver>>,
           UNCHANGED outside
    PROVE  PaymentInv'
<1> USE DEF outside
<1>1. PICK row \in RequestRow : request' = [request EXCEPT ![r] = row] /\ row.pc = "idle"
  BY AnsweredRow DEF PaymentInv
<1>2. /\ request' \in [Requests -> RequestRow] /\ request'[r].pc = "idle"
      /\ \A q \in Requests \ {r} : request'[q] = request[q]
  BY <1>1 DEF PaymentInv, PaymentTypeOK, RequestRow
<1>3. /\ attempt'[k] = new /\ attempt' \in [Keys -> [status : AttemptStatus, ref : BOOLEAN]]
      /\ \A j \in Keys \ {k} : attempt'[j] = attempt[j]
  BY DEF PaymentInv, PaymentTypeOK
<1>4. attempt[k].status = "pending" /\ ~attempt[k].ref
  BY DEF PaymentInv, RequestOK, Calling
<1>5. PaymentTypeOK'
  BY <1>2, <1>3 DEF PaymentInv, PaymentTypeOK, RequestRow
<1>6. (\A q \in Requests : RequestOK(request[q]))'
  <2>1. ASSUME NEW q \in Requests, q # r PROVE RequestOK(request[q])'
    BY <1>2, <1>3, <2>1 DEF PaymentInv, RequestOK, Owners, Calling
  <2>2. RequestOK(request[r])'
    BY <1>2 DEF RequestOK, Calling
  <2> QED BY <2>1, <2>2
<1>7. (\A v \in Resolvers : ResolverOK(resolver[v]))'
  BY <1>3, <1>4 DEF PaymentInv, ResolverOK, PaymentReported, Applying
<1>8. Owners' /\ Holders'
  BY <1>2 DEF PaymentInv, Owners, Holders, Calling
<1>9. Reserved' = Reserved
  BY <1>3, <1>4 DEF Reserved
<1>10. AttemptsOK'
  BY <1>3, <1>9 DEF PaymentInv, AttemptsOK
<1>11. CapturedWithSettlement' /\ CaptureHasPayment'
  BY <1>3, <1>4 DEF PaymentInv, CapturedWithSettlement, CaptureHasPayment
<1> QED BY <1>5, <1>6, <1>7, <1>8, <1>10, <1>11 DEF PaymentInv

LEMMA RequestInv ==
    ASSUME PaymentInv, NEW r \in Requests, RequestStep(r)
    PROVE  PaymentInv'
<1>1. CASE \E k \in Keys : CheckOrder(r, k)
  BY <1>1, CheckOrderInv
<1>2. CASE FindAttempt(r)
  BY <1>2, FindAttemptInv
<1>3. CASE Reserve(r)
  BY <1>3, ReserveInv
<1>4. CASE ProviderAccepts(r)
  BY <1>4, PromptInv DEF ProviderAccepts
<1>5. CASE CallThrows(r)
  BY <1>5, PromptInv DEF CallThrows
<1>6. CASE StoreReference(r)
  <2>1. PICK k \in Keys : k = request[r].key /\ attempt[k].status = "pending"
    BY <1>6 DEF StoreReference, PaymentInv, RequestOK, Calling
  <2> DEFINE new == [attempt[k] EXCEPT !.ref = TRUE]
  <2>2. new \in [status : AttemptStatus, ref : BOOLEAN] /\ new.status = "pending"
    <3>1. attempt[k] \in [status : AttemptStatus, ref : BOOLEAN]
      BY DEF PaymentInv, PaymentTypeOK
    <3> QED BY <2>1, <3>1
  <2>3. attempt' = [attempt EXCEPT ![k] = new]
    BY <1>6, <2>1 DEF StoreReference, PaymentInv, PaymentTypeOK
  <2> HIDE DEF new
  <2> QED BY <1>6, <2>1, <2>2, <2>3, OwnAttemptInv DEF StoreReference, Reply
<1>7. CASE MarkUnreachable(r)
  <2>1. PICK k \in Keys : k = request[r].key
    BY <1>7 DEF MarkUnreachable, PaymentInv, RequestOK
  <2> DEFINE new == [attempt[k] EXCEPT !.status = "failed"]
  <2>2. new \in [status : AttemptStatus, ref : BOOLEAN] /\ new.status = "failed"
    <3>1. attempt[k] \in [status : AttemptStatus, ref : BOOLEAN]
      BY DEF PaymentInv, PaymentTypeOK
    <3> QED BY <3>1 DEF AttemptStatus, Outcome
  <2>3. attempt' = [attempt EXCEPT ![k] = new]
    BY <1>7, <2>1 DEF MarkUnreachable, PaymentInv, PaymentTypeOK
  <2> HIDE DEF new
  <2> QED BY <1>7, <2>1, <2>2, <2>3, OwnAttemptInv DEF MarkUnreachable, Reply
<1>8. CASE RequestDies(r)
  BY <1>8, RefusalInv DEF RequestDies, Reply
<1> QED BY <1>1, <1>2, <1>3, <1>4, <1>5, <1>6, <1>7, <1>8 DEF RequestStep

-----------------------------------------------------------------------------
(* The provider and the resolvers.                                          *)

LEMMA ReportInv ==
    ASSUME PaymentInv, NEW k \in Keys, NEW outcome \in Outcome, ProviderReports(k, outcome)
    PROVE  PaymentInv'
<1> USE DEF ProviderReports, paymentBooks
<1>1. notices \subseteq notices'
  OBVIOUS
<1>2. PaymentTypeOK'
  BY DEF PaymentInv, PaymentTypeOK, Notice
<1>3. (\A r \in Requests : RequestOK(request[r]))'
  BY DEF PaymentInv, RequestOK
<1>4. (\A v \in Resolvers : ResolverOK(resolver[v]))'
  BY <1>1 DEF PaymentInv, ResolverOK, PaymentReported
<1>5. Owners' /\ Holders'
  BY DEF PaymentInv, Owners, Holders
<1>6. AttemptsOK'
  BY DEF PaymentInv, AttemptsOK, Reserved, PaymentTypeOK
<1>7. CapturedWithSettlement' /\ CaptureHasPayment'
  BY <1>1 DEF PaymentInv, CapturedWithSettlement, CaptureHasPayment
<1> QED BY <1>2, <1>3, <1>4, <1>5, <1>6, <1>7 DEF PaymentInv

\* An idle resolver knows nothing.
LEMMA IdleRow == IdleResolver \in ResolverRow /\ IdleResolver.pc = "idle" /\ ResolverOK(IdleResolver)
BY DEF IdleResolver, ResolverRow, ResolverPC, Outcome, ResolverOK, Applying, InTransaction

LEMMA ReturnsInv ==
    ASSUME PaymentInv, NEW v \in Resolvers, resolver' = [resolver EXCEPT ![v] = IdleResolver],
           events' \subseteq notices, acked' \subseteq notices,
           UNCHANGED request, UNCHANGED paymentBooks, UNCHANGED outside
    PROVE  PaymentInv'
BY IdleRow, ResolverFrame DEF InTransaction

\* A resolver moves on, and keeps all that it knows.
LEMMA GoesInv ==
    ASSUME PaymentInv, NEW v \in Resolvers, NEW pc \in ResolverPC, GoResolver(v, pc),
           pc \in Applying => resolver[v].pc \in Applying,
           pc \notin {"idle", "recorded", "polling", "counted"},
           pc = "updated" => resolver[v].pc = "counted",
           pc \in InTransaction =>
               /\ CanTransition(attempt[resolver[v].key].status, resolver[v].next)
               /\ \A u \in Resolvers \ {v} :
                    resolver[u].pc \in InTransaction => resolver[u].key # resolver[v].key,
           UNCHANGED <<events, acked, request>>, UNCHANGED paymentBooks, UNCHANGED outside
    PROVE  PaymentInv'
<1> DEFINE row == [resolver[v] EXCEPT !.pc = pc]
<1>1. ResolverOK(resolver[v]) /\ resolver[v] \in ResolverRow
  BY DEF PaymentInv, PaymentTypeOK, ResolverRow
<1>2. /\ row \in ResolverRow /\ row.pc = pc /\ row.key = resolver[v].key
      /\ row.notice = resolver[v].notice /\ row.next = resolver[v].next
      /\ row.paid = resolver[v].paid
  BY <1>1 DEF ResolverRow
<1>3. resolver' = [resolver EXCEPT ![v] = row]
  BY DEF GoResolver, PaymentInv, PaymentTypeOK
<1> HIDE DEF row
<1>4. ResolverOK(row)
  BY <1>1, <1>2 DEF ResolverOK, Applying, InTransaction
<1>5. events' \subseteq notices /\ acked' \subseteq notices
  BY DEF PaymentInv, PaymentTypeOK
<1> QED BY <1>2, <1>3, <1>4, <1>5, ResolverFrame

LEMMA WebhookInv ==
    ASSUME PaymentInv, NEW v \in Resolvers, Webhook(v)
    PROVE  PaymentInv'
<1>1. events \subseteq notices /\ acked \subseteq notices /\ notices \subseteq Notice
  BY DEF PaymentInv, PaymentTypeOK
<1>2. ASSUME NEW n \in notices, RecordEvent(v, n) PROVE PaymentInv'
  <2>1. CASE Recorded(n)
    <3>1. resolver' = [resolver EXCEPT ![v] = IdleResolver] \/ resolver' = resolver
      BY <1>2, <2>1 DEF RecordEvent
    <3>2. resolver' = [resolver EXCEPT ![v] = resolver[v]]
      BY <1>2, <2>1 DEF RecordEvent, PaymentInv, PaymentTypeOK
    <3>3. /\ resolver[v] \in ResolverRow /\ ResolverOK(resolver[v])
          /\ resolver[v].pc = "idle"
      BY <1>2 DEF RecordEvent, PaymentInv, PaymentTypeOK, ResolverRow
    <3>4. /\ events' \subseteq notices /\ acked' \subseteq notices
          /\ UNCHANGED request /\ UNCHANGED paymentBooks /\ UNCHANGED outside
      BY <1>1, <1>2, <2>1 DEF RecordEvent
    <3> QED BY <3>2, <3>3, <3>4, ResolverFrame DEF InTransaction
  <2>2. CASE ~Recorded(n)
    <3> DEFINE row == [IdleResolver EXCEPT !.pc = "recorded", !.notice = n]
    <3>1. row \in ResolverRow /\ row.pc = "recorded" /\ row.notice = n
      BY <1>1 DEF IdleResolver, ResolverRow, ResolverPC, Outcome
    <3>2. /\ resolver' = [resolver EXCEPT ![v] = row]
          /\ events' \subseteq notices /\ acked' \subseteq notices
          /\ UNCHANGED request /\ UNCHANGED paymentBooks /\ UNCHANGED outside
      BY <1>1, <1>2, <2>2 DEF RecordEvent
    <3> HIDE DEF row
    <3>3. ResolverOK(row)
      BY <3>1 DEF ResolverOK, Applying, InTransaction
    <3> QED BY <3>1, <3>2, <3>3, ResolverFrame DEF InTransaction
  <2> QED BY <2>1, <2>2
<1>3. CASE MatchAttempt(v)
  <2>1. /\ resolver[v].pc = "recorded" /\ ResolverOK(resolver[v]) /\ resolver[v] \in ResolverRow
        /\ UNCHANGED <<events, acked, request>> /\ UNCHANGED paymentBooks /\ UNCHANGED outside
    BY <1>3 DEF MatchAttempt, PaymentInv, PaymentTypeOK, ResolverRow
  <2>2. CASE GoResolver(v, "answering")
    BY <2>1, <2>2, GoesInv DEF ResolverPC, Applying, InTransaction
  <2>3. ASSUME NEW k \in WithReference,
               resolver' = [resolver EXCEPT ![v].pc = "resolving", ![v].key = k,
                              ![v].next = resolver[v].notice[2]]
        PROVE  PaymentInv'
    <3> DEFINE row == [resolver[v] EXCEPT !.pc = "resolving", !.key = k,
                         !.next = resolver[v].notice[2]]
               n == resolver[v].notice
    <3>1. n \in notices /\ n \in Notice /\ k \in Keys /\ attempt[k].ref
      BY <1>1, <2>1 DEF ResolverOK, WithReference
    <3>2. n[1] \in Keys /\ n[2] \in Outcome /\ n = <<n[1], n[2]>>
      BY <3>1 DEF Notice
    <3>3. n[2] = "success" => PaymentReported
      BY <3>1, <3>2 DEF PaymentReported
    <3>4. /\ row \in ResolverRow /\ row.pc = "resolving" /\ row.key = k
          /\ row.notice = n /\ row.next = n[2]
      BY <2>1, <3>1, <3>2 DEF ResolverRow, ResolverPC
    <3>5. resolver' = [resolver EXCEPT ![v] = row]
      BY <2>3 DEF PaymentInv, PaymentTypeOK
    <3> HIDE DEF row, n
    <3>6. ResolverOK(row)
      BY <3>1, <3>3, <3>4 DEF ResolverOK, Applying, InTransaction
    <3> QED BY <1>1, <2>1, <3>4, <3>5, <3>6, ResolverFrame DEF InTransaction
  <2> QED BY <1>3, <2>2, <2>3 DEF MatchAttempt
<1> QED BY <1>2, <1>3 DEF Webhook

LEMMA AnswerInv ==
    ASSUME PaymentInv, NEW v \in Resolvers, Answer(v)
    PROVE  PaymentInv'
<1>1. events \subseteq notices /\ acked \subseteq notices
  BY DEF PaymentInv, PaymentTypeOK
<1>2. resolver[v].notice # None => resolver[v].notice \in notices
  BY DEF PaymentInv, ResolverOK
<1> QED BY <1>1, <1>2, ReturnsInv DEF Answer

LEMMA PollInv ==
    ASSUME PaymentInv, NEW v \in Resolvers, Poll(v)
    PROVE  PaymentInv'
<1>1. events \subseteq notices /\ acked \subseteq notices
  BY DEF PaymentInv, PaymentTypeOK
<1>2. ASSUME NEW k \in Keys, PollLatest(v, k) PROVE PaymentInv'
  <2> DEFINE row == [IdleResolver EXCEPT !.pc = "polling", !.key = k]
  <2>1. row \in ResolverRow /\ row.pc = "polling" /\ row.key = k /\ row.notice = None
    BY DEF IdleResolver, ResolverRow, ResolverPC, Outcome
  <2>2. /\ resolver' = [resolver EXCEPT ![v] = row] /\ attempt[k].ref
        /\ UNCHANGED <<events, acked, request>> /\ UNCHANGED paymentBooks /\ UNCHANGED outside
    BY <1>2 DEF PollLatest
  <2> HIDE DEF row
  <2>3. ResolverOK(row)
    BY <2>1, <2>2 DEF ResolverOK, Applying, InTransaction
  <2> QED BY <1>1, <2>1, <2>2, <2>3, ResolverFrame DEF InTransaction
<1>3. CASE PollAnswers(v)
  <2> DEFINE k == resolver[v].key
  <2>1. /\ UNCHANGED <<events, acked, request>> /\ UNCHANGED paymentBooks /\ UNCHANGED outside
        /\ resolver[v].pc = "polling" /\ ResolverOK(resolver[v]) /\ resolver[v] \in ResolverRow
    BY <1>3 DEF PollAnswers, PaymentInv, PaymentTypeOK, ResolverRow
  <2>2. k \in Keys /\ attempt[k].ref
    BY <2>1 DEF ResolverOK
  <2>3. provider[k] = "pending" \/ provider[k] \in Outcome
    BY <2>2 DEF PaymentInv, PaymentTypeOK
  <2>4. CASE resolver' = [resolver EXCEPT ![v] = IdleResolver]
    BY <1>1, <2>1, <2>4, ReturnsInv
  <2>5. CASE /\ provider[k] # "pending"
             /\ resolver' = [resolver EXCEPT ![v].pc = "resolving", ![v].next = provider[k]]
    <3> DEFINE row == [resolver[v] EXCEPT !.pc = "resolving", !.next = provider[k]]
    <3>1. provider[k] = "success" => PaymentReported
      BY <2>2, <2>3, <2>5 DEF PaymentInv, AttemptsOK, PaymentReported
    <3>2. /\ row \in ResolverRow /\ row.pc = "resolving" /\ row.key = k
          /\ row.notice = resolver[v].notice /\ row.next = provider[k]
      BY <2>1, <2>3, <2>5 DEF ResolverRow, ResolverPC
    <3>3. resolver' = [resolver EXCEPT ![v] = row]
      BY <2>5 DEF PaymentInv, PaymentTypeOK
    <3> HIDE DEF row
    <3>4. ResolverOK(row)
      BY <2>1, <2>2, <3>1, <3>2 DEF ResolverOK, Applying, InTransaction
    <3> QED BY <1>1, <2>1, <3>2, <3>3, <3>4, ResolverFrame DEF InTransaction
  <2> QED BY <1>3, <2>4, <2>5 DEF PollAnswers
<1> QED BY <1>2, <1>3 DEF Poll

-----------------------------------------------------------------------------
(* applyPaymentOutcome.                                                     *)

LEMMA LockInv ==
    ASSUME PaymentInv, NEW v \in Resolvers, LockAttempt(v)
    PROVE  PaymentInv'
<1>1. /\ UNCHANGED <<events, acked, request>> /\ UNCHANGED paymentBooks /\ UNCHANGED outside
      /\ resolver[v].pc = "resolving" /\ ~AttemptLocked(resolver[v].key)
  BY DEF LockAttempt
<1>2. CASE CanTransition(attempt[resolver[v].key].status, resolver[v].next)
  <2>1. GoResolver(v, "locked")
    BY <1>2 DEF LockAttempt
  <2>2. \A u \in Resolvers \ {v} :
          resolver[u].pc \in InTransaction => resolver[u].key # resolver[v].key
    BY <1>1 DEF AttemptLocked
  <2> QED BY <1>1, <1>2, <2>1, <2>2, GoesInv DEF ResolverPC, Applying, InTransaction
<1>3. CASE ~CanTransition(attempt[resolver[v].key].status, resolver[v].next)
  <2>1. GoResolver(v, "answering")
    BY <1>3 DEF LockAttempt
  <2> QED BY <1>1, <2>1, GoesInv DEF ResolverPC, Applying, InTransaction
<1> QED BY <1>2, <1>3

LEMMA CountInv ==
    ASSUME PaymentInv, NEW v \in Resolvers, CountSuccesses(v)
    PROVE  PaymentInv'
<1> DEFINE seen == SuccessesSeen(v) # {}
           row == [resolver[v] EXCEPT !.pc = "counted", !.paid = seen]
<1>1. /\ UNCHANGED <<events, acked, request>> /\ UNCHANGED paymentBooks /\ UNCHANGED outside
      /\ resolver[v].pc = "locked"
  BY DEF CountSuccesses
<1>2. /\ ResolverOK(resolver[v]) /\ resolver[v] \in ResolverRow
      /\ events \subseteq notices /\ acked \subseteq notices
  BY DEF PaymentInv, PaymentTypeOK, ResolverRow
<1>3. seen => resolver[v].next = "success" \/ captured # {}
  BY DEF SuccessesSeen, PaymentInv, CapturedWithSettlement
<1>4. seen \in BOOLEAN
  OBVIOUS
<1>5. resolver' = [resolver EXCEPT ![v] = row]
  BY DEF CountSuccesses, PaymentInv, PaymentTypeOK
<1> HIDE DEF seen
<1>6. /\ row \in ResolverRow /\ row.pc = "counted" /\ row.key = resolver[v].key
      /\ row.notice = resolver[v].notice /\ row.next = resolver[v].next /\ row.paid = seen
  BY <1>2, <1>4 DEF ResolverRow, ResolverPC, InTransaction
<1> HIDE DEF row
<1>7. ResolverOK(row)
  BY <1>1, <1>2, <1>3, <1>6 DEF ResolverOK, Applying, InTransaction
<1>8. \A u \in Resolvers \ {v} : resolver[u].pc \in InTransaction => resolver[u].key # row.key
  BY <1>1, <1>6 DEF PaymentInv, Holders, InTransaction
<1> QED BY <1>1, <1>2, <1>5, <1>6, <1>7, <1>8, ResolverFrame

LEMMA UpdateInv ==
    ASSUME PaymentInv, NEW v \in Resolvers, UpdateOrder(v)
    PROVE  PaymentInv'
<1>1. /\ UNCHANGED <<events, acked, request>> /\ UNCHANGED paymentBooks /\ UNCHANGED outside
      /\ resolver[v].pc = "counted" /\ GoResolver(v, "updated")
  BY DEF UpdateOrder
<1>2. ResolverOK(resolver[v])
  BY DEF PaymentInv
<1>3. CanTransition(attempt[resolver[v].key].status, resolver[v].next)
  BY <1>1, <1>2 DEF ResolverOK, InTransaction
<1>4. \A u \in Resolvers \ {v} :
        resolver[u].pc \in InTransaction => resolver[u].key # resolver[v].key
  BY <1>1 DEF PaymentInv, Holders, InTransaction
<1> QED BY <1>1, <1>3, <1>4, GoesInv DEF ResolverPC, Applying, InTransaction

\* What a resolver may write: a success that is settled for the first time, or
\* the failure of a pending attempt.
LEMMA OutcomeToWrite ==
    ASSUME PaymentInv, NEW v \in Resolvers, resolver[v].pc = "updated"
    PROVE  /\ resolver[v].key \in Keys /\ resolver[v].next \in Outcome
           /\ attempt[resolver[v].key].ref
           /\ attempt[resolver[v].key].status \in AttemptStatus \ {"none", "success"}
<1>1. /\ ResolverOK(resolver[v]) /\ resolver[v] \in ResolverRow
  BY DEF PaymentInv, PaymentTypeOK, ResolverRow
<1> DEFINE k == resolver[v].key
<1>2. /\ k \in Keys /\ resolver[v].next \in Outcome /\ attempt[k].ref
      /\ CanTransition(attempt[k].status, resolver[v].next)
  BY <1>1 DEF ResolverOK, ResolverRow, Applying, InTransaction
<1>3. attempt[k].status \in AttemptStatus /\ attempt[k].status # "none"
  BY <1>2 DEF PaymentInv, PaymentTypeOK, AttemptsOK
<1>4. attempt[k].status # "success"
  BY <1>2 DEF CanTransition, Rank, Outcome
<1> QED BY <1>2, <1>3, <1>4

LEMMA CommitInv ==
    ASSUME PaymentInv, NEW v \in Resolvers, Commit(v)
    PROVE  PaymentInv'
<1> USE DEF outside
<1>1. PICK k \in Keys : k = resolver[v].key
  BY OutcomeToWrite DEF Commit
<1>2. PICK next \in Outcome : next = resolver[v].next
  BY OutcomeToWrite DEF Commit
<1>3. /\ attempt[k].ref /\ attempt[k].status \notin {"none", "success"}
      /\ resolver[v] \in ResolverRow /\ ResolverOK(resolver[v]) /\ resolver[v].pc = "updated"
  BY <1>1, OutcomeToWrite DEF Commit, PaymentInv, PaymentTypeOK, ResolverRow
<1>4. /\ attempt' = [attempt EXCEPT ![k].status = next]
      /\ captured' = IF next = "success" THEN captured \union {k} ELSE captured
      /\ failed' = IF next = "failed" THEN failed \union {k} ELSE failed
      /\ orderPaid' = resolver[v].paid
      /\ UNCHANGED <<created, events, acked, request>> /\ UNCHANGED outside
  BY <1>1, <1>2 DEF Commit
<1>5. /\ attempt'[k].status = next /\ attempt'[k].ref = attempt[k].ref
      /\ attempt' \in [Keys -> [status : AttemptStatus, ref : BOOLEAN]]
      /\ \A j \in Keys \ {k} : attempt'[j] = attempt[j]
  <2>1. attempt[k] \in [status : AttemptStatus, ref : BOOLEAN]
    BY DEF PaymentInv, PaymentTypeOK
  <2>2. [attempt[k] EXCEPT !.status = next] \in [status : AttemptStatus, ref : BOOLEAN]
    BY <2>1 DEF AttemptStatus
  <2> QED BY <1>4, <2>1, <2>2 DEF PaymentInv, PaymentTypeOK
<1> DEFINE row == [resolver[v] EXCEPT !.pc = "answering"]
<1>6. /\ row \in ResolverRow /\ row.pc = "answering" /\ row.notice = resolver[v].notice
  BY <1>3 DEF ResolverRow, ResolverPC
<1>7. resolver' = [resolver EXCEPT ![v] = row]
  BY DEF Commit, GoResolver, PaymentInv, PaymentTypeOK
<1> HIDE DEF row
<1>8. /\ resolver' \in [Resolvers -> ResolverRow] /\ resolver'[v] = row
      /\ \A u \in Resolvers \ {v} : resolver'[u] = resolver[u]
  BY <1>6, <1>7 DEF PaymentInv, PaymentTypeOK, ResolverRow
<1>9. captured \subseteq captured'
  BY <1>4
<1>10. PaymentTypeOK'
  BY <1>3, <1>4, <1>5, <1>8 DEF PaymentInv, PaymentTypeOK, ResolverRow
<1>11. (\A r \in Requests : RequestOK(request[r]))'
  BY <1>3, <1>4, <1>5 DEF PaymentInv, RequestOK
<1>12. (\A u \in Resolvers : ResolverOK(resolver[u]))'
  <2>1. ASSUME NEW u \in Resolvers, u # v PROVE ResolverOK(resolver[u])'
    <3>1. ResolverOK(resolver[u])
      BY DEF PaymentInv
    <3>2. resolver[u].pc \in InTransaction => resolver[u].key # k
      BY <1>1, <1>3, <2>1 DEF PaymentInv, Holders, InTransaction
    <3>3. resolver'[u] = resolver[u]
      BY <1>8, <2>1
    <3> QED BY <1>4, <1>5, <1>9, <3>1, <3>2, <3>3 DEF ResolverOK, PaymentReported, Applying
  <2>2. ResolverOK(resolver[v])'
    BY <1>3, <1>4, <1>6, <1>8 DEF ResolverOK, Applying, InTransaction
  <2> QED BY <2>1, <2>2
<1>13. Owners' /\ Holders'
  BY <1>4, <1>6, <1>8 DEF PaymentInv, Owners, Holders, InTransaction
<1>14. Reserved' = Reserved
  BY <1>3, <1>5 DEF Reserved, Outcome
<1>15. AttemptsOK'
  BY <1>3, <1>4, <1>5, <1>14 DEF PaymentInv, AttemptsOK, Outcome
<1>16. CapturedWithSettlement'
  <2>1. captured' = {j \in Keys : attempt'[j].status = "success"}
    BY <1>3, <1>4, <1>5 DEF PaymentInv, CapturedWithSettlement, Outcome
  <2>2. orderPaid' => captured' # {}
    BY <1>2, <1>3, <1>4 DEF ResolverOK
  <2> QED BY <2>1, <2>2 DEF CapturedWithSettlement
<1>17. CaptureHasPayment'
  BY <1>2, <1>3, <1>4 DEF PaymentInv, CaptureHasPayment, ResolverOK, PaymentReported,
                          Applying, InTransaction
<1> QED BY <1>10, <1>11, <1>12, <1>13, <1>15, <1>16, <1>17 DEF PaymentInv

LEMMA FailureInv ==
    ASSUME PaymentInv, NEW v \in Resolvers, ResolverFails(v)
    PROVE  PaymentInv'
BY ReturnsInv DEF ResolverFails, PaymentInv, PaymentTypeOK

LEMMA PaymentNextInv ==
    ASSUME PaymentInv, [PaymentNext]_paymentVars
    PROVE  PaymentInv'
<1>1. CASE UNCHANGED paymentVars
  BY <1>1 DEF paymentVars, PaymentInv, PaymentTypeOK, RequestOK, ResolverOK, PaymentReported, Owners, Holders,
              AttemptsOK, Reserved, CapturedWithSettlement, CaptureHasPayment
<1>2. CASE \E r \in Requests : RequestStep(r)
  BY <1>2, RequestInv
<1>3. CASE \E k \in Keys, o \in Outcome : ProviderReports(k, o)
  BY <1>3, ReportInv
<1>4. ASSUME NEW v \in Resolvers, Webhook(v) \/ Poll(v) \/ Answer(v) PROVE PaymentInv'
  BY <1>4, WebhookInv, PollInv, AnswerInv
<1>5. ASSUME NEW v \in Resolvers, Apply(v) PROVE PaymentInv'
  BY <1>5, LockInv, CountInv, UpdateInv, CommitInv DEF Apply
<1>6. ASSUME NEW v \in Resolvers, ResolverFails(v) PROVE PaymentInv'
  BY <1>6, FailureInv
<1> QED BY <1>1, <1>2, <1>3, <1>4, <1>5, <1>6 DEF PaymentNext

LEMMA PaymentInvariance == PaymentSpec => []PaymentInv
<1>1. PaymentInv /\ [PaymentNext]_paymentVars => PaymentInv'
  BY PaymentNextInv
<1> QED BY PaymentInitInv, <1>1, PTL DEF PaymentSpec

-----------------------------------------------------------------------------
\* The attempts, the notices and every handler have the types they should, and no
\* key is reserved twice.
THEOREM PaymentsTyped == PaymentSpec => []PaymentTypeOK
<1>1. PaymentInv => PaymentTypeOK
  BY DEF PaymentInv
<1> QED BY PaymentInvariance, <1>1, PTL

\* However often and however concurrently a key is sent, and whatever fails, the
\* provider is called once with it.
THEOREM OneProviderCall == PaymentSpec => []OnePrompt
<1>1. PaymentInv => OnePrompt
  BY DEF PaymentInv, AttemptsOK, OnePrompt
<1> QED BY PaymentInvariance, <1>1, PTL

\* Captures are the settled attempts, and an order that shows as paid has one.
THEOREM CapturesAreSettlements == PaymentSpec => []CapturedWithSettlement
<1>1. PaymentInv => CapturedWithSettlement
  BY DEF PaymentInv
<1> QED BY PaymentInvariance, <1>1, PTL

\* Nothing is captured before the provider has reported a payment of the order.
THEOREM CapturesArePaid == PaymentSpec => []CaptureHasPayment
<1>1. PaymentInv => CaptureHasPayment
  BY DEF PaymentInv
<1> QED BY PaymentInvariance, <1>1, PTL

\* A settled attempt stays settled, and no failure of it is announced afterwards.
THEOREM SettlementsLast == PaymentSpec => SettledIsFinal
<1>1. ASSUME PaymentInv, [PaymentNext]_paymentVars, NEW k \in Keys, attempt[k].status = "success"
      PROVE  attempt'[k].status = "success" /\ (k \in failed' => k \in failed)
  <2>1. CASE UNCHANGED <<attempt, failed>>
    BY <1>1, <2>1
  <2>2. ASSUME NEW r \in Requests, request[r].pc \in Calling
        PROVE  request[r].key \in Keys \ {k} /\ attempt[request[r].key].status = "pending"
    BY <1>1, <2>2 DEF PaymentInv, RequestOK, Calling
  <2>3. ASSUME NEW r \in Requests, Reserve(r) PROVE UNCHANGED failed /\ attempt'[k] = attempt[k]
    <3>1. PICK j : j = request[r].key
      OBVIOUS
    <3>2. CASE KeyReserved(j)
      BY <2>3, <3>1, <3>2 DEF Reserve, paymentBooks
    <3>3. CASE ~KeyReserved(j)
      <4>1. j # k
        BY <1>1, <3>3 DEF KeyReserved
      <4>2. /\ attempt' = [attempt EXCEPT ![j] = [status |-> "pending", ref |-> FALSE]]
            /\ UNCHANGED failed
        BY <2>3, <3>1, <3>3 DEF Reserve
      <4> QED BY <1>1, <4>1, <4>2 DEF PaymentInv, PaymentTypeOK
    <3> QED BY <3>2, <3>3
  <2>4. ASSUME NEW r \in Requests, StoreReference(r) \/ MarkUnreachable(r)
        PROVE  UNCHANGED failed /\ attempt'[k] = attempt[k]
    <3>1. PICK j \in Keys \ {k} : j = request[r].key
      BY <2>2, <2>4 DEF StoreReference, MarkUnreachable, Calling
    <3>2. CASE StoreReference(r)
      BY <1>1, <3>1, <3>2 DEF StoreReference, PaymentInv, PaymentTypeOK
    <3>3. CASE MarkUnreachable(r)
      BY <1>1, <3>1, <3>3 DEF MarkUnreachable, PaymentInv, PaymentTypeOK
    <3> QED BY <2>4, <3>2, <3>3
  <2>5. ASSUME NEW v \in Resolvers, Commit(v)
        PROVE  attempt'[k] = attempt[k] /\ (k \in failed' => k \in failed)
    BY <1>1, <2>5, OutcomeToWrite DEF Commit, PaymentInv, PaymentTypeOK
  <2> QED
    BY <1>1, <2>1, <2>3, <2>4, <2>5
    DEF paymentVars, PaymentNext, RequestStep, CheckOrder, FindAttempt, ProviderAccepts, CallThrows, RequestDies,
        ProviderReports, Webhook, RecordEvent, MatchAttempt, Answer, Poll, PollLatest, PollAnswers,
        Apply, LockAttempt, CountSuccesses, UpdateOrder, ResolverFails, paymentBooks
<1>2. PaymentInv /\ [PaymentNext]_paymentVars =>
        [\A k \in Keys : attempt[k].status = "success" =>
            /\ attempt'[k].status = "success"
            /\ k \in failed' => k \in failed]_paymentVars
  BY <1>1
<1> QED BY PaymentInvariance, <1>2, PTL DEF PaymentSpec, SettledIsFinal

-----------------------------------------------------------------------------
(* The order's own status.                                                  *)

LEMMA OnlyCommitAnnounces ==
    ASSUME [PaymentNext]_paymentVars, ~\E v \in Resolvers : Commit(v)
    PROVE  UNCHANGED <<captured, failed, orderPaid>>
<1>1. ASSUME NEW r \in Requests, Reserve(r) PROVE UNCHANGED <<captured, failed, orderPaid>>
  BY <1>1 DEF Reserve, paymentBooks
<1> QED
  BY <1>1
  DEF paymentVars, PaymentNext, RequestStep, CheckOrder, FindAttempt, ProviderAccepts, CallThrows,
      StoreReference, MarkUnreachable, RequestDies, ProviderReports, Webhook, RecordEvent,
      MatchAttempt, Answer, Poll, PollLatest, PollAnswers, Apply, LockAttempt, CountSuccesses,
      UpdateOrder, ResolverFails, paymentBooks

\* No two transactions of the order settle attempts at once.
OneAtATime == \A u, v \in Resolvers :
                 resolver[u].pc \in InTransaction /\ resolver[v].pc \in InTransaction => u = v

\* What the order shows and what a transaction has counted is the truth.
CountsAreTrue ==
    /\ orderPaid <=> captured # {}
    /\ \A v \in Resolvers : resolver[v].pc \in {"counted", "updated"} =>
          (resolver[v].paid <=> resolver[v].next = "success" \/ captured # {})

\* What does not settle leaves the transactions that have counted as they are.
LEMMA CountedRowsKept ==
    ASSUME PaymentInv, NEW u \in Resolvers, NEW v \in Resolvers,
           Webhook(u) \/ Poll(u) \/ Answer(u) \/ ResolverFails(u),
           resolver'[v].pc \in {"counted", "updated"}
    PROVE  resolver'[v] = resolver[v]
<1>1. resolver \in [Resolvers -> ResolverRow]
  BY DEF PaymentInv, PaymentTypeOK, ResolverRow
<1>2. ASSUME NEW n \in notices, RecordEvent(u, n) PROVE resolver'[v] = resolver[v]
  BY <1>1, <1>2 DEF RecordEvent, IdleResolver
<1>3. CASE MatchAttempt(u)
  <2>1. CASE GoResolver(u, "answering")
    BY <1>1, <2>1 DEF GoResolver, ResolverRow
  <2>2. ASSUME NEW k \in WithReference,
               resolver' = [resolver EXCEPT ![u].pc = "resolving", ![u].key = k,
                              ![u].next = resolver[u].notice[2]]
        PROVE  resolver'[v] = resolver[v]
    BY <1>1, <2>2 DEF ResolverRow
  <2> QED BY <1>3, <2>1, <2>2, Zenon DEF MatchAttempt
<1>4. ASSUME NEW k \in Keys, PollLatest(u, k) PROVE resolver'[v] = resolver[v]
  BY <1>1, <1>4 DEF PollLatest, IdleResolver
<1>5. CASE PollAnswers(u)
  BY <1>1, <1>5 DEF PollAnswers, IdleResolver, ResolverRow
<1>6. CASE Answer(u) \/ ResolverFails(u)
  BY <1>1, <1>6 DEF Answer, ResolverFails, IdleResolver
<1> QED BY <1>2, <1>3, <1>4, <1>5, <1>6 DEF Webhook, Poll

LEMMA CountingTrue ==
    ASSUME PaymentInv, OneAtATime, CountsAreTrue, [PaymentNext]_paymentVars
    PROVE  CountsAreTrue'
<1>1. resolver \in [Resolvers -> ResolverRow]
  BY DEF PaymentInv, PaymentTypeOK, ResolverRow
<1>2. ASSUME NEW v \in Resolvers, Commit(v) PROVE CountsAreTrue'
  <2>1. resolver[v].pc = "updated" /\ orderPaid' = resolver[v].paid
    BY <1>2 DEF Commit
  <2>2. \A u \in Resolvers : resolver'[u].pc \notin {"counted", "updated"}
    BY <1>1, <1>2, <2>1 DEF Commit, GoResolver, OneAtATime, InTransaction, ResolverRow
  <2>3. captured' # {} <=> resolver[v].next = "success" \/ captured # {}
    BY <1>2 DEF Commit
  <2> QED BY <2>1, <2>2, <2>3 DEF CountsAreTrue
<1>3. ASSUME NEW v \in Resolvers, CountSuccesses(v) PROVE CountsAreTrue'
  <2>1. resolver'[v].paid <=> resolver[v].next = "success" \/ captured # {}
    <3>1. SuccessesSeen(v) # {} <=> resolver[v].next = "success" \/ captured # {}
      BY DEF SuccessesSeen, PaymentInv, CapturedWithSettlement
    <3> QED BY <1>1, <1>3, <3>1 DEF CountSuccesses, ResolverRow
  <2>2. /\ resolver'[v].next = resolver[v].next
        /\ \A u \in Resolvers \ {v} : resolver'[u] = resolver[u]
    BY <1>1, <1>3 DEF CountSuccesses, ResolverRow
  <2>3. UNCHANGED <<captured, orderPaid>>
    BY <1>3 DEF CountSuccesses, paymentBooks
  <2> QED BY <2>1, <2>2, <2>3 DEF CountsAreTrue
<1>4. CASE ~\E v \in Resolvers : Commit(v) \/ CountSuccesses(v)
  <2>1. UNCHANGED <<captured, orderPaid>>
    BY <1>4, OnlyCommitAnnounces
  <2>2. ASSUME NEW v \in Resolvers, resolver'[v].pc \in {"counted", "updated"}
        PROVE  /\ resolver[v].pc \in {"counted", "updated"}
               /\ resolver'[v].paid = resolver[v].paid /\ resolver'[v].next = resolver[v].next
    <3>1. CASE UNCHANGED resolver
      BY <2>2, <3>1
    <3>2. ASSUME NEW u \in Resolvers, LockAttempt(u) \/ UpdateOrder(u)
          PROVE  /\ resolver[v].pc \in {"counted", "updated"}
                 /\ resolver'[v].paid = resolver[v].paid /\ resolver'[v].next = resolver[v].next
      BY <1>1, <2>2, <3>2 DEF LockAttempt, UpdateOrder, GoResolver, ResolverRow
    <3>3. ASSUME NEW u \in Resolvers, Webhook(u) \/ Poll(u) \/ Answer(u) \/ ResolverFails(u)
          PROVE  resolver'[v] = resolver[v]
      BY <2>2, <3>3, CountedRowsKept
    <3> QED
      BY <1>4, <2>2, <3>1, <3>2, <3>3
      DEF paymentVars, PaymentNext, RequestStep, CheckOrder, FindAttempt, Reserve, ProviderAccepts,
          CallThrows, StoreReference, MarkUnreachable, RequestDies, ProviderReports, Apply
  <2> QED BY <2>1, <2>2 DEF CountsAreTrue
<1> QED BY <1>2, <1>3, <1>4

\* What recomputeOrderPayment shows is right as long as no two settlements of the
\* order overlap: that they may is all that is wrong with it.
THEOREM SettledOneAtATime == PaymentSpec /\ []OneAtATime => []OrderPaidIffSettled
<1>1. PaymentInit => CountsAreTrue
  BY DEF PaymentInit, CountsAreTrue, IdleResolver
<1>2. PaymentInv /\ OneAtATime /\ CountsAreTrue /\ [PaymentNext]_paymentVars => CountsAreTrue'
  BY CountingTrue
<1>3. PaymentInv /\ CountsAreTrue => OrderPaidIffSettled
  BY DEF PaymentInv, CapturedWithSettlement, CountsAreTrue, OrderPaidIffSettled
<1> QED BY <1>1, <1>2, <1>3, PaymentInvariance, PTL DEF PaymentSpec

\* So it is right for an order with a single attempt, however many polls and
\* webhooks report on it at once: the lock of the attempt's row keeps them apart.
OneAttempt == \A j, k \in Reserved : j = k

THEOREM OneAttemptIsShown == PaymentSpec /\ []OneAttempt => []OrderPaidIffSettled
<1>1. PaymentInv /\ OneAttempt => OneAtATime
  <2> SUFFICES ASSUME PaymentInv, OneAttempt, NEW u \in Resolvers, NEW v \in Resolvers,
                      resolver[u].pc \in InTransaction, resolver[v].pc \in InTransaction
               PROVE  u = v
    BY DEF OneAtATime
  <2>1. resolver[u].key \in Reserved /\ resolver[v].key \in Reserved
    BY DEF PaymentInv, ResolverOK, Applying, AttemptsOK, Reserved
  <2> QED BY <2>1 DEF OneAttempt, PaymentInv, Holders
<1> QED BY <1>1, PaymentInvariance, SettledOneAtATime, PTL

-----------------------------------------------------------------------------
(* Payments and the pipeline.                                               *)

\* Put together, payments do nothing that they do not do alone (payment.controller),
\* so that every theorem about them holds here.
THEOREM PaymentsUnchanged == ReceiptSpec => PaymentSpec
<1>1. ReceiptInit => PaymentInit
  BY DEF ReceiptInit
<1>2. [ReceiptNext]_receiptVars => [PaymentNext]_paymentVars
  <2>1. ASSUME NEW v \in Resolvers, Commit(v) PROVE PaymentNext
    BY <2>1 DEF PaymentNext, Apply
  <2> QED BY <2>1 DEF ReceiptNext, PaymentStep, FinanceStep, receiptVars
<1> QED BY <1>1, <1>2, PTL DEF ReceiptSpec, PaymentSpec

\* Nor does the pipeline: a payment's fact enters it as any other does
\* (enqueueFinanceOutboxEvent), and keeps its promise.
THEOREM PipelineUnchanged == ReceiptSpec => PipelineSpec
<1>1. ReceiptInit => PipelineInit
  BY DEF ReceiptInit
<1>2. ASSUME NEW v \in Resolvers, resolver[v].key \in Keys, RecordFact(v)
      PROVE  [PipelineNext]_pipelineVars
  <2>1. Fact(v) \in Events
    BY <1>2, ReceiptConstants DEF Fact
  <2>2. CASE UNCHANGED vars
    BY <1>2, <2>2 DEF RecordFact, pipelineVars
  <2>3. CASE Enqueue(Fact(v))
    <3>1. Next /\ ~\E e \in Events : Inserts(e)
      BY <2>1, <2>3 DEF Next, Enqueue, Inserts
    <3> QED BY <1>2, <3>1 DEF RecordFact, PipelineNext, DeliveryStep
  <2> QED BY <1>2, <2>2, <2>3 DEF RecordFact
<1>3. PaymentInv /\ [ReceiptNext]_receiptVars => [PipelineNext]_pipelineVars
  <2>1. ASSUME PaymentInv, NEW v \in Resolvers, Commit(v) PROVE resolver[v].key \in Keys
    BY <2>1, OutcomeToWrite DEF Commit
  <2> QED BY <1>2, <2>1 DEF ReceiptNext, PaymentStep, FinanceStep, receiptVars
<1> QED BY <1>1, <1>3, PaymentsUnchanged, PaymentInvariance, PTL DEF ReceiptSpec, PipelineSpec

-----------------------------------------------------------------------------
(* The fact of a settlement.                                                *)

\* An attempt of which a failure was announced is over, so that a second
\* announcement would need a transition that the code refuses.
FailedAreOver == \A k \in failed : attempt[k].status \in Outcome

\* What accounting has heard of is what is in the outbox.
FactsAgree == \A k \in Keys : /\ Enqueued(CaptureOf[k]) <=> k \in captured
                              /\ Enqueued(FailureOf[k]) <=> k \in failed

ReceiptInv == PaymentInv /\ DeliveryInv /\ FailedAreOver /\ FactsAgree

\* Only a settlement announces anything, and nothing takes an outcome back.
LEMMA OutcomesStay ==
    ASSUME PaymentInv, [PaymentNext]_paymentVars, NEW k \in Keys,
           attempt[k].status \in Outcome
    PROVE  attempt'[k].status \in Outcome
<1>1. attempt \in [Keys -> [status : AttemptStatus, ref : BOOLEAN]]
  BY DEF PaymentInv, PaymentTypeOK
<1>2. ASSUME NEW r \in Requests, Reserve(r) PROVE attempt'[k] = attempt[k]
  <2>1. PICK j : j = request[r].key
    OBVIOUS
  <2>2. CASE KeyReserved(j)
    BY <1>2, <2>1, <2>2 DEF Reserve, paymentBooks
  <2>3. CASE ~KeyReserved(j)
    <3>1. j # k
      BY <2>3 DEF KeyReserved, Outcome
    <3>2. attempt' = [attempt EXCEPT ![j] = [status |-> "pending", ref |-> FALSE]]
      BY <1>2, <2>1, <2>3 DEF Reserve
    <3> QED BY <1>1, <3>1, <3>2
  <2> QED BY <2>2, <2>3
<1>3. ASSUME NEW r \in Requests, StoreReference(r) PROVE attempt'[k].status = attempt[k].status
  BY <1>1, <1>3 DEF StoreReference
<1>4. ASSUME NEW r \in Requests, MarkUnreachable(r) PROVE attempt'[k].status \in Outcome
  BY <1>1, <1>4 DEF MarkUnreachable, Outcome
<1>5. ASSUME NEW v \in Resolvers, Commit(v) PROVE attempt'[k].status \in Outcome
  BY <1>1, <1>5, OutcomeToWrite DEF Commit
<1>6. CASE UNCHANGED attempt
  BY <1>6
<1> QED
  BY <1>2, <1>3, <1>4, <1>5, <1>6
  DEF paymentVars, PaymentNext, RequestStep, CheckOrder, FindAttempt, ProviderAccepts, CallThrows,
      RequestDies, ProviderReports, Webhook, RecordEvent, MatchAttempt, Answer, Poll, PollLatest,
      PollAnswers, Apply, LockAttempt, CountSuccesses, UpdateOrder, ResolverFails, paymentBooks

\* The fact of a settlement is new to the outbox: the transition that the
\* transaction has checked under its lock was never announced.
LEMMA NewFact ==
    ASSUME ReceiptInv, NEW v \in Resolvers, Commit(v)
    PROVE  ~Enqueued(Fact(v))
<1>1. PICK k \in Keys : k = resolver[v].key
  BY OutcomeToWrite DEF Commit, ReceiptInv
<1>2. /\ resolver[v].next \in Outcome /\ attempt[k].status # "success"
      /\ CanTransition(attempt[k].status, resolver[v].next)
  BY <1>1, OutcomeToWrite DEF Commit, ReceiptInv, PaymentInv, ResolverOK, InTransaction
<1>3. CASE resolver[v].next = "success"
  <2>1. k \notin captured
    BY <1>2 DEF ReceiptInv, PaymentInv, CapturedWithSettlement
  <2> QED BY <1>1, <1>3, <2>1 DEF Fact, ReceiptInv, FactsAgree
<1>4. CASE resolver[v].next = "failed"
  <2>1. attempt[k].status # "failed"
    BY <1>2, <1>4 DEF CanTransition, Rank
  <2>2. k \notin failed
    BY <1>2, <2>1 DEF ReceiptInv, FailedAreOver, Outcome
  <2> QED BY <1>1, <1>4, <2>2 DEF Fact, ReceiptInv, FactsAgree
<1> QED BY <1>2, <1>3, <1>4 DEF Outcome

LEMMA FailedStayOver ==
    ASSUME ReceiptInv, [PaymentNext]_paymentVars
    PROVE  FailedAreOver'
<1>1. \A k \in failed : attempt'[k].status \in Outcome
  BY OutcomesStay DEF ReceiptInv, FailedAreOver, PaymentInv, PaymentTypeOK
<1>2. ASSUME NEW v \in Resolvers, Commit(v) PROVE FailedAreOver'
  <2>1. PICK k \in Keys : k = resolver[v].key
    BY <1>2, OutcomeToWrite DEF Commit, ReceiptInv
  <2>2. attempt'[k].status = resolver[v].next /\ resolver[v].next \in Outcome
    BY <1>2, <2>1, OutcomeToWrite DEF Commit, ReceiptInv, PaymentInv, PaymentTypeOK
  <2>3. failed' \subseteq failed \union {k}
    BY <1>2, <2>1 DEF Commit
  <2> QED BY <1>1, <2>2, <2>3 DEF FailedAreOver
<1>3. CASE ~\E v \in Resolvers : Commit(v)
  BY <1>1, <1>3, OnlyCommitAnnounces DEF FailedAreOver
<1> QED BY <1>2, <1>3

LEMMA FactsStayAgreed ==
    ASSUME ReceiptInv, [ReceiptNext]_receiptVars
    PROVE  FactsAgree'
<1> USE DEF ReceiptInv, FactsAgree, Enqueued
<1>1. /\ outbox \in [Events -> OutboxRow]
      /\ \A k \in Keys : CaptureOf[k] \in Events /\ FailureOf[k] \in Events
  BY ReceiptConstants DEF DeliveryInv, TypeOK
<1>2. ASSUME NEW v \in Resolvers, Commit(v), RecordFact(v) PROVE FactsAgree'
  <2>1. PICK k \in Keys : k = resolver[v].key
    BY <1>2, OutcomeToWrite DEF Commit
  <2>2. resolver[v].next \in Outcome
    BY <1>2, OutcomeToWrite DEF Commit
  <2>3. outbox' = [outbox EXCEPT ![Fact(v)] = [status |-> "pending", attempts |-> 0]]
    BY <1>2, NewFact DEF RecordFact, Enqueue
  <2>4. /\ captured' = IF resolver[v].next = "success" THEN captured \union {k} ELSE captured
        /\ failed' = IF resolver[v].next = "failed" THEN failed \union {k} ELSE failed
    BY <1>2, <2>1 DEF Commit
  <2>5. CASE resolver[v].next = "success"
    <3>1. Fact(v) = CaptureOf[k] /\ captured' = captured \union {k} /\ failed' = failed
      BY <2>1, <2>4, <2>5 DEF Fact
    <3>2. \A j \in Keys : /\ outbox'[FailureOf[j]] = outbox[FailureOf[j]]
                          /\ j # k => outbox'[CaptureOf[j]] = outbox[CaptureOf[j]]
      BY <1>1, <2>3, <3>1, ReceiptConstants
    <3>3. outbox'[CaptureOf[k]].status = "pending"
      BY <1>1, <2>3, <3>1
    <3> QED BY <3>1, <3>2, <3>3
  <2>6. CASE resolver[v].next = "failed"
    <3>1. Fact(v) = FailureOf[k] /\ captured' = captured /\ failed' = failed \union {k}
      BY <2>1, <2>4, <2>6 DEF Fact
    <3>2. \A j \in Keys : /\ outbox'[CaptureOf[j]] = outbox[CaptureOf[j]]
                          /\ j # k => outbox'[FailureOf[j]] = outbox[FailureOf[j]]
      BY <1>1, <2>3, <3>1, ReceiptConstants
    <3>3. outbox'[FailureOf[k]].status = "pending"
      BY <1>1, <2>3, <3>1
    <3> QED BY <3>1, <3>2, <3>3
  <2> QED BY <2>2, <2>5, <2>6 DEF Outcome
<1>3. CASE PaymentNext /\ ~(\E v \in Resolvers : Commit(v)) /\ UNCHANGED pipelineVars
  BY <1>3, OnlyCommitAnnounces DEF pipelineVars, vars
<1>4. CASE FinanceStep
  <2>1. [Next]_vars /\ UNCHANGED <<captured, failed>>
    BY <1>4, StepsOfDelivery DEF FinanceStep, paymentVars
  <2>2. \A e \in PaymentFacts : Enqueued(e)' <=> Enqueued(e)
    BY <1>1, <1>4, <2>1, CommittedStays DEF FinanceStep, PaymentFacts
  <2> QED BY <2>1, <2>2 DEF PaymentFacts
<1>5. CASE UNCHANGED receiptVars
  BY <1>5 DEF receiptVars, paymentVars, pipelineVars, vars
<1> QED BY <1>2, <1>3, <1>4, <1>5 DEF ReceiptNext, PaymentStep

LEMMA ReceiptInvariance == ReceiptSpec => []ReceiptInv
<1>1. ReceiptInit => FailedAreOver /\ FactsAgree
  BY ReceiptConstants
     DEF ReceiptInit, PaymentInit, PipelineInit, Init, FailedAreOver, FactsAgree, Enqueued
<1>2. ReceiptInv /\ [ReceiptNext]_receiptVars /\ [PaymentNext]_paymentVars
        => FailedAreOver' /\ FactsAgree'
  BY FailedStayOver, FactsStayAgreed
<1>3. PaymentInv /\ DeliveryInv /\ FailedAreOver /\ FactsAgree <=> ReceiptInv
  BY DEF ReceiptInv
<1>4. ReceiptSpec => []PaymentInv /\ [][PaymentNext]_paymentVars
  BY PaymentsUnchanged, PaymentInvariance, PTL DEF PaymentSpec
<1>5. ReceiptSpec => []DeliveryInv
  BY PipelineUnchanged, DeliveryUnchanged, InvariantHolds, PTL
<1> QED BY <1>1, <1>2, <1>3, <1>4, <1>5, PTL DEF ReceiptSpec

-----------------------------------------------------------------------------
\* Accounting is told of a capture exactly when an attempt is settled, and of a
\* failure only when one has failed (applyPaymentOutcome), whatever the pipeline has
\* made of the facts since.
THEOREM FactsAlwaysSettlements == ReceiptSpec => []FactsAreSettlements
<1>1. ASSUME ReceiptInv PROVE FactsAreSettlements
  <2>1. \A k \in Keys : k \in captured <=> attempt[k].status = "success"
    BY <1>1 DEF ReceiptInv, PaymentInv, CapturedWithSettlement
  <2> QED BY <1>1, <2>1 DEF ReceiptInv, FailedAreOver, FactsAgree, FactsAreSettlements
<1> QED BY <1>1, ReceiptInvariance, PTL

\* No settlement meets its own fact in the outbox, so that an idempotency key is
\* never used again with another payload (OUTBOX_IDEMPOTENCY_CONFLICT in
\* enqueueFinanceOutboxEvent) and no webhook is refused for it.
FactsAreNew == [][\A v \in Resolvers : Commit(v) => ~Enqueued(Fact(v))]_receiptVars

THEOREM FactsAlwaysNew == ReceiptSpec => FactsAreNew
<1>1. ReceiptInv => [\A v \in Resolvers : Commit(v) => ~Enqueued(Fact(v))]_receiptVars
  BY NewFact
<1> QED BY <1>1, ReceiptInvariance, PTL DEF FactsAreNew

\* From applyPaymentOutcome to postAccountingEvent: an entry of the ledger for a
\* payment is its only one, and stands for a settled attempt of an order of which the
\* provider has reported a payment.
THEOREM EveryReceiptIsPaid == ReceiptSpec => []ReceiptsArePayments
<1>1. ReceiptSpec => []EffectHasFact /\ []EngineInv
  BY PipelineUnchanged, EveryEffectHasFact, EngineUnchanged, EngineInvariantHolds, PTL
<1>2. ASSUME ReceiptInv, EngineInv, EffectHasFact PROVE ReceiptsArePayments
  <2>1. ASSUME NEW k \in Keys, ledger[CaptureOf[k]] > 0
        PROVE  /\ ledger[CaptureOf[k]] = 1 /\ attempt[k].status = "success"
               /\ \E j \in Keys : <<j, "success">> \in notices
    <3>1. CaptureOf[k] \in Events
      BY ReceiptConstants
    <3>2. ledger[CaptureOf[k]] = 1
      BY <1>2, <2>1, <3>1 DEF EngineInv, OneAccountingEffect
    <3>3. k \in captured
      BY <1>2, <2>1, <3>1 DEF EffectHasFact, ReceiptInv, FactsAgree, Enqueued
    <3> QED BY <1>2, <3>2, <3>3
            DEF ReceiptInv, PaymentInv, CapturedWithSettlement, CaptureHasPayment
  <2>2. orderPaid => \E k \in Keys : Enqueued(CaptureOf[k])
    BY <1>2 DEF ReceiptInv, PaymentInv, CapturedWithSettlement, FactsAgree
  <2> QED BY <2>1, <2>2 DEF ReceiptsArePayments
<1> QED BY <1>1, <1>2, ReceiptInvariance, PTL

\* A capture that was announced is never taken back, and accounting hears of no
\* failure of an attempt after its capture (applyPaymentOutcome,
\* enqueueFinanceOutboxEvent), whatever delivery and operators do to the rows.
CapturesAreLast ==
    [][\A k \in Keys : Enqueued(CaptureOf[k]) =>
          /\ Enqueued(CaptureOf[k])'
          /\ Enqueued(FailureOf[k])' => Enqueued(FailureOf[k])]_receiptVars

THEOREM NoFailureAfterCapture == ReceiptSpec => CapturesAreLast
<1> DEFINE Lasts == \A k \in Keys : attempt[k].status = "success" =>
                       /\ attempt'[k].status = "success"
                       /\ k \in failed' => k \in failed
<1>1. ReceiptSpec => [][Lasts]_paymentVars
  BY PaymentsUnchanged, SettlementsLast, PTL DEF SettledIsFinal
<1>2. ASSUME ReceiptInv, ReceiptInv', [Lasts]_paymentVars, NEW k \in Keys, Enqueued(CaptureOf[k])
      PROVE  /\ Enqueued(CaptureOf[k])'
             /\ Enqueued(FailureOf[k])' => Enqueued(FailureOf[k])
  <2>1. /\ Enqueued(CaptureOf[k]) <=> attempt[k].status = "success"
        /\ Enqueued(CaptureOf[k])' <=> attempt'[k].status = "success"
        /\ Enqueued(FailureOf[k]) <=> k \in failed
        /\ Enqueued(FailureOf[k])' <=> k \in failed'
    BY <1>2 DEF ReceiptInv, FactsAgree, PaymentInv, CapturedWithSettlement
  <2> QED BY <1>2, <2>1 DEF paymentVars
<1>3. ReceiptInv /\ ReceiptInv' /\ [Lasts]_paymentVars =>
        [\A k \in Keys : Enqueued(CaptureOf[k]) =>
            /\ Enqueued(CaptureOf[k])'
            /\ Enqueued(FailureOf[k])' => Enqueued(FailureOf[k])]_receiptVars
  BY <1>2
<1> QED BY <1>1, <1>3, ReceiptInvariance, PTL DEF CapturesAreLast
=============================================================================
