-------------------------- MODULE PaymentAttempts ---------------------------
(***************************************************************************)
(* Taking payment for one order: initiate, poll and webhook of             *)
(* payment.controller over payment_attempts, payment_events and the        *)
(* order's payment_status, and the finance events the outcome enqueues.    *)
(*                                                                         *)
(* One order is enough: the attempts of an order share the provider        *)
(* reference MZAYA-<orderId>, and no handler looks across references.      *)
(* Statements outside a transaction commit alone.  applyPaymentOutcome is  *)
(* a transaction at PostgreSQL's READ COMMITTED: what it wrote shows to    *)
(* others at its commit, a row it wrote stays locked until then, and an    *)
(* UPDATE that waited for such a lock goes on with the value it computed.  *)
(***************************************************************************)
EXTENDS Integers, FiniteSets, Sequences

CONSTANTS Keys,      \* idempotency keys sent for the order: method and phone
          Requests,  \* POST pay handlers running at the same time
          Resolvers, \* webhook and poll handlers running at the same time
          Faults,    \* the handlers that may fail or die: request, resolver
          None

ASSUME PaymentConstants ==
    /\ IsFiniteSet(Keys) /\ None \notin Keys
    /\ Faults \subseteq {"request", "resolver"}

VARIABLES attempt,   \* payment_attempts by key: status, reference stored?
          created,   \* the keys in the order their attempts were created
          orderPaid, \* is orders.payment_status 'success'?
          captured,  \* attempts with a payment.captured event in the outbox
          failed,    \* attempts with a payment.failed event in the outbox
          events,    \* payment_events: the notices recorded
          prompts,   \* provider calls made with each key
          notices,   \* what the provider has reported about each prompt
          provider,  \* what the provider answers to a poll about each prompt
          acked,     \* notices answered with 200
          request, resolver

paymentVars == <<attempt, created, orderPaid, captured, failed, events, prompts,
          notices, provider, acked, request, resolver>>
\* The provider's side, and the books an outcome is applied to.
outside == <<prompts, notices, provider>>
paymentBooks == <<attempt, created, orderPaid, captured, failed>>

\* The provider's "cancelled" becomes "failed" when its answer is read.
Outcome == {"success", "failed"}
AttemptStatus == {"none", "pending"} \union Outcome
Notice == Keys \X Outcome
RequestPC == {"idle", "checked", "reserving", "calling", "storing", "refusing"}
Reply == {"none", "paid", "initiated", "already", "unreachable"}
InTransaction == {"locked", "counted", "updated"}
ResolverPC == {"idle", "recorded", "polling", "resolving", "answering"}
                \union InTransaction

IdleResolver == [pc |-> "idle", notice |-> None, key |-> None, next |-> "failed",
                 paid |-> FALSE]

PaymentInit ==
    /\ attempt = [k \in Keys |-> [status |-> "none", ref |-> FALSE]]
    /\ created = <<>>
    /\ orderPaid = FALSE
    /\ captured = {} /\ failed = {} /\ events = {}
    /\ prompts = [k \in Keys |-> 0]
    /\ notices = {} /\ acked = {}
    /\ provider = [k \in Keys |-> "pending"]
    /\ request = [r \in Requests |-> [pc |-> "idle", key |-> None, reply |-> "none"]]
    /\ resolver = [v \in Resolvers |-> IdleResolver]

-----------------------------------------------------------------------------
(* initiateOrderPayment.                                                    *)

GoRequest(r, pc) == request' = [request EXCEPT ![r].pc = pc]
Respond(r, reply) ==
    request' = [request EXCEPT ![r].pc = "idle", ![r].reply = reply]

\* An order already paid is refused here.
CheckOrder(r, k) ==
    /\ request[r].pc = "idle"
    /\ ~orderPaid
    /\ request' = [request EXCEPT ![r] = [pc |-> "checked", key |-> k, reply |-> "none"]]
    /\ UNCHANGED <<events, acked, resolver>> /\ UNCHANGED paymentBooks /\ UNCHANGED outside

FindAttempt(r) ==
    /\ request[r].pc = "checked"
    /\ CASE attempt[request[r].key].status = "success" -> Respond(r, "paid")
         [] attempt[request[r].key].status = "pending" -> Respond(r, "already")
         [] OTHER -> GoRequest(r, "reserving")
    /\ UNCHANGED <<events, acked, resolver>> /\ UNCHANGED paymentBooks /\ UNCHANGED outside

\* Mutation: no unique index on idempotency_key.
NoSecondKey(k) == FALSE

\* The unique index on idempotency_key refuses a second row, in whatever status
\* the first one is.
KeyReserved(k) == attempt[k].status # "none"

Reserve(r) ==
    /\ request[r].pc = "reserving"
    /\ LET k == request[r].key
       IN IF KeyReserved(k)
          THEN Respond(r, "already") /\ UNCHANGED paymentBooks
          ELSE /\ attempt' = [attempt EXCEPT ![k] = [status |-> "pending", ref |-> FALSE]]
               /\ created' = Append(created, k)
               /\ GoRequest(r, "calling")
               /\ UNCHANGED <<orderPaid, captured, failed>>
    /\ UNCHANGED <<events, acked, resolver>> /\ UNCHANGED outside

\* The provider accepts, and the customer gets a prompt ...
ProviderAccepts(r) ==
    /\ request[r].pc = "calling"
    /\ prompts' = [prompts EXCEPT ![request[r].key] = @ + 1]
    /\ GoRequest(r, "storing")
    /\ UNCHANGED <<events, notices, provider, acked, resolver>> /\ UNCHANGED paymentBooks

\* ... or the call throws: the request or only its answer was lost.
CallThrows(r) ==
    /\ request[r].pc = "calling"
    /\ \E arrived \in {0, 1} :
         prompts' = [prompts EXCEPT ![request[r].key] = @ + arrived]
    /\ GoRequest(r, "refusing")
    /\ UNCHANGED <<events, notices, provider, acked, resolver>> /\ UNCHANGED paymentBooks

StoreReference(r) ==
    /\ request[r].pc = "storing"
    /\ attempt' = [attempt EXCEPT ![request[r].key].ref = TRUE]
    /\ Respond(r, "initiated")
    /\ UNCHANGED <<created, orderPaid, captured, failed, events, acked, resolver>>
    /\ UNCHANGED outside

MarkUnreachable(r) ==
    /\ request[r].pc = "refusing"
    /\ attempt' = [attempt EXCEPT ![request[r].key].status = "failed"]
    /\ Respond(r, "unreachable")
    /\ UNCHANGED <<created, orderPaid, captured, failed, events, acked, resolver>>
    /\ UNCHANGED outside

RequestDies(r) ==
    /\ "request" \in Faults
    /\ request[r].pc # "idle"
    /\ Respond(r, "none")
    /\ UNCHANGED <<events, acked, resolver>> /\ UNCHANGED paymentBooks /\ UNCHANGED outside

-----------------------------------------------------------------------------
(* The provider (external): it reports each outcome of a prompt at most     *)
(* once as a payload of its own, in any order, and sends a payload again    *)
(* until it is answered with 200.                                           *)

ProviderReports(k, outcome) ==
    /\ prompts[k] > 0
    /\ <<k, outcome>> \notin notices
    /\ notices' = notices \union {<<k, outcome>>}
    /\ provider' = [provider EXCEPT ![k] = outcome]
    /\ UNCHANGED <<events, prompts, acked, request, resolver>> /\ UNCHANGED paymentBooks

-----------------------------------------------------------------------------
(* handleWebhook.                                                           *)

GoResolver(v, pc) == resolver' = [resolver EXCEPT ![v].pc = pc]

\* The unique (provider_reference, payload_hash) refuses a second row.
Recorded(n) == n \in events

RecordEvent(v, n) ==
    /\ resolver[v].pc = "idle"
    /\ n \in notices \ acked
    /\ IF Recorded(n)
       THEN acked' = acked \union {n} /\ UNCHANGED <<events, resolver>>
       ELSE /\ events' = events \union {n}
            /\ resolver' = [resolver EXCEPT ![v] =
                              [IdleResolver EXCEPT !.pc = "recorded", !.notice = n]]
            /\ UNCHANGED acked
    /\ UNCHANGED request /\ UNCHANGED paymentBooks /\ UNCHANGED outside

\* findOne by provider_reference: any attempt of the order that has stored it.
WithReference == {k \in Keys : attempt[k].ref}

MatchAttempt(v) ==
    /\ resolver[v].pc = "recorded"
    /\ IF WithReference = {} THEN GoResolver(v, "answering")
       ELSE \E k \in WithReference :
              resolver' = [resolver EXCEPT ![v].pc = "resolving", ![v].key = k,
                             ![v].next = resolver[v].notice[2]]
    /\ UNCHANGED <<events, acked, request>> /\ UNCHANGED paymentBooks /\ UNCHANGED outside

Answer(v) ==
    /\ resolver[v].pc = "answering"
    /\ acked' = IF resolver[v].notice = None THEN acked
                ELSE acked \union {resolver[v].notice}
    /\ resolver' = [resolver EXCEPT ![v] = IdleResolver]
    /\ UNCHANGED <<events, request>> /\ UNCHANGED paymentBooks /\ UNCHANGED outside

-----------------------------------------------------------------------------
(* pollOrderPayment.                                                        *)

Pending == {k \in Keys : attempt[k].status = "pending"}
Latest(k) == \A i, j \in DOMAIN created :
                created[i] = k /\ j > i => created[j] \notin Pending

PollLatest(v, k) ==
    /\ resolver[v].pc = "idle"
    /\ k \in Pending /\ Latest(k) /\ attempt[k].ref
    /\ resolver' = [resolver EXCEPT ![v] =
                      [IdleResolver EXCEPT !.pc = "polling", !.key = k]]
    /\ UNCHANGED <<events, acked, request>> /\ UNCHANGED paymentBooks /\ UNCHANGED outside

\* Mutation: whatever is no longer pending is taken for paid.
PollTakesFinalForPaid(v) ==
    /\ resolver[v].pc = "polling"
    /\ resolver' = [resolver EXCEPT ![v] =
            IF provider[resolver[v].key] = "pending" THEN IdleResolver
            ELSE [@ EXCEPT !.pc = "resolving", !.next = "success"]]
    /\ UNCHANGED <<events, acked, request>> /\ UNCHANGED paymentBooks /\ UNCHANGED outside

\* Of the states that a webhook takes for success the poll knows 'paid' only: the
\* others, 'awaiting delivery' and 'delivered', are pending to it.
PollAnswers(v) ==
    /\ resolver[v].pc = "polling"
    /\ LET outcome == provider[resolver[v].key]
       IN \/ outcome # "failed" /\ resolver' = [resolver EXCEPT ![v] = IdleResolver]
          \/ /\ outcome # "pending"
             /\ resolver' = [resolver EXCEPT ![v].pc = "resolving", ![v].next = outcome]
    /\ UNCHANGED <<events, acked, request>> /\ UNCHANGED paymentBooks /\ UNCHANGED outside

-----------------------------------------------------------------------------
(* applyPaymentOutcome and recomputeOrderPayment.                           *)

Rank == [pending |-> 0, failed |-> 1, success |-> 2]
\* Mutation: any change of status is allowed.
AnyTransition(from, to) == from # to
CanTransition(from, to) == Rank[to] > Rank[from]

\* Mutation: the attempt is read without a lock.
NeverLocked(k) == FALSE
AttemptLocked(k) ==
    \E v \in Resolvers : resolver[v].pc \in InTransaction /\ resolver[v].key = k
OrderLocked == \E v \in Resolvers : resolver[v].pc = "updated"

LockAttempt(v) ==
    /\ resolver[v].pc = "resolving"
    /\ ~AttemptLocked(resolver[v].key)
    /\ GoResolver(v, IF CanTransition(attempt[resolver[v].key].status, resolver[v].next)
                     THEN "locked" ELSE "answering")
    /\ UNCHANGED <<events, acked, request>> /\ UNCHANGED paymentBooks /\ UNCHANGED outside

\* The attempts whose success the transaction sees: the committed ones and the
\* one it has just written.
SuccessesSeen(v) ==
    {k \in Keys : attempt[k].status = "success"}
      \union (IF resolver[v].next = "success" THEN {resolver[v].key} ELSE {})

CountSuccesses(v) ==
    /\ resolver[v].pc = "locked"
    /\ resolver' = [resolver EXCEPT ![v].pc = "counted", ![v].paid = SuccessesSeen(v) # {}]
    /\ UNCHANGED <<events, acked, request>> /\ UNCHANGED paymentBooks /\ UNCHANGED outside

UpdateOrder(v) ==
    /\ resolver[v].pc = "counted"
    /\ ~OrderLocked
    /\ GoResolver(v, "updated")
    /\ UNCHANGED <<events, acked, request>> /\ UNCHANGED paymentBooks /\ UNCHANGED outside

Commit(v) ==
    /\ resolver[v].pc = "updated"
    /\ LET k == resolver[v].key
       IN /\ attempt' = [attempt EXCEPT ![k].status = resolver[v].next]
          /\ captured' = IF resolver[v].next = "success" THEN captured \union {k} ELSE captured
          /\ failed' = IF resolver[v].next = "failed" THEN failed \union {k} ELSE failed
    /\ orderPaid' = resolver[v].paid
    /\ GoResolver(v, "answering")
    /\ UNCHANGED <<created, events, acked, request>> /\ UNCHANGED outside

\* Any statement may throw or the process may die; an open transaction rolls
\* back, and a webhook answers 500 or nothing.
ResolverFails(v) ==
    /\ "resolver" \in Faults
    /\ resolver[v].pc # "idle"
    /\ resolver' = [resolver EXCEPT ![v] = IdleResolver]
    /\ UNCHANGED <<events, acked, request>> /\ UNCHANGED paymentBooks /\ UNCHANGED outside

-----------------------------------------------------------------------------
RequestStep(r) ==
    \/ \E k \in Keys : CheckOrder(r, k)
    \/ FindAttempt(r) \/ Reserve(r) \/ ProviderAccepts(r) \/ CallThrows(r)
    \/ StoreReference(r) \/ MarkUnreachable(r) \/ RequestDies(r)

Webhook(v) == (\E n \in notices : RecordEvent(v, n)) \/ MatchAttempt(v)
Poll(v) == (\E k \in Keys : PollLatest(v, k)) \/ PollAnswers(v)
Apply(v) == LockAttempt(v) \/ CountSuccesses(v) \/ UpdateOrder(v) \/ Commit(v)

PaymentNext ==
    \/ \E r \in Requests : RequestStep(r)
    \/ \E k \in Keys, o \in Outcome : ProviderReports(k, o)
    \/ \E v \in Resolvers : Webhook(v) \/ Poll(v) \/ Apply(v) \/ Answer(v)
                            \/ ResolverFails(v)

PaymentSpec == PaymentInit /\ [][PaymentNext]_paymentVars
-----------------------------------------------------------------------------
PaymentTypeOK ==
    /\ attempt \in [Keys -> [status : AttemptStatus, ref : BOOLEAN]]
    /\ created \in Seq(Keys) /\ Len(created) <= Cardinality(Keys)
    /\ orderPaid \in BOOLEAN
    /\ captured \subseteq Keys /\ failed \subseteq Keys
    /\ events \subseteq notices /\ acked \subseteq notices /\ notices \subseteq Notice
    /\ prompts \in [Keys -> Nat]
    /\ provider \in [Keys -> {"pending"} \union Outcome]
    /\ request \in [Requests -> [pc : RequestPC, key : Keys \union {None}, reply : Reply]]
    /\ resolver \in [Resolvers -> [pc : ResolverPC, notice : Notice \union {None},
                                   key : Keys \union {None}, next : Outcome, paid : BOOLEAN]]

\* "One provider call, one prompt" (initiateOrderPayment): however often and
\* however concurrently a key is sent, the provider is called once with it.
OnePrompt == \A k \in Keys : prompts[k] <= 1

\* "A settled payment is never dragged backwards" (applyPaymentOutcome), by no
\* order of polls, webhooks and failing provider calls: an attempt that has
\* succeeded stays so, and accounting does not hear of a failure afterwards.
SettledIsFinal ==
    [][\A k \in Keys : attempt[k].status = "success" =>
          /\ attempt'[k].status = "success"
          /\ k \in failed' => k \in failed]_paymentVars

\* The finance events are atomic with the resolution: every settled attempt has
\* its payment.captured, and whenever the order shows as paid accounting has
\* heard of a capture.
CapturedWithSettlement ==
    /\ captured = {k \in Keys : attempt[k].status = "success"}
    /\ orderPaid => captured # {}

\* Nothing is captured before the provider has reported a payment of the order.
CaptureHasPayment ==
    captured # {} => \E k \in Keys : <<k, "success">> \in notices

\* "An order is paid iff SOME attempt succeeded -- derived, never assigned by
\* whichever event happened to land last" (recomputeOrderPayment).
OrderPaidIffSettled ==
    orderPaid <=> \E k \in Keys : attempt[k].status = "success"

\* The same webhook "can arrive ten times and be applied exactly once"
\* (handleWebhook): once a notice of payment is answered with 200 and no handler
\* is still at work on it, accounting has heard of a capture.
AckedIsApplied ==
    \A k \in Keys : <<k, "success">> \in acked =>
        \/ captured # {}
        \/ \E v \in Resolvers : resolver[v].notice = <<k, "success">>
=============================================================================
