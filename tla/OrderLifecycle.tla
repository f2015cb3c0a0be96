--------------------------- MODULE OrderLifecycle ---------------------------
(***************************************************************************)
(* The life of an order from placement to delivery: createOrder and its    *)
(* dispatch, the scheduled-release job, claims, fare negotiation, the      *)
(* vendor's vehicle upgrade, the rider's status reports, cancellation, the *)
(* finance events of the last two and the rider's earnings.                *)
(*                                                                         *)
(* updateOrderStatus and cancelOrder hold the order's row lock for their   *)
(* whole transaction, so each is one step.  Every other handler reads,     *)
(* then writes in a statement of its own; a handler that dies in between   *)
(* is one that never takes its next step.                                  *)
(***************************************************************************)
EXTENDS Integers, FiniteSets

CONSTANTS Orders, Riders,
          RiderRank,      \* the rank of each rider's vehicle
          OrderRank,      \* the rank that weight and category call for
          MaxRank,
          Scheduled,      \* orders placed for a later time: scheduled_for is set
          Negotiable,     \* orders open for offers
          Upgradable,     \* orders whose vendor may ask for a larger vehicle
          OfferHandlers,  \* makeOffer handlers running at the same time
          MaxOffers,      \* bound on the offers made
          AgreedFare,     \* the fare of every offer
          Nil

ASSUME OrderConstants ==
    /\ MaxRank \in Nat /\ AgreedFare \in Nat \ (0..MaxRank)
    /\ RiderRank \in [Riders -> 1..MaxRank]
    /\ OrderRank \in [Orders -> 1..MaxRank]
    /\ Scheduled \subseteq Orders /\ Negotiable \subseteq Orders
    /\ Upgradable \subseteq Orders
    /\ MaxOffers \in Nat
    /\ IsFiniteSet(Orders)
    \* Nil is no rider, no order, no number and no payload.
    /\ Nil \notin Riders \union Orders \union Nat
    /\ Nil \notin [rider : Riders \union {Nil}, fee : Nat, total : Nat]

VARIABLES order,      \* orders: status, rider_id, vehicle_type, fee, total
          completed,  \* the payload of order.completed and delivery.completed
          cancelled,  \* the payload of order.cancelled
          offer,      \* order_offers
          deliveries, \* riders.total_deliveries
          placing,    \* createOrder of each order
          claiming,   \* the order each rider's claim has checked
          upgrading,  \* upgradeVehicle of each order
          releasing,  \* the release job, per order
          choosing,   \* chooseOffer of each order
          offering,   \* the makeOffer handlers
          crediting   \* the earnings credit after a delivery

vars == <<order, completed, cancelled, offer, deliveries, placing, claiming,
          upgrading, releasing, choosing, offering, crediting>>
outbox == <<completed, cancelled>>
handlers == <<placing, claiming, upgrading, releasing, choosing, offering, crediting>>

Busy == {"accepted", "picked_up", "en_route"}
\* The column is a string and takes any: "other" is one that no handler asks for.
Status == {"none", "scheduled", "pending", "cancelled", "delivered", "other"} \union Busy
Offers == 1..MaxOffers
Rider == Riders \union {Nil}

NoOffer == [order |-> Nil, rider |-> Nil, status |-> "none"]
Unplaced == [status |-> "none", rider |-> Nil, rank |-> 0, fee |-> 0, total |-> 0]

Init ==
    /\ order = [o \in Orders |-> Unplaced]
    /\ completed = [o \in Orders |-> Nil]
    /\ cancelled = [o \in Orders |-> Nil]
    /\ offer = [i \in Offers |-> NoOffer]
    /\ deliveries = [r \in Riders |-> 0]
    /\ placing = [o \in Orders |-> [pc |-> "new", rider |-> Nil]]
    /\ claiming = [r \in Riders |-> Nil]
    /\ upgrading = [o \in Orders |-> [pc |-> "idle", rank |-> 0, release |-> FALSE]]
    /\ releasing = [o \in Orders |-> [pc |-> "idle", rider |-> Nil]]
    /\ choosing = [o \in Orders |-> [pc |-> "idle", offer |-> 0]]
    /\ offering = [h \in OfferHandlers |-> [pc |-> "idle", order |-> Nil, rider |-> Nil]]
    /\ crediting = [o \in Orders |-> [pc |-> "idle", rider |-> Nil, seen |-> 0]]

\* Mutation: a discount is taken off without stopping at zero.
FeeBelowZero(rank) == rank - 2
\* calculateFees: the fee grows with the vehicle.
Fee(rank) == rank

-----------------------------------------------------------------------------
(* createOrder and dispatchOrder.                                           *)

Place(o) ==
    /\ placing[o].pc = "new"
    /\ order' = [order EXCEPT ![o].status =
                   IF o \in Scheduled THEN "scheduled" ELSE "pending"]
    /\ placing' = [placing EXCEPT ![o].pc =
                     IF o \in Scheduled \union Negotiable THEN "deferring" ELSE "finding"]
    /\ UNCHANGED <<offer, deliveries, claiming, upgrading, releasing, choosing,
                   offering, crediting>> /\ UNCHANGED outbox

Priced(ord, rank) ==
    [ord EXCEPT !.rank = rank, !.fee = Fee(rank), !.total = Fee(rank)]

\* A scheduled or negotiable order is priced and keeps its status.
Defer(o) ==
    /\ placing[o].pc = "deferring"
    /\ order' = [order EXCEPT ![o] = Priced(@, OrderRank[o])]
    /\ placing' = [placing EXCEPT ![o].pc = "placed"]
    /\ UNCHANGED <<offer, deliveries, claiming, upgrading, releasing, choosing,
                   offering, crediting>> /\ UNCHANGED outbox

\* findAvailableRider: an online rider who is not busy and whose vehicle is large
\* enough, the smallest of them; riders come online and go, so it is any of them.
Available(rank) ==
    {Nil} \union {r \in Riders : /\ RiderRank[r] >= rank
                                 /\ \A o \in Orders : order[o].rider = r =>
                                                        order[o].status \notin Busy}

FindRider(o) ==
    /\ placing[o].pc = "finding"
    /\ \E r \in Available(OrderRank[o]) :
         placing' = [placing EXCEPT ![o] = [pc |-> "assigning", rider |-> r]]
    /\ UNCHANGED <<order, offer, deliveries, claiming, upgrading, releasing,
                   choosing, offering, crediting>> /\ UNCHANGED outbox

\* The update is not conditional.  With no rider, status and rider_id are what
\* they were when the order was created, and unchanged columns are not written.
Assign(o) ==
    /\ placing[o].pc = "assigning"
    /\ LET r == placing[o].rider
           priced == Priced(order[o], OrderRank[o])
       IN order' = [order EXCEPT ![o] =
                      IF r = Nil THEN priced
                      ELSE [priced EXCEPT !.rider = r, !.status = "accepted"]]
    /\ placing' = [placing EXCEPT ![o] = [pc |-> "placed", rider |-> Nil]]
    /\ UNCHANGED <<offer, deliveries, claiming, upgrading, releasing, choosing,
                   offering, crediting>> /\ UNCHANGED outbox

-----------------------------------------------------------------------------
(* The scheduled-release job.                                               *)

\* An order without scheduled_for is never due, whatever its status says.
ReleaseFinds(o) ==
    /\ releasing[o].pc = "idle"
    /\ o \in Scheduled /\ order[o].status = "scheduled"
    /\ \E r \in IF order[o].rank = 0 THEN {Nil} ELSE Available(order[o].rank) :
         releasing' = [releasing EXCEPT ![o] = [pc |-> "found", rider |-> r]]
    /\ UNCHANGED <<order, offer, deliveries, placing, claiming, upgrading, choosing,
                   offering, crediting>> /\ UNCHANGED outbox

\* Mutation: the update is unconditional.
StillOpen(o) == TRUE
\* Mutation: the update asks for the status it is about to write.
TestsPending(o) == order[o].status = "pending"
StillScheduled(o) == order[o].status = "scheduled"

Release(o) ==
    /\ releasing[o].pc = "found"
    /\ LET r == releasing[o].rider
       IN order' = IF StillScheduled(o)
                   THEN [order EXCEPT ![o].rider = r, ![o].status =
                           IF r = Nil THEN "pending" ELSE "accepted"]
                   ELSE order
    /\ releasing' = [releasing EXCEPT ![o] = [pc |-> "idle", rider |-> Nil]]
    /\ UNCHANGED <<offer, deliveries, placing, claiming, upgrading, choosing,
                   offering, crediting>> /\ UNCHANGED outbox

\* The lookup or the update throws; the next tick finds the order again.
ReleaseFails(o) ==
    /\ releasing[o].pc = "found"
    /\ releasing' = [releasing EXCEPT ![o] = [pc |-> "idle", rider |-> Nil]]
    /\ UNCHANGED <<order, offer, deliveries, placing, claiming, upgrading, choosing,
                   offering, crediting>> /\ UNCHANGED outbox

-----------------------------------------------------------------------------
(* claimOrder.                                                              *)

\* An order whose vehicle is not set yet (rank 0) fits every rider.
Carries(r, o) == RiderRank[r] >= order[o].rank

CheckClaim(r, o) ==
    /\ claiming[r] = Nil
    /\ order[o].rider = Nil /\ order[o].status = "pending"
    /\ Carries(r, o)
    /\ claiming' = [claiming EXCEPT ![r] = o]
    /\ UNCHANGED <<order, offer, deliveries, placing, upgrading, releasing, choosing,
                   offering, crediting>> /\ UNCHANGED outbox

Unclaimed(o) == order[o].rider = Nil /\ order[o].status = "pending"

Claim(r) ==
    /\ claiming[r] # Nil
    /\ LET o == claiming[r]
       IN order' = IF Unclaimed(o)
                   THEN [order EXCEPT ![o].rider = r, ![o].status = "accepted"]
                   ELSE order
    /\ claiming' = [claiming EXCEPT ![r] = Nil]
    /\ UNCHANGED <<offer, deliveries, placing, upgrading, releasing, choosing,
                   offering, crediting>> /\ UNCHANGED outbox

-----------------------------------------------------------------------------
(* Fare negotiation.                                                        *)

LivePending(o) == {i \in Offers : offer[i].order = o /\ offer[i].status = "pending"}

CheckOffer(h, r, o) ==
    /\ offering[h].pc = "idle"
    /\ o \in Negotiable /\ order[o].status # "none" /\ order[o].rider = Nil
    /\ offering' = [offering EXCEPT ![h] = [pc |-> "checked", order |-> o, rider |-> r]]
    /\ UNCHANGED <<order, offer, deliveries, placing, claiming, upgrading, releasing,
                   choosing, crediting>> /\ UNCHANGED outbox

DropPriorOffer(h) ==
    /\ offering[h].pc = "checked"
    /\ offer' = [i \in Offers |->
                   IF i \in LivePending(offering[h].order)
                        /\ offer[i].rider = offering[h].rider
                   THEN [offer[i] EXCEPT !.status = "destroyed"] ELSE offer[i]]
    /\ offering' = [offering EXCEPT ![h].pc = "dropped"]
    /\ UNCHANGED <<order, deliveries, placing, claiming, upgrading, releasing,
                   choosing, crediting>> /\ UNCHANGED outbox

MakeOffer(h) ==
    /\ offering[h].pc = "dropped"
    /\ \E i \in Offers :
         /\ offer[i] = NoOffer /\ \A j \in Offers : j < i => offer[j] # NoOffer
         /\ offer' = [offer EXCEPT ![i] = [order |-> offering[h].order,
                                           rider |-> offering[h].rider,
                                           status |-> "pending"]]
    /\ offering' = [offering EXCEPT ![h] = [pc |-> "idle", order |-> Nil, rider |-> Nil]]
    /\ UNCHANGED <<order, deliveries, placing, claiming, upgrading, releasing,
                   choosing, crediting>> /\ UNCHANGED outbox

CheckChoice(o, i) ==
    /\ choosing[o].pc = "idle"
    /\ order[o].rider = Nil
    /\ i \in LivePending(o)
    /\ choosing' = [choosing EXCEPT ![o] = [pc |-> "checked", offer |-> i]]
    /\ UNCHANGED <<order, offer, deliveries, placing, claiming, upgrading, releasing,
                   offering, crediting>> /\ UNCHANGED outbox

\* Mutation: the offer is written whoever has the order.
AlwaysRiderless(o) == TRUE
Riderless(o) == order[o].rider = Nil

AssignOffer(o) ==
    /\ choosing[o].pc = "checked"
    /\ IF Riderless(o)
       THEN /\ order' = [order EXCEPT ![o].rider = offer[choosing[o].offer].rider,
                                      ![o].fee = AgreedFare,
                                      ![o].status = "accepted"]
            /\ choosing' = [choosing EXCEPT ![o].pc = "assigned"]
       ELSE /\ choosing' = [choosing EXCEPT ![o] = [pc |-> "idle", offer |-> 0]]
            /\ UNCHANGED order
    /\ UNCHANGED <<offer, deliveries, placing, claiming, upgrading, releasing,
                   offering, crediting>> /\ UNCHANGED outbox

MarkChosen(o) ==
    /\ choosing[o].pc = "assigned"
    /\ offer' = [offer EXCEPT ![choosing[o].offer].status = "chosen"]
    /\ choosing' = [choosing EXCEPT ![o].pc = "chosen"]
    /\ UNCHANGED <<order, deliveries, placing, claiming, upgrading, releasing,
                   offering, crediting>> /\ UNCHANGED outbox

DeclineRest(o) ==
    /\ choosing[o].pc = "chosen"
    /\ offer' = [i \in Offers |-> IF i \in LivePending(o)
                                  THEN [offer[i] EXCEPT !.status = "declined"]
                                  ELSE offer[i]]
    /\ choosing' = [choosing EXCEPT ![o] = [pc |-> "idle", offer |-> 0]]
    /\ UNCHANGED <<order, deliveries, placing, claiming, upgrading, releasing,
                   offering, crediting>> /\ UNCHANGED outbox

-----------------------------------------------------------------------------
(* upgradeVehicle.                                                          *)

CheckUpgrade(o, rank) ==
    /\ o \in Upgradable
    /\ upgrading[o].pc = "idle"
    /\ order[o].status \in {"pending", "accepted"}
    /\ rank > order[o].rank
    /\ upgrading' = [upgrading EXCEPT ![o] =
                       [pc |-> "checked", rank |-> rank,
                        release |-> order[o].rider # Nil /\ RiderRank[order[o].rider] < rank]]
    /\ UNCHANGED <<order, offer, deliveries, placing, claiming, releasing, choosing,
                   offering, crediting>> /\ UNCHANGED outbox

Upgrade(o) ==
    /\ upgrading[o].pc = "checked"
    /\ LET priced == Priced(order[o], upgrading[o].rank)
       IN order' = [order EXCEPT ![o] =
                      IF upgrading[o].release
                      THEN [priced EXCEPT !.rider = Nil, !.status = "pending"]
                      ELSE priced]
    /\ upgrading' = [upgrading EXCEPT ![o] = [pc |-> "idle", rank |-> 0, release |-> FALSE]]
    /\ UNCHANGED <<offer, deliveries, placing, claiming, releasing, choosing,
                   offering, crediting>> /\ UNCHANGED outbox

-----------------------------------------------------------------------------
(* updateOrderStatus, cancelOrder and their finance events.                 *)

Payload(o) == [rider |-> order[o].rider, fee |-> order[o].fee, total |-> order[o].total]

\* Mutation: a second completion finds its events and goes on.
AlwaysEmits(o) == TRUE
\* enqueueFinanceOutboxEvent refuses a key it holds with another payload, and
\* delivery.completed carries the time of the delivery: a second completion
\* always conflicts, and its transaction rolls back.
Emits(o) == completed[o] = Nil

Deliver(r, o) ==
    /\ order[o].rider = r /\ order[o].status # "delivered"
    /\ Emits(o)
    /\ order' = [order EXCEPT ![o].status = "delivered"]
    /\ completed' = [completed EXCEPT ![o] = Payload(o)]
    /\ crediting' = [crediting EXCEPT ![o] = [pc |-> "due", rider |-> r, seen |-> 0]]
    /\ UNCHANGED <<cancelled, offer, deliveries, placing, claiming, upgrading,
                   releasing, choosing, offering>>

\* Any other status is stored as it comes: no validator, no transition table, and no
\* event, also when it is "cancelled" or takes a delivery back.
Reportable == Status \ {"none", "delivered"}
Report(r, o, s) ==
    /\ order[o].rider = r /\ s \in Reportable
    /\ order' = [order EXCEPT ![o].status = s]
    /\ UNCHANGED <<offer, deliveries>> /\ UNCHANGED outbox /\ UNCHANGED handlers

\* The rider's totals are read, added to and written after the commit.
ReadTotals(o) ==
    /\ crediting[o].pc = "due"
    /\ crediting' = [crediting EXCEPT ![o].pc = "read",
                                      ![o].seen = deliveries[crediting[o].rider]]
    /\ UNCHANGED <<order, offer, deliveries, placing, claiming, upgrading, releasing,
                   choosing, offering>> /\ UNCHANGED outbox

Credit(o) ==
    /\ crediting[o].pc = "read"
    /\ deliveries' = [deliveries EXCEPT ![crediting[o].rider] = crediting[o].seen + 1]
    /\ crediting' = [crediting EXCEPT ![o] = [pc |-> "idle", rider |-> Nil, seen |-> 0]]
    /\ UNCHANGED <<order, offer, placing, claiming, upgrading, releasing, choosing,
                   offering>> /\ UNCHANGED outbox

Cancellable == {"scheduled", "pending", "accepted"}

\* Mutation: the event is enqueued outside the transaction, and lost with it.
EventLost(o) == cancelled
CancelledEvents(o) == [cancelled EXCEPT ![o] = Payload(o)]

Cancel(o) ==
    /\ order[o].status \in Cancellable
    /\ cancelled[o] \in {Nil, Payload(o)}
    /\ order' = [order EXCEPT ![o].status = "cancelled"]
    /\ cancelled' = CancelledEvents(o)
    /\ UNCHANGED <<completed, offer, deliveries>> /\ UNCHANGED handlers

-----------------------------------------------------------------------------
Creation(o) == Place(o) \/ Defer(o) \/ FindRider(o) \/ Assign(o)
ReleaseJob(o) == ReleaseFinds(o) \/ Release(o) \/ ReleaseFails(o)
Claiming(r) == (\E o \in Orders : CheckClaim(r, o)) \/ Claim(r)
Offering(h) == \/ \E r \in Riders, o \in Orders : CheckOffer(h, r, o)
               \/ DropPriorOffer(h) \/ MakeOffer(h)
Choosing(o) == (\E i \in Offers : CheckChoice(o, i)) \/ AssignOffer(o)
                 \/ MarkChosen(o) \/ DeclineRest(o)
Upgrading(o) == (\E rank \in 1..MaxRank : CheckUpgrade(o, rank)) \/ Upgrade(o)
Reporting(r, o) == Deliver(r, o) \/ \E s \in Reportable : Report(r, o, s)
Crediting(o) == ReadTotals(o) \/ Credit(o)

Next ==
    \/ \E o \in Orders : Creation(o) \/ ReleaseJob(o) \/ Choosing(o)
                         \/ Upgrading(o) \/ Crediting(o) \/ Cancel(o)
    \/ \E r \in Riders : Claiming(r) \/ \E o \in Orders : Reporting(r, o)
    \/ \E h \in OfferHandlers : Offering(h)

Spec == Init /\ [][Next]_vars

\* The job runs every minute, and a failing tick is retried by the next.
Fairness == \A o \in Orders : /\ WF_vars(ReleaseFinds(o))
                              /\ SF_vars(Release(o))
FairSpec == Spec /\ Fairness
-----------------------------------------------------------------------------
OrderRow == [status : Status, rider : Rider, rank : 0..MaxRank, fee : Nat, total : Nat]
PayloadRow == [rider : Rider, fee : Nat, total : Nat]
OfferRow == [order : Orders \union {Nil}, rider : Rider,
             status : {"none", "pending", "chosen", "declined", "destroyed"}]
PlacingRow == [pc : {"new", "deferring", "finding", "assigning", "placed"}, rider : Rider]
UpgradingRow == [pc : {"idle", "checked"}, rank : 0..MaxRank, release : BOOLEAN]
ReleasingRow == [pc : {"idle", "found"}, rider : Rider]
ChoosingRow == [pc : {"idle", "checked", "assigned", "chosen"}, offer : 0..MaxOffers]
OfferingRow == [pc : {"idle", "checked", "dropped"}, order : Orders \union {Nil}, rider : Rider]
CreditingRow == [pc : {"idle", "due", "read"}, rider : Rider, seen : Nat]

TypeOK ==
    /\ order \in [Orders -> OrderRow]
    /\ completed \in [Orders -> PayloadRow \union {Nil}]
    /\ cancelled \in [Orders -> PayloadRow \union {Nil}]
    /\ offer \in [Offers -> OfferRow]
    /\ deliveries \in [Riders -> Nat]
    /\ placing \in [Orders -> PlacingRow]
    /\ claiming \in [Riders -> Orders \union {Nil}]
    /\ upgrading \in [Orders -> UpgradingRow]
    /\ releasing \in [Orders -> ReleasingRow]
    /\ choosing \in [Orders -> ChoosingRow]
    /\ offering \in [OfferHandlers -> OfferingRow]
    /\ crediting \in [Orders -> CreditingRow]

\* "Two riders tapping Accept at the same moment" never end with "one silently
\* stealing the other's order" (claimOrder): no claim, chosen offer or release
\* gives away an order that has a rider, it can only be handed back.
NoStealing ==
    [][\A o \in Orders : order[o].rider # Nil =>
          order'[o].rider \in {order[o].rider, Nil}]_vars

\* Of all the handlers, only a dispatch that has found its rider takes an order away
\* from another one; claims, offers and upgrades leave it to him or hand it back, and
\* so does the release job unless he has himself reported the order as scheduled.
Keeps(o) == placing[o].pc # "assigning" /\ order[o].status # "scheduled"
OnlyDispatchSteals ==
    [][\A o \in Orders : order[o].rider # Nil /\ Keeps(o) =>
          order'[o].rider \in {order[o].rider, Nil}]_vars

\* Whoever reports what in whatever order, a delivered order is accounted for to the
\* rider it shows.  An order cancelled by its customer has its order.cancelled; one
\* without it still shows the rider who reported it cancelled.
OutcomeIsAccounted ==
    \A o \in Orders :
        /\ order[o].status = "delivered" =>
              completed[o] # Nil /\ completed[o].rider = order[o].rider
        /\ order[o].status = "cancelled" => cancelled[o] # Nil \/ order[o].rider # Nil

\* A rider is credited at most once for each order completed for him, also when
\* reports are repeated, taken back and made again (updateOrderStatus).
CreditedOnce ==
    \A r \in Riders :
        deliveries[r] <= Cardinality({o \in Orders : completed[o] # Nil /\ completed[o].rider = r})

\* The release job must never send out an order "that was cancelled while it was
\* deciding" (scheduledRelease, tests/scheduledCancel): a cancelled order comes
\* back to life only by an offer its customer chose, by an upgrade or a dispatch
\* that was under way, or by the report of the rider it had; never by the job or a
\* claim.
Revivable(o) == \/ choosing[o].pc = "checked"
                \/ upgrading[o].pc = "checked"
                \/ placing[o].pc = "assigning"
                \/ order[o].rider # Nil
CancelledStaysIn ==
    [][\A o \in Orders : order[o].status = "cancelled" /\ ~Revivable(o) =>
          order'[o].status = "cancelled" /\ order'[o].rider = Nil]_vars

\* An order placed for a later time does not stay scheduled: the job releases it, or
\* its customer has cancelled it, or a rider was chosen for it.
ScheduledLeaves == \A o \in Scheduled : order[o].status = "scheduled" ~> order[o].status # "scheduled"
=============================================================================
