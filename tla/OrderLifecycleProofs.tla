------------------------ MODULE OrderLifecycleProofs -------------------------
(***************************************************************************)
(* The order's life, for every number of orders, riders and handlers:      *)
(* outcomes are accounted for, riders are credited once for a completion,  *)
(* and a cancelled order is not sent out by the job or a claim.            *)
(***************************************************************************)
EXTENDS OrderLifecycle, FiniteSetTheorems, TLAPS

\* Before its handler has placed it, an order has nothing: no handler works on it
\* and no offer is for it.
NewIsUntouched ==
    \A o \in Orders : placing[o].pc = "new" =>
        /\ order[o].status = "none" /\ order[o].rider = Nil
        /\ choosing[o].pc # "checked" /\ upgrading[o].pc = "idle"
        /\ \A i \in Offers : offer[i].order # o
        /\ \A h \in OfferHandlers : offering[h].order # o

\* The offer that a customer is choosing exists.
ChoiceKnown == \A o \in Orders : choosing[o].pc = "checked" => choosing[o].offer \in Offers

\* The completions of a rider whose credit has been written.
Credited(r) == {o \in Orders : /\ completed[o] # Nil /\ completed[o].rider = r
                               /\ crediting[o].pc = "idle"}

\* A credit is of a completion, and whatever it has read is behind what was written.
CreditInv ==
    /\ \A o \in Orders : crediting[o].pc # "idle" =>
          /\ completed[o] # Nil /\ completed[o].rider = crediting[o].rider
          /\ crediting[o].rider \in Riders
    /\ \A o \in Orders, r \in Riders :
          crediting[o].pc = "read" /\ crediting[o].rider = r =>
              crediting[o].seen <= Cardinality(Credited(r))
    /\ \A r \in Riders : deliveries[r] <= Cardinality(Credited(r))

OrderInv == TypeOK /\ NewIsUntouched /\ ChoiceKnown /\ OutcomeIsAccounted /\ CreditInv

LEMMA CreditedIsFinite ==
    ASSUME NEW r
    PROVE  IsFiniteSet(Credited(r)) /\ Cardinality(Credited(r)) \in Nat
<1>1. IsFiniteSet(Credited(r))
  BY OrderConstants, FS_Subset DEF Credited
<1> QED BY <1>1, FS_CardinalityType


LEMMA InitInv == Init => OrderInv
<1> SUFFICES ASSUME Init PROVE OrderInv
  OBVIOUS
<1> USE OrderConstants DEF Init
<1>1. TypeOK
  <2>1. Unplaced \in OrderRow
    BY DEF Unplaced, OrderRow, Status, Rider
  <2>2. NoOffer \in OfferRow
    BY DEF NoOffer, OfferRow, Rider
  <2>3. [pc |-> "new", rider |-> Nil] \in PlacingRow
    BY DEF PlacingRow, Rider
  <2>4. [pc |-> "idle", rank |-> 0, release |-> FALSE] \in UpgradingRow
    BY DEF UpgradingRow
  <2>5. [pc |-> "idle", rider |-> Nil] \in ReleasingRow
    BY DEF ReleasingRow, Rider
  <2>6. [pc |-> "idle", offer |-> 0] \in ChoosingRow
    BY DEF ChoosingRow
  <2>7. [pc |-> "idle", order |-> Nil, rider |-> Nil] \in OfferingRow
    BY DEF OfferingRow, Rider
  <2>8. [pc |-> "idle", rider |-> Nil, seen |-> 0] \in CreditingRow
    BY DEF CreditingRow, Rider
  <2> QED BY <2>1, <2>2, <2>3, <2>4, <2>5, <2>6, <2>7, <2>8 DEF TypeOK
<1>2. NewIsUntouched /\ ChoiceKnown /\ OutcomeIsAccounted
  BY DEF NewIsUntouched, ChoiceKnown, OutcomeIsAccounted, Unplaced, NoOffer
<1>3. CreditInv
  <2>1. \A r \in Riders : Credited(r) = {}
    BY DEF Credited
  <2>2. ASSUME NEW r \in Riders PROVE deliveries[r] <= Cardinality(Credited(r))
    <3>1. deliveries[r] = 0
      OBVIOUS
    <3>2. Cardinality(Credited(r)) = 0
      BY <2>1, FS_EmptySet
    <3> QED BY <3>1, <3>2
  <2>3. \A o \in Orders : crediting[o].pc = "idle"
    OBVIOUS
  <2> QED BY <2>2, <2>3 DEF CreditInv
<1> QED BY <1>1, <1>2, <1>3 DEF OrderInv

-----------------------------------------------------------------------------
(* Types: what the handlers make of a row.                                  *)

LEMMA StatusRow ==
    ASSUME NEW row \in OrderRow, NEW status \in Status
    PROVE  [row EXCEPT !.status = status] \in OrderRow
BY DEF OrderRow

LEMMA PricedRow ==
    ASSUME NEW row \in OrderRow, NEW rank \in 0..MaxRank
    PROVE  Priced(row, rank) \in OrderRow
<1>1. rank \in Nat
  BY OrderConstants
<1>2. Priced(row, rank) = [row EXCEPT !.rank = rank, !.fee = rank, !.total = rank]
  BY DEF Priced, Fee
<1> QED BY <1>1, <1>2 DEF OrderRow

LEMMA AssignedRow ==
    ASSUME NEW row \in OrderRow, NEW status \in Status, NEW rider \in Rider
    PROVE  [row EXCEPT !.rider = rider, !.status = status] \in OrderRow
BY DEF OrderRow

LEMMA AgreedRow ==
    ASSUME NEW row \in OrderRow, NEW rider \in Rider
    PROVE  [row EXCEPT !.rider = rider, !.fee = AgreedFare, !.status = "accepted"] \in OrderRow
BY OrderConstants DEF OrderRow, Status, Busy

LEMMA PlacingMoves ==
    ASSUME NEW row \in PlacingRow,
           NEW pc \in {"new", "deferring", "finding", "assigning", "placed"}
    PROVE  [row EXCEPT !.pc = pc] \in PlacingRow
BY DEF PlacingRow

LEMMA RanksAreInRange ==
    ASSUME NEW o \in Orders
    PROVE  OrderRank[o] \in 0..MaxRank
BY OrderConstants

LEMMA CreationType ==
    ASSUME OrderInv, NEW o \in Orders, Creation(o)
    PROVE  TypeOK'
<1> USE DEF OrderInv, TypeOK, outbox
<1>1. CASE Place(o)
  <2> DEFINE status == IF o \in Scheduled THEN "scheduled" ELSE "pending"
             pc == IF o \in Scheduled \union Negotiable THEN "deferring" ELSE "finding"
  <2>1. [order[o] EXCEPT !.status = status] \in OrderRow
    BY StatusRow DEF Status
  <2>2. [placing[o] EXCEPT !.pc = pc] \in PlacingRow
    BY PlacingMoves
  <2> QED BY <1>1, <2>1, <2>2 DEF Place
<1>2. CASE Defer(o)
  <2>1. Priced(order[o], OrderRank[o]) \in OrderRow
    BY PricedRow, RanksAreInRange
  <2>2. [placing[o] EXCEPT !.pc = "placed"] \in PlacingRow
    BY PlacingMoves
  <2> QED BY <1>2, <2>1, <2>2 DEF Defer
<1>3. CASE FindRider(o)
  <2>1. \A r \in Rider : [pc |-> "assigning", rider |-> r] \in PlacingRow
    BY DEF PlacingRow
  <2>2. Available(OrderRank[o]) \subseteq Rider
    BY DEF Available, Rider
  <2> QED BY <1>3, <2>1, <2>2 DEF FindRider
<1>4. CASE Assign(o)
  <2> DEFINE priced == Priced(order[o], OrderRank[o])
             r == placing[o].rider
  <2>1. priced \in OrderRow
    BY PricedRow, RanksAreInRange
  <2>2. r \in Rider
    BY DEF PlacingRow
  <2>3. [priced EXCEPT !.rider = r, !.status = "accepted"] \in OrderRow
    BY <2>1, <2>2, AssignedRow DEF Status, Busy
  <2>4. [pc |-> "placed", rider |-> Nil] \in PlacingRow
    BY DEF PlacingRow, Rider
  <2> QED BY <1>4, <2>1, <2>3, <2>4 DEF Assign
<1> QED BY <1>1, <1>2, <1>3, <1>4 DEF Creation

LEMMA ReleaseType ==
    ASSUME OrderInv, NEW o \in Orders, ReleaseJob(o)
    PROVE  TypeOK'
<1> USE DEF OrderInv, TypeOK, outbox
<1>1. [pc |-> "idle", rider |-> Nil] \in ReleasingRow
  BY DEF ReleasingRow, Rider
<1>2. CASE ReleaseFinds(o)
  <2>1. \A r \in Rider : [pc |-> "found", rider |-> r] \in ReleasingRow
    BY DEF ReleasingRow
  <2>2. (IF order[o].rank = 0 THEN {Nil} ELSE Available(order[o].rank)) \subseteq Rider
    BY DEF Available, Rider
  <2> QED BY <1>2, <2>1, <2>2 DEF ReleaseFinds
<1>3. CASE Release(o)
  <2> DEFINE r == releasing[o].rider
             status == IF r = Nil THEN "pending" ELSE "accepted"
  <2>1. r \in Rider /\ status \in Status
    BY DEF ReleasingRow, Status, Busy
  <2>2. [order[o] EXCEPT !.rider = r, !.status = status] \in OrderRow
    BY <2>1, AssignedRow
  <2>3. order' = [order EXCEPT ![o] = [order[o] EXCEPT !.rider = r, !.status = status]]
          \/ order' = order
    BY <1>3 DEF Release
  <2> HIDE DEF r, status
  <2> QED BY <1>1, <1>3, <2>2, <2>3 DEF Release
<1>4. CASE ReleaseFails(o)
  BY <1>1, <1>4 DEF ReleaseFails
<1> QED BY <1>2, <1>3, <1>4 DEF ReleaseJob

LEMMA ClaimingType ==
    ASSUME OrderInv, NEW r \in Riders, Claiming(r)
    PROVE  TypeOK'
<1> USE DEF OrderInv, TypeOK, outbox
<1>1. ASSUME NEW o \in Orders, CheckClaim(r, o) PROVE TypeOK'
  BY <1>1 DEF CheckClaim
<1>2. CASE Claim(r)
  <2> DEFINE o == claiming[r]
  <2>1. o \in Orders
    BY <1>2 DEF Claim
  <2>2. [order[o] EXCEPT !.rider = r, !.status = "accepted"] \in OrderRow
    BY <2>1, AssignedRow DEF Status, Busy, Rider
  <2>3. order' = [order EXCEPT ![o] = [order[o] EXCEPT !.rider = r, !.status = "accepted"]]
          \/ order' = order
    BY <1>2 DEF Claim
  <2> HIDE DEF o
  <2> QED BY <1>2, <2>2, <2>3 DEF Claim
<1> QED BY <1>1, <1>2 DEF Claiming

LEMMA OfferStatusRow ==
    ASSUME NEW row \in OfferRow, NEW status \in {"chosen", "declined", "destroyed"}
    PROVE  [row EXCEPT !.status = status] \in OfferRow
BY DEF OfferRow

LEMMA OfferingType ==
    ASSUME OrderInv, NEW h \in OfferHandlers, Offering(h)
    PROVE  TypeOK'
<1> USE DEF OrderInv, TypeOK, outbox
<1>1. ASSUME NEW r \in Riders, NEW o \in Orders, CheckOffer(h, r, o) PROVE TypeOK'
  <2>1. [pc |-> "checked", order |-> o, rider |-> r] \in OfferingRow
    BY DEF OfferingRow, Rider
  <2> QED BY <1>1, <2>1 DEF CheckOffer
<1>2. CASE DropPriorOffer(h)
  <2>1. \A i \in Offers : [offer[i] EXCEPT !.status = "destroyed"] \in OfferRow
    BY OfferStatusRow
  <2>2. [offering[h] EXCEPT !.pc = "dropped"] \in OfferingRow
    BY DEF OfferingRow
  <2>3. offer' \in [Offers -> OfferRow]
    BY <1>2, <2>1 DEF DropPriorOffer
  <2> QED BY <1>2, <2>2, <2>3 DEF DropPriorOffer
<1>3. CASE MakeOffer(h)
  <2>1. [order |-> offering[h].order, rider |-> offering[h].rider, status |-> "pending"] \in OfferRow
    BY DEF OfferRow, OfferingRow
  <2>2. [pc |-> "idle", order |-> Nil, rider |-> Nil] \in OfferingRow
    BY DEF OfferingRow, Rider
  <2> QED BY <1>3, <2>1, <2>2 DEF MakeOffer
<1> QED BY <1>1, <1>2, <1>3 DEF Offering

LEMMA ChoosingType ==
    ASSUME OrderInv, NEW o \in Orders, Choosing(o)
    PROVE  TypeOK'
<1> USE DEF OrderInv, TypeOK, outbox
<1>1. \A pc \in {"assigned", "chosen"} : [choosing[o] EXCEPT !.pc = pc] \in ChoosingRow
  BY DEF ChoosingRow
<1>2. [pc |-> "idle", offer |-> 0] \in ChoosingRow
  BY OrderConstants DEF ChoosingRow
<1>3. ASSUME NEW i \in Offers, CheckChoice(o, i) PROVE TypeOK'
  <2>1. [pc |-> "checked", offer |-> i] \in ChoosingRow
    BY OrderConstants DEF ChoosingRow, Offers
  <2> QED BY <1>3, <2>1 DEF CheckChoice
<1>4. CASE AssignOffer(o)
  <2>1. CASE Riderless(o)
    <3> DEFINE rider == offer[choosing[o].offer].rider
    <3>1. choosing[o].offer \in Offers
      BY <1>4 DEF AssignOffer, ChoiceKnown
    <3>2. rider \in Rider
      BY <3>1 DEF OfferRow
    <3>3. [order[o] EXCEPT !.rider = rider, !.fee = AgreedFare, !.status = "accepted"] \in OrderRow
      BY <3>2, AgreedRow
    <3> QED BY <1>1, <1>4, <2>1, <3>3 DEF AssignOffer
  <2>2. CASE ~Riderless(o)
    BY <1>2, <1>4, <2>2 DEF AssignOffer
  <2> QED BY <2>1, <2>2
<1>5. CASE MarkChosen(o)
  <2>1. \A i \in Offers : [offer[i] EXCEPT !.status = "chosen"] \in OfferRow
    BY OfferStatusRow
  <2> QED BY <1>1, <1>5, <2>1 DEF MarkChosen
<1>6. CASE DeclineRest(o)
  <2>1. \A i \in Offers : [offer[i] EXCEPT !.status = "declined"] \in OfferRow
    BY OfferStatusRow
  <2>2. offer' \in [Offers -> OfferRow]
    BY <1>6, <2>1 DEF DeclineRest
  <2> QED BY <1>2, <1>6, <2>2 DEF DeclineRest
<1> QED BY <1>3, <1>4, <1>5, <1>6 DEF Choosing

LEMMA UpgradingType ==
    ASSUME OrderInv, NEW o \in Orders, Upgrading(o)
    PROVE  TypeOK'
<1> USE DEF OrderInv, TypeOK, outbox
<1>1. ASSUME NEW rank \in 1..MaxRank, CheckUpgrade(o, rank) PROVE TypeOK'
  <2> DEFINE release == order[o].rider # Nil /\ RiderRank[order[o].rider] < rank
  <2>1. rank \in 0..MaxRank /\ release \in BOOLEAN
    BY OrderConstants
  <2>2. upgrading' = [upgrading EXCEPT ![o] =
                        [pc |-> "checked", rank |-> rank, release |-> release]]
    BY <1>1 DEF CheckUpgrade
  <2> HIDE DEF release
  <2>3. [pc |-> "checked", rank |-> rank, release |-> release] \in UpgradingRow
    BY <2>1 DEF UpgradingRow
  <2> QED BY <1>1, <2>2, <2>3 DEF CheckUpgrade
<1>2. CASE Upgrade(o)
  <2> DEFINE priced == Priced(order[o], upgrading[o].rank)
  <2>1. upgrading[o].rank \in 0..MaxRank
    BY DEF UpgradingRow
  <2>2. priced \in OrderRow
    BY <2>1, PricedRow
  <2>3. [priced EXCEPT !.rider = Nil, !.status = "pending"] \in OrderRow
    BY <2>2, AssignedRow DEF Status, Rider
  <2>4. [pc |-> "idle", rank |-> 0, release |-> FALSE] \in UpgradingRow
    BY OrderConstants DEF UpgradingRow
  <2> QED BY <1>2, <2>2, <2>3, <2>4 DEF Upgrade
<1> QED BY <1>1, <1>2 DEF Upgrading

LEMMA PayloadType ==
    ASSUME TypeOK, NEW o \in Orders
    PROVE  Payload(o) \in PayloadRow /\ Payload(o) # Nil
<1>1. Payload(o) \in PayloadRow
  BY DEF TypeOK, OrderRow, PayloadRow, Payload
<1>2. Nil \notin PayloadRow
  BY OrderConstants DEF PayloadRow, Rider
<1> QED BY <1>1, <1>2

LEMMA ReportingType ==
    ASSUME OrderInv, NEW r \in Riders, NEW o \in Orders, Reporting(r, o)
    PROVE  TypeOK'
<1> USE DEF OrderInv, TypeOK, outbox, handlers
<1>1. \A s \in Reportable \union {"delivered"} : [order[o] EXCEPT !.status = s] \in OrderRow
  BY StatusRow DEF Reportable, Status
<1>2. CASE Deliver(r, o)
  <2>1. [pc |-> "due", rider |-> r, seen |-> 0] \in CreditingRow
    BY DEF CreditingRow, Rider
  <2> QED BY <1>1, <1>2, <2>1, PayloadType DEF Deliver
<1>3. ASSUME NEW s \in Reportable, Report(r, o, s) PROVE TypeOK'
  BY <1>1, <1>3 DEF Report
<1> QED BY <1>2, <1>3 DEF Reporting

LEMMA CreditingType ==
    ASSUME OrderInv, NEW o \in Orders, Crediting(o)
    PROVE  TypeOK'
<1> USE DEF OrderInv, TypeOK, outbox
<1>1. CASE ReadTotals(o)
  <2>1. crediting[o].rider \in Riders
    BY <1>1 DEF ReadTotals, CreditInv
  <2>2. [crediting[o] EXCEPT !.pc = "read", !.seen = deliveries[crediting[o].rider]] \in CreditingRow
    BY <2>1 DEF CreditingRow
  <2> QED BY <1>1, <2>2 DEF ReadTotals
<1>2. CASE Credit(o)
  <2>1. [pc |-> "idle", rider |-> Nil, seen |-> 0] \in CreditingRow
    BY DEF CreditingRow, Rider
  <2>2. crediting[o].seen + 1 \in Nat
    BY DEF CreditingRow
  <2> QED BY <1>2, <2>1, <2>2 DEF Credit
<1> QED BY <1>1, <1>2 DEF Crediting

LEMMA CancelType ==
    ASSUME OrderInv, NEW o \in Orders, Cancel(o)
    PROVE  TypeOK'
<1> USE DEF OrderInv, TypeOK, handlers
<1>1. [order[o] EXCEPT !.status = "cancelled"] \in OrderRow
  BY StatusRow DEF Status
<1> QED BY <1>1, PayloadType DEF Cancel, CancelledEvents

LEMMA NextType ==
    ASSUME OrderInv, [Next]_vars
    PROVE  TypeOK'
<1>1. CASE UNCHANGED vars
  BY <1>1 DEF vars, OrderInv, TypeOK
<1> QED BY <1>1, CreationType, ReleaseType, ChoosingType, UpgradingType, CreditingType, CancelType,
           ClaimingType, ReportingType, OfferingType DEF Next

-----------------------------------------------------------------------------
(* What a step does to one order.                                           *)

\* The handlers that may give an order another status, besides a delivery and a
\* cancellation.
Movable(o) == \/ order[o].status \in {"scheduled", "pending"}
              \/ Place(o)
              \/ Revivable(o)

SameOutcome(o) == order'[o].status = order[o].status /\ order'[o].rider = order[o].rider
Reopened(o) == /\ Movable(o) /\ order'[o].status # "delivered"
               /\ order'[o].status = "cancelled" => order'[o].rider # Nil
KeepsRider(o) == order[o].rider # Nil /\ Keeps(o) => order'[o].rider \in {order[o].rider, Nil}
SameEvents(o) == completed'[o] = completed[o] /\ cancelled'[o] = cancelled[o]

LEMMA CreationMoves ==
    ASSUME OrderInv, NEW o \in Orders, Creation(o), NEW q \in Orders
    PROVE  (SameOutcome(q) \/ Reopened(q)) /\ SameEvents(q) /\ KeepsRider(q)
<1> USE DEF OrderInv, TypeOK, OrderRow, outbox, SameOutcome, Reopened, SameEvents, Movable,
            KeepsRider, Keeps
<1>1. CASE Place(o)
  <2>1. order[o].rider = Nil
    BY <1>1 DEF Place, NewIsUntouched
  <2>2. /\ q # o => order'[q] = order[q]
        /\ order'[o].status \in {"scheduled", "pending"} /\ order'[o].rider = Nil
    BY <1>1, <2>1 DEF Place
  <2>3. completed' = completed /\ cancelled' = cancelled
    BY <1>1 DEF Place
  <2> QED BY <1>1, <2>1, <2>2, <2>3
<1>2. CASE Defer(o)
  BY <1>2 DEF Defer, Priced
<1>3. CASE FindRider(o)
  BY <1>3 DEF FindRider
<1>4. CASE Assign(o)
  BY <1>4 DEF Assign, Priced, Revivable
<1> QED BY <1>1, <1>2, <1>3, <1>4 DEF Creation

LEMMA ReleaseMoves ==
    ASSUME OrderInv, NEW o \in Orders, ReleaseJob(o), NEW q \in Orders
    PROVE  (SameOutcome(q) \/ Reopened(q)) /\ SameEvents(q) /\ KeepsRider(q)
<1> USE DEF OrderInv, TypeOK, OrderRow, outbox, SameOutcome, Reopened, SameEvents, Movable,
            KeepsRider, Keeps
<1>1. CASE Release(o)
  <2>1. CASE StillScheduled(o)
    <3>1. order[o].status = "scheduled"
      BY <2>1 DEF StillScheduled
    <3>2. q # o => order'[q] = order[q]
      BY <1>1, <2>1 DEF Release
    <3>3. order'[o].status = IF releasing[o].rider = Nil THEN "pending" ELSE "accepted"
      BY <1>1, <2>1 DEF Release
    <3>4. completed' = completed /\ cancelled' = cancelled
      BY <1>1 DEF Release
    <3> QED BY <3>1, <3>2, <3>3, <3>4
  <2>2. CASE ~StillScheduled(o)
    BY <1>1, <2>2 DEF Release
  <2> QED BY <2>1, <2>2
<1> QED BY <1>1 DEF ReleaseJob, ReleaseFinds, ReleaseFails

LEMMA ClaimingMoves ==
    ASSUME OrderInv, NEW r \in Riders, Claiming(r), NEW q \in Orders
    PROVE  (SameOutcome(q) \/ Reopened(q)) /\ SameEvents(q) /\ KeepsRider(q)
<1> USE DEF OrderInv, TypeOK, OrderRow, outbox, SameOutcome, Reopened, SameEvents, Movable,
            KeepsRider, Keeps
<1>1. CASE Claim(r)
  BY <1>1 DEF Claim, Unclaimed
<1> QED BY <1>1 DEF Claiming, CheckClaim

LEMMA ChoosingMoves ==
    ASSUME OrderInv, NEW o \in Orders, Choosing(o), NEW q \in Orders
    PROVE  (SameOutcome(q) \/ Reopened(q)) /\ SameEvents(q) /\ KeepsRider(q)
<1> USE DEF OrderInv, TypeOK, OrderRow, outbox, SameOutcome, Reopened, SameEvents, Movable,
            KeepsRider, Keeps
<1>1. CASE AssignOffer(o)
  <2>1. CASE Riderless(o)
    <3>1. order[o].rider = Nil /\ choosing[o].pc = "checked"
      BY <1>1, <2>1 DEF Riderless, AssignOffer
    <3>2. q # o => order'[q] = order[q]
      BY <1>1, <2>1 DEF AssignOffer
    <3>3. order'[o].status = "accepted"
      BY <1>1, <2>1 DEF AssignOffer
    <3>4. completed' = completed /\ cancelled' = cancelled
      BY <1>1 DEF AssignOffer
    <3> QED BY <3>1, <3>2, <3>3, <3>4 DEF Revivable
  <2>2. CASE ~Riderless(o)
    BY <1>1, <2>2 DEF AssignOffer
  <2> QED BY <2>1, <2>2
<1> QED BY <1>1 DEF Choosing, CheckChoice, MarkChosen, DeclineRest

LEMMA UpgradingMoves ==
    ASSUME OrderInv, NEW o \in Orders, Upgrading(o), NEW q \in Orders
    PROVE  (SameOutcome(q) \/ Reopened(q)) /\ SameEvents(q) /\ KeepsRider(q)
<1> USE DEF OrderInv, TypeOK, OrderRow, outbox, SameOutcome, Reopened, SameEvents, Movable,
            KeepsRider, Keeps
<1>1. CASE Upgrade(o)
  BY <1>1 DEF Upgrade, Priced, Revivable
<1> QED BY <1>1 DEF Upgrading, CheckUpgrade

LEMMA ReportingMoves ==
    ASSUME OrderInv, NEW r \in Riders, NEW o \in Orders, Reporting(r, o), NEW q \in Orders
    PROVE  /\ ((SameOutcome(q) \/ Reopened(q)) /\ SameEvents(q)) \/ Deliver(r, q)
           /\ KeepsRider(q)
<1> USE DEF OrderInv, TypeOK, OrderRow, outbox, SameOutcome, Reopened, SameEvents, Movable,
            KeepsRider, Keeps
<1>1. ASSUME NEW s \in Reportable, Report(r, o, s)
      PROVE  (SameOutcome(q) \/ Reopened(q)) /\ SameEvents(q) /\ KeepsRider(q)
  BY <1>1, OrderConstants DEF Report, Reportable, Revivable
<1>2. CASE Deliver(r, o)
  BY <1>2 DEF Deliver
<1> QED BY <1>1, <1>2 DEF Reporting

\* An order keeps its outcome, or is reopened, unless it is delivered or cancelled.
LEMMA OrderMoves ==
    ASSUME OrderInv, [Next]_vars, NEW q \in Orders
    PROVE  /\ \/ (SameOutcome(q) \/ Reopened(q)) /\ SameEvents(q)
              \/ \E r \in Riders : Deliver(r, q)
              \/ Cancel(q)
           /\ KeepsRider(q)
<1> USE DEF KeepsRider, OrderInv, TypeOK, OrderRow
<1>1. CASE UNCHANGED vars
  BY <1>1 DEF vars, SameOutcome, SameEvents
<1>2. ASSUME NEW o \in Orders, Cancel(o), o # q
      PROVE  SameOutcome(q) /\ SameEvents(q)
  BY <1>2 DEF Cancel, CancelledEvents, SameOutcome, SameEvents
<1>5. CASE Cancel(q)
  BY <1>5 DEF Cancel
<1>6. SameOutcome(q) => KeepsRider(q)
  BY DEF SameOutcome
<1>3. ASSUME NEW o \in Orders, Crediting(o)
      PROVE  SameOutcome(q) /\ SameEvents(q)
  BY <1>3 DEF Crediting, ReadTotals, Credit, outbox, SameOutcome, SameEvents
<1>4. ASSUME NEW h \in OfferHandlers, Offering(h)
      PROVE  SameOutcome(q) /\ SameEvents(q)
  BY <1>4 DEF Offering, CheckOffer, DropPriorOffer, MakeOffer, outbox, SameOutcome, SameEvents
<1> HIDE DEF KeepsRider, OrderInv, TypeOK, OrderRow
<1> QED BY <1>1, <1>2, <1>3, <1>4, <1>5, <1>6, CreationMoves, ReleaseMoves, ClaimingMoves,
           ChoosingMoves, UpgradingMoves, ReportingMoves DEF Next

LEMMA OutcomeStep ==
    ASSUME OrderInv, [Next]_vars
    PROVE  OutcomeIsAccounted'
<1> SUFFICES ASSUME NEW q \in Orders
             PROVE  /\ order'[q].status = "delivered" =>
                          completed'[q] # Nil /\ completed'[q].rider = order'[q].rider
                    /\ order'[q].status = "cancelled" =>
                          cancelled'[q] # Nil \/ order'[q].rider # Nil
  BY DEF OutcomeIsAccounted
<1> USE DEF OrderInv
<1>1. CASE (SameOutcome(q) \/ Reopened(q)) /\ SameEvents(q)
  BY <1>1 DEF SameOutcome, Reopened, SameEvents, OutcomeIsAccounted
<1>2. ASSUME NEW r \in Riders, Deliver(r, q)
      PROVE  /\ order'[q].status = "delivered" /\ completed'[q] # Nil
             /\ completed'[q].rider = order'[q].rider
  <2>1. order'[q].status = "delivered" /\ order'[q].rider = order[q].rider
    BY <1>2 DEF Deliver, TypeOK, OrderRow
  <2>2. completed'[q] = Payload(q)
    BY <1>2 DEF Deliver, TypeOK
  <2> QED BY <2>1, <2>2, PayloadType DEF Payload
<1>3. CASE Cancel(q)
  <2>1. order'[q].status = "cancelled"
    BY <1>3 DEF Cancel, TypeOK, OrderRow
  <2>2. cancelled'[q] = Payload(q)
    BY <1>3 DEF Cancel, CancelledEvents, TypeOK
  <2> QED BY <2>1, <2>2, PayloadType
<1> QED BY <1>1, <1>2, <1>3, OrderMoves

-----------------------------------------------------------------------------
(* An order that is not placed yet.                                         *)

LEMMA ChoiceStep ==
    ASSUME OrderInv, [Next]_vars
    PROVE  ChoiceKnown'
<1> SUFFICES ASSUME NEW q \in Orders, choosing'[q].pc = "checked"
             PROVE  choosing'[q].offer \in Offers
  BY DEF ChoiceKnown
<1>1. CASE choosing' = choosing
  BY <1>1 DEF OrderInv, ChoiceKnown
<1>2. ASSUME NEW o \in Orders, Choosing(o)
      PROVE  choosing'[q].offer \in Offers
  <2>1. choosing[q].pc = "checked" => choosing[q].offer \in Offers
    BY DEF OrderInv, ChoiceKnown
  <2>2. choosing[o] \in ChoosingRow /\ choosing \in [Orders -> ChoosingRow]
    BY DEF OrderInv, TypeOK
  <2>3. ASSUME NEW i \in Offers, CheckChoice(o, i) PROVE choosing'[q].offer \in Offers
    BY <2>1, <2>2, <2>3 DEF CheckChoice
  <2>4. CASE AssignOffer(o)
    BY <2>1, <2>2, <2>4 DEF AssignOffer, ChoosingRow
  <2>5. CASE MarkChosen(o)
    BY <2>1, <2>2, <2>5 DEF MarkChosen, ChoosingRow
  <2>6. CASE DeclineRest(o)
    BY <2>1, <2>2, <2>6 DEF DeclineRest
  <2> QED BY <1>2, <2>3, <2>4, <2>5, <2>6 DEF Choosing
<1>3. choosing' = choosing \/ \E o \in Orders : Choosing(o)
  BY DEF vars, handlers, Next, Creation, Place, Defer, FindRider, Assign, ReleaseJob,
         ReleaseFinds, Release, ReleaseFails, Claiming, CheckClaim, Claim, Offering,
         CheckOffer, DropPriorOffer, MakeOffer, Upgrading, CheckUpgrade, Upgrade,
         Reporting, Deliver, Report, Crediting, ReadTotals, Credit, Cancel
<1> QED BY <1>1, <1>2, <1>3

LEMMA NewStep ==
    ASSUME OrderInv, [Next]_vars
    PROVE  NewIsUntouched'
<1> SUFFICES ASSUME NEW q \in Orders, placing'[q].pc = "new"
             PROVE  /\ order'[q].status = "none" /\ order'[q].rider = Nil
                    /\ choosing'[q].pc # "checked" /\ upgrading'[q].pc = "idle"
                    /\ \A i \in Offers : offer'[i].order # q
                    /\ \A h \in OfferHandlers : offering'[h].order # q
  BY DEF NewIsUntouched
<1> USE DEF OrderInv
<1>1. placing' = placing \/ \E o \in Orders : Creation(o)
  BY DEF vars, handlers, Next, Choosing, CheckChoice, AssignOffer, MarkChosen, DeclineRest,
         ReleaseJob, ReleaseFinds, Release, ReleaseFails, Claiming, CheckClaim, Claim,
         Offering, CheckOffer, DropPriorOffer, MakeOffer, Upgrading, CheckUpgrade, Upgrade,
         Reporting, Deliver, Report, Crediting, ReadTotals, Credit, Cancel
<1>2. placing[q].pc = "new" /\ ~Place(q)
  <2>1. placing \in [Orders -> PlacingRow]
    BY DEF TypeOK
  <2>2. ASSUME NEW o \in Orders, Place(o) PROVE placing[q].pc = "new" /\ o # q
    BY <2>1, <2>2 DEF Place, PlacingRow
  <2>3. ASSUME NEW o \in Orders, Defer(o) \/ FindRider(o) \/ Assign(o)
        PROVE  placing[q].pc = "new" /\ o # q
    BY <2>1, <2>3 DEF Defer, FindRider, Assign, PlacingRow
  <2>4. placing[q].pc = "new"
    BY <1>1, <2>2, <2>3 DEF Creation
  <2> QED BY <2>2, <2>4
<1>3. /\ order[q].status = "none" /\ order[q].rider = Nil
      /\ choosing[q].pc # "checked" /\ upgrading[q].pc = "idle"
      /\ \A i \in Offers : offer[i].order # q
      /\ \A h \in OfferHandlers : offering[h].order # q
  BY <1>2 DEF NewIsUntouched
<1>4. order'[q].status = "none" /\ order'[q].rider = Nil
  <2>1. ~Movable(q)
    BY <1>2, <1>3 DEF Movable, Revivable
  <2>2. \A r \in Riders : ~Deliver(r, q)
    BY <1>3, OrderConstants DEF Deliver
  <2>3. ~Cancel(q)
    BY <1>3 DEF Cancel, Cancellable
  <2> QED BY <1>3, <2>1, <2>2, <2>3, OrderMoves DEF SameOutcome, Reopened
<1>5. choosing'[q].pc # "checked"
  <2>1. choosing' = choosing \/ \E o \in Orders : Choosing(o)
    BY DEF vars, handlers, Next, Creation, Place, Defer, FindRider, Assign, ReleaseJob,
           ReleaseFinds, Release, ReleaseFails, Claiming, CheckClaim, Claim, Offering,
           CheckOffer, DropPriorOffer, MakeOffer, Upgrading, CheckUpgrade, Upgrade,
           Reporting, Deliver, Report, Crediting, ReadTotals, Credit, Cancel
  <2>2. ASSUME NEW o \in Orders, Choosing(o) PROVE choosing'[q].pc # "checked"
    <3>1. choosing \in [Orders -> ChoosingRow] /\ choosing[q].pc # "checked"
      BY <1>3 DEF TypeOK
    <3>2. ASSUME NEW i \in Offers, CheckChoice(o, i) PROVE choosing'[q].pc # "checked"
      <4>1. o # q
        BY <1>3, <3>2 DEF CheckChoice, LivePending
      <4> QED BY <3>1, <3>2, <4>1 DEF CheckChoice
    <3>3. CASE AssignOffer(o)
      BY <3>1, <3>3 DEF AssignOffer, ChoosingRow
    <3>4. CASE MarkChosen(o)
      BY <3>1, <3>4 DEF MarkChosen, ChoosingRow
    <3>5. CASE DeclineRest(o)
      BY <3>1, <3>5 DEF DeclineRest
    <3> QED BY <2>2, <3>2, <3>3, <3>4, <3>5 DEF Choosing
  <2> QED BY <1>3, <2>1, <2>2
<1>6. upgrading'[q].pc = "idle"
  <2>1. upgrading' = upgrading \/ \E o \in Orders : Upgrading(o)
    BY DEF vars, handlers, Next, Creation, Place, Defer, FindRider, Assign, ReleaseJob,
           ReleaseFinds, Release, ReleaseFails, Claiming, CheckClaim, Claim, Offering,
           CheckOffer, DropPriorOffer, MakeOffer, Choosing, CheckChoice, AssignOffer,
           MarkChosen, DeclineRest, Reporting, Deliver, Report, Crediting, ReadTotals,
           Credit, Cancel
  <2>2. ASSUME NEW o \in Orders, Upgrading(o) PROVE upgrading'[q].pc = "idle"
    BY <1>3, <2>2 DEF Upgrading, CheckUpgrade, Upgrade, TypeOK, UpgradingRow
  <2> QED BY <1>3, <2>1, <2>2
<1>7. /\ \A i \in Offers : offer'[i].order # q
      /\ \A h \in OfferHandlers : offering'[h].order # q
  <2>1. \/ offer' = offer /\ offering' = offering
        \/ \E h \in OfferHandlers : Offering(h)
        \/ \E o \in Orders : MarkChosen(o) \/ DeclineRest(o)
    BY DEF vars, handlers, Next, Creation, Place, Defer, FindRider, Assign, ReleaseJob,
           ReleaseFinds, Release, ReleaseFails, Claiming, CheckClaim, Claim, Upgrading,
           CheckUpgrade, Upgrade, Choosing, CheckChoice, AssignOffer, Reporting, Deliver,
           Report, Crediting, ReadTotals, Credit, Cancel
  <2>2. ASSUME NEW h \in OfferHandlers, Offering(h)
        PROVE  /\ \A i \in Offers : offer'[i].order # q
               /\ \A g \in OfferHandlers : offering'[g].order # q
    <3>1. ASSUME NEW r \in Riders, NEW o \in Orders, CheckOffer(h, r, o)
          PROVE  offer' = offer /\ \A g \in OfferHandlers : offering'[g].order # q
      BY <1>3, <3>1 DEF CheckOffer, TypeOK
    <3>2. CASE DropPriorOffer(h)
      BY <1>3, <3>2 DEF DropPriorOffer, TypeOK, OfferRow, OfferingRow
    <3>3. CASE MakeOffer(h)
      BY <1>3, <3>3, OrderConstants DEF MakeOffer, TypeOK
    <3> QED BY <1>3, <2>2, <3>1, <3>2, <3>3 DEF Offering
  <2>3. ASSUME NEW o \in Orders, MarkChosen(o) \/ DeclineRest(o)
        PROVE  offering' = offering /\ \A i \in Offers : offer'[i].order # q
    <3>1. offering' = offering
      BY <2>3 DEF MarkChosen, DeclineRest
    <3>2. ASSUME NEW i \in Offers PROVE offer'[i].order # q
      <4>1. offer[i].order # q /\ offer \in [Offers -> OfferRow] /\ offer[i] \in OfferRow
        BY <1>3 DEF TypeOK
      <4>2. CASE MarkChosen(o)
        BY <4>1, <4>2 DEF MarkChosen, OfferRow
      <4>3. CASE DeclineRest(o)
        <5>1. offer'[i] = offer[i] \/ offer'[i] = [offer[i] EXCEPT !.status = "declined"]
          BY <4>3 DEF DeclineRest
        <5> QED BY <4>1, <5>1 DEF OfferRow
      <4> QED BY <2>3, <4>2, <4>3
    <3> QED BY <3>1, <3>2
  <2> QED BY <1>3, <2>1, <2>2, <2>3
<1> QED BY <1>4, <1>5, <1>6, <1>7

-----------------------------------------------------------------------------
(* Credits.                                                                 *)

\* A completion that is written stays as it is, and its delivery starts the credit.
LEMMA CompletionsStay ==
    ASSUME OrderInv, [Next]_vars, NEW q \in Orders, completed[q] # Nil
    PROVE  completed'[q] = completed[q]
<1>1. \A r \in Riders : ~Deliver(r, q)
  BY DEF Deliver, Emits
<1>2. Cancel(q) => completed' = completed
  BY DEF Cancel
<1> QED BY <1>1, <1>2, OrderMoves DEF SameEvents

\* No step but these touches the completions, the credits and the totals.
LEMMA CreditFrame ==
    ASSUME [Next]_vars
    PROVE  \/ completed' = completed /\ crediting' = crediting /\ deliveries' = deliveries
           \/ \E r \in Riders, o \in Orders : Deliver(r, o)
           \/ \E o \in Orders : ReadTotals(o)
           \/ \E o \in Orders : Credit(o)
BY DEF vars, outbox, handlers, Next, Creation, Place, Defer, FindRider, Assign, ReleaseJob,
       ReleaseFinds, Release, ReleaseFails, Claiming, CheckClaim, Claim, Offering,
       CheckOffer, DropPriorOffer, MakeOffer, Upgrading, CheckUpgrade, Upgrade,
       Choosing, CheckChoice, AssignOffer, MarkChosen, DeclineRest, Reporting, Report,
       Crediting, Cancel

LEMMA DeliverCredits ==
    ASSUME OrderInv, NEW r \in Riders, NEW o \in Orders, Deliver(r, o)
    PROVE  CreditInv'
<1> USE DEF OrderInv
<1>1. /\ completed \in [Orders -> PayloadRow \union {Nil}]
      /\ crediting \in [Orders -> CreditingRow]
  BY DEF TypeOK
<1>2. completed[o] = Nil /\ Payload(o).rider = r /\ Payload(o) # Nil
  BY PayloadType DEF Deliver, Emits, Payload
<1>3. crediting[o].pc = "idle"
  BY <1>2 DEF CreditInv
<1>4. /\ completed'[o] = Payload(o) /\ deliveries' = deliveries
      /\ crediting'[o] = [pc |-> "due", rider |-> r, seen |-> 0]
      /\ \A q \in Orders \ {o} : completed'[q] = completed[q] /\ crediting'[q] = crediting[q]
  BY <1>1 DEF Deliver
<1>5. ASSUME NEW s \in Riders PROVE Credited(s)' = Credited(s)
  BY <1>2, <1>4 DEF Credited
<1>6. ASSUME NEW q \in Orders, crediting'[q].pc # "idle"
      PROVE  /\ completed'[q] # Nil /\ completed'[q].rider = crediting'[q].rider
             /\ crediting'[q].rider \in Riders
  BY <1>2, <1>4, <1>6 DEF CreditInv
<1>7. ASSUME NEW q \in Orders, NEW s \in Riders,
             crediting'[q].pc = "read", crediting'[q].rider = s
      PROVE  crediting'[q].seen <= Cardinality(Credited(s)')
  <2>1. q # o
    BY <1>4, <1>7
  <2>2. crediting'[q] = crediting[q] /\ crediting[q].pc = "read" /\ crediting[q].rider = s
    BY <1>4, <1>7, <2>1
  <2>3. crediting[q].seen <= Cardinality(Credited(s))
    BY <2>2 DEF CreditInv
  <2> QED BY <1>5, <2>2, <2>3
<1>8. ASSUME NEW s \in Riders PROVE deliveries'[s] <= Cardinality(Credited(s)')
  BY <1>4, <1>5 DEF CreditInv
<1> QED BY <1>6, <1>7, <1>8 DEF CreditInv

LEMMA ReadCredits ==
    ASSUME OrderInv, NEW o \in Orders, ReadTotals(o)
    PROVE  CreditInv'
<1> USE DEF OrderInv
<1>1. crediting \in [Orders -> CreditingRow] /\ crediting[o] \in CreditingRow
  BY DEF TypeOK
<1>2. /\ completed' = completed /\ deliveries' = deliveries /\ crediting[o].pc = "due"
      /\ crediting'[o].pc = "read" /\ crediting'[o].rider = crediting[o].rider
      /\ crediting'[o].seen = deliveries[crediting[o].rider]
      /\ \A q \in Orders \ {o} : crediting'[q] = crediting[q]
  BY <1>1 DEF ReadTotals, outbox, CreditingRow
<1>3. ASSUME NEW s \in Riders PROVE Credited(s)' = Credited(s)
  BY <1>2 DEF Credited
<1>4. ASSUME NEW q \in Orders, crediting'[q].pc # "idle"
      PROVE  /\ completed'[q] # Nil /\ completed'[q].rider = crediting'[q].rider
             /\ crediting'[q].rider \in Riders
  BY <1>2, <1>4 DEF CreditInv
<1>5. ASSUME NEW q \in Orders, NEW s \in Riders,
             crediting'[q].pc = "read", crediting'[q].rider = s
      PROVE  crediting'[q].seen <= Cardinality(Credited(s)')
  <2>1. crediting[q].rider = s
    BY <1>2, <1>5
  <2>2. crediting'[q].seen <= Cardinality(Credited(s))
    BY <1>2, <1>5, <2>1 DEF CreditInv
  <2> QED BY <1>3, <2>2
<1>6. ASSUME NEW s \in Riders PROVE deliveries'[s] <= Cardinality(Credited(s)')
  BY <1>2, <1>3 DEF CreditInv
<1> QED BY <1>4, <1>5, <1>6 DEF CreditInv

LEMMA WriteCredits ==
    ASSUME OrderInv, NEW o \in Orders, Credit(o)
    PROVE  CreditInv'
<1> USE DEF OrderInv
<1>1. /\ crediting \in [Orders -> CreditingRow] /\ crediting[o] \in CreditingRow
      /\ deliveries \in [Riders -> Nat]
  BY DEF TypeOK
<1>2. PICK r \in Riders : r = crediting[o].rider
  BY DEF Credit, CreditInv
<1>3. /\ completed' = completed /\ crediting[o].pc = "read" /\ crediting'[o].pc = "idle"
      /\ deliveries' = [deliveries EXCEPT ![r] = crediting[o].seen + 1]
      /\ \A q \in Orders \ {o} : crediting'[q] = crediting[q]
  BY <1>1, <1>2 DEF Credit, outbox
<1>4. completed[o] # Nil /\ completed[o].rider = r
  BY <1>2, <1>3 DEF CreditInv
<1>5. /\ Credited(r)' = Credited(r) \union {o} /\ o \notin Credited(r)
      /\ \A s \in Riders \ {r} : Credited(s)' = Credited(s)
  BY <1>3, <1>4 DEF Credited
<1>6. Cardinality(Credited(r)') = Cardinality(Credited(r)) + 1
  BY <1>5, CreditedIsFinite, FS_AddElement
<1>7. ASSUME NEW s \in Riders
      PROVE  /\ Cardinality(Credited(s)) <= Cardinality(Credited(s)')
             /\ Cardinality(Credited(s)) \in Nat /\ Cardinality(Credited(s)') \in Nat
  <2>1. Cardinality(Credited(s)) \in Nat
    BY CreditedIsFinite
  <2> QED BY <1>5, <1>6, <2>1
<1>8. ASSUME NEW q \in Orders, crediting'[q].pc # "idle"
      PROVE  /\ q # o /\ crediting'[q] = crediting[q]
             /\ completed'[q] # Nil /\ completed'[q].rider = crediting'[q].rider
             /\ crediting'[q].rider \in Riders
  BY <1>3, <1>8 DEF CreditInv
<1>9. ASSUME NEW q \in Orders, NEW s \in Riders,
             crediting'[q].pc = "read", crediting'[q].rider = s
      PROVE  crediting'[q].seen <= Cardinality(Credited(s)')
  <2>1. crediting'[q] = crediting[q]
    BY <1>8, <1>9
  <2>2. crediting[q].seen <= Cardinality(Credited(s)) /\ crediting[q].seen \in Nat
    BY <1>1, <1>9, <2>1 DEF CreditInv, CreditingRow
  <2> QED BY <1>7, <2>1, <2>2
<1>10. ASSUME NEW s \in Riders PROVE deliveries'[s] <= Cardinality(Credited(s)')
  <2>1. CASE s = r
    <3>1. crediting[o].seen <= Cardinality(Credited(r)) /\ crediting[o].seen \in Nat
      BY <1>1, <1>2, <1>3 DEF CreditInv, CreditingRow
    <3>2. deliveries'[s] = crediting[o].seen + 1
      BY <1>1, <1>3, <2>1
    <3> QED BY <1>6, <1>7, <2>1, <3>1, <3>2
  <2>2. CASE s # r
    <3>1. deliveries'[s] = deliveries[s] /\ deliveries[s] \in Nat
      BY <1>1, <1>3, <2>2
    <3>2. deliveries[s] <= Cardinality(Credited(s))
      BY DEF CreditInv
    <3> QED BY <1>7, <3>1, <3>2
  <2> QED BY <2>1, <2>2
<1> QED BY <1>8, <1>9, <1>10 DEF CreditInv

LEMMA CreditStep ==
    ASSUME OrderInv, [Next]_vars
    PROVE  CreditInv'
<1>1. CASE completed' = completed /\ crediting' = crediting /\ deliveries' = deliveries
  <2>1. \A s \in Riders : Credited(s)' = Credited(s)
    BY <1>1 DEF Credited
  <2> QED BY <1>1, <2>1 DEF OrderInv, CreditInv
<1> QED BY <1>1, CreditFrame, DeliverCredits, ReadCredits, WriteCredits

-----------------------------------------------------------------------------
LEMMA NextInv == OrderInv /\ [Next]_vars => OrderInv'
BY NextType, NewStep, ChoiceStep, OutcomeStep, CreditStep DEF OrderInv

LEMMA Invariance == Spec => []OrderInv
BY InitInv, NextInv, PTL DEF Spec

\* In every state the orders, their events and every handler's progress are of
\* their types: no interleaving of the handlers in order, negotiation and rider
\* controllers leaves a half-written row.
THEOREM TypeCorrect == Spec => []TypeOK
<1>1. OrderInv => TypeOK
  BY DEF OrderInv
<1> QED BY <1>1, Invariance, PTL

\* Whatever the riders report, in whatever order, while the job, claims, offers and
\* upgrades run: a delivered order is accounted for to the rider it shows, and a
\* cancelled one has its event or shows the rider who reported it so
\* (updateOrderStatus, cancelOrder).
THEOREM OutcomesAreAccounted == Spec => []OutcomeIsAccounted
<1>1. OrderInv => OutcomeIsAccounted
  BY DEF OrderInv
<1> QED BY <1>1, Invariance, PTL

\* A rider's delivery count never exceeds the orders completed for him, however
\* often a delivery is reported (the credit of updateOrderStatus, read and written
\* in two statements).
THEOREM CreditsAreSingle == Spec => []CreditedOnce
<1>1. ASSUME OrderInv, NEW r \in Riders
      PROVE  deliveries[r] <=
               Cardinality({o \in Orders : completed[o] # Nil /\ completed[o].rider = r})
  <2>1. PICK done : done = {o \in Orders : completed[o] # Nil /\ completed[o].rider = r}
    OBVIOUS
  <2>2. Credited(r) \subseteq done /\ done \subseteq Orders
    BY <2>1 DEF Credited
  <2>3. IsFiniteSet(done)
    BY <2>2, OrderConstants, FS_Subset
  <2>4. Cardinality(Credited(r)) <= Cardinality(done) /\ Cardinality(done) \in Nat
    BY <2>2, <2>3, FS_Subset, FS_CardinalityType
  <2>5. deliveries[r] <= Cardinality(Credited(r)) /\ deliveries[r] \in Nat
    BY <1>1 DEF OrderInv, CreditInv, TypeOK
  <2>6. Cardinality(Credited(r)) \in Nat
    BY CreditedIsFinite
  <2> QED BY <2>1, <2>4, <2>5, <2>6
<1>2. OrderInv => CreditedOnce
  BY <1>1 DEF CreditedOnce
<1> QED BY <1>2, Invariance, PTL

\* However claims, offers, upgrades, releases and reports of any status interleave, an
\* order that has a rider keeps him or is handed back; only the dispatch of its
\* placement may replace him, and the release job after his own report that the order
\* is scheduled (claimOrder, chooseOffer, upgradeVehicle, scheduledRelease).
THEOREM RidersKeepOrders == Spec => OnlyDispatchSteals
<1>1. ASSUME OrderInv, [Next]_vars, NEW o \in Orders
      PROVE  order[o].rider # Nil /\ Keeps(o) =>
                order'[o].rider \in {order[o].rider, Nil}
  BY <1>1, OrderMoves DEF KeepsRider
<1>2. ASSUME OrderInv, [Next]_vars
      PROVE  [\A o \in Orders : order[o].rider # Nil /\ Keeps(o) =>
                order'[o].rider \in {order[o].rider, Nil}]_vars
  BY <1>1, <1>2
<1> QED BY <1>2, Invariance, PTL DEF Spec, OnlyDispatchSteals

\* No step of the release job, and no claim, brings a cancelled order back: only a
\* choice, an upgrade or a dispatch under way, or the rider it had
\* (scheduledRelease, claimOrder).
THEOREM CancelledOrdersStay == Spec => CancelledStaysIn
<1>1. ASSUME OrderInv, [Next]_vars, NEW o \in Orders,
             order[o].status = "cancelled", ~Revivable(o)
      PROVE  order'[o].status = "cancelled" /\ order'[o].rider = Nil
  <2>1. order[o].rider = Nil
    BY <1>1 DEF Revivable
  <2>2. ~Place(o)
    BY <1>1 DEF Place, OrderInv, NewIsUntouched
  <2>3. ~Movable(o)
    BY <1>1, <2>2 DEF Movable
  <2>4. \A r \in Riders : ~Deliver(r, o)
    BY <2>1, OrderConstants DEF Deliver
  <2>5. ~Cancel(o)
    BY <1>1 DEF Cancel, Cancellable
  <2> QED BY <1>1, <2>1, <2>3, <2>4, <2>5, OrderMoves DEF SameOutcome, Reopened
<1>2. ASSUME OrderInv, [Next]_vars
      PROVE  [\A o \in Orders : order[o].status = "cancelled" /\ ~Revivable(o) =>
                order'[o].status = "cancelled" /\ order'[o].rider = Nil]_vars
  BY <1>1, <1>2
<1> QED BY <1>2, Invariance, PTL DEF Spec, CancelledStaysIn
=============================================================================
