----------------------------- MODULE MCOrderLife -----------------------------
(***************************************************************************)
(* Three kinds of orders, checked in one run: an order that is scheduled   *)
(* and open for offers, one that is scheduled only, and one dispatched at  *)
(* once.  On the last two riders report every status, as often and in      *)
(* whatever order they like; on the first, whose offers and choices make   *)
(* it large already, they report the delivery only and no vendor upgrades. *)
(***************************************************************************)
EXTENDS MCOrderLifecycle

VARIABLE focus  \* the kind of order that this behaviour is about

Negotiated == INSTANCE OrderLifecycle WITH Upgradable <- {}
Booked == INSTANCE OrderLifecycle WITH Negotiable <- {}, OfferHandlers <- {}
Immediate == INSTANCE OrderLifecycle WITH Scheduled <- {}, Negotiable <- {},
                                          OfferHandlers <- {}

lifeVars == <<vars, focus>>

LifeInit == Init /\ focus \in {"negotiated", "booked", "immediate"}

\* No handler tells "picked_up" from "en_route": riders report the first.
LifeReports ==
    \A o \in Orders :
        order[o].rider # Nil /\ Report(order[o].rider, o, order'[o].status) /\ ~Cancel(o)
            => focus # "negotiated" /\ order'[o].status # "en_route"

LifeNext == /\ \/ focus = "negotiated" /\ Negotiated!Next
               \/ focus = "booked" /\ Booked!Next
               \/ focus = "immediate" /\ Immediate!Next
            /\ order' # order => LifeReports
            /\ UNCHANGED focus

LifeFairness == \A o \in Orders : /\ WF_lifeVars(ReleaseFinds(o) /\ UNCHANGED focus)
                                  /\ SF_lifeVars(Release(o) /\ UNCHANGED focus)
LifeSpec == LifeInit /\ [][LifeNext]_lifeVars /\ LifeFairness
=============================================================================
