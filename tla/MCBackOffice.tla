----------------------------- MODULE MCBackOffice ----------------------------
(***************************************************************************)
(* The back office, checked in one run on instances of several shapes:     *)
(* documents under concurrent requests, a document reconciled while one    *)
(* request and the reconciling processes' deaths disturb it, a document    *)
(* that a job and an admin reconcile at once, and the tax books.           *)
(***************************************************************************)
EXTENDS DocumentReconciliation, TaxBooks

CONSTANTS h1, u1, f1, m1

VARIABLE focus  \* the part that this behaviour is about

Crashing == INSTANCE DocumentReconciliation WITH Requests <- {h1}, Admins <- {}
Racing == INSTANCE DocumentReconciliation WITH Requests <- {h1}, MaxCrashes <- 0
Paying == INSTANCE TaxBooks WITH Refreshers <- {f1}
Refreshing == INSTANCE TaxBooks WITH TaxRequests <- {h1}, Remittances <- {m1}

\* Reconciliation does not look at who approved a document.
OneUser == \A h \in Requests : request'[h].user \in {u1, Nil}
NoTransfer == \A d \in Docs : doc'[d].kind # "transfer"
\* One kind that is paid in parts and one that is closed at once.
TwoKinds == \A d \in Docs : doc'[d].kind \in {"settlement", "tax", Nil}

\* Refreshes are alike, and so are remittances: the first to begin is a given one.
FirstRefresh == \A r \in Refreshers : refresher'[r].pc # "idle" /\ Running = {} => r = f1
FirstRemittance ==
    \A h \in TaxRequests : \/ taxRequest'[h].remittance \in {m1, NoOne}
                          \/ transfers[m1] > 0 \/ \E g \in TaxRequests : taxRequest[g].remittance = m1

OneAndTwo == CHOOSE f \in [Taxes -> {1, 2}] : \E t \in Taxes : \A s \in Taxes : f[s] = 2 <=> s = t

officeVars == <<vars, taxVars, focus>>

OfficeInit == Init /\ TaxInit /\ focus \in {"documents", "crashes", "races", "payments", "refreshes"}

OfficeNext ==
    /\ UNCHANGED focus
    /\ \/ /\ UNCHANGED taxVars
          /\ \/ focus = "documents" /\ DocNext /\ UNCHANGED reconVars
             \/ focus = "crashes" /\ Crashing!Next /\ OneUser /\ NoTransfer
             \/ focus = "races" /\ Racing!Next /\ OneUser /\ TwoKinds
       \/ /\ UNCHANGED vars
          /\ \/ focus = "payments" /\ Paying!TaxNext
             \/ focus = "refreshes" /\ Refreshing!TaxNext
          /\ FirstRefresh /\ FirstRemittance

\* The fairness of DocumentReconciliation, for the two instances of it.
Goes(A) == focus \in {"crashes", "races"} /\ A /\ UNCHANGED <<taxVars, focus>>
OfficeFairness ==
    /\ WF_officeVars(Goes(UNCHANGED reconVars /\ (Operate(h1) \/ RollBack(h1))))
    /\ \A j \in Jobs, d \in Docs : SF_officeVars(Goes(JobPicks(j, d)))
    /\ \A r \in Reconcilers : SF_officeVars(Goes(Finishes(r)))

OfficeSpec == OfficeInit /\ [][OfficeNext]_officeVars /\ OfficeFairness
-----------------------------------------------------------------------------
\* Documents and their events, marks and tax books have the types they should.
OfficeTypeOK == TypeOK /\ TaxTypeOK

\* EventuallyMatched, where documents are being reconciled.
EventuallyReconciled ==
    \A d \in Docs : focus \in {"crashes", "races"} /\ Matchable(d) ~>
        mark[d] = "matched" \/ ~Matchable(d)
=============================================================================
