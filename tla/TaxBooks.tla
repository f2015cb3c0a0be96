------------------------------ MODULE TaxBooks -------------------------------
(***************************************************************************)
(* One tax liability: the tax transactions it accrues, the refresh that    *)
(* recomputes it and the remittances that pay it.                          *)
(*                                                                         *)
(* Recognising and reversing a transaction are one transaction each (the   *)
(* row is only ever touched by these).  A remittance is created and marked *)
(* as paid under the lock of the liability's row, which is held until the  *)
(* commit; the treasury transfer of a remittance is inserted on another    *)
(* connection in between and stays when the remittance is rolled back.     *)
(* The refresh has no transaction: it reads the tax transactions, reads or *)
(* creates the liability, and writes two of its columns, always both,      *)
(* because BIGINT columns are read as strings and written as numbers.      *)
(***************************************************************************)
EXTENDS Integers, FiniteSets, Functions

CONSTANTS Taxes,        \* tax transactions
          TaxAmount,    \* the amount of each
          Remittances,
          TaxRequests,  \* remittance transactions running at the same time
          Refreshers,   \* refreshes running at the same time
          NoOne

ASSUME TaxConstants ==
    /\ IsFiniteSet(Taxes) /\ IsFiniteSet(Remittances)
    /\ TaxAmount \in [Taxes -> Nat]
    /\ NoOne \notin Remittances

VARIABLES tax,        \* tax_transactions: their status
          liability,  \* tax_liabilities: one row
          remittance, \* tax_remittances
          transfers,  \* treasury transfers inserted for a remittance
          taxRequest, refresher,
          \* Which no step reads:
          disturbed,  \* refreshes across which the tax or the liability changed
          summed,     \* the taxes that each refresh has added up
          counted     \* the taxes that the refresh which wrote last had added up

taxVars == <<tax, liability, remittance, transfers, taxRequest, refresher,
             disturbed, summed, counted>>

NoRemittance == [status |-> "none", amount |-> 0]
NoTaxRequest == [pc |-> "idle", remittance |-> NoOne, amount |-> 0, paid |-> 0]
NoRefresh == [pc |-> "idle", accrued |-> 0, paid |-> 0]

TaxInit ==
    /\ tax = [t \in Taxes |-> "none"]
    /\ liability = [status |-> "none", accrued |-> 0, paid |-> 0, closing |-> 0]
    /\ remittance = [i \in Remittances |-> NoRemittance]
    /\ transfers = [i \in Remittances |-> 0]
    /\ taxRequest = [h \in TaxRequests |-> NoTaxRequest]
    /\ refresher = [r \in Refreshers |-> NoRefresh]
    /\ disturbed = {} /\ summed = [r \in Refreshers |-> {}] /\ counted = {}

AtLeastZero(n) == IF n < 0 THEN 0 ELSE n
Recognised == {t \in Taxes : tax[t] = "recognized"}
SumOf(taxes) == SumFunctionOnSet(TaxAmount, taxes)
SumOfTaxes == SumOf(Recognised)
PaidRemittances == {i \in Remittances : remittance[i].status = "paid"}
Running == {r \in Refreshers : refresher[r].pc # "idle"}

-----------------------------------------------------------------------------
(* Tax transactions.                                                        *)

Recognise(t) ==
    /\ tax[t] = "none"
    /\ tax' = [tax EXCEPT ![t] = "recognized"]
    /\ disturbed' = disturbed \union Running
    /\ UNCHANGED <<liability, remittance, transfers, taxRequest, refresher, summed, counted>>

Reverse(t) ==
    /\ tax[t] = "recognized"
    /\ tax' = [tax EXCEPT ![t] = "reversed"]
    /\ disturbed' = disturbed \union Running
    /\ UNCHANGED <<liability, remittance, transfers, taxRequest, refresher, summed, counted>>

-----------------------------------------------------------------------------
(* createTaxRemittance and markTaxRemittancePaid.                           *)

LiabilityLocked ==
    \E h \in TaxRequests : taxRequest[h].pc \in {"checked", "transferred", "paying"}
\* Mutation: the remittance is read without a lock.
NotLocked(i) == FALSE
RemittanceLocked(i) ==
    \E h \in TaxRequests : taxRequest[h].pc \in {"found", "paying"} /\ taxRequest[h].remittance = i

\* A remittance being written is not yet to be seen by others.
CheckLiability(h, i) ==
    /\ taxRequest[h].pc = "idle"
    /\ remittance[i].status = "none" /\ transfers[i] = 0
    /\ \A g \in TaxRequests : taxRequest[g].remittance # i
    /\ liability.status # "none" /\ ~LiabilityLocked
    /\ \E amount \in 1..liability.closing :
         taxRequest' = [taxRequest EXCEPT ![h] =
           [pc |-> "checked", remittance |-> i, amount |-> amount, paid |-> 0]]
    /\ UNCHANGED <<tax, liability, remittance, transfers, refresher, disturbed,
                   summed, counted>>

InsertTransfer(h) ==
    /\ taxRequest[h].pc = "checked"
    /\ transfers' = [transfers EXCEPT ![taxRequest[h].remittance] = @ + 1]
    /\ taxRequest' = [taxRequest EXCEPT ![h].pc = "transferred"]
    /\ UNCHANGED <<tax, liability, remittance, refresher, disturbed,
                   summed, counted>>

CommitRemittance(h) ==
    /\ taxRequest[h].pc = "transferred"
    /\ remittance' = [remittance EXCEPT ![taxRequest[h].remittance] =
                        [status |-> "draft", amount |-> taxRequest[h].amount]]
    /\ taxRequest' = [taxRequest EXCEPT ![h] = NoTaxRequest]
    /\ UNCHANGED <<tax, liability, transfers, refresher, disturbed,
                   summed, counted>>

\* A remittance that is paid already is returned as it is.
FindRemittance(h, i) ==
    /\ taxRequest[h].pc = "idle"
    /\ remittance[i].status = "draft" /\ ~RemittanceLocked(i)
    /\ taxRequest' = [taxRequest EXCEPT ![h] =
         [pc |-> "found", remittance |-> i, amount |-> remittance[i].amount, paid |-> 0]]
    /\ UNCHANGED <<tax, liability, remittance, transfers, refresher, disturbed,
                   summed, counted>>

LockLiability(h) ==
    /\ taxRequest[h].pc = "found" /\ ~LiabilityLocked
    /\ taxRequest' = [taxRequest EXCEPT ![h].pc = "paying", ![h].paid = liability.paid]
    /\ UNCHANGED <<tax, liability, remittance, transfers, refresher, disturbed,
                   summed, counted>>

CommitPayment(h) ==
    /\ taxRequest[h].pc = "paying"
    /\ LET nextPaid == taxRequest[h].paid + taxRequest[h].amount
           nextClosing == AtLeastZero(liability.accrued - nextPaid)
       IN liability' = [liability EXCEPT !.paid = nextPaid, !.closing = nextClosing,
                          !.status = IF nextClosing = 0 THEN "paid" ELSE "open"]
    /\ remittance' = [remittance EXCEPT ![taxRequest[h].remittance].status = "paid"]
    /\ taxRequest' = [taxRequest EXCEPT ![h] = NoTaxRequest]
    /\ disturbed' = disturbed \union Running
    /\ UNCHANGED <<tax, transfers, refresher, summed, counted>>

TaxRollBack(h) ==
    /\ taxRequest[h].pc # "idle"
    /\ taxRequest' = [taxRequest EXCEPT ![h] = NoTaxRequest]
    /\ UNCHANGED <<tax, liability, remittance, transfers, refresher, disturbed,
                   summed, counted>>

-----------------------------------------------------------------------------
(* refreshTaxLiability.                                                     *)

SumRecognised(r) ==
    /\ refresher[r].pc = "idle"
    /\ refresher' = [refresher EXCEPT ![r] =
                       [pc |-> "summed", accrued |-> SumOfTaxes, paid |-> 0]]
    /\ disturbed' = disturbed \ {r} /\ summed' = [summed EXCEPT ![r] = Recognised]
    /\ UNCHANGED <<tax, liability, remittance, transfers, taxRequest, counted>>

\* One row: the migration's unique index keeps it so where a jurisdiction is given.
FindOrCreate(r) ==
    /\ refresher[r].pc = "summed"
    /\ liability' = IF liability.status # "none" THEN liability
                    ELSE [status |-> "open", accrued |-> refresher[r].accrued, paid |-> 0,
                          closing |-> refresher[r].accrued]
    /\ refresher' = [refresher EXCEPT ![r].pc = "read", ![r].paid = liability.paid]
    /\ counted' = IF liability.status # "none" THEN counted ELSE summed[r]
    /\ UNCHANGED <<tax, remittance, transfers, taxRequest, disturbed, summed>>

\* Mutation: what was paid is not taken off again.
WriteAccrued(r) ==
    /\ refresher[r].pc = "read" /\ ~LiabilityLocked
    /\ liability' = [liability EXCEPT !.accrued = refresher[r].accrued,
                                      !.closing = refresher[r].accrued]
    /\ refresher' = [refresher EXCEPT ![r] = NoRefresh]
    /\ disturbed' = disturbed \union (Running \ {r}) /\ counted' = summed[r]
    /\ summed' = [summed EXCEPT ![r] = {}]
    /\ UNCHANGED <<tax, remittance, transfers, taxRequest>>

\* Mutation: what was paid is taken off twice.
WriteTooLittle(r) ==
    /\ refresher[r].pc = "read" /\ ~LiabilityLocked
    /\ liability' = [liability EXCEPT !.accrued = refresher[r].accrued,
                       !.closing = AtLeastZero(liability.closing - refresher[r].paid)]
    /\ refresher' = [refresher EXCEPT ![r] = NoRefresh]
    /\ disturbed' = disturbed \union (Running \ {r}) /\ counted' = summed[r]
    /\ summed' = [summed EXCEPT ![r] = {}]
    /\ UNCHANGED <<tax, remittance, transfers, taxRequest>>

WriteBalance(r) ==
    /\ refresher[r].pc = "read" /\ ~LiabilityLocked
    /\ liability' = [liability EXCEPT !.accrued = refresher[r].accrued,
                       !.closing = AtLeastZero(refresher[r].accrued - refresher[r].paid)]
    /\ refresher' = [refresher EXCEPT ![r] = NoRefresh]
    /\ disturbed' = disturbed \union (Running \ {r}) /\ counted' = summed[r]
    /\ summed' = [summed EXCEPT ![r] = {}]
    /\ UNCHANGED <<tax, remittance, transfers, taxRequest>>

-----------------------------------------------------------------------------
TaxNext ==
    \/ \E t \in Taxes : Recognise(t) \/ Reverse(t)
    \/ \E h \in TaxRequests :
         \/ \E i \in Remittances : CheckLiability(h, i) \/ FindRemittance(h, i)
         \/ InsertTransfer(h) \/ CommitRemittance(h)
         \/ LockLiability(h) \/ CommitPayment(h) \/ TaxRollBack(h)
    \/ \E r \in Refreshers : SumRecognised(r) \/ FindOrCreate(r) \/ WriteBalance(r)

TaxSpec == TaxInit /\ [][TaxNext]_taxVars
-----------------------------------------------------------------------------
TaxTypeOK ==
    /\ tax \in [Taxes -> {"none", "recognized", "reversed"}]
    /\ liability \in [status : {"none", "open", "paid"}, accrued : Nat, paid : Nat, closing : Nat]
    /\ remittance \in [Remittances -> [status : {"none", "draft", "paid"}, amount : Nat]]
    /\ transfers \in [Remittances -> Nat]
    /\ taxRequest \in [TaxRequests -> [pc : {"idle", "checked", "transferred", "found", "paying"},
                         remittance : Remittances \union {NoOne}, amount : Nat, paid : Nat]]
    /\ refresher \in [Refreshers -> [pc : {"idle", "summed", "read"}, accrued : Nat, paid : Nat]]
    /\ disturbed \subseteq Refreshers
    /\ summed \in [Refreshers -> SUBSET Taxes] /\ counted \subseteq Taxes

\* The liability says it was paid exactly what the paid remittances add up to:
\* remittances marked as paid at once, or twice, are each counted once, and no
\* refresh that began before takes a payment back (markTaxRemittancePaid).
PaidIsRemitted ==
    liability.paid =
      SumFunctionOnSet([i \in Remittances |-> remittance[i].amount], PaidRemittances)

\* What is outstanding covers, less what is paid, each tax that is still recognised and
\* was when the refresh that wrote last added them up: payments made and taxes
\* reversed across a refresh never make a debt look smaller than that.  A tax that was
\* recognised since that sum is not covered, and when the older of two refreshes
\* writes last, one that the other had shown is not either (refreshTaxLiability).
DebtNotHidden ==
    liability.closing >= AtLeastZero(SumOf(Recognised \intersect counted) - liability.paid)

\* A refresh that nothing ran across leaves the liability as the books have it.
QuietRefreshIsRight ==
    [][\A r \in Refreshers :
          refresher[r].pc = "read" /\ refresher'[r].pc = "idle" /\ r \notin disturbed =>
            /\ liability'.accrued = SumOfTaxes
            /\ liability'.closing = AtLeastZero(SumOfTaxes - liability.paid)]_taxVars
=============================================================================
