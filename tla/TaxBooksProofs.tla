--------------------------- MODULE TaxBooksProofs ---------------------------
(***************************************************************************)
(* The tax books: a liability was paid what its paid remittances add up    *)
(* to, and no refresh hides what is left, for any number of taxes,         *)
(* remittances, refreshes and concurrent requests.                         *)
(*                                                                         *)
(* The first part is about the fold that adds up a function on a finite    *)
(* set.  It is defined by recursion over the subsets of that set, and the  *)
(* facts about it are proved by the smallest counterexample: a set of      *)
(* subsets of a finite set has an element with no proper subset in it.     *)
(***************************************************************************)
EXTENDS TaxBooks, FiniteSetTheorems, WellFoundedInduction, TLAPS

-----------------------------------------------------------------------------
(* Sums.                                                                    *)

Pick(s) == CHOOSE x \in s : TRUE

\* g is the fold of f over every subset of S.
IsFold(g, f, S) ==
    g = [s \in SUBSET S |-> IF s = {} THEN 0 ELSE f[Pick(s)] + g[s \ {Pick(s)}]]

LEMMA PickIsIn == ASSUME NEW s, s # {} PROVE Pick(s) \in s
BY DEF Pick

LEMMA SumIsFold ==
    ASSUME NEW f, NEW S
    PROVE  SumFunctionOnSet(f, S) = (CHOOSE g : IsFold(g, f, S))[S]
BY DEF SumFunctionOnSet, FoldFunctionOnSet, MapThenFoldSet, IsFold, Pick

\* Induction over finite sets, as a fact about sets.
LEMMA SmallestCounterexample ==
    ASSUME NEW S, IsFiniteSet(S), NEW Bad \in SUBSET (SUBSET S), Bad # {}
    PROVE  \E U \in Bad : \A V \in SUBSET U : V # U => V \notin Bad
<1>1. IsWellFoundedOn(StrictSubsetOrdering(S), SUBSET S)
  BY FS_StrictSubsetOrderingWellFounded, FS_FiniteSubsetsOfFinite
<1>2. PICK U \in Bad : \A V \in Bad : <<V, U>> \notin StrictSubsetOrdering(S)
  BY <1>1, WFMin
<1>3. SUFFICES ASSUME NEW V \in SUBSET U, V # U, V \in Bad PROVE FALSE
  OBVIOUS
<1>4. <<V, U>> \in StrictSubsetOrdering(S)
  BY <1>3 DEF StrictSubsetOrdering
<1> QED BY <1>2, <1>3, <1>4

\* Two folds of f agree wherever both are defined.
LEMMA FoldsAgree ==
    ASSUME NEW f, NEW S, IsFiniteSet(S), NEW R, NEW g, NEW h, IsFold(g, f, S), IsFold(h, f, R)
    PROVE  \A s \in SUBSET S : s \subseteq R => g[s] = h[s]
<1> DEFINE Bad == {s \in SUBSET S : s \subseteq R /\ g[s] # h[s]}
<1>1. SUFFICES ASSUME Bad # {} PROVE FALSE
  OBVIOUS
<1>2. PICK s \in Bad : \A t \in SUBSET s : t # s => t \notin Bad
  <2>1. Bad \in SUBSET (SUBSET S)
    OBVIOUS
  <2> HIDE DEF Bad
  <2> QED BY <1>1, <2>1, SmallestCounterexample
<1>3. s # {}
  BY DEF IsFold
<1>4. Pick(s) \in s
  BY <1>3, PickIsIn
<1>5. g[s \ {Pick(s)}] = h[s \ {Pick(s)}]
  BY <1>2, <1>4
<1>6. g[s] = f[Pick(s)] + g[s \ {Pick(s)}] /\ h[s] = f[Pick(s)] + h[s \ {Pick(s)}]
  BY <1>3 DEF IsFold
<1> QED BY <1>5, <1>6

\* Every finite set has a fold.
LEMMA FoldExists ==
    ASSUME NEW D, NEW f \in [D -> Int], NEW S \in SUBSET D, IsFiniteSet(S)
    PROVE  \E g \in [SUBSET S -> Int] : IsFold(g, f, S)
<1> DEFINE Good(s) == \E g \in [SUBSET s -> Int] : IsFold(g, f, s)
           Bad == {s \in SUBSET S : ~Good(s)}
           Fold(s) == CHOOSE g \in [SUBSET s -> Int] : IsFold(g, f, s)
           Value(s) == IF s = {} THEN 0 ELSE f[Pick(s)] + Fold(s \ {Pick(s)})[s \ {Pick(s)}]
<1>1. SUFFICES ASSUME Bad # {} PROVE FALSE
  OBVIOUS
<1>2. PICK U \in Bad : \A s \in SUBSET U : s # U => s \notin Bad
  <2>1. Bad \in SUBSET (SUBSET S)
    OBVIOUS
  <2> HIDE DEF Bad
  <2> QED BY <1>1, <2>1, SmallestCounterexample
<1>3. ASSUME NEW s \in SUBSET U, s # U
      PROVE  Fold(s) \in [SUBSET s -> Int] /\ IsFold(Fold(s), f, s)
  BY <1>2, <1>3
<1>4. ASSUME NEW s \in SUBSET U, s # {}
      PROVE  /\ Pick(s) \in s /\ f[Pick(s)] \in Int
             /\ s \ {Pick(s)} \in SUBSET U /\ s \ {Pick(s)} # U
  BY <1>4, PickIsIn
<1>5. ASSUME NEW s \in SUBSET U PROVE Value(s) \in Int
  <2>1. CASE s = {}
    BY <2>1
  <2>2. CASE s # {}
    <3>1. Fold(s \ {Pick(s)})[s \ {Pick(s)}] \in Int
      BY <1>3, <1>4, <2>2
    <3> HIDE DEF Fold
    <3> QED BY <1>4, <2>2, <3>1
  <2> QED BY <2>1, <2>2
<1>6. ASSUME NEW s \in SUBSET U, s # U PROVE Value(s) = Fold(s)[s]
  <2>1. CASE s = {}
    <3>1. IsFold(Fold(s), f, s)
      BY <1>3, <1>6
    <3> HIDE DEF Fold
    <3>2. Fold(s)[s] = 0
      BY <2>1, <3>1 DEF IsFold
    <3> QED BY <2>1, <3>2
  <2>2. CASE s # {}
    <3>1. IsFold(Fold(s), f, s) /\ IsFold(Fold(s \ {Pick(s)}), f, s \ {Pick(s)})
      BY <1>3, <1>4, <1>6, <2>2
    <3>2. IsFiniteSet(s)
      BY FS_Subset
    <3> HIDE DEF Fold
    <3>3. Fold(s)[s] = f[Pick(s)] + Fold(s)[s \ {Pick(s)}]
      BY <2>2, <3>1 DEF IsFold
    <3>4. Fold(s)[s \ {Pick(s)}] = Fold(s \ {Pick(s)})[s \ {Pick(s)}]
      BY <3>1, <3>2, FoldsAgree
    <3> QED BY <2>2, <3>3, <3>4
  <2> QED BY <2>1, <2>2
<1> DEFINE g == [s \in SUBSET U |-> Value(s)]
<1> HIDE DEF Fold
<1>7. g \in [SUBSET U -> Int]
  BY <1>5
<1>8. ASSUME NEW s \in SUBSET U, s # {} PROVE g[s] = f[Pick(s)] + g[s \ {Pick(s)}]
  <2> DEFINE r == s \ {Pick(s)}
  <2>1. g[s] = f[Pick(s)] + Fold(r)[r]
    BY <1>8
  <2>2. Value(r) = Fold(r)[r]
    BY <1>4, <1>6, <1>8
  <2>3. g[r] = Value(r)
    BY <1>4, <1>8
  <2> QED BY <2>1, <2>2, <2>3
<1>9. g[{}] = 0
  OBVIOUS
<1> HIDE DEF Value
<1>10. IsFold(g, f, U)
  <2>1. \A s \in SUBSET U : g[s] = IF s = {} THEN 0 ELSE f[Pick(s)] + g[s \ {Pick(s)}]
    BY <1>8, <1>9
  <2>2. g = [s \in SUBSET U |-> g[s]]
    OBVIOUS
  <2> HIDE DEF g
  <2> QED BY <2>1, <2>2 DEF IsFold
<1> QED BY <1>7, <1>10

\* What the library's fold computes, of integers on a finite set.
LEMMA SumUnfolds ==
    ASSUME NEW D, NEW f \in [D -> Int], NEW S \in SUBSET D, IsFiniteSet(S)
    PROVE  /\ SumFunctionOnSet(f, S) \in Int
           /\ S = {} => SumFunctionOnSet(f, S) = 0
           /\ S # {} => SumFunctionOnSet(f, S) = f[Pick(S)] + SumFunctionOnSet(f, S \ {Pick(S)})
<1>1. PICK g \in [SUBSET S -> Int] : IsFold(g, f, S)
  BY FoldExists
<1>2. ASSUME NEW R \in SUBSET S PROVE SumFunctionOnSet(f, R) = g[R]
  <2> DEFINE fold == CHOOSE h : IsFold(h, f, R)
  <2>1. IsFiniteSet(R)
    BY FS_Subset
  <2>2. IsFold(fold, f, R)
    BY <2>1, FoldExists
  <2>3. SumFunctionOnSet(f, R) = fold[R]
    BY SumIsFold
  <2> HIDE DEF fold
  <2> QED BY <1>1, <2>2, <2>3, FoldsAgree
<1>3. /\ g[S] \in Int
      /\ S = {} => g[S] = 0
      /\ S # {} => g[S] = f[Pick(S)] + g[S \ {Pick(S)}]
  BY <1>1 DEF IsFold
<1> QED BY <1>2, <1>3

\* The order in which the fold takes the elements does not matter.
LEMMA SumRemoves ==
    ASSUME NEW D, NEW f \in [D -> Int], NEW S \in SUBSET D, IsFiniteSet(S), NEW x \in S
    PROVE  SumFunctionOnSet(f, S) = f[x] + SumFunctionOnSet(f, S \ {x})
<1> DEFINE Bad == {s \in SUBSET S : \E z \in s : SumFunctionOnSet(f, s) # f[z] + SumFunctionOnSet(f, s \ {z})}
<1>1. SUFFICES ASSUME Bad # {} PROVE FALSE
  OBVIOUS
<1>2. PICK U \in Bad : \A s \in SUBSET U : s # U => s \notin Bad
  <2>1. Bad \in SUBSET (SUBSET S)
    OBVIOUS
  <2> HIDE DEF Bad
  <2> QED BY <1>1, <2>1, SmallestCounterexample
<1>3. PICK z \in U : SumFunctionOnSet(f, U) # f[z] + SumFunctionOnSet(f, U \ {z})
  OBVIOUS
<1>4. \A R \in SUBSET U : R \in SUBSET D /\ IsFiniteSet(R)
  BY FS_Subset
<1>5. PICK y \in U : SumFunctionOnSet(f, U) = f[y] + SumFunctionOnSet(f, U \ {y})
  <2>1. Pick(U) \in U /\ U \in SUBSET D /\ IsFiniteSet(U)
    BY <1>4, PickIsIn
  <2> HIDE DEF Bad
  <2>2. SumFunctionOnSet(f, U) = f[Pick(U)] + SumFunctionOnSet(f, U \ {Pick(U)})
    BY <2>1, SumUnfolds
  <2> QED BY <2>1, <2>2
<1>6. SumFunctionOnSet(f, U \ {y}) = f[z] + SumFunctionOnSet(f, (U \ {y}) \ {z})
  BY <1>2, <1>3, <1>5
<1>7. SumFunctionOnSet(f, U \ {z}) = f[y] + SumFunctionOnSet(f, (U \ {z}) \ {y})
  BY <1>2, <1>3, <1>5
<1>8. (U \ {y}) \ {z} = (U \ {z}) \ {y}
  OBVIOUS
<1>9. f[y] \in Int /\ f[z] \in Int /\ SumFunctionOnSet(f, (U \ {y}) \ {z}) \in Int
  BY <1>4, SumUnfolds
<1> QED BY <1>3, <1>5, <1>6, <1>7, <1>8, <1>9

\* The sum of naturals is a natural.
LEMMA SumIsNat ==
    ASSUME NEW D, NEW f \in [D -> Nat], NEW S \in SUBSET D, IsFiniteSet(S)
    PROVE  SumFunctionOnSet(f, S) \in Nat
<1> DEFINE Bad == {s \in SUBSET S : SumFunctionOnSet(f, s) \notin Nat}
<1>1. SUFFICES ASSUME Bad # {} PROVE FALSE
  OBVIOUS
<1>2. PICK U \in Bad : \A s \in SUBSET U : s # U => s \notin Bad
  <2>1. Bad \in SUBSET (SUBSET S)
    OBVIOUS
  <2> HIDE DEF Bad
  <2> QED BY <1>1, <2>1, SmallestCounterexample
<1>3. U \in SUBSET D /\ IsFiniteSet(U) /\ f \in [D -> Int]
  BY FS_Subset
<1>4. CASE U = {}
  <2> HIDE DEF Bad
  <2>1. SumFunctionOnSet(f, U) = 0
    BY <1>3, <1>4, SumUnfolds
  <2> QED BY <2>1 DEF Bad
<1>5. CASE U # {}
  <2>1. Pick(U) \in U /\ SumFunctionOnSet(f, U \ {Pick(U)}) \in Nat
    BY <1>2, <1>5, PickIsIn
  <2> HIDE DEF Bad
  <2>2. SumFunctionOnSet(f, U) = f[Pick(U)] + SumFunctionOnSet(f, U \ {Pick(U)})
    BY <1>3, <1>5, SumUnfolds
  <2> QED BY <1>3, <2>1, <2>2 DEF Bad
<1> QED BY <1>4, <1>5

\* A sum of naturals does not grow when the set shrinks.
LEMMA SumMonotone ==
    ASSUME NEW D, NEW f \in [D -> Nat], NEW S \in SUBSET D, IsFiniteSet(S), NEW R \in SUBSET S
    PROVE  SumFunctionOnSet(f, R) <= SumFunctionOnSet(f, S)
<1> DEFINE Bad == {s \in SUBSET S : R \subseteq s
                                  /\ ~(SumFunctionOnSet(f, R) <= SumFunctionOnSet(f, s))}
<1>1. SUFFICES ASSUME Bad # {} PROVE FALSE
  OBVIOUS
<1>2. PICK U \in Bad : \A s \in SUBSET U : s # U => s \notin Bad
  <2>1. Bad \in SUBSET (SUBSET S)
    OBVIOUS
  <2> HIDE DEF Bad
  <2> QED BY <1>1, <2>1, SmallestCounterexample
<1>3. U \in SUBSET D /\ IsFiniteSet(U) /\ R \in SUBSET D /\ IsFiniteSet(R) /\ f \in [D -> Int]
  BY FS_Subset
<1>4. SumFunctionOnSet(f, U) \in Nat /\ SumFunctionOnSet(f, R) \in Nat
  BY <1>3, SumIsNat
<1>5. CASE U = R
  BY <1>4, <1>5
<1>6. CASE U # R
  <2>1. PICK x \in U : x \notin R
    BY <1>6
  <2>2. SumFunctionOnSet(f, R) <= SumFunctionOnSet(f, U \ {x})
    BY <1>2, <2>1
  <2>3. U \ {x} \in SUBSET D /\ IsFiniteSet(U \ {x})
    BY <1>3, FS_Subset
  <2>4. SumFunctionOnSet(f, U \ {x}) \in Nat /\ f[x] \in Nat
    BY <1>3, <2>1, <2>3, SumIsNat
  <2> HIDE DEF Bad
  <2>5. SumFunctionOnSet(f, U) = f[x] + SumFunctionOnSet(f, U \ {x})
    BY <1>3, <2>1, SumRemoves
  <2>6. SumFunctionOnSet(f, R) <= SumFunctionOnSet(f, U)
    BY <1>4, <2>2, <2>4, <2>5
  <2> QED BY <2>6 DEF Bad
<1> QED BY <1>5, <1>6

\* Functions that agree on a set have the same sum over it.
LEMMA SumAgrees ==
    ASSUME NEW D, NEW f \in [D -> Int], NEW g \in [D -> Int], NEW S \in SUBSET D, IsFiniteSet(S),
           \A x \in S : f[x] = g[x]
    PROVE  SumFunctionOnSet(f, S) = SumFunctionOnSet(g, S)
<1> DEFINE Bad == {s \in SUBSET S : SumFunctionOnSet(f, s) # SumFunctionOnSet(g, s)}
<1>1. SUFFICES ASSUME Bad # {} PROVE FALSE
  OBVIOUS
<1>2. PICK U \in Bad : \A s \in SUBSET U : s # U => s \notin Bad
  <2>1. Bad \in SUBSET (SUBSET S)
    OBVIOUS
  <2> HIDE DEF Bad
  <2> QED BY <1>1, <2>1, SmallestCounterexample
<1>3. U \in SUBSET D /\ IsFiniteSet(U)
  BY FS_Subset
<1>4. CASE U = {}
  <2> HIDE DEF Bad
  <2>1. SumFunctionOnSet(f, U) = 0 /\ SumFunctionOnSet(g, U) = 0
    BY <1>3, <1>4, SumUnfolds
  <2> QED BY <2>1 DEF Bad
<1>5. CASE U # {}
  <2>1. Pick(U) \in U
        /\ SumFunctionOnSet(f, U \ {Pick(U)}) = SumFunctionOnSet(g, U \ {Pick(U)})
    BY <1>2, <1>5, PickIsIn
  <2> HIDE DEF Bad
  <2>2. SumFunctionOnSet(f, U) = f[Pick(U)] + SumFunctionOnSet(f, U \ {Pick(U)})
    BY <1>3, <1>5, SumUnfolds
  <2>3. SumFunctionOnSet(g, U) = g[Pick(U)] + SumFunctionOnSet(g, U \ {Pick(U)})
    BY <1>3, <1>5, SumUnfolds
  <2> QED BY <2>1, <2>2, <2>3 DEF Bad
<1> QED BY <1>4, <1>5

-----------------------------------------------------------------------------
(* The inductive invariant.                                                 *)

OwnsLiability == {"checked", "transferred", "paying"}
OwnsRemittance == {"found", "paying"}

\* The rows are locked by one transaction at a time.
TaxLocks ==
    \A g, h \in TaxRequests :
        /\ taxRequest[g].pc \in OwnsLiability /\ taxRequest[h].pc \in OwnsLiability => g = h
        /\ /\ taxRequest[g].pc \in OwnsRemittance /\ taxRequest[h].pc \in OwnsRemittance
           /\ taxRequest[g].remittance = taxRequest[h].remittance
           => g = h

\* What a transaction under way has read is still so.
RequestKnows(h) ==
    LET row == taxRequest[h]
    IN /\ row.pc # "idle" => row.remittance \in Remittances
       /\ row.pc \in {"checked", "transferred"} => remittance[row.remittance].status = "none"
       /\ row.pc \in OwnsRemittance =>
            /\ remittance[row.remittance].status = "draft"
            /\ remittance[row.remittance].amount = row.amount
       /\ row.pc = "paying" => row.paid = liability.paid

\* What a refresh has read may be old, but not newer than the books; if nothing ran
\* across it, it is what the books say.
RefresherKnows(r) ==
    /\ refresher[r].pc = "read" => refresher[r].paid <= liability.paid
    /\ refresher[r].pc # "idle" => refresher[r].accrued = SumOf(summed[r])
    /\ r \notin disturbed => /\ refresher[r].pc # "idle" => refresher[r].accrued = SumOfTaxes
                             /\ refresher[r].pc = "read" => refresher[r].paid = liability.paid

NewIsEmpty == liability.status = "none" => liability.paid = 0

\* What is outstanding covers what was accrued by the refresh that wrote last.
BooksCover == /\ liability.closing >= AtLeastZero(liability.accrued - liability.paid)
              /\ liability.accrued = SumOf(counted)

TaxInv ==
    /\ TaxTypeOK /\ TaxLocks /\ NewIsEmpty /\ PaidIsRemitted /\ BooksCover
    /\ \A h \in TaxRequests : RequestKnows(h)
    /\ \A r \in Refreshers : RefresherKnows(r)

Amounts == [i \in Remittances |-> remittance[i].amount]

LEMMA SumOfTaxesIsNat == ASSUME TaxTypeOK PROVE SumOfTaxes \in Nat
<1>1. Recognised \in SUBSET Taxes /\ IsFiniteSet(Recognised)
  BY TaxConstants, FS_Subset DEF Recognised
<1> QED BY <1>1, TaxConstants, SumIsNat DEF SumOfTaxes, SumOf

LEMMA AmountsTyped ==
    ASSUME TaxTypeOK
    PROVE  /\ Amounts \in [Remittances -> Nat] /\ Amounts \in [Remittances -> Int]
           /\ PaidRemittances \in SUBSET Remittances /\ IsFiniteSet(PaidRemittances)
<1>1. PaidRemittances \in SUBSET Remittances /\ IsFiniteSet(PaidRemittances)
  BY TaxConstants, FS_Subset DEF PaidRemittances
<1>2. \A i \in Remittances : remittance[i].amount \in Nat
  BY DEF TaxTypeOK
<1> QED BY <1>1, <1>2 DEF Amounts

LEMMA AtLeastZeroIsNat == ASSUME NEW n \in Int PROVE AtLeastZero(n) \in Nat /\ AtLeastZero(n) >= n
BY DEF AtLeastZero

LEMMA TaxInitInv == TaxInit => TaxInv
<1> SUFFICES ASSUME TaxInit PROVE TaxInv
  OBVIOUS
<1>1. TaxTypeOK
  BY DEF TaxInit, TaxTypeOK, NoRemittance, NoTaxRequest, NoRefresh
<1>2. TaxLocks /\ \A h \in TaxRequests : RequestKnows(h)
  BY DEF TaxInit, TaxLocks, RequestKnows, NoTaxRequest, OwnsLiability, OwnsRemittance
<1>3. NewIsEmpty /\ BooksCover
  <2>1. TaxAmount \in [Taxes -> Int] /\ {} \in SUBSET Taxes /\ IsFiniteSet({})
    BY TaxConstants, FS_EmptySet
  <2>2. SumOf({}) = 0
    BY <2>1, SumUnfolds DEF SumOf
  <2> QED BY <2>2 DEF TaxInit, NewIsEmpty, BooksCover, AtLeastZero
<1>4. \A r \in Refreshers : RefresherKnows(r)
  BY DEF TaxInit, RefresherKnows, NoRefresh
<1>5. PaidIsRemitted
  <2>1. PaidRemittances = {}
    BY DEF TaxInit, PaidRemittances, NoRemittance
  <2>2. SumFunctionOnSet(Amounts, PaidRemittances) = 0
    BY <1>1, <2>1, AmountsTyped, SumUnfolds
  <2> QED BY <2>2 DEF TaxInit, PaidIsRemitted, Amounts
<1> QED BY <1>1, <1>2, <1>3, <1>4, <1>5 DEF TaxInv

-----------------------------------------------------------------------------
(* Steps.                                                                   *)

\* A tax is recognised or reversed: every refresh under way is disturbed.
LEMMA TaxMoves ==
    ASSUME TaxInv, NEW t \in Taxes, Recognise(t) \/ Reverse(t)
    PROVE  TaxInv'
<1> USE DEF Recognise, Reverse
<1>1. TaxTypeOK'
  BY DEF TaxInv, TaxTypeOK, Running
<1>2. TaxLocks' /\ \A h \in TaxRequests : RequestKnows(h)'
  BY DEF TaxInv, TaxLocks, RequestKnows
<1>3. NewIsEmpty' /\ BooksCover' /\ PaidIsRemitted'
  BY DEF TaxInv, NewIsEmpty, BooksCover, PaidIsRemitted, PaidRemittances
<1>4. \A r \in Refreshers : RefresherKnows(r)'
  BY DEF TaxInv, RefresherKnows, Running
<1> QED BY <1>1, <1>2, <1>3, <1>4 DEF TaxInv

\* A transaction takes a step that no other part of the books notices.
LEMMA OnlyRequest ==
    ASSUME TaxInv, NEW h \in TaxRequests, NEW row,
           taxRequest' = [taxRequest EXCEPT ![h] = row],
           row \in [pc : {"idle", "checked", "transferred", "found", "paying"},
                    remittance : Remittances \union {NoOne}, amount : Nat, paid : Nat],
           transfers' \in [Remittances -> Nat],
           UNCHANGED <<tax, liability, remittance, refresher, disturbed, summed, counted>>,
           row.pc \in OwnsLiability =>
             taxRequest[h].pc \in OwnsLiability \/ ~LiabilityLocked,
           row.pc \in OwnsRemittance =>
             \/ taxRequest[h].pc \in OwnsRemittance /\ taxRequest[h].remittance = row.remittance
             \/ ~RemittanceLocked(row.remittance),
           RequestKnows(h)'
    PROVE  TaxInv'
<1>1. TaxTypeOK'
  BY DEF TaxInv, TaxTypeOK
<1>2. /\ \A g \in TaxRequests \ {h} : taxRequest'[g] = taxRequest[g]
      /\ taxRequest'[h] = row
  BY DEF TaxInv, TaxTypeOK
<1>3. TaxLocks'
  BY <1>2 DEF TaxInv, TaxLocks, LiabilityLocked, RemittanceLocked, OwnsLiability, OwnsRemittance
<1>4. \A g \in TaxRequests : RequestKnows(g)'
  BY <1>2 DEF TaxInv, RequestKnows
<1>5. NewIsEmpty' /\ BooksCover' /\ PaidIsRemitted'
  BY DEF TaxInv, NewIsEmpty, BooksCover, PaidIsRemitted, PaidRemittances
<1>6. \A r \in Refreshers : RefresherKnows(r)'
  BY DEF TaxInv, RefresherKnows, SumOfTaxes, SumOf, Recognised
<1> QED BY <1>1, <1>3, <1>4, <1>5, <1>6 DEF TaxInv

LEMMA RequestRow ==
    ASSUME TaxInv, NEW h \in TaxRequests
    PROVE  /\ taxRequest[h].amount \in Nat /\ taxRequest[h].paid \in Nat
           /\ taxRequest[h] \in [pc : {"idle", "checked", "transferred", "found", "paying"},
                                 remittance : Remittances \union {NoOne}, amount : Nat, paid : Nat]
           /\ taxRequest[h] = [pc |-> taxRequest[h].pc, remittance |-> taxRequest[h].remittance,
                               amount |-> taxRequest[h].amount, paid |-> taxRequest[h].paid]
BY DEF TaxInv, TaxTypeOK

LEMMA CheckLiabilityInv ==
    ASSUME TaxInv, NEW h \in TaxRequests, NEW i \in Remittances, CheckLiability(h, i)
    PROVE  TaxInv'
<1>1. PICK amount \in 1..liability.closing : taxRequest' = [taxRequest EXCEPT ![h] =
        [pc |-> "checked", remittance |-> i, amount |-> amount, paid |-> 0]]
  BY DEF CheckLiability
<1>2. amount \in Nat
  BY DEF TaxInv, TaxTypeOK
<1>3. RequestKnows(h)'
  BY <1>1 DEF CheckLiability, RequestKnows, OwnsRemittance, TaxInv, TaxTypeOK
<1>4. transfers' \in [Remittances -> Nat]
  BY DEF CheckLiability, TaxInv, TaxTypeOK
<1> QED BY <1>1, <1>2, <1>3, <1>4, OnlyRequest DEF CheckLiability, OwnsRemittance

LEMMA InsertTransferInv ==
    ASSUME TaxInv, NEW h \in TaxRequests, InsertTransfer(h)
    PROVE  TaxInv'
<1> DEFINE row == [taxRequest[h] EXCEPT !.pc = "transferred"]
<1>1. /\ row \in [pc : {"idle", "checked", "transferred", "found", "paying"},
                  remittance : Remittances \union {NoOne}, amount : Nat, paid : Nat]
      /\ row.pc = "transferred" /\ row.remittance = taxRequest[h].remittance
  BY RequestRow
<1>2. taxRequest' = [taxRequest EXCEPT ![h] = row] /\ taxRequest'[h] = row
  BY DEF InsertTransfer, TaxInv, TaxTypeOK
<1>3. RequestKnows(h)'
  BY <1>1, <1>2 DEF InsertTransfer, RequestKnows, OwnsRemittance, TaxInv
<1>4. transfers' \in [Remittances -> Nat]
  <2>1. taxRequest[h].remittance \in Remittances
    BY DEF InsertTransfer, TaxInv, RequestKnows
  <2>2. transfers \in [Remittances -> Nat]
    BY DEF TaxInv, TaxTypeOK
  <2> QED BY <2>1, <2>2 DEF InsertTransfer
<1> HIDE DEF row
<1> QED BY <1>1, <1>2, <1>3, <1>4, OnlyRequest DEF InsertTransfer, OwnsRemittance, OwnsLiability

LEMMA FindRemittanceInv ==
    ASSUME TaxInv, NEW h \in TaxRequests, NEW i \in Remittances, FindRemittance(h, i)
    PROVE  TaxInv'
<1> DEFINE row == [pc |-> "found", remittance |-> i, amount |-> remittance[i].amount, paid |-> 0]
<1>1. taxRequest' = [taxRequest EXCEPT ![h] = row] /\ taxRequest'[h] = row
  BY DEF FindRemittance, TaxInv, TaxTypeOK
<1>2. remittance[i].status = "draft" /\ remittance[i].amount \in Nat
  BY DEF FindRemittance, TaxInv, TaxTypeOK
<1>3. RequestKnows(h)'
  BY <1>1, <1>2 DEF FindRemittance, RequestKnows
<1>4. transfers' \in [Remittances -> Nat]
  BY DEF FindRemittance, TaxInv, TaxTypeOK
<1> QED BY <1>1, <1>2, <1>3, <1>4, OnlyRequest DEF FindRemittance, OwnsLiability

LEMMA LockLiabilityInv ==
    ASSUME TaxInv, NEW h \in TaxRequests, LockLiability(h)
    PROVE  TaxInv'
<1> DEFINE row == [taxRequest[h] EXCEPT !.pc = "paying", !.paid = liability.paid]
<1>1. /\ row \in [pc : {"idle", "checked", "transferred", "found", "paying"},
                  remittance : Remittances \union {NoOne}, amount : Nat, paid : Nat]
      /\ row.pc = "paying" /\ row.remittance = taxRequest[h].remittance
      /\ row.amount = taxRequest[h].amount /\ row.paid = liability.paid
  BY RequestRow DEF TaxInv, TaxTypeOK
<1>2. taxRequest' = [taxRequest EXCEPT ![h] = row] /\ taxRequest'[h] = row
  BY DEF LockLiability, TaxInv, TaxTypeOK
<1>3. RequestKnows(h)'
  BY <1>1, <1>2 DEF LockLiability, RequestKnows, OwnsRemittance, TaxInv
<1>4. transfers' \in [Remittances -> Nat]
  BY DEF LockLiability, TaxInv, TaxTypeOK
<1> HIDE DEF row
<1> QED BY <1>1, <1>2, <1>3, <1>4, OnlyRequest DEF LockLiability, OwnsRemittance

LEMMA TaxRollBackInv ==
    ASSUME TaxInv, NEW h \in TaxRequests, TaxRollBack(h)
    PROVE  TaxInv'
<1>1. taxRequest' = [taxRequest EXCEPT ![h] = NoTaxRequest] /\ taxRequest'[h] = NoTaxRequest
  BY DEF TaxRollBack, TaxInv, TaxTypeOK
<1>2. RequestKnows(h)'
  BY <1>1 DEF RequestKnows, NoTaxRequest, OwnsRemittance
<1>3. transfers' \in [Remittances -> Nat]
  BY DEF TaxRollBack, TaxInv, TaxTypeOK
<1> QED BY <1>1, <1>2, <1>3, OnlyRequest
        DEF TaxRollBack, NoTaxRequest, OwnsLiability, OwnsRemittance

\* The remittance becomes visible; it has not been paid.
LEMMA CommitRemittanceInv ==
    ASSUME TaxInv, NEW h \in TaxRequests, CommitRemittance(h)
    PROVE  TaxInv'
<1> DEFINE i == taxRequest[h].remittance
<1>1. /\ i \in Remittances /\ remittance[i].status = "none"
      /\ taxRequest[h].pc = "transferred" /\ taxRequest[h].amount \in Nat
  BY RequestRow DEF TaxInv, RequestKnows, CommitRemittance
<1>2. /\ remittance' = [remittance EXCEPT ![i] =
                          [status |-> "draft", amount |-> taxRequest[h].amount]]
      /\ taxRequest' = [taxRequest EXCEPT ![h] = NoTaxRequest]
      /\ UNCHANGED <<tax, liability, transfers, refresher, disturbed, summed, counted>>
  BY DEF CommitRemittance
<1> HIDE DEF i
<1>3. TaxTypeOK'
  BY <1>1, <1>2 DEF TaxInv, TaxTypeOK, NoTaxRequest
<1>4. TaxLocks'
  BY <1>2 DEF TaxInv, TaxTypeOK, TaxLocks, NoTaxRequest, OwnsLiability, OwnsRemittance
<1>5. ASSUME NEW g \in TaxRequests PROVE RequestKnows(g)'
  <2>1. CASE g = h
    BY <1>2, <2>1 DEF TaxInv, TaxTypeOK, RequestKnows, NoTaxRequest, OwnsRemittance
  <2>2. CASE g # h
    <3>1. taxRequest'[g] = taxRequest[g] /\ taxRequest[g].pc \notin {"checked", "transferred"}
      BY <1>1, <1>2, <2>2 DEF TaxInv, TaxTypeOK, TaxLocks, OwnsLiability
    <3>2. taxRequest[g].pc \in OwnsRemittance => taxRequest[g].remittance # i
      <4>1. taxRequest[g].pc \in OwnsRemittance =>
              remittance[taxRequest[g].remittance].status = "draft"
        BY DEF TaxInv, RequestKnows
      <4> QED BY <1>1, <4>1
    <3> QED BY <1>2, <3>1, <3>2 DEF TaxInv, TaxTypeOK, RequestKnows
  <2> QED BY <2>1, <2>2
<1>6. PaidIsRemitted'
  <2>1. PaidRemittances' = PaidRemittances /\ i \notin PaidRemittances
    BY <1>1, <1>2 DEF PaidRemittances, TaxInv, TaxTypeOK
  <2>2. \A j \in PaidRemittances : Amounts'[j] = Amounts[j]
    BY <1>2, <2>1 DEF Amounts, PaidRemittances, TaxInv, TaxTypeOK
  <2>3. Amounts' \in [Remittances -> Int]
    BY <1>3, AmountsTyped DEF TaxTypeOK, Amounts
  <2>4. SumFunctionOnSet(Amounts', PaidRemittances) = SumFunctionOnSet(Amounts, PaidRemittances)
    BY <2>2, <2>3, AmountsTyped, SumAgrees DEF TaxInv
  <2> QED BY <1>2, <2>1, <2>4 DEF TaxInv, PaidIsRemitted, Amounts
<1>7. NewIsEmpty' /\ BooksCover' /\ \A r \in Refreshers : RefresherKnows(r)'
  BY <1>2 DEF TaxInv, NewIsEmpty, BooksCover, RefresherKnows, SumOfTaxes, SumOf, Recognised
<1> QED BY <1>3, <1>4, <1>5, <1>6, <1>7 DEF TaxInv

\* The only step that pays: the lock of the liability makes what the transaction
\* read of it what it adds to, and the lock of the remittance makes it the first.
LEMMA CommitPaymentInv ==
    ASSUME TaxInv, NEW h \in TaxRequests, CommitPayment(h)
    PROVE  TaxInv'
<1> DEFINE i == taxRequest[h].remittance
           nextPaid == liability.paid + taxRequest[h].amount
           nextClosing == AtLeastZero(liability.accrued - nextPaid)
<1>1. /\ i \in Remittances /\ remittance[i].status = "draft"
      /\ remittance[i].amount = taxRequest[h].amount
      /\ taxRequest[h].pc = "paying" /\ taxRequest[h].paid = liability.paid
      /\ taxRequest[h].amount \in Nat
  BY RequestRow DEF TaxInv, RequestKnows, CommitPayment, OwnsRemittance
<1>2. /\ liability' = [liability EXCEPT !.paid = nextPaid, !.closing = nextClosing,
                         !.status = IF nextClosing = 0 THEN "paid" ELSE "open"]
      /\ remittance' = [remittance EXCEPT ![i].status = "paid"]
      /\ taxRequest' = [taxRequest EXCEPT ![h] = NoTaxRequest]
      /\ disturbed' = disturbed \union Running
      /\ UNCHANGED <<tax, transfers, refresher, summed, counted>>
  BY <1>1 DEF CommitPayment
<1>3. /\ liability.paid \in Nat /\ liability.accrued \in Nat
      /\ nextPaid \in Nat /\ nextPaid >= liability.paid /\ nextClosing \in Nat
  BY <1>1, AtLeastZeroIsNat DEF TaxInv, TaxTypeOK
<1>4. /\ liability'.paid = nextPaid /\ liability'.closing = nextClosing
      /\ liability'.accrued = liability.accrued /\ liability'.status # "none"
      /\ liability' \in [status : {"none", "open", "paid"}, accrued : Nat, paid : Nat, closing : Nat]
  <2> HIDE DEF nextPaid, nextClosing
  <2> QED BY <1>2, <1>3 DEF TaxInv, TaxTypeOK
<1> HIDE DEF i
<1>5. TaxTypeOK'
  <2>1. NoTaxRequest \in [pc : {"idle", "checked", "transferred", "found", "paying"},
                          remittance : Remittances \union {NoOne}, amount : Nat, paid : Nat]
    BY DEF NoTaxRequest
  <2>2. taxRequest' \in [TaxRequests -> [pc : {"idle", "checked", "transferred", "found", "paying"},
                          remittance : Remittances \union {NoOne}, amount : Nat, paid : Nat]]
    BY <1>2, <2>1 DEF TaxInv, TaxTypeOK
  <2>3. remittance' \in [Remittances -> [status : {"none", "draft", "paid"}, amount : Nat]]
    <3>1. remittance \in [Remittances -> [status : {"none", "draft", "paid"}, amount : Nat]]
      BY DEF TaxInv, TaxTypeOK
    <3> QED BY <1>1, <1>2, <3>1
  <2>4. disturbed' \subseteq Refreshers
    BY <1>2 DEF TaxInv, TaxTypeOK, Running
  <2> QED BY <1>2, <1>4, <2>2, <2>3, <2>4 DEF TaxInv, TaxTypeOK
<1>6. TaxLocks'
  BY <1>2 DEF TaxInv, TaxTypeOK, TaxLocks, NoTaxRequest, OwnsLiability, OwnsRemittance
<1>7. ASSUME NEW g \in TaxRequests PROVE RequestKnows(g)'
  <2>1. CASE g = h
    BY <1>2, <2>1 DEF TaxInv, TaxTypeOK, RequestKnows, NoTaxRequest, OwnsRemittance
  <2>2. CASE g # h
    <3>1. /\ taxRequest'[g] = taxRequest[g] /\ taxRequest[g].pc \notin OwnsLiability
          /\ taxRequest[g].pc \in OwnsRemittance => taxRequest[g].remittance # i
      BY <1>1, <1>2, <2>2 DEF TaxInv, TaxTypeOK, TaxLocks, OwnsLiability, OwnsRemittance, i
    <3> QED BY <1>2, <3>1 DEF TaxInv, TaxTypeOK, RequestKnows, OwnsLiability
  <2> QED BY <2>1, <2>2
<1>8. PaidIsRemitted'
  <2>1. PaidRemittances' = PaidRemittances \union {i} /\ i \notin PaidRemittances
    BY <1>1, <1>2 DEF PaidRemittances, TaxInv, TaxTypeOK
  <2>2. Amounts' = Amounts /\ Amounts[i] = taxRequest[h].amount
    BY <1>1, <1>2 DEF Amounts, TaxInv, TaxTypeOK
  <2>3. /\ PaidRemittances' \in SUBSET Remittances /\ IsFiniteSet(PaidRemittances')
        /\ Amounts \in [Remittances -> Int]
    BY <1>1, <2>1, AmountsTyped, FS_AddElement DEF TaxInv
  <2>4. SumFunctionOnSet(Amounts, PaidRemittances') =
          Amounts[i] + SumFunctionOnSet(Amounts, PaidRemittances' \ {i})
    BY <2>1, <2>3, SumRemoves
  <2>5. PaidRemittances' \ {i} = PaidRemittances
    BY <2>1
  <2>6. SumFunctionOnSet(Amounts, PaidRemittances) = liability.paid
    BY DEF TaxInv, PaidIsRemitted, Amounts
  <2>7. nextPaid = taxRequest[h].amount + liability.paid
    BY <1>1, <1>3
  <2> HIDE DEF nextPaid
  <2>8. SumFunctionOnSet(Amounts', PaidRemittances') = liability'.paid
    BY <1>4, <2>2, <2>4, <2>5, <2>6, <2>7
  <2> QED BY <2>8 DEF PaidIsRemitted, Amounts
<1>9. NewIsEmpty' /\ BooksCover'
  BY <1>2, <1>3, <1>4, AtLeastZeroIsNat DEF TaxInv, NewIsEmpty, BooksCover
<1>10. ASSUME NEW r \in Refreshers PROVE RefresherKnows(r)'
  <2>1. refresher[r].paid \in Nat
    BY DEF TaxInv, TaxTypeOK
  <2> HIDE DEF nextPaid
  <2> QED BY <1>2, <1>3, <1>4, <2>1 DEF TaxInv, RefresherKnows, Running
<1> QED BY <1>5, <1>6, <1>7, <1>8, <1>9, <1>10 DEF TaxInv

-----------------------------------------------------------------------------
(* The refresh.                                                             *)

\* Refreshes never touch what was paid, nor the requests.
LEMMA OnlyRefresher ==
    ASSUME TaxInv, NEW r \in Refreshers, NEW row, TaxTypeOK',
           refresher' = [refresher EXCEPT ![r] = row],
           liability'.paid = liability.paid,
           liability.status # "none" => liability'.status # "none",
           disturbed \ {r} \subseteq disturbed',
           \A x \in Refreshers \ {r} : summed'[x] = summed[x],
           UNCHANGED <<tax, remittance, transfers, taxRequest>>,
           NewIsEmpty', BooksCover', RefresherKnows(r)'
    PROVE  TaxInv'
<1>1. TaxLocks' /\ \A h \in TaxRequests : RequestKnows(h)'
  BY DEF TaxInv, TaxLocks, RequestKnows
<1>2. PaidIsRemitted'
  BY DEF TaxInv, PaidIsRemitted, PaidRemittances
<1>3. ASSUME NEW x \in Refreshers PROVE RefresherKnows(x)'
  <2>1. SumOfTaxes' = SumOfTaxes
    BY DEF SumOfTaxes, SumOf, Recognised
  <2>2. CASE x # r
    <3>1. refresher'[x] = refresher[x] /\ summed'[x] = summed[x]
      BY <2>2 DEF TaxInv, TaxTypeOK
    <3> QED BY <2>1, <2>2, <3>1 DEF TaxInv, RefresherKnows
  <2> QED BY <2>2
<1> QED BY <1>1, <1>2, <1>3 DEF TaxInv

LEMMA SumRecognisedInv ==
    ASSUME TaxInv, NEW r \in Refreshers, SumRecognised(r)
    PROVE  TaxInv'
<1>1. SumOfTaxes \in Nat
  BY SumOfTaxesIsNat DEF TaxInv
<1>2. /\ TaxTypeOK' /\ refresher'[r] = [pc |-> "summed", accrued |-> SumOfTaxes, paid |-> 0]
      /\ summed'[r] = Recognised /\ \A x \in Refreshers \ {r} : summed'[x] = summed[x]
  <2>1. Recognised \subseteq Taxes
    BY DEF Recognised
  <2> QED BY <1>1, <2>1 DEF SumRecognised, TaxInv, TaxTypeOK
<1>3. RefresherKnows(r)'
  <2>1. SumOfTaxes' = SumOfTaxes
    BY DEF SumRecognised, SumOfTaxes, SumOf, Recognised
  <2> QED BY <1>2, <2>1 DEF RefresherKnows, SumOfTaxes
<1>4. NewIsEmpty' /\ BooksCover'
  BY DEF SumRecognised, TaxInv, NewIsEmpty, BooksCover
<1> QED BY <1>2, <1>3, <1>4, OnlyRefresher DEF SumRecognised

LEMMA FindOrCreateInv ==
    ASSUME TaxInv, NEW r \in Refreshers, FindOrCreate(r)
    PROVE  TaxInv'
<1> DEFINE row == [refresher[r] EXCEPT !.pc = "read", !.paid = liability.paid]
<1>1. /\ refresher[r].accrued \in Nat /\ liability.paid \in Nat
      /\ row \in [pc : {"idle", "summed", "read"}, accrued : Nat, paid : Nat]
      /\ row.pc = "read" /\ row.accrued = refresher[r].accrued /\ row.paid = liability.paid
  BY DEF TaxInv, TaxTypeOK
<1>2. refresher' = [refresher EXCEPT ![r] = row] /\ refresher'[r] = row
  BY DEF FindOrCreate, TaxInv, TaxTypeOK
<1> HIDE DEF row
<1>3. TaxTypeOK' /\ liability'.paid = liability.paid /\ liability'.status # "none"
  BY <1>1, <1>2 DEF FindOrCreate, TaxInv, TaxTypeOK, NewIsEmpty
<1>4. RefresherKnows(r)'
  <2>1. SumOfTaxes' = SumOfTaxes
    BY DEF FindOrCreate, SumOfTaxes, SumOf, Recognised
  <2> QED BY <1>1, <1>2, <1>3, <2>1 DEF FindOrCreate, RefresherKnows, TaxInv
<1>5. NewIsEmpty' /\ BooksCover'
  <2>1. refresher[r].pc = "summed" /\ refresher[r].accrued = SumOf(summed[r])
    BY DEF FindOrCreate, TaxInv, RefresherKnows
  <2>2. CASE liability.status # "none"
    BY <1>3, <2>2 DEF FindOrCreate, TaxInv, NewIsEmpty, BooksCover
  <2>3. CASE liability.status = "none"
    BY <1>1, <1>3, <2>1, <2>3 DEF FindOrCreate, NewIsEmpty, BooksCover, AtLeastZero
  <2> QED BY <2>2, <2>3
<1> QED BY <1>2, <1>3, <1>4, <1>5, OnlyRefresher DEF FindOrCreate

\* What the refresh takes off is never more than what was paid by now.
LEMMA WriteBalanceInv ==
    ASSUME TaxInv, NEW r \in Refreshers, WriteBalance(r)
    PROVE  TaxInv'
<1> DEFINE closing == AtLeastZero(refresher[r].accrued - refresher[r].paid)
<1>1. /\ refresher[r].accrued \in Nat /\ refresher[r].paid \in Nat /\ liability.paid \in Nat
      /\ refresher[r].paid <= liability.paid
  BY DEF WriteBalance, TaxInv, TaxTypeOK, RefresherKnows
<1>2. closing \in Nat /\ closing >= AtLeastZero(refresher[r].accrued - liability.paid)
  BY <1>1 DEF AtLeastZero
<1>3. /\ liability' = [liability EXCEPT !.accrued = refresher[r].accrued, !.closing = closing]
      /\ refresher' = [refresher EXCEPT ![r] = NoRefresh]
      /\ counted' = summed[r] /\ summed' = [summed EXCEPT ![r] = {}]
      /\ refresher[r].accrued = SumOf(summed[r])
  BY DEF WriteBalance, TaxInv, RefresherKnows
<1> HIDE DEF closing
<1>4. /\ liability'.paid = liability.paid /\ liability'.status = liability.status
      /\ liability'.accrued = refresher[r].accrued /\ liability'.closing = closing
      /\ TaxTypeOK'
  <2>1. /\ liability \in [status : {"none", "open", "paid"}, accrued : Nat, paid : Nat, closing : Nat]
        /\ UNCHANGED <<tax, remittance, transfers, taxRequest>>
        /\ disturbed' = disturbed \union (Running \ {r})
    BY DEF WriteBalance, TaxInv, TaxTypeOK
  <2>2. /\ liability'.paid = liability.paid /\ liability'.status = liability.status
        /\ liability'.accrued = refresher[r].accrued /\ liability'.closing = closing
        /\ liability' \in [status : {"none", "open", "paid"}, accrued : Nat, paid : Nat, closing : Nat]
    BY <1>1, <1>2, <1>3, <2>1
  <2>3. NoRefresh \in [pc : {"idle", "summed", "read"}, accrued : Nat, paid : Nat]
    BY DEF NoRefresh
  <2>4. refresher' \in [Refreshers -> [pc : {"idle", "summed", "read"}, accrued : Nat, paid : Nat]]
    BY <1>3, <2>3 DEF TaxInv, TaxTypeOK
  <2>5. disturbed' \subseteq Refreshers
    BY <2>1 DEF TaxInv, TaxTypeOK, Running
  <2>6. summed' \in [Refreshers -> SUBSET Taxes] /\ counted' \subseteq Taxes
    BY <1>3 DEF TaxInv, TaxTypeOK
  <2> QED BY <2>1, <2>2, <2>4, <2>5, <2>6 DEF TaxInv, TaxTypeOK
<1>5. RefresherKnows(r)'
  BY <1>3 DEF RefresherKnows, NoRefresh, TaxInv, TaxTypeOK
<1>6. NewIsEmpty' /\ BooksCover'
  BY <1>2, <1>3, <1>4 DEF TaxInv, NewIsEmpty, BooksCover
<1>7. \A x \in Refreshers \ {r} : summed'[x] = summed[x]
  BY <1>3 DEF TaxInv, TaxTypeOK
<1> QED BY <1>3, <1>4, <1>5, <1>6, <1>7, OnlyRefresher DEF WriteBalance

-----------------------------------------------------------------------------
LEMMA TaxNextInv == TaxInv /\ [TaxNext]_taxVars => TaxInv'
<1> SUFFICES ASSUME TaxInv, [TaxNext]_taxVars PROVE TaxInv'
  OBVIOUS
<1>1. ASSUME NEW t \in Taxes, Recognise(t) \/ Reverse(t) PROVE TaxInv'
  BY <1>1, TaxMoves
<1>2. ASSUME NEW h \in TaxRequests, NEW i \in Remittances, CheckLiability(h, i) PROVE TaxInv'
  BY <1>2, CheckLiabilityInv
<1>3. ASSUME NEW h \in TaxRequests, NEW i \in Remittances, FindRemittance(h, i) PROVE TaxInv'
  BY <1>3, FindRemittanceInv
<1>4. ASSUME NEW h \in TaxRequests, InsertTransfer(h) PROVE TaxInv'
  BY <1>4, InsertTransferInv
<1>5. ASSUME NEW h \in TaxRequests, CommitRemittance(h) PROVE TaxInv'
  BY <1>5, CommitRemittanceInv
<1>6. ASSUME NEW h \in TaxRequests, LockLiability(h) PROVE TaxInv'
  BY <1>6, LockLiabilityInv
<1>7. ASSUME NEW h \in TaxRequests, CommitPayment(h) PROVE TaxInv'
  BY <1>7, CommitPaymentInv
<1>8. ASSUME NEW h \in TaxRequests, TaxRollBack(h) PROVE TaxInv'
  BY <1>8, TaxRollBackInv
<1>9. ASSUME NEW r \in Refreshers, SumRecognised(r) PROVE TaxInv'
  BY <1>9, SumRecognisedInv
<1>10. ASSUME NEW r \in Refreshers, FindOrCreate(r) PROVE TaxInv'
  BY <1>10, FindOrCreateInv
<1>11. ASSUME NEW r \in Refreshers, WriteBalance(r) PROVE TaxInv'
  BY <1>11, WriteBalanceInv
<1>12. CASE UNCHANGED taxVars
  BY <1>12 DEF taxVars, TaxInv, TaxTypeOK, TaxLocks, NewIsEmpty, PaidIsRemitted, PaidRemittances,
     BooksCover, RequestKnows, RefresherKnows, SumOfTaxes, SumOf, Recognised
<1> QED
  BY <1>1, <1>2, <1>3, <1>4, <1>5, <1>6, <1>7, <1>8, <1>9, <1>10, <1>11, <1>12 DEF TaxNext

LEMMA TaxInvariance == TaxSpec => []TaxInv
BY TaxInitInv, TaxNextInv, PTL DEF TaxSpec

-----------------------------------------------------------------------------
(* The theorems.                                                            *)

\* Taxes, the liability, remittances and what runs on them stay within their types;
\* no balance is negative.
THEOREM TaxTyped == TaxSpec => []TaxTypeOK
<1>1. TaxInv => TaxTypeOK
  BY DEF TaxInv
<1> QED BY <1>1, TaxInvariance, PTL

\* However many remittances of a liability are created, paid and rolled back at
\* once, the liability was paid the sum of those that are marked as paid.
THEOREM PaymentsAreRemitted == TaxSpec => []PaidIsRemitted
<1>1. TaxInv => PaidIsRemitted
  BY DEF TaxInv
<1> QED BY <1>1, TaxInvariance, PTL

\* Refreshes may be as old as they like: the balance they leave covers, less what is
\* paid, all that is still recognised of the taxes which the refresh that wrote last
\* had added up.
THEOREM DebtStaysShown == TaxSpec => []DebtNotHidden
<1>1. TaxInv => DebtNotHidden
  <2> SUFFICES ASSUME TaxInv PROVE DebtNotHidden
    OBVIOUS
  <2> DEFINE still == Recognised \intersect counted
  <2>1. counted \in SUBSET Taxes /\ IsFiniteSet(counted) /\ still \in SUBSET counted
    BY TaxConstants, FS_Subset DEF TaxInv, TaxTypeOK
  <2>2. SumOf(still) <= SumOf(counted)
    BY <2>1, TaxConstants, SumMonotone DEF SumOf
  <2>3. SumOf(still) \in Nat /\ SumOf(counted) \in Nat
    <3>1. still \in SUBSET Taxes /\ IsFiniteSet(still)
      BY <2>1, FS_Subset
    <3> QED BY <2>1, <3>1, TaxConstants, SumIsNat DEF SumOf
  <2>4. /\ liability.paid \in Nat /\ liability.closing \in Nat
        /\ liability.closing >= AtLeastZero(SumOf(counted) - liability.paid)
    BY DEF TaxInv, TaxTypeOK, BooksCover
  <2> QED BY <2>2, <2>3, <2>4 DEF DebtNotHidden, AtLeastZero
<1> QED BY <1>1, TaxInvariance, PTL

\* A refresh that no tax, payment or other refresh ran across writes what the
\* books say.
THEOREM QuietRefreshesAreRight == TaxSpec => QuietRefreshIsRight
<1>1. ASSUME TaxInv, [TaxNext]_taxVars, NEW r \in Refreshers,
             refresher[r].pc = "read", refresher'[r].pc = "idle", r \notin disturbed
      PROVE  /\ liability'.accrued = SumOfTaxes
             /\ liability'.closing = AtLeastZero(SumOfTaxes - liability.paid)
  <2>1. WriteBalance(r)
    BY <1>1 DEF TaxNext, taxVars, TaxInv, TaxTypeOK, Recognise, Reverse, CheckLiability,
       FindRemittance, InsertTransfer, CommitRemittance, LockLiability, CommitPayment,
       TaxRollBack, SumRecognised, FindOrCreate, WriteBalance
  <2>2. refresher[r].accrued = SumOfTaxes /\ refresher[r].paid = liability.paid
    BY <1>1 DEF TaxInv, RefresherKnows
  <2> QED BY <2>1, <2>2 DEF WriteBalance, TaxInv, TaxTypeOK
<1>2. TaxInv /\ [TaxNext]_taxVars =>
        [\A r \in Refreshers :
           refresher[r].pc = "read" /\ refresher'[r].pc = "idle" /\ r \notin disturbed =>
             /\ liability'.accrued = SumOfTaxes
             /\ liability'.closing = AtLeastZero(SumOfTaxes - liability.paid)]_taxVars
  BY <1>1
<1> QED BY <1>2, TaxInvariance, PTL DEF TaxSpec, QuietRefreshIsRight
=============================================================================
