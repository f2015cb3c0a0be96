------------------------- MODULE MCFinanceDelivery --------------------------
EXTENDS FinanceDelivery, TLC

Symmetry == Permutations(Workers) \union Permutations(LeaseIds)

\* Values that no later step reads do not tell two states apart: the rows of
\* leases nobody holds any more, and what a worker or an operator remembers
\* when only the release of its lease or the mark of its row is left to do.
View ==
    <<outbox, deadLetters, received, recovery,
      [l \in LeaseIds |-> IF lease[l].status = "active" \/ Held(l)
                          THEN lease[l] ELSE Nil],
      [w \in Workers |-> IF worker[w].pc = "recorded"
                         THEN Call("recorded", worker[w].event, worker[w].lease)
                         ELSE worker[w]],
      IF operator.pc = "mark" THEN [operator EXCEPT !.seen = "none"] ELSE operator>>
=============================================================================
