------------------------- MODULE MCPaymentAttempts --------------------------
EXTENDS PaymentAttempts, TLC

Symmetry ==
    Permutations(Keys) \union Permutations(Requests) \union Permutations(Resolvers)

\* What was last answered to a request, and what a handler that only has to
\* answer remembers of the transaction, is read by no later step.
View ==
    <<attempt, created, orderPaid, captured, failed, events, prompts, notices,
      provider, acked,
      [r \in Requests |-> <<request[r].pc,
                            IF request[r].pc = "idle" THEN None ELSE request[r].key>>],
      [v \in Resolvers |-> IF resolver[v].pc = "answering"
                           THEN [IdleResolver EXCEPT !.pc = "answering",
                                                     !.notice = resolver[v].notice]
                           ELSE resolver[v]]>>
=============================================================================
