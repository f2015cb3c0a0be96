---------------------------- MODULE FinanceEvents ----------------------------
(***************************************************************************)
(* What both halves of the finance pipeline are about: the business facts  *)
(* that are to be accounted for, each known by its idempotency key.        *)
(***************************************************************************)
EXTENDS Integers, FiniteSets

CONSTANTS Events, \* one per idempotency key
          Nil     \* no event, lease or item

\* The events that can stand in the way of others without filling a job's batch.
FewerThan(batch) == {S \in SUBSET Events : Cardinality(S) < batch}
=============================================================================
