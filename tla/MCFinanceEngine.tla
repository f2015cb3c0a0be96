-------------------------- MODULE MCFinanceEngine ---------------------------
\* The instance whose constants the FinanceEngine configurations give; liveness
\* is checked in it, so it declares no symmetry.
EXTENDS FinanceEngine
=============================================================================
