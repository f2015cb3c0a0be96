------------------------------- MODULE MCCutover -------------------------------
EXTENDS Cutover
=============================================================================
