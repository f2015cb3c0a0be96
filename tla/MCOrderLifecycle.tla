-------------------------- MODULE MCOrderLifecycle --------------------------
EXTENDS OrderLifecycle, TLC

CONSTANTS o1, o2, r1, r2

\* r1 has the smaller vehicle; orders start with the class r1 carries.
SmallAndLarge == [r \in Riders |-> IF r = r1 THEN 1 ELSE 2]
Light == [o \in Orders |-> 1]
=============================================================================
