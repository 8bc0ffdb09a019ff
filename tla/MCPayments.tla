----------------------------- MODULE MCPayments -----------------------------
EXTENDS Payments
CONSTANTS o1, o2

\* A smaller and a larger plan, both above the floor.
MCLevel == [o \in Orders |-> IF o = o1 THEN 1 ELSE 2]
=============================================================================
