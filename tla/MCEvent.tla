------------------------------- MODULE MCEvent ------------------------------
\* Two waiters and a setter, in any assignment of the roles, over any number of
\* rounds of set and reset.
EXTENDS Event
CONSTANTS t1, t2, t3
=============================================================================
