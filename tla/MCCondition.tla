---------------------------- MODULE MCCondition ----------------------------
\* Two waiters and a signaler, in any assignment of the roles.
EXTENDS Condition
CONSTANTS t1, t2, t3
=============================================================================
