------------------------------ MODULE MCMutex ------------------------------
\* Three threads: an owner, a waiter, and a thread that barges in between an
\* unlock and the wakeup it causes.
EXTENDS Mutex

CONSTANTS t1, t2, t3
=============================================================================
