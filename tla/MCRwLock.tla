------------------------------ MODULE MCRwLock ------------------------------
\* Three threads in any mix of readers and writers.
EXTENDS RwLock
CONSTANTS t1, t2, t3
=============================================================================
