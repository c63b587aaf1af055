----------------------------- MODULE MCSemaphore ----------------------------
\* More threads than permits, one or two, so that somebody always waits; with two, a
\* wait signals on.
EXTENDS Semaphore
CONSTANTS t1, t2, t3
=============================================================================
