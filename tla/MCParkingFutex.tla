---------------------------- MODULE MCParkingFutex ----------------------------
\* Two waiting threads with two calls between them, two threads that each wake
\* or cancel once, and two words in the bucket.  Every property is one of steps,
\* so that the threads' symmetry may be used.
EXTENDS ParkingFutex
Symmetry == Permutations(Waiters) \cup Permutations(Wakers) \cup Permutations(Addresses)
=============================================================================
