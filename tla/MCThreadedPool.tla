---------------------------- MODULE MCThreadedPool ----------------------------
\* Four tasks, submitted by the main thread or by each other in any way, and
\* three threads; the asynchronous limit moves between one and two.
EXTENDS ThreadedPool
AsyncLimits == {1, 2}
=============================================================================
