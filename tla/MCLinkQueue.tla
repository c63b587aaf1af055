---------------------------- MODULE MCLinkQueue ----------------------------
\* Two builders race each other and the dispatcher; buffers of three fill up, and
\* are taken in batches of two that leave a task behind.  The two concurrent() calls succeed or fail
\* together, or only the second fails.
EXTENDS LinkQueue
CONSTANTS b1, b2

\* Functions that share the bytes, one that fills them, one that exceeds them.
SomeAnalyses == {<<1, 0, 2>>, <<2, 1, 1>>, <<1, 3, 0>>}
=============================================================================
