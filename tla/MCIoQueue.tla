----------------------------- MODULE MCIoQueue -----------------------------
\* Three threads, so that two calls can be blocked in one list while the third
\* serves them in parts; one of them can be canceled.
EXTENDS IoQueue
CONSTANTS t1, t2, t3
=============================================================================
