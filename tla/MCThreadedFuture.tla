-------------------------- MODULE MCThreadedFuture --------------------------
\* The main thread runs fa, which runs fb; and fc, which may get the worker of
\* fa or fb when that is done.
EXTENDS ThreadedFuture, TLC
CONSTANTS fa, fb, fc, w1, w2, main
Tree == fa :> main @@ fb :> fa @@ fc :> main
=============================================================================
