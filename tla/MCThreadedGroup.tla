--------------------------- MODULE MCThreadedGroup ---------------------------
\* The main thread owns ga with the members fa and fb; fa owns gb, whose member is
\* fc.  Groups may be used twice, and the two workers run several tasks each.
EXTENDS ThreadedGroup, TLC
CONSTANTS fa, fb, fc, ga, gb, main
Groupings == fa :> ga @@ fb :> ga @@ fc :> gb
Owners == ga :> main @@ gb :> fa
=============================================================================
