-------------------------------- MODULE MCOs --------------------------------
(***************************************************************************)
(* Values of the kernel's constants for TLC.                               *)
(***************************************************************************)
EXTENDS Os, TLC

CONSTANTS high, mid, low

\* Three threads with gaps between their priorities and below the highest.
ThreePrios == high :> 4 @@ mid :> 3 @@ low :> 1

\* Two threads, as in App.c.
TwoPrios == high :> 3 @@ mid :> 2

\* Two threads started with one priority.
SamePrio == high :> 2 @@ mid :> 2
=============================================================================
