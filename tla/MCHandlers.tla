----------------------------- MODULE MCHandlers -----------------------------
(***************************************************************************)
(* Values of the constants for TLC: as in MCOs.                            *)
(***************************************************************************)
EXTENDS Handlers, TLC

CONSTANTS high, mid, low

\* Three threads with gaps between their priorities and below the highest.
ThreePrios == high :> 4 @@ mid :> 3 @@ low :> 1
=============================================================================
