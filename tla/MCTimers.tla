------------------------------ MODULE MCTimers ------------------------------
(***************************************************************************)
(* A counter of two-bit words, for TLC.                                    *)
(***************************************************************************)
EXTENDS Timers
=============================================================================
