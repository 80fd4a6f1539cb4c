------------------------------- MODULE MCBoot -------------------------------
(***************************************************************************)
(* Values of the constants for TLC: three bytes of .data, two of .bss and  *)
(* one byte of RAM behind them.                                            *)
(***************************************************************************)
EXTENDS Boot

InitialData == [a \in 0 .. 2 |-> a % 2]
=============================================================================
