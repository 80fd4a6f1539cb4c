------------------------------- MODULE MCApp --------------------------------
(***************************************************************************)
(* Values of the constants for TLC: the priorities of App.c.               *)
(***************************************************************************)
EXTENDS App, TLC

AppPrios == Blinky_Thread :> 3 @@ TogglePC3_Thread :> 2
=============================================================================
