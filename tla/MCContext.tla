------------------------------ MODULE MCContext -----------------------------
(***************************************************************************)
(* Two threads and main() on adjacent stacks: those of the threads are the *)
(* smallest module Context allows, one begins and the other ends between   *)
(* multiples of eight bytes.  As in the linker script, main()'s top is no  *)
(* such multiple.                                                          *)
(***************************************************************************)
EXTENDS Context, TLC

CONSTANTS first, second

Sizes    == first :> 112 @@ second :> 112 @@ Main :> 116
Storages == first :> 4 @@ second :> 116 @@ Main :> 228
=============================================================================
