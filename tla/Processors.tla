----------------------------- MODULE Processors -----------------------------
(***************************************************************************)
(* What the context switch promises: every thread has a processor of its   *)
(* own.  Only the current thread's processor changes, a switch changes     *)
(* none, and a thread that has just been created has the processor its     *)
(* creator gave it.  Nothing is promised of main(), which is never resumed. *)
(***************************************************************************)
CONSTANTS
  Threads,
  Main,      \* the context that creates the threads
  Fresh,     \* the processor each thread is created with
  Absent     \* the processor of a thread that has not been created

VARIABLES
  cur,       \* the context that executes
  file       \* the processor of each thread: its registers and its stack

vars == <<cur, file>>

Init ==
  /\ cur = Main
  /\ file = [t \in Threads |-> Absent]

\* main() gives a thread its processor.
Create(t) ==
  /\ cur = Main
  /\ file[t] = Absent
  /\ file' = [file EXCEPT ![t] = Fresh[t]]
  /\ UNCHANGED cur

\* The current context computes.
Execute ==
  /\ \A t \in Threads \ {cur} : file'[t] = file[t]
  /\ UNCHANGED cur

Switch ==
  /\ cur' \in {t \in Threads : file[t] # Absent}
  /\ UNCHANGED file

Next ==
  \/ \E t \in Threads : Create(t)
  \/ Execute
  \/ Switch

Spec == Init /\ [][Next]_vars
=============================================================================
