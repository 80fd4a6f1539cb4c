------------------------------ MODULE Switches ------------------------------
(***************************************************************************)
(* What the kernel and the context switch agree on.  A switch is requested *)
(* only to a thread that has been created, and to another than the current *)
(* one; it is made to the thread that was requested last; and no thread is *)
(* created once one runs.  Module Context takes for granted of the kernel  *)
(* what Create and Request say here.                                       *)
(***************************************************************************)
CONSTANTS
  Threads,
  NULL

VARIABLES
  created,   \* the threads there is a stack to switch to for
  cur,       \* the current thread, NULL for main()
  next,      \* the thread the next switch is to
  pending    \* there is a switch to make

vars == <<created, cur, next, pending>>

Init ==
  /\ created = {}
  /\ cur = NULL
  /\ next = NULL
  /\ pending = FALSE

Create(t) ==
  /\ cur = NULL
  /\ created' = created \cup {t}
  /\ UNCHANGED <<cur, next, pending>>

\* A later request takes the place of an earlier one.
Request(t) ==
  /\ t # cur
  /\ next' = t
  /\ pending' = TRUE
  /\ UNCHANGED <<created, cur>>

\* A request that came while the switch was begun may be left pending.
Switch ==
  /\ pending
  /\ cur' = next
  /\ pending' \in BOOLEAN
  /\ UNCHANGED <<created, next>>

Next ==
  \/ \E t \in Threads \ created : Create(t)
  \/ \E t \in created : Request(t)
  \/ Switch

Spec == Init /\ [][Next]_vars
=============================================================================
