------------------------------- MODULE Kernel -------------------------------
(***************************************************************************)
(* What the kernel promises its threads, without bit sets, tables, masks   *)
(* or exceptions: a thread that delays itself sleeps until the counter has *)
(* advanced as often as it asked for; only the most important thread that  *)
(* is awake acts; and the processor only ever goes to that thread.         *)
(***************************************************************************)
EXTENDS Integers

CONSTANTS
  Threads,
  Idle,          \* runs when every thread sleeps
  Main,          \* creates the threads
  Importance,    \* of each thread, a different number
  Durations,     \* the delays threads ask for
  Awake,         \* no time
  LastTime       \* the time after which the clock starts from zero again

VARIABLES
  now,           \* the time, in ticks
  started,       \* the threads there are
  wake,          \* the time each thread sleeps until, or Awake
  cur            \* the thread that has the processor, at first Main

vars == <<now, started, wake, cur>>

\* The time some ticks after another.
Later(time, ticks) ==
  IF time + ticks <= LastTime THEN time + ticks ELSE time + ticks - (LastTime + 1)

Ready == {t \in started : wake[t] = Awake}

\* The thread that should have the processor.
IsFirst(t) ==
  IF Ready = {} THEN t = Idle
                ELSE t \in Ready /\ \A u \in Ready : Importance[u] <= Importance[t]

Init ==
  /\ now = 0
  /\ started = {}
  /\ wake = [t \in Threads |-> Awake]
  /\ cur = Main

Start(t) ==
  /\ cur = Main
  /\ started' = started \cup {t}
  /\ UNCHANGED <<now, wake, cur>>

Sleep(t, ticks) ==
  /\ cur = t
  /\ IsFirst(t)
  /\ wake' = [wake EXCEPT ![t] = Later(now, ticks)]
  /\ UNCHANGED <<now, started, cur>>

\* Time goes on, and those whose time has come wake up: no other thread does.
Tick ==
  /\ now' = Later(now, 1)
  /\ wake' = [t \in Threads |-> IF wake[t] = now' THEN Awake ELSE wake[t]]
  /\ UNCHANGED <<started, cur>>

Switch ==
  /\ IsFirst(cur')
  /\ UNCHANGED <<now, started, wake>>

Next ==
  \/ \E t \in Threads : Start(t)
  \/ \E t \in Threads, ticks \in Durations : Sleep(t, ticks)
  \/ Tick
  \/ Switch

Spec == Init /\ [][Next]_vars
=============================================================================
