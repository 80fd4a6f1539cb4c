------------------------------- MODULE Timers -------------------------------
(***************************************************************************)
(* The software timers of Gpt.h: a deadline taken from millisec_counter    *)
(* and compared with it again and again, by thread code that the tick      *)
(* interrupts anywhere.                                                    *)
(*                                                                         *)
(* The counter has two words and is neither volatile nor atomic, so a      *)
(* build reads it with one instruction (LDRD, which the core starts again  *)
(* if an exception interrupts it) or with one load for each word, in       *)
(* either order; one of the three is chosen at the start.                  *)
(***************************************************************************)
EXTENDS Integers

CONSTANTS
  WordMax,     \* the largest value of a word: 2^32 - 1 in the code
  Durations,   \* the millisec arguments of TimerStart
  Horizon      \* bound: the counter value at which the model's time stops

ASSUME TimersAssumption ==
  /\ WordMax \in Nat
  /\ Durations \subseteq 0 .. WordMax
  /\ Horizon \in Nat

VARIABLES
  high, low,   \* the words of millisec_counter
  reading,     \* how the build reads them
  half,        \* the word a read has loaded first, until it loads the other
  pc,          \* the function the caller is in
  millisec,    \* the argument of TimerStart
  MyTimer,     \* what TimerStart returned
  called,      \* for the properties: the counter when TimerStart was called,
  returned,    \*   when it returned,
  polled       \*   and when TimerTimeout was last called

vars == <<high, low, reading, half, pc, millisec, MyTimer, called, returned, polled>>

\* A counter value as the sum of its words.
Value(h, l) == h * (WordMax + 1) + l

millisec_counter == Value(high, low)

\* ++millisec_counter in SysTick_Handler, which nothing interrupts.
Tick ==
  /\ millisec_counter < Horizon
  /\ IF low = WordMax THEN low' = 0 /\ high' = high + 1
                      ELSE low' = low + 1 /\ high' = high
  /\ UNCHANGED <<reading, half, pc, millisec, MyTimer, called, returned, polled>>

\* The first load of a read in two.
LoadHalf ==
  /\ pc \in {"TimerStart", "TimerTimeout"}
  /\ reading # "whole"
  /\ half = {}
  /\ half' = {IF reading = "lowFirst" THEN low ELSE high}
  /\ UNCHANGED <<high, low, reading, pc, millisec, MyTimer, called, returned, polled>>

\* What the read returns if its last load, or its only one, is executed now;
\* no value if the first of two is still to be executed.
Gpt_GetTimeElapsed ==
  CASE reading = "whole"     -> {millisec_counter}
    [] reading = "lowFirst"  -> {Value(high, w) : w \in half}
    [] reading = "highFirst" -> {Value(w, low) : w \in half}

CallTimerStart ==
  /\ pc = "body"
  /\ pc' = "TimerStart"
  /\ millisec' \in Durations
  /\ called' = millisec_counter
  /\ UNCHANGED <<high, low, reading, half, MyTimer, returned, polled>>

\* TimerStart from its last load on: the addition touches nothing shared.
TimerStart ==
  /\ pc = "TimerStart"
  /\ \E now \in Gpt_GetTimeElapsed : MyTimer' = now + millisec
  /\ half' = {}
  /\ pc' = "armed"
  /\ returned' = millisec_counter
  /\ UNCHANGED <<high, low, reading, millisec, called, polled>>

CallTimerTimeout ==
  /\ pc = "armed"
  /\ pc' = "TimerTimeout"
  /\ polled' = millisec_counter
  /\ UNCHANGED <<high, low, reading, half, millisec, MyTimer, called, returned>>

\* Fault: a timer of n has expired n ticks after its start.
LaterOrEqual(now) == now >= MyTimer

\* Fault: the deadline itself is the only tick at which a timer expires.
AtDeadline(now) == now = MyTimer

Later(now) == now > MyTimer

\* TimerTimeout from its last load on.
TimerTimeout ==
  /\ pc = "TimerTimeout"
  /\ \E now \in Gpt_GetTimeElapsed : pc' = IF Later(now) THEN "expired" ELSE "armed"
  /\ half' = {}
  /\ UNCHANGED <<high, low, reading, millisec, MyTimer, called, returned, polled>>

\* The caller has seen its timer expire.
Return ==
  /\ pc = "expired"
  /\ pc' = "body"
  /\ UNCHANGED <<high, low, reading, half, millisec, MyTimer, called, returned, polled>>

Init ==
  /\ high = 0
  /\ low = 0
  /\ reading \in {"whole", "lowFirst", "highFirst"}
  /\ half = {}
  /\ pc = "body"
  /\ millisec = 0
  /\ MyTimer = 0
  /\ called = 0
  /\ returned = 0
  /\ polled = 0

Caller == CallTimerStart \/ LoadHalf \/ TimerStart \/ CallTimerTimeout \/ TimerTimeout \/ Return

Next == Tick \/ Caller

Spec == Init /\ [][Next]_vars

\* The tick goes on and the caller goes on polling: between two ticks there
\* are 180001 cycles for it.
FairSpec == Spec /\ WF_vars(Tick) /\ WF_vars(Caller)

(***************************************************************************)
(* Properties.                                                             *)
(***************************************************************************)

\* A timer of n milliseconds never expires before n whole periods have passed
\* since the call of TimerStart, which fell within one (Gpt.h:23-40).  In a
\* build that reads the words one by one this lasts for the 49 days until the
\* high word changes.
LastsLongEnough ==
  pc = "expired" /\ (reading = "whole" \/ high = 0)
    => millisec_counter > called + millisec

\* A poll that finds the timer running was begun no later than n periods after
\* the return of TimerStart: no stale word hides a deadline that has passed, in
\* the builds and for the time of LastsLongEnough (Gpt.h:23-40).
PollSeesDeadline ==
  [][pc = "TimerTimeout" /\ pc' = "armed" /\ (reading = "whole" \/ high = 0)
       => polled <= returned + millisec]_vars

\* A caller that polls sees its timer expire, in every build, and whatever words
\* of two periods its reads put together (Gpt.h:37-40).
Expires ==
  pc = "armed" /\ MyTimer < Horizon ~> pc = "expired"
=============================================================================
