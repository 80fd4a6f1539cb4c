---------------------------- MODULE TimersProofs ----------------------------
(***************************************************************************)
(* A timer never expires early, and no poll misses that it has expired,    *)
(* for words of any width, any durations and any time.                     *)
(***************************************************************************)
EXTENDS Timers, TLAPS

TimersTypeOK ==
  /\ high \in Nat
  /\ low \in 0 .. WordMax
  /\ reading \in {"whole", "lowFirst", "highFirst"}
  /\ half \subseteq Nat
  /\ pc \in {"body", "TimerStart", "armed", "TimerTimeout", "expired"}
  /\ millisec \in Nat
  /\ MyTimer \in Int
  /\ called \in Int
  /\ returned \in Int
  /\ polled \in Int

\* A read cannot put words of two periods together, or has had no occasion to.
ReadsAreExact == reading = "whole" \/ high = 0

\* The word loaded first is not ahead of the counter nor behind the call it is
\* loaded in; the deadline is the duration after a moment between the call of
\* TimerStart and its return.
DeadlineInv ==
  /\ called <= millisec_counter
  /\ polled <= millisec_counter
  /\ pc \notin {"TimerStart", "TimerTimeout"} => half = {}
  /\ reading = "lowFirst" /\ high = 0 =>
       \A w \in half :
         /\ w <= low
         /\ pc = "TimerStart" => called <= w
         /\ pc = "TimerTimeout" => polled <= w
  /\ reading = "highFirst" /\ high = 0 =>
       \A w \in half : w = 0
  /\ ReadsAreExact =>
       /\ pc \in {"armed", "TimerTimeout", "expired"} => MyTimer >= called + millisec
       /\ pc \in {"armed", "TimerTimeout"} => MyTimer <= returned + millisec
       /\ pc = "expired" => millisec_counter > called + millisec

TimersInv == TimersTypeOK /\ DeadlineInv

\* The counter of the first high word is its low word.
LEMMA FirstHighWord ==
  ASSUME NEW l \in Int
  PROVE  Value(0, l) = l
BY TimersAssumption DEF Value

LEMMA ValueIsInt ==
  ASSUME NEW h \in Int, NEW l \in Int
  PROVE  Value(h, l) \in Int
BY TimersAssumption DEF Value

\* The carry into the high word is worth one more than a full low word.
LEMMA Carry ==
  ASSUME NEW h \in Int
  PROVE  Value(h + 1, 0) = Value(h, WordMax) + 1
BY TimersAssumption,
   (h + 1) * (WordMax + 1) = h * (WordMax + 1) + (WordMax + 1) DEF Value

LEMMA TickCounts ==
  ASSUME TimersTypeOK, Tick
  PROVE  millisec_counter' = millisec_counter + 1
<1>1. CASE low = WordMax
  BY <1>1, Carry DEF Tick, millisec_counter, TimersTypeOK
<1>2. CASE low # WordMax
  BY <1>2, TimersAssumption DEF Tick, millisec_counter, TimersTypeOK, Value
<1> QED
  BY <1>1, <1>2

\* An exact read returns a value the counter had since the call of the function
\* that reads it.
LEMMA ReadReturns ==
  ASSUME TimersInv, ReadsAreExact, NEW now \in Gpt_GetTimeElapsed
  PROVE  /\ now \in Int
         /\ now <= millisec_counter
         /\ pc = "TimerStart" => called <= now
         /\ pc = "TimerTimeout" => polled <= now
<1> USE DEF TimersInv, TimersTypeOK, DeadlineInv, ReadsAreExact, Gpt_GetTimeElapsed
<1>1. CASE reading = "whole"
  BY <1>1, ValueIsInt DEF millisec_counter
<1>2. CASE reading = "lowFirst"
  <2>1. PICK w \in half : now = Value(0, w)
    BY <1>2
  <2> QED
    BY <1>2, <2>1, FirstHighWord DEF millisec_counter
<1>3. CASE reading = "highFirst"
  <2>1. PICK w \in half : now = Value(0, low)
    BY <1>3
  <2> QED
    BY <1>3, <2>1, FirstHighWord DEF millisec_counter
<1> QED
  BY <1>1, <1>2, <1>3

LEMMA TimersStep == TimersInv /\ [Next]_vars => TimersInv'
<1> SUFFICES ASSUME TimersInv, [Next]_vars
             PROVE  TimersInv'
  OBVIOUS
<1> USE TimersAssumption
<1>0. millisec_counter \in Int /\ (high = 0 => millisec_counter = low)
  BY ValueIsInt, FirstHighWord DEF millisec_counter, TimersInv, TimersTypeOK
<1>1. CASE Tick
  <2>1. millisec_counter' = millisec_counter + 1
    BY <1>1, TickCounts DEF TimersInv
  <2>2. TimersTypeOK'
    BY <1>1 DEF Tick, TimersInv, TimersTypeOK
  <2>3. high' = 0 => high = 0 /\ low' = low + 1
    BY <1>1 DEF Tick, TimersInv, TimersTypeOK
  <2>4. ReadsAreExact' => ReadsAreExact
    BY <1>1, <2>3 DEF Tick, ReadsAreExact
  <2>5. DeadlineInv'
    BY <1>0, <1>1, <2>1, <2>3, <2>4 DEF Tick, TimersInv, TimersTypeOK, DeadlineInv
  <2> QED
    BY <2>2, <2>5 DEF TimersInv
<1>2. CASE LoadHalf
  <2>1. UNCHANGED millisec_counter
    BY <1>2 DEF LoadHalf, millisec_counter, Value
  <2> QED
    BY <1>0, <1>2, <2>1 DEF LoadHalf, TimersInv, TimersTypeOK, DeadlineInv,
       ReadsAreExact
<1>3. CASE CallTimerStart
  <2>1. UNCHANGED millisec_counter
    BY <1>3 DEF CallTimerStart, millisec_counter, Value
  <2>2. millisec' \in Nat
    BY <1>3 DEF CallTimerStart
  <2> QED
    BY <1>0, <1>3, <2>1, <2>2 DEF CallTimerStart, TimersInv, TimersTypeOK, DeadlineInv,
       ReadsAreExact
<1>4. CASE TimerStart
  <2>1. UNCHANGED millisec_counter
    BY <1>4 DEF TimerStart, millisec_counter, Value
  <2>2. PICK now \in Gpt_GetTimeElapsed : MyTimer' = now + millisec
    BY <1>4 DEF TimerStart
  <2>3. now \in Int
    BY <2>2, ValueIsInt DEF Gpt_GetTimeElapsed, millisec_counter, TimersInv,
       TimersTypeOK
  <2>4. ReadsAreExact => called <= now /\ now <= millisec_counter
    BY <1>4, ReadReturns DEF TimerStart
  <2>5. TimersTypeOK'
    BY <1>0, <1>4, <2>2, <2>3 DEF TimerStart, TimersInv, TimersTypeOK
  <2>6. DeadlineInv'
    BY <1>0, <1>4, <2>1, <2>2, <2>3, <2>4 DEF TimerStart, TimersInv, TimersTypeOK,
       DeadlineInv, ReadsAreExact
  <2> QED
    BY <2>5, <2>6 DEF TimersInv
<1>5. CASE TimerTimeout
  <2>1. UNCHANGED millisec_counter
    BY <1>5 DEF TimerTimeout, millisec_counter, Value
  <2>2. PICK now \in Gpt_GetTimeElapsed : pc' = IF now > MyTimer THEN "expired" ELSE "armed"
    BY <1>5 DEF TimerTimeout, Later
  <2>3. ReadsAreExact => now \in Int /\ now <= millisec_counter
    BY ReadReturns
  <2>4. pc' \in {"expired", "armed"}
    BY <2>2
  <2>5. TimersTypeOK'
    BY <1>5, <2>4 DEF TimerTimeout, TimersInv, TimersTypeOK
  <2>6. /\ pc = "TimerTimeout" /\ half' = {}
        /\ UNCHANGED <<high, reading, millisec, MyTimer, called, returned, polled>>
    BY <1>5 DEF TimerTimeout
  <2>7. ReadsAreExact /\ pc' = "expired" => millisec_counter > called + millisec
    <3> SUFFICES ASSUME ReadsAreExact, pc' = "expired"
                 PROVE  millisec_counter > called + millisec
      OBVIOUS
    <3>1. now > MyTimer
      BY <2>2
    <3>2. MyTimer >= called + millisec
      BY <2>6 DEF TimersInv, DeadlineInv
    <3> QED
      BY <1>0, <2>3, <3>1, <3>2 DEF TimersInv, TimersTypeOK
  <2>8. DeadlineInv'
    BY <2>1, <2>4, <2>6, <2>7 DEF TimersInv, DeadlineInv, ReadsAreExact
  <2> QED
    BY <2>5, <2>8 DEF TimersInv
<1>6. CASE CallTimerTimeout
  <2>1. UNCHANGED millisec_counter
    BY <1>6 DEF CallTimerTimeout, millisec_counter, Value
  <2>2. half = {}
    BY <1>6 DEF CallTimerTimeout, TimersInv, DeadlineInv
  <2> QED
    BY <1>0, <1>6, <2>1, <2>2 DEF CallTimerTimeout, TimersInv, TimersTypeOK,
       DeadlineInv,
       ReadsAreExact
<1>7. CASE Return
  <2>1. UNCHANGED millisec_counter
    BY <1>7 DEF Return, millisec_counter, Value
  <2> QED
    BY <1>7, <2>1 DEF Return, TimersInv, TimersTypeOK, DeadlineInv, ReadsAreExact
<1>8. CASE UNCHANGED vars
  BY <1>8 DEF vars, millisec_counter, TimersInv, TimersTypeOK, DeadlineInv,
     ReadsAreExact
<1> QED
  BY <1>1, <1>2, <1>3, <1>4, <1>5, <1>6, <1>7, <1>8 DEF Next, Caller

LEMMA TimersInit == Init => TimersInv
<1> SUFFICES ASSUME Init
             PROVE  TimersInv
  OBVIOUS
<1>1. millisec_counter = 0
  BY FirstHighWord DEF Init, millisec_counter
<1> QED
  BY <1>1, TimersAssumption DEF Init, TimersInv, TimersTypeOK, DeadlineInv

\* A timer of n milliseconds lasts at least n whole periods, whatever the width
\* of the counter's words, in every build that reads them with one instruction
\* and in every other one while the high word is zero (Gpt.h:23-40).
THEOREM TimersLastLongEnough == Spec => []LastsLongEnough
<1>1. TimersInv => LastsLongEnough
  BY DEF TimersInv, DeadlineInv, ReadsAreExact, LastsLongEnough
<1> QED
  BY <1>1, TimersInit, TimersStep, PTL DEF Spec

\* In the same builds and for the same time, a poll that is begun more than n
\* periods after TimerStart has returned finds the timer expired, although the
\* tick may come between any two loads of either call (Gpt.h:23-40).
THEOREM PollsSeeDeadline == Spec => PollSeesDeadline
<1>1. ASSUME TimersInv, [Next]_vars, pc = "TimerTimeout", pc' = "armed", ReadsAreExact
      PROVE  polled <= returned + millisec
  <2>1. TimerTimeout
    BY <1>1 DEF Next, Caller, Tick, CallTimerStart, LoadHalf, TimerStart,
       CallTimerTimeout,
       Return, vars
  <2>2. PICK now \in Gpt_GetTimeElapsed : pc' = IF now > MyTimer THEN "expired" ELSE "armed"
    BY <2>1 DEF TimerTimeout, Later
  <2>3. now \in Int /\ polled <= now
    BY <1>1, ReadReturns
  <2>4. ~ (now > MyTimer)
    BY <1>1, <2>2
  <2> QED
    BY <1>1, <2>3, <2>4 DEF TimersInv, TimersTypeOK, DeadlineInv
<1>2. TimersInv /\ [Next]_vars =>
        [pc = "TimerTimeout" /\ pc' = "armed" /\ (reading = "whole" \/ high = 0)
           => polled <= returned + millisec]_vars
  BY <1>1 DEF ReadsAreExact
<1> QED
  BY <1>2, TimersInit, TimersStep, PTL DEF Spec, PollSeesDeadline
=============================================================================
