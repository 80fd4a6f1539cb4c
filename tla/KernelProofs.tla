---------------------------- MODULE KernelProofs ----------------------------
(***************************************************************************)
(* The kernel of module Os implements module Kernel: for any number of     *)
(* threads with distinct priorities, any delays but zero and any widths of *)
(* the counters.                                                           *)
(***************************************************************************)
EXTENDS OsProofs

\* A thread inside OS_msDelay sleeps as long as its call said, and no other
\* thread that is ready comes before it.
CallInv ==
  \A t \in Threads :
    /\ pc[t] \in {"unready", "delay"} => TimeOut[t] \in Delays
    /\ pc[t] = "delay" => \A p \in OS_ReadySet : p <= PrioArg[t]

\* OS_Sched's choice: the idle thread if no bit is set, else the thread that
\* was started with the highest of the priorities whose bits are set.
LEMMA ChoiceIsHighest ==
  ASSUME SchedInv, OS_Thread[0] = IdleThread
  PROVE  IF OS_ReadySet = {} THEN NextThread(OS_ReadySet) = IdleThread
           ELSE /\ NextThread(OS_ReadySet) \in Threads
                /\ PrioArg[NextThread(OS_ReadySet)] \in OS_ReadySet
                /\ \A p \in OS_ReadySet : p <= PrioArg[NextThread(OS_ReadySet)]
<1>1. PICK p \in 0 .. MaxPrio :
        /\ NextThread(OS_ReadySet) = OS_Thread[p]
        /\ OS_ReadySet = {} => p = 0
        /\ OS_ReadySet # {} => p \in OS_ReadySet /\ \A q \in OS_ReadySet : q <= p
  BY NextThreadEntry DEF SchedInv, KernelInv, TypeOK
<1>2. CASE OS_ReadySet = {}
  BY <1>1, <1>2
<1>3. CASE OS_ReadySet # {}
  <2>1. p \in 1 .. MaxPrio /\ OS_Thread[p] \in TCBs
    BY <1>1, <1>3, BoundsAreNaturals DEF SchedInv, KernelInv, TypeOK, BitsInv
  <2>2. PrioOf(OS_Thread[p]) = p
    BY <1>1, <2>1, ContextsDiffer DEF SchedInv, KernelInv, TableInv, TCBs
  <2>3. OS_Thread[p] \in Threads /\ PrioArg[OS_Thread[p]] = p
    BY <2>1, <2>2 DEF PrioOf, TCBs
  <2> QED
    BY <1>1, <1>3, <2>3
<1> QED
  BY <1>2, <1>3

\* The threads that are awake are the started ones that are not delayed.
LEMMA ReadyIsNotDelayed ==
  ASSUME TypeOK
  PROVE  Promise!Ready = {t \in Started : PrioArg[t] \notin OS_DelayedSet}
<1>1. ASSUME NEW t \in Threads
      PROVE  After(millisec_counter, TimeOut[t]) \in 0 .. MsMax
  <2>1. TimeOut[t] \in 0 .. TickMax /\ millisec_counter \in 0 .. MsMax
    BY DEF TypeOK, TCBs
  <2> QED
    BY <2>1, BoundsAreNaturals DEF After
<1> QED
  BY <1>1, BoundsAreNaturals DEF Promise!Ready, WakeTime, Started

LEMMA CallInit == Init => CallInv
BY ContextsDiffer DEF Init, CallInv, Contexts, TCBs

LEMMA CallStep ==
  ASSUME SchedHypotheses
  PROVE  SchedInv /\ CallInv /\ [Next]_vars => CallInv'
<1> SUFFICES ASSUME SchedInv, CallInv, [Next]_vars
             PROVE  CallInv'
  OBVIOUS
<1> USE ContextsDiffer
<1>t. TypeOK
  BY DEF SchedInv, KernelInv
<1>1. CASE MainStep
  <2>1. /\ \A t \in Threads : pc'[t] = pc[t] /\ pc[t] # "delay"
        /\ UNCHANGED TimeOut
    BY <1>1, <1>t DEF MainStep, CallOSThread_Start, OSThread_StartRegister,
       OSThread_StartPrio, OSThread_StartReady,
       OS_RunDisable, Goto, Running, TypeOK, Contexts, TCBs, SchedInv, MaskInv
  <2> QED
    BY <2>1 DEF CallInv
<1>2. ASSUME NEW t \in Threads, OS_msDelayDisable(t)
      PROVE  CallInv'
  BY <1>2, <1>t DEF OS_msDelayDisable, Goto, CallInv, TypeOK, Contexts, TCBs
<1>3. ASSUME NEW t \in Threads, NEW Ticks \in Delays, OS_msDelayTimeOut(t, Ticks)
      PROVE  CallInv'
  <2>1. OS_Curr = t
    BY <1>3, RunningThread DEF OS_msDelayTimeOut, Goto, SchedInv
  <2> QED
    BY <1>3, <1>t, <2>1 DEF OS_msDelayTimeOut, Goto, CallInv, TypeOK, TCBs, Contexts
<1>4. ASSUME NEW t \in Threads, OS_msDelayUnready(t)
      PROVE  CallInv'
  <2>1. OS_Curr = t /\ pc[t] = "unready" /\ ~pendsv /\ OS_Curr # NULL
    BY <1>4, InsideDelay DEF OS_msDelayUnready, Goto
  <2>2. t = NextThread(OS_ReadySet)
    BY <2>1 DEF SchedInv, SwitchInv
  <2>3. OS_Thread[0] = IdleThread
    BY <2>1 DEF SchedInv, KernelInv, FirstInv
  <2>4. \A p \in OS_ReadySet : p <= PrioArg[t]
    BY <2>2, <2>3, ChoiceIsHighest
  <2>5. \A u \in Threads : u # t => pc'[u] = pc[u]
    BY <1>4, <1>t DEF OS_msDelayUnready, Goto, TypeOK, Contexts, TCBs
  <2> QED
    BY <1>4, <2>1, <2>4, <2>5 DEF OS_msDelayUnready, CallInv
<1>5. ASSUME NEW t \in Threads, OS_msDelayDelay(t)
      PROVE  CallInv'
  BY <1>5, <1>t DEF OS_msDelayDelay, Goto, CallInv, TypeOK, Contexts, TCBs
<1>6. ASSUME NEW c \in Threads \cup {Main}, CallOS_Sched(c) \/ CallEnable_Irq(c)
      PROVE  CallInv'
  BY <1>6, <1>t DEF CallOS_Sched, CallEnable_Irq, Goto, CallInv, TypeOK, Contexts, TCBs
<1>7. CASE SysTick_Handler
  <2>1. \A t \in Threads : pc'[t] = "body"
    BY <1>7, UnmaskedBodies DEF SysTick_Handler, TCBs
  <2> QED
    BY <2>1 DEF CallInv
<1>8. CASE SysTickReload \/ PendSV_Handler \/ UNCHANGED vars
  BY <1>8 DEF SysTickReload, PendSV_Handler, vars, CallInv
<1> QED
  BY <1>1, <1>2, <1>3, <1>4, <1>5, <1>6, <1>7, <1>8 DEF Next, OS_msDelay

\* A step that changes nothing the promise speaks of is a stutter.
LEMMA Stutter ==
  ASSUME UNCHANGED <<OS_Curr, OS_DelayedSet, millisec_counter>>,
         Started' = Started,
         \A t \in Threads : PrioArg[t] \in OS_DelayedSet => TimeOut'[t] = TimeOut[t]
  PROVE  UNCHANGED Promise!vars
<1>1. WakeTime' = WakeTime
  BY DEF WakeTime, After
<1>2. Running' = Running
  BY DEF Running
<1> QED
  BY <1>1, <1>2 DEF Promise!vars

\* main() starts a thread when OSThread_Start returns.
LEMMA StartIsStart ==
  ASSUME SchedInv, OSThread_StartReady
  PROVE  [Promise!Next]_(Promise!vars)
<1> USE ContextsDiffer DEF OSThread_StartReady, Goto
<1>1. starting \in TCBs /\ starting \notin unstarted
  BY DEF SchedInv, KernelInv, TypeOK, MainInv, FirstInv
<1>2. CASE starting = IdleThread
  <2>1. Started' = Started
    BY <1>2 DEF Started
  <2> QED
    BY <2>1, Stutter
<1>3. CASE starting \in Threads
  <2>1. Started' = Started \cup {starting}
    BY <1>1, <1>3 DEF Started
  <2>2. WakeTime' = WakeTime /\ Running' = Running /\ Running = Main
    BY DEF WakeTime, After, Running
  <2>3. Promise!Start(starting)
    BY <2>1, <2>2 DEF Promise!Start
  <2> QED
    BY <1>3, <2>3 DEF Promise!Next
<1> QED
  BY <1>1, <1>2, <1>3 DEF TCBs

\* OS_msDelay puts the thread to sleep when it sets its bit of OS_DelayedSet.
LEMMA DelayIsSleep ==
  ASSUME SchedHypotheses, SchedInv, CallInv,
         NEW t \in Threads, OS_msDelayDelay(t)
  PROVE  Promise!Next
<1> USE ContextsDiffer
<1>1. /\ pc[t] = "delay" /\ OS_Curr = t /\ Running = t /\ t \in Started
      /\ Bits({OS_Curr}) = {PrioArg[t]}
  BY InsideDelay, StartedThread DEF OS_msDelayDelay, Goto
<1>2. TimeOut[t] \in Delays /\ \A p \in OS_ReadySet : p <= PrioArg[t]
  BY <1>1 DEF CallInv
<1>3. PrioArg[t] \notin OS_DelayedSet
  BY <1>1 DEF SchedInv, PlacesInv
<1>4. Promise!Ready = {u \in Started : PrioArg[u] \notin OS_DelayedSet}
  BY ReadyIsNotDelayed DEF SchedInv, KernelInv
<1>5. \A u \in Promise!Ready : PrioArg[u] <= PrioArg[t]
  <2>1. TAKE u \in Promise!Ready
  <2>2. CASE u = t
    BY <2>2, ArgumentsInRange, BoundsAreNaturals
  <2>3. CASE u # t
    <3>1. u \in Threads /\ u \in Started /\ PrioArg[u] \notin OS_DelayedSet
      BY <1>4 DEF Started
    <3>2. pc[u] = "body"
      BY <1>1, <2>3, <3>1 DEF SchedInv, MaskInv
    <3>3. PrioArg[u] \in OS_ReadySet
      BY <3>1, <3>2 DEF SchedInv, PlacesInv
    <3> QED
      BY <1>2, <3>3
  <2> QED
    BY <2>2, <2>3
<1>6. Promise!IsFirst(t)
  BY <1>1, <1>3, <1>4, <1>5 DEF Promise!IsFirst
<1>7. WakeTime' = [WakeTime EXCEPT ![t] = Promise!Later(millisec_counter, TimeOut[t])]
  <2>1. OS_DelayedSet' = OS_DelayedSet \cup {PrioArg[t]} /\ UNCHANGED <<TimeOut, millisec_counter>>
    BY <1>1 DEF OS_msDelayDelay
  <2>2. \A u \in Threads : u # t => (PrioArg[u] \in OS_DelayedSet' <=> PrioArg[u] \in OS_DelayedSet)
    BY <2>1 DEF SchedHypotheses, DistinctPriorities
  <2> QED
    BY <2>1, <2>2 DEF WakeTime, After, Promise!Later
<1>8. Started' = Started /\ Running' = Running /\ millisec_counter' = millisec_counter
  BY DEF OS_msDelayDelay, Started, Running
<1>9. Promise!Sleep(t, TimeOut[t])
  BY <1>1, <1>6, <1>7, <1>8 DEF Promise!Sleep
<1> QED
  BY <1>2, <1>9 DEF Promise!Next

\* The tick wakes exactly the threads whose time has come.
LEMMA SysTickIsTick ==
  ASSUME SchedInv, CountdownInv, SysTick_Handler
  PROVE  Promise!Next
<1> DEFINE time == After(millisec_counter, 1)
<1>t. TypeOK
  BY DEF SchedInv, KernelInv
<1>1. millisec_counter' = time
  BY DEF SysTick_Handler
<1>2. ASSUME NEW t \in Threads
      PROVE  WakeTime'[t] = IF WakeTime[t] = time THEN NULL ELSE WakeTime[t]
  <2>1. WakeTime'[t] = IF PrioArg[t] \in OS_DelayedSet' THEN After(time, TimeOut'[t]) ELSE NULL
    BY <1>1 DEF WakeTime, After
  <2>2. WakeTime[t] = IF PrioArg[t] \in OS_DelayedSet THEN After(millisec_counter, TimeOut[t]) ELSE NULL
    BY DEF WakeTime
  <2>3. CASE PrioArg[t] \notin OS_DelayedSet
    BY <2>1, <2>2, <2>3 DEF SysTick_Handler, OS_Tick
  <2>4. CASE PrioArg[t] \in OS_DelayedSet
    <3>1. TimeOut[t] \in 1 .. TickMax
      BY <1>t, <2>4, BoundsAreNaturals DEF CountdownInv, TypeOK, TCBs
    <3>2. t \in Delayed /\ (PrioArg[t] \in OS_DelayedSet' <=> t \notin Expired)
      BY <2>4, SleeperIsVisited DEF SysTick_Handler, OS_Tick
    <3>3. TimeOut'[t] = TimeOut[t] - 1
      BY <3>1, <3>2 DEF SysTick_Handler, OS_Tick, Decrement, TCBs
    <3>4. t \in Expired <=> TimeOut[t] = 1
      BY <3>1, <3>2 DEF Expired, Decrement
    <3>5. millisec_counter \in 0 .. MsMax
      BY <1>t DEF TypeOK
    <3>6. After(time, TimeOut'[t]) = After(millisec_counter, TimeOut[t])
      BY <3>1, <3>3, <3>5, AfterOneTick
    <3>7. After(millisec_counter, TimeOut[t]) = time <=> TimeOut[t] = 1
      BY <3>1, <3>5, BoundsAreNaturals DEF After
    <3> QED
      BY <2>1, <2>2, <2>4, <3>2, <3>4, <3>6, <3>7
  <2> QED
    BY <2>3, <2>4
<1>3. WakeTime' = [t \in Threads |-> IF WakeTime[t] = millisec_counter' THEN NULL ELSE WakeTime[t]]
  <2>1. WakeTime' = [t \in Threads |-> WakeTime'[t]]
    BY DEF WakeTime
  <2> HIDE DEF time
  <2> QED
    BY <1>1, <1>2, <2>1
<1>4. Started' = Started /\ Running' = Running
  BY DEF SysTick_Handler, Started, Running
<1>5. Promise!Tick
  BY <1>1, <1>3, <1>4 DEF Promise!Tick, Promise!Later, After
<1> QED
  BY <1>5 DEF Promise!Next

\* The processor goes to the first of the awake threads.
LEMMA PendSVIsSwitch ==
  ASSUME SchedInv, PendSV_Handler
  PROVE  Promise!Next
<1> USE ContextsDiffer
<1>1. OS_Next = NextThread(OS_ReadySet) /\ OS_Next # NULL /\ ~primask
  BY DEF PendSV_Handler, SchedInv, SwitchInv
<1>2. OS_Thread[0] = IdleThread
  BY <1>1 DEF SchedInv, KernelInv, FirstInv
<1>3. Promise!Ready = {t \in Threads : PrioArg[t] \in OS_ReadySet}
  <2>1. Promise!Ready = {t \in Started : PrioArg[t] \notin OS_DelayedSet}
    BY ReadyIsNotDelayed DEF SchedInv, KernelInv
  <2>2. \A t \in Threads : pc[t] = "body"
    BY <1>1, UnmaskedBodies DEF TCBs
  <2> QED
    BY <2>1, <2>2 DEF SchedInv, PlacesInv, Started
<1>4. Promise!IsFirst(OS_Next)
  <2>1. CASE OS_ReadySet = {}
    BY <1>1, <1>2, <1>3, <2>1, ChoiceIsHighest DEF Promise!IsFirst
  <2>2. CASE OS_ReadySet # {}
    <3>1. OS_Next \in Promise!Ready /\ \A u \in Promise!Ready : PrioArg[u] <= PrioArg[OS_Next]
      BY <1>1, <1>2, <1>3, <2>2, ChoiceIsHighest
    <3> QED
      BY <3>1 DEF Promise!IsFirst
  <2> QED
    BY <2>1, <2>2
<1>5. Running' = OS_Next
  BY <1>1 DEF PendSV_Handler, Running
<1>6. Started' = Started /\ WakeTime' = WakeTime /\ millisec_counter' = millisec_counter
  BY DEF PendSV_Handler, Started, WakeTime, After
<1>7. Promise!Switch
  BY <1>4, <1>5, <1>6 DEF Promise!Switch
<1> QED
  BY <1>7 DEF Promise!Next

LEMMA PromiseStep ==
  ASSUME SchedHypotheses
  PROVE  SchedInv /\ CountdownInv /\ CallInv /\ [Next]_vars => [Promise!Next]_(Promise!vars)
<1> SUFFICES ASSUME SchedInv, CountdownInv, CallInv, [Next]_vars
             PROVE  [Promise!Next]_(Promise!vars)
  OBVIOUS
<1>1. ASSUME NEW t \in TCBs, CallOSThread_Start(t)
      PROVE  UNCHANGED Promise!vars
  <2>1. starting = NULL
    BY <1>1 DEF CallOSThread_Start, Goto, SchedInv, KernelInv, MainInv
  <2>2. Started' = Started
    BY <1>1, <2>1, ContextsDiffer DEF CallOSThread_Start, Started
  <2> QED
    BY <1>1, <2>2, Stutter DEF CallOSThread_Start
<1>2. CASE OSThread_StartRegister \/ OSThread_StartPrio \/ OS_RunDisable
  BY <1>2, Stutter DEF OSThread_StartRegister, OSThread_StartPrio, OS_RunDisable,
     Started
<1>3. ASSUME NEW t \in Threads, NEW Ticks \in Delays, OS_msDelayTimeOut(t, Ticks)
      PROVE  UNCHANGED Promise!vars
  <2>1. OS_Curr = t /\ pc[t] = "timeout" /\ t \in Started
    BY <1>3, InsideDelay DEF OS_msDelayTimeOut, Goto
  <2>2. PrioArg[t] \notin OS_DelayedSet
    BY <2>1 DEF SchedInv, PlacesInv
  <2>3. \A u \in Threads : u # t => TimeOut'[u] = TimeOut[u]
    BY <1>3, <2>1 DEF OS_msDelayTimeOut, SchedInv, KernelInv, TypeOK, TCBs
  <2> QED
    BY <1>3, <2>2, <2>3, Stutter DEF OS_msDelayTimeOut, Started
<1>4. ASSUME NEW t \in Threads, OS_msDelayDisable(t) \/ OS_msDelayUnready(t)
      PROVE  UNCHANGED Promise!vars
  BY <1>4, Stutter DEF OS_msDelayDisable, OS_msDelayUnready, Started
<1>5. ASSUME NEW c \in Threads \cup {Main}, CallOS_Sched(c) \/ CallEnable_Irq(c)
      PROVE  UNCHANGED Promise!vars
  BY <1>5, Stutter DEF CallOS_Sched, CallEnable_Irq, Started
<1>6. CASE SysTickReload \/ UNCHANGED vars
  BY <1>6, Stutter DEF SysTickReload, vars, Started
<1> QED
  BY <1>1, <1>2, <1>3, <1>4, <1>5, <1>6, StartIsStart, DelayIsSleep, SysTickIsTick,
     PendSVIsSwitch DEF Next, MainStep, OS_msDelay

\* With distinct priorities, PendSV taken first and no delay of zero ticks, the
\* kernel implements its abstract specification: what its threads see of Os.c
\* and Gpt.c is module Kernel.
THEOREM OsKeepsPromise ==
  ASSUME SchedHypotheses, 0 \notin Delays
  PROVE  Spec => KeepsPromise
<1>1. Init => Promise!Init
  BY ContextsDiffer DEF Init, Promise!Init, Started, WakeTime, Running, TCBs
<1>2. Init => CountdownInv
  BY ContextsDiffer DEF Init, CountdownInv, Contexts, TCBs
<1>3. SchedInv /\ CountdownInv /\ [Next]_vars => CountdownInv'
  BY CountdownStep
<1>4. SchedInv /\ CallInv /\ [Next]_vars => CallInv'
  BY CallStep
<1>5. SchedInv /\ CountdownInv /\ CallInv /\ [Next]_vars => [Promise!Next]_(Promise!vars)
  BY PromiseStep
<1>6. Spec => []SchedInv
  BY SchedInvariant
<1> QED
  BY <1>1, <1>2, <1>3, <1>4, <1>5, <1>6, CallInit, PTL DEF Spec, KeepsPromise,
     Promise!Spec
=============================================================================
