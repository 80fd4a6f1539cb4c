----------------------------- MODULE AppProofs ------------------------------
(***************************************************************************)
(* Every behaviour of the application is a behaviour of the kernel, so     *)
(* what the other modules prove of the kernel holds of the application.    *)
(* That in turn is what the use of port C rests on: the idle thread only   *)
(* executes while the other writers of the port are between two calls.     *)
(***************************************************************************)
EXTENDS App, KernelProofs

\* A thread is always at one of the calls of its loop.
AtInv ==
  /\ DOMAIN at = TCBs
  /\ \A t \in TCBs : at[t] \in 1 .. Len(Loop(t))

\* The loops have four calls, the idle thread's three.
LEMMA LoopLength ==
  ASSUME NEW t \in TCBs
  PROVE  Len(Loop(t)) \in {3, 4}
<1> USE ApplicationThreads, ContextsDiffer DEF TCBs, Loop
<1>1. CASE t = Blinky_Thread
  BY <1>1 DEF Blinky_Main
<1>2. CASE t = TogglePC3_Thread
  BY <1>2 DEF TogglePC3_Main
<1>3. CASE t = IdleThread
  <2>1. Loop(t) = OS_OnIdle
    BY <1>3
  <2> QED
    BY <2>1 DEF OS_OnIdle
<1> QED
  BY <1>1, <1>2, <1>3

\* Every delay of a loop is one the kernel's specification allows.
LEMMA DelaysAllowed ==
  ASSUME AtInv, NEW t \in Threads, Statement(t).call = "OS_msDelay"
  PROVE  Statement(t).ticks \in Delays
<1> USE ApplicationThreads, ContextsDiffer DEF TCBs, Loop, AtInv, Statement
<1>1. CASE t = Blinky_Thread
  <2>1. at[t] \in 1 .. 4 /\ Statement(t) = Blinky_Main[at[t]]
    BY <1>1 DEF Blinky_Main
  <2>2. \A k \in 1 .. 4 :
          Blinky_Main[k].call = "OS_msDelay" => Blinky_Main[k].ticks \in Delays
    BY DelaysOfApp DEF Blinky_Main, Led, Delay
  <2> HIDE DEF Loop, Statement
  <2> QED
    BY <2>1, <2>2
<1>2. CASE t = TogglePC3_Thread
  <2>1. at[t] \in 1 .. 4 /\ Statement(t) = TogglePC3_Main[at[t]]
    BY <1>2 DEF TogglePC3_Main
  <2>2. \A k \in 1 .. 4 :
          TogglePC3_Main[k].call = "OS_msDelay" => TogglePC3_Main[k].ticks \in Delays
    BY DelaysOfApp DEF TogglePC3_Main, Pin, Delay
  <2> HIDE DEF Loop, Statement
  <2> QED
    BY <2>1, <2>2
<1> QED
  BY <1>1, <1>2

\* A step of the application is a step of the kernel, or leaves it alone.
LEMMA AppStepIsKernelStep == AtInv /\ AppNext => [Next]_vars
<1> SUFFICES ASSUME AtInv, AppNext
             PROVE  [Next]_vars
  OBVIOUS
<1>1. CASE StartThreads
  BY <1>1 DEF StartThreads, Next, MainStep
<1>2. CASE RunThreads
  BY <1>2 DEF RunThreads, Next
<1>3. ASSUME NEW t \in TCBs, Body(t)
      PROVE  UNCHANGED vars
  BY <1>3 DEF Body, InBody, WriteLed, AcquirePortResource, LoadPortC,
     StorePortC, ReleasePortResource, WaitForInterrupt
<1>4. ASSUME NEW t \in Threads, DelayThread(t)
      PROVE  Next
  BY <1>4, DelaysAllowed DEF DelayThread, Next, OS_msDelay
<1>5. ASSUME NEW t \in Threads, ReturnFromDelay(t)
      PROVE  Next
  BY <1>5 DEF ReturnFromDelay, Next
<1>6. CASE PulsePC2
  BY <1>6 DEF PulsePC2, Next
<1>7. CASE Hardware
  BY <1>7 DEF Hardware, Next
<1> QED
  BY <1>1, <1>2, <1>3, <1>4, <1>5, <1>6, <1>7 DEF AppNext

\* A thread that advances comes to another call of its loop.
LEMMA AdvanceStaysInLoop ==
  ASSUME AtInv, NEW t \in TCBs, Advance(t)
  PROVE  AtInv'
<1>1. (at[t] % Len(Loop(t))) + 1 \in 1 .. Len(Loop(t))
  <2>1. CASE Len(Loop(t)) = 3
    BY <2>1 DEF AtInv
  <2>2. CASE Len(Loop(t)) = 4
    BY <2>2 DEF AtInv
  <2> QED
    BY <2>1, <2>2, LoopLength
<1>2. \A u \in TCBs : Loop(u)' = Loop(u)
  BY DEF Loop, Blinky_Main, TogglePC3_Main, OS_OnIdle, Led, Pin, Delay, Wait
<1> QED
  BY <1>1, <1>2 DEF Advance, AtInv

LEMMA AtStep == AtInv /\ [AppNext]_<<vars, appVars>> => AtInv'
<1> SUFFICES ASSUME AtInv, [AppNext]_<<vars, appVars>>
             PROVE  AtInv'
  OBVIOUS
<1>1. CASE UNCHANGED at
  BY <1>1 DEF AtInv, Loop, Blinky_Main, TogglePC3_Main, OS_OnIdle, Led, Pin, Delay, Wait
<1>2. CASE \E t \in TCBs : Advance(t)
  BY <1>2, AdvanceStaysInLoop
<1> QED
  BY <1>1, <1>2 DEF AppNext, StartThreads, RunThreads, Body, WriteLed,
     AcquirePortResource,
     LoadPortC, StorePortC, ReleasePortResource, WaitForInterrupt, DelayThread,
     ReturnFromDelay, PulsePC2, Hardware, appVars, TCBs

\* What is proved of the kernel holds of the application, whose steps are steps
\* of module Os because it is made of them, with the delays of App.c.
LEMMA AppImplementsOs == AppSpec => Spec
<1>1. AppInit => Init /\ AtInv
  <2> SUFFICES ASSUME AppInit
               PROVE  Init /\ AtInv
    OBVIOUS
  <2>1. \A t \in TCBs : 1 \in 1 .. Len(Loop(t))
    BY LoopLength
  <2> QED
    BY <2>1 DEF AppInit, AtInv
<1>2. AtInv /\ [AppNext]_<<vars, appVars>> => [Next]_vars
  BY AppStepIsKernelStep
<1> QED
  BY <1>1, <1>2, AtStep, PTL DEF AppSpec, Spec

\* The priorities of App.c satisfy what the kernel's proofs ask for.
LEMMA AppHypotheses ==
  ASSUME PrioArg[Blinky_Thread] # PrioArg[TogglePC3_Thread], PendSVPrio = 0
  PROVE  SchedHypotheses
BY ApplicationThreads DEF SchedHypotheses, DistinctPriorities, PendSVFirst, SysTickPrio

\* The two threads and the idle thread of App.c run in priority order, because
\* priorities 3 and 2 differ and PendSV has the priority of SysTick.
THEOREM AppHighestReadyRuns ==
  ASSUME PrioArg[Blinky_Thread] # PrioArg[TogglePC3_Thread], PendSVPrio = 0
  PROVE  AppSpec => []HighestReadyRuns
<1>1. SchedHypotheses
  BY AppHypotheses
<1>2. Spec => []HighestReadyRuns
  BY <1>1, HighestReadyRunsAlways
<1> QED
  BY <1>2, AppImplementsOs, PTL

\* What the two threads see of the kernel is module Kernel.
THEOREM AppKeepsPromise ==
  ASSUME PrioArg[Blinky_Thread] # PrioArg[TogglePC3_Thread], PendSVPrio = 0,
         0 \notin Delays
  PROVE  AppSpec => KeepsPromise
<1>1. SchedHypotheses
  BY AppHypotheses
<1>2. Spec => KeepsPromise
  BY <1>1, OsKeepsPromise
<1> QED
  BY <1>2, AppImplementsOs, PTL

(***************************************************************************)
(* The registers.                                                          *)
(***************************************************************************)

\* The tick leaves pin 2 low, so no thread ever loads it high.
PortInv ==
  /\ AtInv
  /\ GPIOA_ODR \subseteq {5}
  /\ GPIOC_ODR \subseteq {3, 10}
  /\ port_c_lock \in BOOLEAN
  /\ stage \in [TCBs -> {"acquire", "load", "store", "release"}]
  /\ loaded \in [TCBs -> SUBSET {3, 10}]

\* A thread's statement only changes when the thread advances.
LEMMA StatementStays ==
  ASSUME NEW t \in TCBs, at'[t] = at[t]
  PROVE  Statement(t)' = Statement(t)
<1>1. Loop(t)' = Loop(t)
  BY DEF Loop, Blinky_Main, TogglePC3_Main, OS_OnIdle, Led, Pin, Delay, Wait
<1> QED
  BY <1>1 DEF Statement

\* The pin functions of port C that the three loops call.
LEMMA PinCalls ==
  ASSUME AtInv, NEW t \in TCBs, Statement(t).call = "Pin"
  PROVE  \/ t = TogglePC3_Thread /\ at[t] = 1 /\ Statement(t) = Pin(3, TRUE)
         \/ t = TogglePC3_Thread /\ at[t] = 3 /\ Statement(t) = Pin(3, FALSE)
         \/ t = IdleThread /\ at[t] = 1 /\ Statement(t) = Pin(10, TRUE)
         \/ t = IdleThread /\ at[t] = 2 /\ Statement(t) = Pin(10, FALSE)
<1> USE ApplicationThreads, ContextsDiffer DEF TCBs, Loop, AtInv, Statement
<1>1. CASE t = Blinky_Thread
  <2>1. at[t] \in 1 .. 4 /\ Statement(t) = Blinky_Main[at[t]]
    BY <1>1 DEF Blinky_Main
  <2>2. \A k \in 1 .. 4 : Blinky_Main[k].call # "Pin"
    BY DEF Blinky_Main, Led, Delay
  <2> HIDE DEF Loop, Statement
  <2> QED
    BY <2>1, <2>2
<1>2. CASE t = TogglePC3_Thread
  <2>1. at[t] \in 1 .. 4 /\ Statement(t) = TogglePC3_Main[at[t]]
    BY <1>2 DEF TogglePC3_Main
  <2>2. TogglePC3_Main[2].call # "Pin" /\ TogglePC3_Main[4].call # "Pin"
    BY DEF TogglePC3_Main, Delay
  <2>3. TogglePC3_Main[1] = Pin(3, TRUE) /\ TogglePC3_Main[3] = Pin(3, FALSE)
    BY DEF TogglePC3_Main
  <2>4. at[t] = 1 \/ at[t] = 3
    <3> HIDE DEF Loop, Statement
    <3> QED
      BY <2>1, <2>2
  <2> HIDE DEF Loop, Statement
  <2> QED
    BY <1>2, <2>1, <2>3, <2>4, Zenon
<1>3. CASE t = IdleThread
  <2>1. at[t] \in 1 .. 3 /\ Statement(t) = OS_OnIdle[at[t]]
    <3>1. Loop(t) = OS_OnIdle
      BY <1>3
    <3> QED
      BY <3>1 DEF OS_OnIdle
  <2>2. OS_OnIdle[3].call # "Pin"
    BY DEF OS_OnIdle, Wait
  <2>3. OS_OnIdle[1] = Pin(10, TRUE) /\ OS_OnIdle[2] = Pin(10, FALSE)
    BY DEF OS_OnIdle
  <2> HIDE DEF Loop, Statement
  <2>4. at[t] = 1 \/ at[t] = 2
    BY <2>1, <2>2
  <2> QED
    BY <1>3, <2>1, <2>3, <2>4, Zenon
<1> QED
  BY <1>1, <1>2, <1>3

\* What a pin function stores differs from what it loaded in its own pin.
LEMMA StoredValue ==
  ASSUME AtInv, NEW t \in TCBs, StorePortC(t)
  PROVE  \/ t = TogglePC3_Thread /\ at[t] = 1 /\ GPIOC_ODR' = loaded[t] \cup {3}
         \/ t = TogglePC3_Thread /\ at[t] = 3 /\ GPIOC_ODR' = loaded[t] \ {3}
         \/ t = IdleThread /\ at[t] = 1 /\ GPIOC_ODR' = loaded[t] \cup {10}
         \/ t = IdleThread /\ at[t] = 2 /\ GPIOC_ODR' = loaded[t] \ {10}
<1>1. /\ Statement(t).call = "Pin"
      /\ GPIOC_ODR' = Drive(loaded[t], Statement(t).pin, Statement(t).level)
  BY DEF StorePortC, InBody
<1>2. \A p : /\ Drive(loaded[t], Pin(p, TRUE).pin, Pin(p, TRUE).level) = loaded[t] \cup {p}
             /\ Drive(loaded[t], Pin(p, FALSE).pin, Pin(p, FALSE).level) = loaded[t] \ {p}
  BY DEF Drive, Pin
<1> QED
  BY <1>1, <1>2, PinCalls

LEMMA PortStep == PortInv /\ [AppNext]_<<vars, appVars>> => PortInv'
<1> SUFFICES ASSUME PortInv, [AppNext]_<<vars, appVars>>
             PROVE  PortInv'
  OBVIOUS
<1>0. AtInv'
  BY AtStep DEF PortInv
<1>1. CASE UNCHANGED <<GPIOA_ODR, GPIOC_ODR, port_c_lock, stage, loaded>>
  BY <1>0, <1>1 DEF PortInv
<1>2. ASSUME NEW t \in TCBs, WriteLed(t)
      PROVE  PortInv'
  BY <1>0, <1>2 DEF PortInv, WriteLed, Drive
<1>3. ASSUME NEW t \in TCBs, AcquirePortResource(t) \/ ReleasePortResource(t)
      PROVE  PortInv'
  BY <1>0, <1>3 DEF PortInv, AcquirePortResource, ReleasePortResource
<1>4. ASSUME NEW t \in TCBs, LoadPortC(t)
      PROVE  PortInv'
  BY <1>0, <1>4 DEF PortInv, LoadPortC
<1>5. ASSUME NEW t \in TCBs, StorePortC(t)
      PROVE  PortInv'
  <2>1. GPIOC_ODR' \subseteq {3, 10}
    BY <1>5, StoredValue DEF PortInv
  <2> QED
    BY <1>0, <1>5, <2>1 DEF PortInv, StorePortC
<1>6. CASE PulsePC2
  BY <1>0, <1>6 DEF PortInv, PulsePC2, Drive
<1> QED
  BY <1>1, <1>2, <1>3, <1>4, <1>5, <1>6 DEF AppNext, Body, StartThreads, RunThreads,
     DelayThread, ReturnFromDelay, Hardware, WaitForInterrupt, appVars

LEMMA PortInit == AppInit => PortInv
<1> SUFFICES ASSUME AppInit PROVE PortInv
  OBVIOUS
<1>1. \A t \in TCBs : 1 \in 1 .. Len(Loop(t))
  BY LoopLength
<1> QED
  BY <1>1 DEF AppInit, PortInv, AtInv

\* The application's variables have their types (App.c:29-50, Gpio.c:11).
THEOREM AppTypeCorrect == AppSpec => []AppTypeOK
<1>1. AppInit => PortInv
  BY PortInit
<1>2. PortInv => AppTypeOK
  BY DEF PortInv, AtInv, AppTypeOK
<1> QED
  BY <1>1, <1>2, PortStep, PTL DEF AppSpec

(***************************************************************************)
(* Pin 10, which the idle thread drives with a read-modify-write that the  *)
(* tick and the toggling thread can interrupt at any instruction.          *)
(***************************************************************************)

\* The toggling thread is in a pin function only while it is ready, so the idle
\* thread does not write between its load and its store; the idle thread's own
\* writes decide the level of pin 10.
Pin10Inv ==
  /\ stage[TogglePC3_Thread] # "acquire" =>
       /\ Statement(TogglePC3_Thread).call = "Pin"
       /\ PrioArg[TogglePC3_Thread] \in OS_ReadySet
  /\ stage[TogglePC3_Thread] = "store" =>
       (10 \in loaded[TogglePC3_Thread] <=> 10 \in GPIOC_ODR)
  /\ 10 \in GPIOC_ODR <=>
       at[IdleThread] = (IF stage[IdleThread] = "release" THEN 1 ELSE 2)
  /\ stage[IdleThread] # "acquire" => Statement(IdleThread).call = "Pin"

\* The idle thread executes only when no thread is ready.
LEMMA IdleAlone ==
  ASSUME SchedInv, Running = IdleThread, ~ExceptionDue
  PROVE  OS_ReadySet = {}
<1> USE ContextsDiffer
<1>1. OS_Curr = IdleThread /\ OS_Curr # NULL
  BY DEF Running
<1>2. pc[IdleThread] = "body" /\ ~primask
  BY <1>1 DEF SchedInv, MaskInv, KernelInv, TypeOK
<1>3. IdleThread = NextThread(OS_ReadySet)
  BY <1>1, <1>2 DEF SchedInv, SwitchInv, KernelInv, TypeOK, ExceptionDue
<1>4. PICK p \in 0 .. MaxPrio :
        /\ IdleThread = OS_Thread[p]
        /\ OS_ReadySet # {} => p \in OS_ReadySet
  BY <1>3, NextThreadEntry DEF SchedInv, KernelInv, TypeOK
<1>5. p = 0
  BY <1>4 DEF SchedInv, KernelInv, TableInv, PrioOf
<1>6. 0 \notin OS_ReadySet
  BY DEF SchedInv, KernelInv, TypeOK
<1> QED
  BY <1>4, <1>5, <1>6

\* A step takes the toggling thread out of the ready set only where the
\* thread's own call of OS_msDelay does.
LEMMA ReadyUntilDelay ==
  ASSUME SchedHypotheses, SchedInv, AtInv, AppNext,
         PrioArg[TogglePC3_Thread] \in OS_ReadySet
  PROVE  \/ PrioArg[TogglePC3_Thread] \in OS_ReadySet'
         \/ /\ Statement(TogglePC3_Thread).call = "OS_msDelay"
            /\ pc'[TogglePC3_Thread] = "delay"
<1> USE ApplicationThreads, ContextsDiffer
<1>1. CASE StartThreads
  BY <1>1 DEF StartThreads, CallOSThread_Start, OSThread_StartRegister,
     OSThread_StartPrio, OSThread_StartReady, OS_RunDisable
<1>2. CASE RunThreads
  BY <1>2 DEF RunThreads, CallOS_Sched, CallEnable_Irq
<1>3. ASSUME NEW t \in TCBs, Body(t)
      PROVE  UNCHANGED OS_ReadySet
  BY <1>3 DEF Body, InBody, WriteLed, AcquirePortResource, LoadPortC,
     StorePortC, ReleasePortResource, WaitForInterrupt, vars
<1>4. ASSUME NEW t \in Threads, DelayThread(t), t # TogglePC3_Thread
      PROVE  PrioArg[TogglePC3_Thread] \in OS_ReadySet'
  <2>1. PrioArg[t] # PrioArg[TogglePC3_Thread]
    BY <1>4 DEF SchedHypotheses, DistinctPriorities
  <2>2. CASE OS_msDelayUnready(t)
    <3>1. Bits({OS_Curr}) \subseteq {PrioArg[t]}
      BY <2>2, RunningThread DEF OS_msDelayUnready, Goto, SchedInv
    <3> QED
      BY <2>1, <2>2, <3>1 DEF OS_msDelayUnready
  <2> QED
    BY <1>4, <2>2 DEF DelayThread, OS_msDelayDisable, OS_msDelayTimeOut,
       OS_msDelayDelay, CallOS_Sched
<1>5. CASE DelayThread(TogglePC3_Thread)
  <2>1. CASE OS_msDelayUnready(TogglePC3_Thread)
    <3>1. pc'[TogglePC3_Thread] = "delay"
      BY <2>1 DEF OS_msDelayUnready, Goto, SchedInv, KernelInv, TypeOK, Contexts, TCBs
    <3> QED
      BY <1>5, <3>1 DEF DelayThread
  <2> QED
    BY <1>5, <2>1 DEF DelayThread, OS_msDelayDisable, OS_msDelayTimeOut,
       OS_msDelayDelay, CallOS_Sched
<1>6. ASSUME NEW t \in Threads, ReturnFromDelay(t)
      PROVE  UNCHANGED OS_ReadySet
  BY <1>6 DEF ReturnFromDelay, CallEnable_Irq
<1>7. CASE PulsePC2
  BY <1>7 DEF PulsePC2, SysTick_Handler, OS_Tick
<1>8. CASE Hardware
  BY <1>8 DEF Hardware, SysTickReload, PendSV_Handler
<1> QED
  BY <1>1, <1>2, <1>3, <1>4, <1>5, <1>6, <1>7, <1>8 DEF AppNext

LEMMA Pin10Step ==
  ASSUME SchedHypotheses
  PROVE  SchedInv /\ PortInv /\ Pin10Inv /\ [AppNext]_<<vars, appVars>> => Pin10Inv'
<1> SUFFICES ASSUME SchedInv, PortInv, Pin10Inv, [AppNext]_<<vars, appVars>>
             PROVE  Pin10Inv'
  OBVIOUS
<1> USE ApplicationThreads, ContextsDiffer
<1>a. AtInv /\ TogglePC3_Thread \in TCBs /\ IdleThread \in TCBs
  BY DEF PortInv, TCBs
<1>b. DOMAIN stage = TCBs /\ DOMAIN loaded = TCBs /\ DOMAIN at = TCBs
  BY DEF PortInv, AtInv
<1>r. stage[TogglePC3_Thread] # "acquire" =>
        PrioArg[TogglePC3_Thread] \in OS_ReadySet'
  <2>1. CASE AppNext
    BY <2>1, <1>a, ReadyUntilDelay DEF Pin10Inv
  <2>2. CASE UNCHANGED <<vars, appVars>>
    BY <2>2 DEF Pin10Inv, vars
  <2> QED
    BY <2>1, <2>2
<1>1. CASE UNCHANGED <<GPIOC_ODR, at, stage, loaded>>
  BY <1>1, <1>a, <1>r, StatementStays DEF Pin10Inv
<1>2. ASSUME NEW t \in TCBs, t # IdleThread, Advance(t),
             t = TogglePC3_Thread => stage[t] = "acquire",
             UNCHANGED <<GPIOC_ODR, stage, loaded>>
      PROVE  Pin10Inv'
  <2>1. at'[IdleThread] = at[IdleThread]
    BY <1>2, <1>b, <1>a DEF Advance
  <2>2. t # TogglePC3_Thread => at'[TogglePC3_Thread] = at[TogglePC3_Thread]
    BY <1>2, <1>b, <1>a DEF Advance
  <2> QED
    BY <1>2, <1>a, <1>r, <2>1, <2>2, StatementStays DEF Pin10Inv
<1>3. ASSUME NEW t \in TCBs, WriteLed(t)
      PROVE  Pin10Inv'
  <2>1. Statement(t).call = "Led" /\ Advance(t) /\ UNCHANGED <<GPIOC_ODR, stage, loaded>>
    BY <1>3 DEF WriteLed, InBody
  <2>2. t # IdleThread
    <3> SUFFICES ASSUME t = IdleThread PROVE FALSE
      OBVIOUS
    <3>1. at[t] \in 1 .. 3 /\ Statement(t) = OS_OnIdle[at[t]]
      <4>1. Loop(t) = OS_OnIdle
        BY DEF Loop
      <4> QED
        BY <1>a, <4>1 DEF AtInv, Statement, OS_OnIdle
    <3>2. \A k \in 1 .. 3 : OS_OnIdle[k].call # "Led"
      BY DEF OS_OnIdle, Pin, Wait
    <3> QED
      BY <2>1, <3>1, <3>2
  <2>3. t = TogglePC3_Thread => stage[t] = "acquire"
    BY <2>1 DEF Pin10Inv
  <2> QED
    BY <1>2, <2>1, <2>2, <2>3
<1>4. ASSUME NEW t \in TCBs, AcquirePortResource(t)
      PROVE  Pin10Inv'
  <2>1. /\ Statement(t).call = "Pin" /\ stage[t] = "acquire"
        /\ Running = t /\ ~ExceptionDue /\ pc[t] = "body"
        /\ stage' = [stage EXCEPT ![t] = "load"]
        /\ UNCHANGED <<vars, GPIOC_ODR, at, loaded>>
    BY <1>4 DEF AcquirePortResource, InBody
  <2>2. t = TogglePC3_Thread => PrioArg[t] \in OS_ReadySet'
    BY <2>1, BodyIsReady DEF vars
  <2>3. \A u \in TCBs : Statement(u)' = Statement(u)
    BY <2>1, StatementStays
  <2> QED
    BY <1>a, <1>b, <1>r, <2>1, <2>2, <2>3 DEF Pin10Inv
<1>5. ASSUME NEW t \in TCBs, LoadPortC(t)
      PROVE  Pin10Inv'
  <2>1. /\ Statement(t).call = "Pin" /\ stage[t] = "load"
        /\ stage' = [stage EXCEPT ![t] = "store"]
        /\ loaded' = [loaded EXCEPT ![t] = GPIOC_ODR]
        /\ UNCHANGED <<GPIOC_ODR, at>>
    BY <1>5 DEF LoadPortC, InBody
  <2>2. \A u \in TCBs : Statement(u)' = Statement(u)
    BY <2>1, StatementStays
  <2> QED
    BY <1>a, <1>b, <1>r, <2>1, <2>2 DEF Pin10Inv
<1>6. ASSUME NEW t \in TCBs, StorePortC(t)
      PROVE  Pin10Inv'
  <2>1. /\ stage[t] = "store" /\ Running = t /\ ~ExceptionDue
        /\ stage' = [stage EXCEPT ![t] = "release"]
        /\ loaded' = [loaded EXCEPT ![t] = {}]
        /\ UNCHANGED at
    BY <1>6 DEF StorePortC, InBody
  <2>2. \A u \in TCBs : Statement(u)' = Statement(u)
    BY <2>1, StatementStays
  <2>3. CASE t = TogglePC3_Thread
    <3>1. 10 \in GPIOC_ODR' <=> 10 \in GPIOC_ODR
      BY <1>a, <1>6, <2>1, <2>3, StoredValue DEF Pin10Inv
    <3> QED
      BY <1>a, <1>b, <1>r, <2>1, <2>2, <2>3, <3>1 DEF Pin10Inv
  <2>4. CASE t = IdleThread
    <3>1. OS_ReadySet = {}
      BY <2>1, <2>4, IdleAlone
    <3>2. stage[TogglePC3_Thread] = "acquire"
      BY <3>1 DEF Pin10Inv
    <3>3. 10 \in GPIOC_ODR' <=> at[IdleThread] = 1
      BY <1>a, <1>6, <2>4, StoredValue
    <3> QED
      BY <1>a, <1>b, <2>1, <2>2, <2>4, <3>2, <3>3 DEF Pin10Inv
  <2> QED
    BY <1>a, <1>6, <2>3, <2>4, StoredValue
<1>7. ASSUME NEW t \in TCBs, ReleasePortResource(t)
      PROVE  Pin10Inv'
  <2>1. /\ Statement(t).call = "Pin" /\ stage[t] = "release"
        /\ stage' = [stage EXCEPT ![t] = "acquire"]
        /\ Advance(t)
        /\ UNCHANGED <<GPIOC_ODR, loaded>>
    BY <1>7 DEF ReleasePortResource, InBody
  <2>2. CASE t = TogglePC3_Thread
    <3>1. at'[IdleThread] = at[IdleThread]
      BY <1>a, <1>b, <2>1, <2>2 DEF Advance
    <3> QED
      BY <1>a, <1>b, <2>1, <2>2, <3>1, StatementStays DEF Pin10Inv
  <2>3. CASE t = IdleThread
    <3>1. at'[TogglePC3_Thread] = at[TogglePC3_Thread]
      BY <1>a, <1>b, <2>1, <2>3 DEF Advance
    <3>2. at[t] = 1 \/ at[t] = 2
      BY <1>a, <2>1, <2>3, PinCalls
    <3>3. at'[t] = at[t] + 1
      <4>1. Len(Loop(t)) = 3
        <5>1. Loop(t) = OS_OnIdle
          BY <2>3 DEF Loop
        <5> QED
          BY <5>1 DEF OS_OnIdle
      <4>2. at'[t] = (at[t] % 3) + 1
        BY <1>b, <2>1, <4>1 DEF Advance
      <4>3. CASE at[t] = 1
        BY <4>2, <4>3
      <4>4. CASE at[t] = 2
        BY <4>2, <4>4
      <4> QED
        BY <3>2, <4>3, <4>4
    <3> QED
      BY <1>a, <1>b, <1>r, <2>1, <2>3, <3>1, <3>2, <3>3, StatementStays DEF Pin10Inv
  <2> QED
    BY <1>a, <2>1, <2>2, <2>3, PinCalls
<1>8. ASSUME NEW t \in TCBs, WaitForInterrupt(t)
      PROVE  Pin10Inv'
  <2>1. /\ Statement(t).call = "Wait_For_Interrupt" /\ Advance(t)
        /\ UNCHANGED <<GPIOC_ODR, stage, loaded>>
    BY <1>8 DEF WaitForInterrupt, InBody
  <2>2. CASE t = IdleThread
    <3>1. at[t] = 3 /\ Len(Loop(t)) = 3
      <4>1. Loop(t) = OS_OnIdle
        BY <2>2 DEF Loop
      <4>2. at[t] \in 1 .. 3 /\ Statement(t) = OS_OnIdle[at[t]]
        BY <1>a, <4>1 DEF AtInv, Statement, OS_OnIdle
      <4>3. OS_OnIdle[1].call # "Wait_For_Interrupt"
            /\ OS_OnIdle[2].call # "Wait_For_Interrupt"
        BY DEF OS_OnIdle, Pin
      <4>4. Len(OS_OnIdle) = 3
        BY DEF OS_OnIdle
      <4> QED
        BY <2>1, <4>1, <4>2, <4>3, <4>4
    <3>2. at'[t] = 1
      BY <1>b, <2>1, <3>1 DEF Advance
    <3>3. at'[TogglePC3_Thread] = at[TogglePC3_Thread]
      BY <1>a, <1>b, <2>1, <2>2 DEF Advance
    <3>4. stage[IdleThread] = "acquire"
      BY <2>1, <2>2 DEF Pin10Inv
    <3> QED
      BY <1>a, <1>b, <1>r, <2>1, <2>2, <3>1, <3>2, <3>3, <3>4,
         StatementStays DEF Pin10Inv
  <2>3. CASE t # IdleThread
    <3>1. t = TogglePC3_Thread => stage[t] = "acquire"
      BY <2>1 DEF Pin10Inv
    <3> QED
      BY <1>2, <2>1, <2>3, <3>1
  <2> QED
    BY <2>2, <2>3
<1>9. ASSUME NEW t \in Threads, ReturnFromDelay(t)
      PROVE  Pin10Inv'
  <2>1. /\ Running = t /\ pc[t] = "enable" /\ Advance(t)
        /\ UNCHANGED <<GPIOC_ODR, stage, loaded>>
    BY <1>9 DEF ReturnFromDelay, CallEnable_Irq, Goto
  <2>2. PrioArg[t] \notin OS_ReadySet
    BY <2>1, InsideDelay DEF SchedInv, PlacesInv
  <2>3. t = TogglePC3_Thread => stage[t] = "acquire"
    BY <2>2 DEF Pin10Inv
  <2> QED
    BY <1>2, <2>1, <2>3 DEF TCBs
<1>10. CASE PulsePC2
  <2>1. /\ GPIOC_ODR' = Drive(Drive(GPIOC_ODR, 2, TRUE), 2, FALSE)
        /\ UNCHANGED <<at, stage, loaded>>
    BY <1>10 DEF PulsePC2
  <2>2. 10 \in GPIOC_ODR' <=> 10 \in GPIOC_ODR
    BY <2>1 DEF Drive
  <2> QED
    BY <1>a, <1>r, <2>1, <2>2, StatementStays DEF Pin10Inv
<1> QED
  BY <1>1, <1>3, <1>4, <1>5, <1>6, <1>7, <1>8, <1>9, <1>10 DEF AppNext, Body,
     StartThreads, RunThreads, DelayThread, Hardware, appVars

LEMMA PinsInit == AppInit => SchedInv /\ PortInv /\ Pin10Inv
<1> SUFFICES ASSUME AppInit PROVE SchedInv /\ PortInv /\ Pin10Inv
  OBVIOUS
<1>1. PortInv
  BY PortInit
<1>2. TogglePC3_Thread \in TCBs /\ IdleThread \in TCBs
  BY ApplicationThreads DEF TCBs
<1>3. SchedInv
  BY SchedInit DEF AppInit
<1> QED
  BY <1>1, <1>2, <1>3 DEF AppInit, Pin10Inv

LEMMA PinsStep ==
  ASSUME SchedHypotheses
  PROVE  SchedInv /\ PortInv /\ Pin10Inv /\ [AppNext]_<<vars, appVars>>
           => SchedInv' /\ PortInv' /\ Pin10Inv'
<1>1. SchedInv /\ [Next]_vars => SchedInv'
  BY SchedStep
<1>2. AtInv /\ [AppNext]_<<vars, appVars>> => [Next]_vars
  BY AppStepIsKernelStep
<1> QED
  BY <1>1, <1>2, PortStep, Pin10Step DEF PortInv

\* Whenever the idle thread is between two calls, pin 10 has the level of its
\* last one: although the port's lock excludes nobody, no write of the tick or
\* of a thread ever undoes the idle thread's (Os.c:122-129, Gpio.c:178-200).
THEOREM PC10FollowsIdleAlways ==
  ASSUME PrioArg[Blinky_Thread] # PrioArg[TogglePC3_Thread], PendSVPrio = 0
  PROVE  AppSpec => []PC10FollowsIdle
<1>1. SchedInv /\ PortInv /\ Pin10Inv /\ [AppNext]_<<vars, appVars>>
        => SchedInv' /\ PortInv' /\ Pin10Inv'
  BY AppHypotheses, PinsStep
<1>2. Pin10Inv => PC10FollowsIdle
  BY DEF Pin10Inv, PC10FollowsIdle, Follows
<1> QED
  BY <1>1, <1>2, PinsInit, PTL DEF AppSpec

(***************************************************************************)
(* Pin 3, which the toggling thread drives, and which the idle thread may  *)
(* write back in the middle of a read-modify-write of its own.             *)
(***************************************************************************)

\* The toggling thread is ready from its pin function to the delay after it,
\* and the level it stored lasts as long.
Pin3Inv ==
  /\ pc[TogglePC3_Thread] # "body" => at[TogglePC3_Thread] \in {2, 4}
  /\ at[TogglePC3_Thread] \in {2, 4} /\ pc[TogglePC3_Thread] = "body" =>
       PrioArg[TogglePC3_Thread] \in OS_ReadySet
  /\ \/ at[TogglePC3_Thread] = 2
     \/ at[TogglePC3_Thread] = 1 /\ stage[TogglePC3_Thread] = "release"
     => 3 \in GPIOC_ODR
  /\ \/ at[TogglePC3_Thread] = 4
     \/ at[TogglePC3_Thread] = 3 /\ stage[TogglePC3_Thread] = "release"
     => 3 \notin GPIOC_ODR

\* The toggling thread is at a pin function or at a delay.
LEMMA ToggleStatements ==
  ASSUME AtInv
  PROVE  /\ at[TogglePC3_Thread] \in 1 .. 4
         /\ Len(Loop(TogglePC3_Thread)) = 4
         /\ at[TogglePC3_Thread] \in {1, 3} =>
              Statement(TogglePC3_Thread).call = "Pin"
         /\ at[TogglePC3_Thread] \in {2, 4} =>
              Statement(TogglePC3_Thread).call = "OS_msDelay"
<1> USE ApplicationThreads, ContextsDiffer DEF TCBs, AtInv
<1>1. Loop(TogglePC3_Thread) = TogglePC3_Main
  BY DEF Loop
<1>2. Len(TogglePC3_Main) = 4
  BY DEF TogglePC3_Main
<1>3. at[TogglePC3_Thread] \in 1 .. 4
  BY <1>1, <1>2
<1>4. /\ TogglePC3_Main[1].call = "Pin" /\ TogglePC3_Main[3].call = "Pin"
      /\ TogglePC3_Main[2].call = "OS_msDelay"
      /\ TogglePC3_Main[4].call = "OS_msDelay"
  BY DEF TogglePC3_Main, Pin, Delay
<1> QED
  BY <1>1, <1>2, <1>3, <1>4 DEF Statement

\* When the toggling thread advances, it comes from a pin function to a delay
\* or from a delay to a pin function.
LEMMA ToggleAdvances ==
  ASSUME AtInv, Advance(TogglePC3_Thread)
  PROVE  /\ at[TogglePC3_Thread] = 1 => at'[TogglePC3_Thread] = 2
         /\ at[TogglePC3_Thread] = 2 => at'[TogglePC3_Thread] = 3
         /\ at[TogglePC3_Thread] = 3 => at'[TogglePC3_Thread] = 4
         /\ at[TogglePC3_Thread] = 4 => at'[TogglePC3_Thread] = 1
<1>1. TogglePC3_Thread \in DOMAIN at
  BY ApplicationThreads DEF AtInv, TCBs
<1>2. at'[TogglePC3_Thread] = (at[TogglePC3_Thread] % 4) + 1
  BY <1>1, ToggleStatements DEF Advance
<1> QED
  BY <1>2

\* A step of another context leaves the toggling thread where it is.
LEMMA Pin3OtherStep ==
  ASSUME SchedHypotheses, SchedInv, PortInv, Pin3Inv, AppNext,
         at'[TogglePC3_Thread] = at[TogglePC3_Thread],
         stage'[TogglePC3_Thread] = stage[TogglePC3_Thread],
         pc'[TogglePC3_Thread] = pc[TogglePC3_Thread],
         3 \in GPIOC_ODR' <=> 3 \in GPIOC_ODR
  PROVE  Pin3Inv'
<1>1. PrioArg[TogglePC3_Thread] \in OS_ReadySet /\ pc[TogglePC3_Thread] = "body" =>
        PrioArg[TogglePC3_Thread] \in OS_ReadySet'
  BY ReadyUntilDelay DEF PortInv
<1> QED
  BY <1>1 DEF Pin3Inv

\* The kernel's steps move the program counter of the running context only.
LEMMA OtherContextsWait ==
  ASSUME SchedInv, NEW c \in Contexts, NEW d \in Contexts, c # d,
         NEW from, NEW to, Goto(c, from, to)
  PROVE  pc'[d] = pc[d]
BY DEF Goto, SchedInv, KernelInv, TypeOK

LEMMA Pin3Step ==
  ASSUME SchedHypotheses
  PROVE  SchedInv /\ PortInv /\ Pin10Inv /\ Pin3Inv /\ [AppNext]_<<vars, appVars>>
           => Pin3Inv'
<1> SUFFICES ASSUME SchedInv, PortInv, Pin10Inv, Pin3Inv, [AppNext]_<<vars, appVars>>
             PROVE  Pin3Inv'
  OBVIOUS
<1> USE ApplicationThreads, ContextsDiffer
<1>a. /\ AtInv
      /\ TogglePC3_Thread \in TCBs /\ IdleThread \in TCBs
      /\ TogglePC3_Thread \in Contexts /\ Main \in Contexts
      /\ TogglePC3_Thread # IdleThread /\ TogglePC3_Thread # Main
  BY DEF PortInv, TCBs, Contexts
<1>b. DOMAIN stage = TCBs /\ DOMAIN at = TCBs
  BY DEF PortInv, AtInv
<1>1. CASE UNCHANGED <<vars, appVars>>
  BY <1>1 DEF Pin3Inv, vars, appVars
<1> SUFFICES ASSUME AppNext
             PROVE  Pin3Inv'
  BY <1>1
<1>2. CASE UNCHANGED appVars /\ pc'[TogglePC3_Thread] = pc[TogglePC3_Thread]
  BY <1>2, Pin3OtherStep DEF appVars
<1>3. CASE StartThreads \/ RunThreads
  <2>1. pc'[TogglePC3_Thread] = pc[TogglePC3_Thread]
    BY <1>3, <1>a, OtherContextsWait DEF StartThreads, RunThreads, CallOSThread_Start,
       OSThread_StartRegister, OSThread_StartPrio, OSThread_StartReady,
       OS_RunDisable, CallOS_Sched, CallEnable_Irq
  <2> QED
    BY <1>2, <1>3, <2>1 DEF StartThreads, RunThreads
<1>4. CASE Hardware
  BY <1>2, <1>4 DEF Hardware, SysTickReload, PendSV_Handler
<1>5. CASE PulsePC2
  <2>1. 3 \in GPIOC_ODR' <=> 3 \in GPIOC_ODR
    BY <1>5 DEF PulsePC2, Drive
  <2> QED
    BY <1>5, <2>1, Pin3OtherStep DEF PulsePC2, SysTick_Handler
<1>6. ASSUME NEW t \in TCBs, Body(t)
      PROVE  Pin3Inv'
  <2>1. UNCHANGED vars /\ Running = t /\ ~ExceptionDue /\ pc[t] = "body"
    BY <1>6 DEF Body, InBody, WriteLed, AcquirePortResource, LoadPortC, StorePortC,
       ReleasePortResource, WaitForInterrupt
  <2>2. UNCHANGED pc
    BY <2>1 DEF vars
  <2>3. ASSUME t # TogglePC3_Thread, UNCHANGED GPIOC_ODR
        PROVE  Pin3Inv'
    <3>1. /\ at'[TogglePC3_Thread] = at[TogglePC3_Thread]
          /\ stage'[TogglePC3_Thread] = stage[TogglePC3_Thread]
      BY <1>6, <1>a, <1>b, <2>3 DEF Body, WriteLed, AcquirePortResource, LoadPortC,
         StorePortC, ReleasePortResource, WaitForInterrupt, Advance
    <3> QED
      BY <2>2, <2>3, <3>1, Pin3OtherStep
  <2>4. ASSUME t = TogglePC3_Thread, Statement(t).call = "Pin"
        PROVE  at[t] = 1 \/ at[t] = 3
    BY <2>4, <1>a, PinCalls
  <2>5. ASSUME WriteLed(t) \/ WaitForInterrupt(t)
        PROVE  Pin3Inv'
    <3>1. t # TogglePC3_Thread
      <4>1. Statement(t).call \in {"Led", "Wait_For_Interrupt"}
        BY <2>5 DEF WriteLed, WaitForInterrupt, InBody
      <4> QED
        BY <4>1, <1>a, ToggleStatements
    <3> QED
      BY <2>3, <2>5, <3>1 DEF WriteLed, WaitForInterrupt
  <2>6. ASSUME AcquirePortResource(t) \/ LoadPortC(t)
        PROVE  Pin3Inv'
    <3>1. CASE t = TogglePC3_Thread
      <4>1. stage'[t] # "release" /\ UNCHANGED <<at, GPIOC_ODR>>
        BY <2>6, <1>b DEF AcquirePortResource, LoadPortC
      <4>2. at[t] = 1 \/ at[t] = 3
        BY <2>4, <2>6, <3>1 DEF AcquirePortResource, LoadPortC, InBody
      <4> QED
        BY <2>1, <2>2, <3>1, <4>1, <4>2 DEF Pin3Inv
    <3> QED
      BY <2>3, <2>6, <3>1 DEF AcquirePortResource, LoadPortC
  <2>7. ASSUME StorePortC(t)
        PROVE  Pin3Inv'
    <3>1. UNCHANGED at
      BY <2>7 DEF StorePortC
    <3>2. CASE t = TogglePC3_Thread
      <4>1. \/ at[t] = 1 /\ 3 \in GPIOC_ODR'
            \/ at[t] = 3 /\ 3 \notin GPIOC_ODR'
        BY <2>7, <3>2, <1>a, StoredValue
      <4> QED
        BY <2>1, <2>2, <3>1, <3>2, <4>1 DEF Pin3Inv
    <3>3. CASE t = IdleThread
      <4>1. OS_ReadySet = {}
        BY <2>1, <3>3, IdleAlone
      <4>2. stage[TogglePC3_Thread] = "acquire"
        BY <4>1 DEF Pin10Inv
      <4>3. pc[TogglePC3_Thread] = "body"
        BY <2>1, <3>3, <1>a DEF Running, SchedInv, MaskInv
      <4>4. at[TogglePC3_Thread] \notin {2, 4}
        BY <4>1, <4>3 DEF Pin3Inv
      <4>5. stage'[TogglePC3_Thread] = stage[TogglePC3_Thread]
        BY <2>7, <3>3, <1>a, <1>b DEF StorePortC
      <4> QED
        BY <2>2, <3>1, <4>2, <4>3, <4>4, <4>5 DEF Pin3Inv
    <3> QED
      BY <2>7, <3>2, <3>3, <1>a, StoredValue
  <2>8. ASSUME ReleasePortResource(t)
        PROVE  Pin3Inv'
    <3>1. /\ Statement(t).call = "Pin" /\ stage[t] = "release" /\ Advance(t)
          /\ stage' = [stage EXCEPT ![t] = "acquire"]
          /\ UNCHANGED GPIOC_ODR
      BY <2>8 DEF ReleasePortResource, InBody
    <3>2. CASE t = TogglePC3_Thread
      <4>1. PrioArg[t] \in OS_ReadySet'
        BY <2>1, <3>2, BodyIsReady DEF vars
      <4>2. \/ at[t] = 1 /\ at'[t] = 2
            \/ at[t] = 3 /\ at'[t] = 4
        BY <2>4, <3>1, <3>2, <1>a, ToggleAdvances
      <4> QED
        BY <2>1, <2>2, <3>1, <3>2, <4>1, <4>2 DEF Pin3Inv
    <3> QED
      BY <2>3, <3>1, <3>2
  <2> QED
    BY <1>6, <2>5, <2>6, <2>7, <2>8 DEF Body
<1>7. ASSUME NEW t \in Threads, DelayThread(t)
      PROVE  Pin3Inv'
  <2>1. UNCHANGED appVars
    BY <1>7 DEF DelayThread
  <2>2. CASE t = TogglePC3_Thread
    <3>1. at[t] \in {2, 4}
      BY <1>7, <2>2, <1>a, ToggleStatements DEF DelayThread
    <3>2. pc'[t] # "body"
      BY <1>7, <2>2, <1>a DEF DelayThread, OS_msDelayDisable, OS_msDelayTimeOut,
         OS_msDelayUnready, OS_msDelayDelay, CallOS_Sched, Goto, SchedInv, KernelInv,
         TypeOK
    <3> QED
      BY <2>1, <2>2, <3>1, <3>2 DEF Pin3Inv, appVars
  <2>3. CASE t # TogglePC3_Thread
    <3>1. t \in Contexts
      BY DEF Contexts, TCBs
    <3>2. pc'[TogglePC3_Thread] = pc[TogglePC3_Thread]
      BY <1>7, <2>3, <3>1, <1>a, OtherContextsWait DEF DelayThread, OS_msDelayDisable,
         OS_msDelayTimeOut, OS_msDelayUnready, OS_msDelayDelay, CallOS_Sched
    <3> QED
      BY <1>2, <2>1, <3>2
  <2> QED
    BY <2>2, <2>3
<1>8. ASSUME NEW t \in Threads, ReturnFromDelay(t)
      PROVE  Pin3Inv'
  <2>1. /\ Goto(t, "enable", "body") /\ Advance(t)
        /\ UNCHANGED <<GPIOC_ODR, stage>>
    BY <1>8 DEF ReturnFromDelay, CallEnable_Irq
  <2>2. CASE t = TogglePC3_Thread
    <3>1. at[t] \in {2, 4}
      BY <2>1, <2>2 DEF Pin3Inv, Goto
    <3>2. PrioArg[t] \notin OS_ReadySet
      BY <2>1, InsideDelay DEF SchedInv, PlacesInv, Goto
    <3>3. stage'[t] = "acquire"
      BY <2>1, <2>2, <3>2 DEF Pin10Inv
    <3>4. at'[t] \in {1, 3}
      BY <2>1, <2>2, <3>1, <1>a, ToggleAdvances
    <3>5. pc'[t] = "body"
      BY <2>1, <2>2, <1>a DEF Goto, SchedInv, KernelInv, TypeOK
    <3> QED
      BY <2>2, <3>3, <3>4, <3>5 DEF Pin3Inv
  <2>3. CASE t # TogglePC3_Thread
    <3>1. t \in Contexts /\ t \in TCBs
      BY DEF Contexts, TCBs
    <3>2. pc'[TogglePC3_Thread] = pc[TogglePC3_Thread]
      BY <2>1, <2>3, <3>1, <1>a, OtherContextsWait
    <3>3. at'[TogglePC3_Thread] = at[TogglePC3_Thread]
      BY <2>1, <2>3, <1>a, <1>b DEF Advance
    <3> QED
      BY <2>1, <3>2, <3>3, Pin3OtherStep
  <2> QED
    BY <2>2, <2>3
<1> QED
  BY <1>3, <1>4, <1>5, <1>6, <1>7, <1>8 DEF AppNext

\* From the end of its pin function until it sleeps, the toggling thread finds
\* pin 3 at the level it gave it, whoever preempts it: a write of the idle
\* thread that spoils the pin is at least a delay away (App.c:41-50,
\* Gpio.c:110-132).
THEOREM PC3UntilDelayAlways ==
  ASSUME PrioArg[Blinky_Thread] # PrioArg[TogglePC3_Thread], PendSVPrio = 0
  PROVE  AppSpec => []PC3UntilDelay
<1>1. AppInit => SchedInv /\ PortInv /\ Pin10Inv /\ Pin3Inv
  <2> SUFFICES ASSUME AppInit PROVE Pin3Inv
    BY PinsInit
  <2>1. TogglePC3_Thread \in TCBs /\ TogglePC3_Thread # Main
    BY ApplicationThreads, ContextsDiffer DEF TCBs
  <2>2. at[TogglePC3_Thread] = 1 /\ stage[TogglePC3_Thread] = "acquire"
    BY <2>1 DEF AppInit
  <2>3. pc[TogglePC3_Thread] = "body"
    BY <2>1 DEF AppInit, Init, Contexts
  <2> QED
    BY <2>2, <2>3 DEF Pin3Inv
<1>2. SchedInv /\ PortInv /\ Pin10Inv /\ Pin3Inv /\ [AppNext]_<<vars, appVars>>
        => SchedInv' /\ PortInv' /\ Pin10Inv' /\ Pin3Inv'
  BY AppHypotheses, PinsStep, Pin3Step
<1>3. Pin3Inv => PC3UntilDelay
  BY DEF Pin3Inv, PC3UntilDelay
<1> QED
  BY <1>1, <1>2, <1>3, PTL DEF AppSpec
=============================================================================
