--------------------------- MODULE HandlersProofs ---------------------------
(***************************************************************************)
(* The handlers taken step by step have the effects module Os gives them,  *)
(* for any threads, sets, timeouts, widths and priorities, also those with *)
(* which SysTick interrupts PendSV_Handler; and what PendSV_Handler does   *)
(* to the stack pointer and to OS_Curr is one switch.                      *)
(***************************************************************************)
EXTENDS Handlers, OsProofs

(***************************************************************************)
(* The invariant: that of the kernel, as far as it holds in the middle of  *)
(* PendSV_Handler, and what is known of the handlers.                      *)
(***************************************************************************)

\* MainInv, but for the mask that PendSV_Handler sets itself.
MainThenInv ==
  /\ starting # NULL <=> pc[Main] \in {"register", "prio", "ready"}
  /\ OS_Curr = NULL /\ pc[Main] \in {"main", "register", "prio", "ready"} => ~primaskThen
  /\ pc[Main] \in {"prio", "ready"} => OS_Thread[PrioOf(starting)] = starting

\* PointersInv; and there is a thread to switch to while one is needed.
RegisteredInv ==
  /\ OS_Curr # NULL => OS_Thread[PrioOf(OS_Curr)] = OS_Curr
  /\ OS_Next # NULL =>
       /\ OS_Thread[PrioOf(OS_Next)] = OS_Next
       /\ Needed \/ OS_Curr # NULL
  /\ Needed => OS_Next # NULL

\* The working set is part of the delayed set, and empty outside the handler.
WorkingSetInv ==
  /\ ticking \in BOOLEAN
  /\ pendingDelayedThreads \subseteq OS_DelayedSet
  /\ ~ticking => pendingDelayedThreads = {}

\* The tick can come where PendSV_Handler does not mask it.
StageInv ==
  /\ switching \in {"off", "entered", "masked", "loaded", "stored", "unmasked"}
  /\ switching \in {"entered", "unmasked"} \/ ticking => ~primask
  /\ switching \in {"masked", "loaded", "stored"} => primask

\* The stack is the running context's, and in between the next one's.
StackInv == stack = IF switching = "loaded" THEN OS_Next ELSE Running

HandlersInv ==
  /\ TypeOK
  /\ MainThenInv
  /\ TableInv
  /\ BitsInv
  /\ RegisteredInv
  /\ FirstInv
  /\ WorkingSetInv
  /\ StageInv
  /\ StackInv

\* Outside PendSV_Handler the kernel's invariant holds.
LEMMA OutsideIsKernelInv == HandlersInv /\ switching = "off" => KernelInv
BY DEF HandlersInv, KernelInv, MainThenInv, MainInv, primaskThen, RegisteredInv,
   PointersInv, Needed

\* The thread the loop comes to is a control block, its bit is the bit it was
\* found by, and that bit is in the working set.
LEMMA VisitedThread ==
  ASSUME HandlersInv, pendingDelayedThreads # {}
  PROVE  /\ Thread \in TCBs
         /\ Prio[Thread] \in pendingDelayedThreads
         /\ Prio[Thread] \in 1 .. MaxPrio
         /\ OS_Thread[Prio[Thread]] = Thread
         /\ ThreadBit = {Prio[Thread]}
<1>1. pendingDelayedThreads \in SUBSET (1 .. MaxPrio)
  BY DEF HandlersInv, WorkingSetInv, TypeOK
<1>2. LOG2(pendingDelayedThreads) \in pendingDelayedThreads
  BY <1>1, LOG2IsHighestBit
<1>3. /\ LOG2(pendingDelayedThreads) \in 1 .. MaxPrio
      /\ LOG2(pendingDelayedThreads) \in 0 .. MaxPrio
      /\ LOG2(pendingDelayedThreads) # 0
  <2>1. LOG2(pendingDelayedThreads) \in 1 .. MaxPrio
    BY <1>1, <1>2
  <2> QED
    BY <2>1
<1>4. Thread \in TCBs /\ Prio[Thread] = LOG2(pendingDelayedThreads)
  BY <1>2, <1>3 DEF Thread, HandlersInv, WorkingSetInv, TypeOK, BitsInv
<1> QED
  BY <1>2, <1>3, <1>4 DEF ThreadBit, Thread, Bits

\* The threads the loop has still to visit, and their bits.
LEMMA ThreadsLeft ==
  ASSUME HandlersInv
  PROVE  /\ Left \subseteq TCBs
         /\ \A t \in Left :
              /\ Prio[t] \in pendingDelayedThreads /\ Prio[t] # 0
              /\ OS_Thread[Prio[t]] = t
<1>1. \A p \in pendingDelayedThreads :
        /\ p # 0
        /\ OS_Thread[p] \in TCBs
        /\ Prio[OS_Thread[p]] = p
  BY BoundsAreNaturals DEF HandlersInv, WorkingSetInv, TypeOK, BitsInv
<1> QED
  BY <1>1 DEF Left

\* What the kernel knows of its call of OS_Sched holds in a handler too.
LEMMA HandlerFindsThread ==
  ASSUME HandlersInv, OS_Sched(OS_ReadySet)
  PROVE  /\ UNCHANGED <<OS_Next, pendsv>> \/ (pendsv' = TRUE /\ OS_Next' \in TCBs
                                               /\ OS_Thread[PrioOf(OS_Next')] = OS_Next')
         /\ OS_Thread[0] # IdleThread => UNCHANGED <<OS_Next, pendsv>>
BY SchedFindsThread DEF HandlersInv, TypeOK, BitsInv, FirstInv

\* The tick begins: the working set is the delayed set.
LEMMA EnterSysTickKeeps == HandlersInv /\ EnterSysTick => HandlersInv'
<1> SUFFICES ASSUME HandlersInv, EnterSysTick
             PROVE  HandlersInv'
  OBVIOUS
<1>1. millisec_counter' \in 0 .. MsMax
  BY BoundsAreNaturals DEF EnterSysTick, After, HandlersInv, TypeOK
<1>2. TypeOK'
  BY <1>1 DEF EnterSysTick, HandlersInv, TypeOK
<1>3. MainThenInv' /\ TableInv' /\ BitsInv' /\ RegisteredInv' /\ FirstInv'
  BY DEF EnterSysTick, switchVars, HandlersInv, MainThenInv, primaskThen, TableInv,
     BitsInv,
     RegisteredInv, Needed, FirstInv, PrioOf
<1>4. WorkingSetInv' /\ StageInv' /\ StackInv'
  BY DEF EnterSysTick, switchVars, HandlersInv, WorkingSetInv, StageInv, StackInv,
     Running
<1> QED
  BY <1>2, <1>3, <1>4 DEF HandlersInv

LEMMA VisitKeeps == HandlersInv /\ Visit => HandlersInv'
<1> SUFFICES ASSUME HandlersInv, Visit
             PROVE  HandlersInv'
  OBVIOUS
<1> USE ContextsDiffer, BoundsAreNaturals
<1> DEFINE bit == Prio[Thread]
<1>1. /\ Thread \in TCBs
      /\ bit \in pendingDelayedThreads
      /\ bit \in 1 .. MaxPrio
      /\ OS_Thread[bit] = Thread
      /\ ThreadBit = {bit}
  BY VisitedThread DEF Visit
<1>2. TimeOut' \in [TCBs -> 0 .. TickMax]
  <2>1. \A n \in 0 .. TickMax : Decrement(n) \in 0 .. TickMax
    BY DEF Decrement
  <2> QED
    BY <1>1, <2>1 DEF Visit, HandlersInv, TypeOK
<1>3. /\ OS_ReadySet' \subseteq OS_ReadySet \cup {bit}
      /\ OS_DelayedSet' \subseteq OS_DelayedSet
      /\ OS_DelayedSet \ {bit} \subseteq OS_DelayedSet'
      /\ due' \in [TCBs -> 0 .. MsMax]
  <2>1. [due EXCEPT ![Thread] = 0] \in [TCBs -> 0 .. MsMax] /\ due \in [TCBs -> 0 .. MsMax]
    <3>1. due \in [TCBs -> 0 .. MsMax]
      BY DEF HandlersInv, TypeOK
    <3>2. 0 \in 0 .. MsMax
      OBVIOUS
    <3> QED
      BY <1>1, <3>1, <3>2
  <2>2. CASE TimeOut'[Thread] = 0
    BY <1>1, <2>1, <2>2 DEF Visit
  <2>3. CASE TimeOut'[Thread] # 0
    BY <1>1, <2>1, <2>3 DEF Visit
  <2> QED
    BY <2>2, <2>3
<1>4. TypeOK'
  BY <1>1, <1>2, <1>3 DEF Visit, HandlersInv, TypeOK
<1>5. BitsInv'
  BY <1>1, <1>3 DEF Visit, HandlersInv, BitsInv, TypeOK, TCBs
<1>6. MainThenInv' /\ TableInv' /\ RegisteredInv'
  BY DEF Visit, switchVars, HandlersInv, MainThenInv, primaskThen, TableInv,
     RegisteredInv,
     Needed, PrioOf
<1>7. FirstInv'
  <2>1. OS_DelayedSet # {}
    BY <1>1 DEF HandlersInv, WorkingSetInv
  <2> QED
    BY <2>1 DEF Visit, HandlersInv, FirstInv
<1>8. WorkingSetInv'
  BY <1>1, <1>3 DEF Visit, Remaining, HandlersInv, WorkingSetInv
<1>9. StageInv' /\ StackInv'
  BY DEF Visit, switchVars, HandlersInv, StageInv, StackInv, Running
<1> QED
  BY <1>4, <1>5, <1>6, <1>7, <1>8, <1>9 DEF HandlersInv

LEMMA LeaveSysTickKeeps == HandlersInv /\ LeaveSysTick => HandlersInv'
<1> SUFFICES ASSUME HandlersInv, LeaveSysTick
             PROVE  HandlersInv'
  OBVIOUS
<1> USE ContextsDiffer
<1>1. /\ UNCHANGED <<OS_Next, pendsv>> \/ (pendsv' = TRUE /\ OS_Next' \in TCBs
                                            /\ OS_Thread[PrioOf(OS_Next')] = OS_Next')
      /\ OS_Thread[0] # IdleThread => UNCHANGED <<OS_Next, pendsv>>
  BY HandlerFindsThread DEF LeaveSysTick
<1>2. TypeOK'
  BY <1>1 DEF LeaveSysTick, HandlersInv, TypeOK
<1>3. MainThenInv' /\ TableInv' /\ BitsInv' /\ FirstInv'
  BY <1>1 DEF LeaveSysTick, switchVars, HandlersInv, MainThenInv, primaskThen, TableInv,
     BitsInv, FirstInv, PrioOf
<1>4. RegisteredInv'
  BY <1>1 DEF LeaveSysTick, switchVars, HandlersInv, RegisteredInv, Needed, TCBs, PrioOf
<1>5. switching # "loaded"
  BY DEF LeaveSysTick, HandlersInv, StageInv
<1>6. WorkingSetInv' /\ StageInv' /\ StackInv'
  BY <1>5 DEF LeaveSysTick, switchVars, HandlersInv, WorkingSetInv, StageInv,
     StackInv, Running
<1> QED
  BY <1>2, <1>3, <1>4, <1>6 DEF HandlersInv

\* PendSV_Handler loads OS_Next twice and finds the same thread, for it has
\* masked the tick.
LEMMA PendSVKeeps == HandlersInv /\ (EnterPendSV \/ PendSVInstruction) => HandlersInv'
<1> SUFFICES ASSUME HandlersInv, EnterPendSV \/ PendSVInstruction
             PROVE  HandlersInv'
  OBVIOUS
<1> USE ContextsDiffer
<1>u. UNCHANGED <<OS_Next, OS_Thread, Prio, TimeOut, OS_ReadySet, OS_DelayedSet,
                  millisec_counter, pendst, pc, unstarted, starting, due, tickVars>>
  BY DEF EnterPendSV, PendSVInstruction, PendSVDisable, PendSVStack, PendSVCurr,
     PendSVEnable,
     PendSVReturn, PendSVStep, Untouched
<1>1. CASE EnterPendSV
  BY <1>u, <1>1 DEF EnterPendSV, tickVars, HandlersInv, TypeOK, MainThenInv,
     primaskThen,
     TableInv, BitsInv, RegisteredInv, Needed, FirstInv, WorkingSetInv, StageInv,
     StackInv, Running, PrioOf
<1>2. CASE PendSVDisable
  BY <1>u, <1>2 DEF PendSVDisable, PendSVStep, tickVars, HandlersInv, TypeOK,
     MainThenInv,
     primaskThen, TableInv, BitsInv, RegisteredInv, Needed, FirstInv, WorkingSetInv,
     StageInv, StackInv, Running, PrioOf
<1>3. CASE PendSVStack
  BY <1>u, <1>3 DEF PendSVStack, PendSVStep, tickVars, HandlersInv, TypeOK, MainThenInv,
     primaskThen, TableInv, BitsInv, RegisteredInv, Needed, FirstInv, WorkingSetInv,
     StageInv, StackInv, PrioOf
<1>4. CASE PendSVCurr
  <2>1. OS_Curr' = OS_Next /\ OS_Next # NULL /\ switching' = "stored" /\ stack' = OS_Next
    BY <1>4 DEF PendSVCurr, PendSVStep, HandlersInv, RegisteredInv, Needed, StackInv
  <2>2. OS_Thread[0] = IdleThread
    BY <2>1 DEF HandlersInv, FirstInv
  <2> QED
    BY <1>u, <1>4, <2>1, <2>2 DEF PendSVCurr, PendSVStep, tickVars, HandlersInv, TypeOK,
       MainThenInv, primaskThen, TableInv, BitsInv, RegisteredInv, Needed, FirstInv,
       WorkingSetInv, StageInv, StackInv, Running, PrioOf
<1>5. CASE PendSVEnable
  BY <1>u, <1>5 DEF PendSVEnable, PendSVStep, tickVars, HandlersInv, TypeOK,
     MainThenInv,
     primaskThen, TableInv, BitsInv, RegisteredInv, Needed, FirstInv, WorkingSetInv,
     StageInv, StackInv, Running, PrioOf
<1>6. CASE PendSVReturn
  BY <1>u, <1>6 DEF PendSVReturn, PendSVStep, tickVars, HandlersInv, TypeOK,
     MainThenInv,
     primaskThen, TableInv, BitsInv, RegisteredInv, Needed, FirstInv, WorkingSetInv,
     StageInv, StackInv, Running, PrioOf
<1> QED
  BY <1>1, <1>2, <1>3, <1>4, <1>5, <1>6 DEF PendSVInstruction

LEMMA ElsewhereKeeps == HandlersInv /\ Elsewhere => HandlersInv'
<1> SUFFICES ASSUME HandlersInv, Elsewhere
             PROVE  HandlersInv'
  OBVIOUS
<1> USE ContextsDiffer
<1>1. switching = "off" /\ UNCHANGED <<ticking, pendingDelayedThreads, switching, stack>>
  BY DEF Elsewhere, tickVars, switchVars
<1>2. KernelInv /\ KernelInv'
  <2>1. KernelInv
    BY <1>1, OutsideIsKernelInv
  <2>2. [Next]_vars
    BY DEF Elsewhere, Next
  <2> QED
    BY <2>1, <2>2, KernelStep
<1>3. TypeOK' /\ TableInv' /\ BitsInv' /\ FirstInv'
  BY <1>2 DEF KernelInv
<1>4. MainThenInv'
  BY <1>2 DEF KernelInv, MainInv, MainThenInv, primaskThen
<1>5. OS_Curr' = OS_Curr /\ ~ticking /\ (pendingDelayedThreads = {})
  BY DEF Elsewhere, MainStep, CallOSThread_Start, OSThread_StartRegister,
     OSThread_StartPrio,
     OSThread_StartReady,
     OS_RunDisable, OS_msDelay, OS_msDelayDisable, OS_msDelayTimeOut, OS_msDelayUnready,
     OS_msDelayDelay, CallOS_Sched, CallEnable_Irq, HandlersInv, WorkingSetInv
<1>6. RegisteredInv'
  BY <1>1, <1>2 DEF KernelInv, PointersInv, RegisteredInv, Needed
<1>7. WorkingSetInv' /\ StageInv' /\ StackInv'
  BY <1>1, <1>5 DEF HandlersInv, WorkingSetInv, StageInv, StackInv, Running
<1> QED
  BY <1>3, <1>4, <1>6, <1>7 DEF HandlersInv

LEMMA HandlersStep == HandlersInv /\ [HandlersNext]_allVars => HandlersInv'
<1> SUFFICES ASSUME HandlersInv, [HandlersNext]_allVars
             PROVE  HandlersInv'
  OBVIOUS
<1>1. CASE Reload \/ UNCHANGED allVars
  <2>1. /\ UNCHANGED <<OS_Curr, OS_Next, OS_Thread, Prio, TimeOut, OS_ReadySet, OS_DelayedSet,
                       millisec_counter, primask, pendsv, pc, unstarted, starting, due>>
        /\ UNCHANGED <<ticking, pendingDelayedThreads, switching, stack>>
        /\ pendst' \in BOOLEAN
    BY <1>1 DEF Reload, SysTickReload, allVars, vars, tickVars, switchVars,
       HandlersInv, TypeOK
  <2> QED
    BY <2>1 DEF HandlersInv, TypeOK, MainThenInv, primaskThen, TableInv, BitsInv,
       RegisteredInv,
       Needed, FirstInv, WorkingSetInv, StageInv, StackInv, Running, PrioOf
<1> QED
  BY <1>1, EnterSysTickKeeps, VisitKeeps, LeaveSysTickKeeps, PendSVKeeps, ElsewhereKeeps
     DEF HandlersNext

LEMMA HandlersInitInv == HandlersInit => HandlersInv
<1> SUFFICES ASSUME HandlersInit
             PROVE  HandlersInv
  OBVIOUS
<1>1. KernelInv
  BY KernelInit DEF HandlersInit
<1>2. MainThenInv /\ RegisteredInv
  BY <1>1 DEF HandlersInit, Init, KernelInv, MainInv, MainThenInv, primaskThen,
     RegisteredInv,
     Needed
<1>3. WorkingSetInv /\ StageInv /\ StackInv
  BY DEF HandlersInit, Init, WorkingSetInv, StageInv, StackInv, Running
<1> QED
  BY <1>1, <1>2, <1>3 DEF KernelInv, HandlersInv

\* At every step of either handler, one that interrupts OSThread_Start between two
\* statements included, the table, the words, the pointers, the mask and the stack
\* fit together, whichever of the two is more urgent and whatever the priorities.
THEOREM HandlersInvariant == HandlersSpec => []HandlersInv
<1> QED
  BY HandlersInitInv, HandlersStep, PTL DEF HandlersSpec

\* The stack is that of the thread OS_Curr says is running (Os.c:326-338).
THEOREM OneStackAlways == HandlersSpec => []OneStack
<1>1. HandlersInv => OneStack
  BY DEF HandlersInv, StackInv, OneStack
<1> QED
  BY <1>1, HandlersInvariant, PTL

\* Every turn of the loop takes a bit out of the working set, which is finite:
\* SysTick_Handler comes to its end (Os.c:170-187).
THEOREM LoopShrinks ==
  HandlersSpec => [][Visit => /\ pendingDelayedThreads' \subseteq pendingDelayedThreads
                              /\ pendingDelayedThreads' # pendingDelayedThreads]_allVars
<1>1. HandlersInv /\ Visit => /\ pendingDelayedThreads' \subseteq pendingDelayedThreads
                              /\ pendingDelayedThreads' # pendingDelayedThreads
  BY VisitedThread DEF Visit, Remaining
<1> QED
  BY <1>1, HandlersInitInv, HandlersStep, PTL DEF HandlersSpec

(***************************************************************************)
(* The refinement.                                                         *)
(***************************************************************************)

\* With no thread left to visit the kernel is what it will be, but for the
\* call of OS_Sched.
LEMMA NoneLeft ==
  ASSUME TypeOK, pendingDelayedThreads = {}
  PROVE  /\ TimeOutThen = TimeOut
         /\ ReadyThen = OS_ReadySet
         /\ DelayedThen = OS_DelayedSet
         /\ dueThen = due
         /\ ~ticking => NextThen = OS_Next
<1>1. Left = {} /\ Ending = {}
  BY DEF Left, Ending
<1> QED
  BY <1>1 DEF TimeOutThen, ReadyThen, DelayedThen, dueThen, NextThen, Requesting,
     Bits, TypeOK

\* The same of the next state.
LEMMA NoneLeftNext ==
  ASSUME TypeOK', pendingDelayedThreads' = {}
  PROVE  /\ TimeOutThen' = TimeOut'
         /\ ReadyThen' = OS_ReadySet'
         /\ DelayedThen' = OS_DelayedSet'
         /\ dueThen' = due'
         /\ ~ticking' => NextThen' = OS_Next'
<1>1. Left' = {} /\ Ending' = {}
  BY DEF Left, Ending
<1> QED
  BY <1>1 DEF TimeOutThen, ReadyThen, DelayedThen, dueThen, NextThen, Requesting,
     Bits, TypeOK

\* While SysTick_Handler runs, the stage of PendSV_Handler stays what it was.
LEMMA TickKeepsStage ==
  ASSUME HandlersInv, Visit \/ LeaveSysTick \/ EnterSysTick
  PROVE  /\ UNCHANGED <<OS_Curr, OS_Thread, Prio, primask, pc, unstarted, starting, switching>>
         /\ CurrThen' = OS_Curr /\ CurrThen = OS_Curr
         /\ UNCHANGED primaskThen /\ ~primaskThen
BY DEF Visit, LeaveSysTick, EnterSysTick, switchVars, CurrThen, primaskThen,
   HandlersInv, StageInv

\* A visit does what was to be done for its thread, and nothing else.
LEMMA VisitIsStutter ==
  ASSUME HandlersInv, Visit
  PROVE  UNCHANGED Whole!vars
<1> DEFINE Pending == pendingDelayedThreads
<1>1. /\ Thread \in TCBs
      /\ Prio[Thread] \in Pending /\ Prio[Thread] # 0
      /\ OS_Thread[Prio[Thread]] = Thread
      /\ ThreadBit = {Prio[Thread]}
  BY VisitedThread DEF Visit
<1>2. Left' = Left \ {Thread} /\ Thread \in Left
  <2>1. \A p \in Pending : Prio[OS_Thread[p]] = p
    BY DEF HandlersInv, WorkingSetInv, BitsInv
  <2> QED
    BY <1>1, <2>1 DEF Visit, Remaining, Left
<1>3. TimeOut' = [TimeOut EXCEPT ![Thread] = Decrement(TimeOut[Thread])]
  BY DEF Visit
<1>4. \A t \in TCBs : TimeOut'[t] = IF t = Thread THEN Decrement(TimeOut[t]) ELSE TimeOut[t]
  BY <1>3 DEF HandlersInv, TypeOK
<1>5. Left \subseteq TCBs
  BY ThreadsLeft
<1>6. Ending' = Ending \ {Thread}
  BY <1>2, <1>4, <1>5 DEF Ending, Decrement
<1>7. TimeOutThen' = TimeOutThen
  BY <1>2, <1>4, <1>5 DEF TimeOutThen, Decrement
<1>8. ReadyThen' = ReadyThen /\ DelayedThen' = DelayedThen /\ dueThen' = dueThen
  <2>1. CASE Decrement(TimeOut[Thread]) = 0
    <3>1. TimeOut'[Thread] = 0 /\ Thread \in Ending
      BY <1>1, <1>2, <1>4, <2>1 DEF Ending
    <3>2. /\ OS_ReadySet' = OS_ReadySet \cup {Prio[Thread]}
          /\ OS_DelayedSet' = OS_DelayedSet \ {Prio[Thread]}
          /\ due' = [due EXCEPT ![Thread] = 0]
          /\ Prio' = Prio
      BY <1>1, <3>1 DEF Visit
    <3>3. ReadyThen' = ReadyThen /\ DelayedThen' = DelayedThen
      BY <1>1, <1>6, <3>1, <3>2 DEF ReadyThen, DelayedThen, Bits
    <3>4. \A t \in TCBs : due'[t] = IF t = Thread THEN 0 ELSE due[t]
      BY <3>2 DEF HandlersInv, TypeOK
    <3>5. dueThen' = dueThen
      BY <1>6, <3>1, <3>4 DEF dueThen
    <3> QED
      BY <3>3, <3>5
  <2>2. CASE Decrement(TimeOut[Thread]) # 0
    <3>1. TimeOut'[Thread] # 0 /\ Ending' = Ending
      BY <1>1, <1>4, <1>6, <2>2 DEF Ending
    <3>2. UNCHANGED <<OS_ReadySet, OS_DelayedSet, due, Prio>>
      BY <3>1 DEF Visit
    <3> QED
      BY <3>1, <3>2 DEF ReadyThen, DelayedThen, dueThen, Bits
  <2> QED
    BY <2>1, <2>2
<1>9. NextThen' = NextThen /\ CurrThen' = CurrThen /\ primaskThen' = primaskThen
  BY <1>8, TickKeepsStage DEF Visit, NextThen, Requesting, NextThread
<1>10. pendsvThen' = pendsvThen
  BY <1>8, <1>9, TickKeepsStage DEF Visit, pendsvThen, Requesting, NextThread
<1> QED
  BY <1>7, <1>8, <1>9, <1>10 DEF Visit, Whole!vars

\* The end of the handler requests the switch that was to be requested.
LEMMA LeaveIsStutter ==
  ASSUME HandlersInv, LeaveSysTick
  PROVE  UNCHANGED Whole!vars
<1>1. TypeOK /\ TypeOK'
  BY LeaveSysTickKeeps DEF HandlersInv
<1>2. pendingDelayedThreads = {} /\ pendingDelayedThreads' = {} /\ ticking /\ ~ticking'
  BY DEF LeaveSysTick
<1>3. /\ TimeOutThen = TimeOut /\ ReadyThen = OS_ReadySet
      /\ DelayedThen = OS_DelayedSet /\ dueThen = due
  BY <1>1, <1>2, NoneLeft
<1>4. /\ TimeOutThen' = TimeOut' /\ ReadyThen' = OS_ReadySet'
      /\ DelayedThen' = OS_DelayedSet' /\ dueThen' = due'
      /\ NextThen' = OS_Next'
  BY <1>1, <1>2, NoneLeftNext
<1>5. CurrThen' = OS_Curr /\ CurrThen = OS_Curr /\ primaskThen' = primaskThen /\ switching' = switching
  BY TickKeepsStage
<1>6. Requesting <=> NextThread(OS_ReadySet) # OS_Curr
  BY <1>2, <1>3 DEF Requesting
<1>7. NextThen = OS_Next'
  BY <1>3, <1>6 DEF LeaveSysTick, OS_Sched, NextThen
<1>8. pendsvThen' <=> pendsvThen
  <2>1. ~Requesting'
    BY <1>2 DEF Requesting
  <2>2. CASE Requesting
    BY <1>4, <1>5, <1>6, <1>7, <2>1, <2>2 DEF LeaveSysTick, OS_Sched, pendsvThen
  <2>3. CASE ~Requesting
    BY <1>4, <1>5, <1>6, <1>7, <2>1, <2>3 DEF LeaveSysTick, OS_Sched, pendsvThen
  <2> QED
    BY <2>2, <2>3
<1>9. pendsvThen' = pendsvThen
  BY <1>8 DEF pendsvThen
<1> QED
  BY <1>3, <1>4, <1>5, <1>7, <1>9 DEF LeaveSysTick, Whole!vars

\* The effect of the handler shows as soon as it is entered.
LEMMA EnterIsSysTick ==
  ASSUME HandlersInv, EnterSysTick
  PROVE  Whole!Next
<1>1. TypeOK /\ ~ticking /\ ticking' /\ pendingDelayedThreads = {}
  BY DEF HandlersInv, WorkingSetInv, EnterSysTick
<1>2. /\ TimeOutThen = TimeOut /\ ReadyThen = OS_ReadySet
      /\ DelayedThen = OS_DelayedSet /\ dueThen = due
      /\ NextThen = OS_Next
  BY <1>1, NoneLeft
<1>c. CurrThen' = OS_Curr /\ CurrThen = OS_Curr /\ ~primaskThen /\ UNCHANGED <<primaskThen, switching>>
  BY TickKeepsStage
<1>3. Left' = Delayed /\ Whole!Delayed = Delayed
  BY <1>2 DEF EnterSysTick, Left, Delayed, Whole!Delayed
<1>4. Ending' = Expired /\ Whole!Expired = Expired
  BY <1>2, <1>3 DEF EnterSysTick, Ending, Expired, Whole!Expired, Decrement,
     Whole!Decrement
<1>5. Whole!OS_Tick
  BY <1>2, <1>3, <1>4 DEF EnterSysTick, Whole!OS_Tick, TimeOutThen, ReadyThen,
     DelayedThen,
     dueThen, Decrement, Whole!Decrement, TCBs, Whole!TCBs, Bits, Whole!Bits
<1>6. NextThread(ReadyThen)' = NextThread(ReadyThen') /\ OS_Curr' = OS_Curr
  BY DEF EnterSysTick, NextThread
<1>7. Requesting' <=> NextThread(ReadyThen') # OS_Curr
  BY <1>1, <1>6 DEF Requesting
<1>8. Whole!NextThread(ReadyThen') = NextThread(ReadyThen')
  BY DEF NextThread, Whole!NextThread, LOG2, Whole!LOG2, Max, Whole!Max
<1>9. Whole!OS_Sched(ReadyThen')
  <2>1. CASE NextThread(ReadyThen') # OS_Curr
    <3>1. NextThen' = NextThread(ReadyThen')
      BY <1>6, <1>7, <2>1 DEF NextThen
    <3>2. pendsvThen' = TRUE
      BY <1>7, <1>c, <2>1, <3>1 DEF pendsvThen
    <3> QED
      BY <1>8, <1>c, <2>1, <3>1, <3>2 DEF Whole!OS_Sched
  <2>2. CASE NextThread(ReadyThen') = OS_Curr
    <3>1. ~Requesting' /\ ~Requesting /\ UNCHANGED <<OS_Next, pendsv>>
      BY <1>1, <1>7, <2>2 DEF Requesting, EnterSysTick
    <3>2. NextThen' = NextThen
      BY <1>2, <3>1 DEF NextThen
    <3>3. pendsvThen' = pendsvThen
      BY <1>c, <3>1, <3>2 DEF pendsvThen
    <3> QED
      BY <1>8, <1>c, <2>2, <3>2, <3>3 DEF Whole!OS_Sched
  <2> QED
    BY <2>1, <2>2
<1>10. pendsvThen => ~PendSVFirst
  BY <1>1 DEF EnterSysTick, pendsvThen, Requesting
<1>11. Whole!SysTick_Handler
  BY <1>5, <1>9, <1>10, <1>c DEF EnterSysTick, Whole!SysTick_Handler, After,
     Whole!After,
     PendSVFirst, Whole!PendSVFirst, SysTickPrio, Whole!SysTickPrio
<1> QED
  BY <1>11 DEF Whole!Next

\* A step that leaves alone all but the timer's request.
LEMMA Undisturbed ==
  ASSUME UNCHANGED <<OS_Curr, OS_Next, OS_Thread, Prio, TimeOut, OS_ReadySet, OS_DelayedSet,
                     primask, pendsv, due, ticking, pendingDelayedThreads, switching>>
  PROVE  UNCHANGED <<TimeOutThen, ReadyThen, DelayedThen, dueThen, NextThen, CurrThen,
                     primaskThen, pendsvThen>>
<1>1. Left' = Left
  BY DEF Left
<1>2. Ending' = Ending
  BY <1>1 DEF Ending, Decrement
<1>3. UNCHANGED <<TimeOutThen, ReadyThen, DelayedThen, dueThen>>
  BY <1>1, <1>2 DEF TimeOutThen, ReadyThen, DelayedThen, dueThen, Decrement, Bits
<1>4. NextThread(ReadyThen)' = NextThread(ReadyThen)
  BY <1>3 DEF NextThread
<1>5. NextThen' = NextThen /\ Requesting' = Requesting
  BY <1>4 DEF NextThen, Requesting
<1>6. CurrThen' = CurrThen /\ primaskThen' = primaskThen
  BY DEF CurrThen, primaskThen
<1>7. pendsvThen' = pendsvThen
  BY <1>5, <1>6 DEF pendsvThen
<1> QED
  BY <1>3, <1>5, <1>6, <1>7

\* The reload of the timer does not depend on the handlers.
LEMMA ReloadIsReload ==
  ASSUME Reload
  PROVE  Whole!Next
<1>1. Whole!SysTickReload
  BY Undisturbed DEF Reload, SysTickReload, tickVars, switchVars, Whole!SysTickReload
<1> QED
  BY <1>1 DEF Whole!Next

\* Of all the steps of PendSV_Handler only CPSID I shows, unless the handler has
\* been entered once too often.
LEMMA PendSVIsOneStep ==
  ASSUME HandlersInv, EnterPendSV \/ PendSVInstruction
  PROVE  [Whole!Next]_(Whole!vars)
<1>1. UNCHANGED <<OS_Next, OS_Thread, Prio, TimeOut, OS_ReadySet, OS_DelayedSet,
                  millisec_counter, pendst, pc, unstarted, starting, due, ticking,
                  pendingDelayedThreads>>
  BY DEF EnterPendSV, PendSVInstruction, PendSVDisable, PendSVStack, PendSVCurr,
     PendSVEnable,
     PendSVReturn, PendSVStep, Untouched, tickVars
<1>2. ~ticking /\ ~ticking' /\ pendingDelayedThreads = {} /\ pendingDelayedThreads' = {}
  BY <1>1 DEF EnterPendSV, PendSVInstruction, PendSVDisable, PendSVStack, PendSVCurr,
     PendSVEnable, PendSVReturn, PendSVStep, HandlersInv, WorkingSetInv
<1>3. TypeOK /\ TypeOK'
  BY PendSVKeeps DEF HandlersInv
<1>4. /\ UNCHANGED <<TimeOutThen, ReadyThen, DelayedThen, dueThen, NextThen>>
      /\ NextThen = OS_Next /\ NextThen' = OS_Next
  BY <1>1, <1>2, <1>3, NoneLeft, NoneLeftNext
<1>5. ~Requesting /\ ~Requesting'
  BY <1>2 DEF Requesting
<1>6. ASSUME CurrThen' = CurrThen, primaskThen' = primaskThen, pendsvThen' <=> pendsvThen
      PROVE  UNCHANGED Whole!vars
  <2>1. pendsvThen' = pendsvThen
    BY <1>6 DEF pendsvThen
  <2> QED
    BY <1>1, <1>4, <1>6, <2>1 DEF Whole!vars
<1>7. CASE EnterPendSV
  <2>1. CurrThen' = CurrThen /\ primaskThen' = primaskThen
    BY <1>7 DEF EnterPendSV, CurrThen, primaskThen
  <2>2. pendsvThen' <=> pendsvThen
    BY <1>4, <1>5, <1>7, <2>1 DEF EnterPendSV, pendsvThen
  <2> QED
    BY <1>6, <2>1, <2>2
<1>8. CASE PendSVDisable
  <2>1. /\ switching = "entered" /\ switching' = "masked"
        /\ ~primask /\ CurrThen = OS_Curr /\ CurrThen' = OS_Next
        /\ ~primaskThen /\ primaskThen' = primaskThen
    BY <1>1, <1>8 DEF PendSVDisable, PendSVStep, CurrThen, primaskThen, HandlersInv,
       StageInv
  <2>2. pendsvThen <=> OS_Next # OS_Curr
    BY <1>4, <2>1 DEF pendsvThen
  <2>3. ~pendsvThen'
    BY <1>4, <2>1 DEF pendsvThen
  <2>4. CASE OS_Next = OS_Curr
    BY <1>6, <2>1, <2>2, <2>3, <2>4
  <2>5. CASE OS_Next # OS_Curr
    <3>1. pendst => PendSVFirst
      BY <1>8, <2>1 DEF PendSVDisable, PendSVStep
    <3>2. pendsvThen' = FALSE
      BY <2>3 DEF pendsvThen
    <3>3. Whole!PendSV_Handler
      BY <1>1, <1>4, <2>1, <2>2, <2>5, <3>1, <3>2 DEF Whole!PendSV_Handler, PendSVFirst,
         Whole!PendSVFirst, SysTickPrio, Whole!SysTickPrio
    <3> QED
      BY <3>3 DEF Whole!Next
  <2> QED
    BY <2>4, <2>5
<1>9. CASE PendSVStack \/ PendSVCurr \/ PendSVEnable \/ PendSVReturn
  <2>1. /\ switching \notin {"off", "entered"} /\ switching' # "entered" /\ pendsv' = pendsv
        /\ ~primaskThen
    BY <1>9 DEF PendSVStack, PendSVCurr, PendSVEnable, PendSVReturn, PendSVStep,
       primaskThen
  <2>2. CurrThen' = CurrThen
    BY <1>1, <1>9 DEF PendSVStack, PendSVCurr, PendSVEnable, PendSVReturn, PendSVStep,
       CurrThen
  <2>3. ~primaskThen'
    BY <1>9 DEF PendSVStack, PendSVCurr, PendSVEnable, PendSVReturn, PendSVStep,
       primaskThen,
       HandlersInv, StageInv
  <2>4. primaskThen' = primaskThen
    BY <2>1, <2>3 DEF primaskThen
  <2>5. pendsvThen' <=> pendsvThen
    BY <1>4, <1>5, <2>1, <2>2 DEF pendsvThen
  <2> QED
    BY <1>6, <2>2, <2>4, <2>5
<1> QED
  BY <1>7, <1>8, <1>9 DEF PendSVInstruction

\* The rest of the kernel is the same.
LEMMA ElsewhereIsNext ==
  ASSUME HandlersInv, Elsewhere
  PROVE  Whole!Next
<1>1. TypeOK /\ TypeOK'
  BY ElsewhereKeeps DEF HandlersInv
<1>2. /\ ~ticking /\ ~ticking' /\ pendingDelayedThreads = {} /\ pendingDelayedThreads' = {}
      /\ switching = "off" /\ switching' = "off"
  BY DEF HandlersInv, WorkingSetInv, Elsewhere, tickVars, switchVars
<1>3. /\ TimeOutThen = TimeOut /\ ReadyThen = OS_ReadySet
      /\ DelayedThen = OS_DelayedSet /\ dueThen = due
      /\ NextThen = OS_Next /\ CurrThen = OS_Curr /\ primaskThen = primask
  <2>1. primaskThen = primask
    BY <1>1, <1>2 DEF primaskThen, TypeOK
  <2> QED
    BY <1>1, <1>2, <2>1, NoneLeft DEF CurrThen
<1>4. /\ TimeOutThen' = TimeOut' /\ ReadyThen' = OS_ReadySet'
      /\ DelayedThen' = OS_DelayedSet' /\ dueThen' = due'
      /\ NextThen' = OS_Next' /\ CurrThen' = OS_Curr' /\ primaskThen' = primask'
  <2>1. primaskThen' = primask'
    BY <1>1, <1>2 DEF primaskThen, TypeOK
  <2> QED
    BY <1>1, <1>2, <2>1, NoneLeftNext DEF CurrThen
<1>p. /\ pendsvThen = (pendsv /\ OS_Next # OS_Curr)
      /\ pendsvThen' = (pendsv' /\ OS_Next' # OS_Curr')
  BY <1>2, <1>3, <1>4 DEF pendsvThen, Requesting
<1>5. /\ Whole!TCBs = TCBs
      /\ Whole!Running = Running
      /\ \A t : Whole!PrioOf(t) = PrioOf(t)
      /\ \A m, n : Whole!After(m, n) = After(m, n)
      /\ ~ExceptionDue => ~Whole!ExceptionDue
  BY <1>3, <1>p DEF Whole!TCBs, TCBs, Whole!Running, Running, Whole!ExceptionDue,
     ExceptionDue,
     Whole!PrioOf, PrioOf, Whole!After, After
<1>6. \A c, from, to : Goto(c, from, to) => Whole!Goto(c, from, to)
  BY <1>5 DEF Goto, Whole!Goto
<1>7. UNCHANGED <<OS_Next, OS_Curr, pendsv>> => pendsvThen' = pendsvThen
  BY <1>p
<1>8. CASE MainStep
  BY <1>3, <1>4, <1>5, <1>6, <1>7, <1>8 DEF MainStep, CallOSThread_Start,
     OSThread_StartRegister,
     OSThread_StartPrio, OSThread_StartReady, OS_RunDisable, Whole!Next, Whole!MainStep,
     Whole!CallOSThread_Start,
     Whole!OSThread_StartRegister, Whole!OSThread_StartPrio, Whole!OSThread_StartReady,
     Whole!OS_RunDisable
<1>9. ASSUME NEW t \in Threads, OS_msDelay(t)
      PROVE  Whole!Next
  BY <1>3, <1>4, <1>5, <1>6, <1>7, <1>9 DEF OS_msDelay, OS_msDelayDisable,
     OS_msDelayTimeOut,
     OS_msDelayUnready, OS_msDelayDelay, Bits, Whole!Bits, Whole!Next, Whole!OS_msDelay,
     Whole!OS_msDelayDisable, Whole!OS_msDelayTimeOut, Whole!OS_msDelayUnready,
     Whole!OS_msDelayDelay
<1>10. ASSUME NEW c \in Threads \cup {Main}, CallOS_Sched(c)
       PROVE  Whole!Next
  <2>1. Whole!NextThread(ReadyThen) = NextThread(OS_ReadySet)
    BY <1>3 DEF NextThread, Whole!NextThread, LOG2, Whole!LOG2, Max, Whole!Max
  <2>2. Whole!OS_Sched(ReadyThen)
    <3>1. CASE NextThread(OS_ReadySet) # OS_Curr
      <4>1. OS_Next' = NextThread(OS_ReadySet) /\ pendsv' = TRUE /\ OS_Curr' = OS_Curr
        BY <1>10, <3>1 DEF CallOS_Sched, OS_Sched
      <4>2. pendsvThen' = TRUE
        BY <1>p, <3>1, <4>1
      <4> QED
        BY <1>3, <1>4, <2>1, <3>1, <4>1, <4>2 DEF Whole!OS_Sched
    <3>2. CASE NextThread(OS_ReadySet) = OS_Curr
      <4>1. UNCHANGED <<OS_Next, OS_Curr, pendsv>>
        BY <1>10, <3>2 DEF CallOS_Sched, OS_Sched
      <4> QED
        BY <1>3, <1>4, <1>7, <2>1, <3>2, <4>1 DEF Whole!OS_Sched
    <3> QED
      BY <3>1, <3>2
  <2>3. Whole!CallOS_Sched(c)
    BY <1>3, <1>4, <1>6, <1>10, <2>2 DEF CallOS_Sched, Whole!CallOS_Sched
  <2> QED
    BY <2>3 DEF Whole!Next
<1>11. ASSUME NEW c \in Threads \cup {Main}, CallEnable_Irq(c)
       PROVE  Whole!Next
  BY <1>3, <1>4, <1>6, <1>7, <1>11 DEF CallEnable_Irq, Whole!Next, Whole!CallEnable_Irq
<1> QED
  BY <1>8, <1>9, <1>10, <1>11 DEF Elsewhere

\* The handlers that are interrupted, reload by reload and visit by visit,
\* implement the handlers that are one step each, and with them the kernel's
\* specification (Os.c:166-188, 303-349).
THEOREM HandlersImplementOs == HandlersSpec => ImplementsOs
<1>1. HandlersInit => Whole!Init
  <2> SUFFICES ASSUME HandlersInit
               PROVE  Whole!Init
    OBVIOUS
  <2>1. TypeOK /\ ~ticking /\ pendingDelayedThreads = {} /\ switching = "off"
    BY HandlersInitInv DEF HandlersInit, HandlersInv
  <2>2. /\ TimeOutThen = TimeOut /\ ReadyThen = OS_ReadySet
        /\ DelayedThen = OS_DelayedSet /\ dueThen = due
        /\ NextThen = OS_Next
    BY <2>1, NoneLeft
  <2>3. CurrThen = OS_Curr /\ primaskThen = FALSE /\ pendsvThen = FALSE
    BY <2>1, <2>2 DEF HandlersInit, Init, CurrThen, primaskThen, pendsvThen, Requesting
  <2> QED
    BY <2>2, <2>3 DEF HandlersInit, Init, Whole!Init, TCBs, Whole!TCBs, Contexts,
       Whole!Contexts
<1>2. HandlersInv /\ [HandlersNext]_allVars => [Whole!Next]_(Whole!vars)
  <2> SUFFICES ASSUME HandlersInv, [HandlersNext]_allVars
               PROVE  [Whole!Next]_(Whole!vars)
    OBVIOUS
  <2>1. CASE UNCHANGED allVars
    BY <2>1, Undisturbed DEF allVars, vars, tickVars, switchVars, Whole!vars
  <2> QED
    BY <2>1, VisitIsStutter, LeaveIsStutter, EnterIsSysTick, PendSVIsOneStep,
       ReloadIsReload,
       ElsewhereIsNext DEF HandlersNext
<1> QED
  BY <1>1, <1>2, HandlersInitInv, HandlersStep, PTL DEF HandlersSpec, ImplementsOs,
     Whole!Spec

(***************************************************************************)
(* The switches, as module Context takes them for granted.                 *)
(***************************************************************************)

\* Every thread OS_Sched can find has been created.
TableCreatedInv ==
  \A p \in 0 .. MaxPrio : OS_Thread[p] # NULL => OS_Thread[p] \in Created

\* Outside main() nothing is created.
LEMMA CreatedStays ==
  ASSUME UNCHANGED <<unstarted, starting>>, pc'[Main] = pc[Main]
  PROVE  Created' = Created
BY DEF Created, TCBs

\* Thread code and the tick do not create, and they call OS_Sched at most.
LEMMA QuietStep ==
  ASSUME HandlersInv,
         \/ EnterSysTick \/ Visit \/ LeaveSysTick \/ EnterPendSV \/ PendSVInstruction
         \/ Reload \/ UNCHANGED allVars
         \/ Elsewhere /\ ~OSThread_StartRegister
  PROVE  /\ OS_Thread' = OS_Thread
         /\ Created' = Created
<1> USE ContextsDiffer
<1>1. CASE EnterSysTick \/ Visit \/ LeaveSysTick
  BY <1>1, CreatedStays DEF EnterSysTick, Visit, LeaveSysTick
<1>2. CASE EnterPendSV \/ PendSVInstruction
  BY <1>2, CreatedStays DEF EnterPendSV, PendSVInstruction, PendSVDisable, PendSVStack,
     PendSVCurr, PendSVEnable, PendSVReturn, PendSVStep, Untouched
<1>3. CASE Reload \/ UNCHANGED allVars
  BY <1>3, CreatedStays DEF Reload, SysTickReload, allVars, vars
<1>4. ASSUME NEW t \in TCBs, CallOSThread_Start(t)
      PROVE  OS_Thread' = OS_Thread /\ Created' = Created
  <2>1. /\ t \in unstarted /\ unstarted' = unstarted \ {t} /\ starting' = t
        /\ pc[Main] = "main" /\ OS_Thread' = OS_Thread
    BY <1>4 DEF CallOSThread_Start, Goto
  <2>2. pc'[Main] = "register"
    BY <1>4 DEF CallOSThread_Start, Goto, HandlersInv, TypeOK, Contexts
  <2> QED
    BY <2>1, <2>2 DEF Created, TCBs
<1>5. CASE OSThread_StartPrio \/ OSThread_StartReady
  <2>1. /\ pc[Main] # "register" /\ pc'[Main] # "register"
        /\ UNCHANGED <<unstarted, OS_Thread>>
    BY <1>5 DEF OSThread_StartPrio, OSThread_StartReady, Goto, HandlersInv, TypeOK,
       Contexts
  <2> QED
    BY <2>1 DEF Created, TCBs
<1>6. CASE OS_RunDisable
  <2>1. /\ pc[Main] = "main" /\ pc'[Main] = "sched"
        /\ UNCHANGED <<unstarted, starting, OS_Thread>>
    BY <1>6 DEF OS_RunDisable, Goto, HandlersInv, TypeOK, Contexts
  <2> QED
    BY <2>1 DEF Created, TCBs
<1>7. ASSUME NEW t \in Threads, OS_msDelay(t)
      PROVE  OS_Thread' = OS_Thread /\ Created' = Created
  <2>1. t # Main /\ UNCHANGED <<unstarted, starting, OS_Thread>>
    BY <1>7 DEF OS_msDelay, OS_msDelayDisable, OS_msDelayTimeOut, OS_msDelayUnready,
       OS_msDelayDelay
  <2>2. pc'[Main] = pc[Main]
    BY <1>7, <2>1 DEF OS_msDelay, OS_msDelayDisable, OS_msDelayTimeOut,
       OS_msDelayUnready,
       OS_msDelayDelay, Goto, HandlersInv, TypeOK, Contexts
  <2> QED
    BY <2>1, <2>2, CreatedStays
<1>8. ASSUME NEW c \in Threads \cup {Main}, CallOS_Sched(c) \/ CallEnable_Irq(c)
      PROVE  OS_Thread' = OS_Thread /\ Created' = Created
  <2>1. UNCHANGED <<unstarted, starting, OS_Thread>>
    BY <1>8 DEF CallOS_Sched, CallEnable_Irq
  <2>2. (pc'[Main] = "register") = (pc[Main] = "register")
    BY <1>8 DEF CallOS_Sched, CallEnable_Irq, Goto, HandlersInv, TypeOK, Contexts
  <2> QED
    BY <2>1, <2>2 DEF Created, TCBs
<1> QED
  BY <1>1, <1>2, <1>3, <1>4, <1>5, <1>6, <1>7, <1>8 DEF Elsewhere, MainStep

\* main() registers the thread whose stack it has made.
LEMMA RegisterStep ==
  ASSUME HandlersInv, OSThread_StartRegister
  PROVE  /\ OS_Curr = NULL
         /\ starting \in TCBs \ Created
         /\ Created' = Created \cup {starting}
         /\ PrioOf(starting) \in 0 .. MaxPrio
         /\ OS_Thread' = [OS_Thread EXCEPT ![PrioOf(starting)] = starting]
         /\ UNCHANGED <<OS_Curr, OS_Next, pendsv>>
<1> USE ContextsDiffer
<1>1. /\ Running = Main /\ pc[Main] = "register"
      /\ UNCHANGED <<unstarted, starting, OS_Curr, OS_Next, pendsv>>
      /\ OS_Thread' = [OS_Thread EXCEPT ![PrioOf(starting)] = starting]
  BY DEF OSThread_StartRegister, Goto
<1>2. starting \in TCBs /\ starting \notin unstarted
  BY <1>1 DEF HandlersInv, MainThenInv, FirstInv, TypeOK
<1>3. pc'[Main] = "prio"
  BY DEF OSThread_StartRegister, Goto, HandlersInv, TypeOK, Contexts
<1>4. OS_Curr = NULL
  BY <1>1 DEF Running, HandlersInv, TypeOK, TCBs
<1> QED
  BY <1>1, <1>2, <1>3, <1>4, PrioOfType DEF Created, TCBs

LEMMA TableCreatedStep ==
  HandlersInv /\ TableCreatedInv /\ [HandlersNext]_allVars => TableCreatedInv'
<1> SUFFICES ASSUME HandlersInv, TableCreatedInv, [HandlersNext]_allVars
             PROVE  TableCreatedInv'
  OBVIOUS
<1>1. CASE OSThread_StartRegister
  <2>1. OS_Thread \in [0 .. MaxPrio -> TCBs \cup {NULL}]
    BY DEF HandlersInv, TypeOK
  <2> QED
    BY <1>1, <2>1, RegisterStep DEF TableCreatedInv
<1>2. CASE ~OSThread_StartRegister
  BY <1>2, QuietStep DEF HandlersNext, TableCreatedInv
<1> QED
  BY <1>1, <1>2

\* OS_Sched requests a switch to a created thread that is not the current one.
LEMMA SchedIsRequest ==
  ASSUME HandlersInv, TableCreatedInv, OS_Sched(OS_ReadySet),
         UNCHANGED <<OS_Curr, switching>>, Created' = Created
  PROVE  Switching!Next \/ UNCHANGED Switching!vars
<1>1. CASE NextThread(OS_ReadySet) = OS_Curr
  BY <1>1 DEF OS_Sched, Switching!vars, Needed
<1>2. CASE NextThread(OS_ReadySet) # OS_Curr
  <2> DEFINE t == NextThread(OS_ReadySet)
  <2>1. OS_Next' = t /\ pendsv' = TRUE /\ t # OS_Curr
    BY <1>2 DEF OS_Sched
  <2>2. t # NULL
    <3>1. OS_Next' \in TCBs
      <4>1. OS_Next' # OS_Next \/ pendsv' # pendsv \/ (pendsv /\ OS_Next' = OS_Next)
        BY <2>1 DEF HandlersInv, TypeOK
      <4>2. pendsv => OS_Next \in TCBs
        BY DEF HandlersInv, RegisteredInv, Needed, TypeOK
      <4> QED
        BY <4>1, <4>2, HandlerFindsThread
    <3> QED
      BY <2>1, <3>1, ContextsDiffer DEF TCBs
  <2>3. t \in Created
    <3>1. PICK p \in 0 .. MaxPrio : t = OS_Thread[p]
      BY NextThreadEntry DEF HandlersInv, TypeOK
    <3> QED
      BY <2>2, <3>1 DEF TableCreatedInv
  <2> HIDE DEF t
  <2>4. Needed' = TRUE
    BY <2>1 DEF Needed
  <2>5. Switching!Request(t)
    BY <2>1, <2>4 DEF Switching!Request
  <2> QED
    BY <2>3, <2>5 DEF Switching!Next
<1> QED
  BY <1>1, <1>2

\* PendSV_Handler makes the switch where it stores OS_Curr.
LEMMA PendSVIsSwitch ==
  ASSUME HandlersInv, EnterPendSV \/ PendSVInstruction, Created' = Created
  PROVE  Switching!Next \/ UNCHANGED Switching!vars
<1>1. OS_Next' = OS_Next
  BY DEF EnterPendSV, PendSVInstruction, PendSVDisable, PendSVStack, PendSVCurr,
     PendSVEnable,
     PendSVReturn, PendSVStep, Untouched
<1>2. CASE PendSVCurr
  <2>1. Needed /\ Needed' \in BOOLEAN /\ OS_Curr' = OS_Next
    BY <1>2 DEF PendSVCurr, PendSVStep, Needed
  <2> QED
    BY <1>1, <2>1 DEF Switching!Next, Switching!Switch
<1>3. CASE ~PendSVCurr
  <2>1. OS_Curr' = OS_Curr /\ Needed' = Needed
    BY <1>3 DEF EnterPendSV, PendSVInstruction, PendSVDisable, PendSVStack,
       PendSVEnable,
       PendSVReturn, PendSVStep, Needed
  <2> QED
    BY <1>1, <2>1 DEF Switching!vars
<1> QED
  BY <1>2, <1>3

LEMMA SwitchingStep ==
  ASSUME HandlersInv, TableCreatedInv, [HandlersNext]_allVars
  PROVE  Switching!Next \/ UNCHANGED Switching!vars
<1>1. CASE LeaveSysTick
  BY <1>1, QuietStep, SchedIsRequest DEF LeaveSysTick, switchVars
<1>2. CASE EnterPendSV \/ PendSVInstruction
  BY <1>2, QuietStep, PendSVIsSwitch
<1>3. CASE EnterSysTick \/ Visit \/ Reload \/ UNCHANGED allVars
  <2>1. UNCHANGED <<OS_Curr, OS_Next, pendsv, switching>>
    BY <1>3 DEF EnterSysTick, Visit, Reload, SysTickReload, allVars, vars, switchVars
  <2> QED
    BY <1>3, <2>1, QuietStep DEF Switching!vars, Needed
<1>4. CASE Elsewhere /\ OSThread_StartRegister
  <2>1. switching' = switching
    BY <1>4 DEF Elsewhere, switchVars
  <2>2. UNCHANGED Needed
    BY <1>4, <2>1, RegisterStep DEF Needed
  <2>3. Switching!Create(starting) /\ starting \in TCBs \ Created
    BY <1>4, <2>2, RegisterStep DEF Switching!Create
  <2> QED
    BY <2>3 DEF Switching!Next
<1>5. CASE Elsewhere /\ ~OSThread_StartRegister
  <2>1. switching' = switching /\ Created' = Created
    BY <1>5, QuietStep DEF Elsewhere, switchVars
  <2>2. CASE \E c \in Threads \cup {Main} : CallOS_Sched(c)
    BY <2>1, <2>2, SchedIsRequest DEF CallOS_Sched
  <2>3. CASE ~ \E c \in Threads \cup {Main} : CallOS_Sched(c)
    <3>1. UNCHANGED <<OS_Curr, OS_Next, pendsv>>
      BY <1>5, <2>3 DEF Elsewhere, MainStep, CallOSThread_Start, OSThread_StartPrio,
         OSThread_StartReady, OS_RunDisable, OS_msDelay, OS_msDelayDisable,
         OS_msDelayTimeOut, OS_msDelayUnready,
         OS_msDelayDelay, CallEnable_Irq
    <3> QED
      BY <2>1, <3>1 DEF Switching!vars, Needed
  <2> QED
    BY <2>2, <2>3
<1> QED
  BY <1>1, <1>2, <1>3, <1>4, <1>5 DEF HandlersNext

\* Whenever the tick comes, switches are requested to created threads alone and
\* made as they were requested (Os.c:245-290, 87-109, 303-349).
THEOREM SwitchesToCreatedAlways == HandlersSpec => SwitchesToCreated
<1>1. HandlersInit => Switching!Init /\ TableCreatedInv
  BY DEF HandlersInit, Init, Switching!Init, Created, Needed, TableCreatedInv
<1>2. HandlersInv /\ TableCreatedInv /\ [HandlersNext]_allVars
        => [Switching!Next]_(Switching!vars)
  BY SwitchingStep
<1> QED
  BY <1>1, <1>2, TableCreatedStep, HandlersInitInv, HandlersStep, PTL
     DEF HandlersSpec, SwitchesToCreated, Switching!Spec
=============================================================================
