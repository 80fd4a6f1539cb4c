------------------------------ MODULE OsProofs ------------------------------
(***************************************************************************)
(* Proofs about the kernel for any number of threads, any priorities, any  *)
(* widths of the counters and any delays.                                  *)
(*                                                                         *)
(* The first layer, KernelInv, needs no hypothesis: the control blocks, the *)
(* table OS_Thread and the words agree with each other, which is what keeps *)
(* the variables within their types.  The second, SchedInv, is about which *)
(* thread runs; it needs distinct priorities, and PendSV to be taken before *)
(* a SysTick that is pending at the same time.                             *)
(***************************************************************************)
EXTENDS Os, WellFoundedInduction, TLAPS

(***************************************************************************)
(* The highest bit of a word.                                              *)
(***************************************************************************)

\* LOG2 (Os.c:36) of a nonzero word is the position of a bit that is set, and
\* no bit above it is.
LEMMA LOG2IsHighestBit ==
  ASSUME NEW x \in SUBSET (1 .. MaxPrio), x # {}
  PROVE  /\ LOG2(x) \in x
         /\ \A p \in x : p <= LOG2(x)
<1> USE BoundsAreNaturals
<1> DEFINE FromTop == {n \in Nat : MaxPrio - n \in x}
<1>1. FromTop # {}
  <2>1. PICK p \in x : TRUE
    OBVIOUS
  <2>2. MaxPrio - p \in FromTop
    BY <2>1, MaxPrio - (MaxPrio - p) = p
  <2> QED
    BY <2>2
<1>2. PICK m \in FromTop : \A n \in FromTop : <<n, m>> \notin OpToRel(<, Nat)
  <2>1. FromTop \subseteq Nat
    OBVIOUS
  <2> HIDE DEF FromTop
  <2> QED
    BY <1>1, <2>1, NatLessThanWellFounded, WFMin
<1>3. \A p \in x : p <= MaxPrio - m
  <2>1. TAKE p \in x
  <2>2. MaxPrio - p \in FromTop
    BY MaxPrio - (MaxPrio - p) = p
  <2>3. ~ (MaxPrio - p < m)
    BY <1>2, <2>2 DEF OpToRel
  <2> QED
    BY <2>3
<1>4. MaxPrio - m \in x
  OBVIOUS
<1> QED
  BY <1>3, <1>4 DEF LOG2, Max

(***************************************************************************)
(* First layer.                                                            *)
(***************************************************************************)

\* main() is inside OSThread_Start exactly while it has an argument for it, and
\* nothing is masked before OS_Run masks it.
MainInv ==
  /\ starting # NULL <=> pc[Main] \in {"register", "prio", "ready"}
  /\ OS_Curr = NULL /\ pc[Main] \in {"main", "register", "prio", "ready"} => ~primask
  /\ pc[Main] \in {"prio", "ready"} => OS_Thread[PrioOf(starting)] = starting

\* The idle thread is registered before anything else happens.
FirstInv ==
  /\ starting \notin unstarted
  /\ OS_Thread[0] # IdleThread =>
       /\ Threads \subseteq unstarted
       /\ IdleThread \in unstarted \/ (starting = IdleThread /\ pc[Main] = "register")
       /\ OS_ReadySet = {} /\ OS_DelayedSet = {}
       /\ OS_Curr = NULL /\ OS_Next = NULL

\* A control block is registered under the priority it is started with, and
\* knows that priority, unless OSThread_Start has still to tell it.
TableInv ==
  /\ \A t \in TCBs : Prio[t] \in {0, PrioOf(t)}
  /\ \A p \in 0 .. MaxPrio :
       OS_Thread[p] # NULL =>
         /\ PrioOf(OS_Thread[p]) = p
         /\ Prio[OS_Thread[p]] = p \/ (pc[Main] = "prio" /\ OS_Thread[p] = starting)

\* Every bit of the two words designates a registered control block, and every
\* bit of the delayed set one that knows its priority: no thread is delayed
\* before the first switch, after which no thread is registered any more.
BitsInv ==
  /\ \A p \in OS_ReadySet \cup OS_DelayedSet : OS_Thread[p] # NULL
  /\ \A p \in OS_DelayedSet : Prio[OS_Thread[p]] = p
  /\ OS_Curr = NULL => OS_DelayedSet = {}

\* The current and the next thread are registered, and a switch that is
\* pending has a thread to go to.
PointersInv ==
  /\ OS_Curr # NULL => OS_Thread[PrioOf(OS_Curr)] = OS_Curr
  /\ OS_Next # NULL =>
       /\ OS_Thread[PrioOf(OS_Next)] = OS_Next
       /\ pendsv \/ OS_Curr # NULL
  /\ pendsv => OS_Next # NULL

KernelInv ==
  /\ TypeOK
  /\ MainInv
  /\ FirstInv
  /\ TableInv
  /\ BitsInv
  /\ PointersInv

LEMMA KernelInit == Init => KernelInv
<1> SUFFICES ASSUME Init
             PROVE  KernelInv
  OBVIOUS
<1> USE ContextsDiffer, BoundsAreNaturals DEF Init
<1>1. pc \in [Contexts -> MainSteps \cup ThreadSteps]
  BY DEF MainSteps, ThreadSteps
<1>2. TypeOK
  <2>1. OS_Thread \in [0 .. MaxPrio -> TCBs \cup {NULL}]
    OBVIOUS
  <2>2. /\ Prio \in [TCBs -> 0 .. MaxPrio]
        /\ TimeOut \in [TCBs -> 0 .. TickMax]
        /\ due \in [TCBs -> 0 .. MsMax]
    OBVIOUS
  <2>3. millisec_counter \in 0 .. MsMax
    OBVIOUS
  <2>4. /\ primask \in BOOLEAN /\ pendsv \in BOOLEAN /\ pendst \in BOOLEAN
        /\ OS_ReadySet \subseteq 1 .. MaxPrio
        /\ OS_DelayedSet \subseteq 1 .. MaxPrio
    BY Zenon
  <2>5. /\ OS_Curr \in TCBs \cup {NULL} /\ OS_Next \in TCBs \cup {NULL}
        /\ unstarted \subseteq TCBs /\ starting \in TCBs \cup {NULL}
    OBVIOUS
  <2> QED
    BY <1>1, <2>1, <2>2, <2>3, <2>4, <2>5 DEF TypeOK
<1>3. MainInv
  BY DEF MainInv, Contexts
<1>4. FirstInv
  BY DEF FirstInv, TCBs
<1>5. TableInv /\ BitsInv /\ PointersInv
  BY DEF TableInv, BitsInv, PointersInv
<1> QED
  BY <1>2, <1>3, <1>4, <1>5 DEF KernelInv

\* The priority a control block is started with is an index of OS_Thread.
LEMMA PrioOfType ==
  ASSUME NEW t \in TCBs
  PROVE  /\ PrioOf(t) \in 0 .. MaxPrio
         /\ t \in Threads => PrioOf(t) = PrioArg[t] /\ PrioOf(t) \in 1 .. MaxPrio
BY ContextsDiffer, BoundsAreNaturals, ArgumentsInRange DEF PrioOf, TCBs

\* A thread whose statement is executed is the current thread, and the bit it
\* sets or clears is its own, or none when main() was switched out before it
\* had set the control block's Prio.
LEMMA RunningThread ==
  ASSUME KernelInv, NEW t \in Threads, Running = t
  PROVE  /\ OS_Curr = t
         /\ OS_Thread[PrioArg[t]] = t
         /\ PrioArg[t] \in 1 .. MaxPrio
         /\ Prio[t] \in {0, PrioArg[t]}
         /\ Bits({OS_Curr}) \subseteq {PrioArg[t]}
<1>1. OS_Curr = t
  BY ContextsDiffer DEF Running
<1>2. PrioOf(t) = PrioArg[t] /\ PrioArg[t] \in 1 .. MaxPrio
  BY PrioOfType DEF TCBs
<1>3. Prio[t] \in {0, PrioArg[t]}
  BY <1>2 DEF KernelInv, TableInv, TCBs
<1> QED
  BY <1>1, <1>2, <1>3, ContextsDiffer DEF KernelInv, PointersInv, Bits, TCBs

\* While main() runs no thread has been delayed.
LEMMA MainRuns ==
  ASSUME KernelInv, Running = Main
  PROVE  OS_Curr = NULL /\ OS_DelayedSet = {}
BY ContextsDiffer DEF KernelInv, TypeOK, BitsInv, Running, TCBs

\* OS_Sched chooses an entry of OS_Thread that is registered under the index
\* of its own priority.
LEMMA NextThreadEntry ==
  ASSUME NEW ready \in SUBSET (1 .. MaxPrio)
  PROVE  \E p \in 0 .. MaxPrio :
           /\ NextThread(ready) = OS_Thread[p]
           /\ ready = {} => p = 0
           /\ ready # {} => p \in ready /\ \A q \in ready : q <= p
<1>1. CASE ready = {}
  BY <1>1, BoundsAreNaturals DEF NextThread
<1>2. CASE ready # {}
  <2>1. LOG2(ready) \in ready /\ \A q \in ready : q <= LOG2(ready)
    BY <1>2, LOG2IsHighestBit
  <2>2. LOG2(ready) \in 0 .. MaxPrio
    <3>1. LOG2(ready) \in 1 .. MaxPrio
      BY <2>1
    <3> QED
      BY <3>1
  <2>3. NextThread(ready) = OS_Thread[LOG2(ready)]
    BY <1>2 DEF NextThread
  <2> QED
    BY <1>2, <2>1, <2>2, <2>3
<1> QED
  BY <1>1, <1>2

\* Index 0 of OS_Thread is the idle thread's alone.
LEMMA IdleEntry ==
  ASSUME TypeOK, TableInv
  PROVE  OS_Thread[0] \in {IdleThread, NULL}
<1>1. 0 \in 0 .. MaxPrio /\ OS_Thread[0] \in TCBs \cup {NULL}
  BY BoundsAreNaturals DEF TypeOK
<1>2. \A t \in Threads : OS_Thread[0] # t
  BY <1>1, PrioOfType, ContextsDiffer DEF TableInv, TCBs
<1> QED
  BY <1>1, <1>2 DEF TCBs

\* OS_Sched requests a switch to a registered thread or none; before the idle
\* thread is registered it requests none.
LEMMA SchedFindsThread ==
  ASSUME TypeOK, TableInv, FirstInv,
         NEW ready \in SUBSET (1 .. MaxPrio), OS_Sched(ready),
         \A p \in ready : OS_Thread[p] # NULL,
         OS_Thread[0] # IdleThread => ready = {}
  PROVE  /\ UNCHANGED <<OS_Next, pendsv>> \/ (pendsv' = TRUE /\ OS_Next' \in TCBs
                                               /\ OS_Thread[PrioOf(OS_Next')] = OS_Next')
         /\ OS_Thread[0] # IdleThread => UNCHANGED <<OS_Next, pendsv>>
<1> USE ContextsDiffer, BoundsAreNaturals
<1>1. PICK p \in 0 .. MaxPrio :
        /\ NextThread(ready) = OS_Thread[p]
        /\ ready = {} => p = 0
        /\ ready # {} => p \in ready
  BY NextThreadEntry
<1>2. OS_Thread[p] \in TCBs \cup {NULL} /\ (OS_Thread[p] # NULL => PrioOf(OS_Thread[p]) = p)
  BY DEF TypeOK, TableInv
<1>3. OS_Thread[0] # IdleThread => NextThread(ready) = OS_Curr
  BY <1>1, IdleEntry DEF FirstInv
<1>4. OS_Thread[0] = IdleThread => OS_Thread[p] # NULL
  BY <1>1
<1>5. CASE NextThread(ready) = OS_Curr
  BY <1>5 DEF OS_Sched
<1>6. CASE NextThread(ready) # OS_Curr
  BY <1>1, <1>2, <1>3, <1>4, <1>6 DEF OS_Sched
<1> QED
  BY <1>5, <1>6

\* A call of OS_Sched keeps the types and the pointers right.
LEMMA SchedKeepsPointers ==
  ASSUME KernelInv,
         NEW ready \in SUBSET (1 .. MaxPrio), OS_Sched(ready),
         \A p \in ready : OS_Thread[p] # NULL,
         OS_Thread[0] # IdleThread => ready = {},
         UNCHANGED <<OS_Curr, OS_Thread>>
  PROVE  /\ OS_Next' \in TCBs \cup {NULL}
         /\ pendsv' \in BOOLEAN
         /\ PointersInv'
         /\ OS_Thread[0] # IdleThread => OS_Next' = OS_Next
<1>1. /\ UNCHANGED <<OS_Next, pendsv>> \/ (pendsv' = TRUE /\ OS_Next' \in TCBs
                                            /\ OS_Thread[PrioOf(OS_Next')] = OS_Next')
      /\ OS_Thread[0] # IdleThread => UNCHANGED <<OS_Next, pendsv>>
  BY SchedFindsThread DEF KernelInv
<1>2. CASE UNCHANGED <<OS_Next, pendsv>>
  BY <1>2 DEF KernelInv, TypeOK, PointersInv, PrioOf
<1>3. CASE pendsv' = TRUE /\ OS_Next' \in TCBs /\ OS_Thread[PrioOf(OS_Next')] = OS_Next'
  <2>1. OS_Next' # NULL
    BY <1>3, ContextsDiffer DEF TCBs
  <2>2. PointersInv'
    BY <1>3, <2>1 DEF KernelInv, PointersInv, PrioOf
  <2> QED
    BY <1>1, <1>3, <2>2
<1> QED
  BY <1>1, <1>2, <1>3

\* The control blocks OS_Tick visits are registered, under the bits of
\* OS_DelayedSet it visits them for.
LEMMA DelayedEntries ==
  ASSUME KernelInv
  PROVE  /\ Delayed \subseteq TCBs
         /\ \A t \in Delayed :
              Prio[t] \in OS_DelayedSet /\ Prio[t] # 0 /\ OS_Thread[Prio[t]] = t
         /\ Bits(Expired) \subseteq OS_DelayedSet
<1>1. \A p \in OS_DelayedSet :
        /\ p \in 0 .. MaxPrio /\ p # 0
        /\ OS_Thread[p] \in TCBs
        /\ Prio[OS_Thread[p]] = p
  BY BoundsAreNaturals DEF KernelInv, TypeOK, BitsInv
<1> QED
  BY <1>1 DEF Delayed, Expired, Bits

LEMMA KernelStep == KernelInv /\ [Next]_vars => KernelInv'
<1> SUFFICES ASSUME KernelInv, [Next]_vars
             PROVE  KernelInv'
  OBVIOUS
<1> USE ContextsDiffer, BoundsAreNaturals
<1>1. ASSUME NEW t \in TCBs, CallOSThread_Start(t)
      PROVE  KernelInv'
  BY <1>1 DEF CallOSThread_Start, Goto, KernelInv, TypeOK, MainInv, FirstInv, TableInv,
     BitsInv, PointersInv, Contexts, MainSteps, TCBs, PrioOf
<1>2. CASE OSThread_StartRegister
  <2>1. starting \in TCBs /\ PrioOf(starting) \in 0 .. MaxPrio
    BY <1>2, PrioOfType DEF OSThread_StartRegister, Goto, KernelInv, TypeOK, MainInv
  <2>2. OS_Curr = NULL /\ OS_Next = NULL /\ OS_DelayedSet = {}
    BY <1>2, MainRuns DEF OSThread_StartRegister, Goto, ExceptionDue,
       KernelInv, MainInv, PointersInv
  <2>3. TypeOK' /\ MainInv'
    BY <1>2, <2>1, <2>2 DEF OSThread_StartRegister, Goto, KernelInv, TypeOK, MainInv,
       Contexts, MainSteps, PrioOf, TCBs
  <2>4. FirstInv'
    <3>1. CASE starting = IdleThread
      BY <1>2, <3>1 DEF OSThread_StartRegister, KernelInv, TypeOK, FirstInv, PrioOf
    <3>2. CASE starting # IdleThread
      BY <1>2, <2>1, <3>2, PrioOfType DEF OSThread_StartRegister, Goto, KernelInv,
         TypeOK,
         FirstInv, TCBs
    <3> QED
      BY <3>1, <3>2
  <2>5. TableInv'
    BY <1>2, <2>1 DEF OSThread_StartRegister, Goto, KernelInv, TypeOK, TableInv,
       Contexts,
       PrioOf
  <2>6. BitsInv' /\ PointersInv'
    BY <1>2, <2>1, <2>2 DEF OSThread_StartRegister, KernelInv, TypeOK, BitsInv,
       PointersInv, TCBs
  <2> QED
    BY <2>3, <2>4, <2>5, <2>6 DEF KernelInv
<1>3. CASE OSThread_StartPrio
  <2>1. /\ starting \in TCBs
        /\ PrioOf(starting) \in 0 .. MaxPrio
        /\ OS_Thread[PrioOf(starting)] = starting
    BY <1>3, PrioOfType DEF OSThread_StartPrio, Goto, KernelInv, TypeOK, MainInv
  <2>2. OS_Curr = NULL /\ OS_DelayedSet = {}
    BY <1>3, MainRuns DEF OSThread_StartPrio, Goto
  <2>3. TypeOK' /\ MainInv'
    BY <1>3, <2>1 DEF OSThread_StartPrio, Goto, KernelInv, TypeOK, MainInv, Contexts,
       MainSteps, PrioOf
  <2>4. TableInv'
    <3>1. \A t \in TCBs : Prio'[t] = IF t = starting THEN PrioOf(t) ELSE Prio[t]
      BY <1>3, <2>1 DEF OSThread_StartPrio, KernelInv, TypeOK
    <3>2. \A p \in 0 .. MaxPrio : OS_Thread[p] # NULL => OS_Thread[p] \in TCBs
      BY DEF KernelInv, TypeOK
    <3> QED
      BY <1>3, <3>1, <3>2 DEF OSThread_StartPrio, KernelInv, TableInv, PrioOf
  <2>5. FirstInv' /\ BitsInv' /\ PointersInv'
    BY <1>3, <2>2 DEF OSThread_StartPrio, Goto, KernelInv, FirstInv, BitsInv,
       PointersInv, PrioOf
  <2> QED
    BY <2>3, <2>4, <2>5 DEF KernelInv
<1>4. CASE OSThread_StartReady
  <2>1. /\ starting \in TCBs
        /\ PrioOf(starting) \in 0 .. MaxPrio
        /\ OS_Thread[PrioOf(starting)] = starting
    BY <1>4, PrioOfType DEF OSThread_StartReady, Goto, KernelInv, TypeOK, MainInv
  <2>2. OS_ReadySet' \subseteq 1 .. MaxPrio
    <3>1. {PrioOf(starting)} \ {0} \subseteq 1 .. MaxPrio
      BY <2>1
    <3> QED
      BY <1>4, <3>1 DEF OSThread_StartReady, KernelInv, TypeOK
  <2>3. TypeOK'
    BY <1>4, <2>2 DEF OSThread_StartReady, Goto, KernelInv, TypeOK, Contexts, MainSteps
  <2>4. MainInv'
    BY <1>4 DEF OSThread_StartReady, Goto, KernelInv, TypeOK, MainInv, Contexts
  <2>5. FirstInv'
    <3>1. OS_Thread[0] = IdleThread
      BY <1>4, <2>1 DEF OSThread_StartReady, Goto, KernelInv, FirstInv, TCBs, PrioOf
    <3> QED
      BY <1>4, <3>1 DEF OSThread_StartReady, KernelInv, TypeOK, FirstInv, TCBs
  <2>6. BitsInv'
    BY <1>4, <2>1 DEF OSThread_StartReady, KernelInv, BitsInv, TCBs
  <2>7. TableInv' /\ PointersInv'
    BY <1>4 DEF OSThread_StartReady, Goto, KernelInv, TableInv, PointersInv, PrioOf
  <2> QED
    BY <2>3, <2>4, <2>5, <2>6, <2>7 DEF KernelInv
<1>5. CASE OS_RunDisable
  BY <1>5 DEF OS_RunDisable, Goto, KernelInv, TypeOK, MainInv, FirstInv, TableInv,
     BitsInv, PointersInv, Contexts, MainSteps, TCBs, PrioOf
<1>6. ASSUME NEW t \in Threads, OS_msDelayDisable(t)
      PROVE  KernelInv'
  <2>1. OS_Curr = t
    BY <1>6, RunningThread DEF OS_msDelayDisable, Goto
  <2> QED
    BY <1>6, <2>1 DEF OS_msDelayDisable, Goto, KernelInv, TypeOK, MainInv, FirstInv,
       TableInv, BitsInv, PointersInv, Contexts, ThreadSteps, TCBs, PrioOf
<1>7. ASSUME NEW t \in Threads, NEW Ticks \in Delays, OS_msDelayTimeOut(t, Ticks)
      PROVE  KernelInv'
  <2>1. OS_Curr = t
    BY <1>7, RunningThread DEF OS_msDelayTimeOut, Goto
  <2>2. Ticks \in 0 .. TickMax
    BY ArgumentsInRange
  <2>3. After(millisec_counter, Ticks) \in 0 .. MsMax
    BY <2>2 DEF After, KernelInv, TypeOK
  <2> QED
    BY <1>7, <2>1, <2>2, <2>3 DEF OS_msDelayTimeOut, Goto, KernelInv, TypeOK, MainInv,
       FirstInv, TableInv, BitsInv, PointersInv, Contexts, ThreadSteps, TCBs, PrioOf
<1>8. ASSUME NEW t \in Threads, OS_msDelayUnready(t)
      PROVE  KernelInv'
  <2>1. /\ UNCHANGED <<OS_Curr, OS_Next, OS_Thread, Prio, TimeOut, OS_DelayedSet,
                       millisec_counter, primask, pendsv, pendst, unstarted,
                       starting, due>>
        /\ OS_ReadySet' \subseteq OS_ReadySet
        /\ pc' = [pc EXCEPT ![t] = "delay"]
    BY <1>8 DEF OS_msDelayUnready, Goto
  <2>2. TypeOK'
    BY <2>1 DEF KernelInv, TypeOK, Contexts, ThreadSteps, TCBs
  <2>3. pc'[Main] = pc[Main]
    BY <2>1 DEF KernelInv, TypeOK, TCBs
  <2>4. OS_ReadySet = {} => OS_ReadySet' = {}
    BY <2>1
  <2> QED
    BY <2>1, <2>2, <2>3, <2>4 DEF KernelInv, MainInv, FirstInv, TableInv, BitsInv,
       PointersInv, TCBs, PrioOf
<1>9. ASSUME NEW t \in Threads, OS_msDelayDelay(t)
      PROVE  KernelInv'
  <2>1. /\ OS_Curr = t /\ OS_Curr # NULL
        /\ OS_Thread[PrioArg[t]] = t
        /\ PrioArg[t] \in 1 .. MaxPrio
        /\ Prio[t] \in {0, PrioArg[t]}
    BY <1>9, RunningThread DEF OS_msDelayDelay, Goto
  <2>2. OS_DelayedSet' \subseteq OS_DelayedSet \cup ({Prio[t]} \ {0})
    BY <1>9, <2>1 DEF OS_msDelayDelay, Bits
  <2>3. TypeOK'
    <3>1. OS_DelayedSet' \subseteq 1 .. MaxPrio
      BY <2>1, <2>2 DEF KernelInv, TypeOK
    <3> QED
      BY <1>9, <3>1 DEF OS_msDelayDelay, Goto, KernelInv, TypeOK, Contexts,
         ThreadSteps, TCBs
  <2>4. BitsInv'
    BY <1>9, <2>1, <2>2 DEF OS_msDelayDelay, KernelInv, BitsInv, TCBs
  <2>5. pc'[Main] = pc[Main]
    BY <1>9 DEF OS_msDelayDelay, Goto, KernelInv, TypeOK, TCBs
  <2>6. MainInv' /\ FirstInv' /\ TableInv' /\ PointersInv'
    BY <1>9, <2>1, <2>5 DEF OS_msDelayDelay, KernelInv, MainInv, FirstInv, TableInv,
       PointersInv, PrioOf
  <2> QED
    BY <2>3, <2>4, <2>6 DEF KernelInv
<1>10. ASSUME NEW c \in Threads \cup {Main}, CallOS_Sched(c)
       PROVE  KernelInv'
  <2>1. /\ OS_Next' \in TCBs \cup {NULL} /\ pendsv' \in BOOLEAN /\ PointersInv'
        /\ OS_Thread[0] # IdleThread => OS_Next' = OS_Next
    BY <1>10, SchedKeepsPointers DEF CallOS_Sched, KernelInv, TypeOK, BitsInv, FirstInv
  <2>2. /\ pc'[Main] = pc[Main] \/ pc'[Main] = "enable"
        /\ pc[Main] \in {"register", "prio", "ready"} => pc'[Main] = pc[Main]
    BY <1>10 DEF CallOS_Sched, Goto, KernelInv, TypeOK, Contexts
  <2> QED
    BY <1>10, <2>1, <2>2 DEF CallOS_Sched, Goto, KernelInv, TypeOK, MainInv, FirstInv,
       TableInv, BitsInv, Contexts, MainSteps, ThreadSteps, TCBs, PrioOf
<1>11. ASSUME NEW c \in Threads \cup {Main}, CallEnable_Irq(c)
       PROVE  KernelInv'
  BY <1>11 DEF CallEnable_Irq, Goto, KernelInv, TypeOK, MainInv, FirstInv, TableInv,
     BitsInv, PointersInv, Contexts, MainSteps, ThreadSteps, TCBs, PrioOf
<1>12. CASE SysTickReload
  BY <1>12 DEF SysTickReload, KernelInv, TypeOK, MainInv, FirstInv, TableInv, BitsInv,
     PointersInv, PrioOf
<1>13. CASE SysTick_Handler
  <2>1. Delayed \subseteq TCBs /\ Bits(Expired) \subseteq OS_DelayedSet
    BY DelayedEntries
  <2>2. /\ OS_ReadySet' \subseteq OS_ReadySet \cup OS_DelayedSet
        /\ OS_DelayedSet' \subseteq OS_DelayedSet
    BY <1>13, <2>1 DEF SysTick_Handler, OS_Tick
  <2>3. /\ OS_ReadySet' \in SUBSET (1 .. MaxPrio)
        /\ \A p \in OS_ReadySet' : OS_Thread[p] # NULL
        /\ OS_Thread[0] # IdleThread => OS_ReadySet' = {} /\ OS_DelayedSet' = {}
    BY <2>2 DEF KernelInv, TypeOK, BitsInv, FirstInv
  <2>4. /\ OS_Next' \in TCBs \cup {NULL} /\ pendsv' \in BOOLEAN /\ PointersInv'
        /\ OS_Thread[0] # IdleThread => OS_Next' = OS_Next
    BY <1>13, <2>3, SchedKeepsPointers DEF SysTick_Handler
  <2>5. TypeOK'
    <3>1. OS_DelayedSet' \subseteq 1 .. MaxPrio
      BY <2>2 DEF KernelInv, TypeOK
    <3>2. millisec_counter' \in 0 .. MsMax
      BY <1>13 DEF SysTick_Handler, After, KernelInv, TypeOK
    <3>3. TimeOut' \in [TCBs -> 0 .. TickMax]
      <4>1. \A n \in 0 .. TickMax : Decrement(n) \in 0 .. TickMax
        BY DEF Decrement
      <4> QED
        BY <1>13, <4>1 DEF SysTick_Handler, OS_Tick, KernelInv, TypeOK
    <3>4. due' \in [TCBs -> 0 .. MsMax]
      BY <1>13 DEF SysTick_Handler, OS_Tick, KernelInv, TypeOK
    <3> QED
      BY <1>13, <2>3, <2>4, <3>1, <3>2, <3>3, <3>4 DEF SysTick_Handler, KernelInv,
         TypeOK
  <2>6. BitsInv'
    BY <1>13, <2>2 DEF SysTick_Handler, KernelInv, BitsInv
  <2>7. MainInv' /\ FirstInv' /\ TableInv'
    BY <1>13, <2>3, <2>4 DEF SysTick_Handler, KernelInv, MainInv, FirstInv, TableInv,
       PrioOf
  <2> QED
    BY <2>4, <2>5, <2>6, <2>7 DEF KernelInv
<1>14. CASE PendSV_Handler
  BY <1>14 DEF PendSV_Handler, KernelInv, TypeOK, MainInv, FirstInv, TableInv, BitsInv,
     PointersInv, PrioOf
<1>15. CASE UNCHANGED vars
  BY <1>15 DEF vars, KernelInv, TypeOK, MainInv, FirstInv, TableInv, BitsInv,
     PointersInv, PrioOf
<1> QED
  BY <1>1, <1>2, <1>3, <1>4, <1>5, <1>6, <1>7, <1>8, <1>9, <1>10, <1>11,
     <1>12, <1>13, <1>14, <1>15 DEF Next, MainStep, OS_msDelay

\* At every moment, between any two statements of OSThread_Start too and with
\* equal priorities too, the table, the words and the pointers of Os.c fit
\* together: OS_Sched always finds a thread once threads run, and every bit
\* OS_Tick follows leads to a control block that has that bit (Os.c:87-188).
THEOREM KernelInvariant == Spec => []KernelInv
<1> QED
  BY KernelInit, KernelStep, PTL DEF Spec

\* The variables of the kernel keep their types: in particular every index
\* used on OS_Thread is in range and every TCB dereferenced by OS_Tick exists.
THEOREM TypeCorrect == Spec => []TypeOK
<1>1. KernelInv => TypeOK
  BY DEF KernelInv
<1> QED
  BY <1>1, KernelInvariant, PTL

(***************************************************************************)
(* Second layer: which thread is in which set, and which one runs.         *)
(***************************************************************************)

\* Only the current thread is inside OS_msDelay, and interrupts are masked
\* exactly while OS_msDelay or the end of OS_Run is under way.
MaskInv ==
  /\ pc[IdleThread] = "body"
  /\ pc[Main] \in MainSteps
  /\ pc[Main] \in {"sched", "enable"} => OS_Curr = NULL /\ primask
  /\ \A t \in Threads :
       /\ pc[t] \in ThreadSteps
       /\ pc[t] # "body" => OS_Curr = t /\ primask
  /\ primask =>
       IF OS_Curr = NULL THEN pc[Main] \in {"sched", "enable"}
                         ELSE pc[OS_Curr] # "body"

\* A thread is in the set its next statement says; only started threads are
\* in a set or in OS_msDelay.
PlacesInv ==
  \A t \in Threads :
    /\ t \in Started => OS_Thread[PrioArg[t]] = t
    /\ PrioArg[t] \in OS_ReadySet \cup OS_DelayedSet \/ pc[t] # "body"
         => t \in Started
    /\ t \in Started =>
         /\ pc[t] = "body" =>
              (PrioArg[t] \in OS_ReadySet <=> PrioArg[t] \notin OS_DelayedSet)
         /\ pc[t] \in {"timeout", "unready"} =>
              PrioArg[t] \in OS_ReadySet \ OS_DelayedSet
         /\ pc[t] = "delay" =>
              PrioArg[t] \notin OS_ReadySet \cup OS_DelayedSet
         /\ pc[t] \in {"sched", "enable"} =>
              PrioArg[t] \in OS_DelayedSet \ OS_ReadySet

\* The pending switch goes to the highest ready thread; when none is pending
\* the current thread is that thread, but between the change of the sets by
\* OS_msDelay and its call of OS_Sched.
SwitchInv ==
  /\ pendsv => OS_Next = NextThread(OS_ReadySet) /\ OS_Next # NULL
  /\ pendsv /\ primask => pc[Running] = "enable"
  /\ (OS_Curr # NULL /\ ~pendsv /\ pc[OS_Curr] \notin {"delay", "sched"})
       => OS_Curr = NextThread(OS_ReadySet)

SchedInv ==
  /\ KernelInv
  /\ MaskInv
  /\ PlacesInv
  /\ SwitchInv

LEMMA SchedInit == Init => SchedInv
<1> SUFFICES ASSUME Init
             PROVE  SchedInv
  OBVIOUS
<1> USE ContextsDiffer DEF Init
<1>1. KernelInv
  BY KernelInit
<1>2. MaskInv
  BY DEF MaskInv, MainSteps, ThreadSteps, Contexts, TCBs
<1>3. PlacesInv
  BY DEF PlacesInv, Started, Contexts, TCBs
<1>4. SwitchInv
  BY DEF SwitchInv
<1> QED
  BY <1>1, <1>2, <1>3, <1>4 DEF SchedInv

\* With interrupts enabled every thread is in its body or switched out there.
LEMMA UnmaskedBodies ==
  ASSUME SchedInv, ~primask
  PROVE  /\ \A t \in TCBs : pc[t] = "body"
         /\ pc[Main] \notin {"sched", "enable"}
BY DEF SchedInv, MaskInv, TCBs

\* A thread that executes its own code is started, ready and not delayed, and
\* no switch is pending.
LEMMA BodyIsReady ==
  ASSUME SchedInv, NEW t \in Threads, Running = t, ~ExceptionDue, pc[t] = "body"
  PROVE  /\ ~primask /\ ~pendsv
         /\ t \in Started
         /\ PrioArg[t] \in OS_ReadySet \ OS_DelayedSet
<1> USE ContextsDiffer
<1>1. OS_Curr = t /\ OS_Curr # NULL
  BY DEF Running
<1>2. ~primask /\ ~pendsv
  BY <1>1 DEF SchedInv, KernelInv, TypeOK, MaskInv, ExceptionDue
<1>3. t = NextThread(OS_ReadySet)
  BY <1>1, <1>2 DEF SchedInv, SwitchInv
<1>4. PICK p \in 0 .. MaxPrio :
        /\ t = OS_Thread[p]
        /\ OS_ReadySet = {} => p = 0
        /\ OS_ReadySet # {} => p \in OS_ReadySet
  BY <1>3, NextThreadEntry DEF SchedInv, KernelInv, TypeOK
<1>5. PrioArg[t] = p /\ p # 0
  BY <1>4, PrioOfType DEF SchedInv, KernelInv, TableInv, TCBs
<1>6. PrioArg[t] \in OS_ReadySet
  BY <1>4, <1>5
<1>7. t \in Started /\ PrioArg[t] \notin OS_DelayedSet
  BY <1>6 DEF SchedInv, PlacesInv
<1> QED
  BY <1>2, <1>6, <1>7

\* A thread inside OS_msDelay is started, masks interrupts and, until it has
\* called OS_Sched, has no switch pending.
LEMMA InsideDelay ==
  ASSUME SchedInv, NEW t \in Threads, Running = t, pc[t] # "body"
  PROVE  /\ OS_Curr = t
         /\ primask
         /\ pendsv => pc[t] = "enable"
         /\ t \in Started
BY ContextsDiffer DEF SchedInv, MaskInv, SwitchInv, PlacesInv, Running

\* While main() starts threads no thread runs and no switch is pending.
LEMMA MainIsAlone ==
  ASSUME SchedInv, Running = Main, ~ExceptionDue,
         pc[Main] \in {"main", "register", "prio", "ready"}
  PROVE  /\ OS_Curr = NULL /\ OS_Next = NULL
         /\ ~primask /\ ~pendsv
BY ContextsDiffer DEF SchedInv, KernelInv, TypeOK, MainInv, PointersInv,
   Running, ExceptionDue, TCBs

\* Whatever the sets are, OS_Sched leaves the pending switch, or the current
\* thread, at the highest ready thread.
LEMMA SchedSwitches ==
  ASSUME SchedInv, ~pendsv,
         NEW ready \in SUBSET (1 .. MaxPrio), OS_Sched(ready),
         \A p \in ready : OS_Thread[p] # NULL,
         OS_Thread[0] # IdleThread => ready = {}
  PROVE  /\ pendsv' => OS_Next' = NextThread(ready) /\ OS_Next' # NULL
         /\ ~pendsv' => OS_Curr = NextThread(ready)
<1>1. CASE NextThread(ready) = OS_Curr
  BY <1>1 DEF OS_Sched
<1>2. CASE NextThread(ready) # OS_Curr
  <2>1. pendsv' /\ OS_Next' = NextThread(ready)
    BY <1>2 DEF OS_Sched
  <2>2. OS_Next' \in TCBs
    BY <2>1, SchedFindsThread DEF SchedInv, KernelInv
  <2> QED
    BY <2>1, <2>2, ContextsDiffer DEF TCBs
<1> QED
  BY <1>1, <1>2

\* Once OSThread_Start has returned, the control block is registered and its
\* Prio is set.
LEMMA StartedThread ==
  ASSUME SchedInv, NEW t \in Started
  PROVE  /\ OS_Thread[PrioArg[t]] = t
         /\ Prio[t] = PrioArg[t]
         /\ Bits({t}) = {PrioArg[t]}
<1>1. t \in Threads /\ t \in TCBs /\ t # starting /\ OS_Thread[PrioArg[t]] = t
  BY DEF SchedInv, PlacesInv, Started, TCBs
<1>2. PrioArg[t] \in 0 .. MaxPrio /\ PrioArg[t] # 0
  BY <1>1, ArgumentsInRange, BoundsAreNaturals
<1>3. Prio[t] = PrioArg[t]
  BY <1>1, <1>2, ContextsDiffer DEF SchedInv, KernelInv, TableInv
<1> QED
  BY <1>1, <1>2, <1>3 DEF Bits

\* The hypotheses of the second layer: one thread per priority, and PendSV
\* taken before a SysTick that is pending with it (NVIC at its reset values).
SchedHypotheses == DistinctPriorities /\ PendSVFirst

LEMMA SchedStep ==
  ASSUME SchedHypotheses
  PROVE  SchedInv /\ [Next]_vars => SchedInv'
<1> SUFFICES ASSUME SchedInv, [Next]_vars
             PROVE  MaskInv' /\ PlacesInv' /\ SwitchInv'
  BY KernelStep DEF SchedInv
<1> USE ContextsDiffer
<1>t. TypeOK /\ MainInv /\ FirstInv /\ TypeOK' /\ KernelInv'
  BY KernelStep DEF SchedInv, KernelInv
<1>m. MaskInv /\ PlacesInv /\ SwitchInv
  BY DEF SchedInv
<1>1. ASSUME NEW t \in TCBs, CallOSThread_Start(t)
      PROVE  MaskInv' /\ PlacesInv' /\ SwitchInv'
  <2>1. OS_Curr = NULL /\ ~primask /\ ~pendsv /\ starting = NULL
    BY <1>1, <1>t, MainIsAlone DEF CallOSThread_Start, Goto, MainInv
  <2>2. MaskInv'
    BY <1>1, <1>t, <1>m, <2>1 DEF CallOSThread_Start, Goto, MaskInv, TypeOK, Contexts,
       TCBs, MainSteps
  <2>3. PlacesInv'
    BY <1>1, <1>t, <1>m, <2>1 DEF CallOSThread_Start, Goto, PlacesInv, Started,
       TypeOK, Contexts, TCBs
  <2>4. SwitchInv'
    BY <1>1, <1>m, <2>1 DEF CallOSThread_Start, SwitchInv
  <2> QED
    BY <2>2, <2>3, <2>4
<1>2. CASE OSThread_StartRegister
  <2>1. OS_Curr = NULL /\ ~primask /\ ~pendsv
    BY <1>2, MainIsAlone DEF OSThread_StartRegister, Goto
  <2>2. starting \in TCBs /\ PrioOf(starting) \in 0 .. MaxPrio
    BY <1>2, <1>t, PrioOfType DEF OSThread_StartRegister, Goto, TypeOK, MainInv
  <2>3. MaskInv'
    BY <1>2, <1>t, <1>m, <2>1 DEF OSThread_StartRegister, Goto, MaskInv, TypeOK,
       Contexts, TCBs, MainSteps
  <2>4. PlacesInv'
    <3>1. \A t \in Started : PrioOf(starting) # PrioArg[t]
      BY <2>2, PrioOfType, ArgumentsInRange, BoundsAreNaturals DEF SchedHypotheses,
         DistinctPriorities, Started, TCBs, PrioOf
    <3>2. \A t \in Threads : PrioArg[t] \in 0 .. MaxPrio
      BY ArgumentsInRange, BoundsAreNaturals
    <3>3. /\ OS_Thread' = [OS_Thread EXCEPT ![PrioOf(starting)] = starting]
          /\ UNCHANGED <<OS_ReadySet, OS_DelayedSet, unstarted, starting>>
          /\ \A t \in Threads : pc'[t] = pc[t]
      BY <1>2, <1>t DEF OSThread_StartRegister, Goto, TypeOK, Contexts, TCBs
    <3>4. Started' = Started
      BY <3>3 DEF Started
    <3>5. \A t \in Started : OS_Thread'[PrioArg[t]] = OS_Thread[PrioArg[t]]
      BY <1>t, <2>2, <3>1, <3>2, <3>3 DEF TypeOK, Started
    <3> QED
      BY <1>m, <3>3, <3>4, <3>5 DEF PlacesInv
  <2>5. SwitchInv'
    BY <1>2, <1>m, <2>1 DEF OSThread_StartRegister, SwitchInv
  <2> QED
    BY <2>3, <2>4, <2>5
<1>3. CASE OSThread_StartPrio
  <2>1. OS_Curr = NULL /\ ~primask /\ ~pendsv
    BY <1>3, MainIsAlone DEF OSThread_StartPrio, Goto
  <2>2. MaskInv'
    BY <1>3, <1>t, <1>m, <2>1 DEF OSThread_StartPrio, Goto, MaskInv, TypeOK, Contexts,
       TCBs, MainSteps
  <2>3. PlacesInv'
    BY <1>3, <1>t, <1>m, <2>1 DEF OSThread_StartPrio, Goto, PlacesInv, Started,
       TypeOK, Contexts, TCBs
  <2>4. SwitchInv'
    BY <1>3, <1>m, <2>1 DEF OSThread_StartPrio, SwitchInv
  <2> QED
    BY <2>2, <2>3, <2>4
<1>4. CASE OSThread_StartReady
  <2>1. OS_Curr = NULL /\ OS_Next = NULL /\ ~primask /\ ~pendsv
    BY <1>4, MainIsAlone DEF OSThread_StartReady, Goto
  <2>2. starting \in TCBs /\ OS_Thread[PrioOf(starting)] = starting
    BY <1>4, <1>t DEF OSThread_StartReady, Goto, TypeOK, MainInv
  <2>3. MaskInv'
    BY <1>4, <1>t, <1>m, <2>1 DEF OSThread_StartReady, Goto, MaskInv, TypeOK,
       Contexts, TCBs, MainSteps
  <2>4. PlacesInv'
    <3>1. \A t \in Threads : pc'[t] = "body" /\ pc[t] = "body"
      BY <1>4, <2>1, <1>t, UnmaskedBodies DEF OSThread_StartReady, Goto, TypeOK,
         Contexts, TCBs
    <3>2. \A t \in Threads : t \in Started' <=> t \in Started \/ t = starting
      BY <1>4, <1>t, <1>m, <2>2 DEF OSThread_StartReady, Started, FirstInv, TCBs
    <3>3. \A t \in Threads : t # starting => PrioOf(starting) # PrioArg[t]
      BY <2>2, PrioOfType, ArgumentsInRange, BoundsAreNaturals DEF SchedHypotheses,
         DistinctPriorities, TCBs, PrioOf
    <3>4. starting \in Threads =>
            /\ PrioOf(starting) = PrioArg[starting] /\ PrioArg[starting] # 0
            /\ PrioArg[starting] \notin OS_DelayedSet
      BY <1>m, <2>2, PrioOfType, BoundsAreNaturals DEF PlacesInv, Started, TCBs
    <3>5. \A t \in Threads :
            /\ t \in Started' => OS_Thread'[PrioArg[t]] = t
            /\ PrioArg[t] \in OS_ReadySet' \cup OS_DelayedSet' => t \in Started'
      BY <1>4, <1>m, <2>2, <3>2, <3>3, <3>4 DEF OSThread_StartReady, PlacesInv
    <3>6. \A t \in Threads : t \in Started' =>
            (PrioArg[t] \in OS_ReadySet' <=> PrioArg[t] \notin OS_DelayedSet')
      BY <1>4, <1>m, <3>1, <3>2, <3>3, <3>4 DEF OSThread_StartReady, PlacesInv
    <3>7. starting' \notin unstarted'
      BY <1>4, <1>t DEF OSThread_StartReady, TypeOK, TCBs
    <3> QED
      BY <3>1, <3>5, <3>6, <3>7 DEF PlacesInv
  <2>5. SwitchInv'
    BY <1>4, <1>m, <2>1 DEF OSThread_StartReady, SwitchInv
  <2> QED
    BY <2>3, <2>4, <2>5
<1>5. CASE OS_RunDisable
  <2>1. OS_Curr = NULL /\ ~primask /\ ~pendsv
    BY <1>5, MainIsAlone DEF OS_RunDisable, Goto
  <2>2. MaskInv'
    BY <1>5, <1>t, <1>m, <2>1 DEF OS_RunDisable, Goto, MaskInv, TypeOK, Contexts,
       TCBs, MainSteps
  <2>3. PlacesInv'
    BY <1>5, <1>t, <1>m, <2>1 DEF OS_RunDisable, Goto, PlacesInv, Started, TypeOK,
       Contexts, TCBs
  <2>4. SwitchInv'
    BY <1>5, <1>m, <2>1 DEF OS_RunDisable, SwitchInv
  <2> QED
    BY <2>2, <2>3, <2>4

<1>6. ASSUME NEW t \in Threads, OS_msDelayDisable(t)
      PROVE  MaskInv' /\ PlacesInv' /\ SwitchInv'
  <2>1. /\ OS_Curr = t /\ OS_Curr # NULL /\ ~primask /\ ~pendsv
        /\ t \in Started
        /\ PrioArg[t] \in OS_ReadySet \ OS_DelayedSet
    BY <1>6, BodyIsReady DEF OS_msDelayDisable, Goto, Running
  <2>2. MaskInv'
    BY <1>6, <1>t, <1>m, <2>1 DEF OS_msDelayDisable, Goto, MaskInv, TypeOK, Contexts,
       TCBs, ThreadSteps
  <2>3. PlacesInv'
    BY <1>6, <1>t, <1>m, <2>1 DEF OS_msDelayDisable, Goto, PlacesInv, Started, TypeOK,
       Contexts, TCBs
  <2>4. SwitchInv'
    <3>1. pc[t] = "body"
      BY <1>6 DEF OS_msDelayDisable, Goto
    <3>2. OS_Curr = NextThread(OS_ReadySet)
      BY <1>m, <2>1, <3>1 DEF SwitchInv
    <3> QED
      BY <1>6, <2>1, <3>2 DEF OS_msDelayDisable, SwitchInv, NextThread
  <2> QED
    BY <2>2, <2>3, <2>4
<1>7. ASSUME NEW t \in Threads, NEW Ticks \in Delays, OS_msDelayTimeOut(t, Ticks)
      PROVE  MaskInv' /\ PlacesInv' /\ SwitchInv'
  <2>1. /\ OS_Curr = t /\ OS_Curr # NULL /\ primask /\ ~pendsv /\ t \in Started
        /\ pc[t] = "timeout"
    BY <1>7, <1>t, InsideDelay DEF OS_msDelayTimeOut, Goto, TypeOK
  <2>2. MaskInv'
    BY <1>7, <1>t, <1>m, <2>1 DEF OS_msDelayTimeOut, Goto, MaskInv, TypeOK, Contexts,
       TCBs, ThreadSteps
  <2>3. PlacesInv'
    BY <1>7, <1>t, <1>m, <2>1 DEF OS_msDelayTimeOut, Goto, PlacesInv, Started, TypeOK,
       Contexts, TCBs
  <2>4. SwitchInv'
    <3>1. OS_Curr = NextThread(OS_ReadySet)
      BY <1>m, <2>1 DEF SwitchInv
    <3> QED
      BY <1>7, <2>1, <3>1 DEF OS_msDelayTimeOut, SwitchInv, NextThread
  <2> QED
    BY <2>2, <2>3, <2>4
<1>8. ASSUME NEW t \in Threads, OS_msDelayUnready(t)
      PROVE  MaskInv' /\ PlacesInv' /\ SwitchInv'
  <2>1. /\ OS_Curr = t /\ OS_Curr # NULL /\ primask /\ ~pendsv /\ t \in Started
        /\ pc[t] = "unready" /\ Bits({OS_Curr}) = {PrioArg[t]}
    BY <1>8, <1>t, InsideDelay, StartedThread DEF OS_msDelayUnready, Goto, TypeOK
  <2>2. pc'[t] = "delay"
    BY <1>8, <1>t DEF OS_msDelayUnready, Goto, TypeOK, Contexts, TCBs
  <2>3. MaskInv'
    BY <1>8, <1>t, <1>m, <2>1 DEF OS_msDelayUnready, Goto, MaskInv, TypeOK, Contexts,
       TCBs, ThreadSteps
  <2>4. PlacesInv'
    BY <1>8, <1>t, <1>m, <2>1 DEF OS_msDelayUnready, Goto, PlacesInv, Started, TypeOK,
       Contexts, TCBs,
       SchedHypotheses, DistinctPriorities
  <2>5. SwitchInv'
    BY <1>8, <2>1, <2>2 DEF OS_msDelayUnready, SwitchInv
  <2> QED
    BY <2>3, <2>4, <2>5
<1>9. ASSUME NEW t \in Threads, OS_msDelayDelay(t)
      PROVE  MaskInv' /\ PlacesInv' /\ SwitchInv'
  <2>1. /\ OS_Curr = t /\ OS_Curr # NULL /\ primask /\ ~pendsv /\ t \in Started
        /\ pc[t] = "delay" /\ Bits({OS_Curr}) = {PrioArg[t]}
    BY <1>9, <1>t, InsideDelay, StartedThread DEF OS_msDelayDelay, Goto, TypeOK
  <2>2. pc'[t] = "sched"
    BY <1>9, <1>t DEF OS_msDelayDelay, Goto, TypeOK, Contexts, TCBs
  <2>3. MaskInv'
    BY <1>9, <1>t, <1>m, <2>1 DEF OS_msDelayDelay, Goto, MaskInv, TypeOK, Contexts,
       TCBs, ThreadSteps
  <2>4. PlacesInv'
    BY <1>9, <1>t, <1>m, <2>1 DEF OS_msDelayDelay, Goto, PlacesInv, Started, TypeOK,
       Contexts, TCBs,
       SchedHypotheses, DistinctPriorities
  <2>5. SwitchInv'
    BY <1>9, <2>1, <2>2 DEF OS_msDelayDelay, SwitchInv
  <2> QED
    BY <2>3, <2>4, <2>5
<1>10. ASSUME NEW c \in Threads \cup {Main}, CallOS_Sched(c)
      PROVE  MaskInv' /\ PlacesInv' /\ SwitchInv'
  <2>1. primask /\ ~pendsv /\ pc[Running] = "sched" /\ Running = c
    BY <1>10, <1>t, <1>m DEF CallOS_Sched, Goto, TypeOK, MaskInv, SwitchInv
  <2>2. /\ pendsv' => OS_Next' = NextThread(OS_ReadySet) /\ OS_Next' # NULL
        /\ ~pendsv' => OS_Curr = NextThread(OS_ReadySet)
    BY <1>10, <1>t, <1>m, <2>1, SchedSwitches DEF CallOS_Sched, TypeOK, SchedInv,
       KernelInv, BitsInv, FirstInv
  <2>3. MaskInv'
    BY <1>10, <1>t, <1>m, <2>1 DEF CallOS_Sched, Goto, MaskInv, TypeOK, Contexts,
       TCBs, ThreadSteps, MainSteps
  <2>4. PlacesInv'
    BY <1>10, <1>t, <1>m, <2>1 DEF CallOS_Sched, Goto, PlacesInv, Started, TypeOK,
       Contexts, TCBs
  <2>5. SwitchInv'
    <3>1. Running' = Running /\ pc'[Running] = "enable"
      BY <1>10, <1>t, <2>1 DEF CallOS_Sched, Goto, Running, TypeOK, Contexts, TCBs
    <3>2. NextThread(OS_ReadySet)' = NextThread(OS_ReadySet)
      BY <1>10 DEF CallOS_Sched, NextThread
    <3> QED
      BY <1>10, <2>2, <3>1, <3>2 DEF CallOS_Sched, SwitchInv
  <2> QED
    BY <2>3, <2>4, <2>5
<1>11. ASSUME NEW c \in Threads \cup {Main}, CallEnable_Irq(c)
       PROVE  MaskInv' /\ PlacesInv' /\ SwitchInv'
  <2>1. primask /\ pc[c] = "enable" /\ Running = c
    BY <1>11, <1>t, <1>m DEF CallEnable_Irq, Goto, MaskInv, TypeOK
  <2>2. MaskInv'
    BY <1>11, <1>t, <1>m, <2>1 DEF CallEnable_Irq, Goto, MaskInv, Running, TypeOK,
       Contexts, TCBs, ThreadSteps, MainSteps
  <2>3. PlacesInv'
    BY <1>11, <1>t, <1>m, <2>1 DEF CallEnable_Irq, Goto, PlacesInv, Started, TypeOK,
       Contexts, TCBs
  <2>4. SwitchInv'
    <3>1. OS_Curr # NULL => OS_Curr = c
      BY <2>1 DEF Running
    <3>2. NextThread(OS_ReadySet)' = NextThread(OS_ReadySet)
      BY <1>11 DEF CallEnable_Irq, NextThread
    <3> QED
      BY <1>11, <1>m, <2>1, <3>1, <3>2 DEF CallEnable_Irq, SwitchInv
  <2> QED
    BY <2>2, <2>3, <2>4
<1>12. CASE SysTickReload
  <2>1. NextThread(OS_ReadySet)' = NextThread(OS_ReadySet) /\ Running' = Running /\ Started' = Started
    BY <1>12 DEF SysTickReload, NextThread, Running, Started
  <2> QED
    BY <1>12, <1>m, <2>1 DEF SysTickReload, MaskInv, PlacesInv, SwitchInv
<1>13. CASE SysTick_Handler
  <2>1. ~primask /\ ~pendsv
    BY <1>13 DEF SysTick_Handler, SchedHypotheses
  <2>2. \A t \in TCBs : pc[t] = "body"
    BY <2>1, UnmaskedBodies
  <2>3. /\ OS_ReadySet' \in SUBSET (1 .. MaxPrio)
        /\ \A p \in OS_ReadySet' : OS_Thread[p] # NULL
        /\ OS_Thread[0] # IdleThread => OS_ReadySet' = {}
    BY <1>13, <1>t DEF SysTick_Handler, KernelInv, TypeOK, BitsInv, FirstInv
  <2>4. /\ pendsv' => OS_Next' = NextThread(OS_ReadySet') /\ OS_Next' # NULL
        /\ ~pendsv' => OS_Curr = NextThread(OS_ReadySet')
    BY <1>13, <2>1, <2>3, SchedSwitches DEF SysTick_Handler
  <2>5. MaskInv'
    BY <1>13, <1>m, <2>1 DEF SysTick_Handler, MaskInv
  <2>6. PlacesInv'
    <3>1. \A t \in Started : PrioArg[t] \in Bits(Expired) => PrioArg[t] \in OS_DelayedSet
      BY DelayedEntries DEF SchedInv
    <3>2. \A t \in Threads : PrioArg[t] \in Bits(Expired) => t \in Started
      BY <1>m, DelayedEntries DEF SchedInv, PlacesInv
    <3>3. Started' = Started /\ OS_Thread' = OS_Thread /\ pc' = pc /\ starting' = starting /\ unstarted' = unstarted
      BY <1>13 DEF SysTick_Handler, Started
    <3>4. /\ OS_ReadySet' = OS_ReadySet \cup Bits(Expired)
          /\ OS_DelayedSet' = OS_DelayedSet \ Bits(Expired)
      BY <1>13 DEF SysTick_Handler, OS_Tick
    <3> DEFINE Woken == Bits(Expired)
    <3> HIDE DEF Woken
    <3> QED
      BY <1>m, <2>2, <3>1, <3>2, <3>3, <3>4 DEF PlacesInv, TCBs, Woken
  <2>7. SwitchInv'
    <3>1. NextThread(OS_ReadySet)' = NextThread(OS_ReadySet')
      BY <1>13 DEF SysTick_Handler, NextThread
    <3> QED
      BY <1>13, <2>1, <2>4, <3>1 DEF SysTick_Handler, SwitchInv
  <2> QED
    BY <2>5, <2>6, <2>7
<1>14. CASE PendSV_Handler
  <2>1. ~primask /\ pendsv /\ OS_Next = NextThread(OS_ReadySet) /\ OS_Next # NULL
    BY <1>14, <1>m DEF PendSV_Handler, SwitchInv
  <2>2. NextThread(OS_ReadySet)' = NextThread(OS_ReadySet) /\ Started' = Started
    BY <1>14 DEF PendSV_Handler, NextThread, Started
  <2>3. MaskInv'
    BY <1>14, <1>m, <2>1 DEF PendSV_Handler, MaskInv
  <2>4. PlacesInv'
    BY <1>14, <1>m, <2>1, <2>2 DEF PendSV_Handler, PlacesInv
  <2>5. SwitchInv'
    BY <1>14, <2>1, <2>2 DEF PendSV_Handler, SwitchInv
  <2> QED
    BY <2>3, <2>4, <2>5
<1>15. CASE UNCHANGED vars
  BY <1>15, <1>m DEF vars, MaskInv, PlacesInv, SwitchInv, Started, NextThread, Running
<1> QED
  BY <1>1, <1>2, <1>3, <1>4, <1>5, <1>6, <1>7, <1>8, <1>9, <1>10, <1>11, <1>12,
     <1>13, <1>14, <1>15 DEF Next, MainStep, OS_msDelay

THEOREM SchedInvariant ==
  ASSUME SchedHypotheses
  PROVE  Spec => []SchedInv
<1>1. SchedInv /\ [Next]_vars => SchedInv'
  BY SchedStep
<1> QED
  BY SchedInit, <1>1, PTL DEF Spec

\* With distinct priorities and PendSV taken first, the thread that executes is
\* always the highest ready one: OS_Sched (Os.c:87-109) and PendSV_Handler
\* (Os.c:303-349) neither miss a switch nor take one that is out of date.
THEOREM HighestReadyRunsAlways ==
  ASSUME SchedHypotheses
  PROVE  Spec => []HighestReadyRuns
<1>1. SchedInv => HighestReadyRuns
  <2> SUFFICES ASSUME SchedInv, OS_Curr # NULL, ~primask, ~pendsv
               PROVE  /\ OS_Curr # IdleThread => Prio[OS_Curr] \in OS_ReadySet
                      /\ \A p \in OS_ReadySet : p <= Prio[OS_Curr]
    BY DEF HighestReadyRuns
  <2>1. OS_Curr \in TCBs
    BY DEF SchedInv, KernelInv, TypeOK
  <2>2. OS_Curr = NextThread(OS_ReadySet)
    BY <2>1, UnmaskedBodies DEF SchedInv, SwitchInv
  <2>3. PICK p \in 0 .. MaxPrio :
          /\ OS_Curr = OS_Thread[p]
          /\ OS_ReadySet = {} => p = 0
          /\ OS_ReadySet # {} => p \in OS_ReadySet /\ \A q \in OS_ReadySet : q <= p
    BY <2>2, NextThreadEntry DEF SchedInv, KernelInv, TypeOK
  <2>4. Prio[OS_Curr] = p
    <3>1. PrioOf(OS_Curr) = p /\ Prio[OS_Curr] \in {0, p}
      BY <2>1, <2>3 DEF SchedInv, KernelInv, TableInv
    <3>2. CASE OS_Curr = IdleThread
      BY <3>1, <3>2 DEF PrioOf
    <3>3. CASE OS_Curr \in Threads
      <4>1. PrioArg[OS_Curr] = p /\ p # 0
        BY <3>1, <3>3, PrioOfType, BoundsAreNaturals DEF TCBs
      <4>2. OS_Curr \in Started
        BY <2>3, <3>3, <4>1 DEF SchedInv, PlacesInv
      <4> QED
        BY <4>1, <4>2, StartedThread
    <3> QED
      BY <2>1, <3>2, <3>3 DEF TCBs
  <2>5. OS_Thread[0] = IdleThread
    BY DEF SchedInv, KernelInv, FirstInv
  <2> QED
    BY <2>3, <2>4, <2>5
<1> QED
  BY <1>1, SchedInvariant, PTL

\* With distinct priorities and PendSV taken first, no thread is ever lost from
\* the two sets or left in both (Os.c:142-188).
THEOREM SetsPartitionAlways ==
  ASSUME SchedHypotheses
  PROVE  Spec => []SetsPartition
<1>1. SchedInv => SetsPartition
  <2> SUFFICES ASSUME SchedInv, ~primask
               PROVE  /\ OS_ReadySet \cap OS_DelayedSet = {}
                      /\ OS_ReadySet \cup OS_DelayedSet = {PrioArg[t] : t \in Started}
    BY DEF SetsPartition
  <2>1. \A t \in Threads : pc[t] = "body"
    BY UnmaskedBodies DEF TCBs
  <2>2. \A p \in OS_ReadySet \cup OS_DelayedSet :
          \E t \in Threads : p = PrioArg[t]
    <3>1. TAKE p \in OS_ReadySet \cup OS_DelayedSet
    <3>2. p \in 1 .. MaxPrio /\ p \in 0 .. MaxPrio /\ OS_Thread[p] \in TCBs
      BY BoundsAreNaturals DEF SchedInv, KernelInv, TypeOK, BitsInv
    <3>3. PrioOf(OS_Thread[p]) = p
      BY <3>2, ContextsDiffer DEF SchedInv, KernelInv, TableInv, TCBs
    <3> QED
      BY <3>2, <3>3 DEF PrioOf, TCBs
  <2>3. \A t \in Threads :
          /\ PrioArg[t] \in OS_ReadySet \cup OS_DelayedSet => t \in Started
          /\ t \in Started =>
               (PrioArg[t] \in OS_ReadySet <=> PrioArg[t] \notin OS_DelayedSet)
    BY <2>1 DEF SchedInv, PlacesInv
  <2> QED
    BY <2>2, <2>3 DEF Started
<1> QED
  BY <1>1, SchedInvariant, PTL

(***************************************************************************)
(* Third layer: how long a delay lasts.                                    *)
(***************************************************************************)

\* The counter value a sleeper waits for is as far ahead as its TimeOut says.
CountdownInv ==
  \A t \in Threads :
    PrioArg[t] \in OS_DelayedSet \/ pc[t] \in {"unready", "delay"} =>
      /\ TimeOut[t] # 0
      /\ due[t] = After(millisec_counter, TimeOut[t])

\* A started thread in the delayed set is one OS_Tick visits, and if its bit
\* is among those OS_Tick moves then it is that thread's timeout that expires.
LEMMA SleeperIsVisited ==
  ASSUME SchedInv, NEW t \in Threads, PrioArg[t] \in OS_DelayedSet
  PROVE  /\ t \in Delayed
         /\ Prio[t] = PrioArg[t]
         /\ PrioArg[t] \in Bits(Expired) <=> t \in Expired
<1>1. OS_Thread[PrioArg[t]] = t /\ Prio[t] = PrioArg[t]
  BY StartedThread DEF SchedInv, PlacesInv
<1>2. t \in Delayed
  BY <1>1 DEF Delayed
<1>3. \A u \in Expired : Prio[u] = PrioArg[t] => u = t
  BY <1>1, DelayedEntries DEF SchedInv, Expired
<1>4. PrioArg[t] # 0
  BY ArgumentsInRange, BoundsAreNaturals
<1> QED
  BY <1>1, <1>2, <1>3, <1>4 DEF Bits

\* One period later there is one tick less to wait.
LEMMA AfterOneTick ==
  ASSUME NEW m \in 0 .. MsMax, NEW n \in 1 .. TickMax
  PROVE  After(After(m, 1), n - 1) = After(m, n)
BY BoundsAreNaturals DEF After

LEMMA CountdownStep ==
  ASSUME SchedHypotheses, 0 \notin Delays
  PROVE  SchedInv /\ CountdownInv /\ [Next]_vars => CountdownInv'
<1> SUFFICES ASSUME SchedInv, CountdownInv, [Next]_vars
             PROVE  CountdownInv'
  OBVIOUS
<1> USE ContextsDiffer
<1>t. TypeOK
  BY DEF SchedInv, KernelInv
<1>1. CASE MainStep
  <2>1. /\ \A t \in Threads : pc'[t] = pc[t]
        /\ UNCHANGED <<OS_DelayedSet, TimeOut, due, millisec_counter>>
    BY <1>1, <1>t DEF MainStep, CallOSThread_Start, OSThread_StartRegister,
       OSThread_StartPrio, OSThread_StartReady,
       OS_RunDisable, Goto, TypeOK, Contexts, TCBs
  <2> QED
    BY <2>1 DEF CountdownInv, After
<1>2. ASSUME NEW t \in Threads, OS_msDelayDisable(t)
      PROVE  CountdownInv'
  BY <1>2, <1>t DEF OS_msDelayDisable, Goto, CountdownInv, After, TypeOK, Contexts, TCBs
<1>3. ASSUME NEW t \in Threads, NEW Ticks \in Delays, OS_msDelayTimeOut(t, Ticks)
      PROVE  CountdownInv'
  <2>1. OS_Curr = t
    BY <1>3, RunningThread DEF OS_msDelayTimeOut, Goto, SchedInv
  <2>2. Ticks # 0
    OBVIOUS
  <2>3. TimeOut'[t] = Ticks /\ due'[t] = After(millisec_counter, Ticks)
    BY <1>3, <1>t, <2>1 DEF OS_msDelayTimeOut, TypeOK, TCBs
  <2>4. \A u \in Threads : u # t =>
          TimeOut'[u] = TimeOut[u] /\ due'[u] = due[u] /\ pc'[u] = pc[u]
    BY <1>3, <1>t, <2>1 DEF OS_msDelayTimeOut, Goto, TypeOK, TCBs, Contexts
  <2>5. UNCHANGED <<OS_DelayedSet, millisec_counter>>
    BY <1>3 DEF OS_msDelayTimeOut
  <2> QED
    BY <2>2, <2>3, <2>4, <2>5 DEF CountdownInv, After
<1>4. ASSUME NEW t \in Threads, OS_msDelayUnready(t)
      PROVE  CountdownInv'
  <2>1. pc[t] = "unready" /\ \A u \in Threads : u # t => pc'[u] = pc[u]
    BY <1>4, <1>t DEF OS_msDelayUnready, Goto, TypeOK, Contexts, TCBs
  <2>2. UNCHANGED <<OS_DelayedSet, TimeOut, due, millisec_counter>>
    BY <1>4 DEF OS_msDelayUnready
  <2> QED
    BY <2>1, <2>2 DEF CountdownInv, After
<1>5. ASSUME NEW t \in Threads, OS_msDelayDelay(t)
      PROVE  CountdownInv'
  <2>1. pc[t] = "delay" /\ \A u \in Threads : u # t => pc'[u] = pc[u]
    BY <1>5, <1>t DEF OS_msDelayDelay, Goto, TypeOK, Contexts, TCBs
  <2>2. UNCHANGED <<TimeOut, due, millisec_counter>>
    BY <1>5 DEF OS_msDelayDelay
  <2>3. \A u \in Threads : u # t /\ PrioArg[u] \in OS_DelayedSet' => PrioArg[u] \in OS_DelayedSet
    BY <1>5, RunningThread DEF OS_msDelayDelay, Goto, SchedInv, SchedHypotheses,
       DistinctPriorities
  <2> QED
    BY <2>1, <2>2, <2>3 DEF CountdownInv, After
<1>6. ASSUME NEW c \in Threads \cup {Main}, CallOS_Sched(c) \/ CallEnable_Irq(c)
      PROVE  CountdownInv'
  BY <1>6, <1>t DEF CallOS_Sched, CallEnable_Irq, Goto, CountdownInv, After, TypeOK,
     Contexts, TCBs
<1>7. CASE SysTick_Handler
  <2>1. SUFFICES ASSUME NEW t \in Threads, PrioArg[t] \in OS_DelayedSet' \/ pc'[t] \in {"unready", "delay"}
                 PROVE  TimeOut'[t] # 0 /\ due'[t] = After(millisec_counter', TimeOut'[t])
    BY DEF CountdownInv, After
  <2>2. pc'[t] = "body"
    BY <1>7, UnmaskedBodies DEF SysTick_Handler, TCBs
  <2>3. PrioArg[t] \in OS_DelayedSet /\ t \in Delayed /\ t \notin Expired
    BY <1>7, <2>1, <2>2, SleeperIsVisited DEF SysTick_Handler, OS_Tick
  <2>4. Decrement(TimeOut[t]) # 0 /\ TimeOut'[t] = Decrement(TimeOut[t]) /\ due'[t] = due[t]
    BY <1>7, <2>3 DEF SysTick_Handler, OS_Tick, Expired, TCBs
  <2>5. TimeOut[t] \in 1 .. TickMax /\ due[t] = After(millisec_counter, TimeOut[t])
    BY <1>t, <2>3, BoundsAreNaturals DEF CountdownInv, TypeOK, TCBs
  <2>6. TimeOut'[t] = TimeOut[t] - 1 /\ TimeOut'[t] # 0
    BY <2>4, <2>5 DEF Decrement
  <2>7. millisec_counter' = After(millisec_counter, 1) /\ millisec_counter \in 0 .. MsMax
    BY <1>7, <1>t DEF SysTick_Handler, TypeOK
  <2> QED
    BY <2>4, <2>5, <2>6, <2>7, AfterOneTick
<1>8. CASE SysTickReload \/ PendSV_Handler \/ UNCHANGED vars
  BY <1>8 DEF SysTickReload, PendSV_Handler, vars, CountdownInv, After
<1> QED
  BY <1>1, <1>2, <1>3, <1>4, <1>5, <1>6, <1>7, <1>8 DEF Next, OS_msDelay

\* With distinct priorities, PendSV taken first and no delay of zero ticks,
\* every delay ends in exactly the period it was asked to end in, for delays
\* and counters of any width (Os.c:142-188, Gpt.c:43-56).
THEOREM WakesOnTimeAlways ==
  ASSUME SchedHypotheses, 0 \notin Delays
  PROVE  Spec => WakesOnTime
<1>1. Init => CountdownInv
  BY ContextsDiffer DEF Init, CountdownInv, Contexts, TCBs
<1>2. SchedInv /\ CountdownInv /\ [Next]_vars => CountdownInv'
  BY CountdownStep
<1> DEFINE Wakes ==
      \A t \in Threads :
        (PrioArg[t] \in OS_DelayedSet /\ PrioArg[t] \notin OS_DelayedSet')
          => millisec_counter' = due[t]
<1>3. SchedInv /\ CountdownInv /\ [Next]_vars => [Wakes]_vars
  <2> SUFFICES ASSUME SchedInv, CountdownInv, [Next]_vars, NEW t \in Threads,
                      PrioArg[t] \in OS_DelayedSet, PrioArg[t] \notin OS_DelayedSet'
               PROVE  millisec_counter' = due[t]
    OBVIOUS
  <2>1. SysTick_Handler
    BY DEF Next, MainStep, CallOSThread_Start, OSThread_StartRegister,
       OSThread_StartPrio, OSThread_StartReady,
       OS_RunDisable, OS_msDelay, OS_msDelayDisable, OS_msDelayTimeOut,
       OS_msDelayUnready,
       OS_msDelayDelay, CallOS_Sched, CallEnable_Irq, SysTickReload, PendSV_Handler,
       vars
  <2>2. t \in Expired
    BY <2>1, SleeperIsVisited DEF SysTick_Handler, OS_Tick
  <2>3. TimeOut[t] \in 1 .. TickMax /\ due[t] = After(millisec_counter, TimeOut[t])
    BY BoundsAreNaturals DEF CountdownInv, SchedInv, KernelInv, TypeOK, TCBs
  <2>4. TimeOut[t] = 1
    BY <2>2, <2>3 DEF Expired, Decrement
  <2> QED
    BY <2>1, <2>3, <2>4 DEF SysTick_Handler
<1>4. Spec => [][Wakes]_vars
  BY <1>1, <1>2, <1>3, SchedInit, SchedInvariant, PTL DEF Spec
<1> QED
  BY <1>4 DEF WakesOnTime
=============================================================================
