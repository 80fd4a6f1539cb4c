--------------------------------- MODULE Os ---------------------------------
(***************************************************************************)
(* The kernel of CM4_LiteRTOS: thread registration (OSThread_Start,        *)
(* OS_Init), the start of multitasking (OS_Run), the blocking delay        *)
(* (OS_msDelay), the tick (SysTick_Handler, OS_Tick), the scheduler        *)
(* (OS_Sched) and the context switch (PendSV_Handler), on one Cortex-M4    *)
(* core whose two exceptions are SysTick and PendSV.                       *)
(*                                                                         *)
(* Thread-mode code moves one source statement at a time, because an       *)
(* exception may be taken between any two of them.  The two handlers are   *)
(* one action each.  SysTick_Handler runs at the most urgent priority, and *)
(* PendSV_Handler masks exceptions from its first instruction to its last  *)
(* but one; module Handlers takes both step by step, with what may still   *)
(* come in between, and implements this one.                               *)
(*                                                                         *)
(* A word used as a bit mask is the set of the 1-based positions of its    *)
(* set bits, so that bit 1U << (Prio - 1U) is the number Prio.             *)
(***************************************************************************)
EXTENDS Integers, FiniteSetsExt

CONSTANTS
  Threads,     \* the application's thread control blocks (OSThread variables)
  IdleThread,  \* the kernel's own control block
  Main,        \* the context main() runs in until the first context switch
  NULL,        \* the null OSThread pointer
  PrioArg,     \* the Prio argument each thread is started with
  MaxPrio,     \* the highest index of OS_Thread: 32 in the code
  Delays,      \* the Ticks arguments the threads pass to OS_msDelay
  TickMax,     \* the largest value of OSThread.TimeOut: 2^32 - 1 in the code
  MsMax,       \* the largest value of millisec_counter: 2^64 - 1 in the code
  PendSVPrio   \* the priority PendSV has once OS_Init has run: 0 is most urgent

ASSUME ContextsDiffer ==
  /\ IdleThread \notin Threads
  /\ Main \notin Threads \cup {IdleThread}
  /\ NULL \notin Threads \cup {IdleThread, Main}

ASSUME BoundsAreNaturals ==
  /\ MaxPrio \in Nat
  /\ TickMax \in Nat \ {0}
  /\ MsMax \in Nat
  /\ TickMax <= MsMax
  /\ NULL \notin 0 .. MsMax
  /\ PendSVPrio \in Nat

ASSUME ArgumentsInRange ==
  /\ PrioArg \in [Threads -> 1 .. MaxPrio]
  /\ Delays \subseteq 0 .. TickMax

VARIABLES
  OS_Curr,           \* the current thread, NULL until the first switch
  OS_Next,           \* the thread the pending PendSV switches to
  OS_Thread,         \* the registered threads, by priority
  Prio,              \* OSThread.Prio of every control block
  TimeOut,           \* OSThread.TimeOut of every control block
  OS_ReadySet,
  OS_DelayedSet,
  millisec_counter,
  primask,           \* set by cpsid i, cleared by cpsie i
  pendsv,            \* PendSV is pending (ICSR bit 28)
  pendst,            \* SysTick is pending: one bit, so a second reload is lost
  pc,                \* the next statement of every context
  unstarted,         \* the threads main() has still to pass to OSThread_Start
  starting,          \* the TCB argument of the OSThread_Start call under way
  due                \* for the properties: the counter value a sleeper waits for

vars == <<OS_Curr, OS_Next, OS_Thread, Prio, TimeOut, OS_ReadySet,
          OS_DelayedSet, millisec_counter, primask, pendsv, pendst, pc,
          unstarted, starting, due>>

TCBs     == Threads \cup {IdleThread}
Contexts == TCBs \cup {Main}

\* What main() does; OS_Run is its last call.
MainSteps   == {"main", "register", "prio", "ready", "sched", "enable", "returned"}
\* What a thread does; "body" is the thread's own code.
ThreadSteps == {"body", "timeout", "unready", "delay", "sched", "enable"}

\* The Prio argument of a control block: OS_Init starts the idle thread at 0.
PrioOf(t) == IF t = IdleThread THEN 0 ELSE PrioArg[t]

(***************************************************************************)
(* Words and counters.                                                     *)
(***************************************************************************)

\* Fault: LOG2 counts the zeros below the lowest set bit, as __builtin_ctz does.
LOG2Lowest(x) == Min(x)

\* LOG2(x), x # 0: the position of the highest set bit of a word.
LOG2(x) == Max(x)

\* The bits 1U << (Prio - 1U) of some threads.  For a Prio of 0, where C leaves
\* the shift undefined, the Cortex-M4 shifts by 255, the low byte of the count,
\* and no bit is left.
Bits(threads) == {Prio[t] : t \in threads} \ {0}

\* The decrement of the unsigned TimeOut, which wraps at zero.
Decrement(n) == IF n = 0 THEN TickMax ELSE n - 1

\* The counter value n periods after value m.
After(m, n) == IF m + n <= MsMax THEN m + n ELSE m + n - (MsMax + 1)

(***************************************************************************)
(* The scheduler, as the effect of a call on OS_Next and PendSV.           *)
(***************************************************************************)

NextThread(ready) ==
  IF ready = {} THEN OS_Thread[0] ELSE OS_Thread[LOG2(ready)]

OS_Sched(ready) ==
  IF NextThread(ready) # OS_Curr
    THEN /\ OS_Next' = NextThread(ready)
         /\ pendsv' = TRUE
    ELSE UNCHANGED <<OS_Next, pendsv>>

(***************************************************************************)
(* The core.  An exception that is pending and not masked is taken before  *)
(* the next thread-mode instruction.  Among two that are pending the more  *)
(* urgent goes first, and at equal priority the one with the lower number: *)
(* PendSV is exception 14, SysTick 15.                                     *)
(***************************************************************************)

\* OS_OnStartup leaves SysTick at the most urgent level.
SysTickPrio == 0

\* Fault: PendSV at the least urgent priority, where Os.c:70 means to put it.
PendSVLast == FALSE

PendSVFirst == PendSVPrio <= SysTickPrio

Running == IF OS_Curr = NULL THEN Main ELSE OS_Curr

ExceptionDue == ~primask /\ (pendsv \/ pendst)

\* The running context executes the statement at from and goes on to to.
Goto(c, from, to) ==
  /\ Running = c
  /\ ~ExceptionDue
  /\ pc[c] = from
  /\ pc' = [pc EXCEPT ![c] = to]

(***************************************************************************)
(* main(), from the call that enables SysTick: the idle thread is started  *)
(* by OS_Init, then the application's threads, in any order, then OS_Run.  *)
(* Nothing is masked while threads are being started.                      *)
(***************************************************************************)

\* Fault: the control block is registered before its stack has been set up.
CallOSThread_StartRegisters(t) ==
  /\ t \in unstarted
  /\ IdleThread \in unstarted => t = IdleThread
  /\ Goto(Main, "main", "register")
  /\ starting' = t
  /\ unstarted' = unstarted \ {t}
  /\ OS_Thread' = [OS_Thread EXCEPT ![PrioOf(t)] = t]
  /\ UNCHANGED <<OS_Curr, OS_Next, Prio, TimeOut, OS_ReadySet,
                 OS_DelayedSet, millisec_counter, primask, pendsv, pendst, due>>

\* main() calls OSThread_Start; OS_Init's call for the idle thread is the first.
CallOSThread_Start(t) ==
  /\ t \in unstarted
  /\ IdleThread \in unstarted => t = IdleThread
  /\ Goto(Main, "main", "register")
  /\ starting' = t
  /\ unstarted' = unstarted \ {t}
  /\ UNCHANGED <<OS_Curr, OS_Next, OS_Thread, Prio, TimeOut, OS_ReadySet,
                 OS_DelayedSet, millisec_counter, primask, pendsv, pendst, due>>

\* OS_Thread[Prio] = TCB
OSThread_StartRegister ==
  /\ Goto(Main, "register", "prio")
  /\ OS_Thread' = [OS_Thread EXCEPT ![PrioOf(starting)] = starting]
  /\ UNCHANGED <<OS_Curr, OS_Next, Prio, TimeOut, OS_ReadySet, OS_DelayedSet,
                 millisec_counter, primask, pendsv, pendst, unstarted,
                 starting, due>>

\* TCB->Prio = Prio
OSThread_StartPrio ==
  /\ Goto(Main, "prio", "ready")
  /\ Prio' = [Prio EXCEPT ![starting] = PrioOf(starting)]
  /\ UNCHANGED <<OS_Curr, OS_Next, OS_Thread, TimeOut, OS_ReadySet,
                 OS_DelayedSet, millisec_counter, primask, pendsv, pendst,
                 unstarted, starting, due>>

\* Fault: the idle thread is given a bit of the ready set too.
OSThread_StartIdleReady ==
  /\ Goto(Main, "ready", "main")
  /\ OS_ReadySet' = OS_ReadySet \cup {PrioOf(starting)}
  /\ starting' = NULL
  /\ UNCHANGED <<OS_Curr, OS_Next, OS_Thread, Prio, TimeOut, OS_DelayedSet,
                 millisec_counter, primask, pendsv, pendst, unstarted, due>>

\* Make the thread ready, unless it has the idle thread's priority.
OSThread_StartReady ==
  /\ Goto(Main, "ready", "main")
  /\ OS_ReadySet' = OS_ReadySet \cup ({PrioOf(starting)} \ {0})
  /\ starting' = NULL
  /\ UNCHANGED <<OS_Curr, OS_Next, OS_Thread, Prio, TimeOut, OS_DelayedSet,
                 millisec_counter, primask, pendsv, pendst, unstarted, due>>

\* OS_Run masks interrupts; its OS_OnStartup changed no state of the kernel.
OS_RunDisable ==
  /\ unstarted = {}
  /\ Goto(Main, "main", "sched")
  /\ primask' = TRUE
  /\ UNCHANGED <<OS_Curr, OS_Next, OS_Thread, Prio, TimeOut, OS_ReadySet,
                 OS_DelayedSet, millisec_counter, pendsv, pendst, unstarted,
                 starting, due>>

(***************************************************************************)
(* OS_msDelay, called by an application thread.  The idle thread runs      *)
(* OS_OnIdle for ever, which touches no state of the kernel.               *)
(***************************************************************************)

\* Fault: OS_msDelay without its Disable_Irq.
OS_msDelayUnmasked(t) ==
  /\ Goto(t, "body", "timeout")
  /\ UNCHANGED <<OS_Curr, OS_Next, OS_Thread, Prio, TimeOut, OS_ReadySet,
                 OS_DelayedSet, millisec_counter, primask, pendsv, pendst,
                 unstarted, starting, due>>

\* The thread calls OS_msDelay, which masks interrupts.
OS_msDelayDisable(t) ==
  /\ Goto(t, "body", "timeout")
  /\ primask' = TRUE
  /\ UNCHANGED <<OS_Curr, OS_Next, OS_Thread, Prio, TimeOut, OS_ReadySet,
                 OS_DelayedSet, millisec_counter, pendsv, pendst, unstarted,
                 starting, due>>

\* OS_Curr->TimeOut = Ticks
OS_msDelayTimeOut(t, Ticks) ==
  /\ Goto(t, "timeout", "unready")
  /\ TimeOut' = [TimeOut EXCEPT ![OS_Curr] = Ticks]
  /\ due' = [due EXCEPT ![OS_Curr] = After(millisec_counter, Ticks)]
  /\ UNCHANGED <<OS_Curr, OS_Next, OS_Thread, Prio, OS_ReadySet, OS_DelayedSet,
                 millisec_counter, primask, pendsv, pendst, unstarted, starting>>

\* OS_ReadySet &= ~(1U << (OS_Curr->Prio - 1U))
OS_msDelayUnready(t) ==
  /\ Goto(t, "unready", "delay")
  /\ OS_ReadySet' = OS_ReadySet \ Bits({OS_Curr})
  /\ UNCHANGED <<OS_Curr, OS_Next, OS_Thread, Prio, TimeOut, OS_DelayedSet,
                 millisec_counter, primask, pendsv, pendst, unstarted,
                 starting, due>>

\* OS_DelayedSet |= (1U << (OS_Curr->Prio - 1U))
OS_msDelayDelay(t) ==
  /\ Goto(t, "delay", "sched")
  /\ OS_DelayedSet' = OS_DelayedSet \cup Bits({OS_Curr})
  /\ UNCHANGED <<OS_Curr, OS_Next, OS_Thread, Prio, TimeOut, OS_ReadySet,
                 millisec_counter, primask, pendsv, pendst, unstarted,
                 starting, due>>

(***************************************************************************)
(* The calls OS_Run and OS_msDelay share.                                  *)
(***************************************************************************)

CallOS_Sched(c) ==
  /\ Goto(c, "sched", "enable")
  /\ OS_Sched(OS_ReadySet)
  /\ UNCHANGED <<OS_Curr, OS_Thread, Prio, TimeOut, OS_ReadySet, OS_DelayedSet,
                 millisec_counter, primask, pendst, unstarted, starting, due>>

\* A thread returns to its body; OS_Run returns to main(), which has ended.
CallEnable_Irq(c) ==
  /\ Goto(c, "enable", IF c = Main THEN "returned" ELSE "body")
  /\ primask' = FALSE
  /\ UNCHANGED <<OS_Curr, OS_Next, OS_Thread, Prio, TimeOut, OS_ReadySet,
                 OS_DelayedSet, millisec_counter, pendsv, pendst, unstarted,
                 starting, due>>

(***************************************************************************)
(* The exceptions.                                                         *)
(***************************************************************************)

\* The SysTick counter reloads, at any time: SysTick_Init has enabled it.
SysTickReload ==
  /\ ~pendst
  /\ pendst' = TRUE
  /\ UNCHANGED <<OS_Curr, OS_Next, OS_Thread, Prio, TimeOut, OS_ReadySet,
                 OS_DelayedSet, millisec_counter, primask, pendsv, pc,
                 unstarted, starting, due>>

\* Fault: OS_Tick's loop runs while the working set is > 1U, not != 0U.
DelayedButLowest == {OS_Thread[p] : p \in OS_DelayedSet \ {1}}

\* The threads OS_Tick visits, and those of them it wakes.
Delayed == {OS_Thread[p] : p \in OS_DelayedSet}
Expired == {t \in Delayed : Decrement(TimeOut[t]) = 0}

\* Fault: OS_Tick forgets to take an expired thread out of OS_DelayedSet.
OS_TickKeeps ==
  /\ TimeOut' = [t \in TCBs |->
                   IF t \in Delayed THEN Decrement(TimeOut[t]) ELSE TimeOut[t]]
  /\ OS_ReadySet' = OS_ReadySet \cup Bits(Expired)
  /\ UNCHANGED <<OS_DelayedSet, due>>

\* The visits of OS_Tick's loop are independent, so they are taken at once.
OS_Tick ==
  /\ TimeOut' = [t \in TCBs |->
                   IF t \in Delayed THEN Decrement(TimeOut[t]) ELSE TimeOut[t]]
  /\ OS_ReadySet' = OS_ReadySet \cup Bits(Expired)
  /\ OS_DelayedSet' = OS_DelayedSet \ Bits(Expired)
  /\ due' = [t \in TCBs |-> IF t \in Expired THEN 0 ELSE due[t]]

\* Fault: SysTick_Handler without its call of OS_Sched.
SysTick_HandlerNoSched ==
  /\ pendst
  /\ ~primask
  /\ pendsv => ~PendSVFirst
  /\ pendst' = FALSE
  /\ millisec_counter' = After(millisec_counter, 1)
  /\ OS_Tick
  /\ UNCHANGED <<OS_Curr, OS_Next, OS_Thread, Prio, primask, pendsv, pc,
                 unstarted, starting>>

\* SysTick_Handler; interrupts are enabled when it is entered and when it ends.
SysTick_Handler ==
  /\ pendst
  /\ ~primask
  /\ pendsv => ~PendSVFirst
  /\ pendst' = FALSE
  /\ millisec_counter' = After(millisec_counter, 1)
  /\ OS_Tick
  /\ OS_Sched(OS_ReadySet')
  /\ UNCHANGED <<OS_Curr, OS_Thread, Prio, primask, pc, unstarted, starting>>

\* PendSV_Handler: the outgoing context is saved in its own control block,
\* which for main() does not exist; the incoming one resumes where it was.
PendSV_Handler ==
  /\ pendsv
  /\ ~primask
  /\ pendst => PendSVFirst
  /\ pendsv' = FALSE
  /\ OS_Curr' = OS_Next
  /\ UNCHANGED <<OS_Next, OS_Thread, Prio, TimeOut, OS_ReadySet, OS_DelayedSet,
                 millisec_counter, primask, pendst, pc, unstarted, starting, due>>

(***************************************************************************)
(* The specification.  crt_init_ram has zeroed every variable.             *)
(***************************************************************************)

Init ==
  /\ OS_Curr = NULL
  /\ OS_Next = NULL
  /\ OS_Thread = [p \in 0 .. MaxPrio |-> NULL]
  /\ Prio = [t \in TCBs |-> 0]
  /\ TimeOut = [t \in TCBs |-> 0]
  /\ OS_ReadySet = {}
  /\ OS_DelayedSet = {}
  /\ millisec_counter = 0
  /\ primask = FALSE
  /\ pendsv = FALSE
  /\ pendst = FALSE
  /\ pc = [c \in Contexts |-> IF c = Main THEN "main" ELSE "body"]
  /\ unstarted = TCBs
  /\ starting = NULL
  /\ due = [t \in TCBs |-> 0]

MainStep ==
  \/ \E t \in TCBs : CallOSThread_Start(t)
  \/ OSThread_StartRegister
  \/ OSThread_StartPrio
  \/ OSThread_StartReady
  \/ OS_RunDisable

OS_msDelay(t) ==
  \/ OS_msDelayDisable(t)
  \/ \E Ticks \in Delays : OS_msDelayTimeOut(t, Ticks)
  \/ OS_msDelayUnready(t)
  \/ OS_msDelayDelay(t)

Next ==
  \/ MainStep
  \/ \E t \in Threads : OS_msDelay(t)
  \/ \E c \in Threads \cup {Main} : CallOS_Sched(c) \/ CallEnable_Irq(c)
  \/ SysTickReload
  \/ SysTick_Handler
  \/ PendSV_Handler

Spec == Init /\ [][Next]_vars

\* A statement of a section that runs with interrupts masked.
MaskedStep ==
  /\ primask
  /\ \/ \E t \in Threads : OS_msDelay(t)
     \/ \E c \in Threads \cup {Main} : CallOS_Sched(c) \/ CallEnable_Irq(c)

\* The timer keeps reloading, the core takes the exceptions that are due and
\* executes the sections that mask them.  Nothing is assumed of thread bodies:
\* a thread may compute for ever without a call of the kernel.
Fairness ==
  /\ WF_vars(SysTickReload)
  /\ WF_vars(SysTick_Handler)
  /\ WF_vars(PendSV_Handler)
  /\ WF_vars(MaskedStep)

FairSpec == Spec /\ Fairness

(***************************************************************************)
(* Properties.                                                             *)
(***************************************************************************)

\* Type invariant of the kernel's variables (Os.c:10-18, Os.h:7-12).
TypeOK ==
  /\ OS_Curr \in TCBs \cup {NULL}
  /\ OS_Next \in TCBs \cup {NULL}
  /\ OS_Thread \in [0 .. MaxPrio -> TCBs \cup {NULL}]
  /\ Prio \in [TCBs -> 0 .. MaxPrio]
  /\ TimeOut \in [TCBs -> 0 .. TickMax]
  /\ OS_ReadySet \subseteq 1 .. MaxPrio
  /\ OS_DelayedSet \subseteq 1 .. MaxPrio
  /\ millisec_counter \in 0 .. MsMax
  /\ primask \in BOOLEAN
  /\ pendsv \in BOOLEAN
  /\ pendst \in BOOLEAN
  /\ pc \in [Contexts -> MainSteps \cup ThreadSteps]
  /\ unstarted \subseteq TCBs
  /\ starting \in TCBs \cup {NULL}
  /\ due \in [TCBs -> 0 .. MsMax]

\* No two threads are started with the same priority.
DistinctPriorities ==
  \A s, t \in Threads : s # t => PrioArg[s] # PrioArg[t]

\* The application's threads for which OSThread_Start has returned.
Started == Threads \ (unstarted \cup {starting})

\* Whenever interrupts are enabled, the ready set and the delayed set split
\* the started threads: OS_msDelay and OS_Tick (Os.c:142-188) between them
\* never lose a thread and never leave one in both sets.
SetsPartition ==
  ~primask =>
    /\ OS_ReadySet \cap OS_DelayedSet = {}
    /\ OS_ReadySet \cup OS_DelayedSet = {PrioArg[t] : t \in Started}

\* Once threads run, and unless a switch is about to be taken, the current
\* thread is ready and no ready thread has a higher priority: the switches
\* OS_Sched (Os.c:87-109) requests are neither missed nor out of date.
HighestReadyRuns ==
  (OS_Curr # NULL /\ ~primask /\ ~pendsv) =>
    /\ OS_Curr # IdleThread => Prio[OS_Curr] \in OS_ReadySet
    /\ \A p \in OS_ReadySet : p <= Prio[OS_Curr]

\* OS_msDelay "puts the current thread into the delayed set for a given number
\* of ticks" (Os.c:135): OS_Tick moves it to the ready set in exactly the period
\* the call asked for, counted by millisec_counter, whatever the other threads
\* and the switches do (Os.c:142-188).
WakesOnTime ==
  [][\A t \in Threads :
       (PrioArg[t] \in OS_DelayedSet /\ PrioArg[t] \notin OS_DelayedSet')
         => millisec_counter' = due[t]]_vars

\* A delay ends: a thread in the delayed set leaves it again (Os.c:166-188).
DelayEnds ==
  \A t \in Threads :
    PrioArg[t] \in OS_DelayedSet ~> PrioArg[t] \notin OS_DelayedSet

\* The thread with the highest priority gets the processor back after every
\* delay, whatever the others do: preemption works (Gpt.c:43-56, Os.c:303-349).
TopThreadReturns ==
  \A t \in Threads :
    (\A u \in Threads : PrioArg[u] <= PrioArg[t]) =>
      (PrioArg[t] \in OS_DelayedSet ~> (OS_Curr = t /\ PrioArg[t] \in OS_ReadySet))

\* A thread sleeps while its bit is in OS_DelayedSet, until the counter has
\* advanced by its TimeOut.
WakeTime ==
  [t \in Threads |-> IF PrioArg[t] \in OS_DelayedSet
                       THEN After(millisec_counter, TimeOut[t]) ELSE NULL]

\* What module Kernel promises, in terms of the code.
Promise ==
  INSTANCE Kernel WITH
    Idle       <- IdleThread,
    Importance <- PrioArg,
    Durations  <- Delays,
    Awake      <- NULL,
    LastTime   <- MsMax,
    now        <- millisec_counter,
    started    <- Started,
    wake       <- WakeTime,
    cur        <- Running

\* Seen from a thread, the kernel is module Kernel: of all the words, masks and
\* exceptions of Os.c nothing shows but threads that sleep exactly as long as
\* they asked for and a processor that is the highest awake thread's.
KeepsPromise == Promise!Spec

(***************************************************************************)
(* What the repository says of the kernel and the code does not do.        *)
(***************************************************************************)

\* "Transfer control to the RTOS to run the threads" (Os.h:25): threads start
\* to run when OS_Run transfers control to them, so all have been started.
OS_RunTransfersControl ==
  OS_Curr # NULL => pc[Main] = "returned"

\* OS_msDelay "puts the current thread into the delayed set" (Os.c:135): the bit
\* that it sets is the thread's.
DelayPutsToSleep ==
  [][\A t \in Threads :
       pc[t] = "delay" /\ pc'[t] = "sched" => PrioArg[t] \in OS_DelayedSet']_vars
=============================================================================
