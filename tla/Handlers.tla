------------------------------ MODULE Handlers ------------------------------
(***************************************************************************)
(* The two exception handlers step by step.  Module Os takes each as one   *)
(* action, SysTick_Handler with the effect of all visits of OS_Tick's loop *)
(* in closed form.  Here the loop finds its threads as the code does, by   *)
(* the highest bit left in the working set and the table OS_Thread;        *)
(* PendSV_Handler loads OS_Next twice, once for the stack and once for     *)
(* OS_Curr; the timer goes on reloading meanwhile; and a SysTick that is   *)
(* more urgent than PendSV interrupts PendSV_Handler wherever that does    *)
(* not mask it.                                                            *)
(***************************************************************************)
EXTENDS Os

VARIABLES
  ticking,                \* the core is in SysTick_Handler
  pendingDelayedThreads,  \* OS_Tick's working set
  switching,              \* how far PendSV_Handler is, "off" outside of it
  stack                   \* the context on whose stack the stack pointer is

tickVars   == <<ticking, pendingDelayedThreads>>
switchVars == <<switching, stack>>
allVars    == <<vars, tickVars, switchVars>>

\* SysTick_Handler up to the loop of OS_Tick.
EnterSysTick ==
  /\ ~ticking
  /\ pendst
  /\ ~primask
  /\ pendsv \/ switching # "off" => ~PendSVFirst
  /\ pendst' = FALSE
  /\ millisec_counter' = After(millisec_counter, 1)
  /\ ticking' = TRUE
  /\ pendingDelayedThreads' = OS_DelayedSet
  /\ UNCHANGED <<OS_Curr, OS_Next, OS_Thread, Prio, TimeOut, OS_ReadySet,
                 OS_DelayedSet, primask, pendsv, pc, unstarted, starting, due,
                 switchVars>>

\* The thread the loop comes to, by its index in OS_Thread.
Thread == OS_Thread[LOG2(pendingDelayedThreads)]

\* 1U << (Thread->Prio - 1U)
ThreadBit == Bits({Thread})

\* Fault: the working set is left as it is.
RemainingAll == pendingDelayedThreads

\* Fault: only the bit of a thread that wakes up is taken out.
RemainingUntilExpired ==
  IF Decrement(TimeOut[Thread]) = 0
    THEN pendingDelayedThreads \ ThreadBit ELSE pendingDelayedThreads

\* The working set of the next turn.
Remaining == pendingDelayedThreads \ ThreadBit

\* One turn of the loop.
Visit ==
  /\ ticking
  /\ pendingDelayedThreads # {}
  /\ TimeOut' = [TimeOut EXCEPT ![Thread] = Decrement(@)]
  /\ IF TimeOut'[Thread] = 0
       THEN /\ OS_ReadySet' = OS_ReadySet \cup ThreadBit
            /\ OS_DelayedSet' = OS_DelayedSet \ ThreadBit
            /\ due' = [due EXCEPT ![Thread] = 0]
       ELSE UNCHANGED <<OS_ReadySet, OS_DelayedSet, due>>
  /\ pendingDelayedThreads' = Remaining
  /\ UNCHANGED <<OS_Curr, OS_Next, OS_Thread, Prio, millisec_counter, primask,
                 pendsv, pendst, pc, unstarted, starting, ticking, switchVars>>

\* SysTick_Handler from its call of OS_Sched.
LeaveSysTick ==
  /\ ticking
  /\ pendingDelayedThreads = {}
  /\ OS_Sched(OS_ReadySet)
  /\ ticking' = FALSE
  /\ UNCHANGED <<OS_Curr, OS_Thread, Prio, TimeOut, OS_ReadySet, OS_DelayedSet,
                 millisec_counter, primask, pendst, pc, unstarted, starting,
                 due, pendingDelayedThreads, switchVars>>

(***************************************************************************)
(* PendSV_Handler.                                                         *)
(***************************************************************************)

\* The part of the kernel that PendSV_Handler does not touch.
Untouched ==
  UNCHANGED <<OS_Next, OS_Thread, Prio, TimeOut, OS_ReadySet, OS_DelayedSet,
              millisec_counter, pendst, pc, unstarted, starting, due, tickVars>>

\* The core enters PendSV_Handler; r0-r3, r12, lr, pc and xPSR go on the stack.
EnterPendSV ==
  /\ ~ticking
  /\ switching = "off"
  /\ pendsv
  /\ ~primask
  /\ pendst => PendSVFirst
  /\ pendsv' = FALSE
  /\ switching' = "entered"
  /\ Untouched
  /\ UNCHANGED <<OS_Curr, primask, stack>>

\* The handler goes from one place to the next, unless SysTick comes first.
PendSVStep(from, to) ==
  /\ ~ticking
  /\ switching = from
  /\ pendst /\ ~primask => PendSVFirst
  /\ switching' = to
  /\ Untouched
  /\ UNCHANGED pendsv

\* Fault: PendSV_Handler without its CPSID I.
PendSVUnmasked ==
  /\ PendSVStep("entered", "masked")
  /\ UNCHANGED <<OS_Curr, primask, stack>>

\* CPSID I; then the outgoing context is saved, which for main() does not exist.
PendSVDisable ==
  /\ PendSVStep("entered", "masked")
  /\ primask' = TRUE
  /\ UNCHANGED <<OS_Curr, stack>>

\* sp = OS_Next->MyStckPointer, with the first load of OS_Next.
PendSVStack ==
  /\ PendSVStep("masked", "loaded")
  /\ stack' = OS_Next
  /\ UNCHANGED <<OS_Curr, primask>>

\* OS_Curr = OS_Next, with the second, and POP {r4-r11}.
PendSVCurr ==
  /\ PendSVStep("loaded", "stored")
  /\ OS_Curr' = OS_Next
  /\ UNCHANGED <<primask, stack>>

\* CPSIE I.
PendSVEnable ==
  /\ PendSVStep("stored", "unmasked")
  /\ primask' = FALSE
  /\ UNCHANGED <<OS_Curr, stack>>

\* BX lr: the core takes the rest of the registers from the stack.
PendSVReturn ==
  /\ PendSVStep("unmasked", "off")
  /\ UNCHANGED <<OS_Curr, primask, stack>>

PendSVInstruction ==
  \/ PendSVDisable
  \/ PendSVStack
  \/ PendSVCurr
  \/ PendSVEnable
  \/ PendSVReturn

(***************************************************************************)
(* The rest of the kernel, and the specification.                          *)
(***************************************************************************)

\* Outside the handlers the kernel does what it does in module Os.
Elsewhere ==
  /\ ~ticking
  /\ switching = "off"
  /\ \/ MainStep
     \/ \E t \in Threads : OS_msDelay(t)
     \/ \E c \in Threads \cup {Main} : CallOS_Sched(c) \/ CallEnable_Irq(c)
  /\ UNCHANGED <<tickVars, switchVars>>

\* The timer knows nothing of the handlers.
Reload == SysTickReload /\ UNCHANGED <<tickVars, switchVars>>

HandlersInit ==
  /\ Init
  /\ ticking = FALSE
  /\ pendingDelayedThreads = {}
  /\ switching = "off"
  /\ stack = Main

HandlersNext ==
  \/ EnterSysTick
  \/ Visit
  \/ LeaveSysTick
  \/ EnterPendSV
  \/ PendSVInstruction
  \/ Elsewhere
  \/ Reload

HandlersSpec == HandlersInit /\ [][HandlersNext]_allVars

\* The core executes SysTick_Handler's instructions.
FairHandlersSpec == HandlersSpec /\ WF_allVars(Visit \/ LeaveSysTick)

(***************************************************************************)
(* Properties.                                                             *)
(***************************************************************************)

\* SysTick_Handler returns: the working set loses a bit in every turn of the
\* loop, for which the index under which a thread is found and the bit its Prio
\* designates have to agree (Os.c:170-187).
HandlerReturns == ticking ~> ~ticking

\* The stack in use is the stack of the thread OS_Curr says is running, but
\* between the two stores of PendSV_Handler: whatever ticks come before, after
\* or, if they could, in between, its two loads of OS_Next find the same thread,
\* and a thread at that (Os.c:326-338, 103-108).
OneStack == switching # "loaded" => stack = Running

\* The kernel as it will be at the end of the SysTick_Handler under way.
Left        == {OS_Thread[p] : p \in pendingDelayedThreads}
Ending      == {t \in Left : Decrement(TimeOut[t]) = 0}
TimeOutThen == [t \in TCBs |-> IF t \in Left THEN Decrement(TimeOut[t]) ELSE TimeOut[t]]
ReadyThen   == OS_ReadySet \cup Bits(Ending)
DelayedThen == OS_DelayedSet \ Bits(Ending)
dueThen     == [t \in TCBs |-> IF t \in Ending THEN 0 ELSE due[t]]
Requesting  == ticking /\ NextThread(ReadyThen) # OS_Curr
NextThen    == IF Requesting THEN NextThread(ReadyThen) ELSE OS_Next

\* And as if PendSV_Handler had done all its work with its CPSID I.
CurrThen    == IF switching \in {"masked", "loaded"} THEN OS_Next ELSE OS_Curr
primaskThen == primask /\ switching = "off"

\* A switch is still to be made.  A PendSV that a tick requests between the
\* entry of PendSV_Handler and its CPSID I is served by the handler under way,
\* and when it is taken once more there is nothing left to switch.
pendsvThen ==
  /\ pendsv \/ switching = "entered" \/ Requesting
  /\ NextThen # CurrThen

Whole ==
  INSTANCE Os WITH
    TimeOut       <- TimeOutThen,
    OS_ReadySet   <- ReadyThen,
    OS_DelayedSet <- DelayedThen,
    due           <- dueThen,
    OS_Next       <- NextThen,
    OS_Curr       <- CurrThen,
    primask       <- primaskThen,
    pendsv        <- pendsvThen

\* The handlers have the effects they have in module Os, where each is one step:
\* OS_Tick visits each delayed thread once and no visit undoes another, whatever
\* the sets, the timeouts and the order of the visits (Os.c:166-188); a tick
\* that interrupts PendSV_Handler neither loses a switch nor makes it go to a
\* thread that is no longer the next (Os.c:303-349).
ImplementsOs == Whole!Spec

\* The threads OSThread_Start has made a stack for and entered in OS_Thread.
Created ==
  {t \in TCBs \ unstarted : pc[Main] = "register" => t # starting}

\* A switch has been requested and PendSV_Handler has not stored OS_Curr.
Needed == pendsv \/ switching \in {"entered", "masked", "loaded"}

Switching ==
  INSTANCE Switches WITH
    Threads <- TCBs,
    created <- Created,
    cur     <- OS_Curr,
    next    <- OS_Next,
    pending <- Needed

\* However early the tick comes, no switch is made to a thread OSThread_Start
\* is still building the stack of, PendSV_Handler switches when a switch was
\* requested and only then, and main() creates no thread after it has lost the
\* processor: what module Context takes for granted (Os.c:245-290, 87-109).
SwitchesToCreated == Switching!Spec
=============================================================================
