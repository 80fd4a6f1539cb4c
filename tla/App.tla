-------------------------------- MODULE App ---------------------------------
(***************************************************************************)
(* The application of App.c on the kernel: two threads and the idle thread *)
(* drive pins of port C and the LED of port A, and SysTick_Handler pulses  *)
(* pin 2 of port C.  The pin functions of Gpio.c read, modify and write    *)
(* the output data register of the port, which all of them share.          *)
(*                                                                         *)
(* The module adds to the kernel of module Os where each thread is in its  *)
(* code, its copy of the register, and the registers; every kernel step is *)
(* the step of module Os.  The content of an output register is the set of *)
(* its pins that are high.                                                 *)
(***************************************************************************)
EXTENDS Os, Sequences

CONSTANTS
  Blinky_Thread,
  TogglePC3_Thread,
  DelayUnit      \* 10 in the code, where every delay is a multiple of it

ASSUME ApplicationThreads ==
  /\ Threads = {Blinky_Thread, TogglePC3_Thread}
  /\ Blinky_Thread # TogglePC3_Thread

ASSUME DelaysOfApp ==
  /\ DelayUnit \in Nat
  /\ {DelayUnit, 2 * DelayUnit, 4 * DelayUnit} \subseteq Delays

VARIABLES
  GPIOA_ODR,
  GPIOC_ODR,
  port_c_lock,  \* set and cleared; no code reads it
  at,           \* the call a thread's loop has come to
  stage,        \* how far the thread is in a pin function of port C
  loaded        \* the thread's copy of GPIOC_ODR between its load and its store

appVars == <<GPIOA_ODR, GPIOC_ODR, port_c_lock, at, stage, loaded>>

(***************************************************************************)
(* The threads' loops.                                                     *)
(***************************************************************************)

Led(level)     == [call |-> "Led", level |-> level]
Pin(p, level)  == [call |-> "Pin", pin |-> p, level |-> level]
Delay(Ticks)   == [call |-> "OS_msDelay", ticks |-> Ticks]
Wait           == [call |-> "Wait_For_Interrupt"]

\* Fault: the highest thread waits for interrupts where it has to delay.
Blinky_MainBusy == <<Led(TRUE), Wait, Led(FALSE), Wait>>

Blinky_Main    == <<Led(TRUE), Delay(DelayUnit), Led(FALSE), Delay(2 * DelayUnit)>>
TogglePC3_Main == <<Pin(3, TRUE), Delay(2 * DelayUnit),
                    Pin(3, FALSE), Delay(4 * DelayUnit)>>
OS_OnIdle      == <<Pin(10, TRUE), Pin(10, FALSE), Wait>>

Loop(t) ==
  CASE t = Blinky_Thread    -> Blinky_Main
    [] t = TogglePC3_Thread -> TogglePC3_Main
    [] t = IdleThread       -> OS_OnIdle

Statement(t) == Loop(t)[at[t]]

Advance(t) == at' = [at EXCEPT ![t] = (@ % Len(Loop(t))) + 1]

\* The thread executes an instruction of its own code.
InBody(t, call) ==
  /\ Running = t
  /\ ~ExceptionDue
  /\ pc[t] = "body"
  /\ Statement(t).call = call
  /\ UNCHANGED vars

(***************************************************************************)
(* Gpio.c.                                                                 *)
(***************************************************************************)

\* Fault: a pin is cleared with an assignment to the register.
DriveAll(odr, p, level) == IF level THEN odr \cup {p} ELSE {}

\* An output register after pin p has been set or cleared.
Drive(odr, p, level) == IF level THEN odr \cup {p} ELSE odr \ {p}

\* Led_On and Led_Off; no other context uses port A.
WriteLed(t) ==
  /\ InBody(t, "Led")
  /\ GPIOA_ODR' = Drive(GPIOA_ODR, 5, Statement(t).level)
  /\ Advance(t)
  /\ UNCHANGED <<GPIOC_ODR, port_c_lock, stage, loaded>>

\* AcquirePortResource ignores the value the flag had.
AcquirePortResource(t) ==
  /\ InBody(t, "Pin")
  /\ stage[t] = "acquire"
  /\ port_c_lock' = TRUE
  /\ stage' = [stage EXCEPT ![t] = "load"]
  /\ UNCHANGED <<GPIOA_ODR, GPIOC_ODR, at, loaded>>

LoadPortC(t) ==
  /\ InBody(t, "Pin")
  /\ stage[t] = "load"
  /\ loaded' = [loaded EXCEPT ![t] = GPIOC_ODR]
  /\ stage' = [stage EXCEPT ![t] = "store"]
  /\ UNCHANGED <<GPIOA_ODR, GPIOC_ODR, port_c_lock, at>>

StorePortC(t) ==
  /\ InBody(t, "Pin")
  /\ stage[t] = "store"
  /\ GPIOC_ODR' = Drive(loaded[t], Statement(t).pin, Statement(t).level)
  /\ loaded' = [loaded EXCEPT ![t] = {}]
  /\ stage' = [stage EXCEPT ![t] = "release"]
  /\ UNCHANGED <<GPIOA_ODR, port_c_lock, at>>

ReleasePortResource(t) ==
  /\ InBody(t, "Pin")
  /\ stage[t] = "release"
  /\ port_c_lock' = FALSE
  /\ stage' = [stage EXCEPT ![t] = "acquire"]
  /\ Advance(t)
  /\ UNCHANGED <<GPIOA_ODR, GPIOC_ODR, loaded>>

\* Any interrupt ends the wait, and WFI may end without one.
WaitForInterrupt(t) ==
  /\ InBody(t, "Wait_For_Interrupt")
  /\ Advance(t)
  /\ UNCHANGED <<GPIOA_ODR, GPIOC_ODR, port_c_lock, stage, loaded>>

(***************************************************************************)
(* The kernel under this application.                                      *)
(***************************************************************************)

\* main() starts the threads in this order.
StartThreads ==
  /\ \/ \E t \in TCBs :
          /\ t = TogglePC3_Thread => Blinky_Thread \notin unstarted
          /\ CallOSThread_Start(t)
     \/ OSThread_StartRegister
     \/ OSThread_StartPrio
     \/ OSThread_StartReady
     \/ OS_RunDisable
  /\ UNCHANGED appVars

\* A loop's call of OS_msDelay, up to the return from it.
DelayThread(t) ==
  /\ Statement(t).call = "OS_msDelay"
  /\ \/ OS_msDelayDisable(t)
     \/ OS_msDelayTimeOut(t, Statement(t).ticks)
     \/ OS_msDelayUnready(t)
     \/ OS_msDelayDelay(t)
     \/ CallOS_Sched(t)
  /\ UNCHANGED appVars

ReturnFromDelay(t) ==
  /\ CallEnable_Irq(t)
  /\ Advance(t)
  /\ UNCHANGED <<GPIOA_ODR, GPIOC_ODR, port_c_lock, stage, loaded>>

RunThreads ==
  /\ CallOS_Sched(Main) \/ CallEnable_Irq(Main)
  /\ UNCHANGED appVars

\* Fault: SysTick_Handler without its PC2_Off.
RaisePC2 ==
  /\ SysTick_Handler
  /\ GPIOC_ODR' = Drive(GPIOC_ODR, 2, TRUE)
  /\ port_c_lock' = FALSE
  /\ UNCHANGED <<GPIOA_ODR, at, stage, loaded>>

\* PC2_On at the start of the handler and PC2_Off at its end.
PulsePC2 ==
  /\ SysTick_Handler
  /\ GPIOC_ODR' = Drive(Drive(GPIOC_ODR, 2, TRUE), 2, FALSE)
  /\ port_c_lock' = FALSE
  /\ UNCHANGED <<GPIOA_ODR, at, stage, loaded>>

Hardware ==
  /\ SysTickReload \/ PendSV_Handler
  /\ UNCHANGED appVars

AppInit ==
  /\ Init
  /\ GPIOA_ODR = {}
  /\ GPIOC_ODR = {}
  /\ port_c_lock = FALSE
  /\ at = [t \in TCBs |-> 1]
  /\ stage = [t \in TCBs |-> "acquire"]
  /\ loaded = [t \in TCBs |-> {}]

\* A thread executes one instruction of its own code.
Body(t) ==
  \/ WriteLed(t)
  \/ AcquirePortResource(t)
  \/ LoadPortC(t)
  \/ StorePortC(t)
  \/ ReleasePortResource(t)
  \/ WaitForInterrupt(t)

AppNext ==
  \/ StartThreads
  \/ RunThreads
  \/ \E t \in TCBs : Body(t)
  \/ \E t \in Threads : DelayThread(t) \/ ReturnFromDelay(t)
  \/ PulsePC2
  \/ Hardware

AppSpec == AppInit /\ [][AppNext]_<<vars, appVars>>

\* The program counter of a thread moves on: in its loop or in OS_msDelay.
ThreadStep(t) == Body(t) \/ DelayThread(t) \/ ReturnFromDelay(t)

\* The core executes what it can.  A period of SysTick is 180001 cycles, so a
\* thread that keeps coming back to the processor executes an instruction
\* again and again, although ticks interrupt it: fairness is strong.
AppFairness ==
  /\ WF_<<vars, appVars>>(SysTickReload /\ UNCHANGED appVars)
  /\ WF_<<vars, appVars>>(PendSV_Handler /\ UNCHANGED appVars)
  /\ WF_<<vars, appVars>>(PulsePC2)
  /\ WF_<<vars, appVars>>(RunThreads)
  /\ \A t \in Threads : SF_<<vars, appVars>>(ThreadStep(t))

FairAppSpec == AppSpec /\ AppFairness

(***************************************************************************)
(* Properties.                                                             *)
(***************************************************************************)

\* Type invariant of the application's variables (App.c:29-50, Gpio.c:11).
AppTypeOK ==
  /\ GPIOA_ODR \subseteq {5}
  /\ GPIOC_ODR \subseteq {2, 3, 10}
  /\ port_c_lock \in BOOLEAN
  /\ \A t \in TCBs : at[t] \in 1 .. Len(Loop(t))
  /\ stage \in [TCBs -> {"acquire", "load", "store", "release"}]
  /\ loaded \in [TCBs -> SUBSET {3, 10}]

\* Pin p is at the level the thread's last completed pin function gave it:
\* on says at which calls of its loop it has last driven the pin high.
Follows(t, p, on) ==
  stage[t] = "acquire" /\ OS_Curr # NULL => (p \in GPIOC_ODR <=> at[t] \in on)

\* The idle thread's pulses on pin 10 are never lost or stretched by another
\* context's write, because the contexts that preempt the idle thread finish
\* their read-modify-write before it goes on (Os.c:122-129, Gpio.c:178-200).
PC10FollowsIdle == Follows(IdleThread, 10, {2})

\* Until the toggling thread sleeps, pin 3 has the level its last pin function
\* gave it, however often it is preempted before and in OS_msDelay: the writes
\* that the idle thread left half done come only when every thread sleeps, and
\* so spoil the pin no earlier than its next half period (App.c:41-50,
\* Gpio.c:110-132).
PC3UntilDelay ==
  /\ at[TogglePC3_Thread] = 2 => 3 \in GPIOC_ODR
  /\ at[TogglePC3_Thread] = 4 => 3 \notin GPIOC_ODR

\* Neither thread is ever starved by the other, or stuck in a delay: a started
\* thread comes to both halves of its loop again and again (App.c:29-50).
LoopsForever ==
  \A t \in Threads :
    /\ t \in Started ~> at[t] = 3
    /\ at[t] = 3 ~> at[t] = 1

\* The comment of PC3_On and PC3_Off, "atomic access to ensure exclusive port
\* access" (Gpio.c:104-105, 121-122): pin 3 has the level the thread gave it.
PC3FollowsToggle == Follows(TogglePC3_Thread, 3, {2, 3})
=============================================================================
