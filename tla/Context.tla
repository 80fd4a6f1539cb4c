------------------------------- MODULE Context ------------------------------
(***************************************************************************)
(* The context switch on the words of memory: the frame OSThread_Start     *)
(* builds, the frame the core pushes when it takes an exception, and the   *)
(* saving and restoring of stack pointer and registers by PendSV_Handler.  *)
(* All contexts and both handlers use one stack pointer, so a handler runs *)
(* on the stack of the thread it interrupts.                               *)
(*                                                                         *)
(* Which thread is next, and when, is module Os's subject; here any thread *)
(* may be requested at any time.  Stacks and the stack pointer are counted *)
(* in words of four bytes, of which two make the alignment of the ABI.     *)
(***************************************************************************)
EXTENDS Integers, Sequences

CONSTANTS
  Threads,
  Main,           \* the context of main()
  NULL,
  StkStorage,     \* the byte address of the stack of every context
  StkSize,        \* and its size in bytes
  BodyWords,      \* the most a context itself has on its stack
  HandlerWords,   \* what SysTick_Handler uses of it below its frame
  PendSVPrio      \* the priority of PendSV: 0 is most urgent

Contexts == Threads \cup {Main}

Storage(c) == StkStorage[c] \div 4 .. (StkStorage[c] + StkSize[c]) \div 4 - 1

Words == UNION {Storage(c) : c \in Contexts}

\* OS_OnStartup leaves SysTick at the most urgent level.
SysTickPrio == 0

PendSVFirst == PendSVPrio <= SysTickPrio

\* What a tick that interrupts PendSV_Handler needs beside its own words.
NestedFrame == IF PendSVFirst THEN 0 ELSE 8

\* Room for the frame with its padding and for r4-r11 or the tick's own words.
ASSUME StacksLargeEnough ==
  /\ BodyWords \in Nat /\ HandlerWords \in 0 .. 8 /\ PendSVPrio \in Nat
  /\ NULL \notin Contexts \cup Nat /\ Main \notin Threads
  /\ \A c \in Contexts :
       /\ StkStorage[c] \in Nat /\ StkStorage[c] % 4 = 0
       /\ StkSize[c] \in Nat /\ StkSize[c] % 4 = 0
       /\ StkSize[c] >= 4 * (BodyWords + 18 + NestedFrame)
  /\ \A c, d \in Contexts : c # d => Storage(c) \cap Storage(d) = {}

VARIABLES
  OS_Curr,
  OS_Next,
  pendsv,
  MyStckPointer,   \* OSThread.MyStckPointer; NULL before OSThread_Start
  mem,             \* the words of all stacks
  sp,              \* the stack pointer: the address of the last word pushed
  regs,            \* the other registers
  stage            \* where PendSV_Handler is, "thread" outside of it

vars == <<OS_Curr, OS_Next, pendsv, MyStckPointer, mem, sp, regs, stage>>

(***************************************************************************)
(* Registers and words.  A word names the context that computed it, the    *)
(* time it did so, and the register it was in; time 0 is OSThread_Start.   *)
(***************************************************************************)

\* From lower to higher addresses, as PUSH and the exception entry store them.
Callee == <<"R4", "R5", "R6", "R7", "R8", "R9", "R10", "R11">>
Frame  == <<"R0", "R1", "R2", "R3", "R12", "LR", "PC", "xPSR">>

Names(seq) == {seq[k] : k \in DOMAIN seq}
Registers  == Names(Callee) \cup Names(Frame)

Word(c, time, r) == <<c, time, r>>
Scratch   == <<"scratch">>
FACEB00C  == <<"FACEB00C">>

\* The xPSR word of a frame also says whether the core has padded the stack.
Padded(word, pad) == <<word, pad>>

\* Memory with the registers named in seq stored from address a on.
Store(m, a, seq, r) ==
  [w \in DOMAIN m |-> IF w \in a .. a + Len(seq) - 1 THEN r[seq[w - a + 1]] ELSE m[w]]

\* Memory with one value in the words from a to b.
Fill(m, a, b, value) == [w \in DOMAIN m |-> IF w \in a .. b THEN value ELSE m[w]]

\* The register named r of those stored from address a on.
Load(a, seq, r) == mem[a + (CHOOSE k \in DOMAIN seq : seq[k] = r) - 1]

Running == IF OS_Curr = NULL THEN Main ELSE OS_Curr

(***************************************************************************)
(* OSThread_Start.                                                         *)
(***************************************************************************)

\* Fault: the top of the stack is not rounded to the alignment of the ABI.
StackTopUnaligned(t) == (StkStorage[t] + StkSize[t]) \div 4

\* Fault: the top of the stack is rounded up.
StackTopUp(t) == (((StkStorage[t] + StkSize[t] + 7) \div 8) * 8) \div 4

\* The top of a thread's stack, rounded down to eight bytes.
StackTop(t) == (((StkStorage[t] + StkSize[t]) \div 8) * 8) \div 4

\* Where the prefill ends: the bottom of the stack, rounded up.
StckLimit(t) == (((StkStorage[t] - 1) \div 8 + 1) * 8) \div 4

\* The registers a new thread starts with.
StartRegs(t) == [r \in Registers |-> Word(t, 0, r)]

\* main() creates the thread; its own registers and stack are not at issue.
OSThread_Start(t) ==
  LET StckPointer == StackTop(t) - 16
      framed == Store(mem, StckPointer, Callee \o Frame,
                      [StartRegs(t) EXCEPT !["xPSR"] = Padded(@, 0)])
  IN  /\ Running = Main
      /\ stage = "thread"
      /\ MyStckPointer[t] = NULL
      /\ MyStckPointer' = [MyStckPointer EXCEPT ![t] = StckPointer]
      /\ mem' = Fill(framed, StckLimit(t), StckPointer - 1, FACEB00C)
      /\ UNCHANGED <<OS_Curr, OS_Next, pendsv, sp, regs, stage>>

(***************************************************************************)
(* Thread code: it computes, and it pushes and drops words of its own.  Of *)
(* main(), which no switch saves, nothing needs to be known.               *)
(***************************************************************************)

Top(c) == IF c = Main THEN (StkStorage[c] + StkSize[c]) \div 4 ELSE StackTop(c)

\* Two times are enough to tell a new value from the one before it.
Later(time) == 1 - time

Compute ==
  /\ OS_Curr # NULL /\ stage = "thread"
  /\ regs' = [r \in Registers |-> Word(OS_Curr, Later(regs[r][2]), r)]
  /\ UNCHANGED <<OS_Curr, OS_Next, pendsv, MyStckPointer, mem, sp, stage>>

Push ==
  /\ OS_Curr # NULL /\ stage = "thread"
  /\ Top(OS_Curr) - sp < BodyWords
  /\ sp' = sp - 1
  /\ mem' = [mem EXCEPT ![sp'] = regs["R7"]]
  /\ UNCHANGED <<OS_Curr, OS_Next, pendsv, MyStckPointer, regs, stage>>

Pop ==
  /\ OS_Curr # NULL /\ stage = "thread"
  /\ sp < Top(OS_Curr)
  /\ sp' = sp + 1
  /\ UNCHANGED <<OS_Curr, OS_Next, pendsv, MyStckPointer, mem, regs, stage>>

(***************************************************************************)
(* OS_Sched, called by a thread, by main() or by the tick, as it looks     *)
(* from here: it may or may not request a switch to a created thread.      *)
(***************************************************************************)

OS_Sched ==
  \/ /\ OS_Next' \in {t \in Threads : MyStckPointer[t] # NULL} \ {OS_Curr}
     /\ pendsv' = TRUE
  \/ UNCHANGED <<OS_Next, pendsv>>

CallOS_Sched ==
  /\ stage = "thread"
  /\ OS_Sched
  /\ UNCHANGED <<OS_Curr, MyStckPointer, mem, sp, regs, stage>>

\* The padding that brings the stack pointer to eight bytes.
Padding == sp % 2

\* PendSV_Handler is masked from its first instruction to its last but one, and
\* around these a tick interrupts it if it is more urgent.
Interruptible ==
  \/ stage = "thread"
  \/ ~PendSVFirst /\ stage \in {"entered", "restored"}

\* The tick's frame and its own words lie below what it interrupts; they are
\* gone when it returns, and the registers are what they were.
SysTick_Handler ==
  /\ Interruptible
  /\ OS_Sched
  /\ mem' = Fill(mem, sp - Padding - 8 - HandlerWords, sp - Padding - 1, Scratch)
  /\ UNCHANGED <<OS_Curr, MyStckPointer, sp, regs, stage>>

(***************************************************************************)
(* PendSV_Handler.  Its instructions from CPSID to CPSIE are taken in two  *)
(* groups, after the core's entry and before its return.                   *)
(***************************************************************************)

\* The core pushes the frame; the handler's r0-r2 overwrite the thread's.
Entry ==
  /\ stage = "thread" /\ pendsv
  /\ pendsv' = FALSE
  /\ sp' = sp - Padding - 8
  /\ mem' = Store(mem, sp', Frame, [regs EXCEPT !["xPSR"] = Padded(@, Padding)])
  /\ regs' = [r \in Registers |-> IF r \in Names(Callee) THEN regs[r] ELSE Scratch]
  /\ stage' = "entered"
  /\ UNCHANGED <<OS_Curr, OS_Next, MyStckPointer>>

\* Unless main() is interrupted: PUSH {r4-r11}, OS_Curr->MyStckPointer = sp.
Save ==
  /\ stage = "entered"
  /\ IF OS_Curr = NULL
       THEN UNCHANGED <<MyStckPointer, mem, sp>>
       ELSE /\ sp' = sp - 8
            /\ mem' = Store(mem, sp', Callee, regs)
            /\ MyStckPointer' = [MyStckPointer EXCEPT ![OS_Curr] = sp']
  /\ stage' = "saved"
  /\ UNCHANGED <<OS_Curr, OS_Next, pendsv, regs>>

\* Fault: r4-r11 are skipped where they are to be popped.
RestoreWithoutPop ==
  /\ stage = "saved"
  /\ sp' = MyStckPointer[OS_Next] + 8
  /\ OS_Curr' = OS_Next
  /\ stage' = "restored"
  /\ UNCHANGED <<OS_Next, pendsv, MyStckPointer, mem, regs>>

\* sp = OS_Next->MyStckPointer, OS_Curr = OS_Next, POP {r4-r11}.
Restore ==
  /\ stage = "saved"
  /\ sp' = MyStckPointer[OS_Next] + 8
  /\ OS_Curr' = OS_Next
  /\ regs' = [r \in Registers |->
                IF r \in Names(Callee)
                  THEN Load(MyStckPointer[OS_Next], Callee, r)
                  ELSE Scratch]
  /\ stage' = "restored"
  /\ UNCHANGED <<OS_Next, pendsv, MyStckPointer, mem>>

\* A register as the exception return takes it from a frame at address a.
FromFrame(a, r) ==
  IF r = "xPSR" THEN Load(a, Frame, r)[1] ELSE Load(a, Frame, r)

\* The frame at address a and the padding above it.
FrameEnd(a) == a + 8 + Load(a, Frame, "xPSR")[2]

\* Fault: the padding above the frame stays on the stack.
ReturnWithPadding ==
  /\ stage = "restored"
  /\ sp' = sp + 8
  /\ regs' = [r \in Registers |->
                IF r \in Names(Callee) THEN regs[r] ELSE FromFrame(sp, r)]
  /\ stage' = "thread"
  /\ UNCHANGED <<OS_Curr, OS_Next, pendsv, MyStckPointer, mem>>

\* BX lr: the core pops the frame of the incoming thread.
Return ==
  /\ stage = "restored"
  /\ sp' = FrameEnd(sp)
  /\ regs' = [r \in Registers |->
                IF r \in Names(Callee) THEN regs[r] ELSE FromFrame(sp, r)]
  /\ stage' = "thread"
  /\ UNCHANGED <<OS_Curr, OS_Next, pendsv, MyStckPointer, mem>>

(***************************************************************************)
(* The specification.                                                      *)
(***************************************************************************)

Init ==
  /\ OS_Curr = NULL
  /\ OS_Next = NULL
  /\ pendsv = FALSE
  /\ MyStckPointer = [t \in Threads |-> NULL]
  /\ mem = [w \in Words |-> Scratch]
  /\ sp = Top(Main)
  /\ regs = [r \in Registers |-> Word(Main, 1, r)]
  /\ stage = "thread"

Body == Compute \/ Push \/ Pop

Next ==
  \/ \E t \in Threads : OSThread_Start(t)
  \/ Body
  \/ CallOS_Sched
  \/ SysTick_Handler
  \/ Entry
  \/ Save
  \/ Restore
  \/ Return

Spec == Init /\ [][Next]_vars

(***************************************************************************)
(* The processor of each thread, wherever its registers are.               *)
(***************************************************************************)

StackFrom(t, a) == [w \in a .. Top(t) - 1 |-> mem[w]]

\* All registers are in the core.
InCore(t) == [regs |-> regs, stack |-> StackFrom(t, sp)]

\* r4-r11 are in the core, the others in the frame at address sp.
InHandler(t) ==
  [regs  |-> [r \in Registers |->
                IF r \in Names(Callee) THEN regs[r] ELSE FromFrame(sp, r)],
   stack |-> StackFrom(t, FrameEnd(sp))]

\* All registers are at the saved stack pointer.
InMemory(t) ==
  LET a == MyStckPointer[t]
  IN  [regs  |-> [r \in Registers |->
                    IF r \in Names(Callee) THEN Load(a, Callee, r)
                                           ELSE FromFrame(a + 8, r)],
       stack |-> StackFrom(t, FrameEnd(a + 8))]

NoWords == [w \in {} |-> Scratch]
Absent  == [regs |-> NoWords, stack |-> NoWords]

Processor(t) ==
  CASE MyStckPointer[t] = NULL -> Absent
    [] OS_Curr = t /\ stage = "thread" -> InCore(t)
    [] OS_Curr = t /\ stage \in {"entered", "restored"} -> InHandler(t)
    [] OTHER -> InMemory(t)

FreshProcessors == [t \in Threads |-> [regs |-> StartRegs(t), stack |-> NoWords]]

Private == INSTANCE Processors WITH
  Fresh <- FreshProcessors,
  cur   <- Running,
  file  <- [t \in Threads |-> Processor(t)]

(***************************************************************************)
(* Properties.                                                             *)
(***************************************************************************)

\* Every thread has a processor of its own: whatever switches and ticks happen
\* at whatever point of its code, a thread finds its registers and its stack
\* as it left them, or as OSThread_Start made them (Os.c:240-290, 303-349).
PrivateProcessors == Private!Spec

\* A processor changes only when its thread executes or is created: no tick, no
\* request of a switch, no instruction of PendSV_Handler, no exception entry or
\* return changes the processor of any thread, the interrupted one included
\* (Os.c:303-349, Gpt.c:43-56).
HandlersKeepProcessors ==
  [][\/ Body
     \/ \E t \in Threads : OSThread_Start(t)
     \/ \A t \in Threads : Processor(t)' = Processor(t)]_vars

\* No stack overflows: a step writes to the stack of the running context, or
\* to that of the thread that is being created (Os.c:245-278, 316-341).
WritesOwnStack ==
  [][\A w \in Words :
       mem'[w] # mem[w] =>
         \/ w \in Storage(Running)
         \/ \E t \in Threads :
              MyStckPointer[t] = NULL /\ MyStckPointer'[t] # NULL /\ w \in Storage(t)]_vars

\* The stack pointer a thread is switched to is a multiple of eight, the
\* alignment the ABI asks for, however the thread had used its stack
\* (Os.c:242-245).
SavedAligned ==
  \A t \in Threads : MyStckPointer[t] # NULL => MyStckPointer[t] % 2 = 0
=============================================================================
