---------------------------- MODULE ContextProofs ---------------------------
(***************************************************************************)
(* Proofs about module Context, for any number of threads and for stacks   *)
(* of any place and size: a stack of the words its thread uses and 18 more *)
(* never overflows, and the stack pointer of a thread that is switched to  *)
(* is aligned.  The invariant follows the stack pointer through the stages *)
(* of PendSV_Handler; its part that is not about numbers is that the frame *)
(* of a thread that does not run says how the core had padded it.          *)
(***************************************************************************)
EXTENDS Context, TLAPS

Low(c)  == StkStorage[c] \div 4
High(c) == (StkStorage[c] + StkSize[c]) \div 4

(***************************************************************************)
(* Arithmetic of the stacks.                                               *)
(***************************************************************************)

\* Rounding costs a stack at most one word.
LEMMA StackBounds ==
  ASSUME NEW c \in Contexts
  PROVE  /\ Low(c) \in Nat /\ High(c) \in Nat /\ Top(c) \in Nat
         /\ High(c) - 1 <= Top(c) /\ Top(c) <= High(c)
         /\ Low(c) + BodyWords + NestedFrame + 17 <= Top(c)
         /\ NestedFrame \in {0, 8} /\ Low(c) + BodyWords + 17 <= Top(c)
         /\ c \in Threads => Top(c) % 2 = 0 /\ Low(c) <= StckLimit(c)
         /\ Storage(c) = Low(c) .. High(c) - 1
<1> DEFINE A == StkStorage[c]
           S == StkSize[c]
<1>1. /\ A \in Nat /\ A % 4 = 0 /\ S \in Nat /\ S % 4 = 0
      /\ S >= 4 * (BodyWords + 18 + NestedFrame) /\ BodyWords \in Nat
      /\ NestedFrame \in {0, 8}
  BY StacksLargeEnough DEF NestedFrame
<1>2. /\ Low(c) = A \div 4 /\ High(c) = (A + S) \div 4
      /\ Storage(c) = Low(c) .. High(c) - 1
  BY DEF Low, High, Storage
<1> HIDE DEF A, S
<1>3. A \div 4 \in Nat /\ (A + S) \div 4 \in Nat
      /\ A \div 4 + BodyWords + 18 + NestedFrame <= (A + S) \div 4
  BY <1>1
<1>4. CASE c = Main
  <2>1. Top(c) = (A + S) \div 4
    BY <1>4 DEF Top, A, S
  <2>2. c \notin Threads
    BY <1>4, StacksLargeEnough
  <2> QED
    BY <1>1, <1>2, <1>3, <2>1, <2>2
<1>5. CASE c \in Threads
  <2>1. Top(c) = (((A + S) \div 8) * 8) \div 4
    BY <1>5, StacksLargeEnough DEF Top, StackTop, A, S
  <2>2. StckLimit(c) = (((A - 1) \div 8 + 1) * 8) \div 4
    BY DEF StckLimit, A
  <2>3. (((A + S) \div 8) * 8) \div 4 = 2 * ((A + S) \div 8)
    BY <1>1
  <2>4. (((A - 1) \div 8 + 1) * 8) \div 4 = 2 * ((A - 1) \div 8 + 1)
    BY <1>1
  <2>5. (A + S) \div 4 - 1 <= 2 * ((A + S) \div 8)
        /\ 2 * ((A + S) \div 8) <= (A + S) \div 4
    BY <1>1
  <2>6. A \div 4 <= 2 * ((A - 1) \div 8 + 1)
    BY <1>1
  <2>7. (2 * ((A + S) \div 8)) % 2 = 0 /\ 2 * ((A + S) \div 8) \in Nat
    BY <1>1
  <2> QED
    BY <1>1, <1>2, <1>3, <1>5, <2>1, <2>2, <2>3, <2>4, <2>5, <2>6, <2>7
<1> QED
  BY <1>4, <1>5 DEF Contexts

\* The words between the bottom and the top of a stack are words of that stack.
LEMMA InStorage ==
  ASSUME NEW c \in Contexts, NEW a \in Int, NEW b \in Int,
         Low(c) <= a, b < Top(c)
  PROVE  \A w \in a .. b : w \in Storage(c) /\ w \in Words
<1>1. /\ Low(c) \in Nat /\ High(c) \in Nat /\ Top(c) \in Nat
      /\ Top(c) <= High(c) /\ Storage(c) = Low(c) .. High(c) - 1
  BY StackBounds
<1>2. a .. b \subseteq Storage(c)
  BY <1>1
<1> QED
  BY <1>2 DEF Words

LEMMA FrameNames ==
  /\ Len(Callee) = 8 /\ Len(Frame) = 8 /\ Len(Callee \o Frame) = 16
  /\ Frame[8] = "xPSR" /\ (Callee \o Frame)[16] = "xPSR"
  /\ "xPSR" \in Registers /\ "xPSR" \notin Names(Callee)
  /\ (CHOOSE k \in DOMAIN Frame : Frame[k] = "xPSR") = 8
<1>1. Len(Callee) = 8 /\ Len(Frame) = 8 /\ Frame[8] = "xPSR"
  BY DEF Callee, Frame
<1>2. Len(Callee \o Frame) = 16 /\ (Callee \o Frame)[16] = "xPSR"
  BY DEF Callee, Frame
<1>3. "xPSR" \in Registers
  BY <1>1 DEF Registers, Names
<1>4. \A k \in 1 .. 8 : Callee[k] # "xPSR" /\ (Frame[k] = "xPSR" => k = 8)
  BY DEF Callee, Frame
<1>5. DOMAIN Callee = 1 .. 8 /\ DOMAIN Frame = 1 .. 8
  BY <1>1
<1>6. "xPSR" \notin Names(Callee)
  BY <1>4, <1>5 DEF Names
<1>7. (CHOOSE k \in DOMAIN Frame : Frame[k] = "xPSR") = 8
  BY <1>1, <1>4, <1>5
<1> QED
  BY <1>1, <1>2, <1>3, <1>6, <1>7

\* The word of a frame that says how the core has padded it.
LEMMA XpsrWord ==
  ASSUME NEW a \in Int
  PROVE  Load(a, Frame, "xPSR") = mem[a + 7]
<1>1. a + 8 - 1 = a + 7
  OBVIOUS
<1> QED
  BY <1>1, FrameNames, Zenon DEF Load

(***************************************************************************)
(* The invariant.                                                          *)
(***************************************************************************)

\* A frame the core or OSThread_Start has stored at address b of the stack of
\* c: with the padding it tells of, it ends where the context's own words do.
FrameOn(c, b) ==
  /\ b \in Int /\ b % 2 = 0
  /\ \E word : \E pad \in {0, 1} :
       /\ mem[b + 7] = <<word, pad>>
       /\ b + 8 + pad \in Top(c) - BodyWords .. Top(c)

StackType ==
  /\ DOMAIN mem = Words
  /\ MyStckPointer \in [Threads -> Int \cup {NULL}]
  /\ OS_Curr \in Threads \cup {NULL}
  /\ stage \in {"thread", "entered", "saved", "restored"}
  /\ sp \in Int
  /\ regs = [r \in Registers |-> regs[r]]

\* Only created threads run or are about to.
CreatedInv ==
  /\ OS_Curr # NULL => MyStckPointer[OS_Curr] # NULL
  /\ pendsv \/ stage \in {"entered", "saved"} =>
       OS_Next \in Threads /\ MyStckPointer[OS_Next] # NULL
  /\ stage = "restored" => OS_Curr # NULL

\* Where the stack pointer is, in every stage of a switch.
PointerInv ==
  /\ stage = "thread" => sp \in Top(Running) - BodyWords .. Top(Running)
  /\ stage \in {"entered", "restored"} => FrameOn(Running, sp)
  /\ stage = "saved" /\ OS_Curr = NULL => FrameOn(Main, sp)

\* The saved stack pointers, and the frames of the threads that do not run.
SavedInv ==
  \A t \in Threads :
    MyStckPointer[t] # NULL =>
      /\ MyStckPointer[t] % 2 = 0
      /\ t # OS_Curr \/ stage = "saved" => FrameOn(t, MyStckPointer[t] + 8)

StackInv == StackType /\ CreatedInv /\ PointerInv /\ SavedInv

LEMMA StackInit == Init => StackInv
<1> SUFFICES ASSUME Init
             PROVE  StackInv
  OBVIOUS
<1>1. Main \in Contexts /\ Running = Main
  BY DEF Init, Contexts, Running
<1>2. Top(Main) \in Nat /\ BodyWords \in Nat
  BY <1>1, StackBounds, StacksLargeEnough
<1>3. StackType
  BY <1>2 DEF Init, StackType
<1>4. CreatedInv /\ SavedInv
  BY DEF Init, CreatedInv, SavedInv
<1>5. PointerInv
  BY <1>1, <1>2 DEF Init, PointerInv
<1> QED
  BY <1>3, <1>4, <1>5 DEF StackInv

(***************************************************************************)
(* The writes of every step.                                               *)
(***************************************************************************)

LEMMA RunningContext ==
  ASSUME StackType
  PROVE  Running \in Contexts /\ (OS_Curr # NULL => Running = OS_Curr)
BY StacksLargeEnough DEF StackType, Running, Contexts

\* Words outside the range a store or a fill names keep their value.
LEMMA StoreRange ==
  ASSUME NEW a \in Int, NEW n \in Nat, NEW seq, NEW r, Len(seq) = n
  PROVE  /\ DOMAIN Store(mem, a, seq, r) = DOMAIN mem
         /\ \A w \in DOMAIN mem :
              /\ w \notin a .. a + n - 1 => Store(mem, a, seq, r)[w] = mem[w]
              /\ w \in a .. a + n - 1 => Store(mem, a, seq, r)[w] = r[seq[w - a + 1]]
BY DEF Store

LEMMA FillRange ==
  ASSUME NEW m, NEW a \in Int, NEW b \in Int, NEW value
  PROVE  /\ DOMAIN Fill(m, a, b, value) = DOMAIN m
         /\ \A w \in DOMAIN m : w \notin a .. b => Fill(m, a, b, value)[w] = m[w]
BY DEF Fill

\* From a frame up to the top, and 8 words below it, a stack is its own, and
\* so is what a tick needs there that interrupts PendSV_Handler.
LEMMA FrameInStorage ==
  ASSUME NEW c \in Contexts, NEW b, FrameOn(c, b)
  PROVE  /\ \A w \in b - 8 .. b + 7 : w \in Storage(c) /\ w \in Words
         /\ b \in Int /\ b % 2 = 0
         /\ \A w \in b - 8 - NestedFrame .. b - 1 : w \in Storage(c)
<1>1. PICK pad \in {0, 1} : b + 8 + pad \in Top(c) - BodyWords .. Top(c)
  BY DEF FrameOn
<1>2. b \in Int /\ b % 2 = 0
  BY DEF FrameOn
<1>a. /\ Low(c) \in Nat /\ Top(c) \in Nat /\ BodyWords \in Nat /\ NestedFrame \in {0, 8}
      /\ Low(c) + BodyWords + NestedFrame + 17 <= Top(c)
  BY StackBounds, StacksLargeEnough
<1>3. Low(c) <= b - 8 /\ b + 7 < Top(c)
  BY <1>1, <1>2, <1>a
<1>4. b - 8 \in Int /\ b + 7 \in Int
  BY <1>2
<1>5. /\ Low(c) <= b - 8 - NestedFrame /\ b - 1 < Top(c)
      /\ b - 8 - NestedFrame \in Int /\ b - 1 \in Int
  BY <1>1, <1>2, <1>a
<1>6. \A w \in b - 8 - NestedFrame .. b - 1 : w \in Storage(c)
  BY <1>5, InStorage
<1> QED
  BY <1>2, <1>3, <1>4, <1>6, InStorage

\* What is written at a frame's place leaves the frames of other stacks alone.
LEMMA FrameStays ==
  ASSUME NEW c \in Contexts, NEW b, FrameOn(c, b),
         mem'[b + 7] = mem[b + 7]
  PROVE  FrameOn(c, b)'
<1>1. Top(c)' = Top(c)
  BY DEF Top, StackTop
<1> QED
  BY <1>1 DEF FrameOn

\* The step of a context or of a handler that runs on its stack.
OwnWrites(c) ==
  /\ DOMAIN mem' = Words
  /\ \A w \in Words : mem'[w] # mem[w] => w \in Storage(c)

\* The stack pointer of a context that executes, and what may lie below it.
LEMMA ThreadPointer ==
  ASSUME StackInv, stage = "thread"
  PROVE  /\ Running \in Contexts
         /\ sp \in Int /\ Padding \in {0, 1}
         /\ Top(Running) \in Nat /\ sp <= Top(Running)
         /\ Top(Running) - BodyWords <= sp
         /\ Low(Running) \in Nat /\ Low(Running) + 17 <= sp
<1>1. Running \in Contexts /\ sp \in Int
  BY RunningContext DEF StackInv, StackType
<1>2. sp \in Top(Running) - BodyWords .. Top(Running)
  BY DEF StackInv, PointerInv
<1>3. BodyWords \in Nat /\ Top(Running) \in Nat /\ Low(Running) \in Nat
      /\ Low(Running) + BodyWords + 17 <= Top(Running)
  BY <1>1, StackBounds, StacksLargeEnough
<1>4. Padding \in {0, 1}
  BY <1>1 DEF Padding
<1> QED
  BY <1>1, <1>2, <1>3, <1>4

LEMMA StepWrites ==
  ASSUME StackInv,
         Body \/ CallOS_Sched \/ SysTick_Handler
              \/ Entry \/ Save \/ Restore \/ Return
  PROVE  OwnWrites(Running)
<1>0. DOMAIN mem = Words /\ sp \in Int /\ Running \in Contexts
  BY RunningContext DEF StackInv, StackType
<1>1. CASE Push
  <2>1. /\ stage = "thread" /\ OS_Curr # NULL /\ Top(OS_Curr) - sp < BodyWords
        /\ mem' = [mem EXCEPT ![sp - 1] = regs["R7"]]
    BY <1>1 DEF Push
  <2>2. Low(Running) <= sp - 1 /\ sp - 1 < Top(Running) /\ sp - 1 \in Int
    BY <2>1, ThreadPointer
  <2>3. sp - 1 \in Storage(Running)
    BY <1>0, <2>2, InStorage
  <2> QED
    BY <1>0, <2>1, <2>3 DEF OwnWrites
<1>2. CASE SysTick_Handler
  <2> DEFINE a == sp - Padding - 8 - HandlerWords
             b == sp - Padding - 1
  <2>1. Interruptible /\ mem' = Fill(mem, a, b, Scratch)
    BY <1>2 DEF SysTick_Handler
  <2>2. a \in Int /\ b \in Int
    BY <1>0, StacksLargeEnough DEF Padding
  <2>3. ASSUME stage = "thread"
        PROVE  \A w \in a .. b : w \in Storage(Running)
    <3>1. Low(Running) <= a /\ b < Top(Running)
      BY <2>3, ThreadPointer, StacksLargeEnough
    <3> HIDE DEF a, b
    <3> QED
      BY <1>0, <2>2, <3>1, InStorage
  <2>4. ASSUME stage # "thread"
        PROVE  \A w \in a .. b : w \in Storage(Running)
    <3>1. FrameOn(Running, sp) /\ NestedFrame = 8
      BY <2>1, <2>4 DEF Interruptible, StackInv, PointerInv, NestedFrame
    <3>2. sp % 2 = 0 /\ \A w \in sp - 16 .. sp - 1 : w \in Storage(Running)
      <4>1. sp - 8 - 8 = sp - 16
        BY <1>0
      <4> QED
        BY <1>0, <3>1, <4>1, FrameInStorage
    <3>3. sp - 16 <= a /\ b = sp - 1
      BY <1>0, <3>2, StacksLargeEnough DEF Padding
    <3> HIDE DEF a, b
    <3> QED
      BY <1>0, <2>2, <3>2, <3>3
  <2> HIDE DEF a, b
  <2>5. \A w \in a .. b : w \in Storage(Running)
    BY <2>3, <2>4
  <2> QED
    BY <1>0, <2>1, <2>2, <2>5, FillRange DEF OwnWrites
<1>3. CASE Entry
  <2> DEFINE a == sp - Padding - 8
             r == [regs EXCEPT !["xPSR"] = Padded(@, Padding)]
  <2>1. stage = "thread" /\ mem' = Store(mem, a, Frame, r)
    BY <1>3 DEF Entry
  <2>2. /\ Low(Running) <= a /\ a + 8 - 1 < Top(Running)
        /\ a \in Int /\ a + 8 - 1 \in Int
    BY <2>1, ThreadPointer
  <2> HIDE DEF a, r
  <2>3. \A w \in a .. a + 8 - 1 : w \in Storage(Running)
    BY <1>0, <2>2, InStorage
  <2> QED
    BY <1>0, <2>1, <2>2, <2>3, FrameNames, StoreRange DEF OwnWrites
<1>4. CASE Save
  <2>1. CASE OS_Curr = NULL
    BY <1>0, <1>4, <2>1 DEF Save, OwnWrites
  <2>2. CASE OS_Curr # NULL
    <3> DEFINE a == sp - 8
    <3>1. stage = "entered" /\ mem' = Store(mem, a, Callee, regs)
      BY <1>4, <2>2 DEF Save
    <3>2. FrameOn(Running, sp)
      BY <3>1 DEF StackInv, PointerInv
    <3>3. \A w \in sp - 8 .. sp + 7 : w \in Storage(Running)
      BY <1>0, <3>2, FrameInStorage
    <3>4. a \in Int /\ a .. a + 8 - 1 \subseteq sp - 8 .. sp + 7
      BY <1>0
    <3> HIDE DEF a
    <3>5. /\ DOMAIN mem' = Words
          /\ \A w \in Words : w \notin a .. a + 8 - 1 => mem'[w] = mem[w]
      <4>1. Len(Callee) = 8
        BY FrameNames
      <4>2. /\ DOMAIN Store(mem, a, Callee, regs) = DOMAIN mem
            /\ \A w \in DOMAIN mem :
                 w \notin a .. a + 8 - 1 => Store(mem, a, Callee, regs)[w] = mem[w]
        BY <4>1 DEF Store
      <4> QED
        BY <1>0, <3>1, <4>2
    <3> QED
      BY <3>3, <3>4, <3>5 DEF OwnWrites
  <2> QED
    BY <2>1, <2>2
<1>5. CASE Compute \/ Pop \/ CallOS_Sched \/ Restore \/ Return
  BY <1>0, <1>5 DEF Compute, Pop, CallOS_Sched, Restore, Return, OwnWrites
<1> QED
  BY <1>1, <1>2, <1>3, <1>4, <1>5 DEF Body

\* main() writes to the stack of the thread it creates.
LEMMA StartWrites ==
  ASSUME StackInv, NEW t \in Threads, OSThread_Start(t)
  PROVE  /\ DOMAIN mem' = Words
         /\ \A w \in Words : mem'[w] # mem[w] => w \in Storage(t)
         /\ MyStckPointer' = [MyStckPointer EXCEPT ![t] = StackTop(t) - 16]
         /\ MyStckPointer[t] = NULL
         /\ FrameOn(t, StackTop(t) - 16 + 8)'
         /\ StackTop(t) - 16 \in Nat /\ (StackTop(t) - 16) % 2 = 0
<1> DEFINE a == StackTop(t) - 16
           r == [StartRegs(t) EXCEPT !["xPSR"] = Padded(@, 0)]
           names == Callee \o Frame
           framed == Store(mem, a, names, r)
<1>0. Len(names) = 16 /\ names[16] = "xPSR"
  BY FrameNames
<1>1. /\ t \in Contexts /\ Top(t) = StackTop(t) /\ DOMAIN mem = Words
      /\ BodyWords \in Nat
  BY StacksLargeEnough DEF Contexts, Top, StackInv, StackType
<1>2. /\ MyStckPointer[t] = NULL
      /\ MyStckPointer' = [MyStckPointer EXCEPT ![t] = a]
      /\ mem' = Fill(framed, StckLimit(t), a - 1, FACEB00C)
  BY DEF OSThread_Start
<1> HIDE DEF names
<1>3. /\ Low(t) \in Nat /\ Top(t) \in Nat /\ Low(t) + BodyWords + 17 <= Top(t)
      /\ Top(t) % 2 = 0 /\ Low(t) <= StckLimit(t)
  BY <1>1, StackBounds
<1>4. a \in Nat /\ a % 2 = 0 /\ a + 16 = Top(t) /\ Low(t) <= a /\ StckLimit(t) \in Int
  BY <1>1, <1>3, StacksLargeEnough DEF StckLimit, Contexts
<1> HIDE DEF a
<1>5. /\ DOMAIN framed = Words
      /\ \A w \in Words :
           /\ w \notin a .. a + 16 - 1 => framed[w] = mem[w]
           /\ w \in a .. a + 16 - 1 =>
                framed[w] = r[names[w - a + 1]]
  <2> HIDE DEF r
  <2>1. framed = [w \in Words |-> IF w \in a .. a + 16 - 1
                                    THEN r[names[w - a + 1]] ELSE mem[w]]
    BY <1>0, <1>1 DEF Store
  <2> HIDE DEF framed
  <2> QED
    BY <2>1, <1>4
<1>6. /\ DOMAIN mem' = Words
      /\ \A w \in Words : w \notin StckLimit(t) .. a - 1 => mem'[w] = framed[w]
  <2> HIDE DEF framed
  <2> QED
    BY <1>2, <1>4, <1>5, FillRange
<1> HIDE DEF framed
<1>7. \A w \in StckLimit(t) .. a + 15 : w \in Storage(t)
  <2>1. a + 15 \in Int /\ Low(t) <= StckLimit(t) /\ a + 15 < Top(t)
    BY <1>1, <1>3, <1>4
  <2> QED
    BY <1>1, <1>4, <2>1, InStorage
<1>8. \A w \in a .. a + 15 : w \in Storage(t) /\ w \in Words
  BY <1>1, <1>3, <1>4, InStorage
<1>9. \A w \in Words : mem'[w] # mem[w] => w \in Storage(t)
  BY <1>4, <1>5, <1>6, <1>7, <1>8
<1>10. r["xPSR"] = <<StartRegs(t)["xPSR"], 0>>
  BY FrameNames DEF StartRegs, Padded
<1>11. mem'[a + 8 + 7] = <<StartRegs(t)["xPSR"], 0>>
  <2>1. a + 15 \in Words /\ a + 15 \notin StckLimit(t) .. a - 1
        /\ a + 15 \in a .. a + 16 - 1 /\ a + 15 - a + 1 = 16 /\ a + 8 + 7 = a + 15
    BY <1>4, <1>8
  <2> HIDE DEF r
  <2>2. framed[a + 15] = r[names[16]]
    <3>0. a \in Int /\ a + 15 \in DOMAIN mem
      BY <1>1, <1>4, <2>1
    <3>1. framed[a + 15] =
            IF a + 15 \in a .. a + Len(names) - 1
              THEN r[names[a + 15 - a + 1]] ELSE mem[a + 15]
      BY <3>0 DEF framed, Store
    <3>2. a + 15 \in a .. a + Len(names) - 1
      BY <1>0, <2>1
    <3>3. names[a + 15 - a + 1] = names[16]
      BY <2>1
    <3> QED
      BY <3>1, <3>2, <3>3
  <2>3. mem'[a + 15] = framed[a + 15]
    BY <1>6, <2>1
  <2> QED
    BY <1>0, <1>10, <2>1, <2>2, <2>3
<1>12. FrameOn(t, a + 8)'
  <2>1. a + 8 \in Int /\ (a + 8) % 2 = 0
    BY <1>4
  <2>2. a + 8 + 8 + 0 \in Top(t) - BodyWords .. Top(t)
    BY <1>1, <1>3, <1>4
  <2>3. Top(t)' = Top(t) /\ a' = a
    BY DEF Top, StackTop, a
  <2> QED
    BY <1>11, <2>1, <2>2, <2>3 DEF FrameOn
<1> QED
  BY <1>2, <1>4, <1>6, <1>9, <1>12 DEF a

(***************************************************************************)
(* The invariant is inductive.                                             *)
(***************************************************************************)

\* A step that writes to the stack of c leaves the frames of the others alone.
LEMMA OthersStay ==
  ASSUME NEW c \in Contexts, NEW d \in Contexts, c # d, NEW b, FrameOn(d, b),
         \A w \in Words : mem'[w] # mem[w] => w \in Storage(c)
  PROVE  FrameOn(d, b)'
<1>1. b \in Int /\ \A w \in b - 8 .. b + 7 : w \in Storage(d) /\ w \in Words
  BY FrameInStorage
<1>2. b + 7 \in Storage(d) /\ b + 7 \in Words
  <2>1. b + 7 \in b - 8 .. b + 7
    BY <1>1
  <2> QED
    BY <1>1, <2>1
<1>3. b + 7 \notin Storage(c)
  BY <1>2, StacksLargeEnough
<1> QED
  BY <1>2, <1>3, FrameStays

\* So does one that writes nothing.
LEMMA FrameKept ==
  ASSUME NEW c, NEW b, FrameOn(c, b), mem' = mem
  PROVE  FrameOn(c, b)'
BY DEF FrameOn, Top, StackTop

\* The saved stack pointers of the threads a step is not about.
LEMMA SavedStays ==
  ASSUME StackInv, NEW t \in Threads, MyStckPointer[t] # NULL,
         MyStckPointer'[t] = MyStckPointer[t],
         t # OS_Curr \/ stage = "saved",
         NEW c \in Contexts, c # t,
         \A w \in Words : mem'[w] # mem[w] => w \in Storage(c)
  PROVE  MyStckPointer'[t] % 2 = 0 /\ FrameOn(t, MyStckPointer[t] + 8)'
<1>1. PICK b : b = MyStckPointer[t] + 8
  OBVIOUS
<1>2. FrameOn(t, b) /\ MyStckPointer[t] % 2 = 0
  BY <1>1 DEF StackInv, SavedInv
<1>3. FrameOn(t, b)'
  BY <1>2, OthersStay DEF Contexts
<1>4. MyStckPointer'[t] + 8 = b
  BY <1>1
<1> QED
  BY <1>2, <1>3, <1>4 DEF FrameOn

LEMMA OthersSaved ==
  ASSUME StackInv, UNCHANGED <<OS_Curr, MyStckPointer>>, OwnWrites(Running),
         NEW t \in Threads, MyStckPointer'[t] # NULL
  PROVE  /\ MyStckPointer'[t] % 2 = 0
         /\ t # OS_Curr => FrameOn(t, MyStckPointer[t] + 8)'
<1>1. MyStckPointer[t] # NULL /\ MyStckPointer'[t] = MyStckPointer[t]
  OBVIOUS
<1>2. MyStckPointer'[t] % 2 = 0
  BY <1>1 DEF StackInv, SavedInv
<1>3. ASSUME t # OS_Curr
      PROVE  FrameOn(t, MyStckPointer[t] + 8)'
  <2>1. Running # t /\ Running \in Contexts
    BY <1>3, RunningContext, StacksLargeEnough DEF Running, StackInv
  <2> QED
    BY <1>1, <1>3, <2>1, SavedStays DEF OwnWrites
<1> QED
  BY <1>2, <1>3

\* A step in which the stack pointer's owner goes on in its own code.
LEMMA ThreadStep ==
  ASSUME StackInv, stage = "thread",
         UNCHANGED <<OS_Curr, MyStckPointer, stage>>,
         OS_Sched \/ UNCHANGED <<OS_Next, pendsv>>,
         OwnWrites(Running), regs' = [r \in Registers |-> regs'[r]],
         sp' \in Top(Running) - BodyWords .. Top(Running)
  PROVE  StackInv'
<1>1. Running' = Running /\ Running \in Contexts
      /\ Top(Running)' = Top(Running) /\ Top(Running) \in Nat /\ BodyWords \in Nat
  BY RunningContext, ThreadPointer, StacksLargeEnough
     DEF Running, Top, StackTop, StackInv
<1>2. sp' \in Int
  BY <1>1
<1>3. StackType'
  BY <1>2 DEF StackInv, StackType, OwnWrites
<1>4. CreatedInv'
  BY DEF StackInv, CreatedInv, OS_Sched
<1>5. PointerInv'
  BY <1>1 DEF PointerInv
<1>7. SavedInv'
  BY OthersSaved DEF SavedInv
<1> QED
  BY <1>3, <1>4, <1>5, <1>7 DEF StackInv

LEMMA ThreadSteps ==
  ASSUME StackInv, stage = "thread", Body \/ CallOS_Sched \/ SysTick_Handler
  PROVE  StackInv'
<1>1. stage = "thread" /\ UNCHANGED <<OS_Curr, MyStckPointer, stage>>
  BY DEF Body, Compute, Push, Pop, CallOS_Sched, SysTick_Handler
<1>2. OS_Sched \/ UNCHANGED <<OS_Next, pendsv>>
  BY DEF Body, Compute, Push, Pop, CallOS_Sched, SysTick_Handler
<1>3. OwnWrites(Running)
  BY StepWrites
<1>4. sp' \in Top(Running) - BodyWords .. Top(Running)
  <2>1. sp \in Top(Running) - BodyWords .. Top(Running) /\ BodyWords \in Nat
        /\ sp \in Int /\ Top(Running) \in Nat
    BY <1>1, ThreadPointer, StacksLargeEnough DEF StackInv, PointerInv
  <2>2. OS_Curr # NULL => Running = OS_Curr
    BY DEF Running
  <2>3. CASE Push
    BY <2>1, <2>2, <2>3 DEF Push
  <2>4. CASE Pop
    BY <2>1, <2>2, <2>4 DEF Pop
  <2>5. CASE Compute \/ CallOS_Sched \/ SysTick_Handler
    BY <2>1, <2>5 DEF Compute, CallOS_Sched, SysTick_Handler
  <2> QED
    BY <2>3, <2>4, <2>5 DEF Body
<1>5. regs' = [r \in Registers |-> regs'[r]]
  BY DEF Body, Compute, Push, Pop, CallOS_Sched, SysTick_Handler, StackInv, StackType
<1> QED
  BY <1>1, <1>2, <1>3, <1>4, <1>5, ThreadStep

\* A tick that interrupts PendSV_Handler leaves the frame on the stack alone.
LEMMA NestedTickStep ==
  ASSUME StackInv, stage # "thread", SysTick_Handler
  PROVE  StackInv'
<1>1. /\ stage \in {"entered", "restored"} /\ OS_Sched
      /\ UNCHANGED <<OS_Curr, MyStckPointer, sp, regs, stage>>
      /\ mem' = Fill(mem, sp - Padding - 8 - HandlerWords, sp - Padding - 1, Scratch)
  BY DEF SysTick_Handler, Interruptible
<1>2. /\ Running' = Running /\ Running \in Contexts
      /\ FrameOn(Running, sp)
      /\ sp \in Int /\ sp % 2 = 0 /\ DOMAIN mem = Words
  BY <1>1, RunningContext DEF Running, StackInv, StackType, PointerInv, FrameOn
<1>3. OwnWrites(Running)
  BY StepWrites
<1>4. FrameOn(Running, sp)'
  <2> DEFINE a == sp - Padding - 8 - HandlerWords
             b == sp - Padding - 1
  <2>1. a \in Int /\ b \in Int /\ b < sp
    BY <1>2, StacksLargeEnough DEF Padding
  <2>2. sp + 7 \in Words
    <3>1. sp + 7 \in sp - 8 .. sp + 7
      BY <1>2
    <3> QED
      BY <1>2, <3>1, FrameInStorage
  <2>3. mem' = Fill(mem, a, b, Scratch)
    BY <1>1
  <2> HIDE DEF a, b
  <2>4. sp + 7 \notin a .. b
    BY <1>2, <2>1
  <2>5. mem'[sp + 7] = mem[sp + 7]
    BY <1>2, <2>1, <2>2, <2>3, <2>4, FillRange
  <2>6. PICK d : d = sp
    OBVIOUS
  <2>7. FrameOn(Running, d)'
    BY <1>2, <2>5, <2>6, FrameStays DEF Running
  <2> QED
    BY <1>1, <2>6, <2>7 DEF FrameOn
<1>5. StackType'
  BY <1>1, <1>3 DEF StackInv, StackType, OwnWrites
<1>6. CreatedInv'
  BY <1>1 DEF StackInv, CreatedInv, OS_Sched
<1>7. PointerInv'
  BY <1>1, <1>2, <1>4 DEF PointerInv
<1>8. SavedInv'
  BY <1>1, <1>3, OthersSaved DEF SavedInv
<1> QED
  BY <1>5, <1>6, <1>7, <1>8 DEF StackInv

\* The core pushes a frame, aligned, and says in it what it has padded.
LEMMA EntryStep ==
  ASSUME StackInv, Entry
  PROVE  StackInv'
<1> DEFINE a == sp - Padding - 8
           r == [regs EXCEPT !["xPSR"] = Padded(@, Padding)]
<1>1. /\ stage = "thread" /\ stage' = "entered" /\ pendsv
      /\ sp' = a /\ mem' = Store(mem, a, Frame, r)
      /\ UNCHANGED <<OS_Curr, OS_Next, MyStckPointer>>
  BY DEF Entry
<1>2. /\ Running \in Contexts /\ Running' = Running /\ Top(Running)' = Top(Running)
      /\ sp \in Int /\ Padding \in {0, 1} /\ Padding = sp % 2
      /\ sp \in Top(Running) - BodyWords .. Top(Running)
  BY <1>1, ThreadPointer DEF Running, Top, StackTop, Padding, StackInv, PointerInv
<1>3. OwnWrites(Running)
  BY StepWrites
<1>4. a \in Int /\ a % 2 = 0 /\ a + 8 + Padding = sp
  BY <1>2
<1>5. mem'[a + 7] = <<regs["xPSR"], Padding>>
  <2>1. a + 7 \in Words
    <3>0. /\ Low(Running) \in Nat /\ Top(Running) \in Nat
          /\ sp <= Top(Running) /\ Low(Running) + 17 <= sp
      BY <1>1, ThreadPointer
    <3>1. a + 7 \in Int /\ Low(Running) <= a + 7 /\ a + 7 < Top(Running)
      BY <1>2, <1>4, <3>0
    <3>2. a + 7 \in a + 7 .. a + 7
      BY <3>1
    <3> QED
      BY <1>2, <3>1, <3>2, InStorage
  <2>2. r["xPSR"] = <<regs["xPSR"], Padding>>
    BY FrameNames DEF Padded, StackInv, StackType
  <2>3. /\ Len(Frame) = 8 /\ Frame[8] = "xPSR" /\ a \in Int
        /\ a + 7 \in DOMAIN mem /\ a + 7 - a + 1 = 8
    BY <1>4, <2>1, FrameNames DEF StackInv, StackType
  <2> HIDE DEF a, r
  <2>4. Store(mem, a, Frame, r)[a + 7] =
          IF a + 7 \in a .. a + Len(Frame) - 1
            THEN r[Frame[a + 7 - a + 1]] ELSE mem[a + 7]
    BY <2>3 DEF Store
  <2>5. a + 7 \in a .. a + Len(Frame) - 1
    BY <2>3
  <2> QED
    BY <1>1, <2>2, <2>3, <2>4, <2>5
<1>6. FrameOn(Running, sp)'
  <2>1. a + 8 + Padding \in Top(Running) - BodyWords .. Top(Running)
    BY <1>2, <1>4
  <2> HIDE DEF a
  <2> QED
    BY <1>1, <1>2, <1>4, <1>5, <2>1 DEF FrameOn
<1> HIDE DEF a, r
<1>7. StackType'
  <2>1. regs' = [name \in Registers |-> regs'[name]]
    BY DEF Entry
  <2> QED
    BY <1>1, <1>3, <1>4, <2>1 DEF StackInv, StackType, OwnWrites
<1>8. CreatedInv' /\ PointerInv'
  <2>1. pendsv' = FALSE
    BY DEF Entry
  <2> QED
    BY <1>1, <1>6, <2>1 DEF StackInv, CreatedInv, PointerInv
<1>9. SavedInv'
  BY <1>1, <1>3, OthersSaved DEF SavedInv
<1> QED
  BY <1>7, <1>8, <1>9 DEF StackInv

\* r4-r11 go below the frame, which keeps its padding word.
LEMMA SaveStep ==
  ASSUME StackInv, Save
  PROVE  StackInv'
<1>1. /\ stage = "entered" /\ stage' = "saved"
      /\ UNCHANGED <<OS_Curr, OS_Next, pendsv, regs>>
  BY DEF Save
<1>2. OwnWrites(Running) /\ Running \in Contexts
  BY StepWrites, RunningContext DEF StackInv
<1>3. FrameOn(Running, sp) /\ sp \in Int
  BY <1>1 DEF StackInv, StackType, PointerInv
<1>4. CreatedInv'
  <2>1. \A t \in Threads : MyStckPointer[t] # NULL => MyStckPointer'[t] # NULL
    <3>1. sp - 8 # NULL
      <4>1. PICK pad \in {0, 1} :
              sp + 8 + pad \in Top(Running) - BodyWords .. Top(Running)
        BY <1>3 DEF FrameOn
      <4>2. /\ Low(Running) \in Nat /\ Top(Running) \in Nat /\ BodyWords \in Nat
            /\ Low(Running) + BodyWords + 17 <= Top(Running)
        BY <1>2, StackBounds, StacksLargeEnough
      <4>3. sp - 8 \in Nat
        BY <1>3, <4>1, <4>2
      <4> QED
        BY <4>3, StacksLargeEnough
    <3> QED
      BY <3>1 DEF Save, StackInv, StackType
  <2> QED
    BY <1>1, <2>1 DEF StackInv, StackType, CreatedInv
<1>5. CASE OS_Curr = NULL
  <2>1. UNCHANGED <<MyStckPointer, mem, sp>> /\ Running = Main
    BY <1>5 DEF Save, Running
  <2>2. StackType'
    BY <1>1, <2>1 DEF StackInv, StackType
  <2>3. PointerInv'
    <3>1. FrameOn(Main, sp)'
      <4>1. FrameOn(Main, sp) /\ sp' = sp /\ mem' = mem
        BY <1>3, <2>1
      <4>2. Top(Main)' = Top(Main)
        BY DEF Top, StackTop
      <4> QED
        BY <4>1, <4>2 DEF FrameOn
    <3> QED
      BY <1>1, <1>5, <3>1 DEF PointerInv
  <2>4. SavedInv'
    <3>1. NULL \notin Threads
      BY StacksLargeEnough DEF Contexts
    <3> QED
      BY <1>1, <1>2, <1>5, <2>1, <3>1, OthersSaved DEF SavedInv
  <2> QED
    BY <1>4, <2>2, <2>3, <2>4 DEF StackInv
<1>6. CASE OS_Curr # NULL
  <2>1. /\ OS_Curr \in Threads /\ Running = OS_Curr
        /\ sp' = sp - 8 /\ mem' = Store(mem, sp - 8, Callee, regs)
        /\ MyStckPointer' = [MyStckPointer EXCEPT ![OS_Curr] = sp - 8]
    BY <1>6 DEF Save, Running, StackInv, StackType
  <2>2. StackType'
    BY <1>1, <1>2, <1>3, <2>1 DEF StackInv, StackType, OwnWrites
  <2>3. PointerInv'
    BY <1>1, <1>6 DEF PointerInv
  <2>4. MyStckPointer'[OS_Curr] % 2 = 0 /\ FrameOn(OS_Curr, MyStckPointer[OS_Curr] + 8)'
    <3>1. MyStckPointer'[OS_Curr] = sp - 8
      BY <2>1 DEF StackInv, StackType
    <3>2. sp % 2 = 0 /\ (sp - 8) % 2 = 0 /\ sp - 8 + 8 = sp
      BY <1>3 DEF FrameOn
    <3>3. mem'[sp + 7] = mem[sp + 7]
      <4>1. sp + 7 \in sp - 8 .. sp + 7
        BY <1>3
      <4>2. sp + 7 \in DOMAIN mem
        BY <1>2, <1>3, <4>1, FrameInStorage DEF StackInv, StackType
      <4>3. sp + 7 \notin sp - 8 .. sp - 8 + Len(Callee) - 1
        BY <1>3, FrameNames
      <4> QED
        BY <2>1, <4>2, <4>3 DEF Store
    <3> QED
      BY <1>1, <1>3, <2>1, <3>1, <3>2, <3>3 DEF FrameOn, Top, StackTop
  <2>5. ASSUME NEW t \in Threads, MyStckPointer'[t] # NULL, t # OS_Curr
        PROVE  MyStckPointer'[t] % 2 = 0 /\ FrameOn(t, MyStckPointer[t] + 8)'
    <3>1. MyStckPointer'[t] = MyStckPointer[t]
      BY <2>1, <2>5 DEF StackInv, StackType
    <3> QED
      BY <1>2, <2>1, <2>5, <3>1, SavedStays DEF OwnWrites
  <2>6. SavedInv'
    BY <1>1, <2>4, <2>5 DEF SavedInv
  <2> QED
    BY <1>4, <2>2, <2>3, <2>6 DEF StackInv
<1> QED
  BY <1>5, <1>6

\* r4-r11 come from below the frame of the thread that is next.
LEMMA RestoreStep ==
  ASSUME StackInv, Restore
  PROVE  StackInv'
<1>1. /\ stage = "saved" /\ stage' = "restored" /\ OS_Curr' = OS_Next
      /\ sp' = MyStckPointer[OS_Next] + 8 /\ regs' = [r \in Registers |-> regs'[r]]
      /\ UNCHANGED <<OS_Next, pendsv, MyStckPointer, mem>>
  BY DEF Restore
<1>2. /\ OS_Next \in Threads /\ MyStckPointer[OS_Next] # NULL /\ OS_Next # NULL
      /\ MyStckPointer[OS_Next] \in Int
  BY <1>1, StacksLargeEnough DEF StackInv, StackType, CreatedInv, Contexts
<1>3. \A t \in Threads :
        MyStckPointer[t] # NULL =>
          /\ MyStckPointer[t] % 2 = 0
          /\ FrameOn(t, MyStckPointer[t] + 8)
  BY <1>1 DEF StackInv, SavedInv
<1>4. StackType' /\ CreatedInv'
  BY <1>1, <1>2 DEF StackInv, StackType, CreatedInv
<1>5. \A c : Top(c)' = Top(c)
  BY DEF Top, StackTop
<1>6. PointerInv'
  <2>1. FrameOn(OS_Next, MyStckPointer[OS_Next] + 8)
    BY <1>2, <1>3
  <2>2. Running' = OS_Next
    BY <1>1, <1>2 DEF Running
  <2>3. FrameOn(Running, sp)'
    BY <1>1, <1>5, <2>1, <2>2 DEF FrameOn
  <2> QED
    BY <1>1, <2>3 DEF PointerInv
<1>7. SavedInv'
  <2>1. ASSUME NEW t \in Threads, MyStckPointer'[t] # NULL
        PROVE  MyStckPointer'[t] % 2 = 0 /\ FrameOn(t, MyStckPointer[t] + 8)'
    BY <1>1, <1>3, <1>5, <2>1 DEF FrameOn
  <2> QED
    BY <2>1 DEF SavedInv
<1> QED
  BY <1>4, <1>6, <1>7 DEF StackInv

\* The exception return drops the frame and the padding it tells of.
LEMMA ReturnStep ==
  ASSUME StackInv, Return
  PROVE  StackInv'
<1>1. /\ stage = "restored" /\ stage' = "thread" /\ sp' = FrameEnd(sp)
      /\ regs' = [r \in Registers |-> regs'[r]]
      /\ UNCHANGED <<OS_Curr, OS_Next, pendsv, MyStckPointer, mem>>
  BY DEF Return
<1>2. FrameOn(Running, sp) /\ Running' = Running
  BY <1>1 DEF StackInv, PointerInv, Running
<1>3. \A c : Top(c)' = Top(c)
  BY DEF Top, StackTop
<1>4. PICK pad \in {0, 1} :
        /\ \E word : mem[sp + 7] = <<word, pad>>
        /\ sp + 8 + pad \in Top(Running) - BodyWords .. Top(Running)
  BY <1>2 DEF FrameOn
<1>5. FrameEnd(sp) = sp + 8 + pad
  <2>1. Load(sp, Frame, "xPSR") = mem[sp + 7]
    BY <1>2, XpsrWord DEF FrameOn
  <2>2. mem[sp + 7][2] = pad
    BY <1>4
  <2> QED
    BY <1>4, <2>1, <2>2 DEF FrameEnd
<1>6. PointerInv'
  BY <1>1, <1>2, <1>3, <1>4, <1>5 DEF PointerInv
<1>7. sp' \in Int
  BY <1>1, <1>2, <1>5 DEF FrameOn
<1>8. StackType' /\ CreatedInv'
  BY <1>1, <1>7 DEF StackInv, StackType, CreatedInv
<1>9. SavedInv'
  <2>1. ASSUME NEW t \in Threads, MyStckPointer'[t] # NULL
        PROVE  /\ MyStckPointer'[t] % 2 = 0
               /\ t # OS_Curr => FrameOn(t, MyStckPointer[t] + 8)'
    <3>1. /\ MyStckPointer'[t] % 2 = 0
          /\ t # OS_Curr => FrameOn(t, MyStckPointer[t] + 8)
      BY <1>1, <2>1 DEF StackInv, SavedInv
    <3> QED
      BY <1>1, <1>3, <3>1 DEF FrameOn
  <2> QED
    BY <1>1, <2>1 DEF SavedInv
<1> QED
  BY <1>6, <1>8, <1>9 DEF StackInv

\* A new thread gets a frame like that of one that was switched away from.
LEMMA StartStep ==
  ASSUME StackInv, NEW t \in Threads, OSThread_Start(t)
  PROVE  StackInv'
<1>1. /\ Running = Main /\ stage = "thread"
      /\ UNCHANGED <<OS_Curr, OS_Next, pendsv, sp, regs, stage>>
  BY DEF OSThread_Start
<1>2. OS_Curr = NULL /\ Main \in Contexts /\ NULL \notin Threads
      /\ Running' = Main /\ t # Main /\ t \in Contexts
  BY <1>1, StacksLargeEnough DEF Running, Contexts, StackInv, StackType
<1>3. /\ DOMAIN mem' = Words
      /\ \A w \in Words : mem'[w] # mem[w] => w \in Storage(t)
  BY StartWrites
<1>4. /\ MyStckPointer' = [MyStckPointer EXCEPT ![t] = StackTop(t) - 16]
      /\ MyStckPointer[t] = NULL
      /\ StackTop(t) - 16 \in Nat /\ (StackTop(t) - 16) % 2 = 0
  BY StartWrites
<1>5. /\ MyStckPointer'[t] = StackTop(t) - 16
      /\ \A u \in Threads \ {t} : MyStckPointer'[u] = MyStckPointer[u]
  BY <1>4 DEF StackInv, StackType
<1>6. StackType'
  BY <1>1, <1>3, <1>4 DEF StackInv, StackType
<1>7. CreatedInv'
  BY <1>1, <1>2, <1>4, <1>5 DEF StackInv, CreatedInv
<1>8. PointerInv'
  <2>1. Top(Running)' = Top(Running)
    BY <1>1, <1>2 DEF Top
  <2> QED
    BY <1>1, <1>2, <2>1 DEF StackInv, PointerInv
<1>9. SavedInv'
  <2>1. MyStckPointer'[t] % 2 = 0 /\ FrameOn(t, MyStckPointer[t] + 8)'
    <3>1. FrameOn(t, StackTop(t) - 16 + 8)'
      BY StartWrites
    <3> QED
      BY <1>4, <1>5, <3>1 DEF FrameOn, StackTop
  <2>2. ASSUME NEW u \in Threads, MyStckPointer'[u] # NULL, u # t
        PROVE  MyStckPointer'[u] % 2 = 0 /\ FrameOn(u, MyStckPointer[u] + 8)'
    <3>1. MyStckPointer'[u] = MyStckPointer[u] /\ u # OS_Curr
      BY <1>2, <1>5, <2>2
    <3> QED
      BY <1>2, <1>3, <2>2, <3>1, SavedStays
  <2> QED
    BY <2>1, <2>2 DEF SavedInv
<1> QED
  BY <1>6, <1>7, <1>8, <1>9 DEF StackInv

LEMMA StackStep == StackInv /\ [Next]_vars => StackInv'
<1> SUFFICES ASSUME StackInv, [Next]_vars
             PROVE  StackInv'
  OBVIOUS
<1>1. CASE UNCHANGED vars
  <2>1. \A c : Top(c)' = Top(c)
    BY DEF Top, StackTop
  <2> QED
    BY <1>1, <2>1 DEF vars, StackInv, StackType, CreatedInv, PointerInv,
                      SavedInv, FrameOn, Running
<1> QED
  <2>1. CASE Body \/ CallOS_Sched
    <3>1. stage = "thread"
      BY <2>1 DEF Body, Compute, Push, Pop, CallOS_Sched
    <3> QED
      BY <2>1, <3>1, ThreadSteps
  <2>2. CASE SysTick_Handler
    BY <2>2, ThreadSteps, NestedTickStep
  <2> QED
    BY <1>1, <2>1, <2>2, StartStep, EntryStep, SaveStep, RestoreStep, ReturnStep
       DEF Next

THEOREM StackAlways == Spec => []StackInv
BY StackInit, StackStep, PTL DEF Spec

(***************************************************************************)
(* The properties.                                                         *)
(***************************************************************************)

\* The stack pointer a thread is switched to is a multiple of eight, whatever
\* the size of its stack and however it has used it (Os.c:242-245).
THEOREM SavedAlignedAlways == Spec => []SavedAligned
<1>1. StackInv => SavedAligned
  BY DEF StackInv, SavedInv, SavedAligned
<1> QED
  BY <1>1, StackAlways, PTL

\* No step overflows a stack: a thread, an interrupt on its stack and a switch
\* write to that stack alone, and main() to the one of the thread it creates
\* (Os.c:245-278, 316-341).
THEOREM WritesOwnStackAlways == Spec => WritesOwnStack
<1> DEFINE Own == \A w \in Words :
                    mem'[w] # mem[w] =>
                      \/ w \in Storage(Running)
                      \/ \E t \in Threads :
                           MyStckPointer[t] = NULL /\ MyStckPointer'[t] # NULL
                             /\ w \in Storage(t)
<1>1. StackInv /\ [Next]_vars => [Own]_vars
  <2> SUFFICES ASSUME StackInv, Next
               PROVE  Own
    OBVIOUS
  <2>1. CASE \E t \in Threads : OSThread_Start(t)
    <3>1. PICK t \in Threads : OSThread_Start(t)
      BY <2>1
    <3>2. /\ \A w \in Words : mem'[w] # mem[w] => w \in Storage(t)
          /\ MyStckPointer' = [MyStckPointer EXCEPT ![t] = StackTop(t) - 16]
          /\ MyStckPointer[t] = NULL /\ StackTop(t) - 16 \in Nat
      BY <3>1, StartWrites
    <3>3. MyStckPointer'[t] # NULL
      BY <3>2, StacksLargeEnough DEF StackInv, StackType
    <3> QED
      BY <3>2, <3>3
  <2>2. CASE ~ \E t \in Threads : OSThread_Start(t)
    <3>1. OwnWrites(Running)
      BY <2>2, StepWrites DEF Next
    <3> QED
      BY <3>1 DEF OwnWrites
  <2> QED
    BY <2>1, <2>2
<1> QED
  BY <1>1, StackAlways, PTL DEF Spec, WritesOwnStack
=============================================================================
