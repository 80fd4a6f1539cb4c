--------------------------- MODULE ProcessorProofs --------------------------
(***************************************************************************)
(* Proofs that the context switch gives every thread a processor of its    *)
(* own: module Context implements module Processors, and what handlers and *)
(* the core do between two instructions of a thread changes no processor.  *)
(*                                                                         *)
(* A processor is written here as a function of the memory it is read from *)
(* (RegsAt, FrameRegs, Above), so that one equation says what a step does. *)
(***************************************************************************)
EXTENDS ContextProofs

(***************************************************************************)
(* Processors as functions of memory.                                      *)
(***************************************************************************)

\* The place of a register among those an instruction stores.
Pos(seq, r) == CHOOSE k \in DOMAIN seq : seq[k] = r

\* The register named r of a frame at address b of memory m.
Framed(m, b, r) ==
  IF r = "xPSR" THEN m[b + Pos(Frame, r) - 1][1] ELSE m[b + Pos(Frame, r) - 1]

\* The registers of a processor whose r4-r11 are at a and whose frame follows.
RegsAt(m, a) ==
  [r \in Registers |->
     IF r \in Names(Callee) THEN m[a + Pos(Callee, r) - 1] ELSE Framed(m, a + 8, r)]

\* The registers of one whose frame is at b and whose r4-r11 are in the core.
FrameRegs(m, core, b) ==
  [r \in Registers |-> IF r \in Names(Callee) THEN core[r] ELSE Framed(m, b, r)]

\* Where the thread's own words begin above a frame at b.
End(m, b) == b + 8 + m[b + Pos(Frame, "xPSR") - 1][2]

Above(m, a, top) == [w \in a .. top - 1 |-> m[w]]

LEMMA InCoreIs ==
  ASSUME NEW t
  PROVE  /\ InCore(t) = [regs |-> regs, stack |-> Above(mem, sp, Top(t))]
         /\ InCore(t)' = [regs |-> regs', stack |-> Above(mem', sp', Top(t))]
BY DEF InCore, StackFrom, Above, Top, StackTop

LEMMA InHandlerIs ==
  ASSUME NEW t
  PROVE  /\ InHandler(t) = [regs  |-> FrameRegs(mem, regs, sp),
                            stack |-> Above(mem, End(mem, sp), Top(t))]
         /\ InHandler(t)' = [regs  |-> FrameRegs(mem', regs', sp'),
                             stack |-> Above(mem', End(mem', sp'), Top(t))]
BY DEF InHandler, StackFrom, Above, Top, StackTop, FrameRegs, FromFrame, Load,
       Framed, Pos, FrameEnd, End

LEMMA InMemoryIs ==
  ASSUME NEW t
  PROVE  /\ InMemory(t) =
              [regs  |-> RegsAt(mem, MyStckPointer[t]),
               stack |-> Above(mem, End(mem, MyStckPointer[t] + 8), Top(t))]
         /\ InMemory(t)' =
              [regs  |-> RegsAt(mem', MyStckPointer'[t]),
               stack |-> Above(mem', End(mem', MyStckPointer'[t] + 8), Top(t))]
BY DEF InMemory, StackFrom, Above, Top, StackTop, RegsAt, FromFrame, Load,
       Framed, Pos, FrameEnd, End

\* Where the processor of a thread is.
LEMMA ProcessorIs ==
  ASSUME NEW t
  PROVE  /\ MyStckPointer[t] = NULL /\ OS_Curr # t => Processor(t) = Absent
         /\ MyStckPointer[t] # NULL =>
              /\ OS_Curr = t /\ stage = "thread" => Processor(t) = InCore(t)
              /\ OS_Curr = t /\ stage \in {"entered", "restored"} =>
                   Processor(t) = InHandler(t)
              /\ (OS_Curr # t \/ stage = "saved") => Processor(t) = InMemory(t)
<1>1. ASSUME MyStckPointer[t] = NULL, OS_Curr # t
      PROVE  Processor(t) = Absent
  BY <1>1 DEF Processor
<1>2. ASSUME MyStckPointer[t] # NULL, OS_Curr = t, stage = "thread"
      PROVE  Processor(t) = InCore(t)
  BY <1>2 DEF Processor
<1>3. ASSUME MyStckPointer[t] # NULL, OS_Curr = t, stage \in {"entered", "restored"}
      PROVE  Processor(t) = InHandler(t)
  BY <1>3 DEF Processor
<1>4. ASSUME MyStckPointer[t] # NULL, OS_Curr # t \/ stage = "saved"
      PROVE  Processor(t) = InMemory(t)
  BY <1>4 DEF Processor
<1> QED
  BY <1>1, <1>2, <1>3, <1>4

\* And where it is after a step.
LEMMA ProcessorIsNext ==
  ASSUME NEW t
  PROVE  /\ MyStckPointer'[t] = NULL /\ OS_Curr' # t => Processor(t)' = Absent
         /\ MyStckPointer'[t] # NULL =>
              /\ OS_Curr' = t /\ stage' = "thread" => Processor(t)' = InCore(t)'
              /\ OS_Curr' = t /\ stage' \in {"entered", "restored"} =>
                   Processor(t)' = InHandler(t)'
              /\ (OS_Curr' # t \/ stage' = "saved") => Processor(t)' = InMemory(t)'
<1>1. ASSUME MyStckPointer'[t] = NULL, OS_Curr' # t
      PROVE  Processor(t)' = Absent
  BY <1>1 DEF Processor, Absent, NoWords, Scratch
<1>2. ASSUME MyStckPointer'[t] # NULL, OS_Curr' = t, stage' = "thread"
      PROVE  Processor(t)' = InCore(t)'
  BY <1>2 DEF Processor
<1>3. ASSUME MyStckPointer'[t] # NULL, OS_Curr' = t, stage' \in {"entered", "restored"}
      PROVE  Processor(t)' = InHandler(t)'
  BY <1>3 DEF Processor
<1>4. ASSUME MyStckPointer'[t] # NULL, OS_Curr' # t \/ stage' = "saved"
      PROVE  Processor(t)' = InMemory(t)'
  BY <1>4 DEF Processor
<1> QED
  BY <1>1, <1>2, <1>3, <1>4

(***************************************************************************)
(* Positions of registers.                                                 *)
(***************************************************************************)

LEMMA Domains ==
  /\ DOMAIN Callee = 1 .. 8 /\ Len(Callee) = 8
  /\ DOMAIN Frame = 1 .. 8 /\ Len(Frame) = 8
  /\ Pos(Frame, "xPSR") = 8
<1>1. Len(Callee) = 8 /\ Len(Frame) = 8
  BY FrameNames
<1>2. DOMAIN Callee = 1 .. 8
  BY <1>1 DEF Callee
<1>3. DOMAIN Frame = 1 .. 8
  BY <1>1 DEF Frame
<1> QED
  BY <1>1, <1>2, <1>3, FrameNames DEF Pos

LEMMA Positions ==
  ASSUME NEW seq, DOMAIN seq = 1 .. 8, NEW r \in Names(seq)
  PROVE  Pos(seq, r) \in 1 .. 8 /\ seq[Pos(seq, r)] = r
<1>1. \E k \in DOMAIN seq : seq[k] = r
  BY DEF Names
<1> QED
  BY <1>1 DEF Pos

\* The word an instruction stores for a register.
LEMMA StoredWord ==
  ASSUME NEW m, NEW a \in Int, NEW seq, DOMAIN seq = 1 .. 8, Len(seq) = 8,
         NEW r \in Names(seq), NEW core,
         \A w \in a .. a + 7 : w \in DOMAIN m
  PROVE  Store(m, a, seq, core)[a + Pos(seq, r) - 1] = core[r]
<1>1. PICK k \in 1 .. 8 : Pos(seq, r) = k /\ seq[k] = r
  BY Positions
<1>2. a + k - 1 \in a .. a + 7
  BY <1>1
<1>3. PICK w \in DOMAIN m : w = a + k - 1
  BY <1>2
<1>4. w \in a .. a + Len(seq) - 1 /\ w - a + 1 = k
  BY <1>3
<1>5. Store(m, a, seq, core)[w] = core[seq[w - a + 1]]
  BY <1>4 DEF Store
<1> QED
  BY <1>1, <1>3, <1>4, <1>5

(***************************************************************************)
(* Memories that agree where a processor is.                               *)
(***************************************************************************)

LEMMA SameFrame ==
  ASSUME NEW m, NEW n, NEW b \in Int, \A w \in b .. b + 7 : m[w] = n[w],
         NEW r \in Names(Frame)
  PROVE  Framed(m, b, r) = Framed(n, b, r)
<1>1. PICK k \in 1 .. 8 : Pos(Frame, r) = k
  BY Domains, Positions
<1>2. b + k - 1 \in b .. b + 7
  BY <1>1
<1>3. m[b + k - 1] = n[b + k - 1]
  BY <1>2
<1> QED
  BY <1>1, <1>3 DEF Framed

LEMMA SameFrameRegs ==
  ASSUME NEW m, NEW n, NEW b \in Int, NEW core, \A w \in b .. b + 7 : m[w] = n[w]
  PROVE  FrameRegs(m, core, b) = FrameRegs(n, core, b)
<1>1. \A r \in Registers : r \notin Names(Callee) =>
        Framed(m, b, r) = Framed(n, b, r)
  BY SameFrame DEF Registers
<1> QED
  BY <1>1 DEF FrameRegs

LEMMA SameRegs ==
  ASSUME NEW m, NEW n, NEW a \in Int, \A w \in a .. a + 15 : m[w] = n[w]
  PROVE  RegsAt(m, a) = RegsAt(n, a)
<1>1. \A r \in Registers : r \notin Names(Callee) =>
        Framed(m, a + 8, r) = Framed(n, a + 8, r)
  <2>1. a + 8 \in Int /\ \A w \in a + 8 .. a + 8 + 7 : m[w] = n[w]
    OBVIOUS
  <2> QED
    BY <2>1, SameFrame DEF Registers
<1>2. ASSUME NEW r \in Names(Callee)
      PROVE  m[a + Pos(Callee, r) - 1] = n[a + Pos(Callee, r) - 1]
  <2>1. PICK k \in 1 .. 8 : Pos(Callee, r) = k
    BY Domains, Positions
  <2>2. a + k - 1 \in a .. a + 15
    BY <2>1
  <2>3. m[a + k - 1] = n[a + k - 1]
    BY <2>2
  <2> QED
    BY <2>1, <2>3
<1> QED
  BY <1>1, <1>2 DEF RegsAt

LEMMA SameAbove ==
  ASSUME NEW m, NEW n, NEW a, NEW top, \A w \in a .. top - 1 : m[w] = n[w]
  PROVE  Above(m, a, top) = Above(n, a, top)
BY DEF Above

\* A frame's padding word leads to where the context's own words begin.
LEMMA FrameEnds ==
  ASSUME NEW c \in Contexts, NEW b, FrameOn(c, b)
  PROVE  /\ b \in Int /\ End(mem, b) \in Int
         /\ b + 8 <= End(mem, b) /\ End(mem, b) <= Top(c)
         /\ End(mem, b) = b + 8 + mem[b + 7][2]
         /\ \A w \in b - 8 .. Top(c) - 1 : w \in Storage(c) /\ w \in Words
<1>1. PICK pad \in {0, 1} :
        /\ \E word : mem[b + 7] = <<word, pad>>
        /\ b + 8 + pad \in Top(c) - BodyWords .. Top(c)
  BY DEF FrameOn
<1>2. b \in Int /\ Top(c) \in Nat /\ Low(c) \in Nat /\ BodyWords \in Nat
      /\ Low(c) + BodyWords + 17 <= Top(c)
  BY StackBounds, StacksLargeEnough DEF FrameOn
<1>3. End(mem, b) = b + 8 + mem[b + 7][2]
  <2>1. b + 8 - 1 = b + 7
    BY <1>2
  <2> QED
    BY <2>1, Domains DEF End
<1>4. mem[b + 7][2] = pad
  BY <1>1
<1>5. \A w \in b - 8 .. Top(c) - 1 : w \in Storage(c) /\ w \in Words
  <2>1. b - 8 \in Int /\ Top(c) - 1 \in Int /\ Low(c) <= b - 8 /\ Top(c) - 1 < Top(c)
    BY <1>1, <1>2
  <2> QED
    BY <2>1, InStorage
<1>6. End(mem, b) = b + 8 + pad
  BY <1>3, <1>4
<1>7. End(mem, b) \in Int /\ b + 8 <= End(mem, b) /\ End(mem, b) <= Top(c)
  BY <1>1, <1>2, <1>6
<1> QED
  BY <1>2, <1>3, <1>5, <1>7

\* A processor on the stack of t does not change when that stack does not.
LEMMA MemoryKept ==
  ASSUME NEW t \in Threads, MyStckPointer'[t] = MyStckPointer[t],
         MyStckPointer[t] \in Int, FrameOn(t, MyStckPointer[t] + 8),
         \A w \in Storage(t) : mem'[w] = mem[w]
  PROVE  InMemory(t)' = InMemory(t)
<1>1. PICK a : a = MyStckPointer[t]
  OBVIOUS
<1>2. PICK b : b = a + 8
  OBVIOUS
<1>3. /\ b \in Int /\ End(mem, b) \in Int
      /\ b + 8 <= End(mem, b) /\ End(mem, b) <= Top(t)
      /\ End(mem, b) = b + 8 + mem[b + 7][2]
      /\ \A w \in b - 8 .. Top(t) - 1 : w \in Storage(t)
      /\ a \in Int /\ Top(t) \in Int
  <2>1. FrameOn(t, b) /\ t \in Contexts /\ a \in Int
    BY <1>1, <1>2 DEF Contexts
  <2>2. Top(t) \in Int
    BY <2>1, StackBounds
  <2> QED
    BY <2>1, <2>2, FrameEnds
<1>4. \A w \in b - 8 .. Top(t) - 1 : mem'[w] = mem[w]
  BY <1>3
<1>5. RegsAt(mem', a) = RegsAt(mem, a)
  <2>1. \A w \in a .. a + 15 : mem'[w] = mem[w]
    BY <1>2, <1>3, <1>4
  <2> QED
    BY <1>3, <2>1, SameRegs
<1>6. End(mem', b) = End(mem, b)
  <2>1. b + 8 - 1 \in b - 8 .. Top(t) - 1
    BY <1>3
  <2> QED
    BY <1>4, <2>1, Domains DEF End
<1>7. Above(mem', End(mem, b), Top(t)) = Above(mem, End(mem, b), Top(t))
  <2>1. \A w \in End(mem, b) .. Top(t) - 1 : mem'[w] = mem[w]
    BY <1>3, <1>4
  <2> QED
    BY <2>1, SameAbove
<1> QED
  BY <1>1, <1>2, <1>5, <1>6, <1>7, InMemoryIs

(***************************************************************************)
(* The steps of the handlers and of the core.                              *)
(***************************************************************************)

\* A thread whose registers are on its stack keeps them there.
LEMMA OthersKept ==
  ASSUME StackInv, StackInv', NEW t \in Threads,
         MyStckPointer'[t] = MyStckPointer[t],
         t # OS_Curr \/ stage = "saved", t # OS_Curr' \/ stage' = "saved",
         NEW c \in Contexts, c # t,
         \A w \in Words : mem'[w] # mem[w] => w \in Storage(c)
  PROVE  Processor(t)' = Processor(t)
<1>0. t # NULL
  BY StacksLargeEnough DEF Contexts
<1>1. CASE MyStckPointer[t] = NULL
  <2>1. OS_Curr # t /\ OS_Curr' # t
    BY <1>0, <1>1 DEF StackInv, CreatedInv
  <2> QED
    BY <1>1, <2>1, ProcessorIs, ProcessorIsNext
<1>2. CASE MyStckPointer[t] # NULL
  <2>1. FrameOn(t, MyStckPointer[t] + 8) /\ MyStckPointer[t] \in Int
    BY <1>2 DEF StackInv, StackType, SavedInv
  <2>2. \A w \in Storage(t) : w \in Words /\ w \notin Storage(c)
    BY StacksLargeEnough DEF Contexts, Words
  <2>3. \A w \in Storage(t) : mem'[w] = mem[w]
    BY <2>2
  <2>4. InMemory(t)' = InMemory(t)
    BY <2>1, <2>3, MemoryKept
  <2> QED
    BY <1>2, <2>4, ProcessorIs, ProcessorIsNext
<1> QED
  BY <1>1, <1>2

\* The thread a tick interrupts, or that calls OS_Sched.
LEMMA TickKeeps ==
  ASSUME StackInv, stage = "thread", SysTick_Handler \/ CallOS_Sched, OS_Curr # NULL
  PROVE  InCore(OS_Curr)' = InCore(OS_Curr)
<1>1. /\ stage = "thread" /\ UNCHANGED <<OS_Curr, MyStckPointer, sp, regs, stage>>
  BY DEF SysTick_Handler, CallOS_Sched
<1>2. /\ OS_Curr \in Contexts /\ Running = OS_Curr
      /\ sp \in Int /\ Padding \in {0, 1} /\ Top(OS_Curr) \in Nat
      /\ Low(OS_Curr) \in Nat /\ Low(OS_Curr) + 17 <= sp
  BY <1>1, RunningContext, ThreadPointer DEF StackInv
<1>3. \A w \in sp .. Top(OS_Curr) - 1 : mem'[w] = mem[w]
  <2>1. CASE CallOS_Sched
    BY <2>1 DEF CallOS_Sched
  <2>2. CASE SysTick_Handler
    <3> DEFINE a == sp - Padding - 8 - HandlerWords
               b == sp - Padding - 1
    <3>1. mem' = Fill(mem, a, b, Scratch) /\ a \in Int /\ b \in Int /\ b < sp
      BY <1>2, <2>2, StacksLargeEnough DEF SysTick_Handler
    <3> HIDE DEF a, b
    <3>2. \A w \in sp .. Top(OS_Curr) - 1 : w \in DOMAIN mem
      <4>1. Low(OS_Curr) <= sp /\ Top(OS_Curr) - 1 < Top(OS_Curr)
            /\ Top(OS_Curr) - 1 \in Int
        BY <1>2
      <4> QED
        BY <1>2, <4>1, InStorage DEF StackInv, StackType
    <3>3. \A w \in sp .. Top(OS_Curr) - 1 : w \notin a .. b
      BY <1>2, <3>1
    <3> QED
      BY <3>1, <3>2, <3>3, FillRange
  <2> QED
    BY <2>1, <2>2
<1>4. Above(mem', sp, Top(OS_Curr)) = Above(mem, sp, Top(OS_Curr))
  BY <1>3, SameAbove
<1>5. Top(OS_Curr)' = Top(OS_Curr)
  BY <1>1 DEF Top, StackTop
<1> QED
  BY <1>1, <1>4, <1>5 DEF InCore, StackFrom, Above

\* A tick that interrupts PendSV_Handler writes below the thread's frame.
LEMMA NestedTickKeeps ==
  ASSUME StackInv, stage # "thread", SysTick_Handler, OS_Curr # NULL
  PROVE  InHandler(OS_Curr)' = InHandler(OS_Curr)
<1> DEFINE top == Top(OS_Curr)
           a == sp - Padding - 8 - HandlerWords
           b == sp - Padding - 1
<1>1. /\ stage \in {"entered", "restored"}
      /\ UNCHANGED <<OS_Curr, MyStckPointer, sp, regs, stage>>
      /\ mem' = Fill(mem, a, b, Scratch)
  BY DEF SysTick_Handler, Interruptible
<1>2. /\ OS_Curr \in Contexts /\ FrameOn(OS_Curr, sp) /\ top \in Int
      /\ DOMAIN mem = Words
  <2>1. OS_Curr \in Contexts /\ Running = OS_Curr
    BY RunningContext DEF StackInv
  <2> QED
    BY <1>1, <2>1, StackBounds DEF StackInv, StackType, PointerInv
<1>3. /\ sp \in Int /\ End(mem, sp) \in Int
      /\ sp + 8 <= End(mem, sp) /\ End(mem, sp) <= top
      /\ \A w \in sp - 8 .. top - 1 : w \in Words
  BY <1>2, FrameEnds
<1>4. a \in Int /\ b \in Int /\ b < sp
  BY <1>3, StacksLargeEnough DEF Padding
<1>5. Top(OS_Curr)' = top
  BY <1>1 DEF Top, StackTop
<1> HIDE DEF a, b, top
<1>6. \A w \in sp .. top - 1 : mem'[w] = mem[w]
  <2>1. \A w \in sp .. top - 1 : w \in DOMAIN mem /\ w \notin a .. b
    BY <1>2, <1>3, <1>4
  <2>2. \A w \in DOMAIN mem : w \notin a .. b => mem'[w] = mem[w]
    BY <1>1, <1>4, FillRange
  <2> QED
    BY <2>1, <2>2
<1>7. FrameRegs(mem', regs, sp) = FrameRegs(mem, regs, sp)
  <2>1. \A w \in sp .. sp + 7 : mem'[w] = mem[w]
    BY <1>2, <1>3, <1>6
  <2> QED
    BY <1>3, <2>1, SameFrameRegs
<1>8. End(mem', sp) = End(mem, sp)
  <2>1. sp + 8 - 1 \in sp .. top - 1
    BY <1>2, <1>3
  <2> QED
    BY <1>6, <2>1, Domains DEF End
<1>9. Above(mem', End(mem, sp), top) = Above(mem, End(mem, sp), top)
  <2>1. \A w \in End(mem, sp) .. top - 1 : mem'[w] = mem[w]
    BY <1>2, <1>3, <1>6
  <2> QED
    BY <2>1, SameAbove
<1> QED
  <2>1. InHandler(OS_Curr)' = [regs  |-> FrameRegs(mem', regs', sp'),
                               stack |-> Above(mem', End(mem', sp'), top)]
    BY <1>1, <1>5 DEF InHandler, StackFrom, Above, FrameRegs, FromFrame, Load,
       Framed, Pos, FrameEnd, End
  <2>2. InHandler(OS_Curr) = [regs  |-> FrameRegs(mem, regs, sp),
                              stack |-> Above(mem, End(mem, sp), top)]
    BY InHandlerIs DEF top
  <2> QED
    BY <1>1, <1>7, <1>8, <1>9, <2>1, <2>2

\* The interrupted thread's registers go to its frame, the padding with them.
LEMMA EntryKeeps ==
  ASSUME StackInv, Entry, OS_Curr # NULL
  PROVE  InHandler(OS_Curr)' = InCore(OS_Curr)
<1> DEFINE a == sp - Padding - 8
           core == [regs EXCEPT !["xPSR"] = Padded(@, Padding)]
           top == Top(OS_Curr)
<1>1. /\ stage = "thread" /\ OS_Curr' = OS_Curr
      /\ sp' = a /\ mem' = Store(mem, a, Frame, core)
      /\ regs' = [r \in Registers |-> IF r \in Names(Callee) THEN regs[r] ELSE Scratch]
      /\ regs = [r \in Registers |-> regs[r]] /\ DOMAIN mem = Words
  BY DEF Entry, StackInv, StackType
<1>2. /\ OS_Curr \in Contexts /\ Running = OS_Curr
      /\ sp \in Int /\ Padding \in {0, 1} /\ top \in Nat
      /\ Low(OS_Curr) \in Nat /\ Low(OS_Curr) + 17 <= sp /\ sp <= top
  BY <1>1, RunningContext, ThreadPointer DEF StackInv
<1>3. a \in Int /\ a + 8 + Padding = sp /\ a + 8 <= sp
  BY <1>2
<1>4. core["xPSR"] = <<regs["xPSR"], Padding>>
      /\ \A r \in Registers : r # "xPSR" => core[r] = regs[r]
  BY <1>1, FrameNames DEF Padded
<1> HIDE DEF a, core, top
<1>5. \A w \in a .. top - 1 : w \in DOMAIN mem
  <2>1. Low(OS_Curr) <= a /\ top - 1 < top /\ top - 1 \in Int
    BY <1>2, <1>3
  <2> QED
    BY <1>1, <1>2, <1>3, <2>1, InStorage DEF top
<1>6. \A w \in a .. a + 7 : w \in DOMAIN mem
  BY <1>2, <1>3, <1>5
<1>7. \A r \in Names(Frame) : mem'[a + Pos(Frame, r) - 1] = core[r]
  BY <1>1, <1>3, <1>6, Domains, StoredWord
<1>8. \A r \in Names(Frame) : Framed(mem', a, r) = regs[r]
  <2>1. Names(Frame) \subseteq Registers
    BY DEF Registers
  <2>2. core["xPSR"][1] = regs["xPSR"]
    BY <1>4
  <2> QED
    BY <1>4, <1>7, <2>1, <2>2 DEF Framed
<1>9. FrameRegs(mem', regs', a) = regs
  <2>1. \A r \in Registers : r \in Names(Callee) => regs'[r] = regs[r]
    BY <1>1
  <2>2. \A r \in Registers : r \notin Names(Callee) => r \in Names(Frame)
    BY DEF Registers
  <2>3. FrameRegs(mem', regs', a) = [r \in Registers |-> regs[r]]
    BY <1>8, <2>1, <2>2 DEF FrameRegs
  <2> QED
    BY <1>1, <2>3
<1>10. End(mem', a) = sp
  <2>1. "xPSR" \in Names(Frame)
    BY FrameNames DEF Registers
  <2>2. mem'[a + Pos(Frame, "xPSR") - 1][2] = Padding
    BY <1>4, <1>7, <2>1
  <2> QED
    BY <1>3, <2>2 DEF End
<1>11. Above(mem', sp, top) = Above(mem, sp, top)
  <2>1. \A w \in sp .. top - 1 : w \in DOMAIN mem /\ w \notin a .. a + 8 - 1
    BY <1>2, <1>3, <1>5
  <2>2. \A w \in sp .. top - 1 : mem'[w] = mem[w]
    BY <1>1, <2>1, Domains DEF Store
  <2> QED
    BY <2>2, SameAbove
<1>12. Top(OS_Curr)' = top
  BY <1>1 DEF Top, StackTop, top
<1> QED
  <2>1. InHandler(OS_Curr)' = [regs |-> FrameRegs(mem', regs', sp'),
                               stack |-> Above(mem', End(mem', sp'), top)]
    BY <1>1, <1>12 DEF InHandler, StackFrom, Above, FrameRegs, FromFrame, Load,
       Framed, Pos, FrameEnd, End
  <2>2. InCore(OS_Curr) = [regs |-> regs, stack |-> Above(mem, sp, top)]
    BY DEF InCore, StackFrom, Above, top
  <2> QED
    BY <1>1, <1>9, <1>10, <1>11, <2>1, <2>2

\* PUSH {r4-r11} completes the processor on the stack.
LEMMA SaveKeeps ==
  ASSUME StackInv, Save, OS_Curr # NULL
  PROVE  InMemory(OS_Curr)' = InHandler(OS_Curr)
<1> DEFINE top == Top(OS_Curr)
           a == sp - 8
<1>1. /\ stage = "entered" /\ OS_Curr' = OS_Curr /\ regs' = regs
      /\ mem' = Store(mem, a, Callee, regs)
      /\ MyStckPointer' = [MyStckPointer EXCEPT ![OS_Curr] = a]
      /\ DOMAIN mem = Words /\ OS_Curr \in Threads
      /\ MyStckPointer' [OS_Curr] = a
  BY DEF Save, StackInv, StackType
<1>2. OS_Curr \in Contexts /\ FrameOn(OS_Curr, sp) /\ top \in Int
  <2>1. OS_Curr \in Contexts /\ Running = OS_Curr
    BY RunningContext DEF StackInv
  <2> QED
    BY <1>1, <2>1, StackBounds DEF StackInv, PointerInv
<1>3. /\ sp \in Int /\ End(mem, sp) \in Int
      /\ sp + 8 <= End(mem, sp) /\ End(mem, sp) <= top
      /\ \A w \in sp - 8 .. top - 1 : w \in Words
  BY <1>2, FrameEnds
<1>4. a \in Int /\ a + 8 = sp
  BY <1>3
<1> HIDE DEF a, top
<1>5. \A w \in sp .. top - 1 : mem'[w] = mem[w]
  <2>1. \A w \in sp .. top - 1 : w \in DOMAIN mem /\ w \notin a .. a + 8 - 1
    BY <1>1, <1>2, <1>3, <1>4
  <2> QED
    BY <1>1, <2>1, Domains DEF Store
<1>6. \A w \in a .. a + 7 : w \in DOMAIN mem
  BY <1>1, <1>2, <1>3, <1>4
<1>7. \A r \in Names(Callee) : mem'[a + Pos(Callee, r) - 1] = regs[r]
  BY <1>1, <1>4, <1>6, Domains, StoredWord
<1>8. \A r \in Names(Frame) : Framed(mem', sp, r) = Framed(mem, sp, r)
  <2>1. \A w \in sp .. sp + 7 : mem'[w] = mem[w]
    BY <1>2, <1>3, <1>5
  <2> QED
    BY <1>3, <2>1, SameFrame
<1>9. RegsAt(mem', a) = FrameRegs(mem, regs, sp)
  <2>1. \A r \in Registers : r \notin Names(Callee) => r \in Names(Frame)
    BY DEF Registers
  <2> QED
    BY <1>4, <1>7, <1>8, <2>1 DEF RegsAt, FrameRegs
<1>10. End(mem', sp) = End(mem, sp)
  <2>1. sp + 8 - 1 \in sp .. top - 1
    BY <1>2, <1>3
  <2> QED
    BY <1>5, <2>1, Domains DEF End
<1>11. Above(mem', End(mem, sp), top) = Above(mem, End(mem, sp), top)
  <2>1. \A w \in End(mem, sp) .. top - 1 : mem'[w] = mem[w]
    BY <1>2, <1>3, <1>5
  <2> QED
    BY <2>1, SameAbove
<1>12. Top(OS_Curr)' = top
  BY <1>1 DEF Top, StackTop, top
<1> QED
  <2>1. InMemory(OS_Curr)' =
          [regs  |-> RegsAt(mem', MyStckPointer'[OS_Curr]),
           stack |-> Above(mem', End(mem', MyStckPointer'[OS_Curr] + 8), top)]
    <3>1. OS_Curr' = OS_Curr
      BY <1>1
    <3> QED
      BY <3>1, <1>12 DEF InMemory, StackFrom, Above, RegsAt, FromFrame, Load,
         Framed, Pos, FrameEnd, End
  <2>2. InHandler(OS_Curr) = [regs  |-> FrameRegs(mem, regs, sp),
                              stack |-> Above(mem, End(mem, sp), top)]
    BY InHandlerIs DEF top
  <2> QED
    BY <1>1, <1>4, <1>9, <1>10, <1>11, <2>1, <2>2

\* POP {r4-r11} takes them from where they were pushed.
LEMMA RestoreKeeps ==
  ASSUME Restore, OS_Next \in Threads
  PROVE  InHandler(OS_Next)' = InMemory(OS_Next)
<1> DEFINE a == MyStckPointer[OS_Next]
           top == Top(OS_Next)
<1>1. /\ sp' = a + 8 /\ mem' = mem /\ OS_Next' = OS_Next
      /\ regs' = [r \in Registers |->
                    IF r \in Names(Callee) THEN mem[a + Pos(Callee, r) - 1] ELSE Scratch]
  BY DEF Restore, Load, Pos
<1>2. FrameRegs(mem, regs', a + 8) = RegsAt(mem, a)
  BY <1>1 DEF FrameRegs, RegsAt
<1>3. Top(OS_Next)' = top
  BY <1>1 DEF Top, StackTop
<1>4. InHandler(OS_Next)' = [regs  |-> FrameRegs(mem', regs', sp'),
                             stack |-> Above(mem', End(mem', sp'), top)]
  BY <1>1, <1>3 DEF InHandler, StackFrom, Above, FrameRegs, FromFrame, Load,
     Framed, Pos, FrameEnd, End
<1>5. InMemory(OS_Next) = [regs  |-> RegsAt(mem, a),
                           stack |-> Above(mem, End(mem, a + 8), top)]
  BY InMemoryIs
<1> QED
  BY <1>1, <1>2, <1>4, <1>5

\* The return takes the rest from the frame and drops the padding.
LEMMA ReturnKeeps ==
  ASSUME Return
  PROVE  InCore(OS_Curr)' = InHandler(OS_Curr)
<1>1. /\ OS_Curr' = OS_Curr /\ mem' = mem /\ sp' = End(mem, sp)
      /\ regs' = FrameRegs(mem, regs, sp)
  BY DEF Return, FrameEnd, End, FrameRegs, FromFrame, Framed, Load, Pos
<1>2. Top(OS_Curr)' = Top(OS_Curr)
  BY <1>1 DEF Top, StackTop
<1>3. InCore(OS_Curr)' = [regs |-> regs', stack |-> Above(mem', sp', Top(OS_Curr))]
  BY <1>1, <1>2 DEF InCore, StackFrom, Above
<1> QED
  BY <1>1, <1>3, InHandlerIs

\* What is not the thread's own code changes no processor.
LEMMA HandlerStep ==
  ASSUME StackInv, StackInv', NEW t \in Threads,
         CallOS_Sched \/ SysTick_Handler \/ Entry \/ Save \/ Restore \/ Return
  PROVE  Processor(t)' = Processor(t)
<1>0. /\ Running \in Contexts /\ t \in Contexts /\ Main \in Contexts
      /\ t # NULL /\ t # Main /\ (OS_Curr # t => Running # t)
  BY RunningContext, StacksLargeEnough DEF StackInv, Contexts, Running
<1>1. /\ OS_Curr = t => MyStckPointer[t] # NULL
      /\ OS_Curr' = t => MyStckPointer'[t] # NULL
  BY <1>0 DEF StackInv, CreatedInv
<1>2. \A w \in Words : mem'[w] # mem[w] => w \in Storage(Running)
  BY StepWrites DEF OwnWrites
<1>3. CASE CallOS_Sched \/ SysTick_Handler
  <2>1. UNCHANGED <<OS_Curr, MyStckPointer, stage>>
    BY <1>3 DEF CallOS_Sched, SysTick_Handler
  <2>2. CASE OS_Curr = t
    <3>1. CASE stage = "thread"
      BY <1>0, <1>1, <1>3, <2>1, <2>2, <3>1, TickKeeps, ProcessorIs, ProcessorIsNext
    <3>2. CASE stage # "thread"
      <4>1. SysTick_Handler /\ stage \in {"entered", "restored"}
        BY <1>3, <3>2 DEF CallOS_Sched, SysTick_Handler, Interruptible
      <4>2. InHandler(t)' = InHandler(t)
        BY <1>0, <2>1, <2>2, <3>2, <4>1, NestedTickKeeps
      <4> QED
        BY <1>0, <1>1, <2>1, <2>2, <4>1, <4>2, ProcessorIs, ProcessorIsNext
    <3> QED
      BY <3>1, <3>2
  <2>3. CASE OS_Curr # t
    BY <1>0, <1>2, <2>1, <2>3, OthersKept
  <2> QED
    BY <2>2, <2>3
<1>4. CASE Entry
  <2>1. /\ stage = "thread" /\ stage' = "entered"
        /\ UNCHANGED <<OS_Curr, MyStckPointer>>
    BY <1>4 DEF Entry
  <2>2. CASE OS_Curr = t
    BY <1>0, <1>1, <1>4, <2>1, <2>2, EntryKeeps, ProcessorIs, ProcessorIsNext
  <2>3. CASE OS_Curr # t
    BY <1>0, <1>2, <2>1, <2>3, OthersKept
  <2> QED
    BY <2>2, <2>3
<1>5. CASE Save
  <2>1. stage = "entered" /\ stage' = "saved" /\ OS_Curr' = OS_Curr
    BY <1>5 DEF Save
  <2>2. CASE OS_Curr = t
    BY <1>0, <1>1, <1>5, <2>1, <2>2, SaveKeeps, ProcessorIs, ProcessorIsNext
  <2>3. CASE OS_Curr # t
    <3>1. MyStckPointer'[t] = MyStckPointer[t]
      BY <1>5, <2>3 DEF Save, StackInv, StackType
    <3> QED
      BY <1>0, <1>2, <2>1, <2>3, <3>1, OthersKept
  <2> QED
    BY <2>2, <2>3
<1>6. CASE Restore
  <2>1. /\ stage = "saved" /\ stage' = "restored" /\ OS_Curr' = OS_Next
        /\ UNCHANGED <<MyStckPointer, mem>>
    BY <1>6 DEF Restore
  <2>2. CASE OS_Next = t
    <3>1. MyStckPointer[t] # NULL
      BY <1>1, <2>1, <2>2
    <3>2. InHandler(t)' = InMemory(t)
      <4>1. OS_Next' = OS_Next
        BY <1>6 DEF Restore
      <4>2. Top(t)' = Top(t)
        BY DEF Top, StackTop
      <4> QED
        BY <1>6, <2>2, <4>1, RestoreKeeps, InHandlerIs, InMemoryIs
    <3> QED
      BY <2>1, <2>2, <3>1, <3>2, ProcessorIs, ProcessorIsNext
  <2>3. CASE OS_Next # t
    BY <1>0, <2>1, <2>3, OthersKept
  <2> QED
    BY <2>2, <2>3
<1>7. CASE Return
  <2>1. /\ stage = "restored" /\ stage' = "thread"
        /\ UNCHANGED <<OS_Curr, MyStckPointer, mem>>
    BY <1>7 DEF Return
  <2>2. CASE OS_Curr = t
    BY <1>0, <1>1, <1>7, <2>1, <2>2, ReturnKeeps, ProcessorIs, ProcessorIsNext
  <2>3. CASE OS_Curr # t
    BY <1>0, <1>2, <2>1, <2>3, OthersKept
  <2> QED
    BY <2>2, <2>3
<1> QED
  BY <1>3, <1>4, <1>5, <1>6, <1>7

\* Ticks, requests of a switch, PendSV_Handler and the core's entry and return
\* change no processor, of whatever thread and at whatever point of its code
\* they come (Os.c:303-349, Gpt.c:43-56).
THEOREM HandlersKeepProcessorsAlways == Spec => HandlersKeepProcessors
<1> DEFINE Kept == \/ Body
                   \/ \E t \in Threads : OSThread_Start(t)
                   \/ \A t \in Threads : Processor(t)' = Processor(t)
<1>1. StackInv /\ StackInv' /\ [Next]_vars => [Kept]_vars
  <2> SUFFICES ASSUME StackInv, StackInv', Next
               PROVE  Kept
    OBVIOUS
  <2> QED
    BY HandlerStep DEF Next
<1> QED
  BY <1>1, StackAlways, PTL DEF Spec, HandlersKeepProcessors

(***************************************************************************)
(* Creation.                                                               *)
(***************************************************************************)

LEMMA BothNames ==
  \A k \in 1 .. 8 : /\ (Callee \o Frame)[k] = Callee[k]
                    /\ (Callee \o Frame)[k + 8] = Frame[k]
BY DEF Callee, Frame

\* OSThread_Start's frame is the processor the thread is meant to start with.
LEMMA StartFresh ==
  ASSUME StackInv, NEW t \in Threads, OSThread_Start(t)
  PROVE  InMemory(t)' = FreshProcessors[t]
<1> DEFINE a == StackTop(t) - 16
           names == Callee \o Frame
           core == [StartRegs(t) EXCEPT !["xPSR"] = Padded(@, 0)]
           framed == Store(mem, a, names, core)
<1>1. /\ t \in Contexts /\ Top(t) = StackTop(t) /\ DOMAIN mem = Words
      /\ Top(t)' = Top(t)
  BY StacksLargeEnough DEF Contexts, Top, StackTop, StackInv, StackType
<1>2. /\ MyStckPointer' = [MyStckPointer EXCEPT ![t] = a]
      /\ mem' = Fill(framed, StckLimit(t), a - 1, FACEB00C)
      /\ MyStckPointer'[t] = a
  BY DEF OSThread_Start, StackInv, StackType
<1>3. /\ Low(t) \in Nat /\ Top(t) \in Nat /\ BodyWords \in Nat
      /\ Low(t) + BodyWords + 17 <= Top(t)
  BY <1>1, StackBounds, StacksLargeEnough
<1>4. a \in Int /\ a + 16 = Top(t) /\ Low(t) <= a
  BY <1>1, <1>3
<1>5. core["xPSR"] = <<StartRegs(t)["xPSR"], 0>>
      /\ \A r \in Registers : r # "xPSR" => core[r] = StartRegs(t)[r]
  BY FrameNames DEF StartRegs, Padded
<1>6. Len(names) = 16 /\ \A k \in 1 .. 8 : names[k] = Callee[k] /\ names[k + 8] = Frame[k]
  BY FrameNames, BothNames
<1> HIDE DEF a, names, core
<1>7. \A w \in a .. a + 15 : w \in Words
  BY <1>1, <1>3, <1>4, InStorage
<1>8. \A w \in a .. a + 15 : mem'[w] = core[names[w - a + 1]]
  <2> TAKE w \in a .. a + 15
  <2>1. w \in DOMAIN mem /\ w \in a .. a + Len(names) - 1 /\ w \notin StckLimit(t) .. a - 1
    BY <1>1, <1>4, <1>6, <1>7
  <2>2. framed[w] = core[names[w - a + 1]] /\ w \in DOMAIN framed
    BY <2>1 DEF Store, framed
  <2> HIDE DEF framed
  <2> QED
    BY <1>2, <2>1, <2>2 DEF Fill
<1>9. \A r \in Names(Callee) : mem'[a + Pos(Callee, r) - 1] = core[r]
  <2> TAKE r \in Names(Callee)
  <2>1. PICK k \in 1 .. 8 : Pos(Callee, r) = k /\ Callee[k] = r
    BY Domains, Positions
  <2>2. PICK w : w = a + k - 1
    OBVIOUS
  <2>3. w \in a .. a + 15 /\ w - a + 1 = k
    BY <1>4, <2>2
  <2> QED
    BY <1>6, <1>8, <2>1, <2>2, <2>3
<1>10. \A r \in Names(Frame) : mem'[a + 8 + Pos(Frame, r) - 1] = core[r]
  <2> TAKE r \in Names(Frame)
  <2>1. PICK k \in 1 .. 8 : Pos(Frame, r) = k /\ Frame[k] = r
    BY Domains, Positions
  <2>2. PICK w : w = a + 8 + k - 1
    OBVIOUS
  <2>3. w \in a .. a + 15 /\ w - a + 1 = k + 8
    BY <1>4, <2>2
  <2> QED
    BY <1>6, <1>8, <2>1, <2>2, <2>3
<1>11. RegsAt(mem', a) = StartRegs(t)
  <2>1. \A r \in Registers : r \notin Names(Callee) => r \in Names(Frame)
    BY DEF Registers
  <2>2. \A r \in Names(Callee) : r \in Registers /\ r # "xPSR"
    BY FrameNames DEF Registers
  <2>3. core["xPSR"][1] = StartRegs(t)["xPSR"]
    BY <1>5
  <2>4. \A r \in Names(Frame) : r \in Registers /\ Framed(mem', a + 8, r) = StartRegs(t)[r]
    BY <1>5, <1>10, <2>3 DEF Framed, Registers
  <2>5. RegsAt(mem', a) = [r \in Registers |-> StartRegs(t)[r]]
    BY <1>5, <1>9, <2>1, <2>2, <2>4 DEF RegsAt
  <2> QED
    BY <2>5 DEF StartRegs
<1>12. End(mem', a + 8) = Top(t)
  <2>1. "xPSR" \in Names(Frame)
    BY FrameNames DEF Registers
  <2>2. mem'[a + 8 + Pos(Frame, "xPSR") - 1][2] = 0
    BY <1>5, <1>10, <2>1
  <2> QED
    BY <1>3, <1>4, <2>2 DEF End
<1>13. Above(mem', Top(t), Top(t)) = NoWords
  <2>1. Top(t) .. Top(t) - 1 = {}
    BY <1>3
  <2> QED
    BY <2>1 DEF Above, NoWords
<1> QED
  BY <1>1, <1>2, <1>11, <1>12, <1>13, InMemoryIs DEF FreshProcessors

(***************************************************************************)
(* The refinement.                                                         *)
(***************************************************************************)

LEMMA Stutter ==
  ASSUME NEW t, UNCHANGED vars
  PROVE  Processor(t)' = Processor(t)
BY DEF vars, Processor, InCore, InHandler, InMemory, StackFrom, Top, StackTop,
       FrameEnd, FromFrame, Load, Absent, NoWords, Scratch

LEMMA StartRefines ==
  ASSUME StackInv, StackInv', NEW t \in Threads, OSThread_Start(t)
  PROVE  Private!Create(t)
<1>1. /\ Running = Main /\ OS_Curr' = OS_Curr
      /\ stage' = stage /\ stage = "thread"
  BY DEF OSThread_Start
<1>2. OS_Curr = NULL /\ Running' = Running /\ \A u \in Threads : u # NULL
  BY <1>1, StacksLargeEnough DEF Running, Contexts, StackInv, StackType
<1>3. /\ MyStckPointer[t] = NULL /\ MyStckPointer'[t] # NULL
      /\ \A u \in Threads \ {t} : MyStckPointer'[u] = MyStckPointer[u]
      /\ \A w \in Words : mem'[w] # mem[w] => w \in Storage(t)
  BY StartWrites, StacksLargeEnough DEF StackInv, StackType
<1>4. Processor(t) = Absent
  BY <1>2, <1>3, ProcessorIs
<1>5. Processor(t)' = FreshProcessors[t]
  BY <1>1, <1>2, <1>3, StartFresh, ProcessorIsNext
<1>6. \A u \in Threads \ {t} : Processor(u)' = Processor(u)
  <2>1. t \in Contexts
    BY DEF Contexts
  <2> QED
    BY <1>1, <1>2, <1>3, <2>1, OthersKept
<1> QED
  BY <1>1, <1>2, <1>4, <1>5, <1>6 DEF Private!Create

LEMMA BodyRefines ==
  ASSUME StackInv, StackInv', Body
  PROVE  Private!Execute
<1>1. stage = "thread" /\ UNCHANGED <<OS_Curr, MyStckPointer, stage>>
  BY DEF Body, Compute, Push, Pop
<1>2. Running \in Contexts /\ (OS_Curr # NULL => Running = OS_Curr) /\ Running' = Running
  BY <1>1, RunningContext DEF StackInv, Running
<1>3. \A w \in Words : mem'[w] # mem[w] => w \in Storage(Running)
  BY StepWrites DEF OwnWrites
<1>4. ASSUME NEW u \in Threads \ {Running}
      PROVE  Processor(u)' = Processor(u)
  <2>1. u # OS_Curr
    BY <1>2, StacksLargeEnough DEF Contexts
  <2> QED
    BY <1>1, <1>2, <1>3, <2>1, OthersKept
<1> QED
  BY <1>2, <1>4 DEF Private!Execute

LEMMA RestoreRefines ==
  ASSUME StackInv, StackInv', Restore
  PROVE  Private!Switch
<1>1. /\ OS_Curr' = OS_Next /\ stage = "saved"
      /\ OS_Next \in Threads /\ MyStckPointer[OS_Next] # NULL /\ OS_Next # NULL
  BY StacksLargeEnough DEF Restore, StackInv, CreatedInv, Contexts
<1>2. \A t \in Threads : Processor(t)' = Processor(t)
  BY HandlerStep
<1>3. Running' = OS_Next
  BY <1>1 DEF Running
<1>4. Processor(OS_Next) # Absent
  <2>1. Processor(OS_Next) = InMemory(OS_Next)
    BY <1>1, ProcessorIs
  <2>2. DOMAIN InMemory(OS_Next).regs = Registers
    BY DEF InMemory
  <2>3. DOMAIN Absent.regs = {}
    BY DEF Absent, NoWords
  <2> QED
    BY <2>1, <2>2, <2>3, FrameNames
<1> QED
  BY <1>1, <1>2, <1>3, <1>4 DEF Private!Switch

\* Every thread has a processor of its own: through any sequence of switches
\* and ticks it finds registers and stack as it left them or as OSThread_Start
\* made them (Os.c:240-290, 303-349).
THEOREM PrivateProcessorsAlways == Spec => PrivateProcessors
<1>1. Init => Private!Init
  <2> SUFFICES ASSUME Init
               PROVE  Private!Init
    OBVIOUS
  <2>1. Running = Main
    BY DEF Init, Running
  <2>2. ASSUME NEW t \in Threads
        PROVE  Processor(t) = Absent
    <3>1. MyStckPointer[t] = NULL /\ OS_Curr # t
      BY StacksLargeEnough DEF Init, Contexts
    <3> QED
      BY <3>1, ProcessorIs
  <2> QED
    BY <2>1, <2>2 DEF Private!Init
<1>2. StackInv /\ StackInv' /\ [Next]_vars => [Private!Next]_(Private!vars)
  <2> SUFFICES ASSUME StackInv, StackInv', [Next]_vars
               PROVE  Private!Next \/ UNCHANGED Private!vars
    OBVIOUS
  <2>1. CASE UNCHANGED vars
    <3>1. \A t \in Threads : Processor(t)' = Processor(t)
      BY <2>1, Stutter
    <3>2. Running' = Running
      BY <2>1 DEF vars, Running
    <3> QED
      BY <3>1, <3>2 DEF Private!vars
  <2>2. CASE \E t \in Threads : OSThread_Start(t)
    BY <2>2, StartRefines DEF Private!Next
  <2>3. CASE Body
    BY <2>3, BodyRefines DEF Private!Next
  <2>4. CASE Restore
    BY <2>4, RestoreRefines DEF Private!Next
  <2>5. CASE CallOS_Sched \/ SysTick_Handler \/ Entry \/ Save \/ Return
    <3>1. \A t \in Threads : Processor(t)' = Processor(t)
      BY <2>5, HandlerStep
    <3>2. Running' = Running
      BY <2>5 DEF CallOS_Sched, SysTick_Handler, Entry, Save, Return, Running
    <3> QED
      BY <3>1, <3>2 DEF Private!vars
  <2> QED
    BY <2>1, <2>2, <2>3, <2>4, <2>5 DEF Next
<1> QED
  BY <1>1, <1>2, StackAlways, PTL DEF Spec, PrivateProcessors, Private!Spec
=============================================================================
