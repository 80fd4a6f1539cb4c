# A TLA+ model of CM4_LiteRTOS

CM4_LiteRTOS is a small preemptive kernel for one Cortex-M4 core: at most 32
threads with fixed priorities, a blocking delay, a 1 ms tick, an idle thread. The
repository holds the kernel (`src/Src/OS`), a hardware layer for the STM32F446
(`src/Src/Target/STM32F446re/Mcal`) and an application of two threads
(`src/Src/App`). It has no tests, and most of what can go wrong in it depends on
where an interrupt falls; this directory checks that with TLC and proves the
central properties with TLAPS.

Source lines are those of the files named; `Os.c` is `src/Src/OS/Os.c`, `Mcu.c`
is `src/Src/Target/STM32F446re/Mcal/Mcu.c`, and so on.

## 1. The system

| Component | State | Operations | Interacts with |
|---|---|---|---|
| Scheduler (`Os.c`) | `OS_Curr`, `OS_Next`, `OS_Thread[33]`, `OS_ReadySet` | `OS_Sched`, `OS_Run`, `OS_Init` | called by `OS_Run`, `OS_msDelay` and the tick; sets PendSV pending |
| Delay and tick (`Os.c`, `Gpt.c`) | `TimeOut` per thread, `OS_DelayedSet`, `millisec_counter` | `OS_msDelay`, `OS_Tick`, `SysTick_Handler` | shares both sets with the scheduler; thread and handler code |
| Context switch (`Os.c`) | stack pointer per thread, `OS_Curr` | `PendSV_Handler` | reads `OS_Next` at any later time |
| Thread creation (`Os.c`) | control block, thread stack, `OS_Thread`, `OS_ReadySet` | `OSThread_Start` | called by `OS_Init` and `main`, interrupts enabled |
| Start-up (`SysStartup.c`) | RAM sections | `crt_init_ram`, `crt_init_ctors` | before everything else |
| Clock tree (`Mcu.c`) | RCC and flash registers | `SystemInit`, `SetSysClock` | waits for oscillator, PLL, clock switch |
| SysTick timer (`Mcu.c`) | SysTick registers | `SysTick_Init` | starts the tick before the kernel is initialised |
| Exception priorities (`Mcu.c`, `Mcu.h`, `Os.c`) | priority bytes | `NVIC_SetPriority`, `OS_OnStartup`, `OS_Init` | decide who preempts whom |
| Timers (`Gpt.c`, `Gpt.h`) | `millisec_counter`, a deadline per timer | `Gpt_GetTimeElapsed`, `TimerStart`, `TimerTimeout` | read a counter the tick changes; no caller in the repository |
| Pins (`Gpio.c`) | port clocks, mode and output registers, `port_c_lock` | `PC2/3/10_On/Off`, `Led_On/Off`, `GPIO_Init` | called by both threads, the idle thread and the tick |
| Application (`App.c`) | position of each thread | `Blinky_Main`, `TogglePC3_Main`, `main` | everything above |

What is hard here:

- **Interleaving.** A thread can be interrupted between any two instructions with
  interrupts enabled. `OS_msDelay` and the tick change the same three words; a
  switch is requested in one place (`OS_Sched`) and done in another
  (`PendSV_Handler`), and what happens in between may make it wrong.
- **Exception order.** Which of two pending exceptions goes first decides whether
  a requested switch can go stale.
- **Start.** The tick runs before the threads exist.
- **Arithmetic at the edge.** Unsigned counters that wrap, bit positions from 1 to
  32, addresses made by macros.
- **Liveness.** Sleepers must wake; the start waits for hardware.

What makes each component correct: the sets account for every thread; the
highest ready thread runs; a delay lasts exactly as long as asked and ends; a
switch loses nothing of a thread; variables are initialised before `main`; wait
states and prescalers are in force before the clock that needs them; a pin has the
level its owner gave it. `hazards` in
`PROJECT.json` lists the places where each of these is at risk.

## 2. The modules

    Kernel       what the kernel promises its threads
      |          implemented by (theorem and run)
    Os           the kernel: threads, sets, tick, switch
      |  |       implemented by (theorem and run)
      |  Handlers SysTick_Handler and PendSV_Handler step by step
      |    |     implements (theorem and run)
      |  Switches what Context takes for granted of the kernel
      |          extended by (App's steps are built from Os's actions)
    App          the two threads, the idle thread and the pins

    Processors   what the context switch promises
      |          implemented by (theorem and run)
    Context      stacks, registers and PendSV_Handler, word by word

    Boot         reset .. OS_Run: RAM, clocks, SysTick, pins, priorities;
                 gives PendSV's priority and a running SysTick to Os
    Timers       TimerStart and TimerTimeout on a counter of two words

### Os (`Os.tla`, `MCOs.tla`, `OsProofs.tla`)

The variables have the names they have in the code. A bit mask is the set of the
1-based positions of its bits, so `1U << (Prio - 1U)` is `Prio` and `LOG2` is the
maximum. `primask`, `pendsv`, `pendst` are the core's own state, `pc` the next
statement of each context (`main()` is one), and `due` is a history variable: the
value of `millisec_counter` at which the current delay of a thread should end.

Thread-mode code moves one statement at a time: `OS_msDelayDisable`,
`OS_msDelayTimeOut`, `OS_msDelayUnready`, `OS_msDelayDelay`, `CallOS_Sched` and
`CallEnable_Irq` are the six statements of `OS_msDelay`; `CallOSThread_Start`
(with what `OSThread_Start` does to the stack), `OSThread_StartRegister`,
`OSThread_StartPrio`, `OSThread_StartReady` and `OS_RunDisable` those of `main()`;
the last two statements of `OS_Run` are `CallOS_Sched` and `CallEnable_Irq` again.
A tick may come between any two of them, the assignments to `OS_Thread[Prio]` and to
`TCB->Prio` included: with two threads of one priority it then switches to a
control block whose `Prio` is still 0, whose `OS_msDelay` shifts by `0U - 1U`. C leaves
that undefined; the build is `-O0`, so the core's shift by register is executed, which
uses the count's low byte, 255, and leaves no bit (`Bits`).

The two handlers are one action each, `OS_Tick` with the effect of all its visits.
`SysTick_Handler` has the most urgent priority, so nothing preempts it; its call
of `Enable_Irq` changes nothing, because a handler is entered with interrupts
enabled. `PendSV_Handler` masks exceptions from its first instruction to its last
but one, but a tick may come before and after these. That nothing is lost by
taking each handler at once is `Handlers`' subject; that a thread goes on where it
was is `Context`'s.

The core takes a pending exception, unless masked, before the next thread-mode
instruction (`ExceptionDue`), so after `cpsie i` nothing of the thread runs before
a switch requested under the mask. `PendSVFirst` decides between two pending
exceptions: by priority, then by number.

### Kernel (`Kernel.tla`, `KernelProofs.tla`)

The abstract specification `Os` implements (property `KeepsPromise`): the period
number, the threads there are, the one that has the processor, and for each thread
the period it sleeps until, or `Awake`. Four things happen: a thread starts (`Start`),
the running thread goes to sleep (`Sleep`), a period ends and wakes exactly those
whose time has come (`Tick`), and the processor goes to the most important thread
awake (`Switch`). Nothing of sets, words, or pending switches is left. The mapping
takes a thread for asleep from the moment its bit is in `OS_DelayedSet` and computes
the period it waits for from `TimeOut` and `millisec_counter`; the history variable
`due` plays no part in it.

### Handlers (`Handlers.tla`, `Switches.tla`, `MCHandlers.tla`, `HandlersProofs.tla`)

Extends `Os` with the handlers' local state. `EnterSysTick`, one `Visit` for each turn
of `OS_Tick`'s loop (the working set, the highest bit, the thread in that slot of
`OS_Thread`, the bit of that thread's own `Prio`) and `LeaveSysTick` replace
`SysTick_Handler`. The core's entry, the masking (`PendSVDisable`), the load of
`OS_Next` for the stack pointer (`PendSVStack`), the one for `OS_Curr` (`PendSVCurr`),
the unmasking and the return replace `PendSV_Handler`; `stack` is the context whose
stack the stack pointer is on. The timer may reload anywhere in between. If PendSV
is less urgent than SysTick, a tick interrupts `PendSV_Handler` wherever that does
not mask it; otherwise it waits. No thread-mode step happens meanwhile.

`ImplementsOs` is the refinement of `Os`. The mapping shows the kernel as it will be
when the tick under way ends, and as if `PendSV_Handler` had made its switch with
`CPSID I`. A tick between the entry of `PendSV_Handler` and its `CPSID I` sets PendSV
pending again and the handler under way already makes the switch; the second
`PendSV_Handler` switches from the thread to itself and is invisible in `Os`, so the
mapped `pendsv` is true only while there is something to switch. `OneStack` says
that the two loads of `OS_Next` agree.

`Switches` says what `Context` assumes of the kernel, with the same actions: `Create`
as long as `main()` runs, `Request` of a switch to a created thread other than the
current one, `Switch` to what was requested last. `Handlers` implements it
(`SwitchesToCreated`): as `created` it shows the threads whose stack is made and
which are in `OS_Thread`, so a tick while `main()` is in `OSThread_Start` must not find
the thread that is being started.

### App (`App.tla`, `MCApp.tla`, `AppProofs.tla`)

Extends `Os` with each thread's place in its loop (`at`), the steps of a pin
function (`stage`: acquire, load, store, release), the copy of the register a
thread holds between load and store (`loaded`), and the output registers as sets
of pins that are high. `AppNext` conjoins kernel actions with what the thread
does, so that a kernel step happens where the thread's code makes the call. That
`App` therefore is an instance of `Os` is no finding about the code but a fact of this
construction; it is a lemma (`AppImplementsOs`) for carrying the kernel's theorems
over, and no run checks it.
`SysTick_Handler`'s two pin writes are part of its action.

### Context (`Context.tla`, `Processors.tla`, `MCContext.tla`, `ContextProofs.tla`, `ProcessorProofs.tla`)

What `Os` leaves out: where the registers of a thread are while it does not run.
The stacks are memory words, `sp` and the other sixteen registers are the core's,
and every instruction that moves them is modelled by what it moves where.

- `OSThread_Start` rounds the top of the stack down and the limit up to eight
  bytes, builds the first frame and fills the rest with `FACEB00C`.
- `Entry` is the core's: it pads the stack to eight bytes if needed, notes that in
  the saved xPSR and pushes eight registers. `Save`, `Restore` and the core's
  `Return` follow; between them the handler's own use of r0-r2 shows as scratch.
- `SysTick_Handler` runs on the stack of whoever it interrupts and leaves its
  rubbish below that stack pointer. If it is more urgent than PendSV that may be
  `PendSV_Handler`, after its entry or before its return.
- `Compute`, `Push` and `Pop` are thread code. A word is named by the thread and
  the register it was computed in and by one of two times, enough to tell the
  value a register has from the one it had before.

`main()` is a context only until the first switch: `PendSV_Handler` does not save it,
so of `main()` only its stack counts, which the first entry still uses.

`Processors` is the abstract specification: every thread has a private processor
(registers and stack), only the running thread changes its own, and a switch
changes none. The refinement mapping `Processor(t)` finds a thread's processor in
the core (`InCore`), half in the core and half in a frame (`InHandler`), or on its
stack (`InMemory`). The switch of the abstract specification is the step
`Restore`; `Entry`, `Save` and `Return` move a processor and change nothing of it.
`Processors` lets the running thread do with its processor what it likes, so a
handler that spoilt the thread it interrupts would pass for that thread's own
doing; `HandlersKeepProcessors` excludes it: only steps of thread code, and a
creation, change a processor at all.

### Timers (`Timers.tla`, `MCTimers.tla`, `TimersProofs.tla`)

`millisec_counter` is a pair of words. A caller starts a timer, polls it until it has
expired and starts the next. `Gpt_GetTimeElapsed` is one load of eight bytes (`LDRD`,
which an exception does not split) or, if the compiler prefers, one load of each
half, in either order, with ticks between; `reading` says which, chosen at the start
of a behaviour. `LastsLongEnough` says what a timer promises: it does not expire
before as many whole periods have gone by as it was asked for. For reads in two
loads it says so only until the high word first changes, after 49 days: a read
across that change can return a time 49 days off, and without the condition TLC
finds the timer that expires early. `PollSeesDeadline` is the other half, under the
same condition: a poll begun more than the asked-for periods after the return of
`TimerStart` finds the timer expired (`returned` and `polled` are history variables).
`Expires` holds for every way of reading.

### Boot (`Boot.tla`, `MCBoot.tla`, `BootProofs.tla`)

One step per statement from `__my_startup` to `OS_OnStartup`, with the two loops of
`crt_init_ram` byte by byte over a RAM with arbitrary content. The oscillator, the
PLL and the clock switch are actors. `GPIO_Init` follows `SysTick_Init`, one step
per write, on ports whose mode registers ignore writes while their clock is off
and of which port A's come out of reset with the debugger's pins set. That the PLL
ignores configuration while it is on is the reference manual's.

Priorities are bytes at addresses, so that what `NVIC_SYS_PRI3_R` designates is
computed the way the macro computes it: the result is that `OS_Init`'s write goes to
0xE000ED82, where this core has no register, and PendSV stays at priority 0. That is
what `Os` is instantiated with (`PendSVPrio = 0`). `NVIC_SetPriority` is an operator that
yields its store, address and byte; `OS_OnStartup` makes the one for SysTick. No other
register of the system control space is modelled, so nothing is said of what the
stores the function would make for the peripherals with low numbers do to `ICSR`,
`VTOR`, `AIRCR`, `SCR` and `CCR`; no code calls it for a peripheral.

`MaskCr` is `Mcu.c:26`, whose complements are combined with `|` and leave every bit of
`RCC_CR` as it was. Its comment says the four bits are reset; they are clear after a
reset anyway, which is the only way to get there, so no state contradicts it and
there is no finding.

`ClocksInOrder` takes as limits the frequencies `SetSysClock`'s own comments
configure (180 MHz, a half and a quarter of it for the buses) and 30 MHz per access
cycle of the flash: it is about the order of the writes. It does not say that the
part stands these frequencies; see section 5.

SysTick is already counting while `Boot` executes `GPIO_Init` and its last two
steps. What a tick does to the kernel there is `Os`'s subject, which starts at the
same point; its writes to `GPIOC_ODR` touch no register `GPIO_Init` uses.

## 3. The runs

| Run | Property | Result |
|---|---|---|
| `os` | `TypeOK`, `SetsPartition`, `HighestReadyRuns`, `WakesOnTime`, `DelayEnds`, `TopThreadReturns`, `KeepsPromise` (refinement of `Kernel`) | hold |
| `handlers` | `OneStack`, `ImplementsOs` (refinement of `Os`), `HandlerReturns`, `SwitchesToCreated` (refinement of `Switches`) | hold |
| `app` | `AppTypeOK`, `PC10FollowsIdle`, `PC3UntilDelay`, `LoopsForever` | hold |
| `context` | `SavedAligned`, `PrivateProcessors` (refinement of `Processors`), `HandlersKeepProcessors`, `WritesOwnStack` | hold |
| `boot` | `RamReady`, `ClocksInOrder`, `TickNearMillisecond`, `PinsConfigured`, `PendSVNotAfterSysTick`, `BootCompletes` | hold |
| `timers` | `LastsLongEnough`, `PollSeesDeadline`, `Expires` | hold |
| `early` | `OS_RunTransfersControl` | violated: a tick in `main()` switches away for good (`App.c:64`) |
| `zero` | `WakesOnTime` | violated: `OS_msDelay(0)` sleeps for 2^32 ticks (`Os.c:178`) |
| `pc3` | `PC3FollowsToggle` | violated: `port_c_lock` excludes nobody (`Gpio.c:20`) |
| `pendsv` | `PendSVLowest` | violated: PendSV is not at the lowest level (`Os.c:70`, `Mcu.h:133`) |
| `window` | `DelayPutsToSleep` | violated: a thread that takes the place of another of its priority and is switched to between `Os.c:281` and `282` does not sleep when it asks to (`Os.c:135`) |
| `halfsecond` | `HalfSecondTick` | violated: the tick is a millisecond (and one cycle), not a "half second delay" (`App.c:63`) |

The violated ones are differences between what a comment or the repository's
README says and what the code does; `findings` in `PROJECT.json` quotes both. One more
such difference needs no run of its own: the repository's README (line 24) and
`Os.c:16` speak of round robin, while `HighestReadyRuns`, checked and proved, says that
the highest priority always has the processor; `OS_CurrIdx` is never used.

**Bounds of `os`.** Three threads with priorities 4, 3 and 1: one above, one below
and a gap, so that `LOG2` has to find the highest of several bits and an unused
slot exists. Delays of one to three ticks: sleepers wake together, one after the
other and while others go to sleep. `TickMax = 3` is the largest delay, so a
decrement too many would wrap; `MsMax = 7` lets `millisec_counter` wrap within
the state space, which is what makes it finite: nothing is cut off.

**Bounds of `handlers`.** Those of `os`, so that the tick finds zero to three sleepers,
of which any may expire, and the counter wraps. `PendSVPrio` is 1, less urgent than
SysTick, as `Os.c:70` means it to be: then a tick can interrupt `PendSV_Handler`. At
the level the code really leaves it at, 0, neither handler interrupts the other;
the properties have been checked with that value too, and the theorems are for
both.

**Bounds of `timers`.** Words of two bits, delays up to a word, and a horizon of
eleven periods, in which the high word changes twice; at the horizon time stops
(`Horizon` in `Tick`'s guard), which is why the run says nothing of a wrap of the
full counter: in the program that is 500 million years away.

**Bounds of `app`.** The delays of `App.c` are 10, 20, 20 and 40 ticks; the model
keeps their ratio (`DelayUnit = 1` gives 1, 2, 2, 4). The invariants have also been checked with
a unit of 2 and 3. The counter wraps at 4,
a multiple of the delays is not required, since only differences are used.

**Bounds of `context`.** Two threads, since what one could damage is the other or
itself; adjacent stacks of the smallest size the assumptions of the module allow
(one word of the thread, one of padding or rounding, the frame, r4-r11, and with
`PendSVPrio = 1`, for the reason given above, the frame of a tick on top of these), so
that one word too many is the neighbour's; one storage begins between multiples of
eight bytes and the other ends so, and both paddings occur. The run takes about
three minutes.

**Bounds of `boot`.** Three bytes of `.data`, two of `.bss`, one byte behind, all
64 contents of RAM. The rest of the start is deterministic but for the hardware's
answers.

**Bounds of the violations.** Two threads and two delays, which suffice.

**Deadlock** is checked everywhere but in `boot`, which stops where `Os` begins.

**Fairness.** `Os`: weak fairness of the timer's reload, of the two exceptions
and of steps in a masked section, which is what a running core gives. Nothing is
assumed of thread bodies, which may compute for ever; so `DelayEnds` and
`TopThreadReturns` do not depend on the threads' cooperation. `App` claims more
(both threads go on for ever) and assumes, for each thread, strong fairness: a
SysTick period is 180001 cycles, so a thread that keeps getting the processor
executes instructions although the ticks keep interrupting it. `TogglePC3` is not
assumed to get the processor; that it does follows from `Blinky`'s delays. The
idle thread is given no fairness. `Handlers`: the steps of `SysTick_Handler`, which
nothing preempts. `Timers`: the tick and the polling caller. `Boot`: the processor runs, and the oscillator,
PLL and switch answer; without the last assumption `BootCompletes` is false, since
the waits have no timeout.

## 4. The proofs

All theorems are for any set of threads, any priorities up to any `MaxPrio`, any
delays, any widths of the counters, stacks of any size and place, and memory
sections of any size.

`OsProofs` and `KernelProofs` work in four layers.

1. `KernelInv` needs no hypothesis and holds with a tick between any two statements:
   types; where `main()` is (`MainInv`); that the idle thread is registered before
   anything else happens (`FirstInv`), since before that `OS_Sched` finds an empty
   slot; what `OS_Thread` and `Prio` say of each other, but for the one block
   `OSThread_Start` has still to tell its priority (`TableInv`); that bits are set for
   registered priorities only, and in the delayed set only for blocks that know
   theirs (`BitsInv`); that `OS_Next` and `OS_Curr` are registered threads
   (`PointersInv`). `TypeOK` alone is not inductive: the thread `OS_Sched` takes from
   the table is a thread only because a set bit designates a filled slot. It has
   also been model-checked with equal priorities and with delays of zero. Results:
   `KernelInvariant`, `TypeCorrect`.
2. `SchedInv` adds where every thread is (`PlacesInv`: ready and in its body, or
   half way through a masked `OS_msDelay`, or asleep just before its `Enable_Irq`),
   what the mask says of it (`MaskInv`), and that a pending switch leads to the
   highest ready thread while no pending switch means it is running
   (`SwitchInv`). It is inductive under `SchedHypotheses`: distinct priorities and
   PendSV not less urgent than SysTick. Both are necessary: with two
   equal priorities the trace of run `window` also violates `HighestReadyRuns`, and so
   does the mutant `PendSVLast`. Results:
   `SchedInvariant`, `HighestReadyRunsAlways`, `SetsPartitionAlways`.
3. `CountdownInv` relates the `TimeOut` of each sleeper to `due` and
   `millisec_counter`, modulo the counter's width. It needs in addition that no
   thread delays for zero ticks, which run `zero` shows to be necessary. Result:
   `WakesOnTimeAlways`.
4. `CallInv` says of a thread inside `OS_msDelay` that the time it has written is one
   of its delays and that nobody ready comes before it. With the layers above,
   each step of `Os` is a step of `Kernel` or none: the tick wakes those whose
   period it is because the countdowns are right, and `PendSV_Handler` switches to
   the first thread because of `SwitchInv`. Result: `OsKeepsPromise`.

`HandlersProofs` shows `HandlersSpec => ImplementsOs` (`HandlersImplementOs`) under no
hypothesis. Its `HandlersInv` is `KernelInv` as far as that holds inside the handlers,
and in addition: the working set is part of the delayed set (`WorkingSetInv`), so by
`TableInv` and `BitsInv` each visit finds a thread whose own bit is the one it was
found by; where the mask is set (`StageInv`); that a switch still to be made has a
registered thread to go to (`RegisteredInv`), which rests on `FirstInv`; and whose
stack is in use (`StackInv`). Results: `HandlersInvariant`, `OneStackAlways`, and
`LoopShrinks`: every visit takes a bit out of a finite set, the part of termination
that needs no fairness. `SwitchesToCreatedAlways` needs one more invariant, that the
table holds created threads only (`TableCreatedInv`); it is what makes the order of
the statements of `OSThread_Start` matter.

`AppProofs` has the lemma `AppSpec => Spec`, which follows from how `App` is built, so
that the kernel's theorems hold of the application (`AppHighestReadyRuns`,
`AppKeepsPromise`). `PortInv` gives the types
(`AppTypeCorrect`). `Pin10Inv` gives `PC10FollowsIdleAlways`, about the
unprotected output register: while the toggling thread is between load and store
it is ready, so the idle thread does not run and pin 10 does not change under it;
and the idle thread may lose the other pins' writes, never its own. It needs the
scheduler's invariant, and so the same two hypotheses. `Pin3Inv` is about
the writes that do get lost: from its store to its sleep the toggling thread's pin
has the level it was given and the thread is ready, so that the idle thread, the
only one that can hold an old copy of the register, does not get to store it.
Hence `PC3UntilDelayAlways`: pin 3 is spoilt (run `pc3`), but no earlier than during
the delay that follows.

`ContextProofs` proves `StackInv`, of four parts: types; only created threads run or
are about to; where `sp` may be at each stage of a switch; and of every thread
that does not run, that its saved pointer leads to a frame whose xPSR word holds a
padding of 0 or 1 with which the frame ends where the thread's own words do. The
last part is what makes it inductive: `Return` computes the stack pointer from
that word, so nobody may have written it meanwhile, which again follows from the
bounds on everybody's `sp`. A tick inside `PendSV_Handler` is one case more: it finds
`sp` at a frame and needs eight words below what a tick needs elsewhere
(`NestedFrame`). Results: `StackAlways`, `SavedAlignedAlways`, `WritesOwnStackAlways`,
for either order of the two priorities.

`ProcessorProofs` proves from `StackInv` that a processor, wherever the refinement
mapping finds it, is moved by each step of the switch without change
(`HandlersKeepProcessorsAlways`), and that therefore every step of `Context` is a
step of `Processors` or none (`PrivateProcessorsAlways`).

`BootProofs` proves the loop invariant of `crt_init_ram` for sections of any size
and place (`RamReadyAlways`); that no statement ever changes the order of the
two exceptions (`PendSVOrderAlways`), which discharges `PendSVFirst` for the code
as it is; from `ClockInv`, which says what each register holds at each place of
the start, that wait states and prescalers precede the clock switch
(`ClocksInOrderAlways`) and that a running SysTick counts the final clock with a
period within one cycle of a millisecond (`TickNearMillisecondAlways`); and that the
pins are configured and the debugger's are left alone (`PinsConfiguredAlways`).
`SystemPriority` and `PeripheralStores` say where the store of `NVIC_SetPriority` goes:
for a system exception to the byte of its priority, for a peripheral never to the
peripheral's. For interrupts 20 to 31 it changes the priority of a system exception
(30 is PendSV, 31 is SysTick), below that it goes to the registers from `ICSR` to
`CCR`, above it beyond SysTick's priority. They are about the function and no
property of the program, which calls it for SysTick alone.

`TimersProofs` proves `TimersLastLongEnough`: for every way of reading, and under the
condition of section 2, the word loaded first is never ahead of the counter and
not behind the start of the timer. From the same invariant, which
bounds the deadline by the counter at the call and at the return of `TimerStart`,
follows `PollsSeeDeadline`.

Only model-checked: liveness (`DelayEnds`, `TopThreadReturns`, `HandlerReturns`,
`LoopsForever`, `Expires`, `BootCompletes`), since the prover treats neither fairness
nor ENABLED. The violations are TLC's counterexamples.

## 5. What is not modelled

- Floating-point registers: `SystemInit` enables the unit (`Mcu.c:20`) and the build
  allows its use, but `PendSV_Handler` saves none of its registers. The code has
  no floating-point arithmetic, so `Context` models the frame without them; it
  says nothing of a thread that computes with floating-point numbers.
- How much stack the compiled functions use. `Context` assumes that a thread stays
  18 words above the end of its storage, 26 if a tick may interrupt
  `PendSV_Handler` (`StacksLargeEnough`), and shows that then nothing else does it
  harm. The eight words more are what giving PendSV the priority `Os.c:70` intends
  would cost every thread.
- Real time: a reload lost while the tick is masked is a step, how often it
  happens is not. SysTick's period is 180001 cycles, not 180000 (`Mcu.c:110`).
- Whether the part stands its clocks. 180 MHz, 90 MHz and 45 MHz need the over-drive
  mode; without it the limits are 168, 84 and 42 MHz. `SetSysClock` enables the power
  interface's clock (`Mcu.c:61`) and never over-drive, so the program runs beyond
  them. No file of the repository states a limit that a run could show violated; it
  is on the list of hazards. Voltage and temperature are no part of the model.
- Faults and the other handlers of `IntVect.c`, a constant table of addresses.
- `stdatomic.h` (vendored), the build files, the IDE and debugger projects.
- The instruction a Cortex-M4 may still execute after `cpsie i` and before a pending
  exception, as there is no barrier: `Os` has the exception come first.
- The writes of `SysTick_Handler` to the output register while `GPIO_Init` runs; they
  touch none of the registers `GPIO_Init` writes.
- What the compiler may reorder: `OS_Thread`, `Prio` and the two sets are not
  `volatile`. The build is `-O0`, so the statements of `OSThread_Start` and `OS_msDelay`
  are taken in the order they are written.
- A read of the counter in two loads across the change of its high word, beyond
  what section 2 says of it.
- Interrupts of peripherals: no code enables one. The table `__isr_vector` ends at
  `FPU_IRQHandler` (81), short of the last of `IRQn_Type` (96).
- Calls the repository does not make: `OSThread_Start` from a running thread,
  `OS_msDelay` from the idle thread or with interrupts masked, `Led_Blinky`.

## 6. What could follow

Every module planned is written, and every safety property the passing runs check
is proved. What is left, in order of use:

1. One module of `Os` and `Context` together. Each now takes the other's subject as
   given: `Os` that a thread goes on where it was, `Context` that the switches it is
   asked for are those of `Switches`. The second is proved of the kernel; the
   composition would state both in one theorem.
2. `OSThread_Start` and `OS_msDelay` called where the repository does not call them,
   once it does: a thread that starts another, a delay under a mask.
3. The floating-point frame, once a thread computes with such numbers.
