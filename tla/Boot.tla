-------------------------------- MODULE Boot --------------------------------
(***************************************************************************)
(* The start of the program, from the reset vector to the first statement  *)
(* of OS_Run that concerns threads: __my_startup fills the RAM sections,   *)
(* main() brings up the clock tree, SysTick and the pins, OS_Init and      *)
(* OS_OnStartup set the priorities of the two exceptions.  The oscillator, *)
(* the PLL and the clock switch answer in their own time.                  *)
(*                                                                         *)
(* Module Os starts where this one leaves SysTick running; it takes from   *)
(* here the priorities of its two exceptions.                              *)
(***************************************************************************)
EXTENDS Integers

CONSTANTS
  Bytes,                 \* the values of a byte of RAM, 0 among them
  RamSize,
  DataBegin, DataSize,   \* the .data section
  BssBegin, BssSize,     \* the .bss section
  RomData                \* the initial values of .data, in ROM

ASSUME SectionsInRam ==
  /\ 0 \in Bytes
  /\ RamSize \in Nat
  /\ DataBegin \in Nat /\ DataSize \in Nat
  /\ BssBegin \in Nat /\ BssSize \in Nat
  /\ DataBegin + DataSize <= BssBegin
  /\ BssBegin + BssSize <= RamSize
  /\ RomData \in [0 .. DataSize - 1 -> Bytes]

VARIABLES
  pc,     \* the next statement
  i,      \* the loop variable of crt_init_ram
  ram,
  rcc,    \* RCC_CR, RCC_CFGR and RCC_PLLCFGR
  acr,    \* the wait states of FLASH_ACR
  stk,    \* STK_CTRL and STK_LOAD; CLKSOURCE selects the processor clock
  shpr,   \* the priority bytes of the system handlers, by address
  gpio    \* the ports' clocks in RCC_AHB1ENR and their MODER registers

vars == <<pc, i, ram, rcc, acr, stk, shpr, gpio>>

Do(from, to) == pc = from /\ pc' = to

(***************************************************************************)
(* SysStartup.c.  In a C program the table of constructors is empty.       *)
(***************************************************************************)

\* Fault: the loop over .bss stops one byte early.
ClearBssShort ==
  \/ /\ i + 1 < BssSize
     /\ Do("bss", "bss")
     /\ ram' = [ram EXCEPT ![BssBegin + i] = 0]
     /\ i' = i + 1
     /\ UNCHANGED <<rcc, acr, stk, shpr, gpio>>
  \/ /\ i + 1 >= BssSize
     /\ Do("bss", "hsion")
     /\ UNCHANGED <<i, ram, rcc, acr, stk, shpr, gpio>>

CopyData ==
  \/ /\ i < DataSize
     /\ Do("data", "data")
     /\ ram' = [ram EXCEPT ![DataBegin + i] = RomData[i]]
     /\ i' = i + 1
     /\ UNCHANGED <<rcc, acr, stk, shpr, gpio>>
  \/ /\ i >= DataSize
     /\ Do("data", "bss")
     /\ i' = 0
     /\ UNCHANGED <<ram, rcc, acr, stk, shpr, gpio>>

ClearBss ==
  \/ /\ i < BssSize
     /\ Do("bss", "bss")
     /\ ram' = [ram EXCEPT ![BssBegin + i] = 0]
     /\ i' = i + 1
     /\ UNCHANGED <<rcc, acr, stk, shpr, gpio>>
  \/ /\ i >= BssSize
     /\ Do("bss", "hsion")
     /\ UNCHANGED <<i, ram, rcc, acr, stk, shpr, gpio>>

(***************************************************************************)
(* The clock tree, in MHz.  The board has a crystal of 8 MHz.              *)
(***************************************************************************)

CrBits == {"HSION", "HSIRDY", "HSEON", "HSERDY", "HSEBYP", "CSSON",
           "PLLON", "PLLRDY"}

ResetPll == [src |-> "HSI", m |-> 16, n |-> 192, p |-> 2]
MainPll  == [src |-> "HSE", m |-> 8, n |-> 360, p |-> 2]

SourceMHz(src) == IF src = "HSI" THEN 16 ELSE 8
PllMHz(pll)    == (SourceMHz(pll.src) * pll.n) \div (pll.m * pll.p)

SYSCLK == IF rcc.sws = "PLL" THEN PllMHz(rcc.pll) ELSE SourceMHz(rcc.sws)

\* A statement that changes the reset and clock control registers only.
Rcc(from, to, value) ==
  /\ Do(from, to)
  /\ rcc' = value
  /\ UNCHANGED <<i, ram, acr, stk, shpr, gpio>>

(***************************************************************************)
(* SystemInit.                                                             *)
(***************************************************************************)

EnableHsi == Rcc("hsion", "crmask", [rcc EXCEPT !.cr = @ \cup {"HSION"}])

\* The masks of the four bits are combined with |, which leaves every bit set.
MaskCr ==
  LET Mask == UNION {CrBits \ {b} : b \in {"HSEON", "HSEBYP", "CSSON", "PLLON"}}
  IN  Rcc("crmask", "cfgr", [rcc EXCEPT !.cr = @ \cap Mask])

ResetCfgr ==
  Rcc("cfgr", "pllcfgr", [rcc EXCEPT !.sw = "HSI", !.ppre1 = 1, !.ppre2 = 1])

ResetPllcfgr == Rcc("pllcfgr", "flash", [rcc EXCEPT !.pll = ResetPll])

\* Fault: SystemInit leaves the flash at its reset wait states.
SetLatencyNone ==
  /\ Do("flash", "hseon")
  /\ acr' = 0
  /\ UNCHANGED <<i, ram, rcc, stk, shpr, gpio>>

SetLatency ==
  /\ Do("flash", "hseon")
  /\ acr' = 5
  /\ UNCHANGED <<i, ram, rcc, stk, shpr, gpio>>

(***************************************************************************)
(* SetSysClock.                                                            *)
(***************************************************************************)

\* Fault: the bypass bit is set where the oscillator is to be enabled.
EnableHseBypass == Rcc("hseon", "hserdy", [rcc EXCEPT !.cr = @ \cup {"HSEBYP"}])

EnableHse == Rcc("hseon", "hserdy", [rcc EXCEPT !.cr = @ \cup {"HSEON"}])

WaitHse == "HSERDY" \in rcc.cr /\ Rcc("hserdy", "prescalers", rcc)

SetPrescalers ==
  Rcc("prescalers", "mainpll", [rcc EXCEPT !.ppre1 = 4, !.ppre2 = 2])

\* The PLL is configured; while it is on the hardware ignores the write.
ConfigurePll ==
  Rcc("mainpll", "pllon",
      IF "PLLON" \in rcc.cr THEN rcc ELSE [rcc EXCEPT !.pll = MainPll])

EnablePll == Rcc("pllon", "pllrdy", [rcc EXCEPT !.cr = @ \cup {"PLLON"}])

WaitPll == "PLLRDY" \in rcc.cr /\ Rcc("pllrdy", "swclear", rcc)

\* RCC_CFGR is written twice: the source goes through HSI.
ClearSw  == Rcc("swclear", "swset", [rcc EXCEPT !.sw = "HSI"])
SelectPll == Rcc("swset", "sws", [rcc EXCEPT !.sw = "PLL"])

\* Fault: SetSysClock does not wait for the clock switch.
WaitSwitchNot == Rcc("sws", "stkoff", rcc)

WaitSwitch == rcc.sws = "PLL" /\ Rcc("sws", "stkoff", rcc)

(***************************************************************************)
(* SysTick_Init.                                                           *)
(***************************************************************************)

Stk(from, to, value) ==
  /\ Do(from, to)
  /\ stk' = value
  /\ UNCHANGED <<i, ram, rcc, acr, shpr, gpio>>

SysTick_Init ==
  \/ Stk("stkoff", "load", [stk EXCEPT !.ctrl = {}])
  \/ Stk("load", "source", [stk EXCEPT !.load = 180000])
  \/ Stk("source", "tickint", [stk EXCEPT !.ctrl = {"CLKSOURCE"}])
  \/ Stk("tickint", "enable", [stk EXCEPT !.ctrl = @ \cup {"TICKINT"}])
  \/ Stk("enable", "ports", [stk EXCEPT !.ctrl = @ \cup {"ENABLE"}])

(***************************************************************************)
(* GPIO_Init.  The mode of a pin is a field of two bits: 1 is output, 2 is *)
(* the alternate function, which the pins of the debugger have at reset.   *)
(***************************************************************************)

Gpio(from, to, value) ==
  /\ Do(from, to)
  /\ gpio' = value
  /\ UNCHANGED <<i, ram, rcc, acr, stk, shpr>>

\* A port without a clock ignores the write.
Mode(port, pin, mode) ==
  IF port \in gpio.clocks THEN [gpio EXCEPT !.mode[port][pin] = mode] ELSE gpio

LowBitSet(port, pin) == 2 * (gpio.mode[port][pin] \div 2) + 1

\* Fault: only the clock of port A is enabled.
EnablePortA == Gpio("ports", "led", [gpio EXCEPT !.clocks = @ \cup {"A"}])

EnablePorts == Gpio("ports", "led", [gpio EXCEPT !.clocks = @ \cup {"A", "C"}])

ConfigureLed ==
  \/ Gpio("led", "ledhigh", Mode("A", 5, LowBitSet("A", 5)))
  \/ Gpio("ledhigh", "pc3", Mode("A", 5, gpio.mode["A"][5] % 2))

ConfigurePin(pin, from, between, to) ==
  \/ Gpio(from, between, Mode("C", pin, 0))
  \/ Gpio(between, to, Mode("C", pin, LowBitSet("C", pin)))

GPIO_Init ==
  \/ EnablePorts
  \/ ConfigureLed
  \/ ConfigurePin(3, "pc3", "pc3low", "pc2")
  \/ ConfigurePin(2, "pc2", "pc2low", "pc10")
  \/ ConfigurePin(10, "pc10", "pc10low", "pri3")

ResetMode ==
  [port \in {"A", "C"} |->
     [pin \in 0 .. 15 |-> IF port = "A" /\ pin \in 13 .. 15 THEN 2 ELSE 0]]

(***************************************************************************)
(* The priorities of PendSV and SysTick.  Addresses are offsets in the     *)
(* system control space: 3328 is 0xE000ED00, and the priority of exception *)
(* n, from 4 to 15, is the byte at 0xE000ED18 + n - 4.                     *)
(***************************************************************************)

CPUID_BASE    == 3328
ICSR_BASE     == CPUID_BASE + 4
NVIC_IPR_BASE == ICSR_BASE

SHP(n) == CPUID_BASE + 24 + n - 4

\* Fault: the offset is added to the address as the number of bytes it means.
ByBytes == CPUID_BASE + 32

\* The macro adds its offset to a uint32_t pointer, which counts words.
NVIC_SYS_PRI3_R == CPUID_BASE + 4 * 32

\* What a store leaves in the priority bytes, which keep their upper four bits.
\* Other registers of the space are not modelled, so nothing is said of what a
\* store to one of them does.  The program itself makes two stores: one to a
\* priority byte, one to 0xE000ED82, where this core has no register.
Written(address, byte) ==
  IF address \in DOMAIN shpr
    THEN [shpr EXCEPT ![address] = 16 * (byte \div 16)]
    ELSE shpr

\* The exceptions and interrupts that have a number.
IRQn_Type ==
  {-14} \cup (-12 .. -10) \cup {-5, -4, -2, -1} \cup (0 .. 60) \cup (63 .. 78)
  \cup {81, 84, 87} \cup (91 .. 96)

\* The store NVIC_SetPriority makes.  IRQn & 0xF, for the number of a system
\* exception, is (16 + IRQn) % 16.
NVIC_SetPriority(IRQn, Priority) ==
  [address |-> IF IRQn < 0 THEN CPUID_BASE + 24 + ((16 + IRQn) % 16) - 4
                           ELSE NVIC_IPR_BASE + IRQn,
   byte    |-> (Priority % 16) * 16]

\* NVIC_SYS_PRI3_R |= 0xFF << 16: the third byte of the word.
OS_Init ==
  /\ Do("pri3", "startup")
  /\ shpr' = Written(NVIC_SYS_PRI3_R + 2, 255)
  /\ UNCHANGED <<i, ram, rcc, acr, stk, gpio>>

\* SysTick_IRQn is -1.
OS_OnStartup ==
  /\ Do("startup", "run")
  /\ LET store == NVIC_SetPriority(-1, 0)
     IN  shpr' = Written(store.address, store.byte)
  /\ UNCHANGED <<i, ram, rcc, acr, stk, gpio>>

(***************************************************************************)
(* The hardware.                                                           *)
(***************************************************************************)

\* Hardware changes only the ready bits and the status of the clock switch.
Responds(value) == rcc' = value /\ UNCHANGED <<pc, i, ram, acr, stk, shpr, gpio>>

HseReady ==
  /\ "HSEON" \in rcc.cr
  /\ "HSERDY" \notin rcc.cr
  /\ Responds([rcc EXCEPT !.cr = @ \cup {"HSERDY"}])

PllReady ==
  /\ "PLLON" \in rcc.cr
  /\ "PLLRDY" \notin rcc.cr
  /\ rcc.pll.src = "HSE" => "HSERDY" \in rcc.cr
  /\ Responds([rcc EXCEPT !.cr = @ \cup {"PLLRDY"}])

\* The switch waits for the clock it is to select.
ClockSwitches ==
  /\ rcc.sws # rcc.sw
  /\ rcc.sw = "PLL" => "PLLRDY" \in rcc.cr
  /\ Responds([rcc EXCEPT !.sws = rcc.sw])

(***************************************************************************)
(* The specification: reset leaves RAM as it was.                          *)
(***************************************************************************)

Init ==
  /\ pc = "data"
  /\ i = 0
  /\ ram \in [0 .. RamSize - 1 -> Bytes]
  /\ rcc = [cr |-> {"HSION", "HSIRDY"}, sw |-> "HSI", sws |-> "HSI",
            ppre1 |-> 1, ppre2 |-> 1, pll |-> ResetPll]
  /\ acr = 0
  /\ stk = [ctrl |-> {}, load |-> 0]
  /\ shpr = [a \in SHP(4) .. SHP(15) |-> 0]
  /\ gpio = [clocks |-> {}, mode |-> ResetMode]

SystemInit == EnableHsi \/ MaskCr \/ ResetCfgr \/ ResetPllcfgr \/ SetLatency

SetSysClock ==
  \/ EnableHse
  \/ WaitHse
  \/ SetPrescalers
  \/ ConfigurePll
  \/ EnablePll
  \/ WaitPll
  \/ ClearSw
  \/ SelectPll
  \/ WaitSwitch

Program ==
  \/ CopyData
  \/ ClearBss
  \/ SystemInit
  \/ SetSysClock
  \/ SysTick_Init
  \/ GPIO_Init
  \/ OS_Init
  \/ OS_OnStartup

Next ==
  \/ Program
  \/ HseReady
  \/ PllReady
  \/ ClockSwitches

Spec == Init /\ [][Next]_vars

\* The processor runs, and the crystal, the PLL and the switch answer in time.
Fairness ==
  /\ WF_vars(Program)
  /\ WF_vars(HseReady)
  /\ WF_vars(PllReady)
  /\ WF_vars(ClockSwitches)

FairSpec == Spec /\ Fairness

(***************************************************************************)
(* Properties.                                                             *)
(***************************************************************************)

\* The byte of RAM at address a once its section has been filled.
Filled(a) ==
  IF a \in DataBegin .. DataBegin + DataSize - 1
    THEN ram[a] = RomData[a - DataBegin]
    ELSE a \in BssBegin .. BssBegin + BssSize - 1 => ram[a] = 0

\* When main() starts, every variable has the value the C program gives it,
\* whatever was in RAM before the reset (SysStartup.c:71-89).
RamReady ==
  pc \notin {"data", "bss"} => \A a \in 0 .. RamSize - 1 : Filled(a)

\* Whenever the switch takes place, the wait states and the prescalers that
\* SetSysClock's comments give the final clock are there before it: the flash
\* (30 MHz per access cycle) is never too slow for SYSCLK, which is never above
\* 180 MHz, and PCLK1 and PCLK2 never above a quarter and a half of that
\* (Mcu.c:37-92).  This is the order of the writes, not the limits of the part:
\* those are 168, 42 and 84 MHz without over-drive, which the code never enables.
ClocksInOrder ==
  /\ SYSCLK <= 180
  /\ SYSCLK <= 30 * (acr + 1)
  /\ SYSCLK <= 45 * rcc.ppre1
  /\ SYSCLK <= 90 * rcc.ppre2

\* The cycles of a period of SysTick: the counter also passes through zero.
TickCycles == stk.load + 1

\* SysTick only counts once the clock it counts has its final frequency, and
\* from its first period on it is within one cycle of the millisecond of that
\* clock Mcu.c:98 speaks of (Mcu.c:104-125): the code loads 180000, which makes
\* 180001 cycles.
TickNearMillisecond ==
  "ENABLE" \in stk.ctrl =>
    /\ "CLKSOURCE" \in stk.ctrl
    /\ SYSCLK = PllMHz(MainPll)
    /\ TickCycles \in 1000 * SYSCLK - 1 .. 1000 * SYSCLK + 1

\* When OS_Init is called the pins the threads and the tick drive are outputs,
\* and every other pin, those of the debugger among them, is what it was after
\* reset (Gpio.c:32-52).
PinsConfigured ==
  pc \in {"pri3", "startup", "run"} =>
    \A port \in {"A", "C"}, pin \in 0 .. 15 :
      gpio.mode[port][pin] =
        IF <<port, pin>> \in {<<"A", 5>>, <<"C", 2>>, <<"C", 3>>, <<"C", 10>>}
          THEN 1 ELSE ResetMode[port][pin]

\* SysTick never preempts a pending PendSV: a switch that has been requested is
\* taken before the next tick is served.  Module Os rests on this order, which
\* is due to where NVIC_SYS_PRI3_R points (Os.c:71, Mcu.h:133, Os.c:219-223).
PendSVNotAfterSysTick == shpr[SHP(14)] <= shpr[SHP(15)]

\* The program gets to its threads: no wait of SetSysClock lasts for ever if
\* the oscillator starts (Mcu.c:55-92).
BootCompletes == <>(pc = "run")

(***************************************************************************)
(* What the repository says of the start and the code does not do.         *)
(***************************************************************************)

\* "set the PendSV interrupt priority to the lowest level 0xFF" (Os.c:70): the
\* lowest level there is has its four implemented bits set.
PendSVLowest == pc \in {"startup", "run"} => shpr[SHP(14)] = 240

\* "Configure systick timer to generate half second delay" (App.c:63).
HalfSecondTick == "ENABLE" \in stk.ctrl => TickCycles = 500000 * SYSCLK
=============================================================================
