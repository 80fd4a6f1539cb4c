----------------------------- MODULE BootProofs -----------------------------
(***************************************************************************)
(* Proofs about module Boot: for sections of any size and place in RAM,    *)
(* crt_init_ram gives every variable its initial value, and PendSV is not  *)
(* less urgent than SysTick.                                               *)
(***************************************************************************)
EXTENDS Boot, TLAPS

DataFilled(n) == \A k \in 0 .. n - 1 : ram[DataBegin + k] = RomData[k]
BssFilled(n)  == \A k \in 0 .. n - 1 : ram[BssBegin + k] = 0

\* The invariant of the two loops of crt_init_ram.
RamInv ==
  /\ ram \in [0 .. RamSize - 1 -> Bytes]
  /\ i \in Nat
  /\ pc = "data" => i <= DataSize /\ DataFilled(i)
  /\ pc = "bss"  => i <= BssSize /\ DataFilled(DataSize) /\ BssFilled(i)
  /\ pc \notin {"data", "bss"} => DataFilled(DataSize) /\ BssFilled(BssSize)

\* A step outside the loops touches neither RAM nor their variable.
LEMMA OutsideLoops ==
  ASSUME Next, ~CopyData, ~ClearBss
  PROVE  /\ UNCHANGED <<i, ram>>
         /\ pc' # pc => pc \notin {"data", "bss"} /\ pc' \notin {"data", "bss"}
<1>1. CASE SystemInit
  BY <1>1 DEF SystemInit, EnableHsi, MaskCr, ResetCfgr, ResetPllcfgr, SetLatency,
              Rcc, Do
<1>2. CASE SetSysClock
  BY <1>2 DEF SetSysClock, EnableHse, WaitHse, SetPrescalers, ConfigurePll,
              EnablePll, WaitPll, ClearSw, SelectPll, WaitSwitch, Rcc, Do
<1>3. CASE SysTick_Init
  BY <1>3 DEF SysTick_Init, Stk, Do
<1>4. CASE OS_Init \/ OS_OnStartup
  BY <1>4 DEF OS_Init, OS_OnStartup, Do
<1>5. CASE GPIO_Init
  BY <1>5 DEF GPIO_Init, EnablePorts, ConfigureLed, ConfigurePin, Gpio, Do
<1>6. CASE HseReady \/ PllReady \/ ClockSwitches
  BY <1>6 DEF HseReady, PllReady, ClockSwitches, Responds
<1> QED
  BY <1>1, <1>2, <1>3, <1>4, <1>5, <1>6 DEF Next, Program

LEMMA RamStep == RamInv /\ [Next]_vars => RamInv'
<1> SUFFICES ASSUME RamInv, [Next]_vars PROVE RamInv'
  OBVIOUS
<1> USE SectionsInRam
<1>1. CASE CopyData
  <2>1. CASE i < DataSize /\ Do("data", "data")
    <3>1. /\ ram' = [ram EXCEPT ![DataBegin + i] = RomData[i]]
          /\ i' = i + 1
          /\ pc = "data" /\ pc' = "data"
      BY <1>1, <2>1 DEF CopyData, Do
    <3>2. DataBegin + i \in 0 .. RamSize - 1 /\ RomData[i] \in Bytes
      BY <2>1, <3>1 DEF RamInv
    <3>3. DataFilled(i)'
      BY <3>1, <3>2 DEF RamInv, DataFilled
    <3> QED
      BY <2>1, <3>1, <3>2, <3>3 DEF RamInv
  <2>2. CASE ~(i < DataSize /\ Do("data", "data"))
    <3>1. pc = "data" /\ pc' = "bss" /\ i >= DataSize /\ i' = 0 /\ ram' = ram
      BY <1>1, <2>2 DEF CopyData, Do
    <3> QED
      BY <3>1 DEF RamInv, DataFilled, BssFilled
  <2> QED
    BY <2>1, <2>2
<1>2. CASE ClearBss
  <2>1. CASE i < BssSize /\ Do("bss", "bss")
    <3>1. /\ ram' = [ram EXCEPT ![BssBegin + i] = 0]
          /\ i' = i + 1
          /\ pc = "bss" /\ pc' = "bss"
      BY <1>2, <2>1 DEF ClearBss, Do
    <3>2. BssBegin + i \in 0 .. RamSize - 1
      BY <2>1, <3>1 DEF RamInv
    <3>3. DataFilled(DataSize)'
      <4> SUFFICES ASSUME NEW k \in 0 .. DataSize - 1
                   PROVE  ram'[DataBegin + k] = RomData[k]
        BY DEF DataFilled
      <4>1. ram[DataBegin + k] = RomData[k]
        BY <3>1 DEF RamInv, DataFilled
      <4>2. DataBegin + k # BssBegin + i
        BY DEF RamInv
      <4> QED
        BY <3>1, <3>2, <4>1, <4>2 DEF RamInv
    <3>4. BssFilled(i)'
      BY <3>1, <3>2 DEF RamInv, BssFilled
    <3> QED
      BY <2>1, <3>1, <3>2, <3>3, <3>4 DEF RamInv, BssFilled
  <2>2. CASE ~(i < BssSize /\ Do("bss", "bss"))
    <3>1. pc = "bss" /\ pc' = "hsion" /\ i >= BssSize /\ i' = i /\ ram' = ram
      BY <1>2, <2>2 DEF ClearBss, Do
    <3>2. i = BssSize
      BY <3>1 DEF RamInv
    <3> QED
      BY <3>1, <3>2 DEF RamInv, DataFilled, BssFilled
  <2> QED
    BY <2>1, <2>2
<1>3. CASE Next /\ ~CopyData /\ ~ClearBss
  BY <1>3, OutsideLoops DEF RamInv, DataFilled, BssFilled
<1>4. CASE UNCHANGED vars
  BY <1>4 DEF RamInv, DataFilled, BssFilled, vars
<1> QED
  BY <1>1, <1>2, <1>3, <1>4

\* Wherever the sections lie and however long they are, main() finds every
\* variable initialised (SysStartup.c:71-89).
THEOREM RamReadyAlways == Spec => []RamReady
<1>1. Init => RamInv
  BY SectionsInRam DEF Init, RamInv, DataFilled
<1>2. RamInv => RamReady
  <2> SUFFICES ASSUME RamInv, pc \notin {"data", "bss"},
                      NEW a \in 0 .. RamSize - 1
               PROVE  Filled(a)
    BY DEF RamReady
  <2>1. CASE a \in DataBegin .. DataBegin + DataSize - 1
    <3>1. a - DataBegin \in 0 .. DataSize - 1 /\ DataBegin + (a - DataBegin) = a
      BY <2>1, SectionsInRam
    <3> QED
      BY <2>1, <3>1 DEF RamInv, DataFilled, Filled
  <2>2. CASE /\ a \notin DataBegin .. DataBegin + DataSize - 1
             /\ a \in BssBegin .. BssBegin + BssSize - 1
    <3>1. a - BssBegin \in 0 .. BssSize - 1 /\ BssBegin + (a - BssBegin) = a
      BY <2>2, SectionsInRam
    <3> QED
      BY <2>2, <3>1 DEF RamInv, BssFilled, Filled
  <2> QED
    BY <2>1, <2>2 DEF Filled
<1> QED
  BY <1>1, <1>2, RamStep, PTL DEF Spec

\* No statement of the start ever writes PendSV's priority: the word OS_Init
\* writes lies beyond the priority bytes, and OS_OnStartup writes SysTick's.
PriorityInv == shpr = [a \in SHP(4) .. SHP(15) |-> 0]

LEMMA PriorityStep == PriorityInv /\ [Next]_vars => PriorityInv'
<1> SUFFICES ASSUME PriorityInv, [Next]_vars PROVE PriorityInv'
  OBVIOUS
<1>1. CASE OS_Init
  <2>1. NVIC_SYS_PRI3_R + 2 \notin DOMAIN shpr
    BY DEF PriorityInv, NVIC_SYS_PRI3_R, CPUID_BASE, SHP
  <2> QED
    BY <1>1, <2>1 DEF OS_Init, Written, PriorityInv
<1>2. CASE OS_OnStartup
  <2>1. -1 < 0 /\ (16 + (-1)) % 16 = 15 /\ (0 % 16) * 16 = 0 /\ 16 * (0 \div 16) = 0
    OBVIOUS
  <2>0. NVIC_SetPriority(-1, 0) = [address |-> CPUID_BASE + 24 + 15 - 4, byte |-> 0]
    BY <2>1, Zenon DEF NVIC_SetPriority
  <2>2. shpr' = Written(CPUID_BASE + 24 + 15 - 4, 0)
    BY <1>2, <2>0 DEF OS_OnStartup
  <2>3. shpr' = shpr \/ shpr' = [shpr EXCEPT ![CPUID_BASE + 24 + 15 - 4] = 0]
    BY <2>1, <2>2, Zenon DEF Written
  <2> QED
    BY <2>3 DEF PriorityInv
<1>3. CASE UNCHANGED shpr
  BY <1>3 DEF PriorityInv
<1>4. Next => OS_Init \/ OS_OnStartup \/ UNCHANGED shpr
  <2>1. SystemInit => UNCHANGED shpr
    BY DEF SystemInit, EnableHsi, MaskCr, ResetCfgr, ResetPllcfgr, SetLatency, Rcc
  <2>2. SetSysClock => UNCHANGED shpr
    BY DEF SetSysClock, EnableHse, WaitHse, SetPrescalers, ConfigurePll, EnablePll,
           WaitPll, ClearSw, SelectPll, WaitSwitch, Rcc
  <2>3. CopyData \/ ClearBss \/ SysTick_Init \/ GPIO_Init => UNCHANGED shpr
    BY DEF CopyData, ClearBss, SysTick_Init, Stk,
           GPIO_Init, EnablePorts, ConfigureLed, ConfigurePin, Gpio
  <2>4. HseReady \/ PllReady \/ ClockSwitches => UNCHANGED shpr
    BY DEF HseReady, PllReady, ClockSwitches, Responds
  <2> QED
    BY <2>1, <2>2, <2>3, <2>4 DEF Next, Program
<1> QED
  BY <1>1, <1>2, <1>3, <1>4 DEF vars

\* PendSV and SysTick keep the priority they have after reset, so PendSV is
\* never the less urgent one (Os.c:71, Mcu.h:133, Mcu.c:138-156).
THEOREM PendSVOrderAlways == Spec => []PendSVNotAfterSysTick
<1>1. Init => PriorityInv
  BY DEF Init, PriorityInv
<1>2. PriorityInv => PendSVNotAfterSysTick
  BY DEF PriorityInv, PendSVNotAfterSysTick, SHP, CPUID_BASE
<1> QED
  BY <1>1, <1>2, PriorityStep, PTL DEF Spec

(***************************************************************************)
(* The clock tree.  The places of the program, in the order of the start.  *)
(***************************************************************************)

BeforeFlash == {"data", "bss", "hsion", "crmask", "cfgr", "pllcfgr", "flash"}
OnHsi       == {"hseon", "hserdy", "prescalers"}
PllSet      == {"pllon", "pllrdy", "swclear", "swset"}
SysTickOff  == {"stkoff", "load", "source", "tickint", "enable"}
Pins        == {"ports", "led", "ledhigh", "pc3", "pc3low", "pc2", "pc2low",
                "pc10", "pc10low"}
Last        == {"pri3", "startup", "run"}

Places ==
  BeforeFlash \cup OnHsi \cup {"mainpll"} \cup PllSet \cup {"sws"}
  \cup SysTickOff \cup Pins \cup Last

\* The switch may only be taken where the wait states and the prescalers are
\* those of the final clock and the PLL has its final factors.
ClockInv ==
  /\ pc \in Places
  /\ rcc \in [cr : SUBSET CrBits, sw : {"HSI", "PLL"}, sws : {"HSI", "PLL"},
              ppre1 : {1, 4}, ppre2 : {1, 2}, pll : {ResetPll, MainPll}]
  /\ acr \in {0, 5}
  /\ pc \notin BeforeFlash => acr = 5
  /\ pc \in BeforeFlash \cup OnHsi \cup {"mainpll"} => "PLLON" \notin rcc.cr
  /\ pc \notin BeforeFlash \cup OnHsi => rcc.ppre1 = 4 /\ rcc.ppre2 = 2
  /\ pc \notin BeforeFlash \cup OnHsi \cup {"mainpll"} => rcc.pll = MainPll
  /\ pc \in BeforeFlash \cup OnHsi \cup {"mainpll"} \cup PllSet
       => rcc.sw = "HSI" /\ rcc.sws = "HSI"
  /\ pc \in {"sws"} \cup SysTickOff \cup Pins \cup Last => rcc.sw = "PLL"
  /\ pc \in SysTickOff \cup Pins \cup Last => rcc.sws = "PLL"

\* SysTick is enabled last, with its source and its reload value in place.
StkInv ==
  /\ stk \in [ctrl : SUBSET {"CLKSOURCE", "TICKINT", "ENABLE"}, load : Nat]
  /\ "ENABLE" \in stk.ctrl => pc \in Pins \cup Last
  /\ pc = "source" => stk.load = 180000
  /\ pc \in {"tickint", "enable"} \cup Pins \cup Last
       => stk.load = 180000 /\ "CLKSOURCE" \in stk.ctrl

LEMMA ClockStep == ClockInv /\ [Next]_vars => ClockInv'
<1> SUFFICES ASSUME ClockInv, [Next]_vars PROVE ClockInv'
  OBVIOUS
<1> USE DEF ClockInv, Places, BeforeFlash, OnHsi, PllSet, SysTickOff, Pins, Last
<1>1. CASE CopyData \/ ClearBss
  BY <1>1 DEF CopyData, ClearBss, Do
<1>2. CASE SystemInit
  <2>1. CASE EnableHsi \/ MaskCr
    <3>1. PICK cr \in SUBSET CrBits : /\ rcc' = [rcc EXCEPT !.cr = cr]
                                      /\ "PLLON" \notin cr
                                      /\ acr' = acr
                                      /\ pc \in BeforeFlash
                                      /\ pc' \in BeforeFlash
      BY <2>1 DEF EnableHsi, MaskCr, Rcc, Do, CrBits
    <3> QED
      BY <3>1
  <2>2. CASE ResetCfgr
    BY <2>2 DEF ResetCfgr, Rcc, Do
  <2>3. CASE ResetPllcfgr
    BY <2>3 DEF ResetPllcfgr, Rcc, Do
  <2>4. CASE SetLatency
    BY <2>4 DEF SetLatency, Do
  <2> HIDE DEF ClockInv, Places, BeforeFlash, OnHsi, PllSet, SysTickOff, Pins, Last
  <2> QED
    BY <1>2, <2>1, <2>2, <2>3, <2>4 DEF SystemInit
<1>3. CASE SetSysClock
  <2>1. CASE EnableHse
    BY <2>1 DEF EnableHse, Rcc, Do, CrBits
  <2>2. CASE WaitHse \/ WaitPll \/ WaitSwitch
    BY <2>2 DEF WaitHse, WaitPll, WaitSwitch, Rcc, Do
  <2>3. CASE SetPrescalers
    BY <2>3 DEF SetPrescalers, Rcc, Do
  <2>4. CASE ConfigurePll
    BY <2>4 DEF ConfigurePll, Rcc, Do
  <2>5. CASE EnablePll
    BY <2>5 DEF EnablePll, Rcc, Do, CrBits
  <2>6. CASE ClearSw \/ SelectPll
    BY <2>6 DEF ClearSw, SelectPll, Rcc, Do
  <2> HIDE DEF ClockInv, Places, BeforeFlash, OnHsi, PllSet, SysTickOff, Pins, Last
  <2> QED
    BY <1>3, <2>1, <2>2, <2>3, <2>4, <2>5, <2>6 DEF SetSysClock
<1>4. CASE SysTick_Init
  BY <1>4 DEF SysTick_Init, Stk, Do
<1>5. CASE GPIO_Init
  BY <1>5 DEF GPIO_Init, EnablePorts, ConfigureLed, ConfigurePin, Gpio, Do
<1>6. CASE OS_Init \/ OS_OnStartup
  BY <1>6 DEF OS_Init, OS_OnStartup, Do
<1>7. CASE HseReady \/ PllReady \/ ClockSwitches
  BY <1>7 DEF HseReady, PllReady, ClockSwitches, Responds, CrBits
<1>8. CASE UNCHANGED vars
  BY <1>8 DEF vars
<1> HIDE DEF ClockInv, Places, BeforeFlash, OnHsi, PllSet, SysTickOff, Pins, Last
<1> QED
  BY <1>1, <1>2, <1>3, <1>4, <1>5, <1>6, <1>7, <1>8 DEF Next, Program

LEMMA ClockInit == Init => ClockInv /\ StkInv
BY DEF Init, ClockInv, StkInv, Places, BeforeFlash, CrBits, OnHsi, PllSet,
       SysTickOff, Pins, Last

\* The frequency of the PLL once it is configured.
LEMMA MainPllIs180 == PllMHz(MainPll) = 180
<1>1. (8 * 360) \div (8 * 2) = 180
  OBVIOUS
<1> QED
  BY <1>1 DEF PllMHz, MainPll, SourceMHz

LEMMA InOrder == ClockInv => ClocksInOrder
<1> SUFFICES ASSUME ClockInv PROVE ClocksInOrder
  OBVIOUS
<1> USE DEF ClockInv, Places, BeforeFlash, OnHsi, PllSet, SysTickOff, Pins, Last
<1>1. CASE rcc.sws = "HSI"
  BY <1>1 DEF ClocksInOrder, SYSCLK, SourceMHz
<1>2. CASE rcc.sws = "PLL"
  <2>1. acr = 5 /\ rcc.ppre1 = 4 /\ rcc.ppre2 = 2 /\ rcc.pll = MainPll
    BY <1>2
  <2> QED
    BY <1>2, <2>1, MainPllIs180 DEF ClocksInOrder, SYSCLK
<1> QED
  BY <1>1, <1>2

\* Whenever the oscillator, the PLL and the clock switch answer, the wait states
\* and the prescalers of the final clock are in force before it is selected
\* (Mcu.c:37-92).  Nothing is claimed of the part's own limits.
THEOREM ClocksInOrderAlways == Spec => []ClocksInOrder
BY ClockInit, ClockStep, InOrder, PTL DEF Spec

LEMMA StkStep == ClockInv /\ StkInv /\ [Next]_vars => StkInv'
<1> SUFFICES ASSUME ClockInv, StkInv, [Next]_vars PROVE StkInv'
  OBVIOUS
<1> USE DEF StkInv, Pins, Last
<1>1. CASE SystemInit
  BY <1>1 DEF SystemInit, EnableHsi, MaskCr, ResetCfgr, ResetPllcfgr, SetLatency,
              Rcc, Do
<1>2. CASE SetSysClock
  BY <1>2 DEF SetSysClock, EnableHse, WaitHse, SetPrescalers, ConfigurePll,
              EnablePll, WaitPll, ClearSw, SelectPll, WaitSwitch, Rcc, Do
<1>3. CASE SysTick_Init
  <2>1. CASE Stk("stkoff", "load", [stk EXCEPT !.ctrl = {}])
    BY <2>1 DEF Stk, Do
  <2>2. CASE Stk("load", "source", [stk EXCEPT !.load = 180000])
    BY <2>2 DEF Stk, Do
  <2>3. CASE Stk("source", "tickint", [stk EXCEPT !.ctrl = {"CLKSOURCE"}])
    BY <2>3 DEF Stk, Do
  <2>4. CASE Stk("tickint", "enable", [stk EXCEPT !.ctrl = @ \cup {"TICKINT"}])
    BY <2>4 DEF Stk, Do
  <2>5. CASE Stk("enable", "ports", [stk EXCEPT !.ctrl = @ \cup {"ENABLE"}])
    BY <2>5 DEF Stk, Do
  <2> HIDE DEF StkInv, Pins, Last
  <2> QED
    BY <1>3, <2>1, <2>2, <2>3, <2>4, <2>5 DEF SysTick_Init
<1>4. CASE GPIO_Init
  BY <1>4 DEF GPIO_Init, EnablePorts, ConfigureLed, ConfigurePin, Gpio, Do
<1>5. CASE OS_Init \/ OS_OnStartup \/ CopyData \/ ClearBss
  BY <1>5 DEF OS_Init, OS_OnStartup, CopyData, ClearBss, Do
<1>6. CASE HseReady \/ PllReady \/ ClockSwitches
  BY <1>6 DEF HseReady, PllReady, ClockSwitches, Responds
<1>7. CASE UNCHANGED vars
  BY <1>7 DEF vars
<1> HIDE DEF StkInv, Pins, Last
<1> QED
  BY <1>1, <1>2, <1>3, <1>4, <1>5, <1>6, <1>7 DEF Next, Program

\* SysTick is never enabled before the final clock is selected, and its period
\* is then within one cycle of a millisecond (Mcu.c:104-125).
THEOREM TickNearMillisecondAlways == Spec => []TickNearMillisecond
<1>1. ClockInv /\ StkInv => TickNearMillisecond
  <2> SUFFICES ASSUME ClockInv, StkInv, "ENABLE" \in stk.ctrl
               PROVE  /\ "CLKSOURCE" \in stk.ctrl
                      /\ SYSCLK = PllMHz(MainPll)
                      /\ TickCycles \in 1000 * SYSCLK - 1 .. 1000 * SYSCLK + 1
    BY DEF TickNearMillisecond
  <2>1. pc \in Pins \cup Last /\ stk.load = 180000 /\ "CLKSOURCE" \in stk.ctrl
    BY DEF StkInv
  <2>2. rcc.sws = "PLL" /\ rcc.pll = MainPll
    BY <2>1 DEF ClockInv, Places, BeforeFlash, OnHsi, PllSet, SysTickOff, Pins, Last
  <2>3. SYSCLK = PllMHz(MainPll) /\ SYSCLK = 180
    BY <2>2, MainPllIs180 DEF SYSCLK
  <2> QED
    BY <2>1, <2>3 DEF TickCycles
<1> QED
  BY <1>1, ClockInit, ClockStep, StkStep, PTL DEF Spec

(***************************************************************************)
(* The pins.                                                               *)
(***************************************************************************)

\* The pins GPIO_Init has made outputs when it is at place.
OutputAt(place, port, pin) ==
  \/ port = "A" /\ pin = 5 /\ place # "led"
  \/ port = "C" /\ pin = 3 /\ place \notin {"led", "ledhigh", "pc3", "pc3low"}
  \/ /\ port = "C" /\ pin = 2
     /\ place \notin {"led", "ledhigh", "pc3", "pc3low", "pc2", "pc2low"}
  \/ port = "C" /\ pin = 10 /\ place \in Last

ModeAt(place, port, pin) ==
  IF OutputAt(place, port, pin) THEN 1 ELSE ResetMode[port][pin]

PinsInv ==
  /\ gpio \in [clocks : SUBSET {"A", "C"},
               mode : [{"A", "C"} -> [0 .. 15 -> 0 .. 3]]]
  /\ pc \notin (Pins \cup Last) \ {"ports"} => gpio.mode = ResetMode
  /\ pc \in (Pins \cup Last) \ {"ports"} =>
       /\ gpio.clocks = {"A", "C"}
       /\ \A port \in {"A", "C"}, pin \in 0 .. 15 :
            gpio.mode[port][pin] = ModeAt(pc, port, pin)

LEMMA PinsStep == PinsInv /\ [Next]_vars => PinsInv'
<1> SUFFICES ASSUME PinsInv, [Next]_vars PROVE PinsInv'
  OBVIOUS
<1>1. CASE UNCHANGED gpio /\ {pc, pc'} \cap ((Pins \cup Last) \ {"ports"}) = {}
  BY <1>1 DEF PinsInv
<1>2. CASE UNCHANGED gpio /\ (pc' = pc \/ {pc, pc'} \subseteq Last)
  <2>1. \A port, pin : ModeAt(pc', port, pin) = ModeAt(pc, port, pin)
    BY <1>2 DEF ModeAt, OutputAt, Last
  <2>2. pc' \in (Pins \cup Last) \ {"ports"} <=> pc \in (Pins \cup Last) \ {"ports"}
    BY <1>2 DEF Last
  <2> QED
    BY <1>2, <2>1, <2>2 DEF PinsInv
<1>3. CASE EnablePorts
  <2>1. /\ pc = "ports" /\ pc' = "led"
        /\ gpio' = [gpio EXCEPT !.clocks = @ \cup {"A", "C"}]
    BY <1>3 DEF EnablePorts, Gpio, Do
  <2>2. gpio'.clocks = {"A", "C"} /\ gpio'.mode = ResetMode
    BY <2>1 DEF PinsInv
  <2>3. \A port \in {"A", "C"}, pin \in 0 .. 15 :
          gpio'.mode[port][pin] = ModeAt(pc', port, pin)
    BY <2>1, <2>2 DEF ModeAt, OutputAt, ResetMode, Last
  <2> QED
    BY <2>1, <2>2, <2>3 DEF PinsInv, Pins
<1>4. ASSUME NEW port \in {"A", "C"}, NEW pin \in 0 .. 15, NEW mode \in 0 .. 3,
             pc \in Pins \ {"ports"},
             pc' \in (Pins \cup Last) \ {"ports"},
             gpio' = Mode(port, pin, mode),
             \A p \in {"A", "C"}, k \in 0 .. 15 :
               ModeAt(pc', p, k) =
                 IF p = port /\ k = pin THEN mode ELSE ModeAt(pc, p, k)
      PROVE  PinsInv'
  <2>1. gpio \in [clocks : SUBSET {"A", "C"},
                 mode : [{"A", "C"} -> [0 .. 15 -> 0 .. 3]]]
    BY DEF PinsInv
  <2>2. pc \in (Pins \cup Last) \ {"ports"}
    BY <1>4
  <2>3. gpio.clocks = {"A", "C"}
    BY <2>2 DEF PinsInv
  <2>4. /\ gpio' \in [clocks : SUBSET {"A", "C"},
                     mode : [{"A", "C"} -> [0 .. 15 -> 0 .. 3]]]
        /\ gpio'.clocks = {"A", "C"}
        /\ \A p \in {"A", "C"}, k \in 0 .. 15 :
             gpio'.mode[p][k] =
               IF p = port /\ k = pin THEN mode ELSE gpio.mode[p][k]
    <3>1. port \in gpio.clocks
      BY <2>3
    <3>2. gpio' = Mode(port, pin, mode)
      BY <1>4
    <3> DEFINE new ==
          [gpio.mode EXCEPT ![port] = [gpio.mode[port] EXCEPT ![pin] = mode]]
    <3>3. gpio' = [gpio EXCEPT !.mode = new]
      BY <3>1, <3>2 DEF Mode
    <3>4. /\ new \in [{"A", "C"} -> [0 .. 15 -> 0 .. 3]]
          /\ \A p \in {"A", "C"}, k \in 0 .. 15 :
               new[p][k] = IF p = port /\ k = pin THEN mode ELSE gpio.mode[p][k]
      BY <2>1
    <3> HIDE DEF new
    <3>5. gpio'.mode = new /\ gpio'.clocks = gpio.clocks
      BY <2>1, <3>3
    <3> QED
      BY <2>1, <2>3, <3>3, <3>4, <3>5
  <2>5. \A p \in {"A", "C"}, k \in 0 .. 15 :
          gpio.mode[p][k] = ModeAt(pc, p, k)
    BY <2>2 DEF PinsInv
  <2>6. \A p \in {"A", "C"}, k \in 0 .. 15 :
          gpio'.mode[p][k] = ModeAt(pc', p, k)
    <3> TAKE p \in {"A", "C"}, k \in 0 .. 15
    <3>1. gpio'.mode[p][k] = IF p = port /\ k = pin THEN mode ELSE gpio.mode[p][k]
      BY <2>4
    <3>2. gpio.mode[p][k] = ModeAt(pc, p, k)
      BY <2>5
    <3>3. ModeAt(pc', p, k) = IF p = port /\ k = pin THEN mode ELSE ModeAt(pc, p, k)
      BY <1>4
    <3> QED
      BY <3>1, <3>2, <3>3
  <2> QED
    BY <1>4, <2>4, <2>6 DEF PinsInv
<1>5. CASE ConfigureLed
  <2>0. ASSUME pc \in (Pins \cup Last) \ {"ports"}
        PROVE  gpio.mode["A"][5] = ModeAt(pc, "A", 5)
    BY <2>0 DEF PinsInv
  <2>1. LowBitSet("A", 5) = 1 \/ pc # "led"
    <3> SUFFICES ASSUME pc = "led" PROVE LowBitSet("A", 5) = 1
      OBVIOUS
    <3>1. gpio.mode["A"][5] = 0
      BY <2>0 DEF ModeAt, OutputAt, ResetMode, Pins, Last
    <3> QED
      BY <3>1 DEF LowBitSet
  <2>2. gpio.mode["A"][5] % 2 = 1 \/ pc # "ledhigh"
    <3> SUFFICES ASSUME pc = "ledhigh" PROVE gpio.mode["A"][5] % 2 = 1
      OBVIOUS
    <3>1. gpio.mode["A"][5] = 1
      BY <2>0 DEF ModeAt, OutputAt, Pins
    <3> QED
      BY <3>1
  <2>3. CASE Gpio("led", "ledhigh", Mode("A", 5, LowBitSet("A", 5)))
    <3>1. pc = "led" /\ pc' = "ledhigh" /\ gpio' = Mode("A", 5, 1)
      BY <2>1, <2>3 DEF Gpio, Do
    <3>2. \A p \in {"A", "C"}, k \in 0 .. 15 :
            ModeAt(pc', p, k) = IF p = "A" /\ k = 5 THEN 1 ELSE ModeAt(pc, p, k)
      BY <3>1 DEF ModeAt, OutputAt, Last
    <3> QED
      BY <3>1, <3>2, <1>4 DEF Pins
  <2>4. CASE Gpio("ledhigh", "pc3", Mode("A", 5, gpio.mode["A"][5] % 2))
    <3>1. pc = "ledhigh" /\ pc' = "pc3" /\ gpio' = Mode("A", 5, 1)
      BY <2>2, <2>4 DEF Gpio, Do
    <3>2. \A p \in {"A", "C"}, k \in 0 .. 15 :
            ModeAt(pc', p, k) = IF p = "A" /\ k = 5 THEN 1 ELSE ModeAt(pc, p, k)
      BY <3>1 DEF ModeAt, OutputAt, Last
    <3> QED
      BY <3>1, <3>2, <1>4 DEF Pins
  <2> QED
    BY <1>5, <2>3, <2>4 DEF ConfigureLed
<1>6. ASSUME NEW pin \in {2, 3, 10}, NEW from \in Pins, NEW between \in Pins,
             NEW to \in Pins \cup Last, "ports" \notin {from, between, to},
             ConfigurePin(pin, from, between, to),
             pc \in {from, between} => ModeAt(pc, "C", pin) = 0,
             \A p \in {"A", "C"}, k \in 0 .. 15 :
               /\ pc = from /\ pc' = between => ModeAt(pc', p, k) = ModeAt(pc, p, k)
               /\ pc = between /\ pc' = to =>
                    ModeAt(pc', p, k) =
                      IF p = "C" /\ k = pin THEN 1 ELSE ModeAt(pc, p, k)
      PROVE  PinsInv'
  <2>1. CASE Gpio(from, between, Mode("C", pin, 0))
    <3>1. pc = from /\ pc' = between /\ gpio' = Mode("C", pin, 0)
      BY <2>1 DEF Gpio, Do
    <3>2. ModeAt(pc, "C", pin) = 0
      BY <1>6, <3>1
    <3>3. \A p \in {"A", "C"}, k \in 0 .. 15 :
            ModeAt(pc', p, k) = IF p = "C" /\ k = pin THEN 0 ELSE ModeAt(pc, p, k)
      BY <1>6, <3>1, <3>2
    <3> QED
      BY <1>6, <3>1, <3>3, <1>4
  <2>2. CASE Gpio(between, to, Mode("C", pin, LowBitSet("C", pin)))
    <3>1. pc = between /\ pc' = to /\ gpio' = Mode("C", pin, LowBitSet("C", pin))
      BY <2>2 DEF Gpio, Do
    <3>2. gpio.mode["C"][pin] = 0
      BY <1>6, <3>1 DEF PinsInv
    <3>3. LowBitSet("C", pin) = 1
      BY <3>2 DEF LowBitSet
    <3>4. gpio' = Mode("C", pin, 1)
      BY <3>1, <3>3
    <3> QED
      BY <1>6, <3>1, <3>4, <1>4
  <2> QED
    BY <1>6, <2>1, <2>2 DEF ConfigurePin
<1>7. CASE ConfigurePin(3, "pc3", "pc3low", "pc2")
  <2>1. pc \in {"pc3", "pc3low"} => ModeAt(pc, "C", 3) = 0
    BY DEF ModeAt, OutputAt, ResetMode, Last
  <2>2. ASSUME NEW p \in {"A", "C"}, NEW k \in 0 .. 15
        PROVE  /\ pc = "pc3" /\ pc' = "pc3low" => ModeAt(pc', p, k) = ModeAt(pc, p, k)
               /\ pc = "pc3low" /\ pc' = "pc2" =>
                    ModeAt(pc', p, k) =
                      IF p = "C" /\ k = 3 THEN 1 ELSE ModeAt(pc, p, k)
    BY DEF ModeAt, OutputAt, Last
  <2>3. /\ 3 \in {2, 3, 10} /\ "pc3" \in Pins /\ "pc3low" \in Pins
        /\ "pc2" \in Pins \cup Last /\ "ports" \notin {"pc3", "pc3low", "pc2"}
    BY DEF Pins, Last
  <2> QED
    BY <1>6, <1>7, <2>1, <2>2, <2>3
<1>8. CASE ConfigurePin(2, "pc2", "pc2low", "pc10")
  <2>1. pc \in {"pc2", "pc2low"} => ModeAt(pc, "C", 2) = 0
    BY DEF ModeAt, OutputAt, ResetMode, Last
  <2>2. ASSUME NEW p \in {"A", "C"}, NEW k \in 0 .. 15
        PROVE  /\ pc = "pc2" /\ pc' = "pc2low" => ModeAt(pc', p, k) = ModeAt(pc, p, k)
               /\ pc = "pc2low" /\ pc' = "pc10" =>
                    ModeAt(pc', p, k) =
                      IF p = "C" /\ k = 2 THEN 1 ELSE ModeAt(pc, p, k)
    BY DEF ModeAt, OutputAt, Last
  <2>3. /\ 2 \in {2, 3, 10} /\ "pc2" \in Pins /\ "pc2low" \in Pins
        /\ "pc10" \in Pins \cup Last /\ "ports" \notin {"pc2", "pc2low", "pc10"}
    BY DEF Pins, Last
  <2> QED
    BY <1>6, <1>8, <2>1, <2>2, <2>3
<1>9. CASE ConfigurePin(10, "pc10", "pc10low", "pri3")
  <2>1. pc \in {"pc10", "pc10low"} => ModeAt(pc, "C", 10) = 0
    BY DEF ModeAt, OutputAt, ResetMode, Last
  <2>2. ASSUME NEW p \in {"A", "C"}, NEW k \in 0 .. 15
        PROVE  /\ pc = "pc10" /\ pc' = "pc10low" => ModeAt(pc', p, k) = ModeAt(pc, p, k)
               /\ pc = "pc10low" /\ pc' = "pri3" =>
                    ModeAt(pc', p, k) =
                      IF p = "C" /\ k = 10 THEN 1 ELSE ModeAt(pc, p, k)
    BY DEF ModeAt, OutputAt, Last
  <2>3. /\ 10 \in {2, 3, 10} /\ "pc10" \in Pins /\ "pc10low" \in Pins
        /\ "pri3" \in Pins \cup Last /\ "ports" \notin {"pc10", "pc10low", "pri3"}
    BY DEF Pins, Last
  <2> QED
    BY <1>6, <1>9, <2>1, <2>2, <2>3
<1>10. CASE Next /\ ~GPIO_Init
  <2>1. CASE SystemInit
    BY <1>1, <2>1 DEF SystemInit, EnableHsi, MaskCr, ResetCfgr, ResetPllcfgr,
                      SetLatency, Rcc, Do, Pins, Last
  <2>2. CASE SetSysClock
    BY <1>1, <2>2 DEF SetSysClock, EnableHse, WaitHse, SetPrescalers, ConfigurePll,
                      EnablePll, WaitPll, ClearSw, SelectPll, WaitSwitch, Rcc, Do,
                      Pins, Last
  <2>3. CASE SysTick_Init
    BY <1>1, <2>3 DEF SysTick_Init, Stk, Do, Pins, Last
  <2>4. CASE CopyData \/ ClearBss
    BY <1>1, <2>4 DEF CopyData, ClearBss, Do, Pins, Last
  <2>5. CASE OS_Init \/ OS_OnStartup
    BY <1>2, <2>5 DEF OS_Init, OS_OnStartup, Do, Last
  <2>6. CASE HseReady \/ PllReady \/ ClockSwitches
    BY <1>2, <2>6 DEF HseReady, PllReady, ClockSwitches, Responds
  <2> QED
    BY <1>10, <2>1, <2>2, <2>3, <2>4, <2>5, <2>6 DEF Next, Program
<1> QED
  BY <1>2, <1>3, <1>5, <1>7, <1>8, <1>9, <1>10 DEF Next, Program, GPIO_Init, vars

\* Every pin that is driven becomes an output, and no other pin, of either port
\* and of the debugger in particular, changes its mode (Gpio.c:32-52).
THEOREM PinsConfiguredAlways == Spec => []PinsConfigured
<1>1. Init => PinsInv
  BY DEF Init, PinsInv, ResetMode, Pins, Last
<1>2. PinsInv => PinsConfigured
  BY DEF PinsInv, PinsConfigured, ModeAt, OutputAt, Pins, Last
<1> QED
  BY <1>1, <1>2, PinsStep, PTL DEF Spec

(***************************************************************************)
(* NVIC_SetPriority.                                                       *)
(***************************************************************************)

\* What a call of NVIC_SetPriority leaves in the priorities of the system.
Prioritised(IRQn, Priority) ==
  Written(NVIC_SetPriority(IRQn, Priority).address,
          NVIC_SetPriority(IRQn, Priority).byte)

\* For a system exception that has a priority, NVIC_SetPriority stores to the
\* byte of that exception, which gets the priority's low four bits in its
\* implemented ones (Mcu.c:143-149).
THEOREM SystemPriority ==
  ASSUME NEW IRQn \in IRQn_Type, IRQn \in -12 .. -1, NEW Priority \in Nat,
         DOMAIN shpr = SHP(4) .. SHP(15)
  PROVE  Prioritised(IRQn, Priority) =
           [shpr EXCEPT ![SHP(16 + IRQn)] = 16 * (Priority % 16)]
<1>1. 16 + IRQn \in 4 .. 15 /\ (16 + IRQn) % 16 = 16 + IRQn /\ IRQn < 0
  OBVIOUS
<1>2. SHP(16 + IRQn) \in DOMAIN shpr
  BY <1>1 DEF SHP, CPUID_BASE
<1>3. CPUID_BASE + 24 + (16 + IRQn) - 4 = SHP(16 + IRQn)
  BY DEF SHP
<1>4. 16 * (((Priority % 16) * 16) \div 16) = 16 * (Priority % 16)
  OBVIOUS
<1>5. NVIC_SetPriority(IRQn, Priority) =
        [address |-> SHP(16 + IRQn), byte |-> (Priority % 16) * 16]
  BY <1>1, <1>3, Zenon DEF NVIC_SetPriority
<1>6. Prioritised(IRQn, Priority) = Written(SHP(16 + IRQn), (Priority % 16) * 16)
  BY <1>5 DEF Prioritised
<1> QED
  BY <1>2, <1>4, <1>6, Zenon DEF Written

\* The byte of a peripheral's priority is at 0xE000E400 + IRQn.
IPR(IRQn) == 1024 + IRQn

\* As NVIC_IPR_BASE is the address of ICSR, for no peripheral does the store go
\* to the peripheral's own priority.  Interrupts 20 to 31 change the priority of
\* the system exception numbered 16 less, among them PendSV (30) and SysTick
\* (31); interrupts 0 to 19 store to bytes of the registers ICSR to CCR, and the
\* others beyond SysTick's priority (Mcu.c:150-155, Mcu.h:128).
THEOREM PeripheralStores ==
  ASSUME NEW IRQn \in IRQn_Type, IRQn >= 0, NEW Priority \in Nat,
         DOMAIN shpr = SHP(4) .. SHP(15)
  PROVE  LET store == NVIC_SetPriority(IRQn, Priority)
         IN  /\ store.address # IPR(IRQn)
             /\ IRQn < 20 => store.address \in ICSR_BASE .. SHP(4) - 1
             /\ IRQn > 31 => store.address > SHP(15)
             /\ IRQn \in 20 .. 31 =>
                  Prioritised(IRQn, Priority) =
                    [shpr EXCEPT ![SHP(IRQn - 16)] = 16 * (Priority % 16)]
<1>1. IRQn \in Nat /\ ~(IRQn < 0)
  BY DEF IRQn_Type
<1>2. NVIC_SetPriority(IRQn, Priority) =
        [address |-> NVIC_IPR_BASE + IRQn, byte |-> (Priority % 16) * 16]
  BY <1>1, Zenon DEF NVIC_SetPriority
<1>3. NVIC_IPR_BASE + IRQn = 3332 + IRQn
  BY DEF NVIC_IPR_BASE, ICSR_BASE, CPUID_BASE
<1>4. NVIC_SetPriority(IRQn, Priority).address = 3332 + IRQn
  BY <1>2, <1>3
<1>5. ASSUME IRQn \in 20 .. 31
      PROVE  Prioritised(IRQn, Priority) =
               [shpr EXCEPT ![SHP(IRQn - 16)] = 16 * (Priority % 16)]
  <2>1. SHP(IRQn - 16) = 3332 + IRQn
    BY <1>1 DEF SHP, CPUID_BASE
  <2>2. SHP(IRQn - 16) \in DOMAIN shpr
    BY <1>1, <1>5 DEF SHP, CPUID_BASE
  <2>3. 16 * (((Priority % 16) * 16) \div 16) = 16 * (Priority % 16)
    OBVIOUS
  <2>4. Prioritised(IRQn, Priority) = Written(SHP(IRQn - 16), (Priority % 16) * 16)
    BY <1>2, <1>3, <2>1 DEF Prioritised
  <2> QED
    BY <2>2, <2>3, <2>4, Zenon DEF Written
<1> QED
  BY <1>1, <1>4, <1>5 DEF IPR, SHP, ICSR_BASE, CPUID_BASE
=============================================================================
