--------------------------- MODULE DevicesProofs ---------------------------
(***************************************************************************)
(* Theorems about the systems of MCDevices for every value of their        *)
(* constants: that sleep lasts long enough on a machine of one core, for   *)
(* any period of sleep, as no interleaving of the timer, its handler and   *)
(* the halts of sleep counts a period twice (ApicTimer); and that the      *)
(* cores that parse the firmware's tables at once agree with the firmware, *)
(* for any number of cores and any tables (Firmware, of Acpi).  The last   *)
(* part carries the theorems over to the two side by side.                 *)
(***************************************************************************)
EXTENDS MCDevices, TLAPS

-----------------------------------------------------------------------------
(* The timer and sleep.                                                    *)

\* A tick that was requested and is not counted yet.
Requested(c) == IF irr[c] THEN 1 ELSE 0
Counting(c) == IF handler[c] \in {"load", "store"} THEN 1 ELSE 0

\* Nobody but c counts, and c does not lose what it counts.
CountsAlone(c) ==
    /\ \A d \in Cores \ {c} : handler[d] = "none" /\ ~irr[d]
    /\ handler[c] = "store" => register[c] = apic_ticks

\* What c has counted since it called sleep, and what is about to be counted,
\* are periods of the timer; the first had begun before.
TicksArePeriods(c) ==
    task[c] # "running" =>
        \/ periods[c] = MaxPeriods
        \/ apic_ticks + Requested(c) + Counting(c) + Ticks <= target_tick[c] + periods[c] + 1

Solo(c) == started = {c} /\ ata = AtaInterrupts

TimerInv ==
    /\ TypeOK
    /\ \A c \in Cores : Solo(c) => CountsAlone(c) /\ TicksArePeriods(c)

-----------------------------------------------------------------------------
LEMMA LeastBounds ==
    \A a, b \in Nat : Least(a, b) \in 0 .. b /\ Least(a, b) <= a
                      /\ (Least(a, b) = a \/ Least(a, b) = b)
BY DEF Least

LEMMA InitTypeOK == Init => TypeOK
<1> SUFFICES ASSUME Init PROVE TypeOK
    OBVIOUS
<1>1. \A c \in Cores : (handler[c] # "none") = FALSE
    BY DEF Init
<1>2. isr = [c \in Cores |-> handler[c] # "none"]
    BY <1>1, Zenon DEF Init
<1>3. /\ irr \in [Cores -> BOOLEAN] /\ interrupts \in [Cores -> BOOLEAN]
      /\ handler \in [Cores -> {"none", "load", "store", "eoi"}]
      /\ task \in [Cores -> {"running", "check", "halted", "woken"}]
    BY DEF Init
<1>4. /\ apic_ticks \in 0 .. MaxTicks /\ register \in [Cores -> 0 .. MaxTicks]
      /\ target_tick \in [Cores -> 0 .. MaxTicks] /\ ata \in 0 .. AtaInterrupts
      /\ periods \in [Cores -> 0 .. MaxPeriods]
    BY CountAssumption, BoundAssumption DEF Init
<1>5. \A c \in Cores : /\ interrupts[c] => handler[c] = "none"
                       /\ task[c] = "halted" => interrupts[c]
    BY DEF Init
<1> QED BY <1>2, <1>3, <1>4, <1>5, CoreAssumption DEF Init, TypeOK

LEMMA StepTypeOK == TypeOK /\ [Next]_vars => TypeOK'
<1> SUFFICES ASSUME TypeOK, [Next]_vars PROVE TypeOK'
    OBVIOUS
<1> USE CoreAssumption, CountAssumption, BoundAssumption
<1>1. CASE Period
    <2>1. periods' \in [Cores -> 0 .. MaxPeriods]
        BY <1>1, LeastBounds DEF Period, TypeOK
    <2> QED BY <1>1, <2>1 DEF Period, TypeOK, sleep
<1>2. CASE AtaInterrupt
    BY <1>2 DEF AtaInterrupt, TypeOK, sleep
<1>3. ASSUME NEW c \in Cores, TakeInterrupt(c) PROVE TypeOK'
    BY <1>3 DEF TakeInterrupt, TypeOK
<1>4. ASSUME NEW c \in Cores, LoadTicks(c) PROVE TypeOK'
    BY <1>4 DEF LoadTicks, TypeOK, apic, sleep
<1>5. ASSUME NEW c \in Cores, StoreTicks(c) PROVE TypeOK'
    <2>1. apic_ticks' \in 0 .. MaxTicks
        BY <1>5, LeastBounds DEF StoreTicks, TypeOK
    <2> QED BY <1>5, <2>1 DEF StoreTicks, TypeOK, apic, sleep
<1>6. ASSUME NEW c \in Cores, SendEoi(c) PROVE TypeOK'
    BY <1>6 DEF SendEoi, TypeOK, sleep
<1>7. ASSUME NEW c \in Cores, CallSleep(c) PROVE TypeOK'
    BY <1>7 DEF CallSleep, TypeOK, apic
<1>8. ASSUME NEW c \in Cores, Halt(c) PROVE TypeOK'
    BY <1>8 DEF Halt, TypeOK, At
<1>9. ASSUME NEW c \in Cores, Cli(c) PROVE TypeOK'
    BY <1>9 DEF Cli, TypeOK, At
<1>10. ASSUME NEW c \in Cores, Return(c) PROVE TypeOK'
    BY <1>10 DEF Return, TypeOK, apic, At
<1>11. CASE UNCHANGED vars
    BY <1>11 DEF vars, apic, sleep, TypeOK
<1> QED BY <1>1, <1>2, <1>3, <1>4, <1>5, <1>6, <1>7, <1>8, <1>9, <1>10, <1>11
        DEF Next, Handle, Sleep
-----------------------------------------------------------------------------
\* What the machine of one core does, one action at a time.
LEMMA SoloStaysSolo ==
    ASSUME TypeOK, [Next]_vars, NEW c \in Cores, Solo(c)'
    PROVE  Solo(c) /\ ~AtaInterrupt /\ UNCHANGED ata
<1>1. started' = started /\ ata' \in {ata, ata - 1}
    BY DEF Next, Period, AtaInterrupt, Handle, Sleep, TakeInterrupt, LoadTicks, StoreTicks,
           SendEoi, CallSleep, Halt, Cli, Return, vars
<1>2. ata' = ata
    BY <1>1, CountAssumption DEF TypeOK, Solo
<1> QED BY <1>1, <1>2, CountAssumption DEF Solo, AtaInterrupt, TypeOK

LEMMA StepCountsAlone ==
    ASSUME TypeOK, [Next]_vars, NEW c \in Cores, Solo(c), ~AtaInterrupt, CountsAlone(c)
    PROVE  CountsAlone(c)'
<1> USE DEF CountsAlone, TypeOK
<1>1. CASE Period
    BY <1>1 DEF Period, Solo
<1>2. ASSUME NEW d \in Cores, TakeInterrupt(d) PROVE CountsAlone(c)'
    BY <1>2 DEF TakeInterrupt
<1>3. ASSUME NEW d \in Cores, LoadTicks(d) PROVE CountsAlone(c)'
    BY <1>3 DEF LoadTicks, apic
<1>4. ASSUME NEW d \in Cores, StoreTicks(d) PROVE CountsAlone(c)'
    BY <1>4 DEF StoreTicks, apic
<1>5. ASSUME NEW d \in Cores, SendEoi(d) PROVE CountsAlone(c)'
    BY <1>5 DEF SendEoi
<1>6. ASSUME NEW d \in Cores, Sleep(d) PROVE CountsAlone(c)'
    BY <1>6 DEF Sleep, CallSleep, Halt, Cli, Return, apic
<1>7. CASE UNCHANGED vars
    BY <1>7 DEF vars, apic
<1> QED BY <1>1, <1>2, <1>3, <1>4, <1>5, <1>6, <1>7 DEF Next, Handle

LEMMA StepTicksArePeriods ==
    ASSUME TypeOK, [Next]_vars, NEW c \in Cores, Solo(c), ~AtaInterrupt, CountsAlone(c),
           TicksArePeriods(c)
    PROVE  TicksArePeriods(c)'
<1> USE CountAssumption, BoundAssumption DEF TicksArePeriods, Requested, Counting
<1>0. /\ apic_ticks \in Nat /\ target_tick[c] \in Nat /\ periods[c] \in 0 .. MaxPeriods
      /\ irr[c] \in BOOLEAN
    BY DEF TypeOK
<1>1. CASE Period
    <2>1. periods'[c] = Least(periods[c] + 1, MaxPeriods)
        BY <1>1 DEF Period
    <2>2. periods'[c] = periods[c] + 1 \/ periods'[c] = MaxPeriods
        BY <2>1, <1>0 DEF Least
    <2>3. periods[c] = MaxPeriods => periods'[c] = MaxPeriods
        BY <2>1, <1>0 DEF Least
    <2> QED BY <1>0, <1>1, <2>2, <2>3 DEF Period, sleep
<1>2. ASSUME NEW d \in Cores, TakeInterrupt(d) PROVE TicksArePeriods(c)'
    <2>1. d = c
        BY <1>2 DEF TakeInterrupt, CountsAlone
    <2>2. handler[c] = "none"
        BY <1>2, <2>1 DEF TakeInterrupt, TypeOK
    <2>3. irr[c] /\ ~irr'[c] /\ handler'[c] = "load"
        BY <1>2, <2>1 DEF TakeInterrupt, TypeOK
    <2>4. task'[c] # "running" => task[c] # "running"
        BY <1>2, <2>1 DEF TakeInterrupt, TypeOK
    <2>5. UNCHANGED <<apic_ticks, target_tick, periods>>
        BY <1>2 DEF TakeInterrupt
    <2> QED BY <1>0, <2>2, <2>3, <2>4, <2>5
<1>3. ASSUME NEW d \in Cores, LoadTicks(d) PROVE TicksArePeriods(c)'
    <2>1. d = c
        BY <1>3 DEF LoadTicks, CountsAlone
    <2>2. handler[c] = "load" /\ handler'[c] = "store"
        BY <1>3, <2>1 DEF LoadTicks, TypeOK
    <2> QED BY <1>0, <1>3, <2>2 DEF LoadTicks, apic, sleep
<1>4. ASSUME NEW d \in Cores, StoreTicks(d) PROVE TicksArePeriods(c)'
    <2>1. d = c
        BY <1>4 DEF StoreTicks, CountsAlone
    <2>2. handler[c] = "store" /\ handler'[c] = "eoi" /\ apic_ticks' \in Nat
          /\ apic_ticks' <= apic_ticks + 1
        BY <1>0, <1>4, <2>1, LeastBounds DEF StoreTicks, TypeOK, CountsAlone
    <2> QED BY <1>0, <1>4, <2>2 DEF StoreTicks, apic, sleep
<1>5. ASSUME NEW d \in Cores, SendEoi(d) PROVE TicksArePeriods(c)'
    <2>1. d = c
        BY <1>5 DEF SendEoi, CountsAlone
    <2>2. handler[c] = "eoi" /\ handler'[c] = "none"
        BY <1>5, <2>1 DEF SendEoi, TypeOK
    <2> QED BY <1>0, <1>5, <2>2 DEF SendEoi, sleep
<1>6. ASSUME NEW d \in Cores, CallSleep(d) PROVE TicksArePeriods(c)'
    <2>1. CASE d = c
        <3>1. target_tick'[c] = apic_ticks + Ticks /\ periods'[c] = 0 /\ handler[c] = "none"
            BY <1>6, <2>1 DEF CallSleep, TypeOK, At
        <3> QED BY <1>0, <1>6, <3>1 DEF CallSleep, apic
    <2>2. CASE d # c
        <3>1. UNCHANGED <<task[c], target_tick[c], periods[c]>>
            BY <1>6, <2>2 DEF CallSleep, TypeOK
        <3> QED BY <1>0, <1>6, <3>1 DEF CallSleep, apic
    <2> QED BY <2>1, <2>2
<1>7. ASSUME NEW d \in Cores, Halt(d) \/ Cli(d) \/ Return(d) PROVE TicksArePeriods(c)'
    <2>1. task'[c] # "running" => task[c] # "running"
        BY <1>7 DEF Halt, Cli, Return, At, TypeOK
    <2> QED BY <1>0, <1>7, <2>1 DEF Halt, Cli, Return, apic
<1>8. CASE UNCHANGED vars
    BY <1>8 DEF vars, apic, sleep
<1> QED BY <1>1, <1>2, <1>3, <1>4, <1>5, <1>6, <1>7, <1>8 DEF Next, Handle, Sleep

LEMMA TimerStep == TimerInv /\ [Next]_vars => TimerInv'
<1> SUFFICES ASSUME TimerInv, [Next]_vars PROVE TimerInv'
    OBVIOUS
<1>1. ASSUME NEW c \in Cores, Solo(c)' PROVE (CountsAlone(c) /\ TicksArePeriods(c))'
    BY <1>1, SoloStaysSolo, StepCountsAlone, StepTicksArePeriods DEF TimerInv
<1> QED BY <1>1, StepTypeOK DEF TimerInv

\* On the step that returns from sleep the counter has reached the target.
LEMMA ReturnsLate ==
    ASSUME TimerInv, [Next]_vars, NEW c \in Sleepers, Solo(c), task[c] = "check",
           task'[c] = "running"
    PROVE  periods[c] + 1 >= Ticks
<1> USE CoreAssumption, CountAssumption, BoundAssumption
<1>1. c \in Cores /\ TypeOK /\ TicksArePeriods(c)
    BY DEF TimerInv
<1>2. apic_ticks >= target_tick[c]
  <2>1. ASSUME NEW d \in Cores, Handle(d) PROVE task'[c] # "running"
    BY <1>1, <2>1 DEF Handle, TakeInterrupt, LoadTicks, StoreTicks, SendEoi, TypeOK, sleep
  <2>2. ASSUME NEW d \in Cores, CallSleep(d) \/ Halt(d) \/ Cli(d) PROVE task'[c] # "running"
    BY <1>1, <2>2 DEF CallSleep, Halt, Cli, TypeOK
  <2>3. ASSUME NEW d \in Cores, Return(d) PROVE apic_ticks >= target_tick[c]
    BY <1>1, <2>3 DEF Return, TypeOK
  <2> QED BY <2>1, <2>2, <2>3 DEF Next, Period, AtaInterrupt, Sleep, vars, sleep
<1>3. /\ apic_ticks \in Nat /\ target_tick[c] \in Nat /\ periods[c] \in Nat
      /\ Requested(c) \in Nat /\ Counting(c) \in Nat
    BY <1>1 DEF TypeOK, Requested, Counting
<1> QED BY <1>1, <1>2, <1>3 DEF TicksArePeriods

-----------------------------------------------------------------------------
LEMMA TimerInitially == Init => TimerInv
BY InitTypeOK DEF Init, TimerInv, CountsAlone, TicksArePeriods

\* The types, and that a core is in the handler exactly while vector 34 is in
\* service there, with its interrupts off: no handler interrupts itself.
THEOREM ApicTimerTypeOK == Spec => []TypeOK
<1>1. TimerInv => TypeOK
    BY DEF TimerInv
<1> QED BY <1>1, TimerInitially, TimerStep, PTL DEF Spec

\* sleep(n) lasts n periods of the timer on a machine of one core, whatever n
\* and wherever the interrupts fall between the statements of sleep and of
\* apic_timer_interrupt_handler.
THEOREM ApicTimerSleepsLongEnough == Spec => SleepsLongEnough
<1>1. TimerInv /\ [Next]_vars =>
          [\A c \in Sleepers :
              /\ started = {c} /\ ata = AtaInterrupts
              /\ task[c] = "check" /\ task'[c] = "running"
              => periods[c] + 1 >= Ticks]_vars
    BY ReturnsLate DEF Solo
<1> QED BY <1>1, TimerInitially, TimerStep, PTL DEF Spec, SleepsLongEnough

-----------------------------------------------------------------------------
(* The search for the interrupt controllers.                               *)

\* The root table leads to a MADT that has entries.
HasMadt == Firmware!Madt # 0 /\ firmware.entries # <<>>

IoApicEntries == {i \in DOMAIN firmware.entries : firmware.entries[i].type = 1}

\* What the two variables may hold at any time: nothing yet, or what the MADT
\* says, whichever core wrote it.
AddressesKnown ==
    /\ apic_base_address \in {0, firmware.address}
    /\ ioapic_base_address \in {0} \cup Firmware!IoApics

\* A core that has passed entries has left the addresses set.  Other cores set
\* them again, never back.
EntriesPassed(c, n) ==
    /\ n > 1 => apic_base_address = firmware.address
    /\ (\E i \in IoApicEntries : i < n) => ioapic_base_address \in Firmware!IoApics

\* A core is at an entry, or behind all of them.
Progressed(c) ==
    /\ step[c] = "parse_acpi" => entry[c] = 1
    /\ step[c] = "parse_madt" => EntriesPassed(c, entry[c])
    /\ step[c] \notin {"parse_acpi", "parse_madt"} =>
          /\ apic_base_address = firmware.address
          /\ Firmware!IoApics # {} => ioapic_base_address \in Firmware!IoApics

UsedFromMadt(c) ==
    /\ used[c].lapic \in {-1, firmware.address}
    /\ used[c].ioapic \in {-1} \cup (IF Firmware!IoApics = {} THEN {0} ELSE Firmware!IoApics)

Steps == {"parse_acpi", "parse_madt", "apic_init", "ioapic_init", "print", "hpet",
          "done"}

\* The firmware's entries are a sequence; the functions have the cores for
\* their domain.
Shape ==
    /\ firmware \in Firmwares
    /\ step \in [Processors -> Steps]
    /\ entry \in [Processors -> Nat \ {0}]
    /\ used \in [Processors -> [lapic : Int, ioapic : Int]]
    /\ apic_base_address \in Int /\ ioapic_base_address \in Int

AddressesInv ==
    /\ Shape
    /\ HasMadt => AddressesKnown /\ \A c \in Processors : Progressed(c) /\ UsedFromMadt(c)

-----------------------------------------------------------------------------
\* What is said of the firmware does not change.
LEMMA FirmwareConstant ==
    ASSUME UNCHANGED firmware
    PROVE  /\ HasMadt' = HasMadt /\ Firmware!IoApics' = Firmware!IoApics /\ Firmware!Madt' = Firmware!Madt
           /\ IoApicEntries' = IoApicEntries
BY DEF HasMadt, Firmware!IoApics, Firmware!Madt, IoApicEntries, Firmware!find_version_1_table,
       Firmware!find_version_2_up_table, Firmware!Found

\* The addresses of the I/O APICs are those of the entries of that type.
LEMMA IoApicsOfEntries ==
    /\ \A i \in IoApicEntries : firmware.entries[i].address \in Firmware!IoApics
    /\ Firmware!IoApics # {} => IoApicEntries # {}
BY DEF Firmware!IoApics, IoApicEntries

\* A core that leaves the walk is behind every entry.
LEMMA WalkEnds ==
    ASSUME Shape, HasMadt, NEW c \in Processors, ~Firmware!AtEntry(c),
           EntriesPassed(c, entry[c])
    PROVE  /\ apic_base_address = firmware.address
           /\ Firmware!IoApics # {} => ioapic_base_address \in Firmware!IoApics
<1>1. firmware.entries \in Seq([type : Nat, length : Nat, address : Int])
    BY FirmwareAssumption DEF Shape
<1>2. DOMAIN firmware.entries = 1 .. Len(firmware.entries) /\ Len(firmware.entries) \in Nat
    BY <1>1
<1>3. Len(firmware.entries) # 0
    BY <1>1 DEF HasMadt
<1>4. entry[c] \in Nat \ {0} /\ entry[c] > Len(firmware.entries)
    BY <1>2 DEF Shape, Firmware!AtEntry
<1>5. entry[c] > 1
    BY <1>2, <1>3, <1>4
<1>6. \A i \in IoApicEntries : i < entry[c]
    BY <1>2, <1>4 DEF IoApicEntries
<1> QED BY <1>5, <1>6, IoApicsOfEntries DEF EntriesPassed

\* A step of one core that leaves the addresses and its own place in the walk
\* well founded keeps what is known of the others.
LEMMA OthersProgress ==
    ASSUME Shape, HasMadt, NEW c \in Processors, UNCHANGED firmware,
           NEW d \in Processors, Progressed(d), UsedFromMadt(d),
           step'[d] = step[d], entry'[d] = entry[d], used'[d] = used[d],
           apic_base_address' \in {apic_base_address, firmware.address},
           ioapic_base_address' \in {ioapic_base_address} \cup Firmware!IoApics
    PROVE  Progressed(d)' /\ UsedFromMadt(d)'
<1>1. Firmware!IoApics' = Firmware!IoApics /\ IoApicEntries' = IoApicEntries
    BY FirmwareConstant
<1>2. UsedFromMadt(d)'
    BY <1>1 DEF UsedFromMadt
<1>3. Progressed(d)'
    BY <1>1 DEF Progressed, EntriesPassed
<1> QED BY <1>2, <1>3

LEMMA EntryOfSeq == \A S, s, i : s \in Seq(S) /\ i \in DOMAIN s => s[i] \in S
OBVIOUS

\* Goto and Forward leave the functions on the cores.
LEMMA MovesInShape ==
    ASSUME Shape, NEW c \in Processors, NEW there \in Steps
    PROVE  /\ Firmware!Goto(c, there) => /\ step' \in [Processors -> Steps]
                                /\ step'[c] = there
                                /\ \A d \in Processors : d # c => step'[d] = step[d]
           /\ Firmware!Forward(c) => /\ entry' \in [Processors -> Nat \ {0}]
                            /\ entry'[c] \in {entry[c], entry[c] + 1}
                            /\ \A d \in Processors : d # c => entry'[d] = entry[d]
           /\ Firmware!Leave(c, there) => /\ entry' \in [Processors -> Nat \ {0}]
                                 /\ \A d \in Processors : d # c => entry'[d] = entry[d]
BY DEF Shape, Firmware!Goto, Firmware!Forward, Firmware!Leave

\* Parsing an entry: the address of the controller is set, and that of an
\* I/O APIC when the entry is one.
LEMMA EntryParsed ==
    ASSUME Shape, HasMadt, AddressesKnown, NEW c \in Processors,
           Progressed(c), Firmware!ParseEntry(c)
    PROVE  /\ apic_base_address' = firmware.address
           /\ ioapic_base_address' \in {ioapic_base_address} \cup Firmware!IoApics
           /\ EntriesPassed(c, entry[c])'
<1>1. apic_base_address' = firmware.address /\ UNCHANGED firmware
    BY DEF Firmware!ParseEntry, Firmware!tables
<1>2. ioapic_base_address' \in {ioapic_base_address} \cup Firmware!IoApics
  <2>1. CASE Firmware!Entry(c).type = 1
    <3>1. entry[c] \in IoApicEntries
        BY <2>1 DEF Firmware!ParseEntry, Firmware!AtEntry, Firmware!Entry, IoApicEntries
    <3> QED BY <2>1, <3>1, IoApicsOfEntries DEF Firmware!ParseEntry, Firmware!Entry
  <2>2. CASE Firmware!Entry(c).type # 1
    BY <2>2 DEF Firmware!ParseEntry
  <2> QED BY <2>1, <2>2
<1>3. Firmware!IoApics' = Firmware!IoApics /\ IoApicEntries' = IoApicEntries
    BY <1>1, FirmwareConstant
<1>4. entry'[c] \in {entry[c], entry[c] + 1} /\ entry[c] \in Nat
    BY MovesInShape, "apic_init" \in Steps DEF Firmware!ParseEntry, Shape, Steps
<1>5. EntriesPassed(c, entry[c])
    BY DEF Progressed, Firmware!ParseEntry
<1>6. ASSUME NEW i \in IoApicEntries, i < entry'[c]
      PROVE  ioapic_base_address' \in Firmware!IoApics
  <2>1. firmware.entries \in Seq([type : Nat, length : Nat, address : Int])
    BY FirmwareAssumption DEF Shape
  <2>2. i \in Nat
    BY <2>1 DEF IoApicEntries
  <2>3. CASE i < entry[c]
    BY <2>3, <1>2, <1>5 DEF EntriesPassed
  <2>4. CASE i = entry[c]
    <3>1. Firmware!Entry(c).type = 1
        BY <2>4 DEF IoApicEntries, Firmware!Entry
    <3> QED BY <3>1, <2>4, IoApicsOfEntries DEF Firmware!ParseEntry, Firmware!Entry
  <2> QED BY <2>2, <2>3, <2>4, <1>4, <1>6
<1> QED BY <1>1, <1>2, <1>3, <1>6 DEF EntriesPassed

LEMMA AddressesInitially == Firmware!Init => AddressesInv
BY DEF Firmware!Init, AddressesInv, Shape, Steps, AddressesKnown, Progressed, UsedFromMadt, EntriesPassed

\* A step of core c keeps the invariant when it leaves the firmware alone,
\* writes the addresses as parse_madt does, and leaves c where it may be.
LEMMA StepOfOneCore ==
    ASSUME AddressesInv, NEW c \in Processors, UNCHANGED firmware,
           step' \in [Processors -> Steps], entry' \in [Processors -> Nat \ {0}],
           used' \in [Processors -> [lapic : Int, ioapic : Int]],
           apic_base_address' \in Int, ioapic_base_address' \in Int,
           \A d \in Processors : d # c => /\ step'[d] = step[d]
                                          /\ entry'[d] = entry[d]
                                          /\ used'[d] = used[d],
           HasMadt => /\ apic_base_address' \in {apic_base_address, firmware.address}
                      /\ ioapic_base_address' \in {ioapic_base_address} \cup Firmware!IoApics
                      /\ Progressed(c)' /\ UsedFromMadt(c)'
    PROVE  AddressesInv'
<1>1. Shape'
    BY DEF AddressesInv, Shape
<1>2. ASSUME HasMadt'
      PROVE  AddressesKnown' /\ \A d \in Processors : (Progressed(d) /\ UsedFromMadt(d))'
  <2>1. HasMadt /\ Firmware!IoApics' = Firmware!IoApics
    BY <1>2, FirmwareConstant
  <2>2. AddressesKnown'
    BY <2>1 DEF AddressesInv, AddressesKnown
  <2>3. ASSUME NEW d \in Processors, d # c
        PROVE  Progressed(d)' /\ UsedFromMadt(d)'
    BY <2>1, <2>3, OthersProgress DEF AddressesInv
  <2> QED BY <2>1, <2>2, <2>3
<1> QED BY <1>1, <1>2 DEF AddressesInv

LEMMA ParseAcpiStep == ASSUME AddressesInv, NEW c \in Processors, Firmware!parse_acpi(c) PROVE AddressesInv'
<1>1. UNCHANGED <<firmware, Firmware!addresses, entry, used>>
    BY DEF Firmware!parse_acpi
<1>2. /\ step' \in [Processors -> Steps] /\ \A d \in Processors : d # c => step'[d] = step[d]
      /\ HasMadt => step'[c] = "parse_madt"
    BY MovesInShape DEF Firmware!parse_acpi, AddressesInv, HasMadt, Steps
<1>3. HasMadt => Progressed(c)' /\ UsedFromMadt(c)'
  <2> SUFFICES ASSUME HasMadt PROVE Progressed(c)' /\ UsedFromMadt(c)'
    OBVIOUS
  <2>1. Firmware!IoApics' = Firmware!IoApics /\ IoApicEntries' = IoApicEntries
    BY <1>1, FirmwareConstant
  <2>2. entry'[c] = 1
    BY <1>1 DEF AddressesInv, Progressed, Firmware!parse_acpi
  <2>3. \A i \in IoApicEntries : i \in Nat /\ i > 0
    <3>1. firmware.entries \in Seq([type : Nat, length : Nat, address : Int])
        BY FirmwareAssumption DEF AddressesInv, Shape
    <3> QED BY <3>1 DEF IoApicEntries
  <2>4. Progressed(c)'
    BY <1>2, <2>1, <2>2, <2>3 DEF Progressed, EntriesPassed
  <2>5. UsedFromMadt(c)'
    BY <1>1, <2>1 DEF AddressesInv, UsedFromMadt
  <2> QED BY <2>4, <2>5
<1> QED BY <1>1, <1>2, <1>3, StepOfOneCore DEF Firmware!addresses, AddressesInv, Shape

LEMMA ParseEntryStep == ASSUME AddressesInv, NEW c \in Processors, Firmware!ParseEntry(c) PROVE AddressesInv'
<1>1. UNCHANGED <<firmware, step, used>> /\ apic_base_address' = firmware.address
    BY DEF Firmware!ParseEntry, Firmware!tables
<1>2. entry' \in [Processors -> Nat \ {0}] /\ \A d \in Processors : d # c => entry'[d] = entry[d]
    BY MovesInShape, "done" \in Steps DEF Firmware!ParseEntry, AddressesInv, Steps
<1>3. HasMadt => /\ apic_base_address' \in {apic_base_address, firmware.address}
                 /\ ioapic_base_address' \in {ioapic_base_address} \cup Firmware!IoApics
                 /\ Progressed(c)' /\ UsedFromMadt(c)'
  <2> SUFFICES ASSUME HasMadt
               PROVE  /\ apic_base_address' \in {apic_base_address, firmware.address}
                      /\ ioapic_base_address' \in {ioapic_base_address} \cup Firmware!IoApics
                      /\ Progressed(c)' /\ UsedFromMadt(c)'
    OBVIOUS
  <2>1. Firmware!IoApics' = Firmware!IoApics
    BY <1>1, FirmwareConstant
  <2>2. /\ ioapic_base_address' \in {ioapic_base_address} \cup Firmware!IoApics
        /\ EntriesPassed(c, entry[c])'
    BY EntryParsed DEF AddressesInv
  <2>3. Progressed(c)'
    BY <1>1, <2>2 DEF Progressed, Firmware!ParseEntry
  <2>4. UsedFromMadt(c)'
    BY <1>1, <2>1 DEF AddressesInv, UsedFromMadt
  <2> QED BY <1>1, <2>2, <2>3, <2>4
<1>4. apic_base_address' \in Int /\ ioapic_base_address' \in Int
  <2>1. /\ firmware.entries \in Seq([type : Nat, length : Nat, address : Int])
        /\ firmware.address \in Int
    BY FirmwareAssumption DEF AddressesInv, Shape
  <2>2. Firmware!Entry(c) \in [type : Nat, length : Nat, address : Int]
    <3>1. entry[c] \in DOMAIN firmware.entries
        BY DEF Firmware!ParseEntry, Firmware!AtEntry
    <3> DEFINE T == [type : Nat, length : Nat, address : Int]
    <3>2. firmware.entries[entry[c]] \in T
        <4>1. firmware.entries \in Seq(T)
            BY <2>1
        <4> HIDE DEF T
        <4> QED BY <4>1, <3>1, EntryOfSeq
    <3> QED BY <3>1, <3>2 DEF Firmware!Entry
  <2>3. Firmware!Entry(c).address \in Int
    BY <2>2
  <2>4. ioapic_base_address' \in {ioapic_base_address, Firmware!Entry(c).address}
    BY DEF Firmware!ParseEntry
  <2> QED BY <2>1, <2>3, <2>4, <1>1 DEF AddressesInv, Shape
<1> QED BY <1>1, <1>2, <1>3, <1>4, StepOfOneCore DEF AddressesInv, Shape

LEMMA LeaveMadtStep ==
    ASSUME AddressesInv, NEW c \in Processors, step[c] = "parse_madt",
           Firmware!Leave(c, "apic_init"), UNCHANGED <<Firmware!tables, Firmware!addresses, used>>
    PROVE  AddressesInv'
<1>1. UNCHANGED <<firmware, Firmware!addresses, used>>
    BY DEF Firmware!tables
<1>2. /\ entry' \in [Processors -> Nat \ {0}] /\ step' \in [Processors -> Steps]
      /\ step'[c] = "apic_init"
      /\ \A d \in Processors : d # c => entry'[d] = entry[d] /\ step'[d] = step[d]
    BY MovesInShape, "apic_init" \in Steps DEF Firmware!Leave, AddressesInv, Steps
<1>3. HasMadt => Progressed(c)' /\ UsedFromMadt(c)'
  <2> SUFFICES ASSUME HasMadt PROVE Progressed(c)' /\ UsedFromMadt(c)'
    OBVIOUS
  <2>1. Firmware!IoApics' = Firmware!IoApics
    BY <1>1, FirmwareConstant
  <2>2. /\ apic_base_address = firmware.address
        /\ Firmware!IoApics # {} => ioapic_base_address \in Firmware!IoApics
    BY WalkEnds DEF AddressesInv, Progressed, Firmware!Leave
  <2>3. Progressed(c)'
    BY <1>1, <1>2, <2>1, <2>2 DEF Progressed, Firmware!addresses
  <2>4. UsedFromMadt(c)'
    BY <1>1, <2>1 DEF AddressesInv, UsedFromMadt
  <2> QED BY <2>3, <2>4
<1> QED BY <1>1, <1>2, <1>3, StepOfOneCore DEF Firmware!addresses, AddressesInv, Shape

\* apic_init and ioapic_init, which use what parse_madt has left.
LEMMA UseStep ==
    ASSUME AddressesInv, NEW c \in Processors, Firmware!apic_init(c) \/ Firmware!ioapic_init(c)
    PROVE  AddressesInv'
<1>1. UNCHANGED <<firmware, Firmware!addresses, entry>>
    BY DEF Firmware!apic_init, Firmware!ioapic_init, Firmware!tables
<1>2. PICK there \in {"ioapic_init", "print", "hpet"} : Firmware!Goto(c, there)
    BY DEF Firmware!apic_init, Firmware!ioapic_init
<1>3. /\ step' \in [Processors -> Steps] /\ step'[c] = there
      /\ \A d \in Processors : d # c => step'[d] = step[d]
    BY <1>2, MovesInShape DEF AddressesInv, Steps
<1>4. /\ used' \in [Processors -> [lapic : Int, ioapic : Int]]
      /\ \A d \in Processors : d # c => used'[d] = used[d]
      /\ used'[c].lapic \in {used[c].lapic, apic_base_address}
      /\ used'[c].ioapic \in {used[c].ioapic, ioapic_base_address}
    BY DEF Firmware!apic_init, Firmware!ioapic_init, AddressesInv, Shape
<1>5. HasMadt => Progressed(c)' /\ UsedFromMadt(c)'
  <2> SUFFICES ASSUME HasMadt PROVE Progressed(c)' /\ UsedFromMadt(c)'
    OBVIOUS
  <2>1. Firmware!IoApics' = Firmware!IoApics
    BY <1>1, FirmwareConstant
  <2>2. /\ apic_base_address = firmware.address
        /\ Firmware!IoApics # {} => ioapic_base_address \in Firmware!IoApics
        /\ ioapic_base_address \in {0} \cup Firmware!IoApics
    BY DEF AddressesInv, Progressed, AddressesKnown, Firmware!apic_init, Firmware!ioapic_init
  <2>3. Progressed(c)'
    BY <1>1, <1>3, <2>1, <2>2 DEF Progressed, Firmware!addresses
  <2>4. UsedFromMadt(c)
    BY DEF AddressesInv
  <2>5. UsedFromMadt(c)'
    BY <1>1, <1>4, <2>1, <2>2, <2>4 DEF UsedFromMadt
  <2> QED BY <2>3, <2>5
<1> QED BY <1>1, <1>3, <1>4, <1>5, StepOfOneCore DEF Firmware!addresses, AddressesInv, Shape

\* What follows stores no address: print_sdt_type and hpet_initialize.
LEMMA LaterStep ==
    ASSUME AddressesInv, NEW c \in Processors, Firmware!print_sdt_type(c) \/ Firmware!hpet_initialize(c)
    PROVE  AddressesInv'
<1>1. UNCHANGED <<firmware, Firmware!addresses, used>>
    BY DEF Firmware!print_sdt_type, Firmware!hpet_initialize, Firmware!tables
<1>2. /\ entry' \in [Processors -> Nat \ {0}] /\ step' \in [Processors -> Steps]
      /\ step'[c] \in {"print", "hpet", "done"}
      /\ \A d \in Processors : d # c => entry'[d] = entry[d] /\ step'[d] = step[d]
  <2>1. CASE Firmware!print_sdt_type(c)
    BY <2>1, MovesInShape, "hpet" \in Steps
    DEF Firmware!print_sdt_type, Firmware!Leave, AddressesInv, Shape, Steps
  <2>2. CASE Firmware!hpet_initialize(c)
    BY <2>2, MovesInShape, "done" \in Steps DEF Firmware!hpet_initialize, AddressesInv, Shape, Steps
  <2> QED BY <2>1, <2>2
<1>3. HasMadt => Progressed(c)' /\ UsedFromMadt(c)'
  <2> SUFFICES ASSUME HasMadt PROVE Progressed(c)' /\ UsedFromMadt(c)'
    OBVIOUS
  <2>1. Firmware!IoApics' = Firmware!IoApics
    BY <1>1, FirmwareConstant
  <2>2. /\ apic_base_address = firmware.address
        /\ Firmware!IoApics # {} => ioapic_base_address \in Firmware!IoApics
    BY DEF AddressesInv, Progressed, Firmware!print_sdt_type, Firmware!hpet_initialize
  <2>3. Progressed(c)'
    BY <1>1, <1>2, <2>1, <2>2 DEF Progressed, Firmware!addresses
  <2>4. UsedFromMadt(c)'
    BY <1>1, <2>1 DEF AddressesInv, UsedFromMadt
  <2> QED BY <2>3, <2>4
<1> QED BY <1>1, <1>2, <1>3, StepOfOneCore DEF Firmware!addresses, AddressesInv, Shape

LEMMA AddressesStep == AddressesInv /\ [Firmware!Next]_(Firmware!vars) => AddressesInv'
<1> SUFFICES ASSUME AddressesInv, [Firmware!Next]_(Firmware!vars) PROVE AddressesInv'
    OBVIOUS
<1>1. CASE UNCHANGED Firmware!vars
  <2>1. /\ UNCHANGED <<firmware, apic_base_address, ioapic_base_address, step, entry, used>>
        /\ Firmware!IoApics' = Firmware!IoApics /\ IoApicEntries' = IoApicEntries /\ HasMadt' = HasMadt
    BY <1>1, FirmwareConstant DEF Firmware!vars, Firmware!tables, Firmware!addresses
  <2> QED BY <2>1 DEF AddressesInv, Shape, AddressesKnown, Progressed, EntriesPassed, UsedFromMadt
<1>2. ASSUME NEW c \in Processors,
             \/ Firmware!parse_acpi(c) \/ Firmware!parse_madt(c)
             \/ Firmware!apic_init(c) \/ Firmware!ioapic_init(c)
             \/ Firmware!print_sdt_type(c) \/ Firmware!hpet_initialize(c)
      PROVE  AddressesInv'
  <2>1. CASE Firmware!parse_acpi(c)
    BY <2>1, ParseAcpiStep
  <2>2. CASE Firmware!parse_madt(c)
    BY <2>2, ParseEntryStep, LeaveMadtStep DEF Firmware!parse_madt
  <2>3. CASE Firmware!apic_init(c) \/ Firmware!ioapic_init(c)
    BY <2>3, UseStep
  <2>4. CASE Firmware!print_sdt_type(c) \/ Firmware!hpet_initialize(c)
    BY <2>4, LaterStep
  <2> QED BY <1>2, <2>1, <2>2, <2>3, <2>4
<1> QED BY <1>1, <1>2 DEF Firmware!Next

\* However the cores' walks over the MADT interleave, each core programs the
\* local APIC the firmware names and an I/O APIC the firmware lists: parse_acpi,
\* parse_madt, apic_init and ioapic_init share their variables without a lock.
THEOREM AcpiAddressesFromMadt == Firmware!Spec => []Firmware!AddressesFromMadt
<1>1. AddressesInv => Firmware!AddressesFromMadt
    BY DEF AddressesInv, HasMadt, UsedFromMadt, Firmware!AddressesFromMadt
<1> QED BY <1>1, AddressesInitially, AddressesStep, PTL DEF Firmware!Spec

-----------------------------------------------------------------------------
(* The two side by side.                                                   *)

\* Their behaviours are those of each of them, with fairness or without.
LEMMA BehaviourOfEach == AllFairSpec => Spec /\ Firmware!Spec
<1>1. AllInit => Init /\ Firmware!Init
    BY DEF AllInit
<1>2. [AllNext]_allVars => [Next]_vars /\ [Firmware!Next]_firmwareVars
    BY DEF AllNext, allVars
<1>3. [Firmware!Next]_firmwareVars => [Firmware!Next]_(Firmware!vars)
    BY DEF firmwareVars, Firmware!vars, Firmware!tables, Firmware!addresses
<1> QED BY <1>1, <1>2, <1>3, PTL DEF AllFairSpec, Spec, Firmware!Spec

\* sleep(n) lasts n periods of the timer on a machine of one core.
THEOREM DevicesSleepLongEnough == AllFairSpec => SleepsLongEnough
<1> QED BY BehaviourOfEach, ApicTimerSleepsLongEnough

\* Each core programs the controllers that the MADT names.
THEOREM DevicesAddressesFromMadt == AllFairSpec => []AddressesFromMadt
<1>1. Firmware!AddressesFromMadt => AddressesFromMadt
    BY DEF AddressesFromMadt
<1> QED BY <1>1, BehaviourOfEach, AcpiAddressesFromMadt, PTL
=============================================================================
