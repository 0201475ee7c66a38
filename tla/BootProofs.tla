----------------------------- MODULE BootProofs -----------------------------
(***************************************************************************)
(* BusyMeansLoaded for every number of cores and of I/O APIC entries.      *)
(*                                                                         *)
(* A core in front of ltr has not loaded its task register, since each     *)
(* passes there once; so it is enough that a busy TSS is loaded by some    *)
(* core at all.                                                            *)
(***************************************************************************)
EXTENDS Boot, TLAPS

\* Phases a core is in before it has loaded its task register, and behind it.
Unloaded == {"idt", "double fault", "protection fault", "keyboard", "timer",
             "lidt", "gdt", "ltr"}
Behind == {"ioapic_init", "init_timer", "enable_keyboard", "ata_init", "booted", "hung"}

BusyIsLoaded == tss_busy => tr # {}

FrontUnloaded == \A c \in Cores : phase[c] \in Unloaded => c \notin tr

PhaseOK == phase \in [Cores -> Unloaded \cup Behind] /\ tr \subseteq Cores

IInv == PhaseOK /\ BusyIsLoaded /\ FrontUnloaded

\* Every phase of idt_init is in front of ltr.
LEMMA FillingPhases ==
    /\ Filling[1] \in Unloaded
    /\ \A k \in 1 .. Len(Filling) - 1 : Filling[k] \in Unloaded /\ Filling[k + 1] \in Unloaded
  <1>1. Len(Filling) = 5 BY DEF Filling
  <1>2. /\ Filling[1] \in Unloaded /\ Filling[2] \in Unloaded /\ Filling[3] \in Unloaded
        /\ Filling[4] \in Unloaded /\ Filling[5] \in Unloaded
    BY DEF Filling, Unloaded
  <1>3. \A k \in 1 .. Len(Filling) - 1 : k \in {1, 2, 3, 4} BY <1>1
  <1>4. QED BY <1>2, <1>3

\* No phase is both.
LEMMA Disjoint == Unloaded \cap Behind = {}
  BY DEF Unloaded, Behind

\* Initially nothing is loaded and the TSS is available.
LEMMA InitIInv == Init => IInv
  BY DEF Init, IInv, PhaseOK, BusyIsLoaded, FrontUnloaded, Unloaded

\* Each step of a core keeps the invariant.
LEMMA StepIInv == ASSUME NEW c \in Cores, IInv, Step(c) \/ InterruptFaults(c) PROVE IInv'
  <1> USE DEF IInv, PhaseOK, BusyIsLoaded, FrontUnloaded, GoTo, From
  <1>0. {"idt", "lidt", "gdt"} \subseteq Unloaded BY DEF Unloaded
  <1>1. CASE ClearIdt(c) BY <1>0, <1>1, FillingPhases DEF ClearIdt
  <1>2. CASE SetGate(c) BY <1>2, FillingPhases DEF SetGate
  <1>3. CASE EnableInterrupts(c) BY <1>0, <1>3 DEF EnableInterrupts
  <1>4. CASE SetTssGate(c) BY <1>4 DEF SetTssGate, Unloaded
  <1>5. CASE LoadTaskRegister(c) BY <1>5, Disjoint DEF Behind, LoadTaskRegister
  <1>6. CASE Fault(c) BY <1>6, Disjoint DEF Behind, Fault
  <1>7. CASE CallIoapicInit(c) BY <1>7, Disjoint DEF Behind, CallIoapicInit
  <1>8. CASE CallInitTimer(c) BY <1>8, Disjoint DEF Behind, CallInitTimer
  <1>9. CASE CallEnableKeyboard(c) BY <1>9, Disjoint DEF Behind, CallEnableKeyboard
  <1>10. CASE CallAtaInit(c) BY <1>10, Disjoint DEF Behind, CallAtaInit
  <1>11. CASE UseIoApic(c) BY <1>11 DEF UseIoApic
  <1>12. LoadFaults(c) \/ InterruptFaults(c) => Fault(c)
    BY DEF LoadFaults, InterruptFaults
  <1>13. QED
    BY <1>1, <1>2, <1>3, <1>4, <1>5, <1>6, <1>7, <1>8, <1>9, <1>10, <1>11, <1>12 DEF Step

\* So does every step of the machine.
LEMMA NextIInv == IInv /\ [Next]_vars => IInv'
  <1> SUFFICES ASSUME IInv, [Next]_vars PROVE IInv' OBVIOUS
  <1>1. CASE Next BY <1>1, StepIInv DEF Next
  <1>2. CASE UNCHANGED vars
    BY <1>2 DEF vars, IInv, PhaseOK, BusyIsLoaded, FrontUnloaded
  <1>3. QED BY <1>1, <1>2

\* A core that finds the TSS busy at ltr does so because another core has
\* loaded it: the cores cannot all fail in init_gdt, however many there are.
THEOREM BootBusyMeansLoaded == Spec => []BusyMeansLoaded
  <1>1. IInv => BusyMeansLoaded
    BY DEF IInv, BusyIsLoaded, FrontUnloaded, BusyMeansLoaded, Unloaded
  <1>2. QED BY <1>1, InitIInv, NextIInv, PTL DEF Spec
=============================================================================
