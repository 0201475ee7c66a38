-------------------------------- MODULE Boot --------------------------------
(***************************************************************************)
(* What _start (kernel.c) does to the machine's descriptor tables and its  *)
(* I/O APIC.  Every core runs it, with the same interrupt descriptor table *)
(* idt, the same gdt_n and the same task state segment: idt_init           *)
(* (x86_64/idt.c), init_gdt (x86_64/gdt.c), ioapic_init,                   *)
(* init_apic_timer_interrupt, enable_keyboard and, on the boot core,       *)
(* setup_ioapic_for_ata.                                                   *)
(*                                                                         *)
(* Of the interrupt descriptor table the model keeps the gates that faults *)
(* and device interrupts go through, of the GDT the one descriptor that    *)
(* changes: the TSS's, which ltr marks busy.  The others are rewritten     *)
(* with the values they have.  rsp0 is left out: nothing enters user mode. *)
(* physical_memory_init and init_user_program_memory, which run in         *)
(* between, share nothing with these; PmmSmp and Paging are about them.    *)
(***************************************************************************)
EXTENDS IoApic, FiniteSets

CONSTANTS
    Bsp,            \* the boot core, APIC id 0: the devices interrupt it
    AtaIrqs         \* the disk's interrupts, 14 and 15

ASSUME BootAssumption == Bsp \in Cores /\ AtaIrqs \subseteq Irqs

VARIABLES
    machine,        \* the cores the machine has
    phase,          \* what each core does next in _start
    idt,            \* the gates present
    tss_busy,       \* the TSS descriptor's type
    tr,             \* cores whose task register is loaded
    timers,         \* cores whose local timer runs
    reset           \* a fault no gate was left for

vars == <<ioapicVars, machine, phase, idt, tss_busy, tr, timers, reset>>

\* The gates, in the order idt_init sets them, and the phases around them.
Gates == {"double fault", "protection fault", "keyboard", "timer"}
Filling == <<"double fault", "protection fault", "keyboard", "timer", "lidt">>

Init ==
    /\ IoApicInit
    /\ machine \in {m \in SUBSET Cores : Bsp \in m}
    /\ phase = [c \in Cores |-> "idt"]
    /\ idt = {}
    /\ tss_busy = FALSE
    /\ tr = {} /\ timers = {}
    /\ reset = FALSE

\* The core goes on to the next phase, with a call of the I/O APIC's driver.
From(c, here) == ~reset /\ c \in machine /\ phase[c] = here /\ todo[c] = << >>

GoTo(c, there) == phase' = [phase EXCEPT ![c] = there]

Calls(c, accesses) == todo' = [todo EXCEPT ![c] = accesses] /\ UNCHANGED <<index, low, value>>

-----------------------------------------------------------------------------
(* idt_init.                                                               *)

\* memset, whatever the other cores have set up.
ClearIdt(c) ==
    /\ From(c, "idt") /\ GoTo(c, Filling[1])
    /\ idt' = {}
    /\ UNCHANGED <<ioapicVars, machine, tss_busy, tr, timers, reset>>

SetGate(c) ==
    \E k \in 1 .. Len(Filling) - 1 :
        /\ From(c, Filling[k]) /\ GoTo(c, Filling[k + 1])
        /\ idt' = idt \cup {Filling[k]}
        /\ UNCHANGED <<ioapicVars, machine, tss_busy, tr, timers, reset>>

\* lidt; sti.
EnableInterrupts(c) ==
    /\ From(c, "lidt") /\ GoTo(c, "gdt")
    /\ UNCHANGED <<ioapicVars, machine, idt, tss_busy, tr, timers, reset>>

-----------------------------------------------------------------------------
(* init_gdt.                                                               *)

\* Mutant: the descriptor's type is written as a busy TSS's, 0x8B.
TssGateBusy(c) ==
    /\ From(c, "gdt") /\ GoTo(c, "ltr")
    /\ tss_busy' = TRUE
    /\ UNCHANGED <<ioapicVars, machine, idt, tr, timers, reset>>

\* Gate 5 is written anew as an available TSS's, 0x89.
SetTssGate(c) ==
    /\ From(c, "gdt") /\ GoTo(c, "ltr")
    /\ tss_busy' = FALSE
    /\ UNCHANGED <<ioapicVars, machine, idt, tr, timers, reset>>

\* ltr loads an available TSS and marks it busy.
LoadTaskRegister(c) ==
    /\ From(c, "ltr") /\ ~tss_busy /\ GoTo(c, "ioapic_init")
    /\ tss_busy' = TRUE
    /\ tr' = tr \cup {c}
    /\ UNCHANGED <<ioapicVars, machine, idt, timers, reset>>

\* Of a fault whose gate is missing the next one up is taken, and with no gate
\* left the machine resets.  The handlers that are reached hang.
Fault(c) ==
    /\ IF idt \cap {"protection fault", "double fault"} # {}
         THEN GoTo(c, "hung") /\ UNCHANGED reset
         ELSE reset' = TRUE /\ UNCHANGED phase
    /\ UNCHANGED <<ioapicVars, machine, idt, tss_busy, tr, timers>>

LoadFaults(c) == From(c, "ltr") /\ tss_busy /\ Fault(c)

-----------------------------------------------------------------------------
(* The I/O APIC and the timer.                                             *)

CallIoapicInit(c) ==
    /\ From(c, "ioapic_init") /\ GoTo(c, "init_timer")
    /\ Calls(c, mask_all_ioapic_vectors)
    /\ UNCHANGED <<machine, idt, tss_busy, tr, timers, reset>>

CallInitTimer(c) ==
    /\ From(c, "init_timer") /\ GoTo(c, "enable_keyboard")
    /\ timers' = timers \cup {c}
    /\ Calls(c, ioapic_set_irq(0, "timer") \o ioapic_unmask_irq(0))
    /\ UNCHANGED <<machine, idt, tss_busy, tr, reset>>

CallEnableKeyboard(c) ==
    /\ From(c, "enable_keyboard") /\ GoTo(c, IF c = Bsp THEN "ata_init" ELSE "booted")
    /\ Calls(c, ioapic_set_irq(1, "keyboard") \o ioapic_unmask_irq(33))
    /\ UNCHANGED <<machine, idt, tss_busy, tr, timers, reset>>

CallAtaInit(c) ==
    /\ From(c, "ata_init") /\ GoTo(c, "booted")
    /\ Calls(c, FlattenSeq([k \in 1 .. Cardinality(AtaIrqs) |->
                    LET irq == SetToSortSeq(AtaIrqs, <)[k]
                    IN  ioapic_set_irq(irq, "timer") \o ioapic_unmask_irq(irq)]))
    /\ UNCHANGED <<machine, idt, tss_busy, tr, timers, reset>>

UseIoApic(c) ==
    /\ ~reset /\ phase[c] # "hung" /\ Access(c)
    /\ UNCHANGED <<machine, phase, idt, tss_busy, tr, timers, reset>>

-----------------------------------------------------------------------------
(* Interrupts.                                                             *)

Interruptible(c) == phase[c] \notin {"idt", "hung"} \cup Range(Filling)

\* An interrupt whose gate another core has just cleared.  One whose gate is
\* there changes nothing here.
InterruptFaults(c) ==
    /\ ~reset /\ Interruptible(c)
    /\ \/ c \in timers /\ "timer" \notin idt
       \/ /\ c = Bsp
          /\ \E irq \in Irqs, v \in {"timer", "keyboard"} : Routed(irq, v) /\ v \notin idt
    /\ Fault(c)

-----------------------------------------------------------------------------
Step(c) ==
    \/ ClearIdt(c) \/ SetGate(c) \/ EnableInterrupts(c)
    \/ SetTssGate(c) \/ LoadTaskRegister(c) \/ LoadFaults(c)
    \/ CallIoapicInit(c) \/ CallInitTimer(c) \/ CallEnableKeyboard(c) \/ CallAtaInit(c)
    \/ UseIoApic(c)

Next == \E c \in Cores : Step(c) \/ InterruptFaults(c)

Spec == Init /\ [][Next]_vars

\* Every core of the machine executes its instructions.
FairSpec == Spec /\ \A c \in Cores : WF_vars(Step(c))

-----------------------------------------------------------------------------
Booted(c) == phase[c] = "booted" /\ todo[c] = << >>

\* A core that finds the TSS busy does so because another one has loaded it:
\* the cores cannot all fail here.
BusyMeansLoaded ==
    \A c \in Cores : phase[c] = "ltr" /\ tss_busy => tr \ {c} # {}

\* A machine with one core boots: no interrupt and no fault before the tables
\* are there, and the timer's, the keyboard's and the disk's lines routed.
SingleCoreBoots ==
    machine = {Bsp} ~>
        /\ Booted(Bsp) /\ ~reset
        /\ Routed(0, "timer") /\ Routed(1, "keyboard")
        /\ \A irq \in AtaIrqs : Routed(irq, "timer")

\* Whatever the cores do to each other's tables, one of them gets through
\* unless the machine resets.
SomeCoreBoots == <>(reset \/ \E c \in Cores : Booted(c))

\* kernel.c:28: this code runs on all cores in parallel; so none of them hangs
\* on the way.
EveryCoreComesUp == \A c \in Cores : phase[c] # "hung"
=============================================================================
