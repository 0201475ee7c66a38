------------------------------ MODULE ApicTimer ------------------------------
(***************************************************************************)
(* hardware/apic/timer.c after init_apic_timer_interrupt, with the way an  *)
(* interrupt of vector 34 reaches its handler (x86_64/idt.c) and is        *)
(* acknowledged (send_eoi of apic.c).                                      *)
(*                                                                         *)
(* Every core has a local APIC timer of the same period and runs the same  *)
(* handler, which counts apic_ticks up without a lock.  sleep halts its    *)
(* core until the counter reaches a target.                                *)
(*                                                                         *)
(* Left out: sleep_count_down, which nothing ever sets, and last_refresh,  *)
(* whose only reader is a call that is commented out.                      *)
(***************************************************************************)
EXTENDS Naturals

CONSTANTS
    Cores,
    Sleepers,       \* the cores whose program may call sleep, again and again
    Bsp,            \* the core with APIC id 0, to which the I/O APIC sends
    Ticks,          \* the argument of sleep, in ticks
    AtaInterrupts,  \* how many interrupts the disk raises
    MaxTicks,       \* bound: apic_ticks is no longer told apart above it
    MaxPeriods      \* bound: as long a sleep is told apart

ASSUME CoreAssumption == Sleepers \subseteq Cores /\ Bsp \in Cores
ASSUME CountAssumption == Ticks \in Nat /\ AtaInterrupts \in Nat
ASSUME BoundAssumption ==
    /\ MaxTicks \in Nat /\ Ticks <= MaxTicks
    /\ MaxPeriods \in Nat /\ Ticks <= MaxPeriods + 1

VARIABLES
    started,        \* the cores that booted and started their timer
    apic_ticks,     \* the shared counter
    irr, isr,       \* each local APIC: vector 34 requested, in service
    interrupts,     \* each core's interrupt flag
    handler,        \* the next statement of apic_timer_interrupt_handler
    register,       \* apic_ticks++: the value between load and store, else 0
    task,           \* where the core is in sleep
    target_tick,    \* sleep: the local of that name
    ata,            \* interrupts the disk has still to raise
    periods         \* history: timer periods since the core called sleep

apic == <<irr, isr, interrupts>>
sleep == <<task, target_tick>>
vars == <<started, apic_ticks, apic, handler, register, sleep, ata, periods>>

Least(a, b) == IF a <= b THEN a ELSE b

\* The machine has some of the cores, the boot core among them.
Init ==
    /\ started \in {s \in SUBSET Cores : Bsp \in s}
    /\ apic_ticks = 0
    /\ irr = [c \in Cores |-> FALSE]
    /\ isr = [c \in Cores |-> FALSE]
    /\ interrupts = [c \in Cores |-> TRUE]
    /\ handler = [c \in Cores |-> "none"]
    /\ register = [c \in Cores |-> 0]
    /\ task = [c \in Cores |-> "running"]
    /\ target_tick = [c \in Cores |-> 0]
    /\ ata = AtaInterrupts
    /\ periods = [c \in Cores |-> 0]

-----------------------------------------------------------------------------
(* The hardware.                                                           *)

\* The timers, programmed to the same initial count, reach zero.  A request
\* that is still waiting absorbs the new one.
Period ==
    /\ irr' = [c \in Cores |-> irr[c] \/ c \in started]
    /\ periods' = [c \in Cores |-> Least(periods[c] + 1, MaxPeriods)]
    /\ UNCHANGED <<started, apic_ticks, isr, interrupts, handler, register, sleep, ata>>

\* ata_init routes IRQ 14 and IRQ 15 to vector 34 too.
AtaInterrupt ==
    /\ ata > 0
    /\ ata' = ata - 1
    /\ irr' = [irr EXCEPT ![Bsp] = TRUE]
    /\ UNCHANGED <<started, apic_ticks, isr, interrupts, handler, register, sleep, periods>>

\* The core takes the interrupt through the gate of vector 34, an interrupt
\* gate: the flag is cleared until the return.  A halted core wakes up.
TakeInterrupt(c) ==
    /\ irr[c] /\ ~isr[c] /\ interrupts[c]
    /\ irr' = [irr EXCEPT ![c] = FALSE]
    /\ isr' = [isr EXCEPT ![c] = TRUE]
    /\ interrupts' = [interrupts EXCEPT ![c] = FALSE]
    /\ handler' = [handler EXCEPT ![c] = "load"]
    /\ task' = [task EXCEPT ![c] = IF @ = "halted" THEN "woken" ELSE @]
    /\ UNCHANGED <<started, apic_ticks, register, target_tick, ata, periods>>

-----------------------------------------------------------------------------
(* apic_timer_interrupt_handler.                                           *)

LoadTicks(c) ==
    /\ handler[c] = "load"
    /\ register' = [register EXCEPT ![c] = apic_ticks]
    /\ handler' = [handler EXCEPT ![c] = "store"]
    /\ UNCHANGED <<started, apic_ticks, apic, sleep, ata, periods>>

\* Mutant: a tick counts double.
StoreTwo(c) ==
    /\ handler[c] = "store"
    /\ apic_ticks' = Least(register[c] + 2, MaxTicks)
    /\ register' = [register EXCEPT ![c] = 0]
    /\ handler' = [handler EXCEPT ![c] = "eoi"]
    /\ UNCHANGED <<started, apic, sleep, ata, periods>>

StoreTicks(c) ==
    /\ handler[c] = "store"
    /\ apic_ticks' = Least(register[c] + 1, MaxTicks)
    /\ register' = [register EXCEPT ![c] = 0]
    /\ handler' = [handler EXCEPT ![c] = "eoi"]
    /\ UNCHANGED <<started, apic, sleep, ata, periods>>

\* send_eoi and the return from the interrupt: nothing is delivered between.
SendEoi(c) ==
    /\ handler[c] = "eoi"
    /\ isr' = [isr EXCEPT ![c] = FALSE]
    /\ handler' = [handler EXCEPT ![c] = "none"]
    /\ interrupts' = [interrupts EXCEPT ![c] = TRUE]
    /\ UNCHANGED <<started, apic_ticks, irr, register, sleep, ata, periods>>

-----------------------------------------------------------------------------
(* sleep, which runs while its core is not in the handler.                 *)

At(c, place) == handler[c] = "none" /\ task[c] = place

\* Bound: sleep is called while its target can still be told apart.
CallSleep(c) ==
    /\ c \in Sleepers \cap started /\ At(c, "running")
    /\ apic_ticks + Ticks <= MaxTicks
    /\ target_tick' = [target_tick EXCEPT ![c] = apic_ticks + Ticks]
    /\ task' = [task EXCEPT ![c] = "check"]
    /\ periods' = [periods EXCEPT ![c] = 0]
    /\ UNCHANGED <<started, apic_ticks, apic, handler, register, ata>>

\* Mutant: hlt without the sti before it.
HaltDeaf(c) ==
    /\ At(c, "check") /\ apic_ticks < target_tick[c]
    /\ task' = [task EXCEPT ![c] = "halted"]
    /\ UNCHANGED <<started, apic_ticks, apic, handler, register, target_tick, ata, periods>>

\* sti; hlt: the flag takes effect after hlt has begun, so a waiting request
\* wakes the core and none is missed.
Halt(c) ==
    /\ At(c, "check") /\ apic_ticks < target_tick[c]
    /\ task' = [task EXCEPT ![c] = "halted"]
    /\ interrupts' = [interrupts EXCEPT ![c] = TRUE]
    /\ UNCHANGED <<started, apic_ticks, irr, isr, handler, register, target_tick, ata, periods>>

\* cli, after the handler has returned to the instruction behind hlt.
Cli(c) ==
    /\ At(c, "woken")
    /\ task' = [task EXCEPT ![c] = "check"]
    /\ interrupts' = [interrupts EXCEPT ![c] = FALSE]
    /\ UNCHANGED <<started, apic_ticks, irr, isr, handler, register, target_tick, ata, periods>>

\* sleep returns with the flag as the last cli left it.
Return(c) ==
    /\ At(c, "check") /\ apic_ticks >= target_tick[c]
    /\ task' = [task EXCEPT ![c] = "running"]
    /\ UNCHANGED <<started, apic_ticks, apic, handler, register, target_tick, ata, periods>>

-----------------------------------------------------------------------------
Handle(c) == TakeInterrupt(c) \/ LoadTicks(c) \/ StoreTicks(c) \/ SendEoi(c)

Sleep(c) == CallSleep(c) \/ Halt(c) \/ Cli(c) \/ Return(c)

Next ==
    \/ Period
    \/ AtaInterrupt
    \/ \E c \in Cores : Handle(c) \/ Sleep(c)

Spec == Init /\ [][Next]_vars

\* The timers run freely and a core that can take a step of the handler takes
\* one.  The period is 100 microseconds, much longer than the handler: between
\* interrupts a core gets to the program they interrupt again and again.
FairSpec ==
    /\ Spec
    /\ WF_vars(Period)
    /\ \A c \in Cores : WF_vars(Handle(c)) /\ SF_vars(Halt(c) \/ Cli(c) \/ Return(c))

-----------------------------------------------------------------------------
\* A core is in the handler exactly while the vector is in service, with the
\* interrupt flag off; a halted core can be woken.
TypeOK ==
    /\ Bsp \in started /\ started \subseteq Cores
    /\ apic_ticks \in 0 .. MaxTicks
    /\ irr \in [Cores -> BOOLEAN]
    /\ isr = [c \in Cores |-> handler[c] # "none"]
    /\ interrupts \in [Cores -> BOOLEAN]
    /\ handler \in [Cores -> {"none", "load", "store", "eoi"}]
    /\ register \in [Cores -> 0 .. MaxTicks]
    /\ task \in [Cores -> {"running", "check", "halted", "woken"}]
    /\ target_tick \in [Cores -> 0 .. MaxTicks]
    /\ ata \in 0 .. AtaInterrupts
    /\ periods \in [Cores -> 0 .. MaxPeriods]
    /\ \A c \in Cores : interrupts[c] => handler[c] = "none"
    /\ \A c \in Cores : task[c] = "halted" => interrupts[c]

\* sleep ends, although the cores that count lose each other's ticks and a
\* late store can even set the counter back.
SleepReturns ==
    \A c \in Sleepers : task[c] # "running" ~> task[c] = "running"

\* With one core, sleep(n) lasts n periods of the timer; the first may have
\* begun before.  (The disk's interrupts count as ticks and cut it short, and
\* every further core counts its own.)
SleepsLongEnough ==
    [][\A c \in Sleepers :
          /\ started = {c} /\ ata = AtaInterrupts
          /\ task[c] = "check" /\ task'[c] = "running"
          => periods[c] + 1 >= Ticks]_vars
=============================================================================
