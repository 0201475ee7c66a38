------------------------------ MODULE MCDevices ------------------------------
(***************************************************************************)
(* What interrupts or several cores share, side by side: the timers and    *)
(* sleep (ApicTimer), the search for the interrupt controllers (Acpi).     *)
(* The two have no state in common.  A behaviour is one of a single        *)
(* system, whichever is active; the other stays in one of its initial      *)
(* states.                                                                 *)
(***************************************************************************)
EXTENDS ApicTimer, Integers, Sequences

CONSTANTS
    Processors, BootCore, Firmwares

\* The entries of a MADT, with any type and length, and addresses.
ASSUME FirmwareAssumption == \A f \in Firmwares :
    /\ f.entries \in Seq([type : Nat, length : Nat, address : Int])
    /\ f.address \in Int

VARIABLES
    active,         \* the system that runs: "timer", "acpi"
    firmware, rsdt_bool, xsdt_bool, hpet, apic_base_address,
    ioapic_base_address, step, entry, used

Firmware == INSTANCE Acpi

-----------------------------------------------------------------------------
LocalApic(length) == [type |-> 0, length |-> length, address |-> 0]
IoApic(address) == [type |-> 1, length |-> 2, address |-> address]
Tables(root, listed, entries) ==
    [root |-> root, listed |-> listed, address |-> 1, entries |-> entries]

\* An RSDT and two I/O APICs, an XSDT and one, a damaged entry, no MADT, and no
\* root table.
Machines ==
    {Tables("RSDT", <<"FACP", "APIC">>, <<LocalApic(1), IoApic(2), LocalApic(1), IoApic(3)>>),
     Tables("XSDT", <<"APIC", "HPET">>, <<LocalApic(1), LocalApic(1), IoApic(2), LocalApic(1)>>),
     Tables("XSDT", <<"APIC">>, <<LocalApic(0), IoApic(2)>>),
     Tables("RSDT", <<"FACP">>, <<>>),
     Tables("BAD", <<"APIC">>, <<>>)}

-----------------------------------------------------------------------------
firmwareVars == <<firmware, rsdt_bool, xsdt_bool, hpet, apic_base_address,
                  ioapic_base_address, step, entry, used>>
allVars == <<active, vars, firmwareVars>>

AllInit ==
    /\ active \in {"timer", "acpi"}
    /\ Init /\ (active # "timer" => started = {Bsp})
    /\ Firmware!Init /\ (active # "acpi" => firmware = CHOOSE f \in Firmwares : TRUE)

AllNext ==
    /\ UNCHANGED active
    /\ \/ active = "timer" /\ Next /\ UNCHANGED firmwareVars
       \/ active = "acpi" /\ Firmware!Next /\ UNCHANGED vars

\* The fairness of ApicTimer, when it is active.
AllFairSpec ==
    /\ AllInit /\ [][AllNext]_allVars
    /\ WF_vars(active = "timer" /\ Period)
    /\ \A c \in Cores :
        /\ WF_vars(active = "timer" /\ Handle(c))
        /\ SF_vars(active = "timer" /\ (Halt(c) \/ Cli(c) \/ Return(c)))

-----------------------------------------------------------------------------
\* SleepReturns and SleepsLongEnough of ApicTimer keep their names.

\* Acpi: the cores that run parse_madt at once agree with the firmware.
AddressesFromMadt == Firmware!AddressesFromMadt
=============================================================================
