--------------------------------- MODULE Acpi ---------------------------------
(***************************************************************************)
(* How the cores find their interrupt controllers: parse_acpi, the search  *)
(* of a table and print_sdt_type (hardware/acpi/acpi.c), parse_madt        *)
(* (tables/madt.c), hpet_initialize (tables/hpet.c), and the functions     *)
(* that read the result, apic_init and ioapic_init.  _start runs them on   *)
(* every core and the results are the same few static variables.           *)
(*                                                                         *)
(* The firmware's tables are constant: the root table's signature, the     *)
(* signatures it lists, the MADT's controller address and its entries.     *)
(* The checksum has no consequence and is left out; behind an XSDT it is   *)
(* computed over address 0, as rsdt is NULL.                               *)
(***************************************************************************)
EXTENDS Integers, Sequences

CONSTANTS
    Processors, BootCore,
    Firmwares       \* [root, listed, address, entries : sequence of
                    \* [type, length, address]]; an address is not 0

VARIABLES
    firmware,
    rsdt_bool, xsdt_bool, hpet,
    apic_base_address, ioapic_base_address,
    step,           \* what each core does next
    entry,          \* its entry of the MADT
    used            \* the addresses its apic_init and ioapic_init have read

tables == <<firmware, rsdt_bool, xsdt_bool, hpet>>
addresses == <<apic_base_address, ioapic_base_address>>
vars == <<tables, addresses, step, entry, used>>

Init ==
    /\ firmware \in Firmwares
    /\ rsdt_bool = FALSE /\ xsdt_bool = FALSE /\ hpet = 0
    /\ apic_base_address = 0 /\ ioapic_base_address = 0
    /\ step = [c \in Processors |-> "parse_acpi"]
    /\ entry = [c \in Processors |-> 1]
    /\ used = [c \in Processors |-> [lapic |-> -1, ioapic |-> -1]]

Goto(c, there) == step' = [step EXCEPT ![c] = there]

\* The first table with a signature, 0 for none.
Found(signature) == {i \in DOMAIN firmware.listed : firmware.listed[i] = signature}
find_version_1_table(signature) ==
    IF Found(signature) = {} THEN 0
    ELSE CHOOSE i \in Found(signature) : \A j \in Found(signature) : i <= j
find_version_2_up_table(signature) == find_version_1_table(signature)

Madt ==
    CASE firmware.root = "RSDT" -> find_version_1_table("APIC")
      [] firmware.root = "XSDT" -> find_version_2_up_table("APIC")
      [] OTHER -> 0

parse_acpi(c) ==
    /\ step[c] = "parse_acpi"
    /\ rsdt_bool' = (rsdt_bool \/ firmware.root = "RSDT")
    /\ xsdt_bool' = (xsdt_bool \/ firmware.root = "XSDT")
    /\ Goto(c, IF Madt = 0 THEN "apic_init" ELSE "parse_madt")
    /\ UNCHANGED <<firmware, hpet, addresses, entry, used>>

\* The walk over the entries ends behind the last; one of length 0 is never
\* left.
AtEntry(c) == entry[c] \in DOMAIN firmware.entries
Entry(c) == firmware.entries[entry[c]]
Forward(c) == entry' = [entry EXCEPT ![c] = IF Entry(c).length = 0 THEN @ ELSE @ + 1]
Leave(c, there) == ~AtEntry(c) /\ Goto(c, there) /\ entry' = [entry EXCEPT ![c] = 1]

\* Mutant: an entry of another type resets the address.
ParseResetting(c) ==
    /\ step[c] = "parse_madt" /\ AtEntry(c)
    /\ apic_base_address' = firmware.address
    /\ ioapic_base_address' = IF Entry(c).type = 1 THEN Entry(c).address ELSE 0
    /\ Forward(c)
    /\ UNCHANGED <<tables, step, used>>

ParseEntry(c) ==
    /\ step[c] = "parse_madt" /\ AtEntry(c)
    /\ apic_base_address' = firmware.address
    /\ ioapic_base_address' =
          IF Entry(c).type = 1 THEN Entry(c).address ELSE ioapic_base_address
    /\ Forward(c)
    /\ UNCHANGED <<tables, step, used>>

parse_madt(c) ==
    \/ ParseEntry(c)
    \/ /\ step[c] = "parse_madt" /\ Leave(c, "apic_init")
       /\ UNCHANGED <<tables, addresses, used>>

apic_init(c) ==
    /\ step[c] = "apic_init" /\ Goto(c, "ioapic_init")
    /\ used' = [used EXCEPT ![c].lapic = apic_base_address]
    /\ UNCHANGED <<tables, addresses, entry>>

ioapic_init(c) ==
    /\ step[c] = "ioapic_init"
    /\ used' = [used EXCEPT ![c].ioapic = ioapic_base_address]
    /\ Goto(c, IF c = BootCore /\ Madt # 0 THEN "print" ELSE "hpet")
    /\ UNCHANGED <<tables, addresses, entry>>

\* print_sdt_type walks the entries again and stores nothing.
print_sdt_type(c) ==
    /\ step[c] = "print"
    /\ \/ AtEntry(c) /\ Forward(c) /\ UNCHANGED step
       \/ Leave(c, "hpet")
    /\ UNCHANGED <<tables, addresses, used>>

\* No caller.  The signature is misspelt, so no firmware has the table.
hpet_initialize(c) ==
    /\ step[c] = "hpet" /\ Goto(c, "done")
    /\ hpet' = CASE rsdt_bool -> find_version_1_table("HEPT")
                 [] ~rsdt_bool /\ xsdt_bool -> find_version_2_up_table("HEPT")
                 [] OTHER -> hpet
    /\ UNCHANGED <<firmware, rsdt_bool, xsdt_bool, addresses, entry, used>>

Next ==
    \E c \in Processors :
        \/ parse_acpi(c) \/ parse_madt(c) \/ apic_init(c) \/ ioapic_init(c)
        \/ print_sdt_type(c) \/ hpet_initialize(c)

Spec == Init /\ [][Next]_vars

-----------------------------------------------------------------------------
IoApics == {firmware.entries[i].address :
                i \in {j \in DOMAIN firmware.entries : firmware.entries[j].type = 1}}

\* Each core parses the tables anew while others use the result: still every
\* core programs the firmware's local APIC and, where the MADT lists I/O
\* APICs, one of them (the same on all cores when there is one).
AddressesFromMadt ==
    Madt # 0 /\ firmware.entries # <<>> =>
        \A c \in Processors :
            /\ used[c].lapic \in {-1, firmware.address}
            /\ used[c].ioapic \in {-1} \cup (IF IoApics = {} THEN {0} ELSE IoApics)
=============================================================================
