------------------------------- MODULE IoApic -------------------------------
(***************************************************************************)
(* The I/O APIC and its driver, hardware/apic/ioapic.c.  Its registers are *)
(* reached through a window: one store selects a register, a second access *)
(* reads or writes it, and nothing keeps two cores from using the window   *)
(* at once.  A call of the driver is a sequence of such accesses, which    *)
(* Access takes one by one.                                                *)
(*                                                                         *)
(* Of a register the model keeps the vector and the mask bit; the upper    *)
(* registers of the redirection entries only ever receive zeros.           *)
(***************************************************************************)
EXTENDS Naturals, Sequences, SequencesExt

CONSTANTS
    Cores,
    LastIrq         \* the last redirection entry

ASSUME LastIrqAssumption == LastIrq \in Nat /\ LastIrq >= 1

VARIABLES
    index,          \* the register the window shows
    low,            \* the lower registers of the redirection entries
    value,          \* each core's local of that name
    todo            \* the accesses each core's call has still to make

ioapicVars == <<index, low, value, todo>>

Irqs == 0 .. LastIrq

Word(vector, masked) == [vector |-> vector, masked |-> masked]
Zeros == Word("none", FALSE)

Low(i) == <<"low", i>>
High(i) == <<"high", i>>
Version == <<"version", 0>>
Absent == <<"absent", 0>>   \* a register the chip does not have
Registers == {Low(i) : i \in Irqs} \cup {High(i) : i \in Irqs} \cup {Version, Absent}

\* The version register has the number of the last entry, 23, above bit 16.
Read(register) ==
    CASE register[1] = "low" -> low[register[2]]
      [] register = Version -> Word("version", TRUE)
      [] OTHER -> Zeros

\* Bits 16 to 23 of what was read: of a redirection entry only bit 16 is set.
MaxEntry(word) ==
    IF word.vector = "version" THEN LastIrq ELSE IF word.masked THEN 1 ELSE 0

-----------------------------------------------------------------------------
(* The calls as sequences of accesses.                                     *)

Select(r) == [kind |-> "select", register |-> r]
ReadValue == [kind |-> "read"]
ReadMax == [kind |-> "read max"]
Write(w) == [kind |-> "write", word |-> w]
WriteMask(m) == [kind |-> "write mask", masked |-> m]

\* ioapic_read, then ioapic_write of the value with another mask bit.
ChangeMask(register, masked) ==
    <<Select(register), ReadValue, Select(register), WriteMask(masked)>>

mask_all_ioapic_vectors == <<Select(Version), ReadMax>>
MaskUpTo(max) == FlattenSeq([k \in 1 .. max + 1 |-> ChangeMask(Low(k - 1), TRUE)])

\* Mutant: the entry is written masked.
SetIrqMasked(irq, vector) ==
    <<Select(High(irq)), Write(Zeros), Select(Low(irq)), Write(Word(vector, TRUE))>>

ioapic_set_irq(irq, vector) ==
    <<Select(High(irq)), Write(Zeros), Select(Low(irq)), Write(Word(vector, FALSE))>>

\* enable_keyboard passes the vector, 33, where the IRQ is expected.
ioapic_unmask_irq(irq) == ChangeMask(IF irq \in Irqs THEN Low(irq) ELSE Absent, FALSE)

-----------------------------------------------------------------------------
IoApicInit ==
    /\ index = Absent
    /\ low = [i \in Irqs |-> Word("none", TRUE)]
    /\ value = [c \in Cores |-> Zeros]
    /\ todo = [c \in Cores |-> << >>]

Put(register, word) ==
    low' = IF register[1] = "low" THEN [low EXCEPT ![register[2]] = word] ELSE low

\* The next access of the core's call.
Access(c) ==
    /\ todo[c] # << >>
    /\ LET a == Head(todo[c])
           rest == [todo EXCEPT ![c] = Tail(@)]
       IN  \/ /\ a.kind = "select"
              /\ index' = a.register /\ todo' = rest
              /\ UNCHANGED <<low, value>>
           \/ /\ a.kind = "read"
              /\ value' = [value EXCEPT ![c] = Read(index)] /\ todo' = rest
              /\ UNCHANGED <<index, low>>
           \/ /\ a.kind = "read max"
              /\ todo' = [todo EXCEPT ![c] = MaskUpTo(MaxEntry(Read(index))) \o Tail(@)]
              /\ UNCHANGED <<index, low, value>>
           \/ /\ a.kind = "write"
              /\ Put(index, a.word) /\ todo' = rest
              /\ UNCHANGED <<index, value>>
           \/ /\ a.kind = "write mask"
              /\ Put(index, [value[c] EXCEPT !.masked = a.masked]) /\ todo' = rest
              /\ value' = [value EXCEPT ![c] = Zeros]
              /\ UNCHANGED index

\* The entry sends its interrupts to the vector.
Routed(irq, vector) == low[irq] = Word(vector, FALSE)
=============================================================================
