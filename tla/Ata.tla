--------------------------------- MODULE Ata ---------------------------------
(***************************************************************************)
(* The disk driver (hardware/storage/ata.c) on one channel with two        *)
(* drives; the second channel is a copy.  The driver polls: it writes the  *)
(* registers and a command, waits until the drive is not busy or gives up  *)
(* after 1000 polls, and moves the data.  A drive that is still busy then  *)
(* ignores what the next call writes.                                      *)
(*                                                                         *)
(* The drives are external: they take the position from the LBA registers  *)
(* (the driver never sets the bit that asks for this), fail any sector,    *)
(* and a command written between two sectors ends the one before.  The     *)
(* registers keep the last two values written.  The texts of IDENTIFY are  *)
(* left out.                                                               *)
(***************************************************************************)
EXTENDS Integers, Sequences

CONSTANTS
    DriveKinds,     \* pairs of "disk", "big", "signed", "atapi", "none"
    Low,            \* the values of the three lower LBA registers
    CountLow,       \* the values of a count register
    Limit,          \* the sectors 28 bits can address; Low times the device's four bits
    Lbas, Counts    \* the arguments of the calls

VARIABLES
    kinds, present, is_sata, large,     \* drives[]: large for capacity > Limit
    selected, cur, prev,                \* the registers: [lba, count] each
    command, pos, left, busy, drq, err, \* the drive that has the command
    task, drive, lba, sector_count,     \* the call and its arguments
    at, i, result,
    clean,          \* the drive was not busy when the call began
    got, stored     \* sectors put into the buffer; sectors the drive stored

info == <<kinds, present, is_sata, large>>
registers == <<selected, cur, prev>>
device == <<command, pos, left, busy, drq, err>>
call == <<task, drive, lba, sector_count, clean>>
vars == <<info, registers, device, call, at, i, result, got, stored>>

Kind == kinds[selected + 1]
Capacity(kind) == IF kind = "big" THEN Limit + Low ELSE Limit
Zero == [lba |-> 0, count |-> 0]

Init ==
    /\ kinds \in DriveKinds
    /\ present = [d \in 0 .. 1 |-> FALSE] /\ is_sata = present /\ large = present
    /\ selected = 0 /\ cur = Zero /\ prev = Zero
    /\ command = "none" /\ pos = 0 /\ left = 0
    /\ busy = FALSE /\ drq = FALSE /\ err = FALSE
    /\ task = "identify" /\ drive = 0 /\ lba = 0 /\ sector_count = 0 /\ clean = TRUE
    /\ at = "load" /\ i = 0 /\ result = 0
    /\ got = <<>> /\ stored = {}

-----------------------------------------------------------------------------
(* The drive.                                                              *)

Quiet == busy' = FALSE /\ drq' = FALSE /\ err' = FALSE
Ready == busy' = FALSE /\ drq' = TRUE /\ err' = FALSE
Fail == busy' = FALSE /\ drq' = FALSE /\ err' = TRUE

\* The drive does what it was busy with, or fails.  In a write, drq before the
\* command's first sector and between two others asks for data.
Work ==
    /\ busy
    /\ \/ Fail /\ UNCHANGED <<pos, left, stored>>
       \/ /\ command = "FLUSH" /\ Quiet /\ UNCHANGED <<pos, left, stored>>
       \/ /\ Kind \notin {"atapi", "none"}
          /\ command \in {"IDENTIFY", "READ", "WRITE"}
          /\ command = "READ" => pos < Capacity(Kind)
          /\ Ready /\ UNCHANGED <<pos, left, stored>>
       \/ /\ command = "STORE" /\ pos < Capacity(Kind)
          /\ stored' = stored \cup {pos} /\ pos' = pos + 1 /\ left' = left - 1
          /\ IF left = 1 THEN Quiet ELSE Ready
    /\ command' = IF command = "STORE" THEN "WRITE" ELSE command
    /\ UNCHANGED <<info, registers, call, at, i, result, got>>

\* What the registers say a command is about.
Position(ext) == cur.lba + (IF ext THEN Low * prev.lba ELSE 0)
Amount(ext) ==
    LET n == cur.count + (IF ext THEN CountLow * prev.count ELSE 0)
    IN  IF n > 0 THEN n ELSE IF ext THEN CountLow * CountLow ELSE CountLow

Accept(cmd, ext) ==
    IF busy \/ Kind = "none" THEN UNCHANGED device
    ELSE /\ command' = cmd /\ pos' = Position(ext) /\ left' = Amount(ext)
         /\ busy' = TRUE /\ drq' = FALSE /\ err' = FALSE

-----------------------------------------------------------------------------
(* The driver.                                                             *)

Return(value) == at' = "done" /\ result' = value
Stay == UNCHANGED result

\* ata_init identifies every drive before anything is read or written.
Begin(what, d, l, n) ==
    /\ task' = what /\ drive' = d /\ lba' = l /\ sector_count' = n
    /\ clean' = ~busy /\ at' = "load" /\ i' = 0 /\ got' = <<>> /\ stored' = {}
    /\ UNCHANGED <<info, registers, device, result>>

ata_init == at = "done" /\ task = "identify" /\ drive = 0 /\ Begin("identify", 1, 0, 0)

Called == at = "done" /\ (task = "identify" => drive = 1)

ata_read_sectors ==
    /\ Called
    /\ \E d \in 0 .. 1, l \in Lbas, n \in Counts : present[d] /\ Begin("read", d, l, n)

ata_write_sectors ==
    /\ Called
    /\ \E d \in 0 .. 1, l \in Lbas, n \in Counts : present[d] /\ Begin("write", d, l, n)

Ext == task # "identify" /\ (large[drive] \/ lba >= Limit)

\* Mutant: the high bytes are written after the low ones.
LoadSwapped ==
    /\ prev' = [lba |-> lba % Low, count |-> sector_count % CountLow]
    /\ cur' = IF Ext THEN [lba |-> lba \div Low, count |-> sector_count \div CountLow] ELSE prev'

\* Each register keeps the value before the last.
Load ==
    /\ cur' = [lba |-> lba % Low, count |-> sector_count % CountLow]
    /\ prev' = IF Ext THEN [lba |-> lba \div Low, count |-> sector_count \div CountLow] ELSE cur

ata_select_drive ==
    /\ at = "load" /\ at' = "command"
    /\ IF busy THEN UNCHANGED registers ELSE selected' = drive /\ Load
    /\ UNCHANGED <<info, device, call, i, result, got, stored>>

Commands == [identify |-> "IDENTIFY", read |-> "READ", write |-> "WRITE"]

ata_command ==
    /\ at = "command" /\ Accept(Commands[task], Ext)
    /\ IF task # "identify" /\ sector_count = 0 THEN Return(1) ELSE at' = "wait" /\ Stay
    /\ UNCHANGED <<info, registers, call, i, got, stored>>

\* ata_wait_ready: not busy in time, or not.
Answers == ~busy /\ Kind # "none"
GivesUp == busy \/ Kind = "none"

ata_wait_ready ==
    /\ at = "wait"
    /\ \/ Answers /\ at' = "data" /\ UNCHANGED <<present, result>>
       \/ /\ GivesUp /\ Return(0)
          /\ present' = IF task = "identify" THEN [present EXCEPT ![drive] = FALSE] ELSE present
    /\ UNCHANGED <<kinds, is_sata, large, registers, device, call, i, got, stored>>

\* No status is looked at: what a drive that fails IDENTIFY leaves on the data
\* port is taken for its description.
ata_identify ==
    /\ at = "data" /\ task = "identify" /\ Return(1)
    /\ present' = [present EXCEPT ![drive] = TRUE]
    /\ \E sata, big \in BOOLEAN :
        /\ drq /\ command = "IDENTIFY" =>
              sata = (Kind = "signed") /\ big = (Capacity(Kind) > Limit)
        /\ is_sata' = [is_sata EXCEPT ![drive] = sata]
        /\ large' = [large EXCEPT ![drive] = big]
    /\ drq' = FALSE
    /\ UNCHANGED <<kinds, registers, command, pos, left, busy, err, call, i, got, stored>>

\* in_sw: the drive's sector, or whatever the port gives without a request.
ReadData ==
    IF drq /\ command = "READ"
    THEN /\ got' = Append(got, pos) /\ pos' = pos + 1 /\ left' = left - 1
         /\ drq' = FALSE /\ busy' = (left > 1) /\ UNCHANGED <<command, err>>
    ELSE got' = Append(got, -1) /\ UNCHANGED device

Advance == i' = i + 1 /\ IF i + 1 = sector_count THEN Return(1) ELSE at' = "wait" /\ Stay

\* Mutant: the error bit is not tested.
ReadUntested ==
    /\ at = "data" /\ task = "read" /\ ReadData /\ Advance
    /\ UNCHANGED <<info, registers, call, stored>>

\* The request is not tested.
ReadSector ==
    /\ at = "data" /\ task = "read"
    /\ IF err THEN Return(0) /\ UNCHANGED <<device, i, got>> ELSE ReadData /\ Advance
    /\ UNCHANGED <<info, registers, call, stored>>

\* out_sw: the drive takes the sector when it asked for one.
WriteSector ==
    /\ at = "data" /\ task = "write"
    /\ IF ~drq THEN Return(0) /\ UNCHANGED device
       ELSE /\ IF command = "WRITE"
               THEN command' = "STORE" /\ busy' = TRUE /\ drq' = FALSE
               ELSE UNCHANGED <<command, busy, drq>>
            /\ at' = IF i + 1 = sector_count \/ is_sata[drive] THEN "flush" ELSE "next"
            /\ Stay /\ UNCHANGED <<pos, left, err>>
    /\ UNCHANGED <<info, registers, call, i, got, stored>>

Flush ==
    /\ at = "flush" /\ Accept("FLUSH", FALSE) /\ at' = "flushed"
    /\ UNCHANGED <<info, registers, call, i, result, got, stored>>

\* The wait behind the flush may fail without consequence.
NextSector ==
    /\ \/ at = "next"
       \/ at = "flushed" /\ (Answers \/ GivesUp)
    /\ Advance
    /\ UNCHANGED <<info, registers, device, call, got, stored>>

Next ==
    \/ Work
    \/ ata_init \/ ata_read_sectors \/ ata_write_sectors
    \/ ata_select_drive \/ ata_command \/ ata_wait_ready
    \/ ata_identify \/ ReadSector \/ WriteSector \/ Flush \/ NextSector

Spec == Init /\ [][Next]_vars

-----------------------------------------------------------------------------
\* The calls for which the registers can say what is meant: bits 24 to 27 of
\* a position have no register in a 28-bit command, nor have the upper eight
\* bits of a count.
Expressible ==
    sector_count > 0 /\ (Ext \/ (lba + sector_count <= Low /\ sector_count <= CountLow))

Asked == lba .. lba + sector_count - 1

\* A read that reports success has put the sectors that were asked for into
\* the buffer, in order, though errors come at any sector and the request is
\* never tested, if the drive was not busy with an older command.
ReadsAreExact ==
    task = "read" /\ at = "done" /\ result = 1 /\ clean /\ Expressible
    => got = [k \in 1 .. sector_count |-> lba + k - 1]

\* A write stores nothing but the sectors that were asked for, and one that
\* reports success has stored all of them but, perhaps, the last: a failure of
\* that one is not noticed.
WritesAreWhereAsked ==
    task = "write" /\ clean /\ Expressible
    => /\ stored \subseteq Asked
       /\ at = "done" /\ result = 1 => Asked \ {lba + sector_count - 1} \subseteq stored
=============================================================================
