--------------------------- MODULE ServicesProofs ---------------------------
(***************************************************************************)
(* Theorems about the systems of MCServices for every value of their       *)
(* constants: the disk driver (Drives, of Ata), the file system            *)
(* (FileSystem, of Fsz), the scheduler (Threading), the windows (Desk),    *)
(* the game (Game), the C library (Library, of CLib) and the page          *)
(* allocator (Phys, whose names have no prefix), and all systems side by   *)
(* side.  What PmmProofs proves of the block manager is carried over to    *)
(* its copy here (Lists).                                                  *)
(*                                                                         *)
(* Lemmas about numbers and sequences that several parts need come first.  *)
(* Each part has an inductive invariant of the system, one lemma for each  *)
(* action or group of actions that keep it, and a theorem about the        *)
(* system's own specification.  The last part carries these over to        *)
(* MCServices: a behaviour there is one of each of the systems.            *)
(***************************************************************************)
EXTENDS MCServices, TLAPS, FiniteSetTheorems, SequenceTheorems, WellFoundedInduction

-----------------------------------------------------------------------------
(* Numbers and sequences.                                                  *)

\* A set of natural numbers has a least one.
LEMMA LeastExists ==
    ASSUME NEW S \in SUBSET Nat, S # {}
    PROVE  \E i \in S : \A j \in S : i <= j
<1>1. IsWellFoundedOn(OpToRel(<, Nat), Nat)
    BY NatLessThanWellFounded
<1> DEFINE R == OpToRel(<, Nat)
<1> HIDE DEF R
<1>2. PICK i \in S : \A j \in S : ~ (<<j, i>> \in R)
    BY <1>1, WFMin DEF R
<1>3. \A j \in S : ~ (j < i)
    BY <1>2 DEF R, OpToRel
<1> QED BY <1>3

\* The rest of a number less than the divisor, and less than twice the divisor.
LEMMA ModSmall == \A w \in Nat \ {0} : \A a \in 0 .. w - 1 : a % w = a
    OBVIOUS

LEMMA ModOnce == \A w \in Nat \ {0} : \A a \in w .. 2 * w - 1 : a % w = a - w
    OBVIOUS

\* A sequence with one place changed is a sequence of the same length.
LEMMA ReplacedIsSequence ==
    ASSUME NEW S, NEW s \in Seq(S), NEW i, NEW e \in S
    PROVE  [s EXCEPT ![i] = e] \in Seq(S) /\ DOMAIN [s EXCEPT ![i] = e] = DOMAIN s
<1> DEFINE r == [s EXCEPT ![i] = e]
<1>1. PICK n \in Nat : s \in [1 .. n -> S]
    OBVIOUS
<1>2. r \in [1 .. n -> S] /\ DOMAIN r = DOMAIN s
    BY <1>1
<1> HIDE DEF r
<1>3. r \in Seq(S)
    BY <1>2
<1> QED BY <1>2, <1>3 DEF r

-----------------------------------------------------------------------------
(* The disk driver.                                                        *)

Reading == task = "read" /\ clean /\ Drives!Expressible
Writing == task = "write" /\ clean /\ Drives!Expressible

\* The first n sectors that a call asks for.
Sectors(n) == [k \in 1 .. n |-> lba + k - 1]

\* Before the command the drive rests, and then the registers say what the call
\* is about.
LoadedInv ==
    /\ at \in {"load", "command"} => ~ busy /\ sector = 0 /\ got = <<>> /\ stored = {}
    /\ at = "command" =>
        /\ cur = [lba |-> lba % Low, count |-> sector_count % CountLow]
        /\ Drives!Ext => prev = [lba |-> lba \div Low, count |-> sector_count \div CountLow]

\* Whenever the driver looks at the drive, that works on the next sector, has it
\* or has failed.
ReadInv ==
    /\ at \in {"wait", "data"} /\ Drives!Kind # "none" =>
        /\ command = "READ" /\ sector \in Nat /\ sector < sector_count
        /\ got = Sectors(sector) /\ pos = lba + sector /\ left = sector_count - sector
        /\ busy \/ drq \/ err
        /\ busy => ~ drq /\ ~ err
    /\ at = "data" => Drives!Kind # "none" /\ ~ busy
    /\ at = "done" /\ result = 1 => got = Sectors(sector_count)

\* What the drive has stored of a write, as long as no flush has ended it.
Progress ==
    /\ pos \in Int /\ left \in Int /\ lba <= pos /\ left >= 0
    /\ pos + left = lba + sector_count /\ stored = lba .. pos - 1

\* The sectors given to the drive.
Sent == IF at \in {"flush", "flushed", "next"} THEN sector + 1 ELSE sector

\* The drive asks for a sector when it has stored all it was given; a flush that
\* it takes ends the write, and it asks for none.
WriteInv ==
    /\ stored \subseteq Drives!Asked
    /\ at \notin {"load", "command"} /\ busy /\ command = "STORE" => Progress /\ left >= 1
    /\ at \in {"wait", "data", "flush", "flushed", "next"} /\ Drives!Kind # "none" =>
        /\ command \in {"WRITE", "STORE", "FLUSH"} /\ sector \in Nat /\ sector < sector_count
        /\ busy => ~ drq
        /\ command \in {"WRITE", "STORE"} => Progress
        /\ command = "STORE" => busy /\ left >= 1 /\ pos + 1 = lba + Sent
        /\ command = "WRITE" /\ (drq \/ busy) => left >= 1 /\ pos = lba + Sent
        /\ drq => command = "WRITE"
    /\ at \in {"flush", "flushed", "next"} => lba .. lba + sector - 1 \subseteq stored
    /\ at \in {"data", "flush", "flushed", "next"} => Drives!Kind # "none"
    /\ at = "wait" /\ Drives!Kind = "none" => ~ busy
    /\ at = "data" => ~ busy
    /\ at = "done" /\ result = 1 => Drives!Asked \ {lba + sector_count - 1} \subseteq stored

DriveInv ==
    /\ task \in {"identify", "read", "write"} /\ lba \in Nat /\ sector_count \in Nat
    /\ busy \in BOOLEAN /\ drq \in BOOLEAN /\ err \in BOOLEAN
    /\ at \in {"load", "command", "wait", "data", "flush", "flushed", "next", "done"}
    /\ at \in {"flush", "flushed", "next"} => task = "write"
    /\ Reading \/ Writing => LoadedInv
    /\ Reading => ReadInv
    /\ Writing => WriteInv

LEMMA Digits == \A n \in Nat, b \in Nat \ {0} : (n % b) + b * (n \div b) = n
    OBVIOUS

\* The position and the count in the registers are those of the call.
LEMMA RegistersSayAll ==
    ASSUME DriveInv, LoadedInv, at = "command", Drives!Expressible, task # "identify"
    PROVE  Drives!Position(Drives!Ext) = lba /\ Drives!Amount(Drives!Ext) = sector_count
<1>1. /\ cur.lba = lba % Low /\ cur.count = sector_count % CountLow
      /\ Drives!Ext => prev.lba = lba \div Low /\ prev.count = sector_count \div CountLow
    BY DEF LoadedInv
<1>2. lba \in Nat /\ sector_count \in Nat \ {0} /\ Low \in Nat \ {0} /\ CountLow \in Nat \ {0}
    BY RegisterAssumption DEF DriveInv, Drives!Expressible
<1>3. CASE Drives!Ext
    <2>1. (lba % Low) + Low * (lba \div Low) = lba
          /\ (sector_count % CountLow) + CountLow * (sector_count \div CountLow) = sector_count
        BY <1>2, Digits
    <2>2. Drives!Position(TRUE) = lba
        BY <1>1, <1>3, <2>1 DEF Drives!Position
    <2>3. Drives!Amount(TRUE) = sector_count
        BY <1>1, <1>2, <1>3, <2>1 DEF Drives!Amount
    <2> QED BY <1>3, <2>2, <2>3 DEF Drives!Position, Drives!Amount
<1>4. CASE ~ Drives!Ext
    <2>1. lba \in 0 .. Low - 1 /\ sector_count <= CountLow
        BY <1>2, <1>4 DEF Drives!Expressible
    <2>2. lba % Low = lba
        BY <1>2, <2>1, ModSmall
    <2>3. sector_count % CountLow = IF sector_count = CountLow THEN 0 ELSE sector_count
        <3>1. CASE sector_count = CountLow
            BY <1>2, <3>1
        <3>2. CASE sector_count # CountLow
            BY <1>2, <2>1, <3>2, ModSmall
        <3> QED BY <3>1, <3>2
    <2>4. Drives!Position(FALSE) = lba
        BY <1>1, <1>2, <2>2 DEF Drives!Position
    <2>5. Drives!Amount(FALSE) = sector_count
        BY <1>1, <1>2, <2>3 DEF Drives!Amount
    <2> QED BY <1>4, <2>4, <2>5 DEF Drives!Position, Drives!Amount
<1> QED BY <1>3, <1>4

LEMMA NextSectorGot ==
    ASSUME lba \in Nat, NEW n \in Nat
    PROVE  Append(Sectors(n), lba + n) = Sectors(n + 1)
<1>1. Sectors(n) \in Seq(Int) /\ Len(Sectors(n)) = n
    BY DEF Sectors
<1>2. Append(Sectors(n), lba + n) \in [1 .. n + 1 -> Int]
    <2>1. Append(Sectors(n), lba + n) \in Seq(Int) /\ Len(Append(Sectors(n), lba + n)) = n + 1
        BY <1>1
    <2>2. \A s \in Seq(Int) : s \in [1 .. Len(s) -> Int]
        BY LenProperties
    <2> QED BY <2>1, <2>2
<1>3. \A k \in 1 .. n + 1 : Append(Sectors(n), lba + n)[k] = lba + k - 1
    BY <1>1 DEF Sectors
<1>4. Sectors(n + 1) \in [1 .. n + 1 -> Int] /\ \A k \in 1 .. n + 1 : Sectors(n + 1)[k] = lba + k - 1
    BY DEF Sectors
<1> DEFINE f == Append(Sectors(n), lba + n)
           g == Sectors(n + 1)
<1>5. f \in [1 .. n + 1 -> Int] /\ g \in [1 .. n + 1 -> Int] /\ \A k \in 1 .. n + 1 : f[k] = g[k]
    BY <1>2, <1>3, <1>4
<1> HIDE DEF f, g
<1>6. f = g
    BY <1>5
<1> QED BY <1>6 DEF f, g
\* A call begins when the one before has ended, with the drive as that left it.
LEMMA BeginStep ==
    ASSUME DriveInv, NEW what \in {"identify", "read", "write"}, NEW d, NEW l \in Nat, NEW n \in Nat,
           Drives!Begin(what, d, l, n)
    PROVE  DriveInv'
<1>1. task' = what /\ lba' = l /\ sector_count' = n /\ at' = "load" /\ sector' = 0
      /\ got' = <<>> /\ stored' = {} /\ clean' = (~ busy) /\ UNCHANGED <<busy, drq, err>>
    BY DEF Drives!Begin, Drives!device
<1>2. task' \in {"identify", "read", "write"} /\ lba' \in Nat /\ sector_count' \in Nat
      /\ busy' \in BOOLEAN /\ drq' \in BOOLEAN /\ err' \in BOOLEAN
    BY <1>1 DEF DriveInv
<1>3. Reading' \/ Writing' => LoadedInv'
    BY <1>1 DEF LoadedInv, Reading, Writing
<1>4. ReadInv'
    BY <1>1 DEF ReadInv
<1>5. WriteInv'
    <2>1. stored' \subseteq Drives!Asked' /\ at' = "load"
        BY <1>1
    <2> QED BY <2>1 DEF WriteInv
<1> QED BY <1>1, <1>2, <1>3, <1>4, <1>5 DEF DriveInv

LEMMA CallStep ==
    ASSUME DriveInv, Drives!ata_init \/ Drives!ata_read_sectors \/ Drives!ata_write_sectors
    PROVE  DriveInv'
<1>1. CASE Drives!ata_init
    BY <1>1, BeginStep DEF Drives!ata_init
<1>2. CASE Drives!ata_read_sectors
    <2>1. PICK d \in 0 .. 1, l \in Lbas, n \in Counts : Drives!Begin("read", d, l, n)
        BY <1>2 DEF Drives!ata_read_sectors
    <2> QED BY <2>1, BeginStep, RegisterAssumption
<1>3. CASE Drives!ata_write_sectors
    <2>1. PICK d \in 0 .. 1, l \in Lbas, n \in Counts : Drives!Begin("write", d, l, n)
        BY <1>3 DEF Drives!ata_write_sectors
    <2> QED BY <2>1, BeginStep, RegisterAssumption
<1> QED BY <1>1, <1>2, <1>3

\* The steps of a call change neither what it asks for nor the drives.
LEMMA SameCall ==
    ASSUME UNCHANGED <<task, drive, lba, sector_count, clean, large>>
    PROVE  /\ Reading' = Reading /\ Writing' = Writing /\ Drives!Ext' = Drives!Ext
           /\ Drives!Asked' = Drives!Asked /\ \A n : Sectors(n)' = Sectors(n)
<1>1. Drives!Ext' = Drives!Ext /\ Drives!Asked' = Drives!Asked /\ \A n : Sectors(n)' = Sectors(n)
    BY DEF Drives!Ext, Drives!Asked, Sectors
<1>2. Drives!Expressible' = Drives!Expressible
    BY <1>1 DEF Drives!Expressible
<1> QED BY <1>1, <1>2 DEF Reading, Writing

LEMMA SameKind == UNCHANGED <<kinds, selected>> => Drives!Kind' = Drives!Kind
    BY DEF Drives!Kind

LEMMA SelectStep ==
    ASSUME DriveInv, Drives!ata_select_drive
    PROVE  DriveInv'
<1>1. at = "load" /\ at' = "command"
      /\ UNCHANGED <<task, drive, lba, sector_count, clean, large, busy, drq, err, sector, got, stored>>
    BY DEF Drives!ata_select_drive, Drives!info, Drives!device, Drives!call
<1>2. Reading' = Reading /\ Writing' = Writing /\ Drives!Ext' = Drives!Ext
    BY <1>1, SameCall
<1>3. ASSUME Reading \/ Writing PROVE LoadedInv'
    <2>1. ~ busy /\ sector = 0 /\ got = <<>> /\ stored = {}
        BY <1>1, <1>3 DEF DriveInv, LoadedInv
    <2>2. Drives!Load
        BY <2>1 DEF Drives!ata_select_drive
    <2> QED BY <1>1, <1>2, <2>1, <2>2 DEF Drives!Load, LoadedInv
<1>4. ReadInv'
    BY <1>1 DEF ReadInv
<1>5. ASSUME Writing PROVE WriteInv'
    <2>1. stored' = {}
        BY <1>1, <1>5 DEF DriveInv, LoadedInv
    <2> QED BY <1>1, <2>1 DEF WriteInv
<1> QED BY <1>1, <1>2, <1>3, <1>4, <1>5 DEF DriveInv

\* The drive accepts the command, if there is one.
LEMMA CommandStep ==
    ASSUME DriveInv, Drives!ata_command
    PROVE  DriveInv'
<1>1. at = "command" /\ at' \in {"wait", "done"} /\ Drives!Accept(Drives!Commands[task], Drives!Ext)
      /\ UNCHANGED <<kinds, selected, task, drive, lba, sector_count, clean, large, sector, got, stored>>
    BY DEF Drives!ata_command, Drives!Return, Drives!info, Drives!registers, Drives!call
<1>2. Reading' = Reading /\ Writing' = Writing /\ Drives!Kind' = Drives!Kind
      /\ Drives!Asked' = Drives!Asked /\ \A n : Sectors(n)' = Sectors(n)
    BY <1>1, SameCall, SameKind
<1>3. busy' \in BOOLEAN /\ drq' \in BOOLEAN /\ err' \in BOOLEAN
    BY <1>1 DEF Drives!Accept, Drives!device, DriveInv
<1>4. LoadedInv'
    BY <1>1 DEF LoadedInv
<1>5. ASSUME Reading \/ Writing
      PROVE  /\ at' = "wait" /\ ~ busy /\ sector = 0 /\ got = <<>> /\ stored = {}
             /\ Drives!Kind = "none" => UNCHANGED <<command, pos, left, busy, drq, err>>
             /\ Drives!Kind # "none" =>
                    /\ command' = Drives!Commands[task] /\ pos' = lba /\ left' = sector_count
                    /\ busy' = TRUE /\ drq' = FALSE /\ err' = FALSE
    <2>1. LoadedInv /\ Drives!Expressible /\ task # "identify"
        BY <1>5 DEF DriveInv, Reading, Writing
    <2>2. ~ busy /\ sector = 0 /\ got = <<>> /\ stored = {}
        BY <1>1, <2>1 DEF LoadedInv
    <2>3. sector_count # 0
        BY <2>1 DEF Drives!Expressible
    <2>4. at' = "wait"
        BY <2>1, <2>3 DEF Drives!ata_command
    <2>5. Drives!Position(Drives!Ext) = lba /\ Drives!Amount(Drives!Ext) = sector_count
        BY <1>1, <2>1, RegistersSayAll
    <2> QED BY <1>1, <2>2, <2>4, <2>5 DEF Drives!Accept, Drives!device
<1>6. ASSUME Reading PROVE ReadInv'
    <2>1. task = "read" /\ Drives!Commands["read"] = "READ"
        BY <1>6 DEF Reading, Drives!Commands
    <2>2. sector_count \in Nat /\ sector_count > 0 /\ lba \in Nat
        BY <1>6 DEF Reading, Drives!Expressible, DriveInv
    <2>3. Sectors(0) = <<>>
        BY DEF Sectors
    <2>4. at' = "wait" /\ sector' = 0 /\ got' = <<>> /\ UNCHANGED <<lba, sector_count>>
        BY <1>1, <1>5, <1>6
    <2>5. CASE Drives!Kind = "none"
        BY <1>2, <2>4, <2>5 DEF ReadInv
    <2>6. CASE Drives!Kind # "none"
        <3>1. command' = "READ" /\ pos' = lba /\ left' = sector_count /\ busy' = TRUE /\ drq' = FALSE
              /\ err' = FALSE
            BY <1>5, <1>6, <2>1, <2>6
        <3>2. got' = Sectors(0)'
            BY <1>2, <2>3, <2>4
        <3> QED BY <2>2, <2>4, <3>1, <3>2 DEF ReadInv
    <2> QED BY <2>5, <2>6
<1>7. ASSUME Writing PROVE WriteInv'
    <2>1. task = "write" /\ Drives!Commands["write"] = "WRITE"
        BY <1>7 DEF Writing, Drives!Commands
    <2>2. sector_count \in Nat /\ sector_count > 0 /\ lba \in Nat
        BY <1>7 DEF Writing, Drives!Expressible, DriveInv
    <2>3. at' = "wait" /\ sector' = 0 /\ stored' = {} /\ UNCHANGED <<lba, sector_count>>
        BY <1>1, <1>5, <1>7
    <2>4. CASE Drives!Kind = "none"
        <3>1. ~ busy'
            BY <1>5, <1>7, <2>4
        <3> QED BY <1>2, <2>3, <2>4, <3>1 DEF WriteInv
    <2>5. CASE Drives!Kind # "none"
        <3>1. command' = "WRITE" /\ pos' = lba /\ left' = sector_count /\ busy' = TRUE /\ drq' = FALSE
            BY <1>5, <1>7, <2>1, <2>5
        <3>2. Sent' = 0
            BY <2>3 DEF Sent
        <3>3. Progress'
            BY <2>2, <2>3, <3>1 DEF Progress
        <3> QED BY <1>2, <2>2, <2>3, <2>5, <3>1, <3>2, <3>3 DEF WriteInv
    <2> QED BY <2>4, <2>5
<1> QED BY <1>1, <1>2, <1>3, <1>4, <1>6, <1>7 DEF DriveInv

\* The drive works on, also when the driver has given up.
LEMMA WorkStep ==
    ASSUME DriveInv, Drives!Work
    PROVE  DriveInv'
<1>1. busy /\ UNCHANGED <<kinds, selected, task, drive, lba, sector_count, clean, large, at, sector, result, got>>
    BY DEF Drives!Work, Drives!info, Drives!registers, Drives!call
<1>2. Reading' = Reading /\ Writing' = Writing /\ Drives!Kind' = Drives!Kind
      /\ Drives!Asked' = Drives!Asked /\ \A n : Sectors(n)' = Sectors(n)
    BY <1>1, SameCall, SameKind
<1>3. \/ busy' = FALSE /\ drq' = FALSE /\ err' = TRUE /\ UNCHANGED <<pos, left, stored>>
      \/ command = "FLUSH" /\ busy' = FALSE /\ drq' = FALSE /\ err' = FALSE /\ UNCHANGED <<pos, left, stored>>
      \/ /\ command \in {"IDENTIFY", "READ", "WRITE"}
         /\ busy' = FALSE /\ drq' = TRUE /\ err' = FALSE /\ UNCHANGED <<pos, left, stored>>
      \/ /\ command = "STORE" /\ stored' = stored \cup {pos} /\ pos' = pos + 1 /\ left' = left - 1
         /\ busy' = FALSE /\ (drq' => left # 1) /\ drq' \in BOOLEAN /\ err' = FALSE
    BY DEF Drives!Work, Drives!Fail, Drives!Quiet, Drives!Ready
<1>4. command' = IF command = "STORE" THEN "WRITE" ELSE command
    BY DEF Drives!Work
<1>5. busy' = FALSE /\ drq' \in BOOLEAN /\ err' \in BOOLEAN
    BY <1>3
<1>6. ASSUME Reading \/ Writing PROVE LoadedInv'
    <2>1. at \notin {"load", "command"}
        BY <1>1, <1>6 DEF DriveInv, LoadedInv
    <2> QED BY <1>1, <2>1 DEF LoadedInv
<1>7. ASSUME Reading PROVE ReadInv'
    <2>1. ReadInv /\ at # "data"
        BY <1>1, <1>7 DEF DriveInv, ReadInv
    <2>2. CASE at = "wait" /\ Drives!Kind # "none"
        <3>1. command = "READ" /\ command' = "READ" /\ UNCHANGED <<pos, left>> /\ (drq' \/ err')
            BY <1>3, <1>4, <2>1, <2>2 DEF ReadInv
        <3> QED BY <1>1, <1>2, <1>5, <2>1, <2>2, <3>1 DEF ReadInv
    <2>3. CASE ~ (at = "wait" /\ Drives!Kind # "none")
        BY <1>1, <1>2, <2>1, <2>3 DEF ReadInv
    <2> QED BY <2>2, <2>3
<1>8. ASSUME Writing PROVE WriteInv'
    <2>1. WriteInv /\ at \notin {"load", "command"} /\ at # "data" /\ lba \in Nat /\ sector_count \in Nat
        BY <1>1, <1>8 DEF DriveInv, WriteInv, LoadedInv
    <2>2. Sent' = Sent
        BY <1>1 DEF Sent
    <2>3. CASE command = "STORE"
        <3>1. Progress /\ left >= 1
            BY <1>1, <2>1, <2>3 DEF WriteInv
        <3>2. command' = "WRITE"
            BY <1>4, <2>3
        <3>3. pos \in Drives!Asked
            BY <2>1, <3>1 DEF Progress, Drives!Asked
        <3>0. \/ drq' = FALSE /\ UNCHANGED <<pos, left, stored>>
              \/ stored' = stored \cup {pos} /\ pos' = pos + 1 /\ left' = left - 1 /\ (drq' => left # 1)
            BY <1>3, <2>3
        <3>4. Progress'
            <4>1. CASE UNCHANGED <<pos, left, stored>>
                BY <1>1, <3>1, <4>1 DEF Progress
            <4>2. CASE stored' = stored \cup {pos} /\ pos' = pos + 1 /\ left' = left - 1
                <5>1. pos \in Int /\ left \in Int /\ lba <= pos /\ stored = lba .. pos - 1
                      /\ pos + left = lba + sector_count
                    BY <3>1 DEF Progress
                <5>2. \A a, b \in Int : a <= b => (a .. b - 1) \cup {b} = a .. (b + 1) - 1
                    OBVIOUS
                <5>3. stored' = lba .. (pos + 1) - 1
                    BY <2>1, <4>2, <5>1, <5>2
                <5>4. pos + 1 \in Int /\ left - 1 \in Int /\ lba <= pos + 1 /\ left - 1 >= 0
                      /\ (pos + 1) + (left - 1) = lba + sector_count
                    BY <2>1, <3>1, <5>1
                <5> QED BY <1>1, <4>2, <5>3, <5>4 DEF Progress
            <4> QED BY <3>0, <4>1, <4>2
        <3>5. stored \subseteq stored' /\ stored' \subseteq Drives!Asked
            BY <3>0, <2>1, <3>3 DEF WriteInv
        <3>6. drq' => left' >= 1 /\ pos' = pos + 1
            <4>1. left \in Int
                BY <3>1 DEF Progress
            <4> QED BY <3>0, <3>1, <4>1
        <3> QED BY <1>1, <1>2, <1>5, <2>1, <2>2, <2>3, <3>2, <3>4, <3>5, <3>6 DEF WriteInv
    <2>4. CASE command # "STORE"
        <3>1. command' = command /\ UNCHANGED <<pos, left, stored>> /\ (drq' => command \in {"IDENTIFY", "READ", "WRITE"})
            BY <1>3, <1>4, <2>4
        <3>2. Progress' = Progress
            BY <1>1, <3>1 DEF Progress
        <3> QED BY <1>1, <1>2, <1>5, <2>1, <2>2, <2>4, <3>1, <3>2 DEF WriteInv
    <2> QED BY <2>3, <2>4
<1> QED BY <1>1, <1>2, <1>5, <1>6, <1>7, <1>8 DEF DriveInv

LEMMA WaitStep ==
    ASSUME DriveInv, Drives!ata_wait_ready
    PROVE  DriveInv'
<1>1. at = "wait" /\ UNCHANGED <<kinds, selected, task, drive, lba, sector_count, clean, large,
                                 command, pos, left, busy, drq, err, sector, got, stored>>
    BY DEF Drives!ata_wait_ready, Drives!registers, Drives!device, Drives!call
<1>2. \/ at' = "data" /\ ~ busy /\ Drives!Kind # "none"
      \/ at' = "done" /\ result' = 0
    BY DEF Drives!ata_wait_ready, Drives!Answers, Drives!Return
<1>3. Reading' = Reading /\ Writing' = Writing /\ Drives!Kind' = Drives!Kind
      /\ Drives!Asked' = Drives!Asked /\ \A n : Sectors(n)' = Sectors(n)
    BY <1>1, SameCall, SameKind
<1>4. LoadedInv'
    BY <1>2 DEF LoadedInv
<1>5. ASSUME Reading PROVE ReadInv'
    BY <1>1, <1>2, <1>3, <1>5 DEF DriveInv, ReadInv
<1>6. ASSUME Writing PROVE WriteInv'
    <2>1. Sent' = Sent /\ Progress' = Progress
        BY <1>1, <1>2 DEF Sent, Progress
    <2> QED BY <1>1, <1>2, <1>3, <1>6, <2>1 DEF DriveInv, WriteInv
<1> QED BY <1>1, <1>2, <1>3, <1>4, <1>5, <1>6 DEF DriveInv

LEMMA IdentifyStep ==
    ASSUME DriveInv, Drives!ata_identify
    PROVE  DriveInv'
<1>1. task' = "identify" /\ at' = "done" /\ drq' = FALSE /\ UNCHANGED <<lba, sector_count, busy, err>>
    BY DEF Drives!ata_identify, Drives!call, Drives!Return
<1> QED BY <1>1 DEF DriveInv, Reading, Writing

LEMMA ReadStep ==
    ASSUME DriveInv, Drives!ReadSector
    PROVE  DriveInv'
<1>1. at = "data" /\ task = "read" /\ at' \in {"wait", "done"}
      /\ UNCHANGED <<kinds, selected, task, drive, lba, sector_count, clean, large, stored>>
    BY DEF Drives!ReadSector, Drives!Return, Drives!Advance, Drives!info, Drives!registers, Drives!call
<1>2. Reading' = Reading /\ Writing' = Writing /\ Drives!Kind' = Drives!Kind
      /\ \A n : Sectors(n)' = Sectors(n)
    BY <1>1, SameCall, SameKind
<1>3. ~ Writing /\ LoadedInv'
    BY <1>1 DEF Writing, LoadedInv
<1>4. busy' \in BOOLEAN /\ drq' \in BOOLEAN /\ err' \in BOOLEAN
    <2>1. Drives!ReadData \/ UNCHANGED <<busy, drq, err>>
        BY DEF Drives!ReadSector, Drives!device
    <2>2. CASE Drives!ReadData
        <3>1. UNCHANGED <<busy, drq, err>> \/ (busy' = (left > 1) /\ drq' = FALSE /\ err' = err)
            BY <2>2 DEF Drives!ReadData, Drives!device
        <3>2. (left > 1) \in BOOLEAN
            OBVIOUS
        <3> QED BY <3>1, <3>2 DEF DriveInv
    <2> QED BY <2>1, <2>2 DEF DriveInv
<1>5. ASSUME Reading PROVE ReadInv'
    <2>1. /\ Drives!Kind # "none" /\ ~ busy /\ (drq \/ err) /\ command = "READ"
          /\ sector \in Nat /\ sector < sector_count /\ lba \in Nat /\ sector_count \in Nat
          /\ got = Sectors(sector) /\ pos = lba + sector /\ left = sector_count - sector
        BY <1>1, <1>5 DEF DriveInv, ReadInv
    <2>2. CASE err
        <3>1. at' = "done" /\ result' = 0
            BY <2>2 DEF Drives!ReadSector, Drives!Return
        <3> QED BY <3>1 DEF ReadInv
    <2>3. CASE ~ err
        <3>1. drq /\ Drives!ReadData /\ Drives!Advance
            BY <2>1, <2>3 DEF Drives!ReadSector
        <3>2. /\ got' = Append(got, pos) /\ pos' = pos + 1 /\ left' = left - 1
              /\ drq' = FALSE /\ busy' = (left > 1) /\ command' = command /\ err' = err
            BY <2>1, <3>1 DEF Drives!ReadData
        <3>3. got' = Sectors(sector + 1)
            BY <2>1, <3>2, NextSectorGot
        <3>4. sector' = sector + 1
            BY <3>1 DEF Drives!Advance
        <3>5. CASE sector + 1 = sector_count
            <4>1. at' = "done"
                BY <3>1, <3>5 DEF Drives!Advance, Drives!Return
            <4>2. got' = Sectors(sector_count)'
                BY <1>1, <3>3, <3>5 DEF Sectors
            <4> QED BY <4>1, <4>2 DEF ReadInv
        <3>6. CASE sector + 1 # sector_count
            <4>1. at' = "wait"
                BY <3>1, <3>6 DEF Drives!Advance
            <4>2. /\ sector + 1 \in Nat /\ sector + 1 < sector_count /\ pos + 1 = lba + (sector + 1)
                  /\ left - 1 = sector_count - (sector + 1) /\ left > 1
                BY <2>1, <3>6
            <4>4. sector' \in Nat /\ sector' < sector_count' /\ pos' = lba' + sector'
                  /\ left' = sector_count' - sector'
                BY <1>1, <3>2, <3>4, <4>2
            <4>5. busy' = TRUE /\ drq' = FALSE /\ ~ err'
                BY <2>3, <3>2, <4>2
            <4>3. got' = Sectors(sector)'
                BY <1>1, <3>3, <3>4 DEF Sectors
            <4> QED BY <2>1, <3>2, <4>1, <4>3, <4>4, <4>5 DEF ReadInv
        <3> QED BY <3>5, <3>6
    <2> QED BY <2>2, <2>3
<1> QED BY <1>1, <1>2, <1>3, <1>4, <1>5 DEF DriveInv


\* What the steps between the command and the end of a write know.
Transferring ==
    /\ Writing /\ WriteInv /\ Drives!Kind # "none" /\ sector \in Nat /\ sector < sector_count
    /\ lba \in Nat /\ sector_count \in Nat /\ command \in {"WRITE", "STORE", "FLUSH"}

LEMMA WriteStep ==
    ASSUME DriveInv, Drives!WriteSector
    PROVE  DriveInv'
<1>1. at = "data" /\ task = "write" /\ at' \in {"done", "flush", "next"}
      /\ UNCHANGED <<kinds, selected, task, drive, lba, sector_count, clean, large, sector, got, stored>>
    BY DEF Drives!WriteSector, Drives!Return, Drives!info, Drives!registers, Drives!call
<1>2. Reading' = Reading /\ Writing' = Writing /\ Drives!Kind' = Drives!Kind
      /\ Drives!Asked' = Drives!Asked
    BY <1>1, SameCall, SameKind
<1>3. ~ Reading /\ LoadedInv'
    BY <1>1 DEF Reading, LoadedInv
<1>4. busy' \in BOOLEAN /\ drq' \in BOOLEAN /\ err' \in BOOLEAN
    BY DEF Drives!WriteSector, Drives!device, DriveInv
<1>5. ASSUME Writing PROVE WriteInv'
    <2>1. Transferring /\ ~ busy
        BY <1>1, <1>5 DEF DriveInv, WriteInv, Transferring
    <2>2. CASE ~ drq
        <3>1. at' = "done" /\ result' = 0 /\ UNCHANGED <<command, pos, left, busy, drq, err>>
            BY <2>2 DEF Drives!WriteSector, Drives!Return, Drives!device
        <3> QED BY <1>1, <1>2, <2>1, <3>1 DEF WriteInv, Transferring
    <2>3. CASE drq
        <3>1. command = "WRITE" /\ Progress /\ left >= 1 /\ pos = lba + sector
            BY <1>1, <2>1, <2>3 DEF WriteInv, Transferring, Sent
        <3>2. /\ command' = "STORE" /\ busy' = TRUE /\ drq' = FALSE /\ UNCHANGED <<pos, left>>
              /\ at' \in {"flush", "next"}
            BY <2>3, <3>1 DEF Drives!WriteSector
        <3>3. Progress' /\ Sent' = sector + 1 /\ pos + 1 = lba + (sector + 1)
            BY <1>1, <2>1, <3>1, <3>2 DEF Progress, Sent, Transferring
        <3>4. stored = lba .. lba + sector - 1
            <4>1. stored = lba .. pos - 1
                BY <3>1 DEF Progress
            <4> QED BY <2>1, <3>1, <4>1 DEF Transferring
        <3> QED BY <1>1, <1>2, <2>1, <3>1, <3>2, <3>3, <3>4 DEF WriteInv, Transferring
    <2> QED BY <2>2, <2>3
<1> QED BY <1>1, <1>2, <1>3, <1>4, <1>5 DEF DriveInv

LEMMA FlushStep ==
    ASSUME DriveInv, Drives!Flush
    PROVE  DriveInv'
<1>1. at = "flush" /\ at' = "flushed" /\ Drives!Accept("FLUSH", FALSE)
      /\ UNCHANGED <<kinds, selected, task, drive, lba, sector_count, clean, large, sector, result, got, stored>>
    BY DEF Drives!Flush, Drives!info, Drives!registers, Drives!call
<1>2. Reading' = Reading /\ Writing' = Writing /\ Drives!Kind' = Drives!Kind
      /\ Drives!Asked' = Drives!Asked
    BY <1>1, SameCall, SameKind
<1>3. ~ Reading /\ LoadedInv'
    BY <1>1 DEF DriveInv, Reading, LoadedInv
<1>4. busy' \in BOOLEAN /\ drq' \in BOOLEAN /\ err' \in BOOLEAN
    BY <1>1 DEF Drives!Accept, Drives!device, DriveInv
<1>5. ASSUME Writing PROVE WriteInv'
    <2>1. Transferring
        BY <1>1, <1>5 DEF DriveInv, WriteInv, Transferring
    <2>2. Sent' = Sent
        BY <1>1 DEF Sent
    <2>3. CASE busy
        <3>1. UNCHANGED <<command, pos, left, busy, drq, err>>
            BY <1>1, <2>3 DEF Drives!Accept, Drives!device
        <3>2. Progress' = Progress
            BY <1>1, <3>1 DEF Progress
        <3> QED BY <1>1, <1>2, <2>1, <2>2, <3>1, <3>2 DEF WriteInv, Transferring
    <2>4. CASE ~ busy
        <3>1. command' = "FLUSH" /\ busy' = TRUE /\ drq' = FALSE
            BY <1>1, <2>1, <2>4 DEF Drives!Accept, Transferring
        <3> QED BY <1>1, <1>2, <2>1, <3>1 DEF WriteInv, Transferring
    <2> QED BY <2>3, <2>4
<1> QED BY <1>1, <1>2, <1>3, <1>4, <1>5 DEF DriveInv

LEMMA NextSectorStep ==
    ASSUME DriveInv, Drives!NextSector
    PROVE  DriveInv'
<1>1. at \in {"next", "flushed"} /\ at' \in {"done", "wait"} /\ sector' = sector + 1
      /\ (at' = "done" <=> sector + 1 = sector_count)
      /\ UNCHANGED <<kinds, selected, task, drive, lba, sector_count, clean, large,
                     command, pos, left, busy, drq, err, got, stored>>
    BY DEF Drives!NextSector, Drives!Advance, Drives!Return, Drives!info, Drives!registers, Drives!device,
        Drives!call
<1>2. Reading' = Reading /\ Writing' = Writing /\ Drives!Kind' = Drives!Kind
      /\ Drives!Asked' = Drives!Asked
    BY <1>1, SameCall, SameKind
<1>3. ~ Reading /\ LoadedInv'
    BY <1>1 DEF DriveInv, Reading, LoadedInv
<1>4. ASSUME Writing PROVE WriteInv'
    <2>1. Transferring /\ lba .. lba + sector - 1 \subseteq stored
        BY <1>1, <1>4 DEF DriveInv, WriteInv, Transferring
    <2>2. Progress' = Progress /\ Sent = sector + 1 /\ Sent' = sector + 1
        BY <1>1 DEF Progress, Sent
    <2>3. CASE at' = "done"
        <3>1. Drives!Asked \ {lba + sector_count - 1} \subseteq lba .. lba + sector - 1
            BY <1>1, <2>1, <2>3 DEF Drives!Asked, Transferring
        <3> QED BY <1>1, <1>2, <2>1, <2>2, <2>3, <3>1 DEF WriteInv, Transferring
    <2>4. CASE at' = "wait"
        <3>1. sector' \in Nat /\ sector' < sector_count
            BY <1>1, <2>1, <2>4 DEF Transferring
        <3> QED BY <1>1, <1>2, <2>1, <2>2, <2>4, <3>1 DEF WriteInv, Transferring
    <2> QED BY <1>1, <2>3, <2>4
<1> QED BY <1>1, <1>2, <1>3, <1>4 DEF DriveInv

LEMMA DriveStep == DriveInv /\ [Drives!Next]_(Drives!vars) => DriveInv'
<1> SUFFICES ASSUME DriveInv, [Drives!Next]_(Drives!vars) PROVE DriveInv'
    OBVIOUS
<1>1. CASE UNCHANGED Drives!vars
    <2>1. UNCHANGED <<kinds, selected, cur, prev, command, pos, left, busy, drq, err, task, drive, lba,
                      sector_count, clean, large, at, sector, result, got, stored>>
        BY <1>1 DEF Drives!vars, Drives!info, Drives!registers, Drives!device, Drives!call
    <2>2. Reading' = Reading /\ Writing' = Writing /\ Drives!Ext' = Drives!Ext /\ Drives!Kind' = Drives!Kind
          /\ Drives!Asked' = Drives!Asked
        BY <2>1, SameCall, SameKind
    <2>3. LoadedInv' = LoadedInv
        BY <2>1, <2>2 DEF LoadedInv
    <2>4. ReadInv' = ReadInv
        BY <2>1, <2>2 DEF ReadInv, Sectors
    <2>5. WriteInv' = WriteInv
        BY <2>1, <2>2 DEF WriteInv, Progress, Sent
    <2> QED BY <2>1, <2>2, <2>3, <2>4, <2>5 DEF DriveInv
<1> QED BY <1>1, WorkStep, CallStep, SelectStep, CommandStep, WaitStep, IdentifyStep, ReadStep, WriteStep,
        FlushStep, NextSectorStep DEF Drives!Next

LEMMA DriveInitially == Drives!Init => DriveInv
<1> SUFFICES ASSUME Drives!Init PROVE DriveInv
    OBVIOUS
<1>1. task = "identify" /\ lba = 0 /\ sector_count = 0 /\ at = "load"
      /\ busy = FALSE /\ drq = FALSE /\ err = FALSE
    BY DEF Drives!Init
<1> QED BY <1>1 DEF DriveInv, Reading, Writing

\* ReadsAreExact of Ata: a read that reports success, on a drive that was not
\* busy before, has put exactly the sectors asked for into the buffer, in
\* order, whichever sectors fail and whichever drive is there.
THEOREM AtaReadsAreExact == Drives!Spec => []Drives!ReadsAreExact
<1>1. DriveInv => Drives!ReadsAreExact
    BY DEF DriveInv, ReadInv, Reading, Sectors, Drives!ReadsAreExact
<1> QED BY <1>1, DriveInitially, DriveStep, PTL DEF Drives!Spec

\* WritesAreWhereAsked of Ata: a write stores only sectors that were asked for,
\* at any time, also after the driver has given up, and when it reports success
\* all but the last were stored.
THEOREM AtaWritesAreWhereAsked == Drives!Spec => []Drives!WritesAreWhereAsked
<1>1. DriveInv => Drives!WritesAreWhereAsked
    BY DEF DriveInv, WriteInv, Writing, Drives!WritesAreWhereAsked
<1> QED BY <1>1, DriveInitially, DriveStep, PTL DEF Drives!Spec

-----------------------------------------------------------------------------
(* The file system.  An inode in memory runs ahead of the disk and the     *)
(* bitmap ahead of both, so the invariant says at every access what the    *)
(* call has and the disk has not.                                          *)

\* The numbers of the blocks, and an inode: 0 is no block.
Numbers == 1 .. FileSystem!Bits
Inode == [used : BOOLEAN, size : Nat, direct : Numbers \cup {0}, inlinedata : Seq(Nat)]

\* The last write of which there is anything outside the blocks: the one in
\* progress gets into an inode when it ends.
Latest == IF access = "idle" THEN writes ELSE writes - 1

FileTypes ==
    /\ inodes \in [Files -> Inode] /\ inode \in Inode
    /\ marked \subseteq Numbers /\ block \in Numbers \cup {0}
    /\ writes \in Nat /\ faults \in Nat /\ long \in BOOLEAN
    /\ acknowledged \in [Files -> Seq(Nat)]
    /\ access \in {"idle", "read_inode", "read_bitmap", "write_bitmap", "write_data", "write_inode"}

\* The inodes alone: a block for the large files only, marked and for one file
\* each.
NamesInv ==
    /\ \A f \in Files : inodes[f].direct # 0 <=> inodes[f].size > Inline
    /\ \A f \in Files : inodes[f].direct # 0 => inodes[f].direct \in marked
    /\ \A f, g \in Files : inodes[f].direct # 0 /\ inodes[f].direct = inodes[g].direct => f = g
    /\ \A f \in Files : ~ inodes[f].used => inodes[f] = FileSystem!Unused /\ acknowledged[f] = <<>>

\* What was acknowledged is there, and nothing in an inode is newer than the
\* last write.
Readable(f) ==
    IF inodes[f].size > Inline
    THEN /\ data[inodes[f].direct][1] = f
         /\ acknowledged[f] # <<>> =>
                data[inodes[f].direct][2] >= acknowledged[f][Len(acknowledged[f])]
    ELSE FileSystem!Embeds(acknowledged[f], inodes[f].inlinedata)
NothingNewer(f) ==
    /\ inodes[f].size <= Inline =>
        \A i \in DOMAIN inodes[f].inlinedata : inodes[f].inlinedata[i] <= Latest
    /\ \A i \in DOMAIN acknowledged[f] : acknowledged[f][i] <= Latest
ContentsInv == \A f \in Files : (~ long => Readable(f)) /\ NothingNewer(f)

\* A block is lost for every failure, if not for a long write, besides that of
\* the write in progress.
LostInv == long \/ Cardinality(FileSystem!Lost \ {block}) <= faults

\* The inode of a call is that on the disk with the call's changes; a block it
\* has taken is no file's yet.
CallInv ==
    /\ access = "idle" => block = 0
    /\ access # "idle" => fd \in Files /\ inodes[fd].used /\ count \in Nat \ {0} /\ (long \/ count <= Sector)
                          /\ writes > 0
    /\ access = "read_inode" => block = 0
    /\ access \in {"read_bitmap", "write_bitmap"} =>
        inode = inodes[fd] /\ inode.size <= Inline /\ inode.size + count > Inline
    /\ access = "read_bitmap" => block = 0
    /\ access = "write_bitmap" => block \notin marked /\ block # 0
    /\ access \in {"write_data", "write_inode"} /\ block # 0 =>
        block \in marked /\ inodes[fd].direct = 0 /\ inode.direct = block
        /\ \A f \in Files : inodes[f].direct # block
    /\ access = "write_data" => inode.used /\ inode.direct # 0 /\ inode.size + count > Inline
                                /\ (block = 0 => inode.direct = inodes[fd].direct)
    /\ access = "write_inode" =>
        /\ inode.used
        /\ \/ /\ block = 0 /\ inode = FileSystem!Appended(inodes[fd]) /\ inode.size <= Inline
           \/ /\ inode.size > Inline /\ inode.direct # 0
              /\ block = 0 => inode.direct = inodes[fd].direct
              /\ ~ long => data[inode.direct] = <<fd, writes>>

FilesInv == FileTypes /\ NamesInv /\ ContentsInv /\ LostInv /\ CallInv

\* What a step that fails adds.
Failed == faults' = faults + 1 /\ long' = long /\ writes' = writes /\ acknowledged' = acknowledged
Same == faults' = faults /\ long' = long /\ writes' = writes /\ acknowledged' = acknowledged

LEMMA BitsAreCounted == FileSystem!Bits \in Nat /\ IsFiniteSet(Numbers)
<1> DEFINE d == (Blocks + Byte - 1) \div Byte
<1>1. d \in Nat BY FilesAssumption
<1>2. d * Byte \in Nat
    <2> HIDE DEF d
    <2> QED BY <1>1, FilesAssumption
<1>3. FileSystem!Bits \in Nat BY <1>2 DEF FileSystem!Bits
<1> QED BY <1>3, FS_Interval DEF Numbers

\* The blocks files name are those that are not 0.
LEMMA NamedBlocks ==
    ASSUME NamesInv
    PROVE  FileSystem!Named = {inodes[f].direct : f \in Files} \ {0}
BY DEF NamesInv, FileSystem!Named, FileSystem!Large

\* Every failure may lose the block of the write in progress, nothing else.
LEMMA LostStep ==
    ASSUME FileTypes, LostInv, (marked \subseteq Numbers)',
           (long => long'), long' \in BOOLEAN,
           \/ long'
           \/ /\ faults' = faults
              /\ (FileSystem!Lost \ {block})' \subseteq FileSystem!Lost \ {block}
           \/ /\ faults' = faults + 1
              /\ (FileSystem!Lost)' \subseteq FileSystem!Lost \cup {block}
    PROVE  LostInv'
<1> DEFINE L == FileSystem!Lost \ {block}
           M == (FileSystem!Lost \ {block})'
<1>1. /\ IsFiniteSet(L) /\ Cardinality(L) \in Nat
      /\ L \cup {block} = FileSystem!Lost \cup {block}
    <2>1. L \subseteq Numbers BY DEF FileTypes, FileSystem!Lost
    <2> QED BY <2>1, BitsAreCounted, FS_Subset, FS_CardinalityType
<1>2. IsFiniteSet(M)
    <2>1. M \subseteq Numbers BY DEF FileSystem!Lost
    <2> QED BY <2>1, BitsAreCounted, FS_Subset
<1>3. CASE long' BY <1>3 DEF LostInv
<1>4. CASE ~ long' /\ M \subseteq L /\ faults' = faults
    <2>1. Cardinality(M) <= Cardinality(L) BY <1>1, <1>4, FS_Subset
    <2>2. Cardinality(L) <= faults BY <1>4 DEF LostInv
    <2> QED BY <2>1, <2>2, <1>4, <1>1, <1>2, FS_CardinalityType DEF LostInv, FileTypes
<1>5. CASE ~ long' /\ (FileSystem!Lost)' \subseteq FileSystem!Lost \cup {block} /\ faults' = faults + 1
    <2>1. M \subseteq L \cup {block} BY <1>5, <1>1
    <2>2. IsFiniteSet(L \cup {block}) /\ Cardinality(L \cup {block}) <= Cardinality(L) + 1
        <3>1. block \notin L OBVIOUS
        <3> HIDE DEF L
        <3> QED BY <1>1, <3>1, FS_AddElement
    <2>3. Cardinality(M) <= Cardinality(L \cup {block}) BY <2>1, <2>2, FS_Subset
    <2>4. Cardinality(L) <= faults BY <1>5 DEF LostInv
    <2>5. Cardinality(M) \in Nat /\ Cardinality(L \cup {block}) \in Nat BY <1>2, <2>2, FS_CardinalityType
    <2>6. Cardinality(M) <= faults' BY <2>2, <2>3, <2>4, <2>5, <1>1, <1>5 DEF FileTypes
    <2> QED BY <2>6 DEF LostInv
<1> QED BY <1>3, <1>4, <1>5

\* A step that leaves the inodes and the blocks alone.
LEMMA InodesKept ==
    ASSUME FilesInv, inodes' = inodes, data' = data, acknowledged' = acknowledged,
           marked \subseteq marked', long => long', Latest' \in Int, Latest' >= Latest
    PROVE  NamesInv' /\ ContentsInv'
<1>1. NamesInv' BY DEF FilesInv, NamesInv, FileSystem!Unused
<1>2. Latest \in Int BY DEF FilesInv, FileTypes, Latest
<1>3. \A f \in Files : /\ \A i \in DOMAIN inodes[f].inlinedata : inodes[f].inlinedata[i] \in Nat
                       /\ \A i \in DOMAIN acknowledged[f] : acknowledged[f][i] \in Nat
    BY DEF FilesInv, FileTypes, Inode
<1>4. \A f \in Files : NothingNewer(f)'
    BY <1>2, <1>3 DEF FilesInv, ContentsInv, NothingNewer
<1>5. \A f \in Files : Readable(f) => Readable(f)' BY DEF Readable, FileSystem!Embeds
<1> QED BY <1>1, <1>4, <1>5 DEF FilesInv, ContentsInv

LEMMA FilesInitially == FileSystem!Init => FilesInv
<1> SUFFICES ASSUME FileSystem!Init PROVE FilesInv OBVIOUS
<1> USE DEF FileSystem!Init
<1>1. FileSystem!Unused \in Inode /\ FileSystem!Unused.direct = 0 /\ FileSystem!Unused.size = 0
      /\ FileSystem!Unused.inlinedata = << >>
    BY BitsAreCounted DEF FileSystem!Unused, Inode
<1>2. FileTypes
    <2>1. inodes \in [Files -> Inode] /\ inode \in Inode BY <1>1
    <2>2. << >> \in Seq(Nat) OBVIOUS
    <2>3. acknowledged \in [Files -> Seq(Nat)] BY <2>2
    <2> QED BY <2>1, <2>3 DEF FileTypes
<1>3. NamesInv BY <1>1, FilesAssumption DEF NamesInv
<1>4. ContentsInv
    BY <1>1, FilesAssumption DEF ContentsInv, Readable, NothingNewer, FileSystem!Embeds
<1>5. LostInv
    <2>1. FileSystem!Lost \ {block} = {} BY DEF FileSystem!Lost
    <2> QED BY <2>1, FS_EmptySet DEF LostInv
<1>6. CallInv BY DEF CallInv
<1> QED BY <1>2, <1>3, <1>4, <1>5, <1>6 DEF FilesInv

LEMMA EmptyInodes ==
    /\ FileSystem!Unused \in Inode /\ FileSystem!Created \in Inode
    /\ ~ FileSystem!Unused.used /\ FileSystem!Created.used
    /\ FileSystem!Unused.direct = 0 /\ FileSystem!Created.direct = 0
    /\ FileSystem!Unused.size = 0 /\ FileSystem!Created.size = 0
    /\ FileSystem!Unused.inlinedata = << >> /\ FileSystem!Created.inlinedata = << >>
<1>1. << >> \in Seq(Nat) OBVIOUS
<1> QED BY <1>1 DEF FileSystem!Created, FileSystem!Unused, Inode

\* The step that ends a call with an error and leaves the disk alone.
LEMMA CallFails ==
    ASSUME FilesInv, marked' = marked, inodes' = inodes, data' = data,
           FileSystem!Fault, FileSystem!Return
    PROVE  FilesInv'
<1>1. Failed /\ access' = "idle" /\ inode' = FileSystem!Unused /\ block' = 0
    BY DEF FileSystem!Fault, FileSystem!Return, Failed
<1>2. FileTypes' BY <1>1, EmptyInodes DEF FilesInv, FileTypes, Failed
<1>3. Latest' \in Int /\ Latest' >= Latest BY <1>1 DEF FilesInv, FileTypes, Latest, Failed
<1>4. NamesInv' /\ ContentsInv' BY <1>1, <1>3, InodesKept DEF Failed
<1>5. (FileSystem!Lost)' = FileSystem!Lost
    BY DEF FileSystem!Lost, FileSystem!Named, FileSystem!Large
<1>6. LostInv' BY <1>1, <1>2, <1>5, LostStep DEF FilesInv, Failed, FileTypes
<1>7. CallInv' BY <1>1 DEF CallInv
<1> QED BY <1>2, <1>4, <1>6, <1>7 DEF FilesInv

LEMMA CrashStep == FilesInv /\ FileSystem!Crash => FilesInv'
BY CallFails DEF FileSystem!Crash, FileSystem!disk

LEMMA ReadFailed == FilesInv /\ FileSystem!ReadFails => FilesInv'
BY CallFails DEF FileSystem!ReadFails, FileSystem!disk

LEMMA InitStep == FilesInv /\ FileSystem!fsz_init => FilesInv'
<1> SUFFICES ASSUME FilesInv, FileSystem!fsz_init PROVE FilesInv' OBVIOUS
<1>1. UNCHANGED <<marked, inodes, data, access, fd, count, inode, block, writes, acknowledged, faults, long>>
    BY DEF FileSystem!fsz_init, FileSystem!disk, FileSystem!locals, FileSystem!ghosts
<1> QED BY <1>1 DEF FilesInv, FileTypes, NamesInv, ContentsInv, Readable, NothingNewer, LostInv, CallInv, Latest, FileSystem!Lost,
    FileSystem!Named, FileSystem!Large, FileSystem!Embeds, FileSystem!Appended

\* A new file is as empty as an unused inode.
LEMMA CreateStep == FilesInv /\ FileSystem!fsz_create => FilesInv'
<1> SUFFICES ASSUME FilesInv, FileSystem!fsz_create PROVE FilesInv' OBVIOUS
<1>1. PICK f \in Files :
        /\ ~ inodes[f].used
        /\ \/ inodes' = [inodes EXCEPT ![f] = FileSystem!Created] /\ UNCHANGED FileSystem!ghosts
           \/ FileSystem!Fault /\ inodes' = inodes
    BY DEF FileSystem!fsz_create
<1>0. /\ access = "idle" /\ UNCHANGED <<marked, data, access, fd, count, inode, block>>
      /\ writes' = writes /\ acknowledged' = acknowledged /\ long' = long
      /\ \/ inodes' = [inodes EXCEPT ![f] = FileSystem!Created] /\ faults' = faults
         \/ inodes' = inodes /\ faults' = faults + 1
    BY <1>1 DEF FileSystem!fsz_create, FileSystem!Idle, FileSystem!locals, FileSystem!ghosts, FileSystem!Fault
<1>2. inodes[f] = FileSystem!Unused BY <1>1 DEF FilesInv, NamesInv
<1>3. inodes' \in [Files -> Inode] /\ \A g \in Files :
        /\ g # f => inodes'[g] = inodes[g]
        /\ inodes'[g].direct = inodes[g].direct /\ inodes'[g].size = inodes[g].size
        /\ inodes'[g].inlinedata = inodes[g].inlinedata
        /\ inodes[g].used => inodes'[g].used
        /\ ~ inodes'[g].used => inodes'[g] = inodes[g] /\ ~ inodes[g].used
    BY <1>0, <1>1, <1>2, EmptyInodes DEF FilesInv, FileTypes
<1>4. FileTypes' BY <1>0, <1>1, <1>3 DEF FilesInv, FileTypes
<1>5. NamesInv' BY <1>0, <1>1, <1>3 DEF FilesInv, NamesInv
<1>6. ContentsInv'
    BY <1>0, <1>1, <1>3 DEF FilesInv, ContentsInv, Readable, NothingNewer, FileSystem!Embeds, Latest
<1>7. (FileSystem!Lost)' = FileSystem!Lost
    <2>1. (FileSystem!Named)' = FileSystem!Named BY <1>3 DEF FileSystem!Named, FileSystem!Large
    <2> QED BY <2>1, <1>0, <1>1 DEF FileSystem!Lost
<1>8. LostInv' BY <1>0, <1>1, <1>4, <1>7, LostStep DEF FilesInv, FileTypes
<1>9. CallInv' BY <1>0, <1>1 DEF FilesInv, CallInv
<1> QED BY <1>4, <1>5, <1>6, <1>8, <1>9 DEF FilesInv

LEMMA CallBegins == FilesInv /\ FileSystem!fsz_write => FilesInv'
<1> SUFFICES ASSUME FilesInv, FileSystem!fsz_write PROVE FilesInv' OBVIOUS
<1>0. PICK f \in Files, k \in Lengths :
        inodes[f].used /\ fd' = f /\ count' = k /\ long' = (long \/ k > Sector)
    BY DEF FileSystem!fsz_write
<1>1. /\ access = "idle" /\ access' = "read_inode" /\ writes' = writes + 1
      /\ UNCHANGED <<marked, inodes, data, inode, block, acknowledged, faults>>
      /\ fd' \in Files /\ inodes[fd'].used
    BY <1>0 DEF FileSystem!fsz_write, FileSystem!Idle, FileSystem!disk
<1>2. long' \in BOOLEAN /\ (long => long') /\ (long' \/ count' <= Sector) /\ count' \in Nat \ {0}
    <2>1. long' \in BOOLEAN /\ (long => long') /\ (k > Sector => long') BY <1>0, Zenon
    <2>2. k \in Nat \ {0} /\ (k > Sector \/ k <= Sector) BY FilesAssumption
    <2> QED BY <1>0, <2>1, <2>2
<1>3. FileTypes' BY <1>1, <1>2 DEF FilesInv, FileTypes
<1>4. Latest' \in Int /\ Latest' >= Latest BY <1>1 DEF FilesInv, FileTypes, Latest
<1>5. NamesInv' /\ ContentsInv' BY <1>1, <1>2, <1>4, InodesKept
<1>6. (FileSystem!Lost)' = FileSystem!Lost
    BY <1>1 DEF FileSystem!Lost, FileSystem!Named, FileSystem!Large
<1>7. LostInv' BY <1>1, <1>2, <1>3, <1>6, LostStep DEF FilesInv, FileTypes
<1>8. CallInv' BY <1>1, <1>2 DEF FilesInv, FileTypes, CallInv
<1> QED BY <1>3, <1>5, <1>7, <1>8 DEF FilesInv

LEMMA AppendedIs ==
    ASSUME FileTypes, NEW n \in Inode, count \in Nat
    PROVE  /\ FileSystem!Appended(n) \in Inode
           /\ FileSystem!Appended(n).used = n.used /\ FileSystem!Appended(n).direct = n.direct
           /\ FileSystem!Appended(n).size = n.size + count
           /\ FileSystem!Appended(n).inlinedata = Append(n.inlinedata, writes)
<1>1. Append(n.inlinedata, writes) \in Seq(Nat) /\ n.size + count \in Nat
    BY DEF FileTypes, Inode
<1> QED BY <1>1 DEF FileSystem!Appended, Inode

LEMMA InodeRead == FilesInv /\ FileSystem!ReadInode => FilesInv'
<1> SUFFICES ASSUME FilesInv, FileSystem!ReadInode PROVE FilesInv' OBVIOUS
<1> DEFINE n == inodes[fd]
<1>1. /\ access = "read_inode"
      /\ UNCHANGED <<marked, inodes, data, fd, count, block, writes, acknowledged, faults, long>>
      /\ \/ n.size + count <= Inline /\ inode' = FileSystem!Appended(n) /\ access' = "write_inode"
         \/ n.size + count > Inline /\ n.size > Inline /\ inode' = n /\ access' = "write_data"
         \/ n.size + count > Inline /\ n.size <= Inline /\ inode' = n /\ access' = "read_bitmap"
    <2>1. fd \in Files /\ count \in Nat /\ n \in Inode /\ n.size \in Nat
        BY DEF FilesInv, CallInv, FileSystem!ReadInode, FileTypes, Inode
    <2> QED BY <2>1, FilesAssumption DEF FileSystem!ReadInode, FileSystem!disk, FileSystem!ghosts
<1>2. fd \in Files /\ n.used /\ count \in Nat \ {0} /\ n \in Inode /\ block = 0 /\ n.size \in Nat
    BY <1>1 DEF FilesInv, CallInv, FileTypes, Inode
<1>3. FileTypes'
    <2>1. inode' \in Inode BY <1>1, <1>2, AppendedIs DEF FilesInv
    <2> QED BY <2>1, <1>1 DEF FilesInv, FileTypes
<1>4. Latest' = Latest /\ Latest \in Int BY <1>1 DEF FilesInv, FileTypes, Latest
<1>5. NamesInv' /\ ContentsInv' BY <1>1, <1>4, InodesKept
<1>6. (FileSystem!Lost)' = FileSystem!Lost
    BY <1>1 DEF FileSystem!Lost, FileSystem!Named, FileSystem!Large
<1>7. LostInv' BY <1>1, <1>3, <1>6, LostStep DEF FilesInv, FileTypes
<1>8. CallInv'
    <2>1. FileSystem!Appended(n).size = n.size + count /\ FileSystem!Appended(n).used
        BY <1>2, AppendedIs DEF FilesInv
    <2>2. CASE access' = "write_inode"
        <3>1. inode' = FileSystem!Appended(n)' BY <1>1, <2>2 DEF FileSystem!Appended
        <3> QED BY <3>1, <1>1, <1>2, <2>1, <2>2 DEF FilesInv, CallInv
    <2>3. CASE access' = "write_data"
        <3>1. n.direct # 0 BY <1>1, <1>2, <2>3 DEF FilesInv, NamesInv
        <3> QED BY <3>1, <1>1, <1>2, <2>3 DEF FilesInv, CallInv
    <2>4. CASE access' = "read_bitmap" BY <1>1, <1>2, <2>4 DEF FilesInv, CallInv
    <2> QED BY <1>1, <2>2, <2>3, <2>4
<1> QED BY <1>3, <1>5, <1>7, <1>8 DEF FilesInv

LEMMA BitmapRead == FilesInv /\ FileSystem!ReadBitmap => FilesInv'
<1> SUFFICES ASSUME FilesInv, FileSystem!ReadBitmap PROVE FilesInv' OBVIOUS
<1>1. /\ access = "read_bitmap"
      /\ UNCHANGED <<marked, inodes, data, writes, acknowledged, faults, long>>
      /\ \/ FileSystem!Return
         \/ /\ FileSystem!Free # {} /\ block' = FileSystem!First(FileSystem!Free)
            /\ access' = "write_bitmap" /\ UNCHANGED <<fd, count, inode>>
    BY DEF FileSystem!ReadBitmap, FileSystem!disk, FileSystem!ghosts
<1>2. block = 0 BY <1>1 DEF FilesInv, CallInv
<1>3. /\ FileSystem!Return => access' = "idle" /\ block' = 0 /\ inode' = FileSystem!Unused
      /\ FileSystem!Unused \in Inode
    BY DEF FileSystem!Return, FileSystem!Unused, Inode
<1>4. ASSUME ~ FileSystem!Return
      PROVE  block' \in Numbers /\ block' \notin marked /\ block' # 0
    <2>1. FileSystem!Free \subseteq Nat /\ FileSystem!Free \subseteq Numbers \ marked /\ 0 \notin Numbers
        BY BitsAreCounted DEF FileSystem!Free, Numbers
    <2>2. block' \in FileSystem!Free BY <2>1, <1>1, <1>4, LeastExists DEF FileSystem!First
    <2> QED BY <2>1, <2>2
<1>5. FileTypes' BY <1>1, <1>3, <1>4 DEF FilesInv, FileTypes
<1>6. Latest' \in Int /\ Latest' >= Latest BY <1>1, <1>3 DEF FilesInv, FileTypes, Latest
<1>7. NamesInv' /\ ContentsInv' BY <1>1, <1>6, InodesKept
<1>8. (FileSystem!Lost)' = FileSystem!Lost
    BY <1>1 DEF FileSystem!Lost, FileSystem!Named, FileSystem!Large
<1>9. LostInv'
    <2>1. 0 \notin Numbers BY BitsAreCounted DEF Numbers
    <2>2. 0 \notin FileSystem!Lost BY <2>1 DEF FileSystem!Lost, FilesInv, FileTypes
    <2>3. (FileSystem!Lost \ {block})' \subseteq FileSystem!Lost \ {block} BY <1>2, <1>8, <2>2
    <2> QED BY <1>1, <1>5, <2>3, LostStep DEF FilesInv, FileTypes
<1>10. CallInv'
    <2>1. CASE FileSystem!Return BY <2>1, <1>3 DEF CallInv
    <2>2. CASE ~ FileSystem!Return BY <2>2, <1>1, <1>4 DEF FilesInv, CallInv
    <2> QED BY <2>1, <2>2
<1> QED BY <1>5, <1>7, <1>9, <1>10 DEF FilesInv

\* The block is marked when the inode begins to name it; a failure loses it.
LEMMA BitmapWritten == FilesInv /\ FileSystem!WriteBitmap => FilesInv'
<1> SUFFICES ASSUME FilesInv, FileSystem!WriteBitmap PROVE FilesInv' OBVIOUS
<1>1. /\ access = "write_bitmap" /\ UNCHANGED <<inodes, data>>
      /\ \/ /\ marked' = marked \cup {block} /\ inode' = FileSystem!Linked /\ access' = "write_data"
            /\ UNCHANGED <<fd, count, block, writes, acknowledged, faults, long>>
         \/ /\ FileSystem!Fault /\ FileSystem!Return
            /\ marked' = marked \cup {block} \/ marked' = marked
    BY DEF FileSystem!WriteBitmap, FileSystem!ghosts, FileSystem!Fails
<1>2. /\ fd \in Files /\ inodes[fd].used /\ count \in Nat \ {0} /\ block \in Numbers /\ block # 0
      /\ block \notin marked /\ inode = inodes[fd] /\ inode \in Inode
      /\ inode.size <= Inline /\ inode.size + count > Inline
    BY <1>1 DEF FilesInv, CallInv, FileTypes
<1>3. CASE marked' = marked /\ FileSystem!Fault /\ FileSystem!Return BY <1>1, <1>3, CallFails
<1>4. CASE marked' = marked \cup {block}
    <2>1. \/ /\ access' = "idle" /\ inode' = FileSystem!Unused /\ block' = 0 /\ Failed
          \/ /\ access' = "write_data" /\ inode' = FileSystem!Linked /\ Same
             /\ UNCHANGED <<fd, count, block>>
        BY <1>1, <1>2, <1>4 DEF FileSystem!Fault, FileSystem!Return, Failed, Same
    <2>2. /\ FileSystem!Linked \in Inode /\ FileSystem!Linked.direct = block
          /\ FileSystem!Linked.size = inode.size /\ FileSystem!Linked.used = inode.used
        <3>1. << >> \in Seq(Nat) OBVIOUS
        <3> QED BY <3>1, <1>2 DEF FileSystem!Linked, Inode
    <2>3. FileTypes' BY <2>1, <2>2, <1>1, <1>2, <1>4, EmptyInodes DEF FilesInv, FileTypes, Failed, Same
    <2>4. Latest' \in Int /\ Latest' >= Latest
        BY <1>1, <2>1 DEF FilesInv, FileTypes, Latest, Failed, Same
    <2>5. NamesInv' /\ ContentsInv' BY <1>1, <1>4, <2>1, <2>4, InodesKept DEF Failed, Same
    <2>6. (FileSystem!Lost)' \subseteq FileSystem!Lost \cup {block}
        BY <1>1, <1>4 DEF FileSystem!Lost, FileSystem!Named, FileSystem!Large
    <2>7. LostInv'
        BY <2>1, <2>3, <2>6, LostStep DEF FilesInv, FileTypes, Failed, Same
    <2>8. CallInv'
        <3>1. CASE access' = "idle" BY <3>1, <2>1 DEF CallInv
        <3>2. CASE access' = "write_data"
            <4>1. Same /\ UNCHANGED <<fd, count, block>> /\ inode' = FileSystem!Linked BY <2>1, <3>2
            <4>2. inodes[fd].direct = 0
                BY <1>2, FilesAssumption DEF FilesInv, Inode, NamesInv
            <4>3. \A f \in Files : inodes[f].direct # block BY <1>2 DEF FilesInv, NamesInv
            <4>4. (access # "idle" => fd \in Files /\ inodes[fd].used /\ count \in Nat \ {0} /\ (long \/ count <= Sector)
                          /\ writes > 0)'
                BY <4>1, <1>1, <1>2 DEF Same, FilesInv, CallInv
            <4> QED BY <4>1, <4>2, <4>3, <4>4, <3>2, <1>1, <1>2, <1>4, <2>2 DEF CallInv
        <3> QED BY <3>1, <3>2, <2>1
    <2> QED BY <2>3, <2>5, <2>7, <2>8 DEF FilesInv
<1> QED BY <1>1, <1>3, <1>4

LEMMA InodeWritten == FilesInv /\ FileSystem!WriteInode => FilesInv'
<1> SUFFICES ASSUME FilesInv, FileSystem!WriteInode PROVE FilesInv' OBVIOUS
<1>1. /\ access = "write_inode" /\ marked' = marked /\ data' = data
      /\ access' = "idle" /\ inode' = FileSystem!Unused /\ block' = 0 /\ FileSystem!Return
      /\ \/ /\ inodes' = [inodes EXCEPT ![fd] = inode]
            /\ acknowledged' = [acknowledged EXCEPT ![fd] = Append(@, writes)]
            /\ writes' = writes /\ faults' = faults /\ long' = long
         \/ /\ FileSystem!Fault /\ Failed
            /\ inodes' = [inodes EXCEPT ![fd] = inode] \/ inodes' = inodes
    BY DEF FileSystem!WriteInode, FileSystem!Fails, FileSystem!Fault, FileSystem!Return, Failed
<1>2. CASE FileSystem!Fault /\ inodes' = inodes BY <1>1, <1>2, CallFails
<1>3. CASE inodes' = [inodes EXCEPT ![fd] = inode]
    <2>1. /\ fd \in Files /\ inodes[fd].used /\ inode.used /\ count \in Nat \ {0} /\ inode \in Inode
          /\ inodes[fd] \in Inode
        BY <1>1 DEF FilesInv, CallInv, FileTypes
    <2>2. inodes' \in [Files -> Inode] /\ inodes'[fd] = inode
          /\ \A f \in Files \ {fd} : inodes'[f] = inodes[f]
        BY <2>1, <1>3 DEF FilesInv, FileTypes
    <2>3. /\ acknowledged' \in [Files -> Seq(Nat)] /\ long' = long /\ writes' = writes
          /\ \A f \in Files \ {fd} : acknowledged'[f] = acknowledged[f]
          /\ acknowledged'[fd] \in {acknowledged[fd], Append(acknowledged[fd], writes)}
          /\ faults' \in {faults, faults + 1}
        <3>1. CASE acknowledged' = [acknowledged EXCEPT ![fd] = Append(@, writes)]
                   /\ writes' = writes /\ faults' = faults /\ long' = long
            <4>1. Append(acknowledged[fd], writes) \in Seq(Nat) BY <2>1 DEF FilesInv, FileTypes
            <4> QED BY <3>1, <4>1, <2>1 DEF FilesInv, FileTypes
        <3>2. CASE Failed BY <3>2 DEF FilesInv, FileTypes, Failed
        <3> QED BY <3>1, <3>2, <1>1
    <2>4. FileTypes' BY <1>1, <2>2, <2>3, EmptyInodes DEF FilesInv, FileTypes
    <2>5. \/ /\ block = 0 /\ inode = FileSystem!Appended(inodes[fd]) /\ inode.size <= Inline
             /\ inodes[fd].size <= Inline
             /\ inode.direct = 0 /\ inodes[fd].direct = 0
             /\ inode.inlinedata = Append(inodes[fd].inlinedata, writes)
          \/ /\ inode.size > Inline /\ inode.direct # 0 /\ block = 0
             /\ inode.direct = inodes[fd].direct
             /\ ~ long => data[inode.direct] = <<fd, writes>>
          \/ /\ inode.size > Inline /\ inode.direct # 0 /\ block # 0
             /\ inode.direct = block /\ inodes[fd].direct = 0 /\ block \in marked
             /\ \A f \in Files : inodes[f].direct # block
             /\ ~ long => data[inode.direct] = <<fd, writes>>
        <3>1. CASE block = 0 /\ inode = FileSystem!Appended(inodes[fd]) /\ inode.size <= Inline
            <4>1. /\ inode.direct = inodes[fd].direct /\ inode.size = inodes[fd].size + count
                  /\ inode.inlinedata = Append(inodes[fd].inlinedata, writes)
                BY <3>1, <2>1, AppendedIs DEF FilesInv
            <4>2. inodes[fd].size <= Inline BY <4>1, <3>1, <2>1, FilesAssumption DEF Inode
            <4>3. inodes[fd].direct = 0
                BY <4>2, <2>1, FilesAssumption DEF FilesInv, NamesInv, Inode
            <4> QED BY <3>1, <4>1, <4>2, <4>3
        <3>2. CASE ~ (block = 0 /\ inode = FileSystem!Appended(inodes[fd]) /\ inode.size <= Inline)
            BY <3>2, <1>1 DEF FilesInv, CallInv
        <3> QED BY <3>1, <3>2
    <2>6. NamesInv'
        <3>1. (\A f \in Files : inodes[f].direct # 0 <=> inodes[f].size > Inline)'
            <4>1. inode.direct # 0 <=> inode.size > Inline
                BY <2>1, <2>5, FilesAssumption DEF Inode
            <4> QED BY <4>1, <2>2 DEF FilesInv, NamesInv
        <3>2. (\A f \in Files : inodes[f].direct # 0 => inodes[f].direct \in marked)'
            BY <1>1, <2>1, <2>2, <2>5 DEF FilesInv, NamesInv
        <3>3. (\A f, g \in Files : inodes[f].direct # 0 /\ inodes[f].direct = inodes[g].direct => f = g)'
            BY <2>1, <2>2, <2>5 DEF FilesInv, NamesInv
        <3>4. (\A f \in Files : ~ inodes[f].used => inodes[f] = FileSystem!Unused /\ acknowledged[f] = <<>>)'
            BY <2>1, <2>2, <2>3 DEF FilesInv, NamesInv, FileSystem!Unused
        <3> QED BY <3>1, <3>2, <3>3, <3>4 DEF NamesInv
    <2>7. LostInv'
        <3>0. (FileSystem!Named)' = {inodes'[f].direct : f \in Files} \ {0}
            BY <2>6 DEF NamesInv, FileSystem!Named, FileSystem!Large
        <3>1. FileSystem!Named \subseteq (FileSystem!Named)'
            <4>1. \A f \in Files : inodes[f].direct # 0 => inodes'[f].direct = inodes[f].direct
                BY <2>2, <2>5
            <4>2. FileSystem!Named = {inodes[f].direct : f \in Files} \ {0} BY NamedBlocks DEF FilesInv
            <4> QED BY <3>0, <4>1, <4>2
        <3>2. (FileSystem!Lost)' \subseteq FileSystem!Lost BY <3>1, <1>1 DEF FileSystem!Lost
        <3>3. block = 0 \/ block \in (FileSystem!Named)'
            BY <2>1, <2>2, <2>5, <3>0
        <3>4. 0 \notin Numbers BY BitsAreCounted DEF Numbers
        <3>5. (FileSystem!Lost \ {block})' \subseteq FileSystem!Lost \ {block}
            BY <3>2, <3>3, <3>4 DEF FileSystem!Lost, FilesInv, FileTypes
        <3> QED BY <2>3, <2>4, <3>2, <3>5, LostStep DEF FilesInv, FileTypes
    <2>8. ContentsInv'
        <3>1. writes \in Nat /\ Latest = writes - 1 /\ Latest' = writes
            BY <1>1, <2>3 DEF FilesInv, FileTypes, Latest
        <3>2. ASSUME NEW f \in Files \ {fd} PROVE Readable(f) => Readable(f)'
            BY <3>2, <1>1, <2>2, <2>3 DEF Readable, FileSystem!Embeds
        <3>3. ASSUME NEW f \in Files
              PROVE  /\ inodes[f].size <= Inline => \A i \in DOMAIN inodes[f].inlinedata :
                            inodes[f].inlinedata[i] <= writes - 1 /\ inodes[f].inlinedata[i] \in Nat
                     /\ \A i \in DOMAIN acknowledged[f] :
                            acknowledged[f][i] <= writes - 1 /\ acknowledged[f][i] \in Nat
            BY <3>1 DEF FilesInv, FileTypes, Inode, ContentsInv, NothingNewer
        <3> DEFINE s == acknowledged[fd]
                   t == inodes[fd].inlinedata
        <3>4. s \in Seq(Nat) /\ t \in Seq(Nat) BY <2>1 DEF FilesInv, FileTypes, Inode
        <3>5. s \in Seq(Nat) /\ \A i \in DOMAIN s : s[i] <= writes - 1 /\ s[i] \in Nat
            BY <3>3, <3>4, <2>1
        <3>a. /\ acknowledged'[fd] \in {s, Append(s, writes)} /\ acknowledged'[fd] \in Seq(Nat)
              /\ \A i \in DOMAIN acknowledged'[fd] : acknowledged'[fd][i] <= writes /\ acknowledged'[fd][i] \in Nat
            <4> HIDE DEF s
            <4>1. acknowledged'[fd] \in {s, Append(s, writes)} BY <2>3 DEF s
            <4>2. /\ Append(s, writes) \in Seq(Nat)
                  /\ \A i \in DOMAIN Append(s, writes) :
                        Append(s, writes)[i] <= writes /\ Append(s, writes)[i] \in Nat
                BY <3>1, <3>5
            <4>3. \A i \in DOMAIN s : s[i] <= writes /\ s[i] \in Nat BY <3>1, <3>5
            <4> QED BY <4>1, <4>2, <4>3, <3>5
        <3>b. inode.size <= Inline =>
                /\ inodes[fd].size <= Inline /\ inode.inlinedata = Append(t, writes)
                /\ \A i \in DOMAIN t : t[i] <= writes - 1 /\ t[i] \in Nat
                /\ \A i \in DOMAIN inode.inlinedata : inode.inlinedata[i] <= writes
            <4>1. SUFFICES ASSUME inode.size <= Inline PROVE
                    /\ inodes[fd].size <= Inline /\ inode.inlinedata = Append(t, writes)
                    /\ \A i \in DOMAIN t : t[i] <= writes - 1 /\ t[i] \in Nat
                    /\ \A i \in DOMAIN inode.inlinedata : inode.inlinedata[i] <= writes
                OBVIOUS
            <4>2. inodes[fd].size <= Inline /\ inode.inlinedata = Append(t, writes)
                BY <4>1, <2>1, <2>5, FilesAssumption DEF Inode
            <4>3. \A i \in DOMAIN t : t[i] <= writes - 1 /\ t[i] \in Nat BY <4>2, <3>3, <2>1
            <4> QED BY <4>2, <4>3, <3>1, <3>4
        <3>c. ASSUME NEW f \in Files PROVE NothingNewer(f)'
            <4>1. CASE f = fd
                <5>1. inodes'[f] = inode /\ acknowledged'[f] = acknowledged'[fd] BY <4>1, <2>2
                <5>2. \A i \in DOMAIN acknowledged'[f] : acknowledged'[f][i] <= Latest'
                    BY <5>1, <3>1, <3>a
                <5>3. inode.size <= Inline => \A i \in DOMAIN inode.inlinedata : inode.inlinedata[i] <= Latest'
                    BY <3>1, <3>b
                <5> QED BY <5>1, <5>2, <5>3 DEF NothingNewer
            <4>2. CASE f # fd
                <5>1. inodes'[f] = inodes[f] /\ acknowledged'[f] = acknowledged[f] BY <4>2, <2>2, <2>3
                <5>2. \A i \in DOMAIN acknowledged[f] : acknowledged[f][i] <= Latest' BY <3>1, <3>3
                <5>3. inodes[f].size <= Inline =>
                        \A i \in DOMAIN inodes[f].inlinedata : inodes[f].inlinedata[i] <= Latest'
                    BY <3>1, <3>3
                <5> QED BY <5>1, <5>2, <5>3 DEF NothingNewer
            <4> QED BY <4>1, <4>2
        <3>6. ASSUME ~ long', inode.size > Inline
              PROVE  /\ data[inode.direct][1] = fd
                     /\ acknowledged'[fd] # <<>> =>
                            data[inode.direct][2] >= acknowledged'[fd][Len(acknowledged'[fd])]
            <4>1. data[inode.direct] = <<fd, writes>> BY <3>6, <2>1, <2>3, <2>5, FilesAssumption DEF Inode
            <4>2. acknowledged'[fd] # <<>> => Len(acknowledged'[fd]) \in DOMAIN acknowledged'[fd]
                BY <3>a
            <4> QED BY <4>1, <4>2, <3>1, <3>a
        <3>7. ASSUME ~ long', ~ inode.size > Inline
              PROVE  FileSystem!Embeds(acknowledged'[fd], inode.inlinedata)
            <4>1. /\ inodes[fd].size <= Inline /\ inode.inlinedata = Append(t, writes)
                  /\ \A i \in DOMAIN t : t[i] <= writes - 1 /\ t[i] \in Nat
                BY <3>7, <3>b, <2>1, FilesAssumption DEF Inode
            <4>2. /\ \A i \in DOMAIN s : \E j \in DOMAIN t : s[i] = t[j]
                  /\ \A i \in 1 .. Len(t) - 1 : t[i] < t[i + 1]
                <5>1. Readable(fd) BY <3>7, <2>1, <2>3 DEF FilesInv, ContentsInv
                <5>2. ~ inodes[fd].size > Inline BY <4>1, <2>1, FilesAssumption DEF Inode
                <5> QED BY <5>1, <5>2 DEF Readable, FileSystem!Embeds
            <4> HIDE DEF s, t
            <4> DEFINE u == Append(t, writes)
            <4>3. /\ Len(u) = Len(t) + 1 /\ u[Len(t) + 1] = writes /\ DOMAIN u = 1 .. Len(t) + 1
                  /\ \A j \in DOMAIN t : j \in DOMAIN u /\ u[j] = t[j]
                BY <3>1, <3>4
            <4>4. \A i \in DOMAIN acknowledged'[fd] : \E j \in DOMAIN u : acknowledged'[fd][i] = u[j]
                <5>1. CASE acknowledged'[fd] = s BY <5>1, <4>2, <4>3
                <5>2. CASE acknowledged'[fd] = Append(s, writes)
                    <6>1. SUFFICES ASSUME NEW i \in DOMAIN Append(s, writes)
                          PROVE  \E j \in DOMAIN u : Append(s, writes)[i] = u[j]
                        BY <5>2
                    <6>2. CASE i = Len(s) + 1 BY <6>2, <4>3, <3>1, <3>4
                    <6>3. CASE i # Len(s) + 1
                        <7>1. i \in DOMAIN s /\ Append(s, writes)[i] = s[i] BY <6>3, <3>1, <3>4
                        <7> QED BY <7>1, <4>2, <4>3
                    <6> QED BY <6>2, <6>3
                <5> QED BY <5>1, <5>2, <3>a
            <4>5. \A i \in 1 .. Len(u) - 1 : u[i] < u[i + 1]
                <5>1. SUFFICES ASSUME NEW i \in 1 .. Len(t) PROVE u[i] < u[i + 1] BY <4>3, <3>4
                <5>2. i \in DOMAIN t /\ u[i] = t[i] /\ t[i] \in Nat /\ t[i] <= writes - 1
                    BY <3>4, <4>1, <4>3
                <5>3. CASE i = Len(t) BY <5>2, <5>3, <4>3, <3>1
                <5>4. CASE i # Len(t)
                    <6>1. i \in 1 .. Len(t) - 1 /\ i + 1 \in DOMAIN t BY <5>4, <3>4
                    <6> QED BY <6>1, <5>2, <4>2, <4>3
                <5> QED BY <5>3, <5>4
            <4> QED BY <4>1, <4>4, <4>5 DEF FileSystem!Embeds
        <3>8. ASSUME NEW f \in Files, f = fd, ~ long' PROVE Readable(f)'
            BY <3>6, <3>7, <3>8, <1>1, <2>2 DEF Readable, FileSystem!Embeds
        <3>9. ASSUME NEW f \in Files, ~ long' PROVE Readable(f)'
            BY <3>2, <3>8, <3>9, <2>3 DEF FilesInv, ContentsInv
        <3> QED BY <3>c, <3>9 DEF ContentsInv
    <2>9. CallInv' BY <1>1 DEF CallInv
    <2> QED BY <2>4, <2>6, <2>7, <2>8, <2>9 DEF FilesInv
<1> QED BY <1>1, <1>2, <1>3

\* As long as no write is longer than a block, it covers one.
LEMMA OneBlockCovered ==
    ASSUME FileTypes, count \in Nat \ {0}, inode.direct # 0
    PROVE  /\ FileSystem!Covered \subseteq Numbers /\ inode.direct \in FileSystem!Covered
           /\ count <= Sector => FileSystem!Covered = {inode.direct}
<1>1. inode.direct \in Numbers /\ inode.direct \in Nat
    BY BitsAreCounted DEF FileTypes, Inode, Numbers
<1>2. (inode.direct - inode.direct) * Sector = 0 BY <1>1, FilesAssumption
<1>3. inode.direct \in FileSystem!Covered BY <1>1, <1>2 DEF FileSystem!Covered, Numbers
<1>4. ASSUME count <= Sector, NEW b \in FileSystem!Covered PROVE b = inode.direct
    <2>1. b \in Nat /\ b >= inode.direct /\ (b - inode.direct) * Sector < count
        BY BitsAreCounted DEF FileSystem!Covered
    <2> DEFINE d == b - inode.direct
    <2>2. d \in Nat BY <2>1, <1>1
    <2>3. d * Sector < Sector
        <3>1. d * Sector \in Nat BY <2>2, FilesAssumption
        <3> QED BY <3>1, <2>1, <1>4, FilesAssumption
    <2>4. d = 0
        <3> HIDE DEF d
        <3>1. SUFFICES ASSUME d >= 1 PROVE FALSE BY <2>2
        <3>2. d * Sector >= Sector BY <3>1, <2>2, FilesAssumption
        <3> QED BY <3>2, <2>2, <2>3, FilesAssumption
    <2> QED BY <2>1, <2>4, <1>1
<1> QED BY <1>3, <1>4 DEF FileSystem!Covered, Numbers

LEMMA DataWritten == FilesInv /\ FileSystem!WriteData => FilesInv'
<1> SUFFICES ASSUME FilesInv, FileSystem!WriteData PROVE FilesInv' OBVIOUS
<1>1. /\ access = "write_data" /\ marked' = marked /\ inodes' = inodes
      /\ FileSystem!Put \/ data' = data
      /\ \/ /\ FileSystem!Put /\ inode' = [inode EXCEPT !.size = @ + count] /\ access' = "write_inode"
            /\ UNCHANGED <<fd, count, block, writes, acknowledged, faults, long>>
         \/ FileSystem!Fault /\ FileSystem!Return
         \/ /\ \E b \in FileSystem!Covered : b > Blocks
            /\ FileSystem!Return
            /\ UNCHANGED <<writes, acknowledged, faults, long>>
    BY DEF FileSystem!WriteData, FileSystem!ghosts, FileSystem!Fails
<1>2. /\ fd \in Files /\ inodes[fd].used /\ inode.used /\ count \in Nat \ {0} /\ inode.direct # 0
      /\ inode.size + count > Inline /\ inode \in Inode /\ inodes[fd] \in Inode
      /\ inode.direct \in Numbers /\ writes \in Nat /\ writes > 0 /\ (long \/ count <= Sector)
      /\ \/ block = 0 /\ inode.direct = inodes[fd].direct
         \/ /\ block # 0 /\ inode.direct = block /\ block \in marked
            /\ \A f \in Files : inodes[f].direct # block
    BY <1>1 DEF FilesInv, CallInv, FileTypes, Inode
<1>3. /\ access' = "write_inode" => inode' = [inode EXCEPT !.size = @ + count] /\ Same /\ UNCHANGED <<fd, count, block>>
                                    /\ FileSystem!Put
      /\ access' # "write_inode" => access' = "idle" /\ inode' = FileSystem!Unused /\ block' = 0
      /\ access' \in {"idle", "write_inode"}
      /\ Same \/ Failed
    BY <1>1 DEF FileSystem!Fault, FileSystem!Return, Failed, Same
<1>4. FileTypes'
    <2>1. inode' \in Inode BY <1>2, <1>3, EmptyInodes DEF Inode
    <2>2. block' \in Numbers \cup {0} BY <1>3 DEF FilesInv, FileTypes
    <2> QED BY <2>1, <2>2, <1>1, <1>3 DEF FilesInv, FileTypes, Failed, Same
<1>5. NamesInv' BY <1>1, <1>3 DEF FilesInv, NamesInv, FileSystem!Unused, Failed, Same
<1>6. (FileSystem!Lost)' = FileSystem!Lost
    BY <1>1 DEF FileSystem!Lost, FileSystem!Named, FileSystem!Large
<1>7. LostInv'
    <2>1. CASE Failed BY <2>1, <1>4, <1>6, LostStep DEF FilesInv, FileTypes, Failed
    <2>2. CASE Same /\ access' = "write_inode"
        BY <2>2, <1>3, <1>4, <1>6, LostStep DEF FilesInv, FileTypes, Same
    <2>3. CASE Same /\ access' = "idle"
        <3>1. PICK b \in FileSystem!Covered : b > Blocks
            <4>1. faults' # faults + 1 BY <2>3 DEF Same, FilesInv, FileTypes
            <4> QED BY <4>1, <2>3, <1>1 DEF FileSystem!Fault
        <3>2. CASE long BY <3>2, <2>3, <1>4, <1>6, LostStep DEF FilesInv, FileTypes, Same
        <3>3. CASE ~ long
            <4>1. inode.direct > Blocks BY <3>1, <3>3, <1>2, OneBlockCovered DEF FilesInv
            <4>2. block \notin FileSystem!Lost
                <5>1. 0 \notin FileSystem!Lost
                    BY BitsAreCounted DEF FileSystem!Lost, FilesInv, FileTypes, Numbers
                <5>2. inode.direct \notin FileSystem!Lost
                    <6>1. inode.direct \in Nat BY <1>2, BitsAreCounted DEF Numbers
                    <6> QED BY <6>1, <4>1, FilesAssumption DEF FileSystem!Lost
                <5> QED BY <5>1, <5>2, <1>2
            <4>3. (FileSystem!Lost \ {block})' \subseteq FileSystem!Lost \ {block} BY <4>2, <1>6
            <4> QED BY <4>3, <2>3, <1>4, LostStep DEF FilesInv, FileTypes, Same
        <3> QED BY <3>2, <3>3
    <2> QED BY <2>1, <2>2, <2>3, <1>3
<1>8. ContentsInv'
    <2>1. long' = long /\ acknowledged' = acknowledged /\ writes' = writes BY <1>3 DEF Failed, Same
    <2>2. Latest = writes - 1 /\ (Latest' = writes \/ Latest' = writes - 1)
        BY <1>1, <1>3, <2>1 DEF Latest
    <2>3. ASSUME NEW f \in Files PROVE NothingNewer(f)'
        <3>1. /\ \A i \in DOMAIN inodes[f].inlinedata : inodes[f].inlinedata[i] \in Nat
              /\ \A i \in DOMAIN acknowledged[f] : acknowledged[f][i] \in Nat
            BY DEF FilesInv, FileTypes, Inode
        <3>2. NothingNewer(f) BY DEF FilesInv, ContentsInv
        <3> QED BY <3>1, <3>2, <2>1, <2>2, <1>1, <1>2 DEF NothingNewer
    <2>4. ASSUME NEW f \in Files, ~ long PROVE Readable(f)'
        <3>1. Readable(f) BY <2>4 DEF FilesInv, ContentsInv
        <3>2. CASE data' = data BY <3>1, <3>2, <2>1, <1>1 DEF Readable, FileSystem!Embeds
        <3>3. CASE ~ inodes[f].size > Inline
            BY <3>1, <3>3, <2>1, <1>1 DEF Readable, FileSystem!Embeds
        <3>4. CASE inodes[f].size > Inline /\ FileSystem!Put
            <4>1. inodes[f].direct \in Numbers /\ inodes[f].direct # 0
                BY <3>4 DEF FilesInv, NamesInv, FileTypes, Inode
            <4>2. FileSystem!Covered = {inode.direct} BY <2>4, <1>2, OneBlockCovered DEF FilesInv
            <4>3. data'[inodes[f].direct] =
                    IF inodes[f].direct = inode.direct THEN <<fd, writes>> ELSE data[inodes[f].direct]
                BY <3>4, <4>1, <4>2 DEF FileSystem!Put, Numbers
            <4>4. CASE inodes[f].direct # inode.direct
                BY <4>3, <4>4, <3>1, <3>4, <2>1, <1>1 DEF Readable
            <4>5. CASE inodes[f].direct = inode.direct
                <5>1. f = fd BY <4>1, <4>5, <1>2 DEF FilesInv, NamesInv
                <5>2. acknowledged[f] # << >> =>
                        acknowledged[f][Len(acknowledged[f])] \in Nat
                        /\ acknowledged[f][Len(acknowledged[f])] <= writes - 1
                    <6>1. acknowledged[f] \in Seq(Nat) BY DEF FilesInv, FileTypes
                    <6>2. NothingNewer(f) BY DEF FilesInv, ContentsInv
                    <6> QED BY <6>1, <6>2, <2>2 DEF NothingNewer
                <5> QED BY <5>1, <5>2, <4>3, <4>5, <3>4, <2>1, <1>1, <1>2 DEF Readable
            <4> QED BY <4>4, <4>5
        <3> QED BY <3>2, <3>3, <3>4, <1>1
    <2> QED BY <2>1, <2>3, <2>4 DEF ContentsInv
<1>9. CallInv'
    <2>1. CASE access' = "idle" BY <2>1, <1>3 DEF CallInv
    <2>2. CASE access' = "write_inode"
        <3>1. inode'.size = inode.size + count /\ inode'.direct = inode.direct /\ inode'.used
            BY <2>2, <1>2, <1>3 DEF Inode
        <3>2. ~ long => data'[inode'.direct] = <<fd, writes>>
            BY <2>2, <1>2, <1>3, <3>1, OneBlockCovered DEF FilesInv, FileSystem!Put, Numbers
        <3>3. Same /\ UNCHANGED <<fd, count, block>> BY <2>2, <1>3
        <3> QED BY <2>2, <3>1, <3>2, <3>3, <1>1, <1>2 DEF FilesInv, CallInv, Same
    <2> QED BY <2>1, <2>2, <1>3
<1> QED BY <1>4, <1>5, <1>7, <1>8, <1>9 DEF FilesInv

LEMMA FilesStep == FilesInv /\ [FileSystem!Next]_(FileSystem!vars) => FilesInv'
<1>1. ASSUME FilesInv, UNCHANGED FileSystem!vars PROVE FilesInv'
    <2>1. UNCHANGED <<marked, inodes, data, access, fd, count, inode, block, writes, acknowledged, faults, long>>
        BY <1>1 DEF FileSystem!vars, FileSystem!disk, FileSystem!locals, FileSystem!ghosts
    <2> QED BY <2>1, <1>1 DEF FilesInv, FileTypes, NamesInv, ContentsInv, Readable, NothingNewer, LostInv, CallInv,
        Latest, FileSystem!Lost, FileSystem!Named, FileSystem!Large, FileSystem!Embeds, FileSystem!Appended
<1>2. ASSUME FilesInv, FileSystem!Next PROVE FilesInv'
    BY <1>2, InitStep, CrashStep, CreateStep, CallBegins, InodeRead, BitmapRead, ReadFailed, BitmapWritten,
       DataWritten, InodeWritten DEF FileSystem!Next
<1> QED BY <1>1, <1>2

LEMMA FilesKept == FileSystem!Spec => []FilesInv
BY FilesInitially, FilesStep, PTL DEF FileSystem!Spec

LEMMA AccountedIfKept == FilesInv => FileSystem!BlocksAccounted
<1> SUFFICES ASSUME FilesInv PROVE FileSystem!BlocksAccounted OBVIOUS
<1>1. \A f \in Files : inodes[f].direct # 0 <=> f \in FileSystem!Large
    BY DEF FilesInv, NamesInv, FileSystem!Large
<1>2. FileSystem!Named \subseteq marked BY <1>1 DEF FilesInv, NamesInv, FileSystem!Named, FileSystem!Large
<1>3. Cardinality(FileSystem!Named) = Cardinality(FileSystem!Large)
    <2> DEFINE L == FileSystem!Large
               N == FileSystem!Named
               h == [f \in L |-> inodes[f].direct]
    <2>1. IsFiniteSet(L) /\ L \subseteq Files
        BY FilesAssumption, FS_Subset DEF FileSystem!Large
    <2>2. h \in [L -> N] /\ \A b \in N : \E f \in L : h[f] = b BY DEF FileSystem!Named
    <2>3. \A f, g \in L : h[f] = h[g] => f = g BY <1>1, <2>1 DEF FilesInv, NamesInv
    <2>4. h \in Bijection(L, N)
        <3> HIDE DEF h, L, N
        <3> QED BY <2>2, <2>3 DEF Bijection, Injection, Surjection, IsInjective
    <2> HIDE DEF h, L, N
    <2>5. Cardinality(N) = Cardinality(L) BY <2>1, <2>4, FS_Bijection DEF ExistsBijection
    <2> QED BY <2>5 DEF L, N
<1>4. long \/ Cardinality(FileSystem!Lost) <= faults + (IF block = 0 THEN 0 ELSE 1)
    <2>1. SUFFICES ASSUME ~ long
          PROVE Cardinality(FileSystem!Lost) <= faults + (IF block = 0 THEN 0 ELSE 1)
        OBVIOUS
    <2>2. IsFiniteSet(FileSystem!Lost)
        BY BitsAreCounted, FS_Subset DEF FileSystem!Lost, FilesInv, FileTypes
    <2>3. Cardinality(FileSystem!Lost \ {block}) <= faults /\ faults \in Nat
        BY <2>1 DEF FilesInv, LostInv, FileTypes
    <2>4. Cardinality(FileSystem!Lost) \in Nat BY <2>2, FS_CardinalityType
    <2>5. CASE block = 0
        <3>1. FileSystem!Lost \ {block} = FileSystem!Lost
            BY <2>5, BitsAreCounted DEF FileSystem!Lost, FilesInv, FileTypes, Numbers
        <3> QED BY <3>1, <2>3, <2>5
    <2>6. CASE block # 0
        <3>1. Cardinality(FileSystem!Lost \ {block}) =
                IF block \in FileSystem!Lost THEN Cardinality(FileSystem!Lost) - 1
                ELSE Cardinality(FileSystem!Lost)
            BY <2>2, FS_RemoveElement
        <3> QED BY <3>1, <2>3, <2>4, <2>6
    <2> QED BY <2>5, <2>6
<1>5. \A S : FileSystem!Cardinality(S) = Cardinality(S) BY DEF FileSystem!Cardinality, Cardinality
<1> QED BY <1>1, <1>2, <1>3, <1>4, <1>5 DEF FileSystem!BlocksAccounted

LEMMA ReadBackIfKept == FilesInv => FileSystem!AcknowledgedWritesReadBack
<1> SUFFICES ASSUME FilesInv, ~ long, NEW f \in Files
    PROVE  IF f \notin FileSystem!Large THEN FileSystem!Embeds(acknowledged[f], FileSystem!fsz_read(f))
           ELSE LET a == acknowledged[f]
                IN  /\ data[inodes[f].direct][1] = f
                    /\ a # <<>> => FileSystem!fsz_read(f)[1] >= a[Len(a)]
    BY DEF FileSystem!AcknowledgedWritesReadBack
<1>1. Readable(f) /\ inodes[f].size \in Nat
    BY DEF FilesInv, ContentsInv, FileTypes, Inode
<1>2. inodes[f].size <= Inline <=> ~ inodes[f].size > Inline BY <1>1, FilesAssumption
<1> QED BY <1>1, <1>2 DEF Readable, FileSystem!fsz_read, FileSystem!Large

\* BlocksAccounted of Fsz: through any failures and restarts, for any number of
\* files and blocks, the inodes name marked blocks, each its own, and a block is
\* lost by a failure or a restart only, while no write is longer than a block.
THEOREM FilesAccountBlocks == FileSystem!Spec => []FileSystem!BlocksAccounted
BY FilesKept, AccountedIfKept, PTL

\* AcknowledgedWritesReadBack of Fsz: what fsz_write has reported as written is
\* what fsz_read returns, and never another file's data, whatever fails and
\* whenever the program stops, while no write is longer than a block.
THEOREM FilesReadBack == FileSystem!Spec => []FileSystem!AcknowledgedWritesReadBack
BY FilesKept, ReadBackIfKept, PTL

-----------------------------------------------------------------------------
(* The scheduler.                                                          *)

\* The state of every thread is one of process.h, and running is the current
\* one only, said of the places of the arrays.
ThreadsInv ==
    /\ process_threads \in [Threading!Processes -> Seq(Threading!States)]
    /\ \A p \in Threading!Processes : \A i \in DOMAIN process_threads[p] :
          process_threads[p][i] = "RUNNING" => <<p, i>> = current_thread

\* The strengthening implies the property: a thread is a place of an array.
LEMMA InvariantImpliesOneRunning == ThreadsInv => Threading!OneRunning
<1> SUFFICES ASSUME ThreadsInv, NEW t \in Threading!Threads, Threading!State(t) = "RUNNING"
             PROVE  t = current_thread
    BY DEF Threading!OneRunning
<1>1. t[1] \in Threading!Processes /\ t[2] \in 1 .. MaxThreads /\ t = <<t[1], t[2]>>
    BY DEF Threading!Threads
<1>2. process_threads[t[1]] \in Seq(Threading!States)
    BY <1>1 DEF ThreadsInv
<1>3. t[2] \in DOMAIN process_threads[t[1]]
    BY <1>1, <1>2 DEF Threading!Threads
<1> QED BY <1>1, <1>3 DEF ThreadsInv, Threading!State

\* Putting a state other than running into one place keeps the invariant.
LEMMA BecomeKeepsInvariant ==
    ASSUME ThreadsInv, NEW t \in Threading!Threads, NEW state \in Threading!States \ {"RUNNING"}, Threading!Become(t, state)
    PROVE  ThreadsInv'
<1>1. t[1] \in Threading!Processes /\ t[2] \in 1 .. MaxThreads
    BY DEF Threading!Threads
<1> DEFINE old == process_threads[t[1]]
           new == [old EXCEPT ![t[2]] = state]
<1>2. old \in Seq(Threading!States)
    BY <1>1 DEF ThreadsInv
<1>3. new \in Seq(Threading!States) /\ DOMAIN new = DOMAIN old
    BY <1>2, ReplacedIsSequence
<1>4. process_threads' = [process_threads EXCEPT ![t[1]] = new]
    BY DEF Threading!Become
<1>5. process_threads' \in [Threading!Processes -> Seq(Threading!States)]
    BY <1>3, <1>4 DEF ThreadsInv
<1>6. ASSUME NEW p \in Threading!Processes, NEW i \in DOMAIN process_threads'[p],
             process_threads'[p][i] = "RUNNING"
      PROVE  <<p, i>> = current_thread'
    <2>1. i \in DOMAIN process_threads[p] /\ process_threads[p][i] = "RUNNING"
        BY <1>1, <1>3, <1>4, <1>6 DEF ThreadsInv
    <2> QED BY <2>1 DEF ThreadsInv, Threading!Become
<1> QED BY <1>5, <1>6 DEF ThreadsInv

\* A call of process_scheduler makes the chosen thread run and the one that ran
\* ready; any other that ran would have been the current one.
LEMMA SchedulerKeepsInvariant ==
    ASSUME ThreadsInv, Threading!process_scheduler
    PROVE  ThreadsInv'
<1> DEFINE states(p) ==
        [i \in DOMAIN process_threads[p] |->
            CASE <<p, i>> = Threading!Chosen -> "RUNNING"
              [] <<p, i>> = current_thread /\ <<p, i>> # Threading!Chosen -> "READY"
              [] OTHER -> process_threads[p][i]]
<1>1. process_threads' = [p \in Threading!Processes |-> states(p)] /\ current_thread' = Threading!Chosen
    BY DEF Threading!process_scheduler, Threading!Switch
<1>2. ASSUME NEW p \in Threading!Processes PROVE states(p) \in Seq(Threading!States)
    <2>1. PICK n \in Nat : DOMAIN process_threads[p] = 1 .. n
        BY DEF ThreadsInv
    <2>2. \A i \in 1 .. n : process_threads[p][i] \in Threading!States
        BY <2>1 DEF ThreadsInv
    <2>3. \A i \in 1 .. n : states(p)[i] \in Threading!States
        BY <2>1, <2>2 DEF Threading!States
    <2>4. states(p) \in [1 .. n -> Threading!States]
        BY <2>1, <2>3
    <2> QED BY <2>4
<1>3. process_threads' \in [Threading!Processes -> Seq(Threading!States)]
    BY <1>1, <1>2
<1>4. ASSUME NEW p \in Threading!Processes, NEW i \in DOMAIN process_threads'[p],
             process_threads'[p][i] = "RUNNING"
      PROVE  <<p, i>> = current_thread'
    <2>1. i \in DOMAIN process_threads[p] /\ process_threads'[p][i] = states(p)[i]
        BY <1>1
    <2>2. CASE <<p, i>> = Threading!Chosen
        BY <1>1, <2>2
    <2>3. CASE <<p, i>> # Threading!Chosen /\ <<p, i>> = current_thread
        <3>1. states(p)[i] = "READY"
            BY <2>1, <2>3
        <3> QED BY <3>1, <2>1, <1>4
    <2>4. CASE <<p, i>> # Threading!Chosen /\ <<p, i>> # current_thread
        <3>1. states(p)[i] = process_threads[p][i]
            BY <2>1, <2>4
        <3> QED BY <3>1, <2>1, <2>4, <1>4 DEF ThreadsInv
    <2> QED BY <2>2, <2>3, <2>4
<1> QED BY <1>3, <1>4 DEF ThreadsInv

LEMMA InitThreads == Threading!Init => ThreadsInv
<1> SUFFICES ASSUME Threading!Init PROVE ThreadsInv
    OBVIOUS
<1>1. process_threads = [p \in Threading!Processes |-> <<>>]
    BY DEF Threading!Init
<1>2. <<>> \in Seq(Threading!States) /\ DOMAIN <<>> = {}
    OBVIOUS
<1> QED BY <1>1, <1>2 DEF ThreadsInv

LEMMA ThreadsStep == ThreadsInv /\ [Threading!Next]_(Threading!vars) => ThreadsInv'
<1> SUFFICES ASSUME ThreadsInv, [Threading!Next]_(Threading!vars) PROVE ThreadsInv'
    OBVIOUS
<1>1. CASE UNCHANGED <<process_threads, current_thread>>
    BY <1>1 DEF ThreadsInv
<1>2. CASE Threading!create_process \/ Threading!create_kernel_thread \/ Threading!create_user_thread
    BY <1>1, <1>2 DEF Threading!create_process, Threading!create_kernel_thread, Threading!create_user_thread,
        Threading!create_thread, Threading!threads
<1>3. CASE Threading!Load
    <2>1. PICK p \in Threading!Processes, n \in 1 .. MaxThreads :
            process_threads' = [process_threads EXCEPT ![p] = [i \in 1 .. n |-> "NEW"]]
        BY <1>3 DEF Threading!Load
    <2>2. [i \in 1 .. n |-> "NEW"] \in Seq(Threading!States)
        BY DEF Threading!States
    <2>3. process_threads' \in [Threading!Processes -> Seq(Threading!States)]
        BY <2>1, <2>2 DEF ThreadsInv
    <2>4. \A q \in Threading!Processes : \A i \in DOMAIN process_threads'[q] :
            process_threads'[q][i] = "RUNNING" => <<q, i>> = current_thread'
        BY <1>3, <2>1 DEF ThreadsInv, Threading!Load
    <2> QED BY <2>3, <2>4 DEF ThreadsInv
<1>4. CASE Threading!Wake
    <2>1. PICK t \in Threading!Threads : Threading!Become(t, "READY")
        BY <1>4 DEF Threading!Wake
    <2> QED BY <2>1, BecomeKeepsInvariant DEF Threading!States
<1>5. CASE Threading!Stop
    <2>1. PICK t \in Threading!Threads : Threading!Become(t, "WAITING")
        BY <1>5 DEF Threading!Stop
    <2> QED BY <2>1, BecomeKeepsInvariant DEF Threading!States
<1>6. CASE Threading!process_scheduler
    BY <1>6, SchedulerKeepsInvariant
<1> QED BY <1>1, <1>2, <1>3, <1>4, <1>5, <1>6 DEF Threading!Next, Threading!vars, Threading!threads

\* OneRunning of Scheduler: however threads are created, loaded, stopped and
\* woken between the calls of process_scheduler, no thread is in the state
\* RUNNING but the current one.
THEOREM SchedulerOneRunning == Threading!Spec => []Threading!OneRunning
<1> QED BY InitThreads, ThreadsStep, InvariantImpliesOneRunning, PTL DEF Threading!Spec

\* How many places the thread i is in front of the thread c of a process of n
\* threads, in a circle: n for c itself.
Ahead(i, c, n) == IF i > c THEN i - c ELSE i - c + n

\* A thread was passed over at most as often as there are threads it waits
\* for: the nearer the current thread comes, the more often.
TurnsInv ==
    /\ ThreadsInv
    /\ passed \in [Threading!Processes -> Seq(Nat)]
    /\ \A p \in Threading!Processes : Len(passed[p]) = Len(process_threads[p])
    /\ \/ current_thread = Threading!NULL
       \/ \E p \in Threading!Processes : \E c \in DOMAIN process_threads[p] : current_thread = <<p, c>>
    /\ \A p \in Threading!Processes : \A i \in DOMAIN process_threads[p] :
          IF p = current_thread[1]
          THEN passed[p][i] + Ahead(i, current_thread[2], Len(process_threads[p])) <= Len(process_threads[p])
          ELSE passed[p][i] = 0

\* The least ready thread of a process that has one.
LEMMA LeastReady ==
    ASSUME ThreadsInv, NEW p \in Threading!Processes, NEW S \in SUBSET Threading!Ready(p), S # {}
    PROVE  /\ Threading!Least(S) \in S
           /\ \A j \in S : Threading!Least(S) <= j
<1>1. S \in SUBSET Nat
    BY DEF ThreadsInv, Threading!Ready
<1>2. \E i \in S : \A j \in S : i <= j
    BY <1>1, LeastExists
<1> QED BY <1>2 DEF Threading!Least

\* The search through a list of processes finds the first ready thread of one
\* of them, if any has one.
LEMMA FirstReadyFinds ==
    ASSUME ThreadsInv, NEW m \in Nat, NEW list \in [1 .. m -> Threading!Processes]
    PROVE  \/ /\ Threading!FirstReady(list) = Threading!NULL
              /\ \A k \in 1 .. m : Threading!Ready(list[k]) = {}
           \/ \E p \in Threading!Processes : \E i \in Threading!Ready(p) :
                /\ Threading!FirstReady(list) = <<p, i>>
                /\ \A j \in Threading!Ready(p) : i <= j
<1> DEFINE able == {k \in DOMAIN list : Threading!Ready(list[k]) # {}}
           k0 == Threading!Least(able)
<1>1. CASE able = {}
    <2>1. Threading!FirstReady(list) = Threading!NULL
        BY <1>1 DEF Threading!FirstReady
    <2> QED BY <1>1, <2>1
<1>2. CASE able # {}
    <2>1. able \in SUBSET Nat
        OBVIOUS
    <2>2. \E i \in able : \A j \in able : i <= j
        BY <1>2, <2>1, LeastExists
    <2>3. k0 \in able
        BY <2>2 DEF Threading!Least
    <2>4. list[k0] \in Threading!Processes /\ Threading!Ready(list[k0]) # {}
        BY <2>3
    <2>5. Threading!FirstReady(list) = <<list[k0], Threading!Least(Threading!Ready(list[k0]))>>
        BY <1>2 DEF Threading!FirstReady
    <2> HIDE DEF k0
    <2>6. /\ Threading!Least(Threading!Ready(list[k0])) \in Threading!Ready(list[k0])
          /\ \A j \in Threading!Ready(list[k0]) : Threading!Least(Threading!Ready(list[k0])) <= j
        BY <2>4, LeastReady
    <2> QED BY <2>4, <2>5, <2>6
<1> QED BY <1>1, <1>2

\* Behind p in the list, and from its head, come processes only, and every one
\* but p.
LEMMA AfterIsOthers ==
    ASSUME NEW p \in Threading!Processes
    PROVE  /\ Threading!After(p) \in [1 .. TableSize - 1 -> Threading!Processes]
           /\ \A q \in Threading!Processes \ {p} : \E k \in 1 .. TableSize - 1 : Threading!After(p)[k] = q
<1>1. TableSize \in Nat \ {0} /\ p \in 1 .. TableSize
    BY TableAssumption DEF Threading!Processes
<1>2. ASSUME NEW k \in 1 .. TableSize - 1
      PROVE  ((p + k - 1) % TableSize) + 1 \in Threading!Processes
    BY <1>1 DEF Threading!Processes
<1>3. ASSUME NEW q \in Threading!Processes \ {p}
      PROVE  \E k \in 1 .. TableSize - 1 : ((p + k - 1) % TableSize) + 1 = q
    <2>1. q \in 1 .. TableSize /\ q # p
        BY DEF Threading!Processes
    <2>2. CASE q > p
        <3>1. q - p \in 1 .. TableSize - 1 /\ p + (q - p) - 1 = q - 1 /\ q - 1 \in 0 .. TableSize - 1
            BY <1>1, <2>1, <2>2
        <3>2. (q - 1) % TableSize = q - 1
            BY <1>1, <3>1, ModSmall
        <3>3. ((p + (q - p) - 1) % TableSize) + 1 = q
            BY <2>1, <3>1, <3>2
        <3> QED BY <3>1, <3>3
    <2>3. CASE q < p
        <3>1. /\ q - p + TableSize \in 1 .. TableSize - 1
              /\ p + (q - p + TableSize) - 1 = q - 1 + TableSize
              /\ q - 1 + TableSize \in TableSize .. 2 * TableSize - 1
            BY <1>1, <2>1, <2>3
        <3>2. (q - 1 + TableSize) % TableSize = q - 1 + TableSize - TableSize
            BY <1>1, <3>1, ModOnce
        <3>3. ((p + (q - p + TableSize) - 1) % TableSize) + 1 = q
            BY <1>1, <2>1, <3>1, <3>2
        <3> QED BY <3>1, <3>3
    <2> QED BY <1>1, <2>1, <2>2, <2>3
<1>4. Threading!After(p) = [k \in 1 .. TableSize - 1 |-> ((p + k - 1) % TableSize) + 1]
    BY DEF Threading!After
<1> HIDE DEF Threading!After
<1>5. Threading!After(p) \in [1 .. TableSize - 1 -> Threading!Processes]
    BY <1>2, <1>4
<1>6. \A k \in 1 .. TableSize - 1 : Threading!After(p)[k] = ((p + k - 1) % TableSize) + 1
    BY <1>4
<1> QED BY <1>3, <1>5, <1>6

\* Distances in the circle: those from a nearer thread are shorter.
LEMMA AheadBounds ==
    \A n \in Nat : \A i, j \in 1 .. n :
        Ahead(i, j, n) \in Int /\ 1 <= Ahead(i, j, n) /\ Ahead(i, j, n) <= n
    BY DEF Ahead

LEMMA AheadShorter ==
    ASSUME NEW n \in Nat, NEW i \in 1 .. n, NEW j \in 1 .. n, NEW c \in 1 .. n,
           i # j, i # c, Ahead(i, c, n) <= Ahead(j, c, n)
    PROVE  Ahead(j, i, n) + 1 <= Ahead(j, c, n)
    BY DEF Ahead

\* The thread that is chosen is ready; of the ready threads of its process it is
\* the next in the circle, when the process goes on, or the first.  None is
\* chosen when none but the current one is ready.
LEMMA ChosenIsNext ==
    ASSUME TurnsInv
    PROVE  \/ /\ Threading!Chosen = Threading!NULL
              /\ \A p \in Threading!Processes : \A i \in Threading!Ready(p) : <<p, i>> = current_thread
           \/ \E p \in Threading!Processes : \E i \in Threading!Ready(p) :
                /\ Threading!Chosen = <<p, i>>
                /\ \A j \in Threading!Ready(p) \ {i} :
                    \/ p # current_thread[1] /\ i <= j
                    \/ /\ p = current_thread[1] /\ i # current_thread[2]
                       /\ Ahead(i, current_thread[2], Len(process_threads[p]))
                            <= Ahead(j, current_thread[2], Len(process_threads[p]))
<1>1. ThreadsInv /\ TableSize \in Nat
    BY TableAssumption DEF TurnsInv
<1>2. CASE current_thread = Threading!NULL
    <2> DEFINE all == [p \in Threading!Processes |-> p]
    <2>1. all \in [1 .. TableSize -> Threading!Processes]
        BY DEF Threading!Processes
    <2>2. Threading!Chosen = Threading!FirstReady(all)
        BY <1>2 DEF Threading!Chosen
    <2>3. \A p \in Threading!Processes : p # current_thread[1]
        BY <1>2 DEF Threading!Processes, Threading!NULL
    <2>4. \A p \in Threading!Processes : p \in 1 .. TableSize /\ all[p] = p
        BY DEF Threading!Processes
    <2> HIDE DEF all
    <2>5. \/ /\ Threading!FirstReady(all) = Threading!NULL
             /\ \A k \in 1 .. TableSize : Threading!Ready(all[k]) = {}
          \/ \E p \in Threading!Processes : \E i \in Threading!Ready(p) :
                Threading!FirstReady(all) = <<p, i>> /\ \A j \in Threading!Ready(p) : i <= j
        BY <1>1, <2>1, FirstReadyFinds
    <2> QED BY <2>2, <2>3, <2>4, <2>5
<1>3. CASE current_thread # Threading!NULL
    <2>0. PICK p \in Threading!Processes : \E c \in DOMAIN process_threads[p] : current_thread = <<p, c>>
        BY <1>3 DEF TurnsInv
    <2>1. PICK c \in DOMAIN process_threads[p] : current_thread = <<p, c>>
        BY <2>0
    <2> DEFINE n == Len(process_threads[p])
               others == Threading!Ready(p) \ {c}
               behind == {i \in others : i > c}
               i0 == Threading!Least(IF behind # {} THEN behind ELSE others)
    <2>2. n \in Nat /\ c \in 1 .. n /\ Threading!Ready(p) \subseteq 1 .. n /\ p # 0
        BY <1>1 DEF ThreadsInv, Threading!Ready, Threading!Processes
    <2>3. CASE others # {}
        <3>1. Threading!NextInProcess(current_thread) = <<p, i0>>
            BY <2>1, <2>3 DEF Threading!NextInProcess
        <3>2. Threading!Chosen = <<p, i0>>
            <4>1. Threading!NextInProcess(current_thread) # Threading!NULL
                BY <2>2, <3>1 DEF Threading!NULL
            <4> QED BY <1>3, <3>1, <4>1, Zenon DEF Threading!Chosen
        <3>3. i0 \in (IF behind # {} THEN behind ELSE others)
              /\ \A j \in (IF behind # {} THEN behind ELSE others) : i0 <= j
            <4>1. CASE behind # {}
                BY <1>1, <4>1, LeastReady
            <4>2. CASE behind = {}
                BY <1>1, <2>3, <4>2, LeastReady
            <4> QED BY <4>1, <4>2
        <3> HIDE DEF i0
        <3>4. i0 \in Threading!Ready(p) /\ i0 # c
            BY <3>3
        <3>5. ASSUME NEW j \in Threading!Ready(p) \ {i0} PROVE Ahead(i0, c, n) <= Ahead(j, c, n)
            BY <2>2, <3>3, <3>4 DEF Ahead
        <3> QED BY <2>1, <3>2, <3>4, <3>5
    <2>4. CASE others = {}
        <3>1. Threading!NextInProcess(current_thread) = Threading!NULL
            BY <2>1, <2>4 DEF Threading!NextInProcess
        <3> DEFINE list == Threading!After(p)
                   m == TableSize - 1
        <3>2. Threading!Chosen = Threading!FirstReady(list)
            BY <1>3, <2>1, <3>1 DEF Threading!Chosen
        <3>3. m \in Nat /\ list \in [1 .. m -> Threading!Processes]
              /\ \A q \in Threading!Processes \ {p} : \E k \in 1 .. m : list[k] = q
            <4>1. m \in Nat
                BY <1>1, <2>2 DEF Threading!Processes
            <4> QED BY <4>1, AfterIsOthers
        <3> HIDE DEF list, m
        <3>4. \/ /\ Threading!FirstReady(list) = Threading!NULL
                 /\ \A k \in 1 .. m : Threading!Ready(list[k]) = {}
              \/ \E q \in Threading!Processes : \E i \in Threading!Ready(q) :
                    Threading!FirstReady(list) = <<q, i>> /\ \A j \in Threading!Ready(q) : i <= j
            BY <1>1, <3>3, FirstReadyFinds
        <3>5. CASE Threading!FirstReady(list) = Threading!NULL
                   /\ \A k \in 1 .. m : Threading!Ready(list[k]) = {}
            <4>1. \A q \in Threading!Processes \ {p} : Threading!Ready(q) = {}
                BY <3>3, <3>5
            <4>2. \A i \in Threading!Ready(p) : i = c
                BY <2>4
            <4> QED BY <2>1, <3>2, <3>5, <4>1, <4>2
        <3>6. ASSUME NEW q \in Threading!Processes, NEW i \in Threading!Ready(q),
                     Threading!FirstReady(list) = <<q, i>>, \A j \in Threading!Ready(q) : i <= j
              PROVE  \A j \in Threading!Ready(q) \ {i} : q # current_thread[1] /\ i <= j
            BY <2>1, <2>4, <3>6
        <3> QED BY <3>2, <3>4, <3>5, <3>6
    <2> QED BY <2>3, <2>4
<1> QED BY <1>2, <1>3
LEMMA TurnsImplyProperty == TurnsInv => Threading!ReadyThreadsGetTurns
<1> SUFFICES ASSUME TurnsInv PROVE Threading!ReadyThreadsGetTurns
    OBVIOUS
<1>1. ASSUME NEW t \in Threading!Threads, Threading!State(t) = "READY", t # current_thread
      PROVE  Threading!Chosen # Threading!NULL /\ Threading!State(Threading!Chosen) = "READY"
    <2>1. t[1] \in Threading!Processes /\ t[2] \in 1 .. MaxThreads /\ t = <<t[1], t[2]>>
          /\ t[2] <= Len(process_threads[t[1]])
        BY DEF Threading!Threads
    <2>2. process_threads[t[1]] \in Seq(Threading!States)
        BY <2>1 DEF TurnsInv, ThreadsInv
    <2>3. t[2] \in Threading!Ready(t[1])
        BY <1>1, <2>1, <2>2 DEF Threading!Ready, Threading!State
    <2>4. PICK p \in Threading!Processes : \E i \in Threading!Ready(p) : Threading!Chosen = <<p, i>>
        BY <1>1, <2>1, <2>3, ChosenIsNext
    <2>5. PICK i \in Threading!Ready(p) : Threading!Chosen = <<p, i>>
        BY <2>4
    <2> QED BY <2>5 DEF Threading!NULL, Threading!Processes, Threading!State, Threading!Ready
<1>2. ASSUME NEW t \in Threading!Threads
      PROVE  passed[t[1]][t[2]] < Len(process_threads[t[1]])
    <2> DEFINE p == t[1]
               i == t[2]
               n == Len(process_threads[p])
    <2>1. p \in Threading!Processes /\ i \in 1 .. MaxThreads /\ i <= n
        BY DEF Threading!Threads
    <2>2. process_threads[p] \in Seq(Threading!States) /\ passed[p] \in Seq(Nat) /\ Len(passed[p]) = n
        BY <2>1 DEF TurnsInv, ThreadsInv
    <2>3. n \in Nat /\ i \in 1 .. n /\ DOMAIN process_threads[p] = 1 .. n /\ passed[p][i] \in Nat
        BY <2>1, <2>2
    <2>4. CASE p = current_thread[1]
        <3>1. passed[p][i] + Ahead(i, current_thread[2], n) <= n
            BY <2>1, <2>3, <2>4 DEF TurnsInv
        <3>2. \E c \in DOMAIN process_threads[p] : current_thread[2] = c
            BY <2>1, <2>4 DEF TurnsInv, Threading!NULL, Threading!Processes
        <3>3. Ahead(i, current_thread[2], n) \in Int /\ 1 <= Ahead(i, current_thread[2], n)
            BY <2>3, <3>2, AheadBounds
        <3> HIDE DEF n, i, p
        <3>4. passed[p][i] < n
            BY <2>3, <3>1, <3>3
        <3> QED BY <3>4 DEF n, i, p
    <2>5. CASE p # current_thread[1]
        BY <2>1, <2>3, <2>5 DEF TurnsInv
    <2> QED BY <2>4, <2>5
<1> QED BY <1>1, <1>2 DEF Threading!ReadyThreadsGetTurns

\* A call of process_scheduler passes the ready threads of one process over by
\* one, and the current thread comes nearer to each.
LEMMA SchedulerKeepsTurns ==
    ASSUME TurnsInv, Threading!process_scheduler
    PROVE  TurnsInv'
<1>1. ThreadsInv'
    BY SchedulerKeepsInvariant DEF TurnsInv
<1>2. PICK p \in Threading!Processes : \E i \in Threading!Ready(p) :
        /\ Threading!Chosen = <<p, i>>
        /\ \A j \in Threading!Ready(p) \ {i} :
            \/ p # current_thread[1] /\ i <= j
            \/ /\ p = current_thread[1] /\ i # current_thread[2]
               /\ Ahead(i, current_thread[2], Len(process_threads[p]))
                    <= Ahead(j, current_thread[2], Len(process_threads[p]))
    BY ChosenIsNext DEF Threading!process_scheduler
<1>3. PICK i \in Threading!Ready(p) :
        /\ Threading!Chosen = <<p, i>>
        /\ \A j \in Threading!Ready(p) \ {i} :
            \/ p # current_thread[1] /\ i <= j
            \/ /\ p = current_thread[1] /\ i # current_thread[2]
               /\ Ahead(i, current_thread[2], Len(process_threads[p]))
                    <= Ahead(j, current_thread[2], Len(process_threads[p]))
    BY <1>2
<1> DEFINE n == Len(process_threads[p])
<1>4. /\ process_threads \in [Threading!Processes -> Seq(Threading!States)]
      /\ passed \in [Threading!Processes -> Seq(Nat)]
      /\ \A q \in Threading!Processes : Len(passed[q]) = Len(process_threads[q])
    BY DEF TurnsInv, ThreadsInv
<1>5. /\ process_threads' = Threading!Switch(<<p, i>>) /\ current_thread' = <<p, i>>
      /\ passed' = [q \in Threading!Processes |-> [j \in DOMAIN passed[q] |->
            IF q = p /\ j \in Threading!Ready(q) \ {i} THEN passed[q][j] + 1 ELSE 0]]
    BY <1>3 DEF Threading!process_scheduler
<1>6. ASSUME NEW q \in Threading!Processes
      PROVE  /\ passed'[q] \in Seq(Nat) /\ Len(passed'[q]) = Len(process_threads[q])
             /\ Len(process_threads'[q]) = Len(process_threads[q])
    <2>1. PICK m \in Nat : m = Len(process_threads[q]) /\ DOMAIN passed[q] = 1 .. m
                           /\ DOMAIN process_threads[q] = 1 .. m
        BY <1>4
    <2>2. \A j \in 1 .. m : passed[q][j] \in Nat
        BY <1>4, <2>1
    <2>3. passed'[q] = [j \in 1 .. m |->
            IF q = p /\ j \in Threading!Ready(q) \ {i} THEN passed[q][j] + 1 ELSE 0]
        BY <1>5, <2>1
    <2>4. passed'[q] \in [1 .. m -> Nat]
        BY <2>2, <2>3
    <2>5. passed'[q] \in Seq(Nat) /\ Len(passed'[q]) = m
        BY <2>4
    <2>6. DOMAIN process_threads'[q] = 1 .. m
        BY <1>5, <2>1 DEF Threading!Switch
    <2>7. process_threads'[q] \in Seq(Threading!States)
        BY <1>1 DEF ThreadsInv
    <2> QED BY <2>1, <2>5, <2>6, <2>7
<1>7. passed' \in [Threading!Processes -> Seq(Nat)]
    <2>1. DOMAIN passed' = Threading!Processes /\ passed' = [q \in Threading!Processes |-> passed'[q]]
        BY <1>5
    <2> QED BY <1>6, <2>1
<1>8. n \in Nat /\ i \in 1 .. n /\ Threading!Ready(p) \subseteq 1 .. n /\ DOMAIN passed[p] = 1 .. n
      /\ DOMAIN process_threads'[p] = 1 .. n
    <2>1. process_threads'[p] \in Seq(Threading!States)
        BY <1>1 DEF ThreadsInv
    <2> QED BY <1>4, <1>6, <2>1 DEF Threading!Ready
<1>9. ASSUME NEW j \in 1 .. n PROVE passed'[p][j] + Ahead(j, i, n) <= n
    <2>1. CASE j \in Threading!Ready(p) \ {i} /\ p = current_thread[1]
        <3>1. i # current_thread[2] /\ Ahead(i, current_thread[2], n) <= Ahead(j, current_thread[2], n)
            BY <1>3, <2>1
        <3>2. current_thread[2] \in 1 .. n
            BY <1>4, <2>1 DEF TurnsInv, Threading!NULL, Threading!Processes
        <3>3. Ahead(j, i, n) + 1 <= Ahead(j, current_thread[2], n)
            BY <1>8, <2>1, <3>1, <3>2, AheadShorter
        <3>4. passed[p][j] + Ahead(j, current_thread[2], n) <= n
            BY <1>4, <1>8, <2>1 DEF TurnsInv
        <3>5. passed'[p][j] = passed[p][j] + 1 /\ passed[p][j] \in Nat
            BY <1>4, <1>5, <1>8, <2>1
        <3>6. Ahead(j, i, n) \in Int /\ Ahead(j, current_thread[2], n) \in Int
            BY <1>8, <3>2, AheadBounds
        <3> QED BY <1>8, <3>3, <3>4, <3>5, <3>6
    <2>2. CASE j \in Threading!Ready(p) \ {i} /\ p # current_thread[1]
        <3>1. passed[p][j] = 0
            BY <1>4, <1>8, <2>2 DEF TurnsInv
        <3>2. passed'[p][j] = 1
            BY <1>5, <1>8, <2>2, <3>1
        <3>3. i < j
            BY <1>3, <1>8, <2>2
        <3> QED BY <1>8, <3>2, <3>3 DEF Ahead
    <2>3. CASE j \notin Threading!Ready(p) \ {i}
        <3>1. passed'[p][j] = 0
            BY <1>5, <1>8, <2>3
        <3>2. Ahead(j, i, n) \in Int /\ Ahead(j, i, n) <= n
            BY <1>8, AheadBounds
        <3> QED BY <3>1, <3>2
    <2> QED BY <2>1, <2>2, <2>3
<1>10. \A q \in Threading!Processes : q # p => \A j \in DOMAIN process_threads'[q] : passed'[q][j] = 0
    BY <1>4, <1>5 DEF Threading!Switch
<1>11. current_thread' = <<p, i>> /\ i \in DOMAIN process_threads'[p] /\ Len(process_threads'[p]) = n
    BY <1>5, <1>6, <1>8
<1>12. \A q \in Threading!Processes : \A j \in DOMAIN process_threads'[q] :
        IF q = current_thread'[1]
        THEN passed'[q][j] + Ahead(j, current_thread'[2], Len(process_threads'[q])) <= Len(process_threads'[q])
        ELSE passed'[q][j] = 0
    BY <1>8, <1>9, <1>10, <1>11
<1> QED BY <1>1, <1>6, <1>7, <1>11, <1>12 DEF TurnsInv

\* A state put into one place begins the count of that thread anew.
LEMMA BecomeKeepsTurns ==
    ASSUME TurnsInv, NEW t \in Threading!Threads,
           NEW state \in Threading!States \ {"RUNNING"}, Threading!Become(t, state)
    PROVE  TurnsInv'
<1>1. ThreadsInv'
    BY BecomeKeepsInvariant DEF TurnsInv
<1> DEFINE p == t[1]
           i == t[2]
           old == process_threads[p]
           new == [old EXCEPT ![i] = state]
           zeroed == [passed[p] EXCEPT ![i] = 0]
<1>2. p \in Threading!Processes /\ old \in Seq(Threading!States) /\ passed[p] \in Seq(Nat)
    BY DEF TurnsInv, ThreadsInv, Threading!Threads
<1>3. /\ new \in Seq(Threading!States) /\ DOMAIN new = DOMAIN old
      /\ zeroed \in Seq(Nat) /\ DOMAIN zeroed = DOMAIN passed[p]
    BY <1>2, ReplacedIsSequence
<1>4. Len(new) = Len(old) /\ Len(zeroed) = Len(passed[p])
    BY <1>2, <1>3
<1>5. /\ process_threads' = [process_threads EXCEPT ![p] = new]
      /\ passed' = [passed EXCEPT ![p] = zeroed] /\ current_thread' = current_thread
    BY DEF Threading!Become
<1>6. \A j \in DOMAIN passed[p] : zeroed[j] = 0 \/ zeroed[j] = passed[p][j]
    OBVIOUS
<1> HIDE DEF new, zeroed
<1>7. \A q \in Threading!Processes :
        /\ DOMAIN process_threads'[q] = DOMAIN process_threads[q]
        /\ Len(process_threads'[q]) = Len(process_threads[q])
        /\ Len(passed'[q]) = Len(passed[q])
    BY <1>2, <1>3, <1>4, <1>5 DEF TurnsInv, ThreadsInv
<1>8. passed' \in [Threading!Processes -> Seq(Nat)]
    BY <1>2, <1>3, <1>5 DEF TurnsInv
<1>9. ASSUME NEW q \in Threading!Processes, NEW j \in DOMAIN process_threads[q]
      PROVE  passed'[q][j] = passed[q][j] \/ passed'[q][j] = 0
    <2>1. process_threads[q] \in Seq(Threading!States) /\ passed[q] \in Seq(Nat)
          /\ Len(passed[q]) = Len(process_threads[q])
        BY DEF TurnsInv, ThreadsInv
    <2>2. j \in DOMAIN passed[q]
        BY <2>1
    <2> QED BY <1>2, <1>5, <1>6, <2>2 DEF TurnsInv
<1>10. ASSUME NEW q \in Threading!Processes, NEW j \in DOMAIN process_threads[q], q = current_thread[1]
       PROVE  /\ Ahead(j, current_thread[2], Len(process_threads[q])) \in Int
              /\ Ahead(j, current_thread[2], Len(process_threads[q])) <= Len(process_threads[q])
    <2>1. process_threads[q] \in Seq(Threading!States)
        BY DEF TurnsInv, ThreadsInv
    <2>2. current_thread[2] \in DOMAIN process_threads[q]
        BY <1>10 DEF TurnsInv, Threading!NULL, Threading!Processes
    <2>3. Len(process_threads[q]) \in Nat /\ j \in 1 .. Len(process_threads[q])
          /\ current_thread[2] \in 1 .. Len(process_threads[q])
        BY <2>1, <2>2
    <2> QED BY <2>3, AheadBounds
<1>11. \A q \in Threading!Processes : \A j \in DOMAIN process_threads'[q] :
        IF q = current_thread'[1]
        THEN passed'[q][j] + Ahead(j, current_thread'[2], Len(process_threads'[q])) <= Len(process_threads'[q])
        ELSE passed'[q][j] = 0
    <2> SUFFICES ASSUME NEW q \in Threading!Processes, NEW j \in DOMAIN process_threads'[q]
        PROVE IF q = current_thread'[1]
              THEN passed'[q][j] + Ahead(j, current_thread'[2], Len(process_threads'[q])) <= Len(process_threads'[q])
              ELSE passed'[q][j] = 0
        OBVIOUS
    <2>1. j \in DOMAIN process_threads[q] /\ Len(process_threads'[q]) = Len(process_threads[q])
          /\ current_thread' = current_thread
        BY <1>5, <1>7
    <2>2. CASE q = current_thread[1]
        <3>1. passed[q][j] + Ahead(j, current_thread[2], Len(process_threads[q])) <= Len(process_threads[q])
            BY <2>1, <2>2 DEF TurnsInv
        <3>2. CASE passed'[q][j] = passed[q][j]
            BY <2>1, <2>2, <3>1, <3>2
        <3>3. CASE passed'[q][j] = 0
            BY <1>10, <2>1, <2>2, <3>3
        <3> QED BY <1>9, <2>1, <3>2, <3>3
    <2>3. CASE q # current_thread[1]
        BY <1>9, <2>1, <2>3 DEF TurnsInv
    <2> QED BY <2>2, <2>3
<1>12. \A q \in Threading!Processes : Len(passed'[q]) = Len(process_threads'[q])
    BY <1>7 DEF TurnsInv
<1>13. \/ current_thread' = Threading!NULL
       \/ \E q \in Threading!Processes : \E c \in DOMAIN process_threads'[q] : current_thread' = <<q, c>>
    BY <1>5, <1>7 DEF TurnsInv
<1> QED BY <1>1, <1>8, <1>11, <1>12, <1>13 DEF TurnsInv

\* A process that gets its threads had none, so it is not the current one's.
LEMMA LoadKeepsTurns ==
    ASSUME TurnsInv, ThreadsInv', Threading!Load
    PROVE  TurnsInv'
<1>1. PICK p \in Threading!Processes, n \in 1 .. MaxThreads :
        /\ process_threads[p] = <<>>
        /\ process_threads' = [process_threads EXCEPT ![p] = [i \in 1 .. n |-> "NEW"]]
        /\ passed' = [passed EXCEPT ![p] = [i \in 1 .. n |-> 0]]
    BY DEF Threading!Load
<1>2. current_thread' = current_thread
    BY DEF Threading!Load
<1>3. p # current_thread[1]
    BY <1>1 DEF TurnsInv, Threading!NULL, Threading!Processes
<1>4. n \in Nat
    OBVIOUS
<1>5. [i \in 1 .. n |-> 0] \in Seq(Nat) /\ Len([i \in 1 .. n |-> 0]) = n
      /\ Len([i \in 1 .. n |-> "NEW"]) = n
    BY <1>4
<1>6. passed' \in [Threading!Processes -> Seq(Nat)]
    BY <1>1, <1>5 DEF TurnsInv
<1>7. \A q \in Threading!Processes : Len(passed'[q]) = Len(process_threads'[q])
    BY <1>1, <1>5 DEF TurnsInv, ThreadsInv
<1>8. \A q \in Threading!Processes : q # p =>
        process_threads'[q] = process_threads[q] /\ passed'[q] = passed[q]
    BY <1>1 DEF TurnsInv, ThreadsInv
<1>9. \/ current_thread' = Threading!NULL
      \/ \E q \in Threading!Processes : \E c \in DOMAIN process_threads'[q] : current_thread' = <<q, c>>
    BY <1>2, <1>3, <1>8 DEF TurnsInv
<1>10. \A i \in DOMAIN process_threads'[p] : passed'[p][i] = 0
    BY <1>1 DEF TurnsInv, ThreadsInv
<1>11. \A q \in Threading!Processes : \A j \in DOMAIN process_threads'[q] :
        IF q = current_thread'[1]
        THEN passed'[q][j] + Ahead(j, current_thread'[2], Len(process_threads'[q])) <= Len(process_threads'[q])
        ELSE passed'[q][j] = 0
    <2> SUFFICES ASSUME NEW q \in Threading!Processes, NEW j \in DOMAIN process_threads'[q]
        PROVE IF q = current_thread'[1]
              THEN passed'[q][j] + Ahead(j, current_thread'[2], Len(process_threads'[q])) <= Len(process_threads'[q])
              ELSE passed'[q][j] = 0
        OBVIOUS
    <2>1. CASE q = p
        BY <1>2, <1>3, <1>10, <2>1
    <2>2. CASE q # p
        <3>1. process_threads'[q] = process_threads[q] /\ passed'[q] = passed[q]
            BY <1>8, <2>2
        <3> QED BY <1>2, <3>1 DEF TurnsInv
    <2> QED BY <2>1, <2>2
<1> QED BY <1>6, <1>7, <1>9, <1>11 DEF TurnsInv

\* ReadyThreadsGetTurns of Scheduler: for every number of processes and threads
\* a call of process_scheduler finds a ready thread if there is one beside the
\* current, and a ready thread waits for the others of its process at most once
\* each.
THEOREM SchedulerGivesTurns == Threading!Spec => []Threading!ReadyThreadsGetTurns
<1>1. Threading!Init => TurnsInv
    <2> SUFFICES ASSUME Threading!Init PROVE TurnsInv
        OBVIOUS
    <2>1. /\ process_threads = [p \in Threading!Processes |-> <<>>]
          /\ passed = [p \in Threading!Processes |-> <<>>] /\ current_thread = Threading!NULL
        BY DEF Threading!Init
    <2>2. <<>> \in Seq(Nat) /\ DOMAIN <<>> = {}
        OBVIOUS
    <2>3. ThreadsInv
        BY InitThreads
    <2> QED BY <2>1, <2>2, <2>3 DEF TurnsInv
<1>2. TurnsInv /\ [Threading!Next]_(Threading!vars) => TurnsInv'
    <2> SUFFICES ASSUME TurnsInv, [Threading!Next]_(Threading!vars) PROVE TurnsInv'
        OBVIOUS
    <2>1. ThreadsInv'
        BY ThreadsStep DEF TurnsInv
    <2>2. CASE UNCHANGED <<process_threads, current_thread, passed>>
        BY <2>1, <2>2 DEF TurnsInv
    <2>3. CASE Threading!create_process \/ Threading!create_kernel_thread \/ Threading!create_user_thread
        BY <2>2, <2>3 DEF Threading!create_process, Threading!create_kernel_thread,
            Threading!create_user_thread, Threading!create_thread, Threading!threads
    <2>4. CASE Threading!Load
        BY <2>1, <2>4, LoadKeepsTurns
    <2>5. CASE Threading!Wake
        <3>1. PICK t \in Threading!Threads : Threading!Become(t, "READY")
            BY <2>5 DEF Threading!Wake
        <3> QED BY <3>1, BecomeKeepsTurns DEF Threading!States
    <2>6. CASE Threading!Stop
        <3>1. PICK t \in Threading!Threads : Threading!Become(t, "WAITING")
            BY <2>6 DEF Threading!Stop
        <3> QED BY <3>1, BecomeKeepsTurns DEF Threading!States
    <2>7. CASE Threading!process_scheduler
        BY <2>7, SchedulerKeepsTurns
    <2> QED BY <2>2, <2>3, <2>4, <2>5, <2>6, <2>7 DEF Threading!Next, Threading!vars, Threading!threads
<1> QED BY <1>1, <1>2, TurnsImplyProperty, PTL DEF Threading!Spec

-----------------------------------------------------------------------------
(* The windows.                                                            *)

Window == [x : Nat, y : Nat, width : Nat, height : Nat,
           is_dragging : BOOLEAN, dx : Int, dy : Int]

OnScreen(w) ==
    w.width <= ScreenWidth /\ w.height <= ScreenHeight
    => w.x + w.width <= ScreenWidth /\ w.y + w.height <= ScreenHeight

\* A window's size, which nothing changes.
SameSize(v, w) == v.width = w.width /\ v.height = w.height

\* The windows are on the screen, and so is the place gui_update_mouse of
\* init_gui has computed for one while the mouse's handler moves it.
DeskInv ==
    /\ mouse_x \in Int /\ mouse_y \in Int /\ mouse_byte \in Seq(Int) /\ buffer \in Seq(Int)
    /\ windows \in Seq(Window)
    /\ \A i \in DOMAIN windows : OnScreen(windows[i])
    /\ place = "move" /\ moving[1] \in DOMAIN windows
       => moving[2] \in Window /\ OnScreen(moving[2]) /\ SameSize(moving[2], windows[moving[1]])

\* A clamped position leaves room for the length; that of a window larger than
\* the screen is some coordinate.
LEMMA ClampFits ==
    ASSUME NEW p \in Int, NEW length \in Nat, NEW screen \in Nat, screen < Modulus
    PROVE  /\ Desk!Clamp(p, length, screen) \in Nat
           /\ length <= screen => Desk!Clamp(p, length, screen) + length <= screen
<1> DEFINE q == IF p < 0 THEN 0 ELSE IF p + length > screen THEN screen - length ELSE p
<1>1. q \in Int /\ Modulus \in Nat \ {0}
    BY ScreenAssumption
<1>2. Desk!Clamp(p, length, screen) = q % Modulus
    BY DEF Desk!Clamp
<1>3. q % Modulus \in Nat
    BY <1>1
<1>4. CASE length <= screen
    <2>1. q \in 0 .. Modulus - 1 /\ q + length <= screen
        BY <1>1, <1>4
    <2>2. q % Modulus = q
        BY <1>1, <2>1, ModSmall
    <2> QED BY <1>2, <1>3, <2>1, <2>2
<1> QED BY <1>2, <1>3, <1>4

\* What gui_update_mouse may make of a window.
LEMMA MovedFits ==
    ASSUME NEW w \in Window, NEW x \in Int, NEW y \in Int
    PROVE  /\ Desk!Moved(w, x, y) \in Window /\ OnScreen(Desk!Moved(w, x, y))
           /\ SameSize(Desk!Moved(w, x, y), w)
<1> DEFINE a == Desk!Clamp(x - w.dx, w.width, ScreenWidth)
           b == Desk!Clamp(y - w.dy, w.height, ScreenHeight)
<1>1. w.dx \in Int /\ w.dy \in Int /\ w.width \in Nat /\ w.height \in Nat
    BY DEF Window
<1>2. a \in Nat /\ (w.width <= ScreenWidth => a + w.width <= ScreenWidth)
    <2>1. x - w.dx \in Int /\ w.width \in Nat
        BY <1>1
    <2> QED BY <2>1, ClampFits, ScreenAssumption
<1>3. b \in Nat /\ (w.height <= ScreenHeight => b + w.height <= ScreenHeight)
    <2>1. y - w.dy \in Int /\ w.height \in Nat
        BY <1>1
    <2> QED BY <2>1, ClampFits, ScreenAssumption
<1>4. Desk!Moved(w, x, y) = [w EXCEPT !.x = a, !.y = b]
    BY DEF Desk!Moved
<1> HIDE DEF a, b
<1> QED BY <1>2, <1>3, <1>4 DEF Window, OnScreen, SameSize

LEMMA GrabbedFits ==
    ASSUME NEW w \in Window, OnScreen(w), NEW x \in Int, NEW y \in Int, NEW pressed
    PROVE  /\ Desk!Grabbed(w, x, y, pressed) \in Window /\ OnScreen(Desk!Grabbed(w, x, y, pressed))
           /\ SameSize(Desk!Grabbed(w, x, y, pressed), w)
<1>1. CASE Desk!Grabbed(w, x, y, pressed) = w
    BY <1>1 DEF SameSize
<1>2. CASE Desk!Grabbed(w, x, y, pressed) = [w EXCEPT !.is_dragging = TRUE, !.dx = x - w.x, !.dy = y - w.y]
    <2> DEFINE dx == x - w.x
               dy == y - w.y
               v == [w EXCEPT !.is_dragging = TRUE, !.dx = dx, !.dy = dy]
    <2>1. v \in Window
        <3>1. dx \in Int /\ dy \in Int
            BY DEF Window
        <3> HIDE DEF dx, dy
        <3> QED BY <3>1 DEF Window
    <2>2. v.x = w.x /\ v.y = w.y /\ v.width = w.width /\ v.height = w.height
        BY DEF Window
    <2> HIDE DEF v
    <2> QED BY <1>2, <2>1, <2>2 DEF v, OnScreen, SameSize
<1> QED BY <1>1, <1>2 DEF Desk!Grabbed

\* Windows of the same sizes, all on the screen.
Kept(ws) ==
    /\ ws \in Seq(Window) /\ DOMAIN ws = DOMAIN windows
    /\ \A i \in DOMAIN ws : OnScreen(ws[i]) /\ SameSize(ws[i], windows[i])

LEMMA DroppedKeeps ==
    ASSUME NEW ws, Kept(ws)
    PROVE  Kept(Desk!Dropped(ws))
<1>1. PICK n \in Nat : ws \in [1 .. n -> Window]
    BY DEF Kept
<1>2. \A i \in 1 .. n : LET v == [ws[i] EXCEPT !.is_dragging = FALSE] IN
        v \in Window /\ OnScreen(v) /\ SameSize(v, windows[i])
    BY <1>1 DEF Kept, Window, OnScreen, SameSize
<1>3. Desk!Dropped(ws) = [i \in 1 .. n |-> [ws[i] EXCEPT !.is_dragging = FALSE]]
    BY <1>1 DEF Desk!Dropped
<1> HIDE DEF Desk!Dropped
<1>4. Desk!Dropped(ws) \in [1 .. n -> Window] /\ DOMAIN Desk!Dropped(ws) = DOMAIN ws
    BY <1>1, <1>2, <1>3
<1>5. Desk!Dropped(ws) \in Seq(Window)
    BY <1>4
<1> QED BY <1>1, <1>2, <1>3, <1>4, <1>5 DEF Kept

\* A call of gui_update_mouse, whichever window the loop finds.
LEMMA UpdateKeeps ==
    ASSUME DeskInv, NEW x \in Int, NEW y \in Int, NEW pressed, Desk!Update(x, y, pressed)
    PROVE  Kept(windows')
<1> DEFINE k == Desk!Hit(x, y)
           new == IF windows[k].is_dragging THEN Desk!Moved(windows[k], x, y)
                  ELSE Desk!Grabbed(windows[k], x, y, pressed)
           after == IF k = 0 THEN windows ELSE [windows EXCEPT ![k] = new]
<1>1. Kept(windows)
    BY DEF Kept, DeskInv, SameSize
<1>2. Kept(after)
    <2>1. CASE k \notin DOMAIN windows
        <3>1. [windows EXCEPT ![k] = new] = windows
            BY <2>1 DEF DeskInv
        <3> QED BY <1>1, <3>1
    <2>2. CASE k \in DOMAIN windows /\ k # 0
        <3>1. windows[k] \in Window /\ OnScreen(windows[k])
            BY <2>2 DEF DeskInv
        <3>2. new \in Window /\ OnScreen(new) /\ SameSize(new, windows[k])
            BY <3>1, MovedFits, GrabbedFits
        <3> HIDE DEF new
        <3>3. [windows EXCEPT ![k] = new] \in Seq(Window)
              /\ DOMAIN [windows EXCEPT ![k] = new] = DOMAIN windows
            BY <3>2, ReplacedIsSequence DEF DeskInv
        <3>4. \A i \in DOMAIN windows :
                [windows EXCEPT ![k] = new][i] = IF i = k THEN new ELSE windows[i]
            OBVIOUS
        <3>5. after = [windows EXCEPT ![k] = new]
            BY <2>2
        <3> HIDE DEF after
        <3> QED BY <1>1, <3>2, <3>3, <3>4, <3>5 DEF Kept
    <2> QED BY <1>1, <2>1, <2>2
<1>3. windows' = (IF ~pressed /\ old_left THEN Desk!Dropped(after) ELSE after)
    BY DEF Desk!Update
<1> HIDE DEF after
<1> QED BY <1>2, <1>3, DroppedKeeps

LEMMA DeskStep == DeskInv /\ [Desk!Next]_(Desk!vars) => DeskInv'
<1> SUFFICES ASSUME DeskInv, [Desk!Next]_(Desk!vars) PROVE DeskInv'
    OBVIOUS
<1>1. Kept(windows)
    BY DEF Kept, DeskInv, SameSize
<1>2. ASSUME Kept(windows'), UNCHANGED <<place, moving>>,
             mouse_x' \in Int, mouse_y' \in Int, mouse_byte' \in Seq(Int), buffer' \in Seq(Int)
      PROVE  DeskInv'
    BY <1>2 DEF DeskInv, Kept, SameSize
<1>3. ASSUME Kept(windows'), UNCHANGED <<mouse_x, mouse_y, mouse_byte>>, buffer' \in Seq(Int), place' # "move"
      PROVE  DeskInv'
    BY <1>3 DEF DeskInv, Kept
<1>4. CASE Desk!SendByte
    <2>1. PICK b : b \in Buttons \cup Moves /\ buffer' = <<b>>
        BY <1>4 DEF Desk!SendByte
    <2>2. buffer' \in Seq(Int)
        BY <2>1, ScreenAssumption
    <2> QED BY <1>1, <1>2, <1>4, <2>2 DEF Desk!SendByte, Desk!mouse, Desk!gui, DeskInv
<1>5. CASE Desk!mouse_handler
    <2> DEFINE bytes == mouse_byte \o buffer
    <2>1. bytes \in Seq(Int)
        BY DEF DeskInv
    <2>2. buffer' = <<>> /\ UNCHANGED <<place, moving>>
        BY <1>5 DEF Desk!mouse_handler
    <2>3. CASE Len(bytes) < 3
        <3>1. mouse_byte' = bytes /\ UNCHANGED <<mouse_x, mouse_y, windows>>
            BY <1>5, <2>3 DEF Desk!mouse_handler, Desk!gui
        <3>2. Kept(windows')
            BY <1>1, <3>1 DEF Kept
        <3> HIDE DEF bytes
        <3> QED BY <1>2, <2>1, <2>2, <3>1, <3>2 DEF DeskInv
    <2>4. CASE ~ (Len(bytes) < 3)
        <3>1. Desk!process_mouse_packet(bytes) /\ mouse_byte' = <<>>
            BY <1>5, <2>4 DEF Desk!mouse_handler
        <3>2. bytes[2] \in Int /\ bytes[3] \in Int
            BY <2>1, <2>4
        <3> HIDE DEF bytes
        <3>3. mouse_x' \in Int /\ mouse_y' \in Int
            BY <3>1, <3>2, ScreenAssumption DEF Desk!process_mouse_packet, Desk!OnScreen, DeskInv
        <3>4. Desk!Update(mouse_x', mouse_y', bytes[1] % 2 = 1)
            BY <3>1 DEF Desk!process_mouse_packet
        <3>5. Kept(windows')
            BY <3>3, <3>4, UpdateKeeps
        <3> QED BY <1>2, <2>2, <3>1, <3>3, <3>5
    <2> QED BY <2>3, <2>4
<1>6. CASE Desk!create_window
    <2>1. PICK size \in Windows : windows' = Append(windows,
            [x |-> Stagger * Len(windows), y |-> Stagger * Len(windows),
             width |-> size[1], height |-> size[2],
             is_dragging |-> FALSE, dx |-> 0, dy |-> 0])
        BY <1>6 DEF Desk!create_window
    <2> DEFINE w == [x |-> Stagger * Len(windows), y |-> Stagger * Len(windows),
                     width |-> size[1], height |-> size[2],
                     is_dragging |-> FALSE, dx |-> 0, dy |-> 0]
    <2>2. Len(windows) \in 0 .. MAX_WINDOWS - 1 /\ size[1] \in Nat /\ size[2] \in Nat
        BY <1>6, ScreenAssumption, WindowsAssumption DEF Desk!create_window, DeskInv
    <2>3. Stagger * Len(windows) \in Nat
        BY <2>2, ScreenAssumption
    <2>4. w \in Window
        BY <2>2, <2>3 DEF Window
    <2>5. OnScreen(w)
        BY <2>2, WindowsAssumption DEF OnScreen
    <2> HIDE DEF w
    <2>6. windows' \in Seq(Window) /\ \A i \in DOMAIN windows' : OnScreen(windows'[i])
        <3>1. windows' = Append(windows, w)
            BY <2>1 DEF w
        <3>2. windows \in Seq(Window) /\ \A i \in DOMAIN windows : OnScreen(windows[i])
            BY DEF DeskInv
        <3>3. windows' \in Seq(Window)
            BY <2>4, <3>1, <3>2
        <3>4. \A i \in DOMAIN windows' : windows'[i] = w \/ (i \in DOMAIN windows /\ windows'[i] = windows[i])
            BY <2>4, <3>1, <3>2
        <3> QED BY <2>5, <3>2, <3>3, <3>4
    <2>7. place' # "move" /\ UNCHANGED <<mouse_x, mouse_y, mouse_byte, buffer>>
        BY <1>6 DEF Desk!create_window, Desk!mouse, Desk!device
    <2> QED BY <2>6, <2>7 DEF DeskInv
<1>7. CASE Desk!init_gui
    BY <1>1, <1>3, <1>7 DEF Desk!init_gui, Desk!mouse, Desk!device, Desk!gui, DeskInv
<1>8. CASE Desk!Look
    <2>1. UNCHANGED <<mouse_x, mouse_y, mouse_byte, buffer, windows>>
        BY <1>8 DEF Desk!Look, Desk!mouse, Desk!device, Desk!gui
    <2>2. CASE place' = "release"
        BY <1>1, <1>3, <2>1, <2>2 DEF DeskInv
    <2>3. CASE place' # "release"
        <3> DEFINE k == Desk!Hit(Home, Home)
        <3>1. moving' = <<k, Desk!Moved(windows[k], Home, Home)>>
            BY <1>8, <2>3 DEF Desk!Look
        <3>2. k \in DOMAIN windows =>
                /\ Desk!Moved(windows[k], Home, Home) \in Window /\ OnScreen(Desk!Moved(windows[k], Home, Home))
                /\ SameSize(Desk!Moved(windows[k], Home, Home), windows[k])
            BY MovedFits, ScreenAssumption DEF DeskInv
        <3> HIDE DEF k
        <3> QED BY <2>1, <3>1, <3>2 DEF DeskInv
    <2> QED BY <2>2, <2>3
<1>9. CASE Desk!Move
    <2> DEFINE k == moving[1]
               w == [windows[k] EXCEPT !.x = moving[2].x, !.y = moving[2].y]
    <2>1. windows' = [windows EXCEPT ![k].x = moving[2].x, ![k].y = moving[2].y] /\ place = "move"
          /\ place' # "move" /\ UNCHANGED <<mouse_x, mouse_y, mouse_byte, buffer>>
        BY <1>9 DEF Desk!Move, Desk!mouse, Desk!device
    <2>2. CASE k \notin DOMAIN windows
        <3>1. windows' = windows
            BY <2>1, <2>2 DEF DeskInv
        <3> QED BY <1>1, <1>3, <2>1, <3>1 DEF DeskInv
    <2>3. CASE k \in DOMAIN windows
        <3>1. windows[k] \in Window /\ moving[2] \in Window /\ OnScreen(moving[2])
              /\ SameSize(moving[2], windows[k])
            BY <2>1, <2>3 DEF DeskInv
        <3>2. w \in Window /\ OnScreen(w) /\ SameSize(w, windows[k])
            BY <3>1 DEF Window, OnScreen, SameSize
        <3>3. windows' = [windows EXCEPT ![k] = w]
            BY <2>1, <2>3 DEF DeskInv
        <3> HIDE DEF w
        <3>4. windows' \in Seq(Window) /\ DOMAIN windows' = DOMAIN windows
            BY <3>2, <3>3, ReplacedIsSequence DEF DeskInv
        <3>5. \A i \in DOMAIN windows : windows'[i] = IF i = k THEN w ELSE windows[i]
            BY <3>3
        <3>6. Kept(windows')
            BY <1>1, <3>2, <3>4, <3>5 DEF Kept
        <3> QED BY <1>3, <2>1, <3>6 DEF DeskInv
    <2> QED BY <2>2, <2>3
<1>10. CASE Desk!Release
    <2>1. Kept(windows')
        BY <1>1, <1>10, DroppedKeeps DEF Desk!Release
    <2> QED BY <1>3, <1>10, <2>1 DEF Desk!Release, Desk!mouse, Desk!device, DeskInv
<1>11. CASE Desk!Save
    BY <1>1, <1>3, <1>11 DEF Desk!Save, Desk!mouse, Desk!device, DeskInv
<1>12. CASE Desk!enable_mouse
    <2>1. buffer' \in Seq(Int) /\ place' # "move" /\ UNCHANGED <<mouse_x, mouse_y, mouse_byte, windows>>
        <3>1. <<Ack>> \in Seq(Int) /\ <<>> \in Seq(Int)
            BY ScreenAssumption
        <3>2. CASE Desk!MouseWrite
            BY <3>1, <3>2 DEF Desk!MouseWrite, Desk!mouse, Desk!gui
        <3>3. CASE Desk!MouseRead
            BY <3>1, <3>3 DEF Desk!MouseRead, Desk!mouse, Desk!gui
        <3>4. CASE Desk!Route
            BY <3>4 DEF Desk!Route, Desk!mouse, Desk!device, Desk!gui, DeskInv
        <3> QED BY <1>12, <3>2, <3>3, <3>4 DEF Desk!enable_mouse
    <2> QED BY <1>1, <1>3, <2>1
<1>13. CASE UNCHANGED Desk!vars
    BY <1>1, <1>2, <1>13 DEF Desk!vars, Desk!mouse, Desk!device, Desk!gui, DeskInv
<1> QED BY <1>4, <1>5, <1>6, <1>7, <1>8, <1>9, <1>10, <1>11, <1>12, <1>13 DEF Desk!Next

\* WindowsStayOnScreen of Desktop: whatever bytes the mouse sends, whether the
\* handler is in step with its packets or not, and wherever its interrupts fall
\* into gui_update_mouse of init_gui, a window that fits on the screen stays
\* there with all of it.
THEOREM DesktopKeepsWindows == Desk!Spec => []Desk!WindowsStayOnScreen
<1>1. Desk!Init => DeskInv
    <2> SUFFICES ASSUME Desk!Init PROVE DeskInv
        OBVIOUS
    <2>1. windows = <<>> /\ place = "create" /\ mouse_byte = <<>> /\ buffer = <<>>
          /\ mouse_x = 0 /\ mouse_y = 0
        BY DEF Desk!Init
    <2> QED BY <2>1 DEF DeskInv
<1>2. DeskInv => Desk!WindowsStayOnScreen
    BY DEF DeskInv, Desk!WindowsStayOnScreen, OnScreen
<1> QED BY <1>1, <1>2, DeskStep, PTL DEF Desk!Spec

-----------------------------------------------------------------------------
(* The game.                                                               *)

\* A path of different places on the board has no more of them than the board.
LEMMA BoardHolds ==
    ASSUME NEW n \in Nat, NEW f \in [0 .. n - 1 -> Game!Point],
           \A i, j \in 0 .. n - 1 : f[i] = f[j] => i = j
    PROVE  n <= Game!Cells
<1>1. IsFiniteSet(0 .. WIDTH - 1) /\ Cardinality(0 .. WIDTH - 1) = WIDTH
    BY FS_Interval, BoardAssumption
<1>2. IsFiniteSet(0 .. HEIGHT - 1) /\ Cardinality(0 .. HEIGHT - 1) = HEIGHT
    BY FS_Interval, BoardAssumption
<1>3. IsFiniteSet(Game!Point) /\ Cardinality(Game!Point) = WIDTH * HEIGHT
    <2> DEFINE across == 0 .. WIDTH - 1
               down == 0 .. HEIGHT - 1
    <2>1. IsFiniteSet(across) /\ IsFiniteSet(down)
        BY <1>1, <1>2
    <2> HIDE DEF across, down
    <2>2. IsFiniteSet(across \X down) /\ Cardinality(across \X down) = Cardinality(across) * Cardinality(down)
        BY <2>1, FS_Product
    <2> QED BY <1>1, <1>2, <2>2 DEF Game!Point, across, down
<1>4. Cardinality(0 .. n - 1) = n
    BY FS_Interval
<1>5. f \in Injection(0 .. n - 1, Game!Point)
    BY DEF Injection, IsInjective
<1> QED BY <1>3, <1>4, <1>5, FS_Injection DEF Game!Cells

Directions == {"UP", "DOWN", "LEFT", "RIGHT"}

\* The body without its last segment is a path of different places, whether a
\* game is played or not, and a game begins with two segments.
GameInv ==
    /\ snake \in [0 .. Game!Cells -> Int \X Int]
    /\ snake_length \in Nat /\ dir \in Directions
    /\ playing => snake_length >= 2
    /\ Game!SnakeIsAPath

LEMMA CellsPositive == Game!Cells \in Nat \ {0}
    BY BoardAssumption DEF Game!Cells

\* A step leads to another place, from which the opposite step leads back.
LEMMA StepsBack ==
    ASSUME NEW p \in Int \X Int, NEW d \in Directions
    PROVE  /\ Game!Step(p, d) \in Int \X Int
           /\ \E e \in Directions : p = Game!Step(Game!Step(p, d), e)
<1>1. CASE d = "UP"
    BY <1>1, p = Game!Step(Game!Step(p, d), "DOWN") DEF Game!Step, Directions
<1>2. CASE d = "DOWN"
    BY <1>2, p = Game!Step(Game!Step(p, d), "UP") DEF Game!Step, Directions
<1>3. CASE d = "LEFT"
    BY <1>3, p = Game!Step(Game!Step(p, d), "RIGHT") DEF Game!Step, Directions
<1>4. CASE d = "RIGHT"
    BY <1>4, p = Game!Step(Game!Step(p, d), "LEFT") DEF Game!Step, Directions
<1> QED BY <1>1, <1>2, <1>3, <1>4 DEF Directions

\* What was left in the array does not matter to a new game: of its two
\* segments the first is set.
LEMMA NewGameKeepsPath ==
    ASSUME GameInv, Game!init_game
    PROVE  GameInv'
<1>1. snake' = [snake EXCEPT ![0] = <<WIDTH \div 2, HEIGHT \div 2>>] /\ snake_length' = 2
      /\ dir' = "RIGHT"
    BY DEF Game!init_game
<1>2. WIDTH \div 2 \in 0 .. WIDTH - 1 /\ HEIGHT \div 2 \in 0 .. HEIGHT - 1
    BY BoardAssumption
<1>3. <<WIDTH \div 2, HEIGHT \div 2>> \in Game!Point \cap (Int \X Int)
    BY <1>2, BoardAssumption DEF Game!Point
<1>4. snake' \in [0 .. Game!Cells -> Int \X Int] /\ snake'[0] \in Game!Point
    BY <1>1, <1>3, CellsPositive DEF GameInv
<1>5. 0 .. snake_length' - 2 = {0} /\ snake_length' <= Game!Cells + 1
    BY <1>1, CellsPositive
<1>6. Game!SnakeIsAPath'
    BY <1>4, <1>5 DEF Game!SnakeIsAPath
<1> QED BY <1>1, <1>4, <1>6 DEF GameInv, Directions

\* A round of the game that does not end it: every segment takes the place of
\* the one before, and the head one that no segment was on.
LEMMA MoveKeepsPath ==
    ASSUME GameInv, playing, NEW d \in Directions, dir' = d,
           Game!update_game(Game!Step(snake[0], d)),
           ~ Game!Collides(Game!Step(snake[0], d))
    PROVE  GameInv'
<1> DEFINE head == Game!Step(snake[0], d)
           n == snake_length
<1>1. n \in Nat /\ n >= 2 /\ n <= Game!Cells + 1
    BY DEF GameInv, Game!SnakeIsAPath
<1>2. snake[0] \in Int \X Int
    BY CellsPositive DEF GameInv
<1>3. head \in Game!Point /\ head \in Int \X Int
    BY <1>2, StepsBack DEF Game!Collides
<1>4. \A k \in 0 .. n - 1 : snake[k] # head
    BY DEF Game!Collides
<1>5. snake' = [k \in 0 .. Game!Cells |->
                    IF k = 0 THEN head ELSE IF k < n THEN snake[k - 1] ELSE snake[k]]
    BY DEF Game!update_game, GameInv
<1>6. snake_length' \in Int /\ n <= snake_length' /\ snake_length' <= n + 1 /\ playing' = playing
    BY <1>1 DEF Game!update_game
<1>7. snake'[0] = head /\ \A k \in 1 .. n - 1 : snake'[k] = snake[k - 1]
    BY <1>1, <1>5, CellsPositive
<1>8. \A k \in 0 .. n - 2 : snake[k] \in Game!Point
    BY DEF GameInv, Game!SnakeIsAPath
<1>9. \A k \in 0 .. n - 1 : snake'[k] \in Game!Point
    BY <1>1, <1>3, <1>7, <1>8
<1>10. ASSUME NEW j \in 0 .. n - 1, NEW k \in 0 .. n - 1, snake'[j] = snake'[k]
       PROVE  j = k
    <2>1. \A a, b \in 0 .. n - 2 : snake[a] = snake[b] => a = b
        BY DEF GameInv, Game!SnakeIsAPath
    <2>2. CASE j = 0 \/ k = 0
        BY <1>1, <1>4, <1>7, <1>10, <2>2
    <2>3. CASE j # 0 /\ k # 0
        <3>1. j - 1 \in 0 .. n - 2 /\ k - 1 \in 0 .. n - 2 /\ snake[j - 1] = snake[k - 1]
            BY <1>1, <1>7, <1>10, <2>3
        <3> QED BY <2>1, <3>1
    <2> QED BY <2>2, <2>3
<1>11. ASSUME NEW k \in 0 .. n - 2
       PROVE  \E e \in Directions : snake'[k + 1] = Game!Step(snake'[k], e)
    <2>1. CASE k = 0
        <3>1. snake'[k] = head /\ snake'[k + 1] = snake[0]
            BY <1>1, <1>7, <2>1
        <3> QED BY <1>2, <3>1, StepsBack
    <2>2. CASE k # 0
        <3>1. snake'[k] = snake[k - 1] /\ snake'[k + 1] = snake[k]
            BY <1>1, <1>7, <2>2
        <3>2. k - 1 \in 0 .. n - 2 /\ k \in 0 .. n - 2 /\ (k - 1) + 1 = k
            BY <1>1, <2>2
        <3>3. \E e \in Directions : snake[(k - 1) + 1] = Game!Step(snake[k - 1], e)
            BY <3>2 DEF GameInv, Game!SnakeIsAPath, Directions
        <3> QED BY <3>1, <3>2, <3>3
    <2> QED BY <2>1, <2>2
<1>12. n <= Game!Cells
    <2> DEFINE f == [k \in 0 .. n - 1 |-> snake'[k]]
    <2>1. f \in [0 .. n - 1 -> Game!Point] /\ \A j, k \in 0 .. n - 1 : f[j] = f[k] => j = k
        BY <1>9, <1>10
    <2> HIDE DEF f
    <2> QED BY <1>1, <2>1, BoardHolds
<1>13. snake' \in [0 .. Game!Cells -> Int \X Int]
    BY <1>3, <1>5, <1>1, CellsPositive DEF GameInv
<1>14. \A k \in 0 .. snake_length' - 2 :
        k \in 0 .. n - 1 /\ (k + 1 \in 0 .. snake_length' - 2 => k \in 0 .. n - 2)
    <2>1. \A l, m \in Int : m <= l /\ l <= m + 1 =>
            \A k \in 0 .. l - 2 : k \in 0 .. m - 1 /\ (k + 1 \in 0 .. l - 2 => k \in 0 .. m - 2)
        OBVIOUS
    <2>2. n \in Int /\ snake_length' \in Int /\ n <= snake_length' /\ snake_length' <= n + 1
        BY <1>1, <1>6
    <2> HIDE DEF n
    <2> QED BY <2>1, <2>2, Zenon
<1>15. snake_length' <= Game!Cells + 1
    <2> HIDE DEF n
    <2> QED BY <1>1, <1>6, <1>12, CellsPositive
<1>16. Game!SnakeIsAPath'
    BY <1>9, <1>10, <1>11, <1>14, <1>15 DEF Game!SnakeIsAPath, Directions
<1> QED BY <1>1, <1>6, <1>13, <1>16 DEF GameInv

\* SnakeIsAPath of Snake: with the array never cleared, over any number of
\* moves, turns and games, all segments but the last are different places of
\* the board, each next to the one before, and there are no more segments than
\* the array holds.
THEOREM SnakeStaysAPath == Game!Spec => []Game!SnakeIsAPath
<1>1. Game!Init => GameInv
    <2> SUFFICES ASSUME Game!Init PROVE GameInv
        OBVIOUS
    <2>1. snake \in [0 .. Game!Cells -> Int \X Int] /\ snake_length = 0
        BY DEF Game!Init
    <2>2. Game!SnakeIsAPath
        BY <2>1, CellsPositive DEF Game!SnakeIsAPath
    <2> QED BY <2>1, <2>2 DEF GameInv, Game!Init, Directions
<1>2. GameInv /\ [Game!Next]_(Game!vars) => GameInv'
    <2> SUFFICES ASSUME GameInv, [Game!Next]_(Game!vars) PROVE GameInv'
        OBVIOUS
    <2>1. CASE UNCHANGED <<snake, snake_length, playing>> /\ dir' \in Directions
        BY <2>1 DEF GameInv, Game!SnakeIsAPath
    <2>2. CASE Game!press \/ UNCHANGED Game!vars
        BY <2>1, <2>2 DEF Game!press, Game!vars, GameInv
    <2>3. CASE Game!init_game
        BY <2>3, NewGameKeepsPath
    <2>4. CASE Game!run_snake_game
        <3>1. dir' \in Directions
            BY <2>4 DEF Game!run_snake_game, Game!Turn, GameInv, Directions
        <3>2. CASE Game!Over
            BY <3>1, <3>2 DEF Game!Over, GameInv, Game!SnakeIsAPath
        <3>3. CASE ~ Game!Over
            <4>1. Game!update_game(Game!Step(snake[0], dir')) /\ playing
                BY <2>4, <3>3 DEF Game!run_snake_game
            <4>2. ~ Game!Collides(Game!Step(snake[0], dir'))
                BY <3>3, <4>1 DEF Game!update_game
            <4> QED BY <3>1, <4>1, <4>2, MoveKeepsPath
        <3> QED BY <3>2, <3>3
    <2> QED BY <2>2, <2>3, <2>4 DEF Game!Next
<1>3. GameInv => Game!SnakeIsAPath
    BY DEF GameInv
<1> QED BY <1>1, <1>2, <1>3, PTL DEF Game!Spec

-----------------------------------------------------------------------------
(* The page allocator.                                                     *)

\* The manager of a region is what setup_physical_memory_management made it,
\* but for the bitmap.
ManagersInv ==
    /\ Managers = {} \/ Managers = FreeEntries
    /\ \A i \in Managers :
        /\ phys_mblocks[i] \in [base_address : Nat, num_pages : Nat, bitmap : SUBSET Nat]
        /\ phys_mblocks[i].base_address = Manager(MemMap[i]).base_address
        /\ phys_mblocks[i].num_pages = NumPages(MemMap[i])

\* The pages that a region has for callers.
CallersPages(i) == Run(BitmapPages(MemMap[i]), NumPages(MemMap[i]) - BitmapPages(MemMap[i]))

Overlap(r, q) == r.manager = q.manager /\ Run(r.first, r.pages) \cap Run(q.first, q.pages) # {}

\* The runs that callers have are theirs alone.
HeldInv ==
    /\ held \subseteq [manager : Managers, first : Nat, pages : Nat \ {0}]
    /\ \A r \in held : Run(r.first, r.pages) \subseteq CallersPages(r.manager)
    /\ \A r, q \in held : r # q => ~ Overlap(r, q)

PagesInv == ManagersInv /\ HeldInv /\ PagesAccounted

\* The numbers that describe a region.
LEMMA RegionNumbers ==
    ASSUME NEW i \in FreeEntries
    PROVE  /\ i \in 1 .. Len(MemMap) /\ MemMap[i].ptr \in Nat /\ MemMap[i].size \in Nat
           /\ NumPages(MemMap[i]) \in Nat /\ Words(MemMap[i]) \in Nat
           /\ BitmapPages(MemMap[i]) \in Nat
           /\ Manager(MemMap[i]).base_address \in Nat
           /\ MemMap[i].ptr <= Manager(MemMap[i]).base_address
<1> DEFINE e == MemMap[i]
<1>1. /\ i \in 1 .. Len(MemMap) /\ e.ptr \in Nat /\ e.size \in Nat
    <2>1. i \in 1 .. Len(MemMap)
        BY DEF FreeEntries
    <2>2. e \in MapEntry
        BY <2>1, MemMapAssumption DEF IsMemoryMap
    <2> HIDE DEF e
    <2> QED BY <2>1, <2>2 DEF MapEntry
<1>2. \A n \in Nat : \A d \in Nat \ {0} : n \div d \in Nat
    OBVIOUS
<1>3. \A n \in Nat : \A d \in Nat \ {0} : RoundedUp(n, d) \in Nat
    <2> SUFFICES ASSUME NEW n \in Nat, NEW d \in Nat \ {0} PROVE (n + d - 1) \div d \in Nat
        BY DEF RoundedUp
    <2>1. n + d - 1 \in Nat
        OBVIOUS
    <2> QED BY <2>1, <1>2
<1>4. NumPages(e) \in Nat
    BY <1>1, <1>2, PageAssumption DEF NumPages
<1>5. Words(e) \in Nat
    BY <1>3, <1>4, PageAssumption DEF Words
<1>6. Words(e) * WordSize \in Nat
    BY <1>5, PageAssumption
<1>7. BitmapPages(e) \in Nat
    BY <1>3, <1>6, PageAssumption DEF BitmapPages
<1>8. Manager(e).base_address = e.ptr + (Words(e) * WordSize)
    BY DEF Manager
<1> HIDE DEF e
<1> QED BY <1>1, <1>4, <1>5, <1>6, <1>7, <1>8 DEF e

LEMMA ManagerFacts ==
    ASSUME ManagersInv, NEW i \in Managers
    PROVE  /\ i \in FreeEntries
           /\ phys_mblocks[i].base_address = Manager(MemMap[i]).base_address
           /\ phys_mblocks[i].num_pages = NumPages(MemMap[i])
BY DEF ManagersInv

\* The least element of a set of numbers, when there is one.
LEMMA MinOf ==
    ASSUME NEW S \in SUBSET Nat, S # {}
    PROVE  Min(S) \in S /\ \A x \in S : Min(S) <= x
BY LeastExists DEF Min

\* Products keep the order of their factors.
LEMMA ProductsInOrder ==
    ASSUME NEW p \in Nat, NEW q \in Nat, p <= q, NEW d \in Nat
    PROVE  p * d <= q * d
<1> DEFINE x == p * d
           y == q * d
           z == (q - p) * d
<1>1. y = x + z /\ z \in Nat /\ x \in Nat
    OBVIOUS
<1> HIDE DEF x, y, z
<1>2. x <= y
    BY <1>1
<1> QED BY <1>2 DEF x, y

\* Multiples of the page size keep their order.
LEMMA PagesInOrder ==
    ASSUME NEW p \in Nat, NEW q \in Nat, p <= q
    PROVE  /\ p * PAGE_SIZE \in Nat /\ q * PAGE_SIZE \in Nat
           /\ p * PAGE_SIZE <= q * PAGE_SIZE
BY ProductsInOrder, PageAssumption

\* A number of things rounded up to whole words fit in them.
LEMMA RoundedUpIsEnough ==
    ASSUME NEW n \in Nat, NEW d \in Nat \ {0}
    PROVE  n <= ((n + d - 1) \div d) * d
<1> DEFINE x == n + d - 1
           y == (x \div d) * d
<1>1. x \in Nat /\ x \div d \in Nat
    OBVIOUS
<1>2. (x % d) + d * (x \div d) = x /\ x % d \in 0 .. d - 1
    <2> HIDE DEF x
    <2> QED BY <1>1, Digits
<1>3. d * (x \div d) = y /\ y \in Int
    <2> HIDE DEF x
    <2> QED BY <1>1
<1> HIDE DEF y
<1>4. (x % d) + y = x
    BY <1>2, <1>3
<1>5. y >= x - (d - 1)
    <2> HIDE DEF x
    <2> QED BY <1>1, <1>2, <1>3, <1>4
<1>6. y >= n
    BY <1>3, <1>5
<1> QED BY <1>6 DEF y

LEMMA InitPagesInv == Init => PagesInv
<1> SUFFICES ASSUME Init PROVE PagesInv
    OBVIOUS
<1>1. Managers = {} /\ held = {}
    BY DEF Init, Managers
<1> QED BY <1>1 DEF PagesInv, ManagersInv, HeldInv, PagesAccounted

LEMMA SetupKeepsPages == PagesInv /\ Setup => PagesInv'
<1> SUFFICES ASSUME PagesInv, Setup PROVE PagesInv'
    OBVIOUS
<1>1. Managers = {} /\ held' = held /\ held = {}
    BY DEF Setup, PagesInv, HeldInv
<1>2. phys_mblocks' = [i \in FreeEntries |-> Manager(MemMap[i])] /\ Managers' = FreeEntries
    BY DEF Setup, Managers
<1>3. ManagersInv'
    <2>1. ASSUME NEW i \in FreeEntries
          PROVE  /\ Manager(MemMap[i]).num_pages = NumPages(MemMap[i])
                 /\ Manager(MemMap[i]) \in [base_address : Nat, num_pages : Nat, bitmap : SUBSET Nat]
        <3>1. Manager(MemMap[i]).base_address \in Nat /\ NumPages(MemMap[i]) \in Nat
              /\ BitmapPages(MemMap[i]) \in Nat
            BY RegionNumbers
        <3>2. \A a \in Nat : \A b : a .. b \in SUBSET Nat
            OBVIOUS
        <3> QED BY <3>1, <3>2 DEF Manager
    <2> QED BY <1>2, <2>1 DEF ManagersInv
<1>4. HeldInv'
    BY <1>1 DEF HeldInv
<1>5. ASSUME NEW i \in FreeEntries
      PROVE  Manager(MemMap[i]).bitmap \cap (0 .. NumPages(MemMap[i]) - 1) = CallersPages(i)
    <2>1. NumPages(MemMap[i]) <= Words(MemMap[i]) * BITS_PER_WORD
        <3> DEFINE n == NumPages(MemMap[i])
                   w == Words(MemMap[i])
        <3>1. n \in Nat /\ w \in Nat /\ BITS_PER_WORD \in Nat \ {0}
            BY RegionNumbers, PageAssumption
        <3>2. w = (n + BITS_PER_WORD - 1) \div BITS_PER_WORD
            BY DEF Words, RoundedUp
        <3> HIDE DEF n, w
        <3> QED BY <3>1, <3>2, RoundedUpIsEnough DEF n, w
    <2>2. BitmapPages(MemMap[i]) \in Nat /\ NumPages(MemMap[i]) \in Nat
          /\ Words(MemMap[i]) * BITS_PER_WORD \in Nat
        BY RegionNumbers, PageAssumption
    <2>3. Manager(MemMap[i]).bitmap
            = BitmapPages(MemMap[i]) .. (Words(MemMap[i]) * BITS_PER_WORD) - 1
        BY DEF Manager
    <2> HIDE DEF BitmapPages, NumPages, Words
    <2> QED BY <2>1, <2>2, <2>3 DEF CallersPages, Run
<1>6. PagesAccounted'
    <2> SUFFICES ASSUME NEW i \in Managers'
                 PROVE  phys_mblocks'[i].bitmap \cap PagesOf(phys_mblocks'[i])
                        = Run(BitmapPages(MemMap[i]), phys_mblocks'[i].num_pages - BitmapPages(MemMap[i]))
                            \ HeldPages(i)'
        BY DEF PagesAccounted
    <2>1. HeldPages(i)' = {}
        BY <1>1 DEF HeldPages
    <2>2. phys_mblocks'[i].num_pages = NumPages(MemMap[i])
          /\ phys_mblocks'[i].bitmap = Manager(MemMap[i]).bitmap
        BY <1>2 DEF Manager
    <2> QED BY <1>2, <1>5, <2>1, <2>2 DEF CallersPages, PagesOf
<1> QED BY <1>3, <1>4, <1>6 DEF PagesInv

\* What Allocate takes: a run of pages that are free, of one region.
LEMMA AllocateTakesFreeRun ==
    ASSUME PagesInv, NEW n \in Nat, Allocate(n)
    PROVE  \E i \in Managers : \E s \in Nat :
              /\ n > 0
              /\ Run(s, n) \subseteq phys_mblocks[i].bitmap \cap PagesOf(phys_mblocks[i])
              /\ phys_mblocks' = [phys_mblocks EXCEPT ![i].bitmap = @ \ Run(s, n)]
              /\ held' = held \cup {RunOf(i, s, n)}
<1> DEFINE i == Min(Having(n))
           s == Min(FreeRuns(phys_mblocks[i], n))
<1>1. Having(n) # {} /\ Having(n) \subseteq Managers
    BY DEF Allocate, Having
<1>2. Managers \subseteq Nat
    BY DEF PagesInv, ManagersInv, FreeEntries
<1>3. i \in Having(n)
    <2> HIDE DEF i
    <2>1. Min(Having(n)) \in Having(n)
        BY <1>1, <1>2, MinOf
    <2> QED BY <2>1 DEF i
<1>4. i \in Managers /\ FreeRuns(phys_mblocks[i], n) # {}
    <2> HIDE DEF i
    <2> QED BY <1>1, <1>3 DEF Having
<1>5. s \in FreeRuns(phys_mblocks[i], n)
    <2> HIDE DEF i
    <2>1. FreeRuns(phys_mblocks[i], n) \subseteq Nat
        <3>1. phys_mblocks[i].num_pages \in Nat
            BY <1>4 DEF PagesInv, ManagersInv
        <3> QED BY <3>1 DEF FreeRuns, PagesOf
    <2>2. Min(FreeRuns(phys_mblocks[i], n)) \in FreeRuns(phys_mblocks[i], n)
        BY <1>4, <2>1, MinOf
    <2> QED BY <2>2
<1>6. /\ phys_mblocks' = [phys_mblocks EXCEPT ![i].bitmap = @ \ Run(s, n)]
      /\ held' = held \cup {RunOf(i, s, n)}
    BY DEF Allocate
<1>7. phys_mblocks[i].num_pages \in Nat
    <2> HIDE DEF i
    <2> QED BY <1>4 DEF PagesInv, ManagersInv
<1> HIDE DEF i, s
<1>8. s \in Nat /\ n > 0
      /\ Run(s, n) \subseteq phys_mblocks[i].bitmap \cap PagesOf(phys_mblocks[i])
    BY <1>5, <1>7 DEF FreeRuns, PagesOf
<1> QED BY <1>4, <1>6, <1>8

\* The same of the region: the run is of pages for callers that nobody has.
LEMMA FreeRunIsNobodys ==
    ASSUME PagesInv, NEW i \in Managers, NEW s \in Nat, NEW n \in Nat,
           Run(s, n) \subseteq phys_mblocks[i].bitmap \cap PagesOf(phys_mblocks[i])
    PROVE  /\ Run(s, n) \subseteq CallersPages(i)
           /\ Run(s, n) \cap HeldPages(i) = {}
<1>1. phys_mblocks[i].bitmap \cap PagesOf(phys_mblocks[i]) = CallersPages(i) \ HeldPages(i)
    BY ManagerFacts DEF PagesInv, PagesAccounted, CallersPages
<1> QED BY <1>1

LEMMA AllocateKeepsPages ==
    ASSUME PagesInv, NEW n \in Nat, Allocate(n)
    PROVE  PagesInv'
<1>1. PICK i \in Managers, s \in Nat :
        /\ n > 0
        /\ Run(s, n) \subseteq phys_mblocks[i].bitmap \cap PagesOf(phys_mblocks[i])
        /\ phys_mblocks' = [phys_mblocks EXCEPT ![i].bitmap = @ \ Run(s, n)]
        /\ held' = held \cup {RunOf(i, s, n)}
    BY AllocateTakesFreeRun
<1>2. /\ Run(s, n) \subseteq CallersPages(i)
      /\ Run(s, n) \cap HeldPages(i) = {}
    BY <1>1, FreeRunIsNobodys
<1>3. /\ Managers' = Managers
      /\ \A j \in Managers :
            /\ phys_mblocks'[j].num_pages = phys_mblocks[j].num_pages
            /\ phys_mblocks'[j].base_address = phys_mblocks[j].base_address
            /\ j # i => phys_mblocks'[j] = phys_mblocks[j]
      /\ phys_mblocks'[i].bitmap = phys_mblocks[i].bitmap \ Run(s, n)
      /\ phys_mblocks'[i] \in [base_address : Nat, num_pages : Nat, bitmap : SUBSET Nat]
    <2>1. \A j \in Managers :
            phys_mblocks[j] \in [base_address : Nat, num_pages : Nat, bitmap : SUBSET Nat]
        BY DEF PagesInv, ManagersInv
    <2> QED BY <1>1, <2>1 DEF Managers
<1>4. ManagersInv'
    BY <1>3 DEF PagesInv, ManagersInv
<1> DEFINE r == RunOf(i, s, n)
<1>5. r.manager = i /\ r.first = s /\ r.pages = n
    BY DEF RunOf
<1>6. held' = held \cup {r} /\ r \in [manager : Managers, first : Nat, pages : Nat \ {0}]
    BY <1>1 DEF RunOf
<1> HIDE DEF r
<1>7. \A q \in held : ~ Overlap(r, q) /\ ~ Overlap(q, r)
    BY <1>2, <1>5 DEF Overlap, HeldPages
<1>8. HeldInv'
    <2>1. held' \subseteq [manager : Managers', first : Nat, pages : Nat \ {0}]
        BY <1>3, <1>6 DEF PagesInv, HeldInv
    <2>2. \A q \in held' : Run(q.first, q.pages) \subseteq CallersPages(q.manager)
        BY <1>2, <1>5, <1>6 DEF PagesInv, HeldInv
    <2>3. \A p, q \in held' : p # q => ~ Overlap(p, q)
        BY <1>6, <1>7 DEF PagesInv, HeldInv
    <2> QED BY <2>1, <2>2, <2>3 DEF HeldInv
<1>9. PagesAccounted'
    <2> SUFFICES ASSUME NEW j \in Managers
                 PROVE  phys_mblocks'[j].bitmap \cap PagesOf(phys_mblocks'[j])
                        = Run(BitmapPages(MemMap[j]), phys_mblocks'[j].num_pages - BitmapPages(MemMap[j]))
                            \ HeldPages(j)'
        BY <1>3 DEF PagesAccounted
    <2>1. phys_mblocks[j].bitmap \cap PagesOf(phys_mblocks[j])
            = Run(BitmapPages(MemMap[j]), phys_mblocks[j].num_pages - BitmapPages(MemMap[j]))
                \ HeldPages(j)
        BY DEF PagesInv, PagesAccounted
    <2>2. PagesOf(phys_mblocks'[j]) = PagesOf(phys_mblocks[j])
        BY <1>3 DEF PagesOf
    <2>3. HeldPages(j)' = IF j = i THEN HeldPages(j) \cup Run(s, n) ELSE HeldPages(j)
        BY <1>5, <1>6 DEF HeldPages
    <2> QED BY <1>3, <2>1, <2>2, <2>3
<1> QED BY <1>4, <1>8, <1>9 DEF PagesInv

\* The memory of the pages of a region is inside what its manager covers.
LEMMA PagesAreCovered ==
    ASSUME ManagersInv, NEW i \in Managers, NEW p \in Nat, NEW q \in Nat,
           p <= q, q <= NumPages(MemMap[i])
    PROVE  /\ Covered(MemMap[i]).address \in Nat /\ Covered(MemMap[i]).size \in Nat
           /\ Address(phys_mblocks[i], p) \in Nat
           /\ Covered(MemMap[i]).address <= Address(phys_mblocks[i], p)
           /\ Address(phys_mblocks[i], p) <= Address(phys_mblocks[i], q)
           /\ Address(phys_mblocks[i], q) <= End(Covered(MemMap[i]))
<1> DEFINE e == MemMap[i]
           b == Words(e) * WordSize
           x == p * PAGE_SIZE
           y == q * PAGE_SIZE
           z == NumPages(e) * PAGE_SIZE
<1>1. i \in FreeEntries
    BY ManagerFacts
<1>2. NumPages(e) \in Nat /\ Words(e) \in Nat /\ e.ptr \in Nat
    BY <1>1, RegionNumbers
<1>3. x \in Nat /\ y \in Nat /\ z \in Nat /\ x <= y /\ y <= z
    BY <1>2, PagesInOrder
<1>4. b \in Nat
    BY <1>2, PageAssumption
<1>5. phys_mblocks[i].base_address = e.ptr + b
    BY ManagerFacts DEF Manager
<1>6. /\ Covered(e).address = e.ptr /\ Covered(e).size = b + z
      /\ Address(phys_mblocks[i], p) = e.ptr + b + x
      /\ Address(phys_mblocks[i], q) = e.ptr + b + y
    BY <1>5 DEF Covered, Address
<1> HIDE DEF x, y, z, b
<1> QED BY <1>2, <1>3, <1>4, <1>6 DEF End

\* The pages of different regions share no address.
LEMMA CoveredDisjoint ==
    ASSUME NEW i \in FreeEntries, NEW j \in FreeEntries, i # j
    PROVE  Disjoint(Covered(MemMap[i]), Covered(MemMap[j]))
BY GapAssumption DEF FreeEntries

\* A page number from an address inside the page.
LEMMA PageOfAddress ==
    ASSUME NEW p \in Nat, NEW d \in Nat \ {0}, NEW o \in 0 .. d - 1
    PROVE  (p * d + o) \div d = p
<1> DEFINE x == p * d + o
           k == x \div d
<1>1. x \in Nat /\ p * d \in Nat
    OBVIOUS
<1>2. k \in Nat /\ (x % d) + d * k = x /\ x % d \in 0 .. d - 1
    <2> HIDE DEF x
    <2> QED BY <1>1, Digits
<1>3. k * d = d * k /\ d * k \in Nat
    <2> HIDE DEF x
    <2> HIDE DEF k
    <2> QED BY <1>2
<1>4. CASE k < p
    <2>1. (k + 1) * d <= p * d
        BY <1>2, <1>4, ProductsInOrder
    <2>2. (k + 1) * d = k * d + d
        <3> HIDE DEF k
        <3> QED BY <1>2
    <2> DEFINE y == k * d
               w == p * d
    <2>3. y + d <= w /\ x = w + o /\ y \in Nat /\ w \in Nat /\ (x % d) + y = x
        BY <1>1, <1>2, <1>3, <2>1, <2>2
    <2> HIDE DEF y, w, x
    <2> QED BY <1>1, <1>2, <2>3
<1>5. CASE k > p
    <2>1. (p + 1) * d <= k * d
        BY <1>2, <1>5, ProductsInOrder
    <2>2. (p + 1) * d = p * d + d
        OBVIOUS
    <2> DEFINE y == k * d
               w == p * d
    <2>3. w + d <= y /\ x = w + o /\ y \in Nat /\ w \in Nat /\ (x % d) + y = x
        BY <1>1, <1>2, <1>3, <2>1, <2>2
    <2> HIDE DEF y, w, x
    <2> QED BY <1>1, <1>2, <2>3
<1>6. k = p
    <2> HIDE DEF k
    <2> QED BY <1>2, <1>4, <1>5
<1> QED BY <1>6

\* A caller's run is given back to the manager it came from, at its place.
LEMMA FreeFindsRun ==
    ASSUME PagesInv, NEW r \in held, NEW offset \in {0, PAGE_SIZE - 1},
           Free(Address(phys_mblocks[r.manager], r.first) + offset, r.pages)
    PROVE  phys_mblocks' = [phys_mblocks EXCEPT ![r.manager].bitmap = @ \cup Run(r.first, r.pages)]
<1> DEFINE i == r.manager
           a == Address(phys_mblocks[i], r.first) + offset
<1>1. i \in Managers /\ r.first \in Nat /\ r.pages \in Nat \ {0}
    BY DEF PagesInv, HeldInv
<1>2. PAGE_SIZE \in Nat \ {0} /\ offset \in 0 .. PAGE_SIZE - 1
    BY PageAssumption
<1>3. r.first + r.pages <= NumPages(MemMap[i])
    <2>1. NumPages(MemMap[i]) \in Nat /\ BitmapPages(MemMap[i]) \in Nat
        BY <1>1, ManagerFacts, RegionNumbers DEF PagesInv
    <2>2. Run(r.first, r.pages) \subseteq CallersPages(i)
        BY DEF PagesInv, HeldInv
    <2>3. r.first + r.pages - 1 \in Run(r.first, r.pages)
        BY <1>1 DEF Run
    <2>4. r.first + r.pages - 1 \in CallersPages(i)
        BY <2>2, <2>3
    <2> QED BY <1>1, <2>1, <2>4 DEF CallersPages, Run
<1>4. /\ Covered(MemMap[i]).address <= a /\ a < End(Covered(MemMap[i])) /\ a \in Nat
    <2>1. (r.first + 1) * PAGE_SIZE = r.first * PAGE_SIZE + PAGE_SIZE
        BY <1>1, <1>2
    <2>2. Address(phys_mblocks[i], r.first + 1) = Address(phys_mblocks[i], r.first) + PAGE_SIZE
        <3> DEFINE x == r.first * PAGE_SIZE
                   y == (r.first + 1) * PAGE_SIZE
        <3>1. y = x + PAGE_SIZE /\ x \in Nat
            BY <1>1, <1>2, <2>1
        <3>2. phys_mblocks[i].base_address \in Nat
            BY <1>1 DEF PagesInv, ManagersInv
        <3>3. /\ Address(phys_mblocks[i], r.first + 1) = phys_mblocks[i].base_address + y
              /\ Address(phys_mblocks[i], r.first) = phys_mblocks[i].base_address + x
            BY DEF Address
        <3> HIDE DEF x, y
        <3> QED BY <1>2, <3>1, <3>2, <3>3
    <2>3. NumPages(MemMap[i]) \in Nat
        BY <1>1, ManagerFacts, RegionNumbers DEF PagesInv
    <2>4. /\ Covered(MemMap[i]).address \in Nat /\ Covered(MemMap[i]).size \in Nat
          /\ Address(phys_mblocks[i], r.first) \in Nat
          /\ Covered(MemMap[i]).address <= Address(phys_mblocks[i], r.first)
          /\ Address(phys_mblocks[i], r.first + 1) <= End(Covered(MemMap[i]))
        <3>1. r.first + 1 \in Nat /\ r.first <= r.first + 1 /\ r.first + 1 <= NumPages(MemMap[i])
            BY <1>1, <1>3, <2>3
        <3> QED BY <1>1, <3>1, PagesAreCovered DEF PagesInv
    <2> QED BY <1>2, <2>2, <2>4 DEF End
<1>5. \A j \in Managing(a, r.pages) : j = i
    <2> SUFFICES ASSUME NEW j \in Managing(a, r.pages), j # i PROVE FALSE
        OBVIOUS
    <2>1. j \in Managers /\ Manages(phys_mblocks[j], a)
        BY DEF Managing
    <2>2. j \in FreeEntries /\ i \in FreeEntries
          /\ phys_mblocks[j].num_pages = NumPages(MemMap[j])
        BY <1>1, <2>1, ManagerFacts DEF PagesInv
    <2>3. NumPages(MemMap[j]) \in Nat
        BY <2>2, RegionNumbers
    <2>4. /\ phys_mblocks[j].base_address <= a /\ a < Address(phys_mblocks[j], NumPages(MemMap[j]))
          /\ phys_mblocks[j].base_address = Address(phys_mblocks[j], 0)
        <3>1. phys_mblocks[j].base_address + (0 * PAGE_SIZE) = phys_mblocks[j].base_address
            BY <1>2, <2>1 DEF PagesInv, ManagersInv
        <3> QED BY <2>1, <2>2, <3>1 DEF Manages, Address
    <2>5. /\ Covered(MemMap[j]).address \in Nat /\ Covered(MemMap[j]).size \in Nat
          /\ Covered(MemMap[j]).address <= Address(phys_mblocks[j], 0)
          /\ Address(phys_mblocks[j], 0) \in Nat
          /\ Address(phys_mblocks[j], NumPages(MemMap[j])) \in Nat
          /\ Address(phys_mblocks[j], NumPages(MemMap[j])) <= End(Covered(MemMap[j]))
        BY <2>1, <2>3, PagesAreCovered DEF PagesInv
    <2>6. Disjoint(Covered(MemMap[i]), Covered(MemMap[j]))
        BY <2>2, CoveredDisjoint
    <2>7. /\ Covered(MemMap[i]).address \in Nat /\ Covered(MemMap[i]).size \in Nat
        BY <1>1, <2>2, PagesAreCovered, RegionNumbers DEF PagesInv
    <2> HIDE DEF a
    <2> QED BY <1>4, <2>4, <2>5, <2>6, <2>7 DEF Disjoint, End
<1>6. Managing(a, r.pages) # {} /\ Release(a, r.pages)
    BY DEF Free
<1>7. Managing(a, r.pages) = {i}
    BY <1>5, <1>6
<1>8. Min(Managing(a, r.pages)) = i
    <2>1. Managing(a, r.pages) \in SUBSET Nat
        BY <1>1, <1>7 DEF PagesInv, ManagersInv, FreeEntries
    <2> QED BY <1>6, <1>7, <2>1, MinOf
<1>9. PageIndex(phys_mblocks[i], a) = r.first
    <2> DEFINE x == r.first * PAGE_SIZE
    <2>1. phys_mblocks[i].base_address \in Nat /\ x \in Nat
        BY <1>1, <1>2 DEF PagesInv, ManagersInv
    <2>2. a = phys_mblocks[i].base_address + x + offset
        BY DEF Address
    <2>3. a - phys_mblocks[i].base_address = x + offset
        <3> HIDE DEF a, x
        <3> QED BY <1>2, <2>1, <2>2
    <2>4. (x + offset) \div PAGE_SIZE = r.first
        BY <1>1, <1>2, PageOfAddress
    <2> QED BY <2>3, <2>4 DEF PageIndex
<1> HIDE DEF a
<1> QED BY <1>6, <1>8, <1>9 DEF Release

LEMMA FreeKeepsPages ==
    ASSUME PagesInv, NEW r \in held, FreeRun(r)
    PROVE  PagesInv'
<1> DEFINE i == r.manager
           run == Run(r.first, r.pages)
<1>1. i \in Managers /\ run \subseteq CallersPages(i)
    BY DEF PagesInv, HeldInv
<1>2. /\ phys_mblocks' = [phys_mblocks EXCEPT ![i].bitmap = @ \cup run]
      /\ held' = held \ {r}
    BY FreeFindsRun DEF FreeRun
<1>3. NumPages(MemMap[i]) \in Nat /\ BitmapPages(MemMap[i]) \in Nat
      /\ phys_mblocks[i].num_pages = NumPages(MemMap[i])
    BY <1>1, ManagerFacts, RegionNumbers DEF PagesInv
<1>4. run \subseteq PagesOf(phys_mblocks[i]) /\ run \subseteq Nat
    BY <1>1, <1>3 DEF CallersPages, Run, PagesOf
<1> HIDE DEF run
<1>5. /\ Managers' = Managers
      /\ \A j \in Managers :
            /\ phys_mblocks'[j].num_pages = phys_mblocks[j].num_pages
            /\ phys_mblocks'[j].base_address = phys_mblocks[j].base_address
            /\ j # i => phys_mblocks'[j] = phys_mblocks[j]
      /\ phys_mblocks'[i].bitmap = phys_mblocks[i].bitmap \cup run
      /\ phys_mblocks'[i] \in [base_address : Nat, num_pages : Nat, bitmap : SUBSET Nat]
    <2>1. \A j \in Managers :
            phys_mblocks[j] \in [base_address : Nat, num_pages : Nat, bitmap : SUBSET Nat]
        BY DEF PagesInv, ManagersInv
    <2> HIDE DEF i
    <2> QED BY <1>1, <1>2, <1>4, <2>1 DEF Managers
<1>6. ManagersInv'
    BY <1>5 DEF PagesInv, ManagersInv
<1>7. HeldInv'
    BY <1>2, <1>5 DEF PagesInv, HeldInv
<1>8. \A q \in held : q # r /\ q.manager = i => Run(q.first, q.pages) \cap run = {}
    BY DEF PagesInv, HeldInv, Overlap, run
<1>9. PagesAccounted'
    <2> SUFFICES ASSUME NEW j \in Managers
                 PROVE  phys_mblocks'[j].bitmap \cap PagesOf(phys_mblocks'[j])
                        = Run(BitmapPages(MemMap[j]), phys_mblocks'[j].num_pages - BitmapPages(MemMap[j]))
                            \ HeldPages(j)'
        BY <1>5 DEF PagesAccounted
    <2>1. phys_mblocks[j].bitmap \cap PagesOf(phys_mblocks[j])
            = Run(BitmapPages(MemMap[j]), phys_mblocks[j].num_pages - BitmapPages(MemMap[j]))
                \ HeldPages(j)
        BY DEF PagesInv, PagesAccounted
    <2>2. PagesOf(phys_mblocks'[j]) = PagesOf(phys_mblocks[j])
        BY <1>5 DEF PagesOf
    <2>3. CASE j = i
        <3>1. HeldPages(i)' = HeldPages(i) \ run
            BY <1>2, <1>8 DEF HeldPages, run
        <3>2. run \subseteq Run(BitmapPages(MemMap[i]), phys_mblocks[i].num_pages - BitmapPages(MemMap[i]))
            BY <1>1, <1>3 DEF CallersPages, run
        <3> HIDE DEF i
        <3> QED BY <1>1, <1>4, <1>5, <2>1, <2>2, <2>3, <3>1, <3>2
    <2>4. CASE j # i
        <3>1. HeldPages(j)' = HeldPages(j)
            BY <1>2, <2>4 DEF HeldPages
        <3> QED BY <1>5, <2>1, <2>2, <2>4, <3>1
    <2> QED BY <2>3, <2>4
<1> QED BY <1>6, <1>7, <1>9 DEF PagesInv

LEMMA PagesStep ==
    ASSUME PagesInv, [Next]_vars
    PROVE  PagesInv'
<1>1. Runs \subseteq Nat
    BY PageAssumption
<1>2. CASE Setup
    BY <1>2, SetupKeepsPages
<1>3. ASSUME NEW n \in Nat, Allocate(n) PROVE PagesInv'
    BY <1>3, AllocateKeepsPages
<1>4. ASSUME NEW r \in held, FreeRun(r) PROVE PagesInv'
    BY <1>4, FreeKeepsPages
<1>5. CASE UNCHANGED vars
    BY <1>5 DEF vars, PagesInv, ManagersInv, HeldInv, PagesAccounted, Managers, PagesOf, HeldPages
<1> QED BY <1>1, <1>2, <1>3, <1>4, <1>5
        DEF Next, bitmap_allocate_page, bitmap_allocate_pages, bitmap_free_page, bitmap_free_pages

\* No sequence of calls of bitmap_allocate_page(s) and bitmap_free_page(s) loses
\* a page or frees one that a caller has, for any memory map and page size.
THEOREM PhysPagesAccounted == Spec => []PagesAccounted
<1>1. PagesInv => PagesAccounted
    BY DEF PagesInv
<1> QED BY <1>1, InitPagesInv, PagesStep, PTL DEF Spec

\* The memory of a caller's run.
RunBlock(r) ==
    [address |-> Address(phys_mblocks[r.manager], r.first), size |-> r.pages * PAGE_SIZE]

\* The memory of a run of pages, between the addresses of its first page and of
\* the one behind it, is in what its manager covers.
LEMMA BlockOfRun ==
    ASSUME ManagersInv, NEW i \in Managers, NEW s \in Nat, NEW n \in Nat \ {0},
           s + n <= NumPages(MemMap[i])
    PROVE  /\ Address(phys_mblocks[i], s) \in Nat
           /\ n * PAGE_SIZE \in Nat \ {0}
           /\ Address(phys_mblocks[i], s) + n * PAGE_SIZE = Address(phys_mblocks[i], s + n)
           /\ Covered(MemMap[i]).address \in Nat /\ Covered(MemMap[i]).size \in Nat
           /\ Covered(MemMap[i]).address <= Address(phys_mblocks[i], s)
           /\ Address(phys_mblocks[i], s + n) <= End(Covered(MemMap[i]))
<1>1. NumPages(MemMap[i]) \in Nat
    BY ManagerFacts, RegionNumbers
<1>2. s + n \in Nat /\ s <= s + n /\ s <= NumPages(MemMap[i])
    BY <1>1
<1> DEFINE x == s * PAGE_SIZE
           y == n * PAGE_SIZE
           z == (s + n) * PAGE_SIZE
<1>3. x \in Nat /\ y \in Nat /\ y > 0 /\ z = x + y
    BY PageAssumption
<1>4. phys_mblocks[i].base_address \in Nat
    BY DEF ManagersInv
<1>5. /\ Address(phys_mblocks[i], s) = phys_mblocks[i].base_address + x
      /\ Address(phys_mblocks[i], s + n) = phys_mblocks[i].base_address + z
    BY DEF Address
<1> HIDE DEF x, z
<1>6. /\ Covered(MemMap[i]).address \in Nat /\ Covered(MemMap[i]).size \in Nat
      /\ Covered(MemMap[i]).address <= Address(phys_mblocks[i], s)
      /\ Address(phys_mblocks[i], s + n) <= End(Covered(MemMap[i]))
    BY <1>1, <1>2, PagesAreCovered
<1> HIDE DEF y
<1>7. /\ Address(phys_mblocks[i], s) \in Nat
      /\ Address(phys_mblocks[i], s) + y = Address(phys_mblocks[i], s + n)
      /\ y \in Nat \ {0}
    BY <1>3, <1>4, <1>5
<1> QED BY <1>6, <1>7 DEF y

\* A run of pages for callers ends before the last page does.
LEMMA RunEnds ==
    ASSUME ManagersInv, NEW i \in Managers, NEW s \in Nat, NEW n \in Nat \ {0},
           Run(s, n) \subseteq CallersPages(i)
    PROVE  s + n <= NumPages(MemMap[i])
<1>1. NumPages(MemMap[i]) \in Nat /\ BitmapPages(MemMap[i]) \in Nat
    BY ManagerFacts, RegionNumbers
<1>2. s + n - 1 \in Run(s, n)
    BY DEF Run
<1>3. s + n - 1 \in CallersPages(i)
    BY <1>2
<1> QED BY <1>1, <1>3 DEF CallersPages, Run

\* Runs that do not overlap take memory that does not either.
LEMMA BlocksOfRunsDisjoint ==
    ASSUME ManagersInv,
           NEW i \in Managers, NEW s \in Nat, NEW n \in Nat \ {0},
           NEW j \in Managers, NEW t \in Nat, NEW m \in Nat \ {0},
           s + n <= NumPages(MemMap[i]), t + m <= NumPages(MemMap[j]),
           i = j => Run(s, n) \cap Run(t, m) = {}
    PROVE  Disjoint([address |-> Address(phys_mblocks[i], s), size |-> n * PAGE_SIZE],
                    [address |-> Address(phys_mblocks[j], t), size |-> m * PAGE_SIZE])
<1> DEFINE a == Address(phys_mblocks[i], s)
           b == Address(phys_mblocks[i], s + n)
           c == Address(phys_mblocks[j], t)
           d == Address(phys_mblocks[j], t + m)
           x == n * PAGE_SIZE
           y == m * PAGE_SIZE
<1>1. /\ a \in Nat /\ x \in Nat \ {0} /\ a + x = b
      /\ Covered(MemMap[i]).address \in Nat /\ Covered(MemMap[i]).size \in Nat
      /\ Covered(MemMap[i]).address <= a /\ b <= End(Covered(MemMap[i]))
    BY BlockOfRun
<1>2. /\ c \in Nat /\ y \in Nat \ {0} /\ c + y = d
      /\ Covered(MemMap[j]).address \in Nat /\ Covered(MemMap[j]).size \in Nat
      /\ Covered(MemMap[j]).address <= c /\ d <= End(Covered(MemMap[j]))
    BY BlockOfRun
<1>3. b <= c \/ d <= a
    <2>1. CASE i # j
        <3>1. Disjoint(Covered(MemMap[i]), Covered(MemMap[j]))
            BY <2>1, ManagerFacts, CoveredDisjoint
        <3> HIDE DEF a, b, c, d, x, y
        <3> QED BY <1>1, <1>2, <3>1 DEF Disjoint, End
    <2>2. CASE i = j
        <3>1. s + n <= t \/ t + m <= s
            <4> SUFFICES ASSUME t < s + n, s < t + m PROVE FALSE
                OBVIOUS
            <4>1. (IF s <= t THEN t ELSE s) \in Run(s, n) \cap Run(t, m)
                BY DEF Run
            <4> QED BY <2>2, <4>1
        <3>2. CASE s + n <= t
            <4>1. t \in Nat /\ t <= NumPages(MemMap[i]) /\ s + n \in Nat
                BY <2>2, ManagerFacts, RegionNumbers
            <4> QED BY <2>2, <3>2, <4>1, PagesAreCovered
        <3>3. CASE t + m <= s
            <4>1. s \in Nat /\ s <= NumPages(MemMap[i]) /\ t + m \in Nat
                BY <2>2, ManagerFacts, RegionNumbers
            <4> QED BY <2>2, <3>3, <4>1, PagesAreCovered
        <3> QED BY <3>1, <3>2, <3>3
    <2> QED BY <2>1, <2>2
<1> HIDE DEF a, b, c, d, x, y
<1>4. Disjoint([address |-> a, size |-> x], [address |-> c, size |-> y])
    BY <1>1, <1>2, <1>3 DEF Disjoint, End
<1> QED BY <1>4 DEF a, c, x, y

\* What is known of a run that a caller has.
LEMMA HeldRunFacts ==
    ASSUME PagesInv, NEW r \in held
    PROVE  /\ r.manager \in Managers /\ r.first \in Nat /\ r.pages \in Nat \ {0}
           /\ r.first + r.pages <= NumPages(MemMap[r.manager])
<1>1. /\ r.manager \in Managers /\ r.first \in Nat /\ r.pages \in Nat \ {0}
      /\ Run(r.first, r.pages) \subseteq CallersPages(r.manager)
    BY DEF PagesInv, HeldInv
<1> QED BY <1>1, RunEnds DEF PagesInv

LEMMA AllocateRefines ==
    ASSUME PagesInv, NEW n \in Nat, Allocate(n)
    PROVE  Held!Allocate
<1>1. PICK i \in Managers, s \in Nat :
        /\ n > 0
        /\ Run(s, n) \subseteq phys_mblocks[i].bitmap \cap PagesOf(phys_mblocks[i])
        /\ phys_mblocks' = [phys_mblocks EXCEPT ![i].bitmap = @ \ Run(s, n)]
        /\ held' = held \cup {RunOf(i, s, n)}
    BY AllocateTakesFreeRun
<1>2. n \in Nat \ {0} /\ Run(s, n) \subseteq CallersPages(i)
      /\ Run(s, n) \cap HeldPages(i) = {}
    BY <1>1, FreeRunIsNobodys
<1>3. s + n <= NumPages(MemMap[i])
    BY <1>2, RunEnds DEF PagesInv
<1> DEFINE u == Covered(MemMap[i])
           a == Address(phys_mblocks[i], s)
           x == n * PAGE_SIZE
           b == [address |-> a, size |-> x]
<1>4. a \in Nat /\ x \in Nat \ {0} /\ u.address \in Nat /\ u.size \in Nat
      /\ u.address <= a /\ a + x <= End(u)
    BY <1>2, <1>3, BlockOfRun DEF PagesInv
<1>5. \A j \in Managers : \A p \in Nat :
        Address(phys_mblocks'[j], p) = Address(phys_mblocks[j], p)
    <2>1. \A j \in Managers : phys_mblocks'[j].base_address = phys_mblocks[j].base_address
        <3>1. \A j \in Managers :
            phys_mblocks[j] \in [base_address : Nat, num_pages : Nat, bitmap : SUBSET Nat]
            BY DEF PagesInv, ManagersInv
        <3> QED BY <1>1, <3>1 DEF Managers
    <2> QED BY <2>1 DEF Address
<1>6. HeldBlocks' = HeldBlocks \cup {b}
    <2>1. \A r \in held : RunBlock(r)' = RunBlock(r)
        BY <1>5, HeldRunFacts DEF RunBlock
    <2> DEFINE q == RunOf(i, s, n)
    <2>2. RunBlock(q)' = b
        BY <1>5 DEF RunBlock, RunOf
    <2>3. HeldBlocks = {RunBlock(r) : r \in held} /\ HeldBlocks' = {RunBlock(r)' : r \in held'}
        BY DEF HeldBlocks, RunBlock
    <2> HIDE DEF q, b
    <2> QED BY <1>1, <2>1, <2>2, <2>3 DEF q
<1>7. \A h \in HeldBlocks : Disjoint(b, h)
    <2> SUFFICES ASSUME NEW r \in held PROVE Disjoint(b, RunBlock(r))
        BY DEF HeldBlocks, RunBlock
    <2>1. i = r.manager => Run(s, n) \cap Run(r.first, r.pages) = {}
        BY <1>2 DEF HeldPages
    <2> QED BY <1>2, <1>3, <2>1, HeldRunFacts, BlocksOfRunsDisjoint DEF RunBlock, PagesInv
<1>8. u \in CoveredBlocks
    BY ManagerFacts DEF CoveredBlocks, PagesInv
<1>9. a \in u.address .. End(u) - 1 /\ x \in 1 .. End(u) - a
    <2> HIDE DEF a, x, u
    <2> QED BY <1>4 DEF End
<1> HIDE DEF a, x, u
<1> QED BY <1>6, <1>7, <1>8, <1>9
        DEF Held!Allocate, Held!Disjoint, Held!End, Disjoint, End

LEMMA FreeRefinesAllocator ==
    ASSUME PagesInv, NEW r \in held, FreeRun(r)
    PROVE  Held!Free
<1>1. /\ phys_mblocks' = [phys_mblocks EXCEPT ![r.manager].bitmap = @ \cup Run(r.first, r.pages)]
      /\ held' = held \ {r}
    BY FreeFindsRun DEF FreeRun
<1>2. \A j \in Managers : \A p \in Nat :
        Address(phys_mblocks'[j], p) = Address(phys_mblocks[j], p)
    <2>1. \A j \in Managers : phys_mblocks'[j].base_address = phys_mblocks[j].base_address
        <3>1. \A j \in Managers :
            phys_mblocks[j] \in [base_address : Nat, num_pages : Nat, bitmap : SUBSET Nat]
            BY DEF PagesInv, ManagersInv
        <3> QED BY <1>1, <3>1, HeldRunFacts DEF Managers
    <2> QED BY <2>1 DEF Address
<1>3. \A q \in held : RunBlock(q)' = RunBlock(q)
    BY <1>2, HeldRunFacts DEF RunBlock
<1>4. \A q \in held : q # r => RunBlock(q) # RunBlock(r)
    <2> SUFFICES ASSUME NEW q \in held, q # r, RunBlock(q) = RunBlock(r) PROVE FALSE
        OBVIOUS
    <2>1. q.manager = r.manager => Run(q.first, q.pages) \cap Run(r.first, r.pages) = {}
        BY DEF PagesInv, HeldInv, Overlap
    <2>2. Disjoint(RunBlock(q), RunBlock(r))
        BY <2>1, HeldRunFacts, BlocksOfRunsDisjoint DEF RunBlock, PagesInv
    <2>3. RunBlock(r).address \in Nat /\ RunBlock(r).size \in Nat \ {0}
        BY HeldRunFacts, BlockOfRun DEF RunBlock, PagesInv
    <2> QED BY <2>2, <2>3 DEF Disjoint, End
<1>5. HeldBlocks = {RunBlock(q) : q \in held} /\ HeldBlocks' = {RunBlock(q)' : q \in held'}
    BY DEF HeldBlocks, RunBlock
<1>6. HeldBlocks' = HeldBlocks \ {RunBlock(r)} /\ RunBlock(r) \in HeldBlocks
    BY <1>1, <1>3, <1>4, <1>5
<1> QED BY <1>6 DEF Held!Free

LEMMA PagesRefineAllocator ==
    ASSUME PagesInv, [Next]_vars
    PROVE  [Held!Next]_HeldBlocks
<1>1. Runs \subseteq Nat
    BY PageAssumption
<1>2. CASE Setup
    <2>1. held = {} /\ held' = {}
        BY <1>2 DEF Setup, PagesInv, HeldInv
    <2> QED BY <2>1 DEF HeldBlocks
<1>3. ASSUME NEW n \in Nat, Allocate(n) PROVE Held!Next
    BY <1>3, AllocateRefines DEF Held!Next
<1>4. ASSUME NEW r \in held, FreeRun(r) PROVE Held!Next
    BY <1>4, FreeRefinesAllocator DEF Held!Next
<1>5. CASE UNCHANGED vars
    BY <1>5 DEF vars, HeldBlocks
<1> QED BY <1>1, <1>2, <1>3, <1>4, <1>5
        DEF Next, bitmap_allocate_page, bitmap_allocate_pages, bitmap_free_page, bitmap_free_pages

\* The page allocator is an allocator: what it hands out overlaps nothing
\* another caller has and lies in memory its managers cover.
THEOREM PhysImplementsAllocator == Spec => ImplementsAllocator
<1>1. Init => Held!Init
    BY DEF Init, Held!Init, HeldBlocks
<1> QED BY <1>1, InitPagesInv, PagesStep, PagesRefineAllocator, PTL DEF Spec, ImplementsAllocator, Held!Spec

-----------------------------------------------------------------------------
(* The scan of the page allocator.                                         *)

\* The scan after k pages, when g is what it was after fewer.
AfterPages(m, n, g, k) ==
    IF k = 0 THEN [count |-> 0, found |-> -1]
    ELSE IF g[k - 1].found # -1 THEN g[k - 1]
    ELSE IF k - 1 \notin m.bitmap THEN [count |-> 0, found |-> -1]
    ELSE [count |-> g[k - 1].count + 1,
          found |-> IF g[k - 1].count + 1 = n THEN k - n ELSE -1]

\* The recursive definition of the scan has a solution: were there a least number
\* of pages for which it has none, the solution for one page less could be
\* extended.
LEMMA ScanExists ==
    ASSUME NEW m, NEW n, m.num_pages \in Nat
    PROVE  \E g : g = [k \in 0 .. m.num_pages |-> AfterPages(m, n, g, k)]
<1> DEFINE Bad == {j \in 0 .. m.num_pages : ~ \E g : g = [k \in 0 .. j |-> AfterPages(m, n, g, k)]}
<1>1. SUFFICES ASSUME Bad # {} PROVE FALSE
    OBVIOUS
<1>2. Bad \subseteq Nat
    OBVIOUS
<1>3. PICK j \in Bad : \A x \in Bad : j <= x
    BY <1>1, <1>2, LeastExists
<1>4. j # 0
    <2>1. SUFFICES ASSUME j = 0 PROVE FALSE
        OBVIOUS
    <2> DEFINE f == [k \in 0 .. 0 |-> [count |-> 0, found |-> -1]]
    <2>2. f = [k \in 0 .. 0 |-> AfterPages(m, n, f, k)]
        BY DEF AfterPages
    <2> QED BY <2>1, <2>2
<1>5. PICK g : g = [k \in 0 .. (j - 1) |-> AfterPages(m, n, g, k)]
    <2>1. j - 1 \in 0 .. m.num_pages /\ j - 1 \notin Bad
        BY <1>2, <1>3, <1>4
    <2> QED BY <2>1
<1> DEFINE f == [k \in 0 .. j |-> IF k = j THEN AfterPages(m, n, g, k) ELSE g[k]]
<1>6. f = [k \in 0 .. j |-> AfterPages(m, n, f, k)]
    <2>1. j \in Nat \ {0}
        BY <1>2, <1>3, <1>4
    <2>2. ASSUME NEW k \in 0 .. j PROVE f[k] = AfterPages(m, n, f, k)
        <3>1. k # 0 => k - 1 \in 0 .. j - 1 /\ k - 1 \in 0 .. j /\ k - 1 # j
            BY <2>1
        <3>2. k # 0 => f[k - 1] = g[k - 1]
            BY <3>1
        <3>3. AfterPages(m, n, f, k) = AfterPages(m, n, g, k)
            BY <3>2 DEF AfterPages
        <3>4. k # j => k \in 0 .. j - 1
            BY <2>1
        <3>5. k # j => g[k] = AfterPages(m, n, g, k)
            BY <3>4, <1>5
        <3> QED BY <3>3, <3>5
    <2>3. f = [k \in 0 .. j |-> f[k]]
        OBVIOUS
    <2> HIDE DEF f
    <2> QED BY <2>2, <2>3
<1> QED BY <1>6, <1>3

LEMMA CountedUnfolds ==
    ASSUME NEW m, NEW n, m.num_pages \in Nat, NEW k \in 0 .. m.num_pages
    PROVE  Counted(m, n)[k] = AfterPages(m, n, Counted(m, n), k)
<1>1. Counted(m, n) = CHOOSE g : g = [j \in 0 .. m.num_pages |-> AfterPages(m, n, g, j)]
    BY Zenon DEF Counted, AfterPages
<1>2. Counted(m, n) = [j \in 0 .. m.num_pages |-> AfterPages(m, n, Counted(m, n), j)]
    BY <1>1, ScanExists
<1> QED BY <1>2

\* Before it has found a run, the scan counts the free pages in front of the
\* next one, fewer than it looks for, and there is no run among the pages it has
\* passed.
Looking(m, n, c, k) ==
    /\ c.found = -1
    /\ c.count \in 0 .. k
    /\ Run(k - c.count, c.count) \subseteq m.bitmap
    /\ c.count < k => k - c.count - 1 \notin m.bitmap
    /\ n > 0 => c.count < n
    /\ \A s \in Nat : n > 0 /\ s + n <= k => ~ Run(s, n) \subseteq m.bitmap

\* Afterwards it has the first one.
Found(m, n, c, k) ==
    /\ n > 0
    /\ c.found \in Nat
    /\ c.found + n <= k
    /\ Run(c.found, n) \subseteq m.bitmap
    /\ \A s \in Nat : s < c.found => ~ Run(s, n) \subseteq m.bitmap

LEMMA ScanStep ==
    ASSUME NEW m, NEW n \in Nat, NEW g, NEW k \in Nat \ {0},
           Looking(m, n, g[k - 1], k - 1) \/ Found(m, n, g[k - 1], k - 1)
    PROVE  LET c == AfterPages(m, n, g, k) IN Looking(m, n, c, k) \/ Found(m, n, c, k)
<1> DEFINE c == g[k - 1]
           d == AfterPages(m, n, g, k)
<1>1. CASE Found(m, n, c, k - 1)
    <2>1. d = c
        BY <1>1 DEF Found, AfterPages
    <2> QED BY <1>1, <2>1 DEF Found
<1>2. CASE Looking(m, n, c, k - 1) /\ k - 1 \notin m.bitmap
    <2>1. d = [count |-> 0, found |-> -1]
        BY <1>2 DEF Looking, AfterPages
    <2>2. ASSUME NEW s \in Nat, n > 0, s + n <= k PROVE ~ Run(s, n) \subseteq m.bitmap
        <3>1. CASE s + n <= k - 1
            BY <1>2, <2>2, <3>1 DEF Looking
        <3>2. CASE s + n = k
            <4>1. k - 1 \in Run(s, n)
                BY <2>2, <3>2 DEF Run
            <4> QED BY <4>1, <1>2
        <3> QED BY <2>2, <3>1, <3>2
    <2> HIDE DEF d
    <2>3. Run(k - d.count, d.count) = {}
        BY <2>1 DEF Run
    <2>4. d.found = -1 /\ d.count \in 0 .. k /\ (n > 0 => d.count < n)
        BY <2>1
    <2>5. k - d.count - 1 \notin m.bitmap
        BY <1>2, <2>1
    <2>6. Looking(m, n, d, k)
        BY <2>2, <2>3, <2>4, <2>5 DEF Looking
    <2> QED BY <2>6 DEF d
<1>3. CASE Looking(m, n, c, k - 1) /\ k - 1 \in m.bitmap
    <2> DEFINE p == c.count
    <2>1. /\ p \in 0 .. k - 1 /\ c.found = -1
          /\ Run(k - 1 - p, p) \subseteq m.bitmap
          /\ p < k - 1 => k - 1 - p - 1 \notin m.bitmap
          /\ n > 0 => p < n
          /\ \A s \in Nat : n > 0 /\ s + n <= k - 1 => ~ Run(s, n) \subseteq m.bitmap
        BY <1>3 DEF Looking
    <2>2. d = [count |-> p + 1, found |-> IF p + 1 = n THEN k - n ELSE -1]
        BY <1>3, <2>1 DEF AfterPages
    <2> HIDE DEF c, d, p
    <2>3. Run(k - (p + 1), p + 1) \subseteq m.bitmap
        <3>1. ASSUME NEW x \in Run(k - (p + 1), p + 1) PROVE x = k - 1 \/ x \in Run(k - 1 - p, p)
            BY <2>1 DEF Run
        <3> QED BY <3>1, <2>1, <1>3
    <2>4. CASE p + 1 = n
        <3>1. d.found = k - n
            BY <2>2, <2>4
        <3>2. n > 0 /\ k - n \in Nat /\ (k - n) + n <= k
            BY <2>1, <2>4
        <3>3. Run(k - n, n) \subseteq m.bitmap
            BY <2>3, <2>4
        <3>4. ASSUME NEW s \in Nat, s < k - n PROVE ~ Run(s, n) \subseteq m.bitmap
            BY <2>1, <3>2, <3>4
        <3> QED BY <3>1, <3>2, <3>3, <3>4 DEF Found, d, c
    <2>5. CASE p + 1 # n
        <3>1. d.found = -1 /\ d.count = p + 1 /\ p + 1 \in 0 .. k
            BY <2>1, <2>2, <2>5
        <3>2. p + 1 < k => k - (p + 1) - 1 \notin m.bitmap
            BY <2>1
        <3>3. n > 0 => p + 1 < n
            BY <2>1, <2>5
        <3>4. ASSUME NEW s \in Nat, n > 0, s + n <= k PROVE ~ Run(s, n) \subseteq m.bitmap
            <4>1. CASE s + n <= k - 1
                BY <2>1, <3>4, <4>1
            <4>2. CASE s + n = k
                <5>1. k - (p + 1) - 1 \in Run(s, n) /\ p + 1 < k
                    BY <2>1, <3>3, <3>4, <4>2 DEF Run
                <5> QED BY <5>1, <3>2
            <4> QED BY <3>4, <4>1, <4>2
        <3> QED BY <3>1, <3>2, <3>3, <3>4, <2>3 DEF Looking, d, c
    <2> QED BY <2>4, <2>5
<1> QED BY <1>1, <1>2, <1>3

LEMMA ScanLooksOrFound ==
    ASSUME NEW m, NEW n \in Nat, m.num_pages \in Nat
    PROVE  \A k \in 0 .. m.num_pages :
               Looking(m, n, Counted(m, n)[k], k) \/ Found(m, n, Counted(m, n)[k], k)
<1> DEFINE c == Counted(m, n)
           Bad == {k \in 0 .. m.num_pages : ~ (Looking(m, n, c[k], k) \/ Found(m, n, c[k], k))}
<1>1. SUFFICES ASSUME Bad # {} PROVE FALSE
    OBVIOUS
<1>2. PICK k \in Bad : \A j \in Bad : k <= j
    <2>1. Bad \subseteq Nat
        OBVIOUS
    <2> HIDE DEF Bad
    <2> QED BY <1>1, <2>1, LeastExists
<1>3. k \in 0 .. m.num_pages /\ c[k] = AfterPages(m, n, c, k)
    BY CountedUnfolds
<1> HIDE DEF c
<1>4. CASE k = 0
    <2>1. c[k] = [count |-> 0, found |-> -1]
        BY <1>3, <1>4 DEF AfterPages
    <2>2. \A s \in Nat : n > 0 => ~ s + n <= 0
        OBVIOUS
    <2>3. Run(0 - 0, 0) = {}
        BY DEF Run
    <2>4. Looking(m, n, c[k], k)
        BY <1>4, <2>1, <2>2, <2>3 DEF Looking
    <2> QED BY <2>4
<1>5. CASE k # 0
    <2>1. k \in Nat \ {0} /\ k - 1 \in 0 .. m.num_pages /\ k - 1 \notin Bad
        BY <1>2, <1>3, <1>5
    <2> QED BY <1>3, <2>1, ScanStep
<1> QED BY <1>4, <1>5

LEMMA ScanFindsFirst ==
    ASSUME NEW m, NEW n \in Nat, m.num_pages \in Nat
    PROVE  LET free == FreeRuns(m, n)
           IN  Scan(m, n) = IF free = {} THEN -1 ELSE Min(free)
<1> DEFINE p == m.num_pages
           c == Counted(m, n)[p]
           free == FreeRuns(m, n)
<1>1. Looking(m, n, c, p) \/ Found(m, n, c, p)
    BY ScanLooksOrFound
<1>2. Scan(m, n) = c.found
    BY DEF Scan
<1>3. ASSUME NEW s \in free
      PROVE  s \in Nat /\ n > 0 /\ s + n <= p /\ Run(s, n) \subseteq m.bitmap
    <2>1. s \in Nat /\ n > 0 /\ Run(s, n) \subseteq m.bitmap /\ Run(s, n) \subseteq 0 .. p - 1
        BY <1>3 DEF FreeRuns, PagesOf
    <2>2. s + n - 1 \in Run(s, n)
        BY <2>1 DEF Run
    <2>3. s + n - 1 <= p - 1
        BY <2>1, <2>2
    <2> QED BY <2>1, <2>3
<1> HIDE DEF c
<1>4. CASE Looking(m, n, c, p)
    <2>1. free = {}
        BY <1>3, <1>4 DEF Looking
    <2> QED BY <1>2, <1>4, <2>1 DEF Looking
<1>5. CASE Found(m, n, c, p)
    <2>1. c.found \in free
        <3>1. c.found \in Nat /\ n > 0 /\ c.found + n <= p /\ Run(c.found, n) \subseteq m.bitmap
            BY <1>5 DEF Found
        <3>2. Run(c.found, n) \subseteq 0 .. p - 1 /\ c.found \in 0 .. p - 1
            BY <3>1 DEF Run
        <3> QED BY <3>1, <3>2 DEF FreeRuns, PagesOf
    <2>2. \A s \in free : c.found <= s
        BY <1>3, <1>5 DEF Found
    <2> HIDE DEF free
    <2>3. free \subseteq Nat /\ free # {}
        BY <1>3, <2>1
    <2>4. Min(free) \in free /\ Min(free) <= c.found
        BY <2>1, <2>3, MinOf
    <2>5. Min(free) = c.found
        <3> DEFINE a == Min(free)
                   b == c.found
        <3>1. a \in Nat /\ b \in Nat /\ a <= b /\ b <= a
            BY <2>1, <2>2, <2>3, <2>4
        <3> HIDE DEF a, b
        <3>2. a = b
            BY <3>1
        <3> QED BY <3>2 DEF a, b
    <2> QED BY <1>2, <2>1, <2>5 DEF free
<1> QED BY <1>1, <1>4, <1>5

\* The scans return the first run of free pages, or -1 when there is none, on
\* every bitmap the allocator reaches.
THEOREM PhysScanFindsFirstRun == Spec => []ScanFindsFirstRun
<1>1. ASSUME PagesInv PROVE ScanFindsFirstRun
    <2>1. ASSUME NEW i \in Managers PROVE phys_mblocks[i].num_pages \in Nat
        BY <1>1 DEF PagesInv, ManagersInv
    <2>2. Runs \cup {0, 1} \subseteq Nat
        BY PageAssumption
    <2> QED BY <2>1, <2>2, ScanFindsFirst DEF ScanFindsFirstRun
<1> QED BY <1>1, InitPagesInv, PagesStep, PTL DEF Spec

-----------------------------------------------------------------------------
(* The block manager: what PmmProofs proves of module Pmm holds of Lists.  *)

ListProofs == INSTANCE PmmProofs WITH MemMap <- BlockMap

LEMMA SameFree ==
    \A address : Lists!FreeMemory(address) <=> ListProofs!FreeMemory(address)
<1>1. \A address, size : Lists!MergeInFront(address, size) <=> ListProofs!MergeInFront(address, size)
    BY Zenon DEF Lists!MergeInFront, ListProofs!MergeInFront, Lists!Found, ListProofs!Found,
            Lists!InFront, ListProofs!InFront, Lists!FreeSlots, ListProofs!FreeSlots, Lists!End,
            ListProofs!End, Lists!Max, ListProofs!Max
<1>2. \A address, size : Lists!MergeBehind(address, size) <=> ListProofs!MergeBehind(address, size)
    BY Zenon DEF Lists!MergeBehind, ListProofs!MergeBehind, Lists!Found, ListProofs!Found,
            Lists!InFront, ListProofs!InFront, Lists!Behind, ListProofs!Behind, Lists!FreeSlots,
            ListProofs!FreeSlots, Lists!End, ListProofs!End, Lists!Max, ListProofs!Max
<1>3. \A address, size : Lists!InsertFreed(address, size) <=> ListProofs!InsertFreed(address, size)
    BY Zenon DEF Lists!InsertFreed, ListProofs!InsertFreed, Lists!Found, ListProofs!Found,
            Lists!InFront, ListProofs!InFront, Lists!Behind, ListProofs!Behind, Lists!FreeSlots,
            ListProofs!FreeSlots, Lists!End, ListProofs!End, Lists!Max, ListProofs!Max,
            Lists!Slots, ListProofs!Slots
<1>4. \A address, blocks : /\ Lists!FindBlock(address, blocks) = ListProofs!FindBlock(address, blocks)
                           /\ Lists!RemoveBlock(address, blocks) = ListProofs!RemoveBlock(address, blocks)
    BY Zenon DEF Lists!FindBlock, ListProofs!FindBlock, Lists!StartsFirst, ListProofs!StartsFirst,
            Lists!RemoveBlock, ListProofs!RemoveBlock, Lists!Slots, ListProofs!Slots, Lists!Empty,
            ListProofs!Empty
<1> QED BY <1>1, <1>2, <1>3, <1>4 DEF Lists!FreeMemory, ListProofs!FreeMemory

LEMMA SameSteps == Lists!Next <=> ListProofs!Next
<1>1. (Lists!BeginInit <=> ListProofs!BeginInit) /\ (Lists!InitEntry <=> ListProofs!InitEntry)
    BY Zenon DEF Lists!BeginInit, ListProofs!BeginInit, Lists!InitEntry, ListProofs!InitEntry,
            Lists!lists, ListProofs!lists, Lists!Region, ListProofs!Region, Lists!EntryBlock,
            ListProofs!EntryBlock
<1>2. \A size : Lists!AllocateMemory(size) <=> ListProofs!AllocateMemory(size)
    BY Zenon DEF Lists!AllocateMemory, ListProofs!AllocateMemory, Lists!FirstFit, ListProofs!FirstFit,
            Lists!Fits, ListProofs!Fits, Lists!Carve, ListProofs!Carve, Lists!HandOut,
            ListProofs!HandOut, Lists!Cardinality, ListProofs!Cardinality, Lists!Ready,
            ListProofs!Ready, Lists!Slots, ListProofs!Slots, Lists!FreeSlots, ListProofs!FreeSlots
<1>3. \A alignment, size : Lists!AlignedAlloc(alignment, size) <=> ListProofs!AlignedAlloc(alignment, size)
    BY Zenon DEF Lists!AlignedAlloc, ListProofs!AlignedAlloc, Lists!FirstFit, ListProofs!FirstFit,
            Lists!Fits, ListProofs!Fits, Lists!Carve, ListProofs!Carve, Lists!HandOut,
            ListProofs!HandOut, Lists!Cardinality, ListProofs!Cardinality, Lists!Ready,
            ListProofs!Ready, Lists!Slots, ListProofs!Slots, Lists!FreeSlots, ListProofs!FreeSlots,
            Lists!IsPowerOfTwo, ListProofs!IsPowerOfTwo, Lists!EffectiveAlignment,
            ListProofs!EffectiveAlignment, Lists!Padded, ListProofs!Padded, Lists!AlignedAddress,
            ListProofs!AlignedAddress, Lists!Word, ListProofs!Word, Lists!Store, ListProofs!Store,
            Lists!Disjoint, ListProofs!Disjoint, Lists!End, ListProofs!End
<1>4. \A g : /\ Lists!FreeGrant(g) <=> ListProofs!FreeGrant(g)
             /\ Lists!AlignedFree(g) <=> ListProofs!AlignedFree(g)
    BY SameFree DEF Lists!FreeGrant, ListProofs!FreeGrant, Lists!AlignedFree, ListProofs!AlignedFree,
            Lists!MarkFreed, ListProofs!MarkFreed, Lists!Ready, ListProofs!Ready, Lists!Aligned,
            ListProofs!Aligned, Lists!UsedSlots, ListProofs!UsedSlots
<1>5. \A g : Lists!ClientWrite(g) <=> ListProofs!ClientWrite(g)
    BY Zenon DEF Lists!ClientWrite, ListProofs!ClientWrite, Lists!lists, ListProofs!lists, Lists!Word,
            ListProofs!Word, Lists!Disjoint, ListProofs!Disjoint, Lists!End, ListProofs!End
<1>6. \A address : Lists!Reclaim(address) <=> ListProofs!Reclaim(address)
    BY SameFree DEF Lists!Reclaim, ListProofs!Reclaim, Lists!Ready, ListProofs!Ready
<1> QED BY <1>1, <1>2, <1>3, <1>4, <1>5, <1>6 DEF Lists!Next, ListProofs!Next

\* However reserved regions are freed, free list and handed out blocks have no
\* more bytes than the memory they come from.
LEMMA ListsAccountBytes ==
    ASSUME MaxInits = 1
    PROVE  Lists!Spec => []Lists!FreeBytesAccounted
<1>1. ListProofs!Spec => []ListProofs!FreeBytesAccounted
    BY ListProofs!PmmFreeBytesAccounted, BlocksAssumption
       DEF IsMemoryMap, MapEntry, EntryBlock, Disjoint, End, ListProofs!IsMemoryMap,
           ListProofs!MapEntry, ListProofs!EntryBlock, ListProofs!Disjoint, ListProofs!End
<1>2. Lists!Init <=> ListProofs!Init
    BY DEF Lists!Init, ListProofs!Init, Lists!Slots, ListProofs!Slots, Lists!Empty,
            ListProofs!Empty
<1>3. Lists!FreeBytesAccounted <=> ListProofs!FreeBytesAccounted
    BY DEF Lists!FreeBytesAccounted, ListProofs!FreeBytesAccounted, Lists!Ready, ListProofs!Ready,
            Lists!FreeBytes, ListProofs!FreeBytes, Lists!GrantedBytes, ListProofs!GrantedBytes,
            Lists!RegionBytes, ListProofs!RegionBytes, Lists!UsableEntries,
            ListProofs!UsableEntries, Lists!ReclaimedEntries, ListProofs!ReclaimedEntries,
            Lists!Total, ListProofs!Total, Lists!FreeSlots, ListProofs!FreeSlots, Lists!UsedSlots,
            ListProofs!UsedSlots, Lists!Region, ListProofs!Region, Lists!EntryBlock,
            ListProofs!EntryBlock, Lists!MapThenSumSet, ListProofs!MapThenSumSet,
            Lists!MapThenFoldSet, ListProofs!MapThenFoldSet
<1> QED BY <1>1, <1>2, <1>3, SameSteps, PTL DEF Lists!Spec, ListProofs!Spec, Lists!vars, ListProofs!vars

-----------------------------------------------------------------------------
(* The C library.  A loop is a recursive function: an explicit one solves  *)
(* its equation, or the least place where it does not is refuted.          *)

\* The addresses of the small memory.
LEMMA CLibSizes == MemorySize \in Nat /\ Library!Addresses = 0 .. MemorySize - 1
    BY CharsAssumption DEF Library!Addresses

\* The first i bytes moved at once.
LEMMA MovedByte ==
    ASSUME NEW m \in [Library!Addresses -> Nat], NEW d, NEW s, NEW n
    PROVE  /\ Library!Moved(m, d, s, n) = [a \in Library!Addresses |-> Library!Moved(m, d, s, n)[a]]
           /\ \A a \in Library!Addresses :
                  Library!Moved(m, d, s, n)[a] = IF a \in d .. d + n - 1 THEN m[a - d + s] ELSE m[a]
BY DEF Library!Moved

\* Upwards copies to where nothing of the source is overwritten before it is read.
LEMMA UpwardsMoves ==
    ASSUME NEW m \in [Library!Addresses -> Nat],
           NEW d \in Library!Addresses, NEW s \in Library!Addresses, NEW n \in Nat,
           d + n <= MemorySize, s + n <= MemorySize, d <= s \/ s + n <= d
    PROVE  Library!Upwards(m, d, s, n) = Library!Moved(m, d, s, n)
<1> DEFINE Step(f, i) == IF i = 0 THEN m
                         ELSE [f[i - 1] EXCEPT ![d + i - 1] = f[i - 1][s + i - 1]]
           moved(i) == Library!Moved(m, d, s, i)
           f == [i \in 0 .. n |-> moved(i)]
<1>1. d \in Nat /\ s \in Nat /\ n \in Nat
    BY CLibSizes
<1>2. moved(0) = m
    <2>1. \A a \in Library!Addresses : moved(0)[a] = m[a]
        BY <1>1, MovedByte
    <2>2. moved(0) = [a \in Library!Addresses |-> moved(0)[a]]
        BY MovedByte
    <2> HIDE DEF moved
    <2> QED BY <2>1, <2>2
<1>3. ASSUME NEW i \in 1 .. n
      PROVE  moved(i) = [moved(i - 1) EXCEPT ![d + i - 1] = moved(i - 1)[s + i - 1]]
    <2> DEFINE before == moved(i - 1)
               after == moved(i)
    <2>1. d + i - 1 \in Library!Addresses /\ s + i - 1 \in Library!Addresses
        BY <1>1, CLibSizes
    <2>2. before[s + i - 1] = m[s + i - 1]
        <3>1. s + i - 1 \notin d .. d + (i - 1) - 1
            BY <1>1
        <3> QED BY <2>1, <3>1, MovedByte
    <2>3. ASSUME NEW a \in Library!Addresses
          PROVE  after[a] = IF a = d + i - 1 THEN m[s + i - 1] ELSE before[a]
        <3>1. after[a] = IF a \in d .. d + i - 1 THEN m[a - d + s] ELSE m[a]
            BY MovedByte
        <3>2. before[a] = IF a \in d .. d + (i - 1) - 1 THEN m[a - d + s] ELSE m[a]
            BY MovedByte
        <3>3. a \in Nat
            BY CLibSizes
        <3>4. a = d + i - 1 => a - d + s = s + i - 1 /\ a \in d .. d + i - 1
            BY <1>1, <3>3
        <3>5. a # d + i - 1 => (a \in d .. d + i - 1 <=> a \in d .. d + (i - 1) - 1)
            BY <1>1, <3>3
        <3> HIDE DEF before, after
        <3> QED BY <3>1, <3>2, <3>4, <3>5
    <2>4. after = [a \in Library!Addresses |-> after[a]] /\ before = [a \in Library!Addresses |-> before[a]]
        BY MovedByte
    <2> HIDE DEF before, after
    <2>5. after = [before EXCEPT ![d + i - 1] = before[s + i - 1]]
        BY <2>1, <2>2, <2>3, <2>4
    <2> QED BY <2>5 DEF before, after
<1> HIDE DEF moved
<1>4. f = [i \in 0 .. n |-> Step(f, i)]
    <2>1. ASSUME NEW i \in 0 .. n PROVE f[i] = Step(f, i)
        <3>1. CASE i = 0
            BY <3>1, <1>2
        <3>2. CASE i # 0
            <4>1. i \in 1 .. n /\ i - 1 \in 0 .. n
                BY <3>2
            <4>2. f[i - 1] = moved(i - 1) /\ f[i] = moved(i)
                BY <4>1
            <4> HIDE DEF f
            <4> QED BY <3>2, <4>1, <4>2, <1>3
        <3> QED BY <3>1, <3>2
    <2> QED BY <2>1
<1> DEFINE copy == CHOOSE c : c = [i \in 0 .. n |-> Step(c, i)]
<1> HIDE DEF f
<1>5. Library!Upwards(m, d, s, n) = copy[n]
    BY Zenon DEF Library!Upwards
<1>6. copy = [i \in 0 .. n |-> Step(copy, i)]
    BY <1>4
<1> HIDE DEF copy
<1>7. copy[0] = m /\ \A i \in 1 .. n : copy[i] = [copy[i - 1] EXCEPT ![d + i - 1] = copy[i - 1][s + i - 1]]
    <2>1. \A i \in 0 .. n : copy[i] = Step(copy, i)
        BY <1>6
    <2>2. 0 \in 0 .. n /\ \A i \in 1 .. n : i \in 0 .. n /\ i # 0
        OBVIOUS
    <2> QED BY <2>1, <2>2
<1> DEFINE Bad == {i \in 0 .. n : copy[i] # moved(i)}
<1>8. Bad = {}
    <2>1. SUFFICES ASSUME Bad # {} PROVE FALSE
        OBVIOUS
    <2>2. PICK i \in Bad : \A j \in Bad : i <= j
        <3>1. Bad \subseteq Nat
            OBVIOUS
        <3> HIDE DEF Bad
        <3> QED BY <2>1, <3>1, LeastExists
    <2>3. i # 0 /\ i \in 0 .. n
        BY <1>2, <1>7
    <2>4. i \in 1 .. n /\ i - 1 \in 0 .. n /\ i - 1 \notin Bad
        BY <2>2, <2>3
    <2> QED BY <2>4, <1>3, <1>7
<1>9. copy[n] = moved(n)
    BY <1>8
<1> QED BY <1>5, <1>9 DEF moved

\* Downwards likewise.
LEMMA DownwardsMoves ==
    ASSUME NEW m \in [Library!Addresses -> Nat],
           NEW d \in Library!Addresses, NEW s \in Library!Addresses, NEW n \in Nat,
           d + n <= MemorySize, s + n <= MemorySize, s <= d
    PROVE  Library!Downwards(m, d, s, n) = Library!Moved(m, d, s, n)
<1> DEFINE Step(f, i) == IF i = n THEN m
                         ELSE [f[i + 1] EXCEPT ![d + i] = f[i + 1][s + i]]
           \* The bytes from the i-th on are moved.
           moved(i) == Library!Moved(m, d + i, s + i, n - i)
           f == [i \in 0 .. n |-> moved(i)]
<1>1. d \in Nat /\ s \in Nat /\ n \in Nat
    BY CLibSizes
<1>2. moved(n) = m
    <2>1. \A a \in Library!Addresses : moved(n)[a] = m[a]
        BY <1>1, MovedByte
    <2>2. moved(n) = [a \in Library!Addresses |-> moved(n)[a]]
        BY MovedByte
    <2> HIDE DEF moved
    <2> QED BY <2>1, <2>2
<1>3. ASSUME NEW i \in 0 .. n - 1
      PROVE  moved(i) = [moved(i + 1) EXCEPT ![d + i] = moved(i + 1)[s + i]]
    <2> DEFINE before == moved(i + 1)
               after == moved(i)
    <2>1. d + i \in Library!Addresses /\ s + i \in Library!Addresses
        BY <1>1, CLibSizes
    <2>2. before[s + i] = m[s + i]
        <3>1. s + i \notin d + (i + 1) .. d + (i + 1) + (n - (i + 1)) - 1
            BY <1>1
        <3> QED BY <2>1, <3>1, MovedByte
    <2>3. ASSUME NEW a \in Library!Addresses
          PROVE  after[a] = IF a = d + i THEN m[s + i] ELSE before[a]
        <3>1. after[a] = IF a \in d + i .. d + i + (n - i) - 1 THEN m[a - (d + i) + (s + i)] ELSE m[a]
            BY MovedByte
        <3>2. before[a] = IF a \in d + (i + 1) .. d + (i + 1) + (n - (i + 1)) - 1
                          THEN m[a - (d + (i + 1)) + (s + (i + 1))] ELSE m[a]
            BY MovedByte
        <3>3. a \in Nat
            BY CLibSizes
        <3>4. a = d + i => a - (d + i) + (s + i) = s + i /\ a \in d + i .. d + i + (n - i) - 1
            BY <1>1, <3>3
        <3>5. a # d + i => (a \in d + i .. d + i + (n - i) - 1
                            <=> a \in d + (i + 1) .. d + (i + 1) + (n - (i + 1)) - 1)
            BY <1>1, <3>3
        <3>6. a - (d + i) + (s + i) = a - (d + (i + 1)) + (s + (i + 1))
            BY <1>1, <3>3
        <3> HIDE DEF before, after
        <3> QED BY <3>1, <3>2, <3>4, <3>5, <3>6
    <2>4. after = [a \in Library!Addresses |-> after[a]] /\ before = [a \in Library!Addresses |-> before[a]]
        BY MovedByte
    <2> HIDE DEF before, after
    <2>5. after = [before EXCEPT ![d + i] = before[s + i]]
        BY <2>1, <2>2, <2>3, <2>4
    <2> QED BY <2>5 DEF before, after
<1>4. moved(0) = Library!Moved(m, d, s, n)
    BY <1>1
<1> HIDE DEF moved
<1>5. f = [i \in 0 .. n |-> Step(f, i)]
    <2>1. ASSUME NEW i \in 0 .. n PROVE f[i] = Step(f, i)
        <3>1. CASE i = n
            BY <3>1, <1>2
        <3>2. CASE i # n
            <4>1. i \in 0 .. n - 1 /\ i + 1 \in 0 .. n
                BY <3>2
            <4>2. f[i + 1] = moved(i + 1) /\ f[i] = moved(i)
                BY <4>1
            <4> HIDE DEF f
            <4> QED BY <3>2, <4>1, <4>2, <1>3
        <3> QED BY <3>1, <3>2
    <2> QED BY <2>1
<1> DEFINE copy == CHOOSE c : c = [i \in 0 .. n |-> Step(c, i)]
<1> HIDE DEF f
<1>6. Library!Downwards(m, d, s, n) = copy[0]
    BY Zenon DEF Library!Downwards
<1>7. copy = [i \in 0 .. n |-> Step(copy, i)]
    BY <1>5
<1> HIDE DEF copy
<1>8. copy[n] = m /\ \A i \in 0 .. n - 1 : copy[i] = [copy[i + 1] EXCEPT ![d + i] = copy[i + 1][s + i]]
    <2>1. \A i \in 0 .. n : copy[i] = Step(copy, i)
        BY <1>7
    <2>2. n \in 0 .. n /\ \A i \in 0 .. n - 1 : i \in 0 .. n /\ i # n
        OBVIOUS
    <2> QED BY <2>1, <2>2
<1> DEFINE Bad == {j \in 0 .. n : copy[n - j] # moved(n - j)}
<1>9. Bad = {}
    <2>1. SUFFICES ASSUME Bad # {} PROVE FALSE
        OBVIOUS
    <2>2. PICK j \in Bad : \A k \in Bad : j <= k
        <3>1. Bad \subseteq Nat
            OBVIOUS
        <3> HIDE DEF Bad
        <3> QED BY <2>1, <3>1, LeastExists
    <2>3. j # 0 /\ j \in 0 .. n
        BY <1>2, <1>8
    <2>4. n - j \in 0 .. n - 1 /\ j - 1 \in 0 .. n /\ j - 1 \notin Bad /\ n - (j - 1) = (n - j) + 1
        BY <2>2, <2>3
    <2> QED BY <2>4, <1>3, <1>8
<1>10. n \notin Bad /\ n - n = 0
    BY <1>9
<1> QED BY <1>4, <1>6, <1>10

\* A loop that looks at the numbers from lo to hi - 1 until it meets one of S,
\* and gives what v has for that one, or end: c has what it gives from each.
LooksFor(S, v, end, hi, c, i) == IF i = hi THEN end ELSE IF i \in S THEN v[i] ELSE c[i + 1]

Searches(c, S, v, end, lo, hi) == c = [i \in lo .. hi |-> LooksFor(S, v, end, hi, c, i)]

\* Such a search has a result at every place.
LEMMA SearchExists ==
    ASSUME NEW lo \in Nat, NEW hi \in Nat, NEW S, NEW v, NEW end
    PROVE  \E c : Searches(c, S, v, end, lo, hi)
<1> DEFINE rest(i) == {j \in i .. hi - 1 : j \in S}
           least(i) == CHOOSE j \in rest(i) : \A k \in rest(i) : j <= k
           val(i) == IF rest(i) # {} THEN v[least(i)] ELSE end
           c == [i \in lo .. hi |-> val(i)]
<1>1. ASSUME NEW i \in lo .. hi
      PROVE  val(i) = IF i = hi THEN end ELSE IF i \in S THEN v[i] ELSE val(i + 1)
    <2>1. CASE i = hi
        <3>1. rest(i) = {}
            BY <2>1
        <3> HIDE DEF rest, least
        <3> QED BY <2>1, <3>1
    <2>2. CASE i # hi /\ i \in S
        <3>1. i \in rest(i) /\ rest(i) \subseteq Nat /\ \A k \in rest(i) : i <= k
            BY <2>2
        <3> HIDE DEF rest
        <3>2. least(i) \in rest(i) /\ \A k \in rest(i) : least(i) <= k
            <4>1. \E j \in rest(i) : \A k \in rest(i) : j <= k
                BY <3>1
            <4> QED BY <4>1
        <3> HIDE DEF least
        <3>3. least(i) = i
            <4>1. least(i) \in Nat /\ i \in Nat /\ i <= least(i) /\ least(i) <= i
                BY <3>1, <3>2
            <4> QED BY <4>1
        <3> QED BY <2>2, <3>1, <3>3
    <2>3. CASE i # hi /\ i \notin S
        <3>1. rest(i) = rest(i + 1)
            BY <2>3
        <3>2. val(i) = val(i + 1)
            <4> HIDE DEF rest
            <4> QED BY <3>1
        <3> HIDE DEF val
        <3> QED BY <2>3, <3>2
    <2> QED BY <2>1, <2>2, <2>3
<1> HIDE DEF val
<1>2. c = [i \in lo .. hi |-> LooksFor(S, v, end, hi, c, i)]
    <2>1. ASSUME NEW i \in lo .. hi PROVE c[i] = LooksFor(S, v, end, hi, c, i)
        <3>1. i # hi => c[i + 1] = val(i + 1)
            OBVIOUS
        <3>2. c[i] = val(i)
            OBVIOUS
        <3> HIDE DEF c
        <3> QED BY <3>1, <3>2, <1>1 DEF LooksFor
    <2> QED BY <2>1
<1> QED BY <1>2 DEF Searches

\* A search ends at the first number of S, or behind the last number.
LEMMA SearchFinds ==
    ASSUME NEW lo \in Nat, NEW hi \in Nat, lo <= hi, NEW S, NEW v, NEW end,
           NEW c, Searches(c, S, v, end, lo, hi)
    PROVE  \/ \E j \in lo .. hi - 1 : j \in S /\ c[lo] = v[j] /\ \A k \in lo .. j - 1 : k \notin S
           \/ c[lo] = end /\ \A k \in lo .. hi - 1 : k \notin S
<1>1. ASSUME NEW i \in lo .. hi PROVE c[i] = LooksFor(S, v, end, hi, c, i)
    BY DEF Searches
\* Up to the first of S the loop goes on.
<1>2. ASSUME NEW j \in lo .. hi, \A k \in lo .. j - 1 : k \notin S PROVE c[lo] = c[j]
    <2> DEFINE Bad == {p \in 0 .. j - lo : c[lo + p] # c[lo]}
    <2>1. Bad = {}
        <3>1. SUFFICES ASSUME Bad # {} PROVE FALSE
            OBVIOUS
        <3>2. PICK p \in Bad : \A q \in Bad : p <= q
            <4>1. Bad \subseteq Nat
                OBVIOUS
            <4> HIDE DEF Bad
            <4> QED BY <3>1, <4>1, LeastExists
        <3>3. p \in 1 .. j - lo
            BY <3>2
        <3>4. p - 1 \in 0 .. j - lo /\ p - 1 \notin Bad
            BY <3>2, <3>3
        <3>5. c[lo + (p - 1)] = c[lo]
            BY <3>4
        <3>6. lo + (p - 1) \in lo .. hi /\ lo + (p - 1) # hi /\ lo + (p - 1) \notin S
            BY <1>2, <3>3
        <3>7. lo + (p - 1) + 1 = lo + p
            BY <3>3
        <3>8. c[lo + (p - 1)] = c[lo + p]
            BY <1>1, <3>6, <3>7 DEF LooksFor
        <3> QED BY <3>2, <3>5, <3>8
    <2>2. j - lo \in 0 .. j - lo /\ lo + (j - lo) = j
        OBVIOUS
    <2>3. c[lo + (j - lo)] = c[lo]
        BY <2>1, <2>2
    <2> QED BY <2>2, <2>3
<1> DEFINE Met == {j \in lo .. hi - 1 : j \in S}
<1>3. CASE Met = {}
    <2>1. \A k \in lo .. hi - 1 : k \notin S
        BY <1>3
    <2>2. hi \in lo .. hi
        OBVIOUS
    <2>3. c[hi] = end
        BY <1>1, <2>2 DEF LooksFor
    <2> QED BY <1>2, <2>1, <2>2, <2>3
<1>4. CASE Met # {}
    <2>1. PICK j \in Met : \A k \in Met : j <= k
        <3>1. Met \subseteq Nat
            OBVIOUS
        <3> HIDE DEF Met
        <3> QED BY <1>4, <3>1, LeastExists
    <2>2. \A k \in lo .. j - 1 : k \notin S
        <3>1. ASSUME NEW k \in lo .. j - 1, k \in S PROVE FALSE
            <4>1. k \in Met /\ ~ (j <= k)
                BY <3>1, <2>1
            <4> QED BY <4>1, <2>1
        <3> QED BY <3>1
    <2>3. j \in lo .. hi /\ j # hi /\ j \in S
        BY <2>1
    <2>4. c[j] = v[j]
        BY <1>1, <2>3 DEF LooksFor
    <2> QED BY <1>2, <2>1, <2>2, <2>3, <2>4
<1> QED BY <1>3, <1>4

\* The length of a string: the bytes before its first 0.
LEMMA LengthOf ==
    ASSUME NEW m \in [Library!Addresses -> Nat], NEW p \in Library!Addresses,
           Library!Terminated(m, p)
    PROVE  LET n == Library!strlen(m, p) IN
           /\ n \in Nat /\ p + n \in Library!Addresses /\ m[p + n] = 0
           /\ \A i \in 0 .. n - 1 : m[p + i] # 0
<1>1. MemorySize \in Nat /\ p \in Nat /\ p < MemorySize
    BY CharsAssumption DEF Library!Addresses
<1> DEFINE Body(f, a) == IF a = MemorySize \/ m[a] = 0 THEN 0 ELSE 1 + f[a + 1]
           zeros(a) == {z \in a .. MemorySize : z = MemorySize \/ m[z] = 0}
           least(a) == CHOOSE z \in zeros(a) : \A k \in zeros(a) : z <= k
           f == [a \in p .. MemorySize |-> least(a) - a]
<1>2. ASSUME NEW a \in p .. MemorySize
      PROVE  least(a) \in zeros(a) /\ \A k \in zeros(a) : least(a) <= k
    <2>1. MemorySize \in zeros(a) /\ zeros(a) \subseteq Nat
        BY <1>1
    <2> HIDE DEF zeros
    <2>2. \E z \in zeros(a) : \A k \in zeros(a) : z <= k
        BY <2>1, LeastExists
    <2> QED BY <2>2
<1>3. ASSUME NEW a \in p .. MemorySize
      PROVE  least(a) - a = IF a = MemorySize \/ m[a] = 0 THEN 0 ELSE 1 + (least(a + 1) - (a + 1))
    <2>1. CASE a = MemorySize \/ m[a] = 0
        <3>1. a \in zeros(a) /\ zeros(a) \subseteq a .. MemorySize
            BY <2>1, <1>1
        <3> HIDE DEF zeros, least
        <3>2. least(a) <= a /\ least(a) \in a .. MemorySize
            BY <3>1, <1>2
        <3> QED BY <1>1, <2>1, <3>2
    <2>2. CASE ~ (a = MemorySize \/ m[a] = 0)
        <3>1. zeros(a) = zeros(a + 1)
            BY <1>1, <2>2
        <3>2. least(a) = least(a + 1)
            <4> HIDE DEF zeros
            <4> QED BY <3>1
        <3>3. least(a) \in Nat /\ a \in Nat
            <4>1. zeros(a) \subseteq Nat
                BY <1>1
            <4> HIDE DEF zeros, least
            <4> QED BY <4>1, <1>1, <1>2
        <3> HIDE DEF least
        <3> QED BY <2>2, <3>2, <3>3
    <2> QED BY <2>1, <2>2
<1> HIDE DEF least
<1>4. f = [a \in p .. MemorySize |-> Body(f, a)]
    <2>1. ASSUME NEW a \in p .. MemorySize PROVE f[a] = Body(f, a)
        <3>1. a # MemorySize => f[a + 1] = least(a + 1) - (a + 1)
            BY <1>1
        <3>2. f[a] = least(a) - a
            OBVIOUS
        <3> HIDE DEF f
        <3> QED BY <3>1, <3>2, <1>3
    <2> QED BY <2>1
<1> HIDE DEF f
<1> DEFINE len == CHOOSE g : g = [a \in p .. MemorySize |-> Body(g, a)]
<1>5. Library!strlen(m, p) = len[p]
    BY Zenon DEF Library!strlen
<1>6. len = [a \in p .. MemorySize |-> Body(len, a)]
    BY <1>4
<1> HIDE DEF len
<1>7. \A a \in p .. MemorySize : len[a] = Body(len, a)
    BY <1>6
\* The first 0.
<1>8. PICK n \in Nat : /\ p + n < MemorySize /\ m[p + n] = 0
                       /\ \A i \in 0 .. n - 1 : m[p + i] # 0
    <2> DEFINE Z == {z \in p .. MemorySize - 1 : m[z] = 0}
    <2>1. Z # {} /\ Z \subseteq Nat
        BY <1>1 DEF Library!Terminated
    <2> HIDE DEF Z
    <2>2. PICK z \in Z : \A k \in Z : z <= k
        BY <2>1, LeastExists
    <2> USE DEF Z
    <2>3. z - p \in Nat /\ p + (z - p) = z
        BY <1>1
    <2>4. ASSUME NEW i \in 0 .. (z - p) - 1 PROVE m[p + i] # 0
        BY <1>1, <2>2, <2>3
    <2> QED BY <1>1, <2>2, <2>3, <2>4
<1> DEFINE Bad == {j \in 0 .. n : len[p + (n - j)] # j}
<1>9. Bad = {}
    <2>1. SUFFICES ASSUME Bad # {} PROVE FALSE
        OBVIOUS
    <2>2. PICK j \in Bad : \A k \in Bad : j <= k
        <3>1. Bad \subseteq Nat
            OBVIOUS
        <3> HIDE DEF Bad
        <3> QED BY <2>1, <3>1, LeastExists
    <2>3. CASE j = 0
        <3>1. n - j = n /\ p + n \in p .. MemorySize
            BY <1>1, <1>8, <2>3
        <3>2. len[p + n] = 0
            BY <3>1, <1>7, <1>8
        <3> QED BY <2>2, <2>3, <3>1, <3>2
    <2>4. CASE j # 0
        <3>1. j - 1 \in 0 .. n /\ j - 1 \notin Bad
            BY <2>2, <2>4
        <3>2. n - j \in 0 .. n - 1 /\ p + (n - j) \in p .. MemorySize /\ p + (n - j) # MemorySize
              /\ p + (n - j) + 1 = p + (n - (j - 1))
            BY <1>1, <1>8, <2>4
        <3>3. m[p + (n - j)] # 0
            BY <3>2, <1>8
        <3>4. len[p + (n - j)] = 1 + len[p + (n - j) + 1]
            BY <1>7, <3>2, <3>3
        <3>5. len[p + (n - (j - 1))] = j - 1
            BY <3>1
        <3>6. len[p + (n - j)] = j
            BY <3>2, <3>4, <3>5
        <3> QED BY <2>2, <3>6
    <2> QED BY <2>3, <2>4
<1>10. Library!strlen(m, p) = n
    <2>1. n \in 0 .. n /\ n \notin Bad /\ p + (n - n) = p
        BY <1>1, <1>9
    <2> QED BY <1>5, <2>1
<1>11. p + n \in Library!Addresses
    BY <1>1, <1>8 DEF Library!Addresses
<1> QED BY <1>8, <1>10, <1>11

\* memmove moves, in either direction.
LEMMA MemmoveMoves ==
    ASSUME NEW m \in [Library!Addresses -> Nat],
           NEW d \in Library!Addresses, NEW s \in Library!Addresses, NEW n \in Nat,
           Library!Room(d, n), Library!Room(s, n)
    PROVE  Library!memmove(m, d, s, n) = Library!Moved(m, d, s, n)
<1>1. d \in Nat /\ s \in Nat /\ d + n <= MemorySize /\ s + n <= MemorySize
    BY CLibSizes DEF Library!Room
<1>2. CASE s > d
    <2>1. Library!memmove(m, d, s, n) = Library!Upwards(m, d, s, n)
        BY <1>1, <1>2 DEF Library!memmove
    <2> QED BY <1>1, <1>2, <2>1, UpwardsMoves
<1>3. CASE s < d
    <2>1. Library!memmove(m, d, s, n) = Library!Downwards(m, d, s, n)
        BY <1>1, <1>3 DEF Library!memmove
    <2> QED BY <1>1, <1>3, <2>1, DownwardsMoves
<1>4. CASE s = d
    <2>1. Library!memmove(m, d, s, n) = m
        BY <1>1, <1>4 DEF Library!memmove
    <2>2. \A a \in Library!Addresses : a - d + s = a
        BY <1>1, <1>4, CLibSizes
    <2>3. \A a \in Library!Addresses : Library!Moved(m, d, s, n)[a] = m[a]
        BY <2>2, MovedByte
    <2> QED BY <2>1, <2>3, MovedByte
<1> QED BY <1>1, <1>2, <1>3, <1>4

\* memcmp gives 0 just when all bytes are the same.
LEMMA MemcmpCompares ==
    ASSUME NEW m, NEW s \in Nat, NEW t \in Nat, NEW n \in Nat
    PROVE  Library!memcmp(m, s, t, n) = 0 <=> \A i \in 0 .. n - 1 : m[s + i] = m[t + i]
<1> DEFINE S == {i \in 0 .. n - 1 : m[s + i] # m[t + i]}
           v == [i \in 0 .. n - 1 |-> IF m[s + i] < m[t + i] THEN -1 ELSE 1]
           Body(c, i) == IF i = n THEN 0
                         ELSE IF m[s + i] # m[t + i] THEN (IF m[s + i] < m[t + i] THEN -1 ELSE 1)
                         ELSE c[i + 1]
           compare == CHOOSE c : c = [i \in 0 .. n |-> Body(c, i)]
<1>1. ASSUME NEW c, NEW i \in 0 .. n PROVE Body(c, i) = LooksFor(S, v, 0, n, c, i)
    <2>1. i # n => i \in 0 .. n - 1
        OBVIOUS
    <2> QED BY <2>1 DEF LooksFor
<1>2. Library!memcmp(m, s, t, n) = compare[0]
    BY Zenon DEF Library!memcmp
<1>3. Searches(compare, S, v, 0, 0, n)
    <2>1. PICK c : Searches(c, S, v, 0, 0, n)
        <3> HIDE DEF S, v
        <3> QED BY SearchExists
    <2> HIDE DEF S, v, Body
    <2>2. c = [i \in 0 .. n |-> Body(c, i)]
        BY <1>1, <2>1 DEF Searches
    <2>3. compare = [i \in 0 .. n |-> Body(compare, i)]
        BY <2>2
    <2> HIDE DEF compare
    <2> QED BY <1>1, <2>3 DEF Searches
<1> HIDE DEF S, v, compare
<1>4. \/ \E j \in 0 .. n - 1 : j \in S /\ compare[0] = v[j]
      \/ compare[0] = 0 /\ \A k \in 0 .. n - 1 : k \notin S
    BY <1>3, SearchFinds
<1>5. \A j \in 0 .. n - 1 : v[j] # 0
    BY DEF v
<1> QED BY <1>2, <1>4, <1>5 DEF S

\* The functions on memory do what they should.
LEMMA MemoryFunctionsMeetReference ==
    ASSUME memory \in [Library!Addresses -> Chars]
    PROVE  Library!MemoryFunctions
<1>1. memory \in [Library!Addresses -> Nat]
    BY CharsAssumption
<1>2. SUFFICES ASSUME NEW d \in Library!Addresses, NEW s \in Library!Addresses,
                      NEW n \in 0 .. MemorySize, Library!Room(d, n), Library!Room(s, n)
      PROVE  /\ Library!memmove(memory, d, s, n) = Library!Moved(memory, d, s, n)
             /\ d <= s \/ Library!Apart(d, s, n) => Library!memcpy(memory, d, s, n) = Library!Moved(memory, d, s, n)
             /\ Library!memcmp(memory, d, s, n) = 0 <=> Library!memmove(memory, d, s, n) = memory
    BY DEF Library!MemoryFunctions
<1>3. d \in Nat /\ s \in Nat /\ n \in Nat /\ d + n <= MemorySize /\ s + n <= MemorySize
    BY <1>2, CLibSizes DEF Library!Room
<1>4. Library!memmove(memory, d, s, n) = Library!Moved(memory, d, s, n)
    BY <1>1, <1>2, <1>3, MemmoveMoves
<1>5. ASSUME d <= s \/ Library!Apart(d, s, n)
      PROVE  Library!memcpy(memory, d, s, n) = Library!Moved(memory, d, s, n)
    <2>1. d <= s \/ s + n <= d
        BY <1>3, <1>5 DEF Library!Apart
    <2> QED BY <1>1, <1>3, <2>1, UpwardsMoves DEF Library!memcpy
<1>6. Library!memcmp(memory, d, s, n) = 0 <=> \A i \in 0 .. n - 1 : memory[d + i] = memory[s + i]
    BY <1>3, MemcmpCompares
<1>7. ASSUME \A i \in 0 .. n - 1 : memory[d + i] = memory[s + i]
      PROVE  Library!Moved(memory, d, s, n) = memory
    <2>1. ASSUME NEW a \in Library!Addresses PROVE Library!Moved(memory, d, s, n)[a] = memory[a]
        <3>1. a \in Nat
            BY CLibSizes
        <3>2. CASE a \in d .. d + n - 1
            <4>1. a - d \in 0 .. n - 1 /\ d + (a - d) = a /\ s + (a - d) = a - d + s
                BY <1>3, <3>1, <3>2
            <4>2. memory[d + (a - d)] = memory[s + (a - d)]
                BY <1>7, <4>1
            <4> QED BY <1>1, <3>2, <4>1, <4>2, MovedByte
        <3> QED BY <1>1, <3>2, MovedByte
    <2> QED BY <1>1, <2>1, MovedByte
<1>8. ASSUME Library!Moved(memory, d, s, n) = memory, NEW i \in 0 .. n - 1
      PROVE  memory[d + i] = memory[s + i]
    <2> DEFINE a == d + i
    <2>1. a \in Library!Addresses /\ a \in d .. d + n - 1 /\ a - d + s = s + i
        BY <1>3, CLibSizes
    <2> HIDE DEF a
    <2>2. Library!Moved(memory, d, s, n)[a] = memory[a - d + s]
        BY <1>1, <2>1, MovedByte
    <2> QED BY <1>8, <2>1, <2>2 DEF a
<1> QED BY <1>4, <1>5, <1>6, <1>7, <1>8

\* strcmp stops at the first place where the strings differ, or at their common end.
LEMMA StrcmpStops ==
    ASSUME NEW m \in [Library!Addresses -> Nat],
           NEW s \in Library!Addresses, NEW t \in Library!Addresses,
           Library!Terminated(m, s), Library!Terminated(m, t)
    PROVE  \E j \in Nat :
               /\ j <= Library!strlen(m, s) /\ j <= Library!strlen(m, t)
               /\ \A i \in 0 .. j - 1 : m[s + i] = m[t + i]
               /\ Library!strcmp(m, s, t) = m[s + j] - m[t + j]
               /\ m[s + j] # m[t + j] \/ (j = Library!strlen(m, s) /\ j = Library!strlen(m, t))
<1> DEFINE l == Library!strlen(m, s)
           k == Library!strlen(m, t)
           n == l + 1
           S == {i \in 0 .. n - 1 : m[s + i] # m[t + i] \/ m[s + i] = 0}
           v == [i \in 0 .. n - 1 |-> IF m[s + i] # m[t + i] THEN m[s + i] - m[t + i] ELSE 0]
           Body(c, i) == IF i = n THEN 0
                         ELSE IF m[s + i] # m[t + i] THEN m[s + i] - m[t + i]
                         ELSE IF m[s + i] = 0 THEN 0 ELSE c[i + 1]
           compare == CHOOSE c : c = [i \in 0 .. n |-> Body(c, i)]
<1>1. /\ l \in Nat /\ s + l \in Library!Addresses /\ m[s + l] = 0
      /\ \A i \in 0 .. l - 1 : m[s + i] # 0
    BY LengthOf
<1>2. /\ k \in Nat /\ t + k \in Library!Addresses /\ m[t + k] = 0
      /\ \A i \in 0 .. k - 1 : m[t + i] # 0
    BY LengthOf
<1>3. Library!strcmp(m, s, t) = compare[0]
    BY Zenon DEF Library!strcmp, Library!strncmp
<1> HIDE DEF l, k
<1>4. ASSUME NEW c, NEW i \in 0 .. n PROVE Body(c, i) = LooksFor(S, v, 0, n, c, i)
    <2>1. i # n => i \in 0 .. n - 1
        BY <1>1
    <2> QED BY <2>1 DEF LooksFor
<1>5. Searches(compare, S, v, 0, 0, n)
    <2>1. PICK c : Searches(c, S, v, 0, 0, n)
        <3>1. n \in Nat
            BY <1>1
        <3> HIDE DEF S, v, n
        <3> QED BY <3>1, SearchExists
    <2> HIDE DEF S, v, Body, n
    <2>2. c = [i \in 0 .. n |-> Body(c, i)]
        BY <1>4, <2>1 DEF Searches
    <2>3. compare = [i \in 0 .. n |-> Body(compare, i)]
        BY <2>2
    <2> HIDE DEF compare
    <2> QED BY <1>4, <2>3 DEF Searches
<1> HIDE DEF compare
<1>6. PICK j \in 0 .. l : /\ j \in S /\ compare[0] = v[j]
                          /\ \A i \in 0 .. j - 1 : i \notin S
    <2>1. n \in Nat /\ 0 <= n /\ n - 1 = l /\ l \in 0 .. n - 1
        BY <1>1
    <2>2. l \in S
        BY <1>1, <2>1
    <2> HIDE DEF S, v, n
    <2>3. \/ \E j \in 0 .. n - 1 : j \in S /\ compare[0] = v[j] /\ \A i \in 0 .. j - 1 : i \notin S
          \/ compare[0] = 0 /\ \A i \in 0 .. n - 1 : i \notin S
        BY <1>5, <2>1, SearchFinds
    <2> QED BY <2>1, <2>2, <2>3
<1>7. j \in Nat /\ j <= l /\ j \in 0 .. n - 1 /\ \A i \in 0 .. j - 1 : i \in 0 .. n - 1
    BY <1>1
<1>8. \A i \in 0 .. j - 1 : m[s + i] = m[t + i] /\ m[s + i] # 0
    BY <1>6, <1>7
<1>9. j <= k
    <2>1. SUFFICES ASSUME k < j PROVE FALSE
        BY <1>2, <1>7
    <2>2. k \in 0 .. j - 1
        BY <1>2, <1>7, <2>1
    <2> QED BY <1>2, <1>8, <2>2
<1>10. m[s + j] \in Nat /\ m[t + j] \in Nat
    <2>1. s + j \in Library!Addresses /\ t + j \in Library!Addresses
        BY <1>1, <1>2, <1>7, <1>9, CLibSizes
    <2> QED BY <2>1
<1>11. CASE m[s + j] # m[t + j]
    BY <1>3, <1>6, <1>7, <1>8, <1>9, <1>11 DEF l, k
<1>12. CASE m[s + j] = m[t + j]
    <2>1. m[s + j] = 0 /\ compare[0] = 0
        BY <1>6, <1>7, <1>12
    <2>2. j = l
        BY <1>1, <1>7, <2>1
    <2>3. j = k
        <3>1. m[t + j] = 0
            BY <1>12, <2>1
        <3>2. j \notin 0 .. k - 1
            BY <1>2, <3>1
        <3> QED BY <1>2, <1>7, <1>9, <3>2
    <2>4. compare[0] = m[s + j] - m[t + j]
        BY <2>1, <1>10, <1>12
    <2> QED BY <1>3, <1>7, <1>8, <2>2, <2>3, <2>4 DEF l, k
<1> QED BY <1>11, <1>12

\* The text of a string.
LEMMA TextOf ==
    ASSUME NEW m \in [Library!Addresses -> Nat], NEW p \in Library!Addresses,
           Library!Terminated(m, p)
    PROVE  /\ Library!Text(m, p) \in Seq(Nat)
           /\ Len(Library!Text(m, p)) = Library!strlen(m, p)
           /\ \A i \in 1 .. Library!strlen(m, p) :
                 Library!Text(m, p)[i] = m[p + i - 1] /\ m[p + i - 1] \in Nat /\ m[p + i - 1] # 0
<1> DEFINE n == Library!strlen(m, p)
           text == Library!Text(m, p)
<1>1. /\ n \in Nat /\ p + n \in Library!Addresses /\ m[p + n] = 0
      /\ \A i \in 0 .. n - 1 : m[p + i] # 0
    BY LengthOf
<1>2. text = [i \in 1 .. n |-> m[p + i - 1]]
    BY DEF Library!Text
<1> HIDE DEF n, text
<1>3. ASSUME NEW i \in 1 .. n PROVE m[p + i - 1] \in Nat /\ m[p + i - 1] # 0
    <2>1. p + i - 1 \in Library!Addresses /\ i - 1 \in 0 .. n - 1 /\ p + (i - 1) = p + i - 1
        BY <1>1, CLibSizes
    <2> QED BY <1>1, <2>1
<1>4. text \in Seq(Nat) /\ Len(text) = n
    BY <1>1, <1>2, <1>3
<1> QED BY <1>2, <1>3, <1>4 DEF n, text

\* strcmp compares texts by their first difference, a shorter one precedes one it
\* begins.
LEMMA StrcmpCompares ==
    ASSUME NEW m \in [Library!Addresses -> Nat],
           NEW s \in Library!Addresses, NEW t \in Library!Addresses,
           Library!Terminated(m, s), Library!Terminated(m, t)
    PROVE  /\ Library!strcmp(m, s, t) < 0 <=> Library!Precedes(Library!Text(m, s), Library!Text(m, t))
           /\ Library!strcmp(m, s, t) = 0 <=> Library!Text(m, s) = Library!Text(m, t)
<1> DEFINE l == Library!strlen(m, s)
           k == Library!strlen(m, t)
           u == Library!Text(m, s)
           w == Library!Text(m, t)
           r == Library!strcmp(m, s, t)
<1>1. /\ l \in Nat /\ s + l \in Library!Addresses /\ m[s + l] = 0
      /\ k \in Nat /\ t + k \in Library!Addresses /\ m[t + k] = 0
    BY LengthOf
<1>2. /\ u \in Seq(Nat) /\ Len(u) = l
      /\ \A i \in 1 .. l : u[i] = m[s + i - 1] /\ m[s + i - 1] \in Nat /\ m[s + i - 1] # 0
    BY TextOf
<1>3. /\ w \in Seq(Nat) /\ Len(w) = k
      /\ \A i \in 1 .. k : w[i] = m[t + i - 1] /\ m[t + i - 1] \in Nat /\ m[t + i - 1] # 0
    BY TextOf
<1>4. PICK j \in Nat :
          /\ j <= l /\ j <= k
          /\ \A i \in 0 .. j - 1 : m[s + i] = m[t + i]
          /\ r = m[s + j] - m[t + j]
          /\ m[s + j] # m[t + j] \/ (j = l /\ j = k)
    BY StrcmpStops
<1> HIDE DEF l, k, u, w, r
<1>5. s \in Nat /\ t \in Nat
    BY CLibSizes
<1>6. m[s + j] \in Nat /\ m[t + j] \in Nat
    <2>1. s + j \in Library!Addresses /\ t + j \in Library!Addresses
        BY <1>1, <1>4, CLibSizes
    <2> QED BY <2>1
<1>7. \A i \in 1 .. j : u[i] = w[i]
    <2>1. ASSUME NEW i \in 1 .. j PROVE u[i] = w[i]
        <3>1. i \in 1 .. l /\ i \in 1 .. k /\ i - 1 \in 0 .. j - 1
              /\ s + i - 1 = s + (i - 1) /\ t + i - 1 = t + (i - 1)
            BY <1>1, <1>4, <1>5
        <3> QED BY <3>1, <1>2, <1>3, <1>4
    <2> QED BY <2>1
\* The character behind, or the terminator.
<1>8. /\ j < l => u[j + 1] = m[s + j] /\ m[s + j] # 0
      /\ j < k => w[j + 1] = m[t + j] /\ m[t + j] # 0
    <2>1. s + (j + 1) - 1 = s + j /\ t + (j + 1) - 1 = t + j
        BY <1>4, <1>5
    <2>2. (j < l => j + 1 \in 1 .. l) /\ (j < k => j + 1 \in 1 .. k)
        BY <1>1, <1>4
    <2> QED BY <1>2, <1>3, <2>1, <2>2
<1>9. (j = l => m[s + j] = 0) /\ (j = k => m[t + j] = 0)
    BY <1>1
<1>10. r = 0 <=> u = w
    <2>1. ASSUME r = 0 PROVE u = w
        <3>1. j = l /\ j = k
            BY <1>4, <1>6, <2>1
        <3>2. Len(u) = Len(w) /\ \A i \in 1 .. Len(u) : u[i] = w[i]
            BY <3>1, <1>2, <1>3, <1>7
        <3> QED BY <3>2, <1>2, <1>3, SeqEqual
    <2>2. ASSUME u = w PROVE r = 0
        <3>1. l = k
            BY <2>2, <1>2, <1>3
        <3>2. m[s + j] = m[t + j]
            BY <1>1, <1>4, <1>8, <1>9, <2>2, <3>1
        <3> QED BY <1>4, <1>6, <3>2
    <2> QED BY <2>1, <2>2
<1>11. ASSUME r < 0 PROVE Library!Precedes(u, w)
    <2>1. m[s + j] < m[t + j]
        BY <1>4, <1>6, <1>11
    <2>2. j < k
        BY <1>1, <1>4, <1>6, <1>9, <2>1
    <2>3. j + 1 \in 1 .. Len(u) + 1 /\ j + 1 <= Len(w) /\ (j + 1) - 1 = j
        BY <1>1, <1>2, <1>3, <1>4, <2>2
    <2>4. SubSeq(u, 1, j) = SubSeq(w, 1, j)
        BY <1>1, <1>2, <1>3, <1>4, <1>7
    <2>5. j + 1 <= Len(u) => u[j + 1] < w[j + 1]
        BY <1>1, <1>2, <1>4, <1>8, <2>1, <2>2
    <2> QED BY <2>3, <2>4, <2>5 DEF Library!Precedes
<1>12. ASSUME Library!Precedes(u, w) PROVE r < 0
    <2>1. PICK q \in 1 .. Len(u) + 1 :
              /\ q <= Len(w) /\ SubSeq(u, 1, q - 1) = SubSeq(w, 1, q - 1)
              /\ q <= Len(u) => u[q] < w[q]
        BY <1>12 DEF Library!Precedes
    <2>2. q \in Nat /\ q - 1 \in Nat /\ q - 1 <= l /\ q <= k
        BY <1>1, <1>2, <1>3, <2>1
    <2>3. \A i \in 1 .. q - 1 : u[i] = w[i]
        <3>1. ASSUME NEW i \in 1 .. q - 1 PROVE u[i] = w[i]
            <4>1. SubSeq(u, 1, q - 1)[i] = u[i] /\ SubSeq(w, 1, q - 1)[i] = w[i]
                BY <1>1, <1>2, <1>3, <2>2
            <4> QED BY <2>1, <4>1
        <3> QED BY <3>1
    <2>4. j = q - 1
        <3>1. ~ (j < q - 1)
            <4>1. SUFFICES ASSUME j < q - 1 PROVE FALSE
                OBVIOUS
            <4>2. j < l /\ j < k /\ j + 1 \in 1 .. q - 1
                BY <1>1, <1>4, <2>2, <4>1
            <4> QED BY <1>4, <1>8, <2>3, <4>2
        <3>2. ~ (q - 1 < j)
            <4>1. SUFFICES ASSUME q - 1 < j PROVE FALSE
                OBVIOUS
            <4>2. q \in 1 .. j /\ q <= Len(u) /\ q \in 1 .. l /\ q \in 1 .. k
                BY <1>1, <1>2, <1>4, <2>2, <4>1
            <4>3. u[q] = w[q] /\ u[q] \in Nat /\ u[q] < w[q]
                BY <1>2, <1>7, <2>1, <4>2
            <4> QED BY <4>3
        <3> QED BY <1>4, <2>2, <3>1, <3>2
    <2>5. m[s + j] < m[t + j]
        <3>1. j < k /\ w[q] = m[t + j] /\ m[t + j] # 0
            BY <1>1, <1>4, <1>8, <2>2, <2>4
        <3>2. CASE j < l
            <4>1. u[q] = m[s + j] /\ u[q] < w[q]
                BY <1>1, <1>2, <1>4, <1>8, <2>1, <2>2, <2>4, <3>2
            <4> QED BY <3>1, <4>1
        <3>3. CASE j = l
            BY <1>6, <1>9, <3>1, <3>3
        <3> QED BY <1>1, <1>4, <3>2, <3>3
    <2> QED BY <1>4, <1>6, <2>5
<1>13. (r < 0 <=> Library!Precedes(u, w)) /\ (r = 0 <=> u = w)
    BY <1>10, <1>11, <1>12
<1> QED BY <1>13 DEF r, u, w

\* strstr finds the needle when it is there, and nothing else.
LEMMA StrstrFinds ==
    ASSUME NEW m \in [Library!Addresses -> Nat],
           NEW s \in Library!Addresses, NEW t \in Library!Addresses,
           Library!Terminated(m, s), Library!Terminated(m, t)
    PROVE  Library!strstr(m, s, t) # -1 <=>
              \E k \in 0 .. Library!strlen(m, s) :
                  /\ k + Library!strlen(m, t) <= Library!strlen(m, s)
                  /\ \A i \in 1 .. Library!strlen(m, t) :
                        Library!Text(m, s)[k + i] = Library!Text(m, t)[i]
<1> DEFINE l == Library!strlen(m, s)
           n == Library!strlen(m, t)
           u == Library!Text(m, s)
           w == Library!Text(m, t)
           Occurs(k) == k + n <= l /\ \A i \in 1 .. n : u[k + i] = w[i]
           \* As the loops compare: no character of the haystack passed is a terminator.
           Match(a) == \A i \in 0 .. n - 1 :
                           (\A j \in 0 .. i - 1 : m[a + j] # 0) /\ m[a + i] = m[t + i]
           end == IF n = 0 THEN s ELSE -1
           S == {a \in s .. MemorySize - 1 : n = 0 \/ m[a] = 0 \/ Match(a)}
           v == [a \in s .. MemorySize - 1 |-> IF n = 0 THEN s ELSE IF m[a] = 0 THEN -1 ELSE a]
           Body(f, a) == IF n = 0 THEN s
                         ELSE IF a = MemorySize \/ m[a] = 0 THEN -1
                         ELSE IF Match(a) THEN a ELSE f[a + 1]
           find == CHOOSE f : f = [a \in s .. MemorySize |-> Body(f, a)]
<1>1. /\ l \in Nat /\ s + l \in Library!Addresses /\ m[s + l] = 0
      /\ \A i \in 0 .. l - 1 : m[s + i] # 0
    BY LengthOf
<1>2. /\ n \in Nat /\ t + n \in Library!Addresses /\ m[t + n] = 0
      /\ \A i \in 0 .. n - 1 : m[t + i] # 0
    BY LengthOf
<1>3. \A i \in 1 .. l : u[i] = m[s + i - 1]
    BY TextOf
<1>4. \A i \in 1 .. n : w[i] = m[t + i - 1]
    BY TextOf
<1>5. Library!strstr(m, s, t) = find[s]
    BY Zenon DEF Library!strstr
<1> HIDE DEF l, n, u, w
<1>6. s \in Nat /\ t \in Nat /\ MemorySize \in Nat /\ s + l < MemorySize
    BY <1>1, CLibSizes
\* Where the loops match, the needle is.
<1>7. ASSUME NEW k \in 0 .. l, n > 0, m[s + k] # 0
      PROVE  Match(s + k) <=> Occurs(k)
    <2>1. k < l
        BY <1>1, <1>7
    <2>2. ASSUME Match(s + k) PROVE Occurs(k)
        <3>1. ~ (l < k + n)
            <4>1. SUFFICES ASSUME l < k + n PROVE FALSE
                OBVIOUS
            <4>2. l - k \in 0 .. n - 1 /\ (s + k) + (l - k) = s + l
                BY <1>1, <1>2, <1>6, <2>1, <4>1
            <4>3. m[(s + k) + (l - k)] = m[t + (l - k)]
                BY <2>2, <4>2
            <4> QED BY <1>1, <1>2, <4>2, <4>3
        <3>2. ASSUME NEW i \in 1 .. n PROVE u[k + i] = w[i]
            <4>1. /\ k + i \in 1 .. l /\ i - 1 \in 0 .. n - 1
                  /\ s + (k + i) - 1 = (s + k) + (i - 1) /\ t + i - 1 = t + (i - 1)
                BY <1>1, <1>2, <1>6, <3>1
            <4>2. m[(s + k) + (i - 1)] = m[t + (i - 1)]
                BY <2>2, <4>1
            <4> QED BY <1>3, <1>4, <4>1, <4>2
        <3> QED BY <1>1, <1>2, <3>1, <3>2
    <2>3. ASSUME Occurs(k) PROVE Match(s + k)
        <3>1. ASSUME NEW i \in 0 .. n - 1 PROVE m[(s + k) + i] = m[t + i]
            <4>1. /\ i + 1 \in 1 .. n /\ k + (i + 1) \in 1 .. l
                  /\ s + (k + (i + 1)) - 1 = (s + k) + i /\ t + (i + 1) - 1 = t + i
                BY <1>1, <1>2, <1>6, <2>3
            <4>2. u[k + (i + 1)] = w[i + 1]
                BY <2>3, <4>1
            <4> QED BY <1>3, <1>4, <4>1, <4>2
        <3>2. ASSUME NEW i \in 0 .. n - 1, NEW j \in 0 .. i - 1 PROVE m[(s + k) + j] # 0
            <4>1. j \in 0 .. n - 1
                BY <1>2
            <4> QED BY <1>2, <3>1, <4>1
        <3> QED BY <3>1, <3>2
    <2> HIDE DEF Match, Occurs
    <2> QED BY <2>2, <2>3
<1> HIDE DEF Match
<1>8. ASSUME NEW f, NEW a \in s .. MemorySize PROVE Body(f, a) = LooksFor(S, v, end, MemorySize, f, a)
    <2>1. a # MemorySize => a \in s .. MemorySize - 1
        BY <1>6
    <2> QED BY <2>1 DEF LooksFor
<1>9. Searches(find, S, v, end, s, MemorySize)
    <2>1. PICK f : Searches(f, S, v, end, s, MemorySize)
        <3> HIDE DEF S, v, end
        <3> QED BY <1>6, SearchExists
    <2> HIDE DEF S, v, end, Body
    <2>2. f = [a \in s .. MemorySize |-> Body(f, a)]
        BY <1>8, <2>1 DEF Searches
    <2>3. find = [a \in s .. MemorySize |-> Body(find, a)]
        BY <2>2
    <2> HIDE DEF find
    <2> QED BY <1>8, <2>3 DEF Searches
<1> HIDE DEF find
<1>10. PICK a \in s .. MemorySize - 1 : /\ a \in S /\ find[s] = v[a]
                                        /\ \A b \in s .. a - 1 : b \notin S
    <2>1. s + l \in S
        BY <1>1, <1>6
    <2>2. s <= MemorySize /\ s + l \in s .. MemorySize - 1
        BY <1>1, <1>6
    <2> HIDE DEF S, v, end
    <2>3. \/ \E a \in s .. MemorySize - 1 : a \in S /\ find[s] = v[a] /\ \A b \in s .. a - 1 : b \notin S
          \/ find[s] = end /\ \A b \in s .. MemorySize - 1 : b \notin S
        BY <1>6, <1>9, <2>2, SearchFinds
    <2> QED BY <2>1, <2>2, <2>3
<1>11. CASE n = 0
    <2>1. find[s] # -1
        BY <1>6, <1>10, <1>11
    <2>2. 0 \in 0 .. l /\ Occurs(0)
        BY <1>1, <1>11
    <2> QED BY <1>5, <2>1, <2>2 DEF l, n, u, w
<1>12. CASE n # 0 /\ m[a] = 0
    <2>1. find[s] = -1
        BY <1>10, <1>12
    <2>2. a \in Nat /\ ~ (a < s + l)
        <3>1. a \in Nat /\ a >= s
            BY <1>6
        <3>2. SUFFICES ASSUME a < s + l PROVE FALSE
            BY <3>1
        <3>3. a - s \in 0 .. l - 1 /\ s + (a - s) = a
            BY <1>1, <1>6, <3>1, <3>2
        <3> QED BY <1>1, <1>12, <3>3
    <2>3. ASSUME NEW k \in 0 .. l, Occurs(k) PROVE FALSE
        <3>1. k < l
            BY <1>1, <1>2, <1>12, <2>3
        <3>2. m[s + k] # 0 /\ n > 0
            BY <1>1, <1>2, <1>12, <3>1
        <3>3. Match(s + k)
            BY <1>7, <2>3, <3>2
        <3>4. s + k \in s .. a - 1 /\ s + k \in s .. MemorySize - 1
            BY <1>1, <1>6, <2>2, <3>1
        <3> QED BY <1>10, <3>3, <3>4
    <2> QED BY <1>5, <2>1, <2>3 DEF l, n, u, w
<1>13. CASE n # 0 /\ m[a] # 0
    <2>1. find[s] = a /\ Match(a)
        BY <1>10, <1>13
    <2>2. a \in Nat /\ a >= s /\ a < s + l
        <3>1. a \in Nat /\ a >= s
            BY <1>6
        <3>2. SUFFICES ASSUME ~ (a < s + l) PROVE FALSE
            BY <3>1
        <3>3. a # s + l
            BY <1>1, <1>13
        <3>4. s + l \in s .. a - 1 /\ s + l \in s .. MemorySize - 1
            BY <1>1, <1>6, <3>1, <3>2, <3>3
        <3> QED BY <1>1, <1>10, <3>4
    <2>3. a - s \in 0 .. l /\ s + (a - s) = a /\ n > 0 /\ a # -1
        BY <1>1, <1>2, <1>6, <1>13, <2>2
    <2>4. Match(s + (a - s)) /\ m[s + (a - s)] # 0
        BY <1>13, <2>1, <2>3
    <2> DEFINE k == a - s
    <2> HIDE DEF k, Occurs
    <2>5. Occurs(k)
        BY <1>7, <2>3, <2>4 DEF k
    <2>6. k \in 0 .. l
        BY <2>3 DEF k
    <2> USE DEF Occurs
    <2> QED BY <1>5, <2>1, <2>3, <2>5, <2>6 DEF l, n, u, w
<1> QED BY <1>11, <1>12, <1>13

\* strncpy copies the text and fills up, and writes one byte behind n when the
\* source has no terminator before it.
LEMMA StrncpyCopies ==
    ASSUME NEW m \in [Library!Addresses -> Nat],
           NEW s \in Library!Addresses, NEW t \in Library!Addresses, Library!Terminated(m, t),
           NEW n \in Nat, Library!Apart(s, t, n + 1), Library!Room(s, n + 1), Library!Room(t, n + 1),
           NEW a \in Library!Addresses
    PROVE  Library!strncpy(m, s, t, n)[a] =
               IF a \in s .. s + n - 1
               THEN IF a - s <= Library!strlen(m, t) THEN m[a - s + t] ELSE 0
               ELSE IF a = s + n /\ Library!strlen(m, t) >= n THEN m[t + n]
               ELSE m[a]
<1> DEFINE l == Library!strlen(m, t)
           r == Library!strncpy(m, s, t, n)
<1>1. l \in Nat /\ t + l \in Library!Addresses /\ m[t + l] = 0
    BY LengthOf
<1>2. /\ s \in Nat /\ t \in Nat /\ a \in Nat
      /\ s + (n + 1) <= MemorySize /\ t + (n + 1) <= MemorySize
      /\ s + (n + 1) <= t \/ t + (n + 1) <= s
    BY CLibSizes DEF Library!Apart, Library!Room
<1>3. CASE l < n
    <2> DEFINE copied == Library!Upwards(m, s, t, l)
    <2>1. r = Library!memset(copied, s + l, 0, n - l)
        BY <1>3 DEF Library!strncpy
    <2> HIDE DEF l, r
    <2>2. copied = Library!Moved(m, s, t, l)
        <3>1. s + l <= MemorySize /\ t + l <= MemorySize /\ (s <= t \/ t + l <= s)
            BY <1>1, <1>2, <1>3, CLibSizes
        <3> QED BY <1>1, <3>1, UpwardsMoves
    <2>3. copied[a] = IF a \in s .. s + l - 1 THEN m[a - s + t] ELSE m[a]
        BY <2>2, MovedByte
    <2>4. r[a] = IF a \in s + l .. s + l + (n - l) - 1 THEN 0 ELSE copied[a]
        BY <2>1 DEF Library!memset
    <2> HIDE DEF copied
    <2>5. CASE a \in s .. s + l - 1
        <3>1. a \notin s + l .. s + l + (n - l) - 1 /\ a \in s .. s + n - 1 /\ a - s <= l
            BY <1>1, <1>2, <1>3, <2>5
        <3> QED BY <2>3, <2>4, <2>5, <3>1 DEF l, r
    <2>6. CASE a = s + l
        <3>1. a \in s + l .. s + l + (n - l) - 1 /\ a \in s .. s + n - 1 /\ a - s <= l
              /\ a - s + t = t + l
            BY <1>1, <1>2, <1>3, <2>6
        <3> QED BY <1>1, <2>4, <3>1 DEF l, r
    <2>7. CASE a \in s + l + 1 .. s + n - 1
        <3>1. a \in s + l .. s + l + (n - l) - 1 /\ a \in s .. s + n - 1 /\ ~ (a - s <= l)
            BY <1>1, <1>2, <1>3, <2>7
        <3> QED BY <2>4, <3>1 DEF l, r
    <2>8. CASE a \notin s .. s + n - 1
        <3>1. /\ a \notin s + l .. s + l + (n - l) - 1 /\ a \notin s .. s + l - 1
              /\ ~ (l >= n)
            BY <1>1, <1>2, <1>3, <2>8
        <3> QED BY <2>3, <2>4, <2>8, <3>1 DEF l, r
    <2> QED BY <1>1, <1>2, <1>3, <2>5, <2>6, <2>7, <2>8
<1>4. CASE ~ (l < n)
    <2>1. r = Library!Upwards(m, s, t, n + 1)
        BY <1>4 DEF Library!strncpy
    <2> HIDE DEF l, r
    <2>2. r = Library!Moved(m, s, t, n + 1)
        <3>1. n + 1 \in Nat /\ (s <= t \/ t + (n + 1) <= s)
            BY <1>2
        <3> QED BY <1>2, <2>1, <3>1, UpwardsMoves
    <2>3. r[a] = IF a \in s .. s + (n + 1) - 1 THEN m[a - s + t] ELSE m[a]
        BY <2>2, MovedByte
    <2>4. CASE a \in s .. s + n - 1
        <3>1. a \in s .. s + (n + 1) - 1 /\ a - s <= l
            BY <1>1, <1>2, <1>4, <2>4
        <3> QED BY <2>3, <2>4, <3>1 DEF l, r
    <2>5. CASE a = s + n
        <3>1. a \in s .. s + (n + 1) - 1 /\ a \notin s .. s + n - 1 /\ a - s + t = t + n /\ l >= n
            BY <1>1, <1>2, <1>4, <2>5
        <3> QED BY <2>3, <2>5, <3>1 DEF l, r
    <2>6. CASE a \notin s .. s + n
        <3>1. a \notin s .. s + (n + 1) - 1 /\ a \notin s .. s + n - 1 /\ a # s + n
            BY <1>2, <2>6
        <3> QED BY <2>3, <3>1 DEF l, r
    <2> QED BY <1>2, <2>4, <2>5, <2>6
<1> QED BY <1>3, <1>4

\* The functions on strings do what they should.
LEMMA StringFunctionsMeetReference ==
    ASSUME memory \in [Library!Addresses -> Chars]
    PROVE  Library!StringFunctions
<1>1. memory \in [Library!Addresses -> Nat]
    BY CharsAssumption
<1>2. SUFFICES ASSUME NEW s \in {a \in Library!Addresses : Library!Terminated(memory, a)},
                      NEW t \in {a \in Library!Addresses : Library!Terminated(memory, a)}
      PROVE  Library!StringFunctions!(s, t)
    BY DEF Library!StringFunctions
<1> QED BY <1>1, StrcmpCompares, StrstrFinds, StrncpyCopies

\* Calls leave characters in the memory.
LEMMA LibraryKeepsMemory ==
    ASSUME memory \in [Library!Addresses -> Chars], [Library!Next]_(Library!vars)
    PROVE  memory' \in [Library!Addresses -> Chars]
<1>1. memory \in [Library!Addresses -> Nat]
    BY CharsAssumption
<1>2. ASSUME NEW d \in Library!Addresses, NEW s \in Library!Addresses, NEW n \in Nat,
             Library!Room(s, n)
      PROVE  Library!Moved(memory, d, s, n) \in [Library!Addresses -> Chars]
    <2>1. ASSUME NEW a \in Library!Addresses PROVE Library!Moved(memory, d, s, n)[a] \in Chars
        <3>1. a \in d .. d + n - 1 => a - d + s \in Library!Addresses
            BY <1>2, CLibSizes DEF Library!Room
        <3> QED BY <1>1, <3>1, MovedByte
    <2> QED BY <1>1, <2>1, MovedByte
<1>3. CASE Library!Fill
    BY <1>3, CharsAssumption DEF Library!Fill, Library!memset
<1>4. CASE Library!Move
    <2>1. PICK d \in Library!Addresses, s \in Library!Addresses, n \in 0 .. MemorySize :
              /\ Library!Room(d, n) /\ Library!Room(s, n)
              /\ memory' = Library!memmove(memory, d, s, n)
        BY <1>4 DEF Library!Move
    <2>2. n \in Nat
        BY CharsAssumption
    <2> QED BY <1>1, <1>2, <2>1, <2>2, MemmoveMoves
<1>5. CASE Library!Strings
    <2>1. PICK d \in Library!Addresses, s \in Library!Addresses :
              /\ Library!Terminated(memory, d) /\ Library!Terminated(memory, s)
              /\ Library!Room(d, Library!strlen(memory, d) + Library!strlen(memory, s) + 1)
              /\ Library!Apart(d, s, Library!strlen(memory, d) + Library!strlen(memory, s) + 1)
              /\ memory' \in {Library!strcpy(memory, d, s), Library!strcat(memory, d, s)}
        BY <1>5 DEF Library!Strings
    <2> DEFINE k == Library!strlen(memory, d)
               l == Library!strlen(memory, s)
    <2>2. k \in Nat /\ d + k \in Library!Addresses
        BY <1>1, <2>1, LengthOf
    <2>3. l \in Nat /\ s + l \in Library!Addresses
        BY <1>1, <2>1, LengthOf
    <2>4. \/ memory' = Library!Upwards(memory, d, s, l + 1)
          \/ memory' = Library!Upwards(memory, d + k, s, l + 1)
        BY <2>1 DEF Library!strcpy, Library!strcat
    <2>5. Library!Room(d, k + l + 1) /\ Library!Apart(d, s, k + l + 1)
        BY <2>1
    <2> HIDE DEF k, l
    <2>6. /\ l + 1 \in Nat /\ d + (l + 1) <= MemorySize /\ (d + k) + (l + 1) <= MemorySize
          /\ s + (l + 1) <= MemorySize
          /\ d <= s \/ s + (l + 1) <= d
          /\ d + k <= s \/ s + (l + 1) <= d + k
        BY <2>2, <2>3, <2>5, CLibSizes DEF Library!Room, Library!Apart
    <2>7. memory' = Library!Moved(memory, d, s, l + 1) \/ memory' = Library!Moved(memory, d + k, s, l + 1)
        BY <1>1, <2>2, <2>4, <2>6, UpwardsMoves
    <2>8. Library!Room(s, l + 1)
        BY <2>6 DEF Library!Room
    <2> QED BY <1>2, <2>2, <2>6, <2>7, <2>8
<1> QED BY <1>3, <1>4, <1>5 DEF Library!Next, Library!vars

\* Division with a rest.
LEMMA DivisionWithRest ==
    ASSUME NEW a \in Nat, NEW b \in Nat \ {0}
    PROVE  \E q \in Nat, r \in 0 .. b - 1 : q = a \div b /\ r = a % b /\ a = b * q + r
<1>1. a \div b \in Nat /\ a % b \in 0 .. b - 1
    OBVIOUS
<1>2. a % b = a - b * (a \div b)
    OBVIOUS
<1>3. PICK q \in Nat, r \in 0 .. b - 1 : q = a \div b /\ r = a % b
    BY <1>1
<1>4. r = a - b * q
    BY <1>2, <1>3
<1>5. a = b * q + r
    BY <1>4
<1> QED BY <1>3, <1>5

\* Products of natural numbers grow with their factors.
LEMMA ProductGrows ==
    ASSUME NEW b \in Nat, NEW x \in Nat, NEW y \in Nat, x < y
    PROVE  b * x \in Nat /\ b * y \in Nat /\ b * x + b <= b * y
<1>1. PICK z \in Nat : y = x + 1 + z
    <2>1. y - (x + 1) \in Nat /\ y = x + 1 + (y - (x + 1))
        OBVIOUS
    <2> QED BY <2>1
<1>2. b * y = b * x + b + b * z
    BY <1>1
<1>3. b * z \in Nat /\ b * x \in Nat
    OBVIOUS
<1> QED BY <1>2, <1>3

\* A quotient and a rest below the divisor are those of the division.
LEMMA QuotientOf ==
    ASSUME NEW a \in Nat, NEW b \in Nat \ {0}, NEW q \in Nat, NEW r \in 0 .. b - 1, a = b * q + r
    PROVE  a \div b = q /\ a % b = r
<1>1. a \div b = q
    OBVIOUS
<1>2. a % b = r
    OBVIOUS
<1> QED BY <1>1, <1>2

\* The powers of 2.
LEMMA Powers ==
    /\ \A n \in 0 .. 2 * IntBits : Library!Power2[n] \in Nat \ {0}
    /\ Library!Power2[0] = 1
    /\ \A n \in 1 .. 2 * IntBits : Library!Power2[n] = 2 * Library!Power2[n - 1]
<1> DEFINE top == 2 * IntBits
           Body(f, n) == IF n = 0 THEN 1 ELSE 2 * f[n - 1]
           Unrolls(j, f) == f = [n \in 0 .. j |-> Body(f, n)]
           Bad == {j \in 0 .. top : ~ \E f : Unrolls(j, f)}
<1>1. top \in Nat
    BY IntAssumption
<1> HIDE DEF top
<1>2. Bad = {}
    <2>1. SUFFICES ASSUME Bad # {} PROVE FALSE
        OBVIOUS
    <2>2. Bad \subseteq Nat
        BY <1>1
    <2>3. PICK j \in Bad : \A k \in Bad : j <= k
        <3> HIDE DEF Bad
        <3> QED BY <2>1, <2>2, LeastExists
    <2>4. j # 0
        <3>1. SUFFICES ASSUME j = 0 PROVE FALSE
            OBVIOUS
        <3> DEFINE f == [n \in 0 .. 0 |-> 1]
        <3>2. Unrolls(0, f)
            OBVIOUS
        <3> HIDE DEF f, Unrolls
        <3> QED BY <2>3, <3>1, <3>2
    <2>5. PICK g : Unrolls(j - 1, g)
        <3> HIDE DEF Unrolls
        <3>1. j - 1 \in 0 .. top /\ ~ (j <= j - 1)
            BY <1>1, <2>2, <2>3, <2>4
        <3> QED BY <2>3, <3>1
    <2> DEFINE f == [n \in 0 .. j |-> IF n = j THEN Body(g, n) ELSE g[n]]
    <2>6. Unrolls(j, f)
        <3>1. j \in Nat \ {0}
            BY <2>2, <2>3, <2>4
        <3>2. ASSUME NEW n \in 0 .. j PROVE f[n] = Body(f, n)
            <4>1. n # 0 => n - 1 \in 0 .. j - 1 /\ n - 1 \in 0 .. j /\ n - 1 # j
                BY <3>1
            <4>2. n # 0 => f[n - 1] = g[n - 1]
                BY <4>1
            <4>3. f[n] = IF n = j THEN Body(g, n) ELSE g[n]
                OBVIOUS
            <4>4. n # j => n \in 0 .. j - 1
                BY <3>1
            <4>5. n # j => g[n] = Body(g, n)
                BY <4>4, <2>5
            <4> HIDE DEF f
            <4> QED BY <4>2, <4>3, <4>5
        <3>3. f = [n \in 0 .. j |-> f[n]]
            OBVIOUS
        <3> HIDE DEF f
        <3> QED BY <3>2, <3>3
    <2> HIDE DEF f, Unrolls
    <2> QED BY <2>3, <2>6
<1>3. PICK f : Unrolls(top, f)
    <2>1. top \in 0 .. top /\ top \notin Bad
        BY <1>1, <1>2
    <2> HIDE DEF Unrolls
    <2> QED BY <2>1
<1> DEFINE power == Library!Power2
<1>4. power = CHOOSE h : h = [n \in 0 .. top |-> Body(h, n)]
    BY Zenon DEF Library!Power2, top
<1>5. power = [n \in 0 .. top |-> Body(power, n)]
    BY <1>3, <1>4
<1> HIDE DEF power
<1>6. power[0] = 1 /\ \A n \in 1 .. top : power[n] = 2 * power[n - 1]
    <2>1. \A n \in 0 .. top : power[n] = Body(power, n)
        BY <1>5
    <2>2. 0 \in 0 .. top /\ \A n \in 1 .. top : n \in 0 .. top /\ n # 0
        BY <1>1
    <2> QED BY <2>1, <2>2
<1> DEFINE Wrong == {n \in 0 .. top : power[n] \notin Nat \ {0}}
<1>7. Wrong = {}
    <2>1. SUFFICES ASSUME Wrong # {} PROVE FALSE
        OBVIOUS
    <2>2. PICK n \in Wrong : \A k \in Wrong : n <= k
        <3>1. Wrong \subseteq Nat
            BY <1>1
        <3> HIDE DEF Wrong
        <3> QED BY <2>1, <3>1, LeastExists
    <2>3. n \in 1 .. top
        BY <1>1, <1>6, <2>2
    <2>4. n - 1 \in 0 .. top /\ n - 1 \notin Wrong
        BY <1>1, <2>2, <2>3
    <2>5. power[n - 1] \in Nat \ {0}
        BY <2>4
    <2>6. power[n] = 2 * power[n - 1]
        BY <1>6, <2>3
    <2> QED BY <2>2, <2>5, <2>6
<1>8. \A n \in 0 .. top : power[n] \in Nat \ {0}
    BY <1>7
<1> QED BY <1>6, <1>8 DEF power, top

\* The product of two powers is a power.
LEMMA PowerOfSum ==
    ASSUME NEW a \in Nat, NEW b \in Nat, a + b <= 2 * IntBits
    PROVE  Library!Power2[a + b] = Library!Power2[a] * Library!Power2[b]
<1> DEFINE top == 2 * IntBits
           p(n) == Library!Power2[n]
           Bad == {k \in 0 .. b : p(a + k) # p(a) * p(k)}
<1>1. top \in Nat /\ a + b <= top
    BY IntAssumption
<1>2. /\ \A n \in 0 .. top : p(n) \in Nat \ {0}
      /\ p(0) = 1
      /\ \A n \in 1 .. top : p(n) = 2 * p(n - 1)
    BY Powers
<1> HIDE DEF top, p
<1>3. Bad = {}
    <2>1. SUFFICES ASSUME Bad # {} PROVE FALSE
        OBVIOUS
    <2>2. PICK k \in Bad : \A j \in Bad : k <= j
        <3>1. Bad \subseteq Nat
            OBVIOUS
        <3> HIDE DEF Bad
        <3> QED BY <2>1, <3>1, LeastExists
    <2>3. k # 0
        <3>1. p(a) \in Nat /\ a + 0 = a
            BY <1>1, <1>2
        <3>2. p(a + 0) = p(a) * p(0)
            BY <1>2, <3>1
        <3> QED BY <2>2, <3>2
    <2>4. k - 1 \in 0 .. b /\ k - 1 \notin Bad
        BY <2>2, <2>3
    <2>5. /\ a + k \in 1 .. top /\ k \in 1 .. top /\ (a + k) - 1 = a + (k - 1)
          /\ a \in 0 .. top /\ k - 1 \in 0 .. top
        BY <1>1, <2>2, <2>3
    <2> DEFINE x == p(a)
               y == p(k - 1)
    <2>6. p(a + k) = 2 * (x * y) /\ p(k) = 2 * y /\ x \in Nat /\ y \in Nat
        BY <1>2, <2>4, <2>5
    <2> HIDE DEF x, y
    <2>7. 2 * (x * y) = x * (2 * y)
        BY <2>6
    <2> QED BY <2>2, <2>6, <2>7 DEF x
<1>4. p(a + b) = p(a) * p(b)
    BY <1>3
<1> QED BY <1>4 DEF p

\* A smaller power is less than half a larger one, or half of it.
LEMMA PowersGrow ==
    ASSUME NEW a \in Nat, NEW b \in Nat, a < b, b <= 2 * IntBits
    PROVE  2 * Library!Power2[a] <= Library!Power2[b]
<1>1. /\ a + 1 \in 1 .. 2 * IntBits /\ b - (a + 1) \in 0 .. 2 * IntBits
      /\ (a + 1) - 1 = a /\ (a + 1) + (b - (a + 1)) = b /\ a \in 0 .. 2 * IntBits
    BY IntAssumption
<1> DEFINE x == Library!Power2[a]
           z == Library!Power2[b - (a + 1)]
<1>2. Library!Power2[b] = Library!Power2[a + 1] * z
    <2>1. a + 1 \in Nat /\ b - (a + 1) \in Nat
        BY <1>1
    <2>2. Library!Power2[(a + 1) + (b - (a + 1))] = Library!Power2[a + 1] * z
        BY <1>1, <2>1, PowerOfSum
    <2> QED BY <1>1, <2>2
<1>3. Library!Power2[a + 1] = 2 * x /\ x \in Nat /\ z \in Nat \ {0}
    BY <1>1, Powers
<1> HIDE DEF x, z
<1>4. 2 * x \in Nat /\ 0 < z /\ (2 * x) * 0 = 0
    BY <1>3
<1>5. 2 * x <= (2 * x) * z
    <2> DEFINE y == 2 * x
    <2>1. y \in Nat
        BY <1>4
    <2> HIDE DEF y
    <2>2. y * 0 + y <= y * z
        BY <1>3, <1>4, <2>1, ProductGrows
    <2>3. y <= y * z
        BY <2>1, <2>2
    <2> QED BY <2>3 DEF y
<1> QED BY <1>2, <1>3, <1>5 DEF x

\* Half the values of an int are negative, and a long has as many values as pairs
\* of ints.
LEMMA ValuesOf ==
    /\ Library!Power2[IntBits - 1] \in Nat \ {0}
    /\ Library!Values = 2 * Library!Power2[IntBits - 1]
    /\ Library!Values * Library!Values = Library!Power2[2 * IntBits]
    /\ Library!IntMin = -Library!Power2[IntBits - 1]
<1>1. IntBits \in 1 .. 2 * IntBits /\ IntBits - 1 \in 0 .. 2 * IntBits
    BY IntAssumption
<1>2. Library!Power2[IntBits + IntBits] = Library!Power2[IntBits] * Library!Power2[IntBits]
    BY IntAssumption, PowerOfSum
<1>3. IntBits + IntBits = 2 * IntBits
    BY IntAssumption
<1> QED BY <1>1, <1>2, <1>3, Powers DEF Library!Values, Library!IntMin

\* Wrap gives an int, and an int itself.
LEMMA WrapOf ==
    ASSUME NEW v \in Int
    PROVE  /\ Library!Wrap(v) \in Library!IntMin .. -Library!IntMin - 1
           /\ v \in Library!IntMin .. -Library!IntMin - 1 => Library!Wrap(v) = v
<1> DEFINE h == Library!Power2[IntBits - 1]
<1>1. h \in Nat \ {0} /\ Library!Values = 2 * h /\ Library!IntMin = -h
    BY ValuesOf
<1> HIDE DEF h
<1>2. PICK k \in Nat \ {0} : k = 2 * h
    BY <1>1
<1>3. Library!Wrap(v) = ((v - (-h)) % k) + (-h)
    BY <1>1, <1>2 DEF Library!Wrap
<1>4. v - (-h) = v + h /\ v + h \in Int
    BY <1>1
<1>5. (v + h) % k \in 0 .. k - 1
    BY <1>4
<1>6. v \in -h .. h - 1 => (v + h) % k = v + h
    BY <1>1, <1>2
<1>7. Library!Wrap(v) = ((v + h) % k) - h
    BY <1>1, <1>3, <1>4, <1>5
<1> HIDE DEF Library!Wrap
<1>8. Library!Wrap(v) \in -h .. h - 1 /\ (v \in -h .. h - 1 => Library!Wrap(v) = v)
    BY <1>1, <1>2, <1>5, <1>6, <1>7
<1>9. -(-h) = h
    BY <1>1
<1> QED BY <1>1, <1>8, <1>9

\* The mask of a bit below the sign is its power of 2.
LEMMA MaskOf ==
    ASSUME NEW n \in 0 .. IntBits - 2
    PROVE  Library!Mask(n) = Library!Power2[n]
<1> DEFINE p == Library!Power2[n]
           h == Library!Power2[IntBits - 1]
           k == Library!Power2[2 * IntBits]
<1>1. n % IntBits = n
    BY IntAssumption
<1>2. p \in Nat \ {0} /\ h \in Nat \ {0} /\ k \in Nat \ {0}
    <2>1. n \in 0 .. 2 * IntBits /\ IntBits - 1 \in 0 .. 2 * IntBits /\ 2 * IntBits \in 0 .. 2 * IntBits
        BY IntAssumption
    <2> QED BY <2>1, Powers
<1>3. 2 * p <= h
    <2>1. n \in Nat /\ IntBits - 1 \in Nat /\ n < IntBits - 1 /\ IntBits - 1 <= 2 * IntBits
        BY IntAssumption
    <2> QED BY <2>1, PowersGrow
<1>4. 2 * h <= k
    <2>1. IntBits - 1 \in Nat /\ 2 * IntBits \in Nat /\ IntBits - 1 < 2 * IntBits /\ 2 * IntBits <= 2 * IntBits
        BY IntAssumption
    <2> QED BY <2>1, PowersGrow
<1>5. Library!Mask(n) = Library!Wrap(p) % k
    BY <1>1, ValuesOf DEF Library!Mask
<1>6. Library!IntMin = -h
    BY ValuesOf
<1> HIDE DEF p, h, k
<1>7. p \in Library!IntMin .. -Library!IntMin - 1
    BY <1>2, <1>3, <1>6
<1>8. Library!Wrap(p) = p
    BY <1>2, <1>7, WrapOf
<1>9. p % k = p
    BY <1>2, <1>3, <1>4
<1> QED BY <1>5, <1>8, <1>9 DEF p

\* A power of 2 has one bit.
LEMMA BitOfPower ==
    ASSUME NEW n \in 0 .. 2 * IntBits - 1, NEW i \in 0 .. 2 * IntBits - 1
    PROVE  Library!Bit(Library!Power2[n], i) = IF i = n THEN 1 ELSE 0
<1>1. /\ n \in Nat /\ i \in Nat /\ n \in 0 .. 2 * IntBits /\ i \in 0 .. 2 * IntBits
      /\ i <= 2 * IntBits /\ n <= 2 * IntBits
    BY IntAssumption
<1> DEFINE p == Library!Power2[n]
           x == Library!Power2[i]
<1>2. p \in Nat \ {0} /\ x \in Nat \ {0}
    BY <1>1, Powers
<1>3. Library!Bit(p, i) = (p \div x) % 2
    BY DEF Library!Bit
<1>4. CASE i = n
    <2>1. p = x
        BY <1>4
    <2> HIDE DEF p, x
    <2>2. p = x * 1 + 0 /\ 0 \in 0 .. x - 1
        BY <1>2, <2>1
    <2>3. p \div x = 1
        BY <1>2, <2>2, QuotientOf
    <2>4. 1 % 2 = 1
        OBVIOUS
    <2> QED BY <1>3, <1>4, <2>3, <2>4 DEF p
<1>5. CASE n < i
    <2>1. 2 * p <= x
        BY <1>1, <1>5, PowersGrow
    <2> HIDE DEF p, x
    <2>2. p = x * 0 + p /\ p \in 0 .. x - 1
        BY <1>2, <2>1
    <2>3. p \div x = 0
        BY <1>2, <2>2, QuotientOf
    <2>4. 0 % 2 = 0
        OBVIOUS
    <2> QED BY <1>1, <1>3, <1>5, <2>3, <2>4 DEF p
<1>6. CASE i < n
    <2> DEFINE y == Library!Power2[n - i - 1]
    <2>1. n - i \in Nat /\ i + (n - i) = n /\ n - i \in 1 .. 2 * IntBits /\ n - i - 1 \in 0 .. 2 * IntBits
        BY <1>1, <1>6, IntAssumption
    <2>2. Library!Power2[i + (n - i)] = x * Library!Power2[n - i]
        BY <1>1, <2>1, PowerOfSum
    <2>3. Library!Power2[n - i] = 2 * y /\ y \in Nat \ {0}
        BY <2>1, Powers
    <2>4. p = x * (2 * y)
        BY <2>1, <2>2, <2>3
    <2> HIDE DEF p, x, y
    <2> DEFINE q == 2 * y
    <2>5. q \in Nat
        BY <2>3
    <2>6. q % 2 = 0
        BY <2>3
    <2> HIDE DEF q
    <2>7. x * q \in Nat /\ p = x * q
        BY <1>2, <2>4, <2>5 DEF q
    <2>8. p = x * q + 0 /\ 0 \in 0 .. x - 1
        BY <1>2, <2>7
    <2>9. p \div x = q
        BY <1>2, <2>5, <2>8, QuotientOf
    <2> QED BY <1>1, <1>3, <1>6, <2>6, <2>9 DEF p
<1> QED BY <1>1, <1>4, <1>5, <1>6

\* A bit counts its power of 2.
LEMMA BitSplits ==
    ASSUME NEW num \in Nat, NEW i \in 0 .. 2 * IntBits - 1
    PROVE  \E a \in Nat, b \in {0, 1}, r \in 0 .. Library!Power2[i] - 1 :
               /\ num = Library!Power2[i + 1] * a + (Library!Power2[i] * b + r)
               /\ b = Library!Bit(num, i)
               /\ num % Library!Power2[i] = r
               /\ num % Library!Power2[i + 1] = Library!Power2[i] * b + r
<1>1. i \in 0 .. 2 * IntBits /\ i + 1 \in 1 .. 2 * IntBits /\ (i + 1) - 1 = i
    BY IntAssumption
<1> DEFINE x == Library!Power2[i]
           y == Library!Power2[i + 1]
<1>2. x \in Nat \ {0} /\ y = 2 * x
    BY <1>1, Powers
<1>3. Library!Bit(num, i) = (num \div x) % 2
    BY DEF Library!Bit
<1> HIDE DEF x, y
<1>4. PICK q \in Nat, r \in 0 .. x - 1 : q = num \div x /\ r = num % x /\ num = x * q + r
    BY <1>2, DivisionWithRest
<1>5. PICK a \in Nat, b \in 0 .. 1 : b = q % 2 /\ q = 2 * a + b
    <2>1. 2 \in Nat \ {0} /\ 2 - 1 = 1
        OBVIOUS
    <2> QED BY <2>1, DivisionWithRest
<1>6. num = y * a + (x * b + r)
    <2>1. x * (2 * a + b) = (2 * x) * a + x * b
        BY <1>2
    <2>2. x * b \in Nat /\ y * a \in Nat
        BY <1>2
    <2>3. num = x * (2 * a + b) + r
        BY <1>4, <1>5
    <2>4. (2 * x) * a = y * a
        BY <1>2
    <2> DEFINE u == x * b
               w == y * a
               z == x * (2 * a + b)
    <2> HIDE DEF u, w, z
    <2>5. u \in Nat /\ w \in Nat /\ num = z + r /\ z = w + u
        BY <2>1, <2>2, <2>3, <2>4 DEF u, w, z
    <2>6. num = w + (u + r)
        BY <2>5
    <2> QED BY <2>6 DEF u, w
<1>7. x * b + r \in 0 .. y - 1 /\ y \in Nat \ {0}
    <2>1. CASE b = 0
        BY <1>2, <2>1
    <2>2. CASE b = 1
        BY <1>2, <2>2
    <2> QED BY <2>1, <2>2
<1>8. num % y = x * b + r
    BY <1>6, <1>7, QuotientOf
<1>9. b = Library!Bit(num, i) /\ b \in {0, 1}
    BY <1>3, <1>4, <1>5
<1> QED BY <1>4, <1>6, <1>8, <1>9 DEF x, y

\* flip_bit adds or takes away the power of 2 of the bit.
LEMMA FlipAddsPower ==
    ASSUME NEW num \in 0 .. Library!Power2[2 * IntBits] - 1, NEW n \in 0 .. IntBits - 2
    PROVE  Library!flip_bit(num, n) =
               IF Library!Bit(num, n) = 0 THEN num + Library!Power2[n] ELSE num - Library!Power2[n]
<1> DEFINE top == 2 * IntBits
           p(i) == Library!Power2[i]
           bit(i) == Library!Bit(num, i)
           change == IF bit(n) = 0 THEN p(n) ELSE -p(n)
           \* What the bits below i come to.
           below(i) == (num % p(i)) + (IF n < i THEN change ELSE 0)
           Body(f, i) == IF i = 0 THEN 0
                         ELSE f[i - 1] + p(i - 1) * ((bit(i - 1) + Library!Bit(Library!Mask(n), i - 1)) % 2)
           f == [i \in 0 .. top |-> below(i)]
<1>1. top \in Nat /\ n \in 0 .. top - 1 /\ n \in Nat /\ num \in Nat
    <2>1. 2 * IntBits \in 0 .. 2 * IntBits
        BY IntAssumption
    <2> QED BY <2>1, IntAssumption, Powers
<1>2. \A i \in 0 .. top : p(i) \in Nat \ {0}
    BY Powers
<1>3. ASSUME NEW i \in 0 .. top - 1
      PROVE  /\ bit(i) \in {0, 1}
             /\ num % p(i) \in Int
             /\ num % p(i + 1) = (num % p(i)) + p(i) * bit(i)
    <2>1. PICK a \in Nat, b \in {0, 1}, r \in 0 .. Library!Power2[i] - 1 :
               /\ num = Library!Power2[i + 1] * a + (Library!Power2[i] * b + r)
               /\ b = Library!Bit(num, i)
               /\ num % Library!Power2[i] = r
               /\ num % Library!Power2[i + 1] = Library!Power2[i] * b + r
        BY <1>1, BitSplits
    <2>2. p(i) \in Nat /\ r \in Int
        BY <1>1, <1>2
    <2>3. p(i) * b \in Nat
        BY <2>2
    <2>4. p(i) * b + r = r + p(i) * b
        BY <2>2, <2>3
    <2> QED BY <2>1, <2>2, <2>4
<1>4. ASSUME NEW i \in 0 .. top - 1
      PROVE  Library!Bit(Library!Mask(n), i) = IF i = n THEN 1 ELSE 0
    BY <1>1, MaskOf, BitOfPower
<1>5. below(0) = 0
    <2>1. p(0) = 1 /\ num % 1 = 0 /\ ~ (n < 0)
        BY <1>1, Powers
    <2> HIDE DEF p
    <2> QED BY <2>1
<1> HIDE DEF p, bit, top
<1>6. ASSUME NEW i \in 0 .. top - 1
      PROVE  below(i + 1) = below(i) + p(i) * ((bit(i) + Library!Bit(Library!Mask(n), i)) % 2)
    <2> DEFINE x == p(i)
               r == num % p(i)
               b == bit(i)
    <2>1. /\ x \in Nat \ {0} /\ b \in {0, 1} /\ r \in Int
          /\ num % p(i + 1) = r + x * b
        BY <1>1, <1>2, <1>3
    <2>2. change \in Int
        BY <1>1, <1>2
    <2> HIDE DEF x, r, b
    <2>3. CASE i = n
        <3>1. below(i) = r /\ below(i + 1) = (r + x * b) + (IF b = 0 THEN x ELSE -x)
            BY <1>1, <2>1, <2>3 DEF r, b, x
        <3>2. Library!Bit(Library!Mask(n), i) = 1
            BY <1>4, <2>3
        <3>3. CASE b = 0
            <4>1. (b + 1) % 2 = 1
                BY <3>3
            <4>2. (r + x * b) + x = r + x * 1
                BY <2>1, <3>3
            <4> HIDE DEF below
            <4> QED BY <3>1, <3>2, <3>3, <4>1, <4>2 DEF b, x
        <3>4. CASE b = 1
            <4>1. (b + 1) % 2 = 0
                BY <3>4
            <4>2. (r + x * b) + (-x) = r + x * 0
                BY <2>1, <3>4
            <4> HIDE DEF below
            <4> QED BY <3>1, <3>2, <3>4, <4>1, <4>2 DEF b, x
        <3> QED BY <2>1, <3>3, <3>4
    <2>4. CASE i # n
        <3>1. n < i <=> n < i + 1
            BY <1>1, <2>4
        <3>2. (b + 0) % 2 = b
            BY <2>1
        <3>3. Library!Bit(Library!Mask(n), i) = 0
            BY <1>4, <2>4
        <3> DEFINE c == IF n < i THEN change ELSE 0
        <3>4. c \in Int
            BY <2>2
        <3>5. below(i) = r + c /\ below(i + 1) = (r + x * b) + c
            BY <2>1, <3>1 DEF r
        <3> HIDE DEF c, below
        <3>6. x * b \in Nat
            BY <2>1
        <3>7. (r + x * b) + c = (r + c) + x * b
            BY <2>1, <3>4, <3>6
        <3> QED BY <3>2, <3>3, <3>5, <3>7 DEF b, x
    <2> QED BY <2>3, <2>4
<1> HIDE DEF below
<1>7. f = [i \in 0 .. top |-> Body(f, i)]
    <2>1. ASSUME NEW i \in 0 .. top PROVE f[i] = Body(f, i)
        <3>1. CASE i = 0
            BY <1>5, <3>1
        <3>2. CASE i # 0
            <4>1. i - 1 \in 0 .. top - 1 /\ (i - 1) + 1 = i /\ i - 1 \in 0 .. top
                BY <1>1, <3>2
            <4>2. f[i - 1] = below(i - 1) /\ f[i] = below(i)
                BY <4>1
            <4>3. below((i - 1) + 1) = below(i - 1) + p(i - 1) * ((bit(i - 1) + Library!Bit(Library!Mask(n), i - 1)) % 2)
                BY <1>6, <4>1
            <4> HIDE DEF f
            <4> QED BY <3>2, <4>1, <4>2, <4>3
        <3> QED BY <3>1, <3>2
    <2> QED BY <2>1
<1> HIDE DEF f
<1> DEFINE flipped == CHOOSE g : g = [i \in 0 .. top |-> Body(g, i)]
<1>8. Library!flip_bit(num, n) = flipped[top]
    BY Zenon DEF Library!flip_bit, p, bit, top
<1>9. flipped = [i \in 0 .. top |-> Body(flipped, i)]
    BY <1>7
<1> HIDE DEF flipped
<1>10. flipped[0] = 0 /\ \A i \in 1 .. top :
           flipped[i] = flipped[i - 1] + p(i - 1) * ((bit(i - 1) + Library!Bit(Library!Mask(n), i - 1)) % 2)
    <2>1. \A i \in 0 .. top : flipped[i] = Body(flipped, i)
        BY <1>9
    <2>2. 0 \in 0 .. top /\ \A i \in 1 .. top : i \in 0 .. top /\ i # 0
        BY <1>1
    <2> HIDE DEF Body
    <2>3. \A i \in 1 .. top : flipped[i] = Body(flipped, i)
        BY <2>1, <2>2
    <2> USE DEF Body
    <2> QED BY <2>1, <2>2, <2>3
<1> DEFINE Bad == {i \in 0 .. top : flipped[i] # below(i)}
<1>11. Bad = {}
    <2>1. SUFFICES ASSUME Bad # {} PROVE FALSE
        OBVIOUS
    <2>2. PICK i \in Bad : \A k \in Bad : i <= k
        <3>1. Bad \subseteq Nat
            BY <1>1
        <3> HIDE DEF Bad
        <3> QED BY <2>1, <3>1, LeastExists
    <2>3. i # 0
        BY <1>5, <1>10, <2>2
    <2>4. i \in 1 .. top /\ i - 1 \in 0 .. top /\ i - 1 \notin Bad /\ i - 1 \in 0 .. top - 1 /\ (i - 1) + 1 = i
        BY <1>1, <2>2, <2>3
    <2>5. flipped[i - 1] = below(i - 1)
        BY <2>4
    <2> QED BY <1>6, <1>10, <2>2, <2>4, <2>5
<1>12. flipped[top] = below(top)
    BY <1>1, <1>11
<1>13. num % p(top) = num
    BY <1>1, <1>2 DEF p, top
<1>14. below(top) = num + change
    BY <1>1, <1>13 DEF below
<1>15. num + (-p(n)) = num - p(n)
    BY <1>1, <1>2
<1> QED BY <1>8, <1>12, <1>14, <1>15 DEF p, bit

\* flip_bit changes the bit, and undoes what it has done.
LEMMA FlipTwice ==
    ASSUME NEW num \in 0 .. Library!Power2[2 * IntBits] - 1, NEW n \in 0 .. IntBits - 2
    PROVE  /\ Library!check_bit(Library!flip_bit(num, n), n) # Library!check_bit(num, n)
           /\ Library!flip_bit(Library!flip_bit(num, n), n) = num
<1> DEFINE top == 2 * IntBits
           x == Library!Power2[n]
           y == Library!Power2[n + 1]
           z == Library!Power2[top - (n + 1)]
           other == Library!flip_bit(num, n)
<1>1. /\ n \in 0 .. top - 1 /\ n + 1 \in 1 .. top /\ top - (n + 1) \in 0 .. top /\ n \in 0 .. top
      /\ (n + 1) - 1 = n /\ top \in 0 .. top /\ n + 1 \in Nat /\ top - (n + 1) \in Nat
      /\ (n + 1) + (top - (n + 1)) = top
    BY IntAssumption
<1>2. x \in Nat \ {0} /\ y = 2 * x /\ z \in Nat /\ Library!Power2[top] \in Nat
    BY <1>1, Powers
<1>3. Library!Power2[top] = y * z
    <2>1. Library!Power2[(n + 1) + (top - (n + 1))] = y * z
        BY <1>1, PowerOfSum
    <2> QED BY <1>1, <2>1
<1>4. num \in Nat /\ num < y * z
    BY <1>2, <1>3
<1>5. PICK a \in Nat, b \in {0, 1}, r \in 0 .. x - 1 :
          num = y * a + (x * b + r) /\ b = Library!Bit(num, n)
    <2>1. n \in 0 .. 2 * IntBits - 1
        BY <1>1
    <2>2. PICK a \in Nat, b \in {0, 1}, r \in 0 .. Library!Power2[n] - 1 :
              /\ num = Library!Power2[n + 1] * a + (Library!Power2[n] * b + r)
              /\ b = Library!Bit(num, n)
        BY <1>4, <2>1, BitSplits
    <2> QED BY <2>2
<1>6. other = IF b = 0 THEN num + x ELSE num - x
    BY <1>5, FlipAddsPower
<1> DEFINE c == 1 - b
<1>7. c \in {0, 1} /\ c # b
    BY <1>5
<1>8. \A m \in Nat : Library!Bit(m, n) = (m \div x) % 2
    BY DEF Library!Bit
<1> HIDE DEF x, y, z, other, top
<1>9. other = y * a + (x * c + r)
    <2> DEFINE w == y * a
    <2>1. w \in Nat
        BY <1>2
    <2> HIDE DEF w
    <2>2. num = w + (x * b + r)
        BY <1>5 DEF w
    <2>3. other = w + (x * c + r)
        <3>1. CASE b = 0
            BY <1>2, <1>6, <2>1, <2>2, <3>1
        <3>2. CASE b = 1
            BY <1>2, <1>6, <2>1, <2>2, <3>2
        <3> QED BY <3>1, <3>2
    <2> QED BY <2>3 DEF w
<1> HIDE DEF c
<1>10. a < z
    <2>1. SUFFICES ASSUME z <= a PROVE FALSE
        BY <1>2
    <2>2. y * z <= y * a
        <3>1. CASE z = a
            <4>1. y * a \in Nat
                BY <1>2
            <4> QED BY <3>1, <4>1
        <3>2. CASE z < a
            <4>1. y \in Nat
                BY <1>2
            <4>2. y * z \in Nat /\ y * a \in Nat /\ y * z + y <= y * a
                BY <1>2, <3>2, <4>1, ProductGrows
            <4> QED BY <4>1, <4>2
        <3> QED BY <1>2, <2>1, <3>1, <3>2
    <2> DEFINE w == y * a
               v == y * z
               u == x * b + r
    <2>3. w \in Nat /\ v \in Nat /\ u \in Nat
        BY <1>2
    <2>4. num = w + u /\ num < v /\ v <= w
        BY <1>4, <1>5, <2>2
    <2> HIDE DEF w, v, u
    <2> QED BY <2>3, <2>4
<1>11. other \in 0 .. Library!Power2[top] - 1
    <2>1. x * c + r \in 0 .. y - 1
        <3>1. CASE c = 0
            BY <1>2, <3>1
        <3>2. CASE c = 1
            BY <1>2, <3>2
        <3> QED BY <1>7, <3>1, <3>2
    <2>2. y \in Nat
        BY <1>2
    <2>3. y * a \in Nat /\ y * z \in Nat /\ y * a + y <= y * z
        BY <1>2, <1>10, <2>2, ProductGrows
    <2> DEFINE w == y * a
               v == y * z
               u == x * c + r
    <2>4. other = w + u /\ u \in 0 .. y - 1 /\ w \in Nat /\ v \in Nat /\ w + y <= v
        BY <1>9, <2>1, <2>3
    <2> HIDE DEF w, v, u
    <2>5. other \in 0 .. v - 1
        BY <2>2, <2>4
    <2> QED BY <1>3, <2>5 DEF v
<1>12. Library!Bit(other, n) = c
    <2> DEFINE q == 2 * a + c
    <2>1. q \in Nat
        BY <1>7
    <2>2. x * q + r = y * a + (x * c + r)
        <3>1. x * (2 * a + c) = (2 * x) * a + x * c
            BY <1>2, <1>7
        <3>2. (2 * x) * a = y * a
            BY <1>2
        <3>3. x * c \in Nat /\ y * a \in Nat
            BY <1>2, <1>7
        <3> DEFINE u == x * c
                   w == y * a
                   v == x * (2 * a + c)
        <3>4. v = w + u /\ u \in Nat /\ w \in Nat
            BY <3>1, <3>2, <3>3
        <3> HIDE DEF u, w, v
        <3>5. v + r = w + (u + r)
            BY <3>4
        <3> QED BY <3>5 DEF u, w, v
    <2>3. other \in Nat
        BY <1>2, <1>11
    <2>4. q % 2 = c
        <3>1. 2 \in Nat \ {0} /\ c \in 0 .. 2 - 1 /\ q = 2 * a + c
            BY <1>7
        <3> QED BY <2>1, <3>1, QuotientOf
    <2> HIDE DEF q
    <2>5. other = x * q + r
        BY <1>9, <2>2
    <2>6. other \div x = q
        BY <1>2, <2>1, <2>3, <2>5, QuotientOf
    <2> QED BY <1>8, <2>3, <2>4, <2>6
<1>13. Library!check_bit(other, n) # Library!check_bit(num, n)
    BY <1>5, <1>7, <1>12 DEF Library!check_bit
<1>14. Library!flip_bit(other, n) = IF c = 0 THEN other + x ELSE other - x
    BY <1>11, <1>12, FlipAddsPower DEF x, top
<1>15. Library!flip_bit(other, n) = num
    <2>1. CASE b = 0
        BY <1>2, <1>4, <1>6, <1>14, <2>1 DEF c
    <2>2. CASE b = 1
        BY <1>2, <1>4, <1>6, <1>14, <2>2 DEF c
    <2> QED BY <2>1, <2>2
<1> QED BY <1>13, <1>15 DEF other

\* What the digits in front of each place of a text come to; a sign counts nothing.
ValueBody(text, g, i) == IF i = 0 THEN 0 ELSE IF text[i] = -1 THEN 0 ELSE 10 * g[i - 1] + text[i]

Evaluates(text, g) == g = [i \in 0 .. Len(text) |-> ValueBody(text, g, i)]

\* The value of a text is that of its digits, with its sign.
LEMMA ValueOfIs ==
    ASSUME NEW text, Len(text) \in Nat, NEW g, Evaluates(text, g)
    PROVE  Library!ValueOf(text) = IF text # <<>> /\ text[1] = -1 THEN -g[Len(text)] ELSE g[Len(text)]
<1> DEFINE n == Len(text)
           value == CHOOSE f : Evaluates(text, f)
<1>1. Library!ValueOf(text) = IF text # <<>> /\ text[1] = -1 THEN -value[n] ELSE value[n]
    BY Zenon DEF Library!ValueOf, Evaluates, ValueBody
<1>2. Evaluates(text, value)
    OBVIOUS
<1> HIDE DEF value, n
<1>3. \A i \in 0 .. n : value[i] = ValueBody(text, value, i) /\ g[i] = ValueBody(text, g, i)
    BY <1>2 DEF Evaluates, n
<1> DEFINE Bad == {i \in 0 .. n : value[i] # g[i]}
<1>4. Bad = {}
    <2>1. SUFFICES ASSUME Bad # {} PROVE FALSE
        OBVIOUS
    <2>2. PICK i \in Bad : \A k \in Bad : i <= k
        <3>1. Bad \subseteq Nat
            BY DEF n
        <3> HIDE DEF Bad
        <3> QED BY <2>1, <3>1, LeastExists
    <2>3. i # 0
        BY <1>3, <2>2 DEF ValueBody
    <2>4. i - 1 \in 0 .. n /\ i - 1 \notin Bad /\ i \in 0 .. n
        BY <2>2, <2>3 DEF n
    <2>5. value[i - 1] = g[i - 1]
        BY <2>4
    <2>6. value[i] = g[i]
        BY <1>3, <2>4, <2>5 DEF ValueBody
    <2> QED BY <2>2, <2>6
<1>5. value[n] = g[n]
    BY <1>4 DEF n
<1> QED BY <1>1, <1>5 DEF n

\* A sequence of digits reads as a number.
Digit == 0 .. 9

\* The digits t, none of them a sign, come to x.
ReadsAs(t, x) ==
    /\ t \in Seq(Digit)
    /\ \E g \in [0 .. Len(t) -> Nat] : Evaluates(t, g) /\ g[Len(t)] = x

\* No digits come to 0.
LEMMA EmptyReadsAs == ReadsAs(<<>>, 0)
<1> DEFINE g == [i \in 0 .. 0 |-> 0]
<1>1. Len(<<>>) = 0 /\ <<>> \in Seq(Digit)
    OBVIOUS
<1>2. g \in [0 .. 0 -> Nat] /\ g[0] = 0
    OBVIOUS
<1>3. g = [i \in 0 .. 0 |-> ValueBody(<<>>, g, i)]
    BY DEF ValueBody
<1> HIDE DEF g
<1> QED BY <1>1, <1>2, <1>3 DEF ReadsAs, Evaluates

\* One more digit at the end counts the ones before it tenfold.
LEMMA AppendReadsAs ==
    ASSUME NEW t, NEW x, ReadsAs(t, x), NEW d \in Digit
    PROVE  x \in Nat /\ ReadsAs(Append(t, d), 10 * x + d)
<1> DEFINE n == Len(t)
           u == Append(t, d)
<1>1. PICK g \in [0 .. n -> Nat] : Evaluates(t, g) /\ g[n] = x
    BY DEF ReadsAs
<1>2. t \in Seq(Digit) /\ n \in Nat
    BY DEF ReadsAs
<1>3. u \in Seq(Digit) /\ Len(u) = n + 1 /\ u[n + 1] = d /\ \A i \in 1 .. n : u[i] = t[i]
    BY <1>2
<1> DEFINE h == [i \in 0 .. n + 1 |-> IF i = n + 1 THEN 10 * g[n] + d ELSE g[i]]
<1>4. x \in Nat /\ 10 * g[n] + d \in Nat /\ d # -1
    BY <1>1, <1>2 DEF Digit
<1>5. h \in [0 .. n + 1 -> Nat] /\ h[n + 1] = 10 * x + d
    <2>1. \A i \in 0 .. n + 1 : i # n + 1 => i \in 0 .. n
        BY <1>2
    <2> QED BY <1>1, <1>2, <1>4, <2>1
<1> HIDE DEF n, u
<1>6. \A i \in 0 .. n : g[i] = ValueBody(t, g, i)
    BY <1>1 DEF Evaluates, n
<1>7. h = [i \in 0 .. n + 1 |-> ValueBody(u, h, i)]
    <2>1. ASSUME NEW i \in 0 .. n + 1 PROVE h[i] = ValueBody(u, h, i)
        <3>1. CASE i = n + 1
            <4>1. h[i] = 10 * g[n] + d /\ i # 0 /\ u[i] = d /\ i - 1 = n
                BY <1>2, <1>3, <3>1
            <4>2. h[n] = g[n]
                BY <1>2
            <4> HIDE DEF h
            <4> QED BY <1>4, <4>1, <4>2 DEF ValueBody
        <3>2. CASE i # n + 1
            <4>1. i \in 0 .. n /\ (i # 0 => i - 1 \in 0 .. n /\ i \in 1 .. n)
                BY <1>2, <3>2
            <4>2. h[i] = g[i] /\ (i # 0 => h[i - 1] = g[i - 1])
                BY <1>2, <4>1
            <4> HIDE DEF h
            <4> QED BY <1>3, <1>6, <4>1, <4>2 DEF ValueBody
        <3> QED BY <3>1, <3>2
    <2>2. h = [i \in 0 .. n + 1 |-> h[i]]
        OBVIOUS
    <2> HIDE DEF h
    <2> QED BY <2>1, <2>2
<1> HIDE DEF h
<1>8. Evaluates(u, h)
    BY <1>3, <1>7 DEF Evaluates
<1>9. ReadsAs(u, 10 * x + d)
    BY <1>3, <1>5, <1>8 DEF ReadsAs
<1> QED BY <1>4, <1>9 DEF u

\* Without a sign the text stands for the number, with one in front for the
\* negative.
LEMMA TextReadsAs ==
    ASSUME NEW t, NEW x, ReadsAs(t, x)
    PROVE  /\ Library!ValueOf(t) = x
           /\ Library!ValueOf(<<-1>> \o t) = -x
<1> DEFINE n == Len(t)
           u == <<-1>> \o t
<1>1. PICK g \in [0 .. n -> Nat] : Evaluates(t, g) /\ g[n] = x
    BY DEF ReadsAs
<1>2. t \in Seq(Digit) /\ n \in Nat
    BY DEF ReadsAs
<1>3. t # <<>> => t[1] # -1
    <2>1. \A i \in 1 .. n : t[i] \in Digit
        BY <1>2
    <2>2. t # <<>> => 1 \in 1 .. n
        BY <1>2
    <2> QED BY <2>1, <2>2 DEF Digit
<1>4. Library!ValueOf(t) = x
    BY <1>1, <1>2, <1>3, ValueOfIs
<1>5. Len(u) = n + 1 /\ u[1] = -1 /\ (\A i \in 2 .. n + 1 : u[i] = t[i - 1]) /\ u # <<>>
    <2>1. t \in Seq(Int) /\ <<-1>> \in Seq(Int) /\ Len(<<-1>>) = 1 /\ <<-1>>[1] = -1
        BY <1>2 DEF Digit
    <2>2. u \in Seq(Int) /\ Len(u) = 1 + n
          /\ \A i \in 1 .. 1 + n : u[i] = IF i <= 1 THEN <<-1>>[i] ELSE t[i - 1]
        BY <2>1, ConcatProperties
    <2> HIDE DEF u
    <2> QED BY <1>2, <2>1, <2>2
<1> DEFINE h == [i \in 0 .. n + 1 |-> IF i = 0 THEN 0 ELSE g[i - 1]]
<1> HIDE DEF n, u
<1>6. \A i \in 0 .. n : g[i] = ValueBody(t, g, i)
    BY <1>1 DEF Evaluates, n
<1>7. g[0] = 0
    BY <1>2, <1>6 DEF ValueBody
<1>8. h = [i \in 0 .. n + 1 |-> ValueBody(u, h, i)]
    <2>1. ASSUME NEW i \in 0 .. n + 1 PROVE h[i] = ValueBody(u, h, i)
        <3>1. CASE i = 0
            BY <3>1 DEF ValueBody
        <3>2. CASE i = 1
            BY <1>2, <1>5, <1>7, <3>2 DEF ValueBody
        <3>3. CASE i \notin {0, 1}
            <4>1. /\ i \in 2 .. n + 1 /\ i - 1 \in 0 .. n + 1 /\ i - 1 # 0 /\ i # 0
                  /\ i - 1 \in 0 .. n /\ i - 1 \in 1 .. n
                BY <1>2, <3>3
            <4>2. h[i] = g[i - 1] /\ h[i - 1] = g[(i - 1) - 1]
                BY <4>1
            <4>3. u[i] = t[i - 1] /\ t[i - 1] # -1
                <5>1. \A j \in 1 .. n : t[j] \in Digit
                    BY <1>2 DEF n
                <5> QED BY <1>5, <4>1, <5>1 DEF Digit
            <4>4. g[i - 1] = 10 * g[(i - 1) - 1] + t[i - 1]
                BY <1>6, <4>1, <4>3 DEF ValueBody
            <4> HIDE DEF h
            <4> QED BY <4>1, <4>2, <4>3, <4>4 DEF ValueBody
        <3> QED BY <3>1, <3>2, <3>3
    <2>2. h = [i \in 0 .. n + 1 |-> h[i]]
        OBVIOUS
    <2> HIDE DEF h
    <2> QED BY <2>1, <2>2
<1>9. h[n + 1] = x
    BY <1>1, <1>2 DEF n
<1> HIDE DEF h
<1>10. Evaluates(u, h) /\ Len(u) \in Nat
    <2>1. Len(u) = n + 1
        BY <1>5
    <2>2. Len(u) \in Nat
        BY <1>2, <2>1 DEF n
    <2>3. Evaluates(u, h)
        BY <1>8, <2>1 DEF Evaluates
    <2> QED BY <2>2, <2>3
<1>11. Library!ValueOf(u) = -x
    BY <1>5, <1>9, <1>10, ValueOfIs
<1> QED BY <1>4, <1>11 DEF u

\* The digit taken first comes last.
LEMMA ReverseOf ==
    ASSUME NEW q \in Seq(Int), NEW d \in Int
    PROVE  /\ Library!Reverse(<<d>> \o q) = Append(Library!Reverse(q), d)
           /\ Library!Reverse(q \o <<d>>) = <<d>> \o Library!Reverse(q)
           /\ Library!Reverse(q \o <<>>) = Library!Reverse(q)
           /\ Library!Reverse(<<d>>) = <<d>> /\ Library!Reverse(<<>>) = <<>>
<1> DEFINE n == Len(q)
           r == Library!Reverse(q)
<1>1. n \in Nat /\ <<d>> \in Seq(Int) /\ Len(<<d>>) = 1 /\ <<d>>[1] = d
    OBVIOUS
<1>2. r \in Seq(Int) /\ Len(r) = n /\ \A i \in 1 .. n : r[i] = q[n - i + 1]
    <2>1. r = [i \in 1 .. n |-> q[n - i + 1]]
        BY DEF Library!Reverse
    <2>2. \A i \in 1 .. n : n - i + 1 \in 1 .. n
        BY <1>1
    <2>3. \A i \in 1 .. n : q[n - i + 1] \in Int
        BY <2>2
    <2> HIDE DEF r
    <2> QED BY <1>1, <2>1, <2>3
<1> HIDE DEF r
<1>3. Library!Reverse(<<d>> \o q) = Append(r, d)
    <2> DEFINE s == <<d>> \o q
               a == Library!Reverse(s)
               b == Append(r, d)
    <2>1. s \in Seq(Int) /\ Len(s) = 1 + n
          /\ \A i \in 1 .. 1 + n : s[i] = IF i <= 1 THEN <<d>>[i] ELSE q[i - 1]
        BY <1>1, ConcatProperties
    <2> HIDE DEF s
    <2>2. a = [i \in 1 .. 1 + n |-> s[(1 + n) - i + 1]]
        BY <2>1 DEF Library!Reverse
    <2>3. b \in Seq(Int) /\ Len(b) = n + 1 /\ b[n + 1] = d /\ \A i \in 1 .. n : b[i] = r[i]
        BY <1>2
    <2> HIDE DEF a, b
    <2>4. ASSUME NEW i \in 1 .. 1 + n PROVE a[i] = b[i]
        <3>1. CASE i = 1 + n
            <4>1. (1 + n) - i + 1 = 1 /\ 1 \in 1 .. 1 + n
                BY <1>1, <3>1
            <4> QED BY <1>1, <2>1, <2>2, <2>3, <3>1, <4>1
        <3>2. CASE i # 1 + n
            <4>1. /\ i \in 1 .. n /\ (1 + n) - i + 1 \in 1 .. 1 + n /\ ~ ((1 + n) - i + 1 <= 1)
                  /\ ((1 + n) - i + 1) - 1 = n - i + 1
                BY <1>1, <3>2
            <4> QED BY <1>2, <2>1, <2>2, <2>3, <4>1
        <3> QED BY <3>1, <3>2
    <2>5. a \in Seq(Int) /\ Len(a) = 1 + n
        <3>1. \A i \in 1 .. 1 + n : b[i] \in Int
            BY <1>1, <2>3
        <3> QED BY <1>1, <2>2, <2>4, <3>1
    <2>6. a = b
        <3>1. Len(a) = Len(b) /\ \A i \in 1 .. Len(a) : a[i] = b[i]
            BY <1>1, <2>3, <2>4, <2>5
        <3> QED BY <2>3, <2>5, <3>1, SeqEqual
    <2> QED BY <2>6 DEF a, b, s
<1>4. Library!Reverse(q \o <<d>>) = <<d>> \o r
    <2> DEFINE s == q \o <<d>>
               a == Library!Reverse(s)
               b == <<d>> \o r
    <2>1. s \in Seq(Int) /\ Len(s) = n + 1
          /\ \A i \in 1 .. n + 1 : s[i] = IF i <= n THEN q[i] ELSE <<d>>[i - n]
        BY <1>1, ConcatProperties
    <2> HIDE DEF s
    <2>2. a = [i \in 1 .. n + 1 |-> s[(n + 1) - i + 1]]
        BY <2>1 DEF Library!Reverse
    <2>3. b \in Seq(Int) /\ Len(b) = 1 + n
          /\ \A i \in 1 .. 1 + n : b[i] = IF i <= 1 THEN <<d>>[i] ELSE r[i - 1]
        BY <1>1, <1>2, ConcatProperties
    <2> HIDE DEF a, b
    <2>4. ASSUME NEW i \in 1 .. n + 1 PROVE a[i] = b[i]
        <3>1. CASE i = 1
            <4>1. (n + 1) - i + 1 = n + 1 /\ ~ (n + 1 <= n) /\ (n + 1) - n = 1 /\ n + 1 \in 1 .. n + 1 /\ i \in 1 .. 1 + n
                BY <1>1, <3>1
            <4> QED BY <1>1, <2>1, <2>2, <2>3, <3>1, <4>1
        <3>2. CASE i # 1
            <4>1. /\ i - 1 \in 1 .. n /\ (n + 1) - i + 1 \in 1 .. n + 1 /\ (n + 1) - i + 1 <= n
                  /\ (n + 1) - i + 1 = n - (i - 1) + 1 /\ ~ (i <= 1) /\ i \in 1 .. 1 + n
                BY <1>1, <3>2
            <4> QED BY <1>2, <2>1, <2>2, <2>3, <4>1
        <3> QED BY <3>1, <3>2
    <2>5. a \in Seq(Int) /\ Len(a) = n + 1
        <3>1. \A i \in 1 .. n + 1 : b[i] \in Int
            BY <1>1, <2>3
        <3> QED BY <1>1, <2>2, <2>4, <3>1
    <2>6. a = b
        <3>1. Len(a) = Len(b) /\ \A i \in 1 .. Len(a) : a[i] = b[i]
            BY <1>1, <2>3, <2>4, <2>5
        <3> QED BY <2>3, <2>5, <3>1, SeqEqual
    <2> QED BY <2>6 DEF a, b, s
<1>5. Library!Reverse(q \o <<>>) = r
    <2>1. q \o <<>> = q
        BY ConcatEmptySeq
    <2> QED BY <2>1 DEF r
<1>6. Library!Reverse(<<d>>) = <<d>>
    BY DEF Library!Reverse
<1>7. Library!Reverse(<<>>) = <<>>
    BY DEF Library!Reverse
<1> QED BY <1>3, <1>4, <1>5, <1>6, <1>7 DEF r

\* The loop that takes the digits off a number: what is left of it gets less.
LEMMA DigitsExist ==
    ASSUME NEW v \in Nat
    PROVE  \E g : g = [x \in 0 .. v |-> IF x = 0 THEN <<>> ELSE <<x % 10>> \o g[x \div 10]]
<1> DEFINE Body(f, x) == IF x = 0 THEN <<>> ELSE <<x % 10>> \o f[x \div 10]
           Unrolls(j, f) == f = [x \in 0 .. j |-> Body(f, x)]
           Bad == {j \in 0 .. v : ~ \E f : Unrolls(j, f)}
<1>1. \A x \in Nat \ {0} : x \div 10 \in 0 .. x - 1
    OBVIOUS
<1>2. Bad = {}
    <2>1. SUFFICES ASSUME Bad # {} PROVE FALSE
        OBVIOUS
    <2>2. Bad \subseteq Nat
        OBVIOUS
    <2>3. PICK j \in Bad : \A k \in Bad : j <= k
        <3> HIDE DEF Bad
        <3> QED BY <2>1, <2>2, LeastExists
    <2>4. j # 0
        <3>1. SUFFICES ASSUME j = 0 PROVE FALSE
            OBVIOUS
        <3> DEFINE f == [x \in 0 .. 0 |-> <<>>]
        <3>2. Unrolls(0, f)
            OBVIOUS
        <3> HIDE DEF f, Unrolls
        <3> QED BY <2>3, <3>1, <3>2
    <2>5. PICK g : Unrolls(j - 1, g)
        <3> HIDE DEF Unrolls
        <3>1. j - 1 \in 0 .. v /\ ~ (j <= j - 1)
            BY <2>2, <2>3, <2>4
        <3> QED BY <2>3, <3>1
    <2> DEFINE f == [x \in 0 .. j |-> IF x = j THEN Body(g, x) ELSE g[x]]
    <2>6. Unrolls(j, f)
        <3>1. j \in Nat \ {0}
            BY <2>2, <2>3, <2>4
        <3>2. ASSUME NEW x \in 0 .. j PROVE f[x] = Body(f, x)
            <4>1. x # 0 => x \div 10 \in 0 .. x - 1
                BY <1>1, <3>1
            <4>2. x # 0 => f[x \div 10] = g[x \div 10]
                <5>1. ASSUME NEW y \in 0 .. x - 1 PROVE f[y] = g[y]
                    BY <3>1
                <5> HIDE DEF f
                <5> QED BY <4>1, <5>1
            <4>3. f[x] = IF x = j THEN Body(g, x) ELSE g[x]
                OBVIOUS
            <4>4. x # j => x \in 0 .. j - 1
                BY <3>1
            <4>5. x # j => g[x] = Body(g, x)
                BY <4>4, <2>5
            <4> HIDE DEF f
            <4> QED BY <4>2, <4>3, <4>5
        <3>3. f = [x \in 0 .. j |-> f[x]]
            OBVIOUS
        <3> HIDE DEF f
        <3> QED BY <3>2, <3>3
    <2> HIDE DEF f, Unrolls
    <2> QED BY <2>3, <2>6
<1>3. v \in 0 .. v
    OBVIOUS
<1> HIDE DEF Body, Unrolls
<1>4. \E f : Unrolls(v, f)
    BY <1>2, <1>3
<1> USE DEF Unrolls
<1> QED BY <1>4 DEF Body

\* The digits come last digit first.
LEMMA BufferReadsAs ==
    ASSUME NEW v \in Nat
    PROVE  Library!Buffer(v) \in Seq(Digit) /\ ReadsAs(Library!Reverse(Library!Buffer(v)), v)
<1> DEFINE digits == CHOOSE g : g = [x \in 0 .. v |-> IF x = 0 THEN <<>> ELSE <<x % 10>> \o g[x \div 10]]
           Right(x) == digits[x] \in Seq(Digit) /\ ReadsAs(Library!Reverse(digits[x]), x)
           Bad == {x \in 0 .. v : ~ Right(x)}
<1>1. Library!Buffer(v) = IF v > 0 THEN digits[v] ELSE <<>>
    BY Zenon DEF Library!Buffer
<1>2. digits = [x \in 0 .. v |-> IF x = 0 THEN <<>> ELSE <<x % 10>> \o digits[x \div 10]]
    BY DigitsExist
<1>3. 0 \in 0 .. v /\ v \in 0 .. v
    OBVIOUS
<1> HIDE DEF digits
<1>4. digits[0] = <<>>
    BY <1>2, <1>3
<1>5. \A x \in 0 .. v : x # 0 => digits[x] = <<x % 10>> \o digits[x \div 10]
    BY <1>2
<1>6. Right(0)
    <2>1. <<>> \in Seq(Int) /\ <<>> \in Seq(Digit)
        OBVIOUS
    <2>2. Library!Reverse(<<>>) = <<>>
        BY DEF Library!Reverse
    <2> QED BY <1>4, <2>1, <2>2, EmptyReadsAs
<1> HIDE DEF Right
<1>7. Bad = {}
    <2>1. SUFFICES ASSUME Bad # {} PROVE FALSE
        OBVIOUS
    <2>2. PICK x \in Bad : \A y \in Bad : x <= y
        <3>1. Bad \subseteq Nat
            OBVIOUS
        <3> HIDE DEF Bad
        <3> QED BY <2>1, <3>1, LeastExists
    <2>3. x \in Nat \ {0} /\ x \in 0 .. v
        BY <1>6, <2>2
    <2>4. PICK q \in Nat, d \in 0 .. 10 - 1 : q = x \div 10 /\ d = x % 10 /\ x = 10 * q + d
        BY <2>3, DivisionWithRest
    <2>5. q \in 0 .. v /\ q \notin Bad
        BY <2>2, <2>3, <2>4
    <2>6. digits[q] \in Seq(Digit) /\ ReadsAs(Library!Reverse(digits[q]), q)
        BY <2>5 DEF Right
    <2>7. d \in Digit /\ d \in Int /\ digits[q] \in Seq(Int)
        BY <2>6 DEF Digit
    <2>8. digits[x] = <<d>> \o digits[q]
        BY <1>5, <2>3, <2>4
    <2>9. Library!Reverse(digits[x]) = Append(Library!Reverse(digits[q]), d)
        BY <2>7, <2>8, ReverseOf
    <2>10. ReadsAs(Library!Reverse(digits[x]), x)
        BY <2>4, <2>6, <2>7, <2>9, AppendReadsAs
    <2>11. digits[x] \in Seq(Digit)
        <3>1. <<d>> \in Seq(Digit)
            BY <2>7
        <3> QED BY <2>6, <2>8, <3>1, ConcatProperties
    <2> QED BY <2>2, <2>10, <2>11 DEF Right
<1>8. Right(v)
    BY <1>3, <1>7
<1>9. CASE v > 0
    BY <1>1, <1>8, <1>9 DEF Right
<1>10. CASE ~ (v > 0)
    <2>1. v = 0 /\ Library!Buffer(v) = digits[v]
        BY <1>1, <1>4, <1>10
    <2> QED BY <1>8, <2>1 DEF Right
<1> QED BY <1>9, <1>10

\* The text of a number.
LEMMA ZeroReadsAs == ReadsAs(<<0>>, 0)
<1>1. 0 \in Digit /\ Append(<<>>, 0) = <<0>> /\ 10 * 0 + 0 = 0
    BY DEF Digit
<1> QED BY <1>1, EmptyReadsAs, AppendReadsAs

\* unsigned_long_to_string writes a text that reads back as the number.
LEMMA UnsignedTextReadsBack ==
    ASSUME NEW v \in Nat
    PROVE  Library!ValueOf(Library!unsigned_long_to_string(v)) = v
<1>1. CASE v = 0
    BY <1>1, ZeroReadsAs, TextReadsAs DEF Library!unsigned_long_to_string
<1>2. CASE v # 0
    BY <1>2, BufferReadsAs, TextReadsAs DEF Library!unsigned_long_to_string
<1> QED BY <1>1, <1>2

\* int_to_string writes a text that reads back as the int, unless it is the least.
LEMMA IntTextReadsBack ==
    ASSUME NEW w \in Library!IntMin .. -Library!IntMin - 1, w # Library!IntMin
    PROVE  /\ Library!ValueOf(Library!int_to_string(w)) = w
           /\ Library!absolute(w) >= 0
<1> DEFINE v == IF w < 0 THEN -w ELSE w
           backward == IF v = 0 THEN <<0>> ELSE Library!Buffer(v)
<1>1. w \in Int /\ v \in Nat /\ Library!IntMin \in Int
    BY ValuesOf
<1>2. w < 0 => Library!Wrap(-w) = -w
    <2>1. w < 0 => -w \in Int /\ -w \in Library!IntMin .. -Library!IntMin - 1
        BY <1>1
    <2> QED BY <2>1, WrapOf
<1>3. Library!absolute(w) >= 0
    BY <1>1, <1>2 DEF Library!absolute
<1>4. Library!int_to_string(w) = Library!Reverse(backward \o (IF w < 0 THEN <<-1>> ELSE <<>>))
    <2>1. (IF w < 0 THEN Library!Wrap(-w) ELSE w) = v
        BY <1>2
    <2> HIDE DEF v
    <2> QED BY <2>1 DEF Library!int_to_string
<1>5. backward \in Seq(Int) /\ ReadsAs(Library!Reverse(backward), v)
    <2>1. CASE v = 0
        <3>1. backward = <<0>> /\ <<0>> \in Seq(Int) /\ <<>> \in Seq(Int) /\ 0 \in Int
            BY <2>1
        <3>2. Library!Reverse(<<0>>) = <<0>>
            BY <3>1, ReverseOf
        <3> QED BY <2>1, <3>1, <3>2, ZeroReadsAs
    <2>2. CASE v # 0
        <3>1. backward = Library!Buffer(v)
            BY <2>2
        <3> HIDE DEF backward, v
        <3>2. Library!Buffer(v) \in Seq(Digit) /\ ReadsAs(Library!Reverse(Library!Buffer(v)), v)
            BY <1>1, BufferReadsAs
        <3>3. Library!Buffer(v) \in Seq(Int)
            BY <3>2 DEF Digit
        <3> QED BY <3>1, <3>2, <3>3
    <2> QED BY <2>1, <2>2
<1> HIDE DEF backward
<1>6. CASE w < 0
    <2>1. Library!int_to_string(w) = Library!Reverse(backward \o <<-1>>)
        BY <1>4, <1>6
    <2>2. Library!Reverse(backward \o <<-1>>) = <<-1>> \o Library!Reverse(backward)
        <3>1. backward \in Seq(Int) /\ -1 \in Int
            BY <1>5
        <3> QED BY ONLY <3>1, ReverseOf
    <2>3. Library!ValueOf(Library!int_to_string(w)) = -v
        BY <1>5, <2>1, <2>2, TextReadsAs
    <2>4. -v = w
        BY <1>1, <1>6
    <2> QED BY <1>3, <2>3, <2>4
<1>7. CASE ~ (w < 0)
    <2>1. Library!int_to_string(w) = Library!Reverse(backward \o <<>>)
        BY <1>4, <1>7
    <2>2. 0 \in Int /\ Library!Reverse(backward \o <<>>) = Library!Reverse(backward)
        BY <1>5, ReverseOf
    <2>3. Library!ValueOf(Library!int_to_string(w)) = v
        BY <1>5, <2>1, <2>2, TextReadsAs
    <2> QED BY <1>3, <1>7, <2>3
<1> QED BY <1>6, <1>7

\* The loop of uint64_power reduces after each product, which is as good as once
\* at the end.
LEMMA ReducedProduct ==
    ASSUME NEW a \in Nat, NEW b \in Nat, NEW k \in Nat \ {0}
    PROVE  ((a % k) * b) % k = (a * b) % k
<1>1. PICK q \in Nat, r \in 0 .. k - 1 : r = a % k /\ a = k * q + r
    BY DivisionWithRest
<1>2. r * b \in Nat
    BY <1>1
<1>3. PICK p \in Nat, e \in 0 .. k - 1 : e = (r * b) % k /\ r * b = k * p + e
    BY <1>2, DivisionWithRest
<1>4. a * b = k * (q * b + p) + e
    <2>1. a * b = k * (q * b) + r * b
        BY <1>1
    <2>2. q * b \in Nat
        BY <1>1
    <2>3. k * (q * b + p) = k * (q * b) + k * p
        BY <1>3, <2>2
    <2> DEFINE x == k * (q * b)
               y == k * p
               z == k * (q * b + p)
               u == r * b
    <2>4. x \in Nat /\ y \in Nat /\ u = y + e /\ z = x + y /\ a * b = x + u
        BY <1>3, <2>1, <2>2, <2>3
    <2> HIDE DEF x, y, z, u
    <2>5. a * b = z + e
        BY <2>4
    <2> QED BY <2>5 DEF z
<1>5. a * b \in Nat /\ q * b + p \in Nat
    BY <1>1, <1>3
<1>6. (a * b) % k = e
    BY <1>4, <1>5, QuotientOf
<1> QED BY <1>1, <1>3, <1>6

\* uint64_power multiplies, up to the width of a long.
LEMMA PowersMultiply ==
    ASSUME NEW num \in Nat, num < Library!Values, NEW expo \in 1 .. 3
    PROVE  Library!uint64_power(num, expo) =
               <<num, num * num, num * num * num>>[expo] % (Library!Values * Library!Values)
<1> DEFINE k == Library!Values * Library!Values
           Body(g, i) == IF i <= 1 THEN num ELSE (g[i - 1] * num) % k
           second == (num * num) % k
           third == (second * num) % k
           f == [i \in 0 .. expo |-> IF i <= 1 THEN num ELSE IF i = 2 THEN second ELSE third]
           power == CHOOSE g : g = [i \in 0 .. expo |-> Body(g, i)]
<1>1. k \in Nat \ {0} /\ num < k
    <2>1. Library!Values \in Nat \ {0}
        BY ValuesOf
    <2> DEFINE y == Library!Values
    <2> HIDE DEF y
    <2>2. y \in Nat \ {0} /\ num < y
        BY <2>1 DEF y
    <2>3. y * y \in Nat /\ y * 0 + y <= y * y
        BY <2>2, ProductGrows
    <2>4. y <= y * y
        BY <2>2, <2>3
    <2>5. y * y \in Nat \ {0} /\ num < y * y
        BY <2>2, <2>3, <2>4
    <2> QED BY <2>5 DEF y
<1>2. Library!uint64_power(num, expo) = power[expo]
    <2>1. expo # 0
        OBVIOUS
    <2> QED BY <2>1, Zenon DEF Library!uint64_power
<1> HIDE DEF k
<1>3. f = [i \in 0 .. expo |-> Body(f, i)]
    <2>1. ASSUME NEW i \in 0 .. expo PROVE f[i] = Body(f, i)
        <3>1. i \in {0, 1, 2, 3} /\ (i = 2 => 1 \in 0 .. expo) /\ (i = 3 => 2 \in 0 .. expo)
            OBVIOUS
        <3> QED BY <3>1
    <2> QED BY <2>1
<1> HIDE DEF f
<1>4. power = [i \in 0 .. expo |-> Body(power, i)]
    BY <1>3
<1> HIDE DEF power
<1>5. \A i \in 0 .. expo : power[i] = Body(power, i)
    BY <1>4
<1>6. power[1] = num /\ (expo >= 2 => power[2] = second) /\ (expo = 3 => power[3] = third)
    <2>1. 1 \in 0 .. expo /\ (expo >= 2 => 2 \in 0 .. expo) /\ (expo = 3 => 3 \in 0 .. expo /\ expo >= 2)
        OBVIOUS
    <2>2. power[1] = num
        BY <1>5, <2>1
    <2>3. expo >= 2 => power[2] = second
        BY <1>5, <2>1, <2>2
    <2>4. expo = 3 => power[3] = third
        <3> HIDE DEF second
        <3> QED BY <1>5, <2>1, <2>3
    <2> QED BY <2>2, <2>3, <2>4
<1>7. third = (num * num * num) % k
    <2> DEFINE a == num * num
    <2>1. a \in Nat
        OBVIOUS
    <2> HIDE DEF a
    <2>2. ((a % k) * num) % k = (a * num) % k
        BY <1>1, <2>1, ReducedProduct
    <2> QED BY <2>2 DEF a
<1>8. num % k = num
    BY <1>1
<1> HIDE DEF second, third
<1>9. CASE expo = 1
    BY <1>2, <1>6, <1>8, <1>9 DEF k
<1>10. CASE expo = 2
    BY <1>2, <1>6, <1>10 DEF k, second
<1>11. CASE expo = 3
    BY <1>2, <1>6, <1>7, <1>11 DEF k
<1> QED BY <1>9, <1>10, <1>11

\* The functions on numbers do what they should.
LEMMA NumberFunctionsMeetReference ==
    ASSUME number \in 0 .. Library!Values * Library!Values - 1
    PROVE  Library!NumberFunctions
<1>1. number \in Nat /\ number \in 0 .. Library!Power2[2 * IntBits] - 1
    <2>1. Library!Power2[2 * IntBits] \in Nat
        <3>1. 2 * IntBits \in 0 .. 2 * IntBits
            BY IntAssumption
        <3> QED BY <3>1, Powers
    <2> QED BY <2>1, ValuesOf
<1>2. Library!ValueOf(Library!unsigned_long_to_string(number)) = number
    BY <1>1, UnsignedTextReadsBack
<1>3. ASSUME Library!Wrap(number) # Library!IntMin
      PROVE  /\ Library!ValueOf(Library!int_to_string(Library!Wrap(number))) = Library!Wrap(number)
             /\ Library!ValueOf(Library!long_to_string(number)) = Library!Wrap(number)
             /\ Library!absolute(Library!Wrap(number)) >= 0
    <2>1. Library!Wrap(number) \in Library!IntMin .. -Library!IntMin - 1
        BY <1>1, WrapOf
    <2> QED BY <1>3, <2>1, IntTextReadsBack DEF Library!long_to_string
<1>4. ASSUME NEW n \in 0 .. IntBits - 2
      PROVE  /\ Library!check_bit(Library!flip_bit(number, n), n) # Library!check_bit(number, n)
             /\ Library!flip_bit(Library!flip_bit(number, n), n) = number
    BY <1>1, FlipTwice
<1>5. Library!uint64_power(number, 0) = 1
    BY DEF Library!uint64_power
<1>6. ASSUME number < Library!Values, NEW e \in 1 .. 3
      PROVE  Library!uint64_power(number, e) =
                 <<number, number * number, number * number * number>>[e] % (Library!Values * Library!Values)
    BY <1>1, <1>6, PowersMultiply
<1> QED BY <1>2, <1>3, <1>4, <1>5, <1>6 DEF Library!NumberFunctions

\* The memory holds characters, and the number is one of a long.
LibraryInv ==
    /\ memory \in [Library!Addresses -> Chars]
    /\ number \in 0 .. Library!Values * Library!Values - 1

\* At first the memory is empty and the number 0.
LEMMA LibraryInitially == Library!Init => LibraryInv
<1>1. [a \in Library!Addresses |-> 0] \in [Library!Addresses -> Chars]
    BY CharsAssumption
<1>2. PICK h \in Nat \ {0} : Library!Values = 2 * h
    BY ValuesOf
<1>3. 0 \in 0 .. Library!Values * Library!Values - 1
    <2> DEFINE k == Library!Values * Library!Values
    <2>1. k \in Nat \ {0}
        <3>1. Library!Values \in Nat \ {0}
            BY <1>2
        <3> QED BY <3>1
    <2> HIDE DEF k
    <2>2. 0 \in 0 .. k - 1
        BY <2>1
    <2> QED BY <2>2 DEF k
<1> QED BY <1>1, <1>3 DEF Library!Init, LibraryInv

\* Calls of the library and the next number keep that.
LEMMA LibraryStep == LibraryInv /\ [Library!Next]_(Library!vars) => LibraryInv'
<1> SUFFICES ASSUME LibraryInv, [Library!Next]_(Library!vars) PROVE LibraryInv'
    OBVIOUS
<1>1. memory' \in [Library!Addresses -> Chars]
    BY LibraryKeepsMemory DEF LibraryInv
<1>2. number' \in 0 .. Library!Values * Library!Values - 1
    <2> DEFINE k == Library!Values * Library!Values
    <2>1. k \in Int
        BY ValuesOf
    <2>2. number \in 0 .. k - 1
        BY DEF LibraryInv
    <2>3. number' = number \/ (number < k - 1 /\ number' = number + 1)
        BY DEF Library!Next, Library!vars
    <2> HIDE DEF k
    <2>4. number' \in 0 .. k - 1
        BY <2>1, <2>2, <2>3
    <2> QED BY <2>4 DEF k
<1> QED BY <1>1, <1>2 DEF LibraryInv

\* On every memory that calls can make and for every number, the functions of
\* the C library compute what their names promise.
THEOREM LibraryFunctionsRight == Library!Spec => []Library!LibraryMeetsReference
<1>1. LibraryInv => Library!LibraryMeetsReference
    BY MemoryFunctionsMeetReference, StringFunctionsMeetReference, NumberFunctionsMeetReference
    DEF LibraryInv, Library!LibraryMeetsReference
<1> QED BY <1>1, LibraryInitially, LibraryStep, PTL DEF Library!Spec

-----------------------------------------------------------------------------
(* The systems side by side.                                               *)

\* A step of the systems side by side is a step of each system or leaves its
\* variables alone.
LEMMA StepOfEach ==
    ASSUME [AllNext]_<<active, vars, blockVars, driveVars, fileVars, threadVars,
                       windowVars, gameVars, libraryVars>>
    PROVE  /\ [Drives!Next]_(Drives!vars) /\ [FileSystem!Next]_(FileSystem!vars)
           /\ [Threading!Next]_(Threading!vars) /\ [Desk!Next]_(Desk!vars)
           /\ [Game!Next]_(Game!vars) /\ [Next]_vars /\ [Lists!Next]_(Lists!vars)
           /\ [Library!Next]_(Library!vars)
<1>1. [Drives!Next]_driveVars /\ [FileSystem!Next]_fileVars /\ [Threading!Next]_threadVars
      /\ [Desk!Next]_windowVars /\ [Game!Next]_gameVars /\ [Next]_vars
      /\ [Lists!Next]_blockVars /\ [Library!Next]_libraryVars
    BY DEF AllNext
<1> QED BY <1>1 DEF driveVars, Drives!vars, Drives!info, Drives!registers, Drives!device, Drives!call,
        fileVars, FileSystem!vars, FileSystem!disk, FileSystem!locals, FileSystem!ghosts,
        threadVars, Threading!vars, Threading!threads, Threading!created,
        windowVars, Desk!vars, Desk!mouse, Desk!device, Desk!gui, gameVars, Game!vars,
        blockVars, Lists!vars, libraryVars, Library!vars

LEMMA BehaviourOfEach ==
    AllSpec => /\ Drives!Spec /\ FileSystem!Spec /\ Threading!Spec /\ Desk!Spec /\ Game!Spec
               /\ Spec /\ Lists!Spec /\ Library!Spec
<1>1. AllInit => /\ Drives!Init /\ FileSystem!Init /\ Threading!Init /\ Desk!Init /\ Game!Init
                 /\ Init /\ Lists!Init /\ Library!Init
    BY DEF AllInit
<1> QED BY <1>1, StepOfEach, PTL DEF AllSpec, Drives!Spec, FileSystem!Spec,
        Threading!Spec, Desk!Spec, Game!Spec, Spec, Lists!Spec, Library!Spec

\* Phys: the pages of a region are the free ones, those callers have and those
\* of the bitmap, after every sequence of calls.
THEOREM ServicesPagesAccounted == AllSpec => []PagesAccounted
BY BehaviourOfEach, PhysPagesAccounted, PTL

\* Phys: the scans find the first run of free pages if there is one.
THEOREM ServicesScanFindsFirstRun == AllSpec => []ScanFindsFirstRun
BY BehaviourOfEach, PhysScanFindsFirstRun, PTL

\* Phys: the page allocator implements the abstract allocator.
THEOREM ServicesPagesImplementAllocator == AllSpec => PagesImplementAllocator
<1>1. [Held!Next]_HeldBlocks => [active = "phys" => [Held!Next]_HeldBlocks]_vars
    OBVIOUS
<1> QED BY <1>1, BehaviourOfEach, PhysImplementsAllocator, PTL DEF ImplementsAllocator, Held!Spec, PagesImplementAllocator

\* Pmm: free_memory makes no byte up.
THEOREM ServicesFreeBytesAccounted ==
    ASSUME MaxInits = 1
    PROVE  AllSpec => []FreeBytesAccounted
<1>1. Lists!FreeBytesAccounted => FreeBytesAccounted
    BY DEF FreeBytesAccounted
<1> QED BY <1>1, BehaviourOfEach, ListsAccountBytes, PTL

\* Ata: a read of the disk that reports success has read the sectors asked for.
THEOREM ServicesReadsAreExact == AllSpec => []ReadsAreExact
<1>1. Drives!ReadsAreExact => ReadsAreExact
    BY DEF ReadsAreExact
<1> QED BY <1>1, BehaviourOfEach, AtaReadsAreExact, PTL

\* Ata: a write stores the sectors asked for and no others.
THEOREM ServicesWritesAreWhereAsked == AllSpec => []WritesAreWhereAsked
<1>1. Drives!WritesAreWhereAsked => WritesAreWhereAsked
    BY DEF WritesAreWhereAsked
<1> QED BY <1>1, BehaviourOfEach, AtaWritesAreWhereAsked, PTL

\* Fsz: the bitmap and the inodes agree through failures and restarts.
THEOREM ServicesBlocksAccounted == AllSpec => []BlocksAccounted
<1>1. FileSystem!BlocksAccounted => BlocksAccounted
    BY DEF BlocksAccounted
<1> QED BY <1>1, BehaviourOfEach, FilesAccountBlocks, PTL

\* Fsz: what a file acknowledged is read back.
THEOREM ServicesWritesReadBack == AllSpec => []AcknowledgedWritesReadBack
<1>1. FileSystem!AcknowledgedWritesReadBack => AcknowledgedWritesReadBack
    BY DEF AcknowledgedWritesReadBack
<1> QED BY <1>1, BehaviourOfEach, FilesReadBack, PTL

\* Scheduler: no thread but the current one is in the state RUNNING.
THEOREM ServicesOneRunning == AllSpec => []OneRunning
<1>1. Threading!OneRunning => OneRunning
    BY DEF OneRunning
<1> QED BY <1>1, BehaviourOfEach, SchedulerOneRunning, PTL

\* Scheduler: process_scheduler finds a ready thread if there is one, and the
\* threads of a process take turns.
THEOREM ServicesThreadsGetTurns == AllSpec => []ReadyThreadsGetTurns
<1>1. Threading!ReadyThreadsGetTurns => ReadyThreadsGetTurns
    BY DEF ReadyThreadsGetTurns
<1> QED BY <1>1, BehaviourOfEach, SchedulerGivesTurns, PTL

\* Desktop: no window leaves the screen, whatever the mouse sends.
THEOREM ServicesWindowsStayOnScreen == AllSpec => []WindowsStayOnScreen
<1>1. Desk!WindowsStayOnScreen => WindowsStayOnScreen
    BY DEF WindowsStayOnScreen
<1> QED BY <1>1, BehaviourOfEach, DesktopKeepsWindows, PTL

\* Snake: the segments are a path of different places on the board.
THEOREM ServicesSnakeIsAPath == AllSpec => []SnakeIsAPath
<1>1. Game!SnakeIsAPath => SnakeIsAPath
    BY DEF SnakeIsAPath
<1> QED BY <1>1, BehaviourOfEach, SnakeStaysAPath, PTL

\* CLib: the functions of the C library compute what they should.
THEOREM ServicesLibraryMeetsReference == AllSpec => []LibraryMeetsReference
<1>1. Library!LibraryMeetsReference => LibraryMeetsReference
    BY DEF LibraryMeetsReference
<1> QED BY <1>1, BehaviourOfEach, LibraryFunctionsRight, PTL
=============================================================================
