------------------------------- MODULE AtaPio -------------------------------
(***************************************************************************)
(* The ATA half of the disk layer, fs/fatfs/source/diskio.c, with the      *)
(* drive it talks to: identification, transfers sector by sector through   *)
(* the data register, and CTRL_SYNC.                                       *)
(*                                                                         *)
(* The driver polls the status register (ata_wait) in counted loops.  The  *)
(* drive works while it does.  A drive that let a loop run out is taken to *)
(* hang for good.                                                          *)
(***************************************************************************)
EXTENDS Integers, Sequences

CONSTANTS
    Sectors,        \* sector numbers of the drive and of the callers
    MaxCount,       \* longest transfer a caller asks for
    Lba28Sectors,   \* ATA_LBA28_SECTORS
    ByteSize,       \* 2^8: what the sector number register holds
    LbaSize,        \* 2^32: numbers of an LBA_t
    Pages,          \* IDENTIFY pages the drive may have
    Values          \* contents of a sector

\* lba: word 49 bit 9; size: what LBA can reach; cylinders, heads and track
\* are the geometry; ata: the signature registers are 0; flush: word 83.
\* prompt is not on the page: the drive has set BSY, for which it has 400 ns,
\* when the driver reads the status after a command.
PageType == [lba : BOOLEAN, size : Nat, cylinders : Nat, heads : Nat,
             track : Nat, ata : BOOLEAN, flush : BOOLEAN, prompt : BOOLEAN]

Usable(p) == p.cylinders > 0 /\ p.heads \in 1 .. 16 /\ p.track > 0

Capacity(p) ==
    IF p.lba THEN p.size
    ELSE IF Usable(p) THEN p.cylinders * p.heads * p.track ELSE 0

\* LBA_t is a 32-bit product.
ChsSectors(p) == Capacity(p) % LbaSize
LbaSectors(p) == IF p.size > Lba28Sectors THEN Lba28Sectors ELSE p.size

\* The sectors of a track fit the register that counts them, as the ATA
\* standard has it; ata_identify checks the heads, but not this.
TrackFits(p) == p.lba \/ p.track < ByteSize

\* The drives the code is right for.
Standard(p) == p.prompt /\ TrackFits(p)

ASSUME AtaAssumption ==
    /\ Sectors \subseteq Nat
    /\ MaxCount \in Nat
    /\ Lba28Sectors \in Nat \ {0}
    /\ ByteSize \in Nat \ {0} /\ LbaSize \in Nat \ {0}
    /\ Pages \subseteq PageType
    /\ \A p \in Pages : 0 .. (IF p.lba THEN LbaSectors(p) ELSE ChsSectors(p)) - 1 \subseteq Sectors
    /\ Values # {}

VARIABLES
    pc,        \* which ata_wait the driver is in: see Steps
    device,    \* ata_device_t: what ata_identify found
    call,      \* the request being served
    done,      \* sectors of it transferred so far
    buff,      \* what a read has put into the caller's buffer
    ret,       \* the last answer to the caller
    page,      \* the drive's IDENTIFY page
    status,    \* the drive's status register: see States
    work,      \* the command the drive has, with its address
    port,      \* the sector behind the data register
    media,     \* what a read of each sector returns
    stable     \* what survives a power loss

request == <<call, done, buff>>
driver  == <<pc, device, request, ret>>
drive   == <<page, status, work, port, media, stable>>
vars    == <<driver, drive>>

Steps  == {"idle", "id_bsy", "id_drq", "sector", "wait_drq", "wait_end",
           "wait_flush"}
States == {"absent", "ready", "busy", "drq", "error", "hung"}

\* The drive is busy, but its register still shows what it did before.
Late   == {"late_ready", "late_error"}

Call(op, s, n, d) == [op |-> op, sector |-> s, count |-> n, data |-> d]
Result(c, res, d) == [op |-> c.op, sector |-> c.sector, data |-> d, res |-> res]
NoCall   == Call("none", 0, 0, <<>>)
NoResult == Result(NoCall, "RES_NOTRDY", <<>>)
NoWork   == [op |-> "none", at |-> <<>>]
NoDevice == [ready |-> FALSE, sectors |-> 0, lba |-> FALSE, cylinders |-> 0,
             heads |-> 0, track |-> 0, flush |-> FALSE]

Init ==
    /\ pc = "idle"
    /\ device = NoDevice
    /\ call = NoCall /\ done = 0 /\ buff = <<>>
    /\ ret = NoResult
    /\ page \in Pages
    /\ status \in {"absent", "ready"}
    /\ work = NoWork
    /\ port \in Values
    /\ media \in {m \in [Sectors -> Values] :
                   \A s \in Sectors : s >= Capacity(page) => m[s] = port}
    /\ stable = media

(***************************************************************************)
(* ata_select and a command.  Nobody looks at the status before it: a busy *)
(* drive ignores the command.  ata_delay comes before the command and not  *)
(* after it: the status read next may be the old one.                      *)
(***************************************************************************)
Taken == \/ status' = "busy"
         \/ ~page.prompt /\ status # "error" /\ status' = "late_ready"
         \/ ~page.prompt /\ status = "error" /\ status' = "late_error"

Send(op, at) ==
    IF status \in {"absent", "busy", "hung"} \cup Late
    THEN UNCHANGED <<status, work>>
    ELSE Taken /\ work' = [op |-> op, at |-> at]

\* ata_wait(device, ATA_SR_BSY, 0) and ata_wait(device, ATA_SR_DRQ, ATA_SR_DRQ)
\* return 1, or 0: at once, or when the loop has run out.
BsyClear == status \in {"ready", "drq", "late_ready"}

\* mutant: the loop is not counted
Failed_NoTimeout == status \in {"absent", "error"}

DrqSet   == status = "drq"
Failed   == status \in {"absent", "error", "late_error", "hung"}
NoDrq    == Failed \/ status = "ready"

(***************************************************************************)
(* disk_initialize: ata_identify forgets the device before it asks again.  *)
(***************************************************************************)
Initialize ==
    /\ pc = "idle"
    /\ device' = NoDevice
    /\ ret' = NoResult
    /\ pc' = "id_bsy"
    /\ Send("identify", <<>>)
    /\ UNCHANGED <<request, page, port, media, stable>>

\* disk_initialize returns device->status.
Initialized(d) ==
    /\ device' = d
    /\ pc' = "idle"
    /\ UNCHANGED <<request, ret>>

IdentifyFails ==
    /\ \/ pc = "id_bsy" /\ (Failed \/ (BsyClear /\ ~page.ata))
       \/ pc = "id_drq" /\ NoDrq
    /\ Initialized(NoDevice)
    /\ UNCHANGED drive

IdentifyBusy ==
    /\ pc = "id_bsy"
    /\ BsyClear
    /\ page.ata
    /\ pc' = "id_drq"
    /\ UNCHANGED <<device, request, ret, drive>>

\* mutant: the last sector's number is taken for the size
Identified_LastSector(p) ==
    [NoDevice EXCEPT !.lba = TRUE, !.flush = p.flush, !.ready = TRUE,
        !.sectors = (IF p.size > Lba28Sectors THEN Lba28Sectors ELSE p.size) - 1]

Identified(p) ==
    IF p.lba
    THEN [NoDevice EXCEPT !.lba = TRUE, !.flush = p.flush,
            !.sectors = LbaSectors(p), !.ready = LbaSectors(p) > 0]
    ELSE [NoDevice EXCEPT !.cylinders = p.cylinders, !.heads = p.heads,
            !.track = p.track, !.ready = Usable(p) /\ ChsSectors(p) > 0,
            !.sectors = ChsSectors(p),
            !.flush = Usable(p) /\ p.flush]

\* The 256 words of the page are read; they may be those of a command the
\* driver had given up.
Identify ==
    /\ pc = "id_drq"
    /\ DrqSet
    /\ \E p \in IF work.op = "identify" THEN {page} ELSE Pages :
          Initialized(Identified(p))
    /\ status' = "ready" /\ work' = NoWork
    /\ UNCHANGED <<page, port, media, stable>>

(***************************************************************************)
(* disk_read and disk_write: ata_transfer.                                 *)
(***************************************************************************)
Answer(c, res, d) ==
    /\ ret' = Result(c, res, d)
    /\ pc' = "idle"
    /\ call' = NoCall /\ done' = 0 /\ buff' = <<>>

InRange(s, n) == s < device.sectors /\ n <= device.sectors - s

Transfer(c) ==
    /\ pc = "idle"
    /\ \/ c.count = 0 /\ Answer(c, "RES_PARERR", <<>>)
       \/ c.count > 0 /\ ~device.ready /\ Answer(c, "RES_NOTRDY", <<>>)
       \/ /\ c.count > 0 /\ device.ready /\ ~InRange(c.sector, c.count)
          /\ Answer(c, "RES_PARERR", <<>>)
       \/ /\ device.ready /\ c.count > 0 /\ InRange(c.sector, c.count)
          /\ call' = c
          /\ ret' = NoResult
          /\ pc' = "sector"
          /\ UNCHANGED <<done, buff>>
    /\ UNCHANGED <<device, drive>>

Read(s, n)  == Transfer(Call("read", s, n, <<>>))
Write(s, d) == Transfer(Call("write", s, Len(d), d))

\* mutant: sectors of a track are counted from 0
Registers_FromZero(s) ==
    IF device.lba THEN <<s % Lba28Sectors>>
    ELSE LET cylinder == device.heads * device.track
         IN  <<s \div cylinder, (s % cylinder) \div device.track,
               (s % cylinder) % device.track>>

\* The address registers: the low 28 bits, or cylinder, head and sector.  A
\* word has room for the cylinder and four bits for the head; of the sector's
\* number the register takes a byte.
Registers(s) ==
    IF device.lba THEN <<s % Lba28Sectors>>
    ELSE LET cylinder == device.heads * device.track
         IN  <<s \div cylinder, (s % cylinder) \div device.track,
               (((s % cylinder) % device.track) + 1) % ByteSize>>

\* mutant: every sector is sent to the first address
Command_SameSector ==
    /\ pc = "sector"
    /\ done < call.count
    /\ Send(call.op, Registers(call.sector))
    /\ pc' = "wait_drq"
    /\ UNCHANGED <<device, request, ret, page, port, media, stable>>

\* The next turn of the loop.  Its check of cylinder and head against the
\* geometry (RES_PARERR) never fails: see Reachable below.
Command ==
    /\ pc = "sector"
    /\ done < call.count
    /\ Send(call.op, Registers(call.sector + done))
    /\ pc' = "wait_drq"
    /\ UNCHANGED <<device, request, ret, page, port, media, stable>>

\* 256 words from the data register.
ReadWords ==
    /\ pc = "wait_drq"
    /\ DrqSet
    /\ call.op = "read"
    /\ buff' = Append(buff, port)
    /\ pc' = "wait_end"
    /\ status' = "ready" /\ work' = NoWork
    /\ UNCHANGED <<device, call, done, ret, page, port, media, stable>>

\* 256 words to the data register; a drive that asked for them stores them.
WriteWords ==
    /\ pc = "wait_drq"
    /\ DrqSet
    /\ call.op = "write"
    /\ port' = call.data[done + 1]
    /\ IF work.op = "write"
       THEN Taken /\ work' = [work EXCEPT !.op = "store"]
       ELSE status' = "ready" /\ work' = NoWork
    /\ pc' = "wait_end"
    /\ UNCHANGED <<device, request, ret, page, media, stable>>

SectorDone ==
    /\ pc = "wait_end"
    /\ BsyClear
    /\ done' = done + 1
    /\ pc' = "sector"
    /\ UNCHANGED <<device, call, buff, ret, drive>>

TransferFails ==
    /\ \/ pc = "wait_drq" /\ NoDrq
       \/ pc = "wait_end" /\ Failed
    /\ Answer(call, "RES_ERROR", <<>>)
    /\ UNCHANGED <<device, drive>>

TransferDone ==
    /\ pc = "sector"
    /\ done = call.count
    /\ Answer(call, "RES_OK", IF call.op = "read" THEN buff ELSE call.data)
    /\ UNCHANGED <<device, drive>>

(***************************************************************************)
(* disk_ioctl(CTRL_SYNC).                                                  *)
(***************************************************************************)
SyncCall == Call("flush", 0, 0, <<>>)

Sync ==
    /\ pc = "idle"
    /\ \/ /\ ~device.ready
          /\ Answer(SyncCall, "RES_NOTRDY", <<>>)
          /\ UNCHANGED <<status, work>>
       \/ /\ device.ready /\ ~device.flush
          /\ Answer(SyncCall, "RES_OK", <<>>)
          /\ UNCHANGED <<status, work>>
       \/ /\ device.ready /\ device.flush
          /\ call' = SyncCall
          /\ ret' = NoResult
          /\ pc' = "wait_flush"
          /\ Send("flush", <<>>)
          /\ UNCHANGED <<done, buff>>
    /\ UNCHANGED <<device, page, port, media, stable>>

SyncDone ==
    /\ pc = "wait_flush"
    /\ \/ BsyClear /\ Answer(call, "RES_OK", <<>>)
       \/ Failed /\ Answer(call, "RES_ERROR", <<>>)
    /\ UNCHANGED <<device, drive>>

(***************************************************************************)
(* The drive (external).  It writes to the medium or to its cache; what    *)
(* survives a power loss is settled by a flush.                            *)
(***************************************************************************)
Locate(at) ==
    IF Len(at) = 1 THEN at[1]
    ELSE ((at[1] * page.heads + at[2]) * page.track) + at[3] - 1

\* The sectors of a track are counted from 1.
Exists(s)  == s \in 0 .. Capacity(page) - 1
Found(at)  == (Len(at) = 3 => at[3] > 0) /\ Exists(Locate(at))

\* BSY appears in the register.
ShowBusy ==
    /\ status \in Late
    /\ status' = "busy"
    /\ UNCHANGED <<driver, page, work, port, media, stable>>

DriveAsks ==
    /\ status = "busy"
    /\ \/ work.op = "identify" /\ UNCHANGED port
       \/ work.op = "write" /\ Found(work.at) /\ UNCHANGED port
       \/ /\ work.op = "read" /\ Found(work.at)
          /\ port' = media[Locate(work.at)]
    /\ status' = "drq"
    /\ UNCHANGED <<driver, page, work, media, stable>>

Done == status' = "ready" /\ work' = NoWork /\ UNCHANGED <<driver, page, port>>

DriveStore ==
    /\ status = "busy"
    /\ work.op = "store"
    /\ media' = [media EXCEPT ![Locate(work.at)] = port]
    /\ Done
    /\ UNCHANGED stable

DriveFlush ==
    /\ status = "busy"
    /\ work.op = "flush"
    /\ stable' = media
    /\ Done
    /\ UNCHANGED media

\* A command fails; a sector being stored may be torn.
DriveError ==
    /\ status = "busy"
    /\ status' = "error" /\ work' = NoWork
    /\ \/ UNCHANGED media
       \/ /\ work.op = "store"
          /\ \E v \in Values : media' = [media EXCEPT ![Locate(work.at)] = v]
    /\ UNCHANGED <<driver, page, port, stable>>

Hang ==
    /\ status = "busy"
    /\ status' = "hung"
    /\ UNCHANGED <<driver, page, work, port, media, stable>>

Requests ==
    \/ Initialize
    \/ Sync
    \/ \E s \in Sectors, n \in 0 .. MaxCount :
          Read(s, n) \/ \E d \in [1 .. n -> Values] : Write(s, d)

DriverStep ==
    \/ IdentifyFails \/ IdentifyBusy \/ Identify
    \/ Command \/ ReadWords \/ WriteWords \/ SectorDone
    \/ TransferFails \/ TransferDone \/ SyncDone

DriveStep ==
    ShowBusy \/ DriveAsks \/ DriveStore \/ DriveFlush \/ DriveError \/ Hang

Next == Requests \/ DriverStep \/ DriveStep

Spec == Init /\ [][Next]_vars

\* The driver runs, and a drive answers or is out of time: the loops count.
FairSpec == Spec /\ WF_vars(DriverStep) /\ WF_vars(DriveStep)

(***************************************************************************)
(* Properties.                                                             *)
(***************************************************************************)
\* The type of the driver's and the drive's state.
TypeOK ==
    /\ pc \in Steps
    /\ device \in [ready : BOOLEAN, sectors : Nat, lba : BOOLEAN,
                   cylinders : Nat, heads : Nat, track : Nat, flush : BOOLEAN]
    /\ call.op \in {"none", "read", "write", "flush"}
    /\ call.sector \in Sectors \cup {0}
    /\ call.count \in 0 .. MaxCount
    /\ done \in 0 .. call.count
    /\ Len(buff) \in 0 .. call.count
    /\ ret.res \in {"RES_OK", "RES_ERROR", "RES_NOTRDY", "RES_PARERR"}
    /\ page \in Pages
    /\ status \in States \cup Late
    /\ work.op \in {"none", "identify", "read", "write", "store", "flush"}
    /\ port \in Values
    /\ media \in [Sectors -> Values]
    /\ stable \in [Sectors -> Values]

\* Every sector the driver accepts has an address of its own within the
\* geometry: the RES_PARERR inside the loop is never returned (diskio.c:243).
\* A track that does not fit the register is the exception: the number of a
\* sector is cut to a byte (diskio.c:248).
Reachable ==
    device.ready /\ Standard(page) =>
        \A s \in 0 .. device.sectors - 1 :
            /\ Exists(s)
            /\ Locate(Registers(s)) = s
            /\ ~device.lba => /\ Registers(s)[1] < device.cylinders
                              /\ Registers(s)[2] < device.heads
                              /\ Registers(s)[3] \in 1 .. device.track

\* Every call returns, whatever the drive does (ata_wait, diskio.c:91).
CallReturns == (pc # "idle") ~> (pc = "idle")

\* The disk layer keeps the promise SectorDevice states: RES_OK is true for
\* every sector of the range that was read or written (ata_transfer,
\* diskio.c:213), CTRL_SYNC means that what was written survives a power loss
\* (diskio.c:360), and a transfer that fails changes nothing outside its range.
\* It does so for Standard drives.  To one that sets BSY late, RES_OK of
\* CTRL_SYNC or of the last sector may come before the work; on one with tracks
\* that do not fit, a write may go to another sector of the track.
Promise == INSTANCE SectorDevice WITH
    store <- media, safe <- stable, pending <- call, syncable <- page.flush,
    result <- [op |-> ret.op, sector |-> ret.sector, data |-> ret.data,
               ok |-> ret.res = "RES_OK"]
ImplementsSectorDevice ==
    Promise!Init /\ [][Standard(page) => Promise!Next]_(Promise!vars)
=============================================================================
