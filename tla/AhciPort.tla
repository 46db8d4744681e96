------------------------------ MODULE AhciPort ------------------------------
(***************************************************************************)
(* The AHCI driver, kernel/drivers/ahci.c, with the drives it talks to.    *)
(*                                                                         *)
(* The driver is one thread that polls: it copies a sector through one     *)
(* static transfer_buffer shared by every port, waits for the port to be   *)
(* ready (port_wait), issues command slot 0 and polls until the command    *)
(* ends, fails or AHCI_TIMEOUT polls have gone by.  A drive runs           *)
(* concurrently with the driver: it moves data between its media and       *)
(* transfer_buffer by DMA whenever it gets to it.                          *)
(***************************************************************************)
EXTENDS Integers, Sequences, FiniteSets

CONSTANTS
    PortCount,        \* AHCI_MAX_PORTS: ports are scanned from 0 upwards
    Attached,         \* ports with an active ATA drive (PxSSTS, PxSIG)
    MaxDisks,         \* AHCI_MAX_DISKS
    Capacity,         \* sectors of the drive at each port
    FlushSupported,   \* IDENTIFY word 83, bit 12, of the drive at each port
    Sectors,          \* the sector numbers callers ask for: 0 .. some bound
    Lba28Sectors,     \* ATA_LBA28_SECTORS: what a 28-bit command can address
    Lba48,            \* drives that have 48-bit addresses
    WordSize,         \* 2^32: numbers of a uint32_t
    Values,           \* contents of a data sector
    None,             \* no data
    LateAnswers       \* TRUE if a drive may still carry out a command after
                      \* the driver has given it up (AHCI_TIMEOUT)

Ports == 0 .. PortCount - 1

ASSUME AhciAssumption ==
    /\ PortCount \in Nat
    /\ Attached \subseteq Ports
    /\ MaxDisks \in Nat
    /\ Capacity \in [Ports -> Nat]
    /\ FlushSupported \in [Ports -> BOOLEAN]
    /\ Sectors \subseteq Nat
    /\ 0 \in Sectors /\ \A s \in Sectors : 0 .. s \subseteq Sectors
    /\ Lba28Sectors \in Nat \ {0} /\ WordSize \in Nat \ {0}
    /\ Lba48 \in [Ports -> BOOLEAN]
    /\ \A p \in Ports : Lba48[p] \/ Capacity[p] < Lba28Sectors
    /\ Values # {}
    /\ None \notin Values
    /\ LateAnswers \in BOOLEAN

VARIABLES
    pc,               \* where the driver is: see Steps
    probe,            \* ahci_init: the next port to scan
    disks,            \* disk_ports, disk_sectors, disk_flush_supported
    call,             \* the command being run, with the caller's buffer
    ret,              \* what the last ahci_read/write/flush returned
    transfer_buffer,  \* the one static DMA buffer
    st,               \* each port: PxCMD.ST, PxTFD, PxIS.TFES and PxCI
    slot,             \* each port: the command in slot 0
    transferred,      \* each port: PRDBC of slot 0, in sectors
    media,            \* each drive: what a read of each sector returns
    stable            \* each drive: what survives a power loss

driver == <<pc, probe, disks, call, ret>>
drive  == <<media, stable>>
vars   == <<driver, transfer_buffer, st, slot, transferred, drive>>

(***************************************************************************)
(* The data.  An IDENTIFY page carries what the driver reads out of it:    *)
(* whether words 100 to 103 count the sectors, words 60 and 61, which      *)
(* count no further than 28 bits, and words 100 to 103.  BlankPage is a    *)
(* zeroed buffer.                                                          *)
(***************************************************************************)
Page(p) == [lba48   |-> Lba48[p],
            low     |-> IF Capacity[p] < Lba28Sectors THEN Capacity[p] ELSE Lba28Sectors - 1,
            sectors |-> IF Lba48[p] THEN Capacity[p] ELSE 0,
            flush   |-> FlushSupported[p]]
BlankPage == [lba48 |-> FALSE, low |-> 0, sectors |-> 0, flush |-> FALSE]
Pages     == [lba48 : BOOLEAN, low : Nat, sectors : Nat, flush : BOOLEAN]
Blocks    == Values \cup Pages

Steps  == {"scan", "idle", "port_wait", "poll", "finish"}
States == {"stopped", "idle", "busy", "error"}
Ops    == {"none", "identify", "read", "write", "flush"}

Command(op, p, s, v) == [op |-> op, port |-> p, sector |-> s, data |-> v]
Result(c, ok, v)     == [op |-> c.op, port |-> c.port, sector |-> c.sector,
                         data |-> v, ok |-> ok]
NoCommand == Command("none", 0, 0, None)
NoResult  == Result(NoCommand, FALSE, None)
EmptySlot == [op |-> "none", lba |-> 0]

Init ==
    /\ pc = "scan"
    /\ probe = 0
    /\ disks = <<>>
    /\ call = NoCommand
    /\ ret = NoResult
    /\ transfer_buffer = BlankPage
    /\ st = [p \in Ports |-> "stopped"]
    /\ slot = [p \in Ports |-> EmptySlot]
    /\ transferred = [p \in Ports |-> 0]
    /\ media \in {m \in [Ports -> [Sectors -> Values \cup {BlankPage}]] :
                   \A p \in Ports, s \in Sectors : m[p][s] = BlankPage <=> s >= Capacity[p]}
    /\ stable = media

(***************************************************************************)
(* ahci_init: the scan of the ports.                                       *)
(***************************************************************************)
\* mutant: the scan forgets AHCI_MAX_PORTS
Scanning_NoPortLimit == pc = "scan" /\ Len(disks) < MaxDisks
Scanning == pc = "scan" /\ probe < PortCount /\ Len(disks) < MaxDisks

\* No active ATA drive, or port_stop or port_start gave up on the port.
SkipPort ==
    /\ Scanning
    /\ probe' = probe + 1
    /\ UNCHANGED <<pc, disks, call, ret, transfer_buffer, st, slot,
                   transferred, drive>>

\* port_start succeeded: the drive may still be spinning up, or report an
\* error, when issue_command(IDENTIFY) starts to wait for it.
StartPort ==
    /\ Scanning
    /\ probe \in Attached
    /\ \E s \in {"idle", "busy", "error"} : st' = [st EXCEPT ![probe] = s]
    /\ call' = Command("identify", probe, 0, None)
    /\ pc' = "port_wait"
    /\ UNCHANGED <<probe, disks, ret, transfer_buffer, slot, transferred,
                   drive>>

EndScan ==
    /\ pc = "scan"
    /\ ~Scanning
    /\ pc' = "idle"
    /\ UNCHANGED <<probe, disks, call, ret, transfer_buffer, st, slot,
                   transferred, drive>>

(***************************************************************************)
(* ahci_transfer and ahci_flush, up to their call of issue_command.  The   *)
(* data of a write is copied into transfer_buffer first.                   *)
(***************************************************************************)
Refuse(op, s, v) ==
    /\ ret' = Result(Command(op, 0, s, v), FALSE, None)
    /\ UNCHANGED <<pc, call, transfer_buffer>>

InRange(d, s) == d < Len(disks) /\ s < disks[d + 1].sectors

Accept(op, d, s, v) ==
    /\ call' = Command(op, disks[d + 1].port, s, v)
    /\ ret' = NoResult
    /\ pc' = "port_wait"

Read(d, s) ==
    /\ pc = "idle"
    /\ \/ /\ ~InRange(d, s)
          /\ Refuse("read", s, None)
       \/ /\ InRange(d, s)
          /\ Accept("read", d, s, None)
          /\ UNCHANGED transfer_buffer
    /\ UNCHANGED <<probe, disks, st, slot, transferred, drive>>

\* mutant: the data is not copied into transfer_buffer
Write_NoCopy(d, s, v) ==
    /\ pc = "idle"
    /\ InRange(d, s)
    /\ Accept("write", d, s, v)
    /\ UNCHANGED <<probe, disks, transfer_buffer, st, slot, transferred, drive>>

Write(d, s, v) ==
    /\ pc = "idle"
    /\ \/ /\ ~InRange(d, s)
          /\ Refuse("write", s, v)
       \/ /\ InRange(d, s)
          /\ Accept("write", d, s, v)
          /\ transfer_buffer' = v
    /\ UNCHANGED <<probe, disks, st, slot, transferred, drive>>

\* mutant: a flush is answered without being sent
Flush_NotSent(d) ==
    /\ pc = "idle"
    /\ d < Len(disks)
    /\ ret' = Result(Command("flush", disks[d + 1].port, 0, None), TRUE, None)
    /\ UNCHANGED <<pc, call, transfer_buffer, probe, disks, st, slot,
                   transferred, drive>>

Flush(d) ==
    /\ pc = "idle"
    /\ \/ /\ d >= Len(disks)
          /\ Refuse("flush", 0, None)
       \/ /\ d < Len(disks)
          /\ ~disks[d + 1].flush
          /\ ret' = Result(Command("flush", disks[d + 1].port, 0, None),
                           TRUE, None)
          /\ UNCHANGED <<pc, call, transfer_buffer>>
       \/ /\ d < Len(disks)
          /\ disks[d + 1].flush
          /\ Accept("flush", d, 0, None)
          /\ UNCHANGED transfer_buffer
    /\ UNCHANGED <<probe, disks, st, slot, transferred, drive>>

(***************************************************************************)
(* issue_command: port_wait, the command, the polling loop.                *)
(***************************************************************************)
port == call.port

\* issue_command returned 0 (or IDENTIFY reported no sectors).  A caller
\* gets 0; the scan tries to stop the port and goes on to the next one.
GiveUp ==
    \/ /\ call.op # "identify"
       /\ pc' = "idle"
       /\ ret' = Result(call, FALSE, None)
       /\ call' = NoCommand
       /\ UNCHANGED <<probe, st>>
    \/ /\ call.op = "identify"
       /\ pc' = "scan"
       /\ probe' = probe + 1
       /\ call' = NoCommand
       /\ st' \in {st, [st EXCEPT ![port] = "stopped"]}
       /\ UNCHANGED ret

PortWaitError ==
    /\ pc = "port_wait"
    /\ st[port] = "error"
    /\ GiveUp
    /\ UNCHANGED <<disks, transfer_buffer, slot, transferred, drive>>

PortWaitTimeout ==
    /\ pc = "port_wait"
    /\ st[port] = "busy"
    /\ GiveUp
    /\ UNCHANGED <<disks, transfer_buffer, slot, transferred, drive>>

\* mutant: the boundary sector still gets a 28-bit command
Ext_OffByOne(op, s) == op \in {"read", "write"} /\ s > Lba28Sectors

\* ahci_transfer picks the EXT command from ATA_LBA28_SECTORS on.
Ext(op, s) == op \in {"read", "write"} /\ s >= Lba28Sectors

\* The FIS of the other commands carries the low 28 bits of the sector.
FisLba(op, s) == IF Ext(op, s) THEN s ELSE s % Lba28Sectors

\* mutant: port_wait does not look at PxTFD.ERR
Issue_IgnoreError ==
    /\ pc = "port_wait"
    /\ st[port] \in {"idle", "error"}
    /\ slot' = [slot EXCEPT ![port] =
                  [op |-> call.op, lba |-> FisLba(call.op, call.sector)]]
    /\ transferred' = [transferred EXCEPT ![port] = 0]
    /\ st' = [st EXCEPT ![port] = "busy"]
    /\ pc' = "poll"
    /\ UNCHANGED <<probe, disks, call, ret, transfer_buffer, drive>>

Issue ==
    /\ pc = "port_wait"
    /\ st[port] = "idle"
    /\ slot' = [slot EXCEPT ![port] =
                  [op |-> call.op, lba |-> FisLba(call.op, call.sector)]]
    /\ transferred' = [transferred EXCEPT ![port] = 0]
    /\ st' = [st EXCEPT ![port] = "busy"]
    /\ pc' = "poll"
    /\ UNCHANGED <<probe, disks, call, ret, transfer_buffer, drive>>

PollError ==
    /\ pc = "poll"
    /\ st[port] = "error"
    /\ GiveUp
    /\ UNCHANGED <<disks, transfer_buffer, slot, transferred, drive>>

\* AHCI_TIMEOUT polls without an answer.
PollTimeout ==
    /\ pc = "poll"
    /\ st[port] = "busy"
    /\ GiveUp
    /\ UNCHANGED <<disks, transfer_buffer, slot, transferred, drive>>

\* The transfer count a command must end with, in sectors.
SectorsOf(op) == IF op = "flush" THEN 0 ELSE 1

\* mutant: PRDBC is not compared with the length of the transfer
PollDone_NoCount ==
    /\ pc = "poll"
    /\ st[port] = "idle"
    /\ pc' = "finish"
    /\ UNCHANGED <<probe, disks, call, ret, transfer_buffer, st, slot,
                   transferred, drive>>

\* CI is clear and every byte was transferred: issue_command returns 1.
PollDone ==
    /\ pc = "poll"
    /\ st[port] = "idle"
    /\ transferred[port] = SectorsOf(call.op)
    /\ pc' = "finish"
    /\ UNCHANGED <<probe, disks, call, ret, transfer_buffer, st, slot,
                   transferred, drive>>

\* CI is clear but the transfer was short.
PollShort ==
    /\ pc = "poll"
    /\ st[port] = "idle"
    /\ transferred[port] # SectorsOf(call.op)
    /\ GiveUp
    /\ UNCHANGED <<disks, transfer_buffer, slot, transferred, drive>>

(***************************************************************************)
(* After issue_command returned 1: register the disk, or copy the data of  *)
(* a read out of transfer_buffer and return.                               *)
(***************************************************************************)
\* Of the count of 48 bits, only words 100 and 101 are read.
IdentifySectors ==
    CASE transfer_buffer \notin Pages -> 0
      [] transfer_buffer \in Pages /\ transfer_buffer.lba48 -> transfer_buffer.sectors % WordSize
      [] OTHER -> transfer_buffer.low

\* mutant: the disk's number for the port's
Register_NumberForPort ==
    /\ pc = "finish"
    /\ call.op = "identify"
    /\ IdentifySectors > 0
    /\ disks' = Append(disks, [port    |-> Len(disks),
                               sectors |-> IdentifySectors,
                               flush   |-> transfer_buffer.flush])
    /\ probe' = probe + 1
    /\ call' = NoCommand
    /\ pc' = "scan"
    /\ UNCHANGED <<ret, transfer_buffer, st, slot, transferred, drive>>

Register ==
    /\ pc = "finish"
    /\ call.op = "identify"
    /\ IdentifySectors > 0
    /\ disks' = Append(disks, [port    |-> port,
                               sectors |-> IdentifySectors,
                               flush   |-> transfer_buffer.flush])
    /\ probe' = probe + 1
    /\ call' = NoCommand
    /\ pc' = "scan"
    /\ UNCHANGED <<ret, transfer_buffer, st, slot, transferred, drive>>

NoSectors ==
    /\ pc = "finish"
    /\ call.op = "identify"
    /\ IdentifySectors = 0
    /\ GiveUp
    /\ UNCHANGED <<disks, transfer_buffer, slot, transferred, drive>>

Return ==
    /\ pc = "finish"
    /\ call.op # "identify"
    /\ ret' = Result(call, TRUE, IF call.op = "read" THEN transfer_buffer
                                                     ELSE call.data)
    /\ call' = NoCommand
    /\ pc' = "idle"
    /\ UNCHANGED <<probe, disks, transfer_buffer, st, slot, transferred, drive>>

(***************************************************************************)
(* The drives.  A drive takes a command as soon as CI is set; it may be    *)
(* slow.  Unless LateAnswers, a drive that let AHCI_TIMEOUT polls go by is *)
(* dead and never touches its media or the buffer again.                   *)
(***************************************************************************)
Runs(p, op) ==
    /\ st[p] = "busy"
    /\ slot[p].op = op
    /\ LateAnswers \/ (pc = "poll" /\ port = p)

Reachable(p) == slot[p].lba < Capacity[p]

Complete(p, n) ==
    /\ st' = [st EXCEPT ![p] = "idle"]
    /\ transferred' = [transferred EXCEPT ![p] = n]
    /\ UNCHANGED <<driver, slot>>

DriveReady(p) ==
    /\ st[p] = "busy"
    /\ slot[p] = EmptySlot
    /\ st' = [st EXCEPT ![p] = "idle"]
    /\ UNCHANGED <<driver, transfer_buffer, slot, transferred, drive>>

DriveIdentify(p) ==
    /\ Runs(p, "identify")
    /\ transfer_buffer' = Page(p)
    /\ Complete(p, 1)
    /\ UNCHANGED drive

DriveRead(p) ==
    /\ Runs(p, "read")
    /\ Reachable(p)
    /\ transfer_buffer' = media[p][slot[p].lba]
    /\ Complete(p, 1)
    /\ UNCHANGED drive

DriveWrite(p) ==
    /\ Runs(p, "write")
    /\ Reachable(p)
    /\ media' = [media EXCEPT ![p][slot[p].lba] = transfer_buffer]
    /\ Complete(p, 1)
    /\ UNCHANGED <<transfer_buffer, stable>>

DriveFlush(p) ==
    /\ Runs(p, "flush")
    /\ stable' = [stable EXCEPT ![p] = media[p]]
    /\ Complete(p, 0)
    /\ UNCHANGED <<transfer_buffer, media>>

\* A data transfer that stops half way leaves any mixture behind.
Partial(p) ==
    \/ UNCHANGED <<transfer_buffer, media>>
    \/ /\ slot[p].op = "read"
       /\ transfer_buffer' \in Values
       /\ UNCHANGED media
    \/ /\ slot[p].op = "write"
       /\ Reachable(p)
       /\ \E v \in Values : media' = [media EXCEPT ![p][slot[p].lba] = v]
       /\ UNCHANGED transfer_buffer

DriveShort(p) ==
    /\ \E op \in {"identify", "read", "write"} : Runs(p, op)
    /\ Partial(p)
    /\ Complete(p, 0)
    /\ UNCHANGED stable

DriveError(p) ==
    /\ \E op \in Ops \ {"none"} : Runs(p, op)
    /\ Partial(p)
    /\ st' = [st EXCEPT ![p] = "error"]
    /\ UNCHANGED <<driver, slot, transferred, stable>>

(***************************************************************************)
(* The whole.                                                              *)
(***************************************************************************)
Scan    == SkipPort \/ StartPort \/ EndScan
Request == \E d \in 0 .. MaxDisks :
              \/ Flush(d)
              \/ \E s \in Sectors : Read(d, s) \/ \E v \in Values : Write(d, s, v)
Polling == \/ PortWaitError \/ PortWaitTimeout \/ Issue
           \/ PollError \/ PollTimeout \/ PollDone \/ PollShort
Finish  == Register \/ NoSectors \/ Return
Drive   == \E p \in Ports :
              \/ DriveReady(p) \/ DriveIdentify(p) \/ DriveRead(p)
              \/ DriveWrite(p) \/ DriveFlush(p) \/ DriveShort(p)
              \/ DriveError(p)

Next == Scan \/ Request \/ Polling \/ Finish \/ Drive

Spec == Init /\ [][Next]_vars

(***************************************************************************)
(* Properties.                                                             *)
(***************************************************************************)
Slots    == [op : Ops, lba : Sectors]
Calls    == [op : Ops, port : Ports \cup {0}, sector : Sectors \cup {0},
             data : Values \cup {None}]
Results  == [op : Ops, port : Ports \cup {0}, sector : Sectors \cup {0},
             data : Blocks \cup {None}, ok : BOOLEAN]
Disks    == [port : Ports, sectors : Nat, flush : BOOLEAN]
Media    == [Ports -> [Sectors -> Blocks]]

\* The type of every variable of the driver and the drives.
TypeOK ==
    /\ pc \in Steps
    /\ probe \in 0 .. PortCount
    /\ disks \in Seq(Disks)
    /\ call \in Calls
    /\ ret \in Results
    /\ transfer_buffer \in Blocks
    /\ st \in [Ports -> States]
    /\ slot \in [Ports -> Slots]
    /\ transferred \in [Ports -> 0 .. 1]
    /\ media \in Media
    /\ stable \in Media

\* ahci_write returned 1: the drive holds exactly the caller's bytes in the
\* caller's sector, whatever went on before on this or any other port.
WriteIntegrity ==
    ret.op = "write" /\ ret.ok => media[ret.port][ret.sector] = ret.data

\* ahci_read returned 1: the caller's buffer holds the drive's sector.
ReadIntegrity ==
    ret.op = "read" /\ ret.ok => ret.data = media[ret.port][ret.sector]

\* ahci_flush returned 1 for a drive that has FLUSH CACHE: everything ever
\* written to it survives a power loss.
FlushDurable ==
    ret.op = "flush" /\ ret.ok /\ FlushSupported[ret.port]
        => stable[ret.port] = media[ret.port]

\* ahci_init built the disk table from the right IDENTIFY pages: each disk is
\* another attached port, in scan order, with its own flush flag and a size that
\* no access goes past - its own below 2^32 sectors, less for a larger drive
\* (identify_sectors, ahci.c:280) - and there are at most AHCI_MAX_DISKS.
DiskTable ==
    /\ Len(disks) <= MaxDisks
    /\ \A i \in DOMAIN disks :
          /\ disks[i].port \in Attached
          /\ disks[i].port < probe
          /\ disks[i].sectors \in 1 .. Capacity[disks[i].port]
          /\ Capacity[disks[i].port] < WordSize =>
                disks[i].sectors = Capacity[disks[i].port]
          /\ disks[i].flush = FlushSupported[disks[i].port]
          /\ \A j \in 1 .. i - 1 : disks[j].port < disks[i].port

\* The driver has no error recovery: after a task file error it never issues
\* another command on the port, and nothing succeeds there any more.
ErrorIsFinal ==
    [][\A p \in Ports :
         st[p] = "error"
             => /\ slot'[p] = slot[p]
                /\ st'[p] \in {"error", "stopped"}
                /\ ret' # ret /\ ret'.port = p /\ ret'.op \in {"read", "write"}
                       => ~ret'.ok]_vars

\* The driver implements the block device its callers expect.
BD == INSTANCE BlockDisk
        WITH Disks    <- Ports,
             Initial  <- Values \cup {BlankPage},
             Syncable <- { p \in Ports : FlushSupported[p] },
             store    <- media,
             safe     <- stable,
             pending  <- IF call.op = "identify" THEN NoCommand ELSE call,
             result   <- ret

ImplementsBlockDisk == BD!Spec

(***************************************************************************)
(* The inductive invariant behind the integrity properties.                *)
(***************************************************************************)
\* What the types of the variables rest on: no command outside issue_command
\* and its callers, and an IDENTIFY only for a port that exists.
ProbeOK ==
    /\ pc \in {"scan", "idle"} => call = NoCommand
    /\ call.op = "identify" => probe < PortCount /\ call.port = probe

Running == pc \in {"port_wait", "poll", "finish"}

\* The command being run is one that ahci_init or ahci_transfer accepted.
CallOK ==
    Running =>
         /\ call.op # "none"
         /\ call.port \in Ports
         /\ call.op = "identify" =>
              /\ probe \in Attached
              /\ Len(disks) < MaxDisks
         /\ call.op \in {"read", "write"} => call.sector < Capacity[call.port]
         /\ call.op = "write" => call.data \in Values

\* While the driver polls, slot 0 holds its command, for the right sector.
SlotOK ==
    pc = "poll" =>
        /\ slot[call.port].op = call.op
        /\ call.op \in {"read", "write"} => slot[call.port].lba = call.sector

\* transfer_buffer is the driver's own until the write has ended.
BufferOK ==
    Running /\ call.op = "write" => transfer_buffer = call.data

\* A command that ended well had its effect.
Effect ==
    /\ call.op = "identify" => transfer_buffer = Page(call.port)
    /\ call.op = "read" => transfer_buffer = media[call.port][call.sector]
    /\ call.op = "write" => media[call.port][call.sector] = call.data
    /\ call.op = "flush" => stable[call.port] = media[call.port]

Ended ==
    \/ pc = "finish"
    \/ /\ pc = "poll"
       /\ st[call.port] = "idle"
       /\ transferred[call.port] = SectorsOf(call.op)

Answers == WriteIntegrity /\ ReadIntegrity /\ FlushDurable

IInv ==
    /\ TypeOK /\ ProbeOK /\ CallOK /\ SlotOK /\ BufferOK
    /\ Ended => Effect
    /\ pc # "idle" => ret = NoResult
    /\ Answers
    /\ DiskTable
=============================================================================
