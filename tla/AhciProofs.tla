----------------------------- MODULE AhciProofs -----------------------------
(***************************************************************************)
(* Proofs about the AHCI driver, for every number of ports, every size of  *)
(* drive and every set of sector contents.                                 *)
(***************************************************************************)
EXTENDS AhciPort, TLAPS

(***************************************************************************)
(* Helpers.                                                                *)
(***************************************************************************)

\* A sector below ATA_LBA28_SECTORS survives a 28-bit command.
LEMMA LowSectors ==
    ASSUME NEW n \in Nat \ {0}, NEW s \in Nat, s < n
    PROVE  s % n = s
  OBVIOUS

\* What division by a positive number leaves.
LEMMA Remainder ==
    ASSUME NEW a \in Nat, NEW u \in Nat \ {0}
    PROVE  a % u \in 0 .. a
  BY SMTT(30)

\* The address in the FIS is never past the sector that was asked for.
LEMMA FisLbaType ==
    ASSUME NEW op, NEW s \in Sectors
    PROVE  FisLba(op, s) \in Sectors
<1>1. s \in Nat /\ Lba28Sectors \in Nat \ {0} /\ 0 .. s \subseteq Sectors
  BY AhciAssumption
<1>2. s % Lba28Sectors \in 0 .. s
  BY <1>1, Remainder
<1>3. s % Lba28Sectors \in Sectors
  BY <1>1, <1>2
<1> QED
  BY <1>3 DEF FisLba

\* An IDENTIFY page has the type of a page.
LEMMA PageType == ASSUME NEW p \in Ports PROVE Page(p) \in Pages
<1> DEFINE low == IF Capacity[p] < Lba28Sectors THEN Capacity[p] ELSE Lba28Sectors - 1
           sectors == IF Lba48[p] THEN Capacity[p] ELSE 0
<1>1. /\ Capacity[p] \in Nat /\ Lba28Sectors \in Nat \ {0}
      /\ Lba48[p] \in BOOLEAN /\ FlushSupported[p] \in BOOLEAN
  BY AhciAssumption
<1>2. low \in Nat /\ sectors \in Nat
  BY <1>1
<1> HIDE DEF low, sectors
<1>3. [lba48 |-> Lba48[p], low |-> low, sectors |-> sectors,
       flush |-> FlushSupported[p]] \in Pages
  BY <1>1, <1>2 DEF Pages
<1> QED
  BY <1>3 DEF Page, low, sectors

\* The size the driver takes from a drive's page: never more than the drive
\* has, and exactly that if it fits into 32 bits.
LEMMA SizeRead ==
    ASSUME NEW p \in Ports, transfer_buffer = Page(p)
    PROVE  /\ IdentifySectors \in 0 .. Capacity[p]
           /\ Capacity[p] < WordSize => IdentifySectors = Capacity[p]
<1>1. /\ Capacity[p] \in Nat /\ WordSize \in Nat \ {0}
      /\ Lba48[p] \/ Capacity[p] < Lba28Sectors
      /\ Lba28Sectors \in Nat
  BY AhciAssumption
<1>2. transfer_buffer \in Pages
  BY PageType
<1>3. CASE Lba48[p]
  <2>1. IdentifySectors = Capacity[p] % WordSize
    BY <1>2, <1>3 DEF IdentifySectors, Page
  <2>2. Capacity[p] % WordSize \in 0 .. Capacity[p]
    BY <1>1, Remainder
  <2>3. Capacity[p] < WordSize => Capacity[p] % WordSize = Capacity[p]
    BY <1>1, LowSectors
  <2> QED
    BY <2>1, <2>2, <2>3
<1>4. CASE ~Lba48[p]
  <2>1. IdentifySectors = Capacity[p]
    BY <1>1, <1>2, <1>4 DEF IdentifySectors, Page
  <2> QED
    BY <1>1, <2>1
<1> QED
  BY <1>3, <1>4

\* A command is a record of the type the driver's variable has.
LEMMA CommandType ==
    ASSUME NEW op \in Ops, NEW p \in Ports \cup {0},
           NEW s \in Sectors \cup {0}, NEW v \in Values \cup {None}
    PROVE  Command(op, p, s, v) \in Calls
  BY DEF Command, Calls

\* What a call returns has the type of ret.
LEMMA ResultType ==
    ASSUME NEW c \in Calls, NEW ok \in BOOLEAN, NEW v \in Blocks \cup {None}
    PROVE  Result(c, ok, v) \in Results
  BY DEF Result, Calls, Results

\* The number of ports is a number.
LEMMA PortCountType == PortCount \in Nat
  BY AhciAssumption

\* Sector numbers are numbers.
LEMMA SectorsType == ASSUME NEW s \in Sectors \cup {0} PROVE s \in Nat
<1>1. CASE s \in Sectors
  BY <1>1, AhciAssumption
<1>2. CASE s = 0
  BY <1>2
<1> QED
  BY <1>1, <1>2

\* The values that stand for no command and no result.
LEMMA NothingType == NoCommand \in Calls /\ NoResult \in Results
  BY CommandType, ResultType DEF NoCommand, NoResult, Ops

(***************************************************************************)
(* Type correctness, whether or not drives answer late.                    *)
(***************************************************************************)
TypeInv == TypeOK /\ ProbeOK

\* At boot.
LEMMA InitType == Init => TypeInv
<1> SUFFICES ASSUME Init PROVE TypeInv
  OBVIOUS
<1>1. transfer_buffer \in Blocks
  BY DEF Init, BlankPage, Blocks, Pages
<1>2. media \in Media /\ stable \in Media
  <2>1. Values \cup {BlankPage} \subseteq Blocks
    <3>1. BlankPage \in Blocks
      BY DEF BlankPage, Blocks, Pages
    <3> QED
      BY <3>1 DEF Blocks
  <2>2. media \in [Ports -> [Sectors -> Values \cup {BlankPage}]] /\ stable = media
    BY DEF Init
  <2> QED
    BY <2>1, <2>2 DEF Media
<1>3. slot \in [Ports -> Slots]
  BY AhciAssumption DEF Init, EmptySlot, Slots, Ops
<1>4. call \in Calls /\ ret \in Results /\ ProbeOK
  BY NothingType DEF Init, ProbeOK, NoCommand, Command
<1> QED
  BY <1>1, <1>2, <1>3, <1>4, AhciAssumption
  DEF Init, TypeInv, TypeOK, Steps, States

\* Giving up a command keeps the driver's variables typed.
LEMMA GiveUpType ==
    ASSUME TypeInv, GiveUp, pc # "idle"
    PROVE  /\ pc' \in Steps /\ probe' \in 0 .. PortCount
           /\ call' \in Calls /\ ret' \in Results
           /\ st' \in [Ports -> States] /\ ProbeOK'
<1>1. NoCommand \in Calls /\ Result(call, FALSE, None) \in Results
  BY NothingType, ResultType DEF TypeInv, TypeOK
<1>2. call' = NoCommand /\ ProbeOK'
  <2>1. call' = NoCommand /\ NoCommand.op = "none"
    BY DEF GiveUp, NoCommand, Command
  <2> QED
    BY <2>1 DEF ProbeOK
<1>3. st' \in [Ports -> States]
  BY DEF GiveUp, TypeInv, TypeOK, States
<1>4. probe' \in 0 .. PortCount
  <2>1. probe' = probe \/ (probe' = probe + 1 /\ call.op = "identify")
    BY DEF GiveUp
  <2> QED
    BY <2>1, PortCountType DEF TypeInv, TypeOK, ProbeOK
<1>5. pc' \in Steps
  BY DEF GiveUp, Steps
<1>6. ret' \in Results
  BY <1>1 DEF GiveUp, TypeInv, TypeOK
<1> QED
  BY <1>1, <1>2, <1>3, <1>4, <1>5, <1>6

\* A disk number that InRange accepts is an index of the disk table.
LEMMA DiskIndex ==
    ASSUME TypeInv, NEW d \in 0 .. MaxDisks, d < Len(disks)
    PROVE  /\ d + 1 \in DOMAIN disks
           /\ disks[d + 1] \in Disks
  BY AhciAssumption DEF TypeInv, TypeOK

\* The steps of ahci_init between two ports.
LEMMA ScanType == ASSUME TypeInv, Scan PROVE TypeInv'
<1> USE DEF TypeInv
<1>1. CASE SkipPort
  <2>1. probe' \in 0 .. PortCount
    BY <1>1, PortCountType DEF SkipPort, Scanning, TypeOK
  <2>2. call.op # "identify"
    BY <1>1 DEF SkipPort, Scanning, ProbeOK, NoCommand, Command
  <2> QED
    BY <1>1, <2>1, <2>2 DEF SkipPort, Scanning, TypeOK, ProbeOK, drive
<1>2. CASE StartPort
  <2>1. probe \in Ports /\ probe < PortCount
    BY <1>2, AhciAssumption DEF StartPort, Scanning
  <2>3. Command("identify", probe, 0, None) \in Calls
    BY <2>1, CommandType DEF Ops
  <2>2. st' \in [Ports -> States]
    BY <1>2 DEF StartPort, TypeOK, States
  <2> QED
    BY <1>2, <2>1, <2>2, <2>3
    DEF StartPort, Scanning, TypeOK, ProbeOK, Steps, Command, drive
<1>3. CASE EndScan
  BY <1>3 DEF EndScan, TypeOK, ProbeOK, Steps, drive
<1> QED
  BY <1>1, <1>2, <1>3 DEF Scan

\* The steps of a request leave the drives and the disk table alone.
LEMMA RequestFrame ==
    ASSUME TypeInv, UNCHANGED <<probe, disks, st, slot, transferred, drive>>,
           pc' \in Steps, call' \in Calls, ret' \in Results, ProbeOK',
           transfer_buffer' \in Blocks
    PROVE  TypeInv'
  BY DEF TypeInv, TypeOK, drive

\* A call that is refused.
LEMMA RefuseType ==
    ASSUME TypeInv, UNCHANGED probe,
           NEW op \in {"read", "write", "flush"},
           NEW s \in Sectors \cup {0}, NEW v \in Values \cup {None},
           Refuse(op, s, v)
    PROVE  /\ pc' \in Steps /\ call' \in Calls /\ ret' \in Results /\ ProbeOK'
           /\ transfer_buffer' \in Blocks
<1>1. Command(op, 0, s, v) \in Calls
  BY CommandType DEF Ops
<1>2. Result(Command(op, 0, s, v), FALSE, None) \in Results
  BY <1>1, ResultType
<1>3. ProbeOK'
  BY DEF Refuse, TypeInv, ProbeOK
<1> QED
  BY <1>2, <1>3 DEF Refuse, TypeInv, TypeOK

\* A call that goes on to issue_command.
LEMMA AcceptType ==
    ASSUME TypeInv, UNCHANGED probe,
           NEW op \in {"read", "write", "flush"},
           NEW d \in 0 .. MaxDisks, d < Len(disks),
           NEW s \in Sectors \cup {0}, NEW v \in Values \cup {None},
           Accept(op, d, s, v)
    PROVE  pc' \in Steps /\ call' \in Calls /\ ret' \in Results /\ ProbeOK'
<1>1. disks[d + 1].port \in Ports
  BY DiskIndex DEF Disks
<1>2. Command(op, disks[d + 1].port, s, v) \in Calls
  BY <1>1, CommandType DEF Ops
<1>3. Command(op, disks[d + 1].port, s, v).op # "identify"
  BY DEF Command
<1>4. pc' = "port_wait" /\ call' = Command(op, disks[d + 1].port, s, v)
      /\ ret' = NoResult
  BY DEF Accept
<1>5. ProbeOK'
  BY <1>3, <1>4 DEF ProbeOK
<1> QED
  BY <1>2, <1>4, <1>5, NothingType DEF Steps

\* ahci_read, ahci_write and ahci_flush up to issue_command.
LEMMA RequestType == ASSUME TypeInv, Request PROVE TypeInv'
<1> PICK d \in 0 .. MaxDisks :
        Flush(d) \/ \E s \in Sectors : Read(d, s)
                                    \/ \E v \in Values : Write(d, s, v)
  BY DEF Request
<1>1. ASSUME NEW s \in Sectors, Read(d, s)
      PROVE  TypeInv'
  <2>1. UNCHANGED <<probe, disks, st, slot, transferred, drive>>
    BY <1>1 DEF Read
  <2>2. CASE InRange(d, s)
    <3>1. Accept("read", d, s, None) /\ d < Len(disks)
          /\ UNCHANGED transfer_buffer
      BY <1>1, <2>2 DEF Read, InRange
    <3>2. transfer_buffer' \in Blocks
      BY <3>1 DEF TypeInv, TypeOK
    <3> QED
      BY <2>1, <3>1, <3>2, AcceptType, RequestFrame
  <2>3. CASE ~InRange(d, s)
    <3>1. Refuse("read", s, None)
      BY <1>1, <2>3 DEF Read
    <3> QED
      BY <2>1, <3>1, RefuseType, RequestFrame
  <2> QED
    BY <2>2, <2>3
<1>2. ASSUME NEW s \in Sectors, NEW v \in Values, Write(d, s, v)
      PROVE  TypeInv'
  <2>1. UNCHANGED <<probe, disks, st, slot, transferred, drive>>
    BY <1>2 DEF Write
  <2>2. CASE InRange(d, s)
    <3>1. Accept("write", d, s, v) /\ d < Len(disks) /\ transfer_buffer' = v
      BY <1>2, <2>2 DEF Write, InRange
    <3>2. transfer_buffer' \in Blocks
      BY <3>1 DEF Blocks
    <3> QED
      BY <2>1, <3>1, <3>2, AcceptType, RequestFrame
  <2>3. CASE ~InRange(d, s)
    <3>1. Refuse("write", s, v)
      BY <1>2, <2>3 DEF Write
    <3> QED
      BY <2>1, <3>1, RefuseType, RequestFrame
  <2> QED
    BY <2>2, <2>3
<1>3. ASSUME Flush(d) PROVE TypeInv'
  <2>1. UNCHANGED <<probe, disks, st, slot, transferred, drive>>
    BY <1>3 DEF Flush
  <2>2. CASE Refuse("flush", 0, None)
    BY <2>1, <2>2, RefuseType, RequestFrame
  <2>3. CASE d < Len(disks) /\ Accept("flush", d, 0, None)
             /\ UNCHANGED transfer_buffer
    <3>1. transfer_buffer' \in Blocks
      BY <2>3 DEF TypeInv, TypeOK
    <3> QED
      BY <2>1, <2>3, <3>1, AcceptType, RequestFrame
  <2>4. CASE d < Len(disks) /\ UNCHANGED <<pc, call, transfer_buffer>>
             /\ ret' = Result(Command("flush", disks[d + 1].port, 0, None),
                              TRUE, None)
    <3>1. disks[d + 1].port \in Ports
      BY <2>4, DiskIndex DEF Disks
    <3>2. Command("flush", disks[d + 1].port, 0, None) \in Calls
      BY <3>1, CommandType DEF Ops
    <3>3. ret' \in Results
      BY <2>4, <3>2, ResultType
    <3>4. /\ pc' \in Steps /\ call' \in Calls /\ ProbeOK'
          /\ transfer_buffer' \in Blocks
      BY <2>1, <2>4 DEF TypeInv, TypeOK, ProbeOK
    <3> QED
      BY <2>1, <3>3, <3>4, RequestFrame
  <2> QED
    BY <1>3, <2>2, <2>3, <2>4 DEF Flush
<1> QED
  BY <1>1, <1>2, <1>3

\* The steps of issue_command.
LEMMA PollingType == ASSUME TypeInv, Polling PROVE TypeInv'
<1>1. CASE Issue
  <2>1. [op |-> call.op, lba |-> FisLba(call.op, call.sector)] \in Slots
    <3>1. call.sector \in Sectors \cup {0} /\ call.op \in Ops
      BY DEF TypeInv, TypeOK, Calls
    <3>3. call.sector \in Sectors
      BY <3>1, AhciAssumption
    <3>2. FisLba(call.op, call.sector) \in Sectors
      BY <3>3, FisLbaType
    <3> QED
      BY <3>1, <3>2 DEF Slots
  <2>2. slot' \in [Ports -> Slots]
    BY <1>1, <2>1 DEF Issue, TypeInv, TypeOK
  <2>5. transferred' \in [Ports -> 0 .. 1]
    <3>1. transferred' = [transferred EXCEPT ![port] = 0]
      BY <1>1 DEF Issue
    <3>2. \A n \in 0 .. 1 :
             [transferred EXCEPT ![port] = n] \in [Ports -> 0 .. 1]
      BY DEF TypeInv, TypeOK
    <3> QED
      BY <3>1, <3>2
  <2>3. st' \in [Ports -> States] /\ pc' \in Steps
    BY <1>1 DEF Issue, TypeInv, TypeOK, States, Steps
  <2>4. ProbeOK'
    BY <1>1 DEF Issue, TypeInv, ProbeOK
  <2> QED
    BY <1>1, <2>2, <2>3, <2>4, <2>5 DEF Issue, TypeInv, TypeOK, drive
<1>2. CASE PollDone
  BY <1>2 DEF PollDone, TypeInv, TypeOK, ProbeOK, Steps, drive
<1>3. CASE PortWaitError \/ PortWaitTimeout \/ PollError \/ PollTimeout
           \/ PollShort
  <2>1. GiveUp /\ pc # "idle"
        /\ UNCHANGED <<disks, transfer_buffer, slot, transferred, drive>>
    BY <1>3 DEF PortWaitError, PortWaitTimeout, PollError, PollTimeout,
                PollShort
  <2> QED
    BY <2>1, GiveUpType DEF TypeInv, TypeOK, drive
<1> QED
  BY <1>1, <1>2, <1>3 DEF Polling

\* The steps after issue_command returned 1.
LEMMA FinishType == ASSUME TypeInv, Finish PROVE TypeInv'
<1>1. CASE Register
  <2> DEFINE row == [port |-> call.port, sectors |-> IdentifySectors,
                     flush |-> transfer_buffer.flush]
  <2>1. call.port \in Ports /\ probe + 1 \in 0 .. PortCount
    BY <1>1, PortCountType DEF Register, TypeInv, TypeOK, ProbeOK, Ports
  <2>2. transfer_buffer \in Pages
    BY <1>1 DEF Register, IdentifySectors
  <2>3. row \in Disks
    <3>1. transfer_buffer.sectors % WordSize \in Nat
      BY <2>2, Remainder, AhciAssumption DEF Pages
    <3>2. IdentifySectors \in Nat
      BY <2>2, <3>1 DEF IdentifySectors, Pages
    <3> QED
      BY <2>1, <2>2, <3>2 DEF Pages, Disks
  <2>4. disks' \in Seq(Disks) /\ probe' \in 0 .. PortCount
    BY <1>1, <2>1, <2>3 DEF Register, port, TypeInv, TypeOK
  <2>5. ProbeOK' /\ call' \in Calls
    BY <1>1, NothingType DEF Register, ProbeOK, NoCommand, Command
  <2> QED
    BY <1>1, <2>4, <2>5 DEF Register, TypeInv, TypeOK, Steps, drive
<1>2. CASE NoSectors
  <2>1. GiveUp /\ pc # "idle"
        /\ UNCHANGED <<disks, transfer_buffer, slot, transferred, drive>>
    BY <1>2 DEF NoSectors
  <2> QED
    BY <2>1, GiveUpType DEF TypeInv, TypeOK, drive
<1>3. CASE Return
  <2> DEFINE v == IF call.op = "read" THEN transfer_buffer ELSE call.data
  <2>1. v \in Blocks \cup {None}
    BY DEF TypeInv, TypeOK, Calls, Blocks
  <2>2. ret' \in Results
    BY <1>3, <2>1, ResultType DEF Return, TypeInv, TypeOK
  <2>3. ProbeOK' /\ call' \in Calls
    BY <1>3, NothingType DEF Return, ProbeOK, NoCommand, Command
  <2> QED
    BY <1>3, <2>2, <2>3 DEF Return, TypeInv, TypeOK, Steps, drive
<1> QED
  BY <1>1, <1>2, <1>3 DEF Finish

\* A sector a drive can reach is a sector of the model.
LEMMA ReachableSector ==
    ASSUME TypeInv, NEW p \in Ports, Reachable(p)
    PROVE  slot[p].lba \in Sectors
  BY DEF TypeInv, TypeOK, Slots

\* The steps of the drives.
LEMMA DriveType == ASSUME TypeInv, Drive PROVE TypeInv'
<1> PICK p \in Ports : \/ DriveReady(p) \/ DriveIdentify(p) \/ DriveRead(p)
                       \/ DriveWrite(p) \/ DriveFlush(p) \/ DriveShort(p)
                       \/ DriveError(p)
  BY DEF Drive
\* Only the drive, the buffer, the slot and the port's state change.
<1>1. UNCHANGED driver /\ UNCHANGED slot
  BY DEF DriveReady, DriveIdentify, DriveRead, DriveWrite, DriveFlush,
         DriveShort, DriveError, Complete
<1>2. st' \in [Ports -> States] /\ transferred' \in [Ports -> 0 .. 1]
  <2>1. \A n \in 0 .. 1 : Complete(p, n) =>
           st' \in [Ports -> States] /\ transferred' \in [Ports -> 0 .. 1]
    BY DEF Complete, TypeInv, TypeOK, States
  <2>2. CASE DriveReady(p) \/ DriveError(p)
    BY <2>2 DEF DriveReady, DriveError, TypeInv, TypeOK, States
  <2> QED
    BY <2>1, <2>2 DEF DriveIdentify, DriveRead, DriveWrite, DriveFlush,
                      DriveShort
<1>3. ASSUME Partial(p) PROVE transfer_buffer' \in Blocks /\ media' \in Media
  <2>1. CASE UNCHANGED <<transfer_buffer, media>>
    BY <2>1 DEF TypeInv, TypeOK
  <2>2. CASE transfer_buffer' \in Values /\ UNCHANGED media
    BY <2>2 DEF TypeInv, TypeOK, Blocks
  <2>3. ASSUME NEW v \in Values, Reachable(p), UNCHANGED transfer_buffer,
               media' = [media EXCEPT ![p][slot[p].lba] = v]
        PROVE  transfer_buffer' \in Blocks /\ media' \in Media
    BY <2>3 DEF TypeInv, TypeOK, Media, Blocks
  <2> QED
    BY <1>3, <2>1, <2>2, <2>3 DEF Partial
<1>4. transfer_buffer' \in Blocks /\ media' \in Media /\ stable' \in Media
  <2>1. CASE DriveReady(p)
    BY <2>1 DEF DriveReady, TypeInv, TypeOK, drive
  <2>2. CASE DriveIdentify(p)
    <3>1. Page(p) \in Blocks
      BY PageType DEF Blocks
    <3> QED
      BY <2>2, <3>1 DEF DriveIdentify, TypeInv, TypeOK, drive
  <2>3. CASE DriveRead(p)
    <3>1. media[p][slot[p].lba] \in Blocks
      BY <2>3, ReachableSector DEF DriveRead, TypeInv, TypeOK, Media
    <3> QED
      BY <2>3, <3>1 DEF DriveRead, TypeInv, TypeOK, drive
  <2>4. CASE DriveWrite(p)
    BY <2>4, ReachableSector DEF DriveWrite, TypeInv, TypeOK, Media
  <2>5. CASE DriveFlush(p)
    BY <2>5 DEF DriveFlush, TypeInv, TypeOK, Media
  <2>6. CASE DriveShort(p) \/ DriveError(p)
    BY <1>3, <2>6 DEF DriveShort, DriveError, TypeInv, TypeOK
  <2> QED
    BY <2>1, <2>2, <2>3, <2>4, <2>5, <2>6
<1> QED
  BY <1>1, <1>2, <1>4 DEF driver, TypeInv, TypeOK, ProbeOK

\* Every step keeps the types.
LEMMA TypeStep == ASSUME TypeInv, [Next]_vars PROVE TypeInv'
<1>1. CASE UNCHANGED vars
  BY <1>1 DEF vars, driver, drive, TypeInv, TypeOK, ProbeOK
<1> QED
  BY <1>1, ScanType, RequestType, PollingType, FinishType, DriveType
  DEF Next

\* Every variable of the driver and the drives keeps its type, even when a
\* drive answers a command the driver has given up.
THEOREM TypeCorrect == Spec => []TypeOK
<1>1. Init => TypeInv
  BY InitType
<1>2. TypeInv /\ [Next]_vars => TypeInv'
  BY TypeStep
<1>3. TypeInv => TypeOK
  BY DEF TypeInv
<1> QED
  BY <1>1, <1>2, <1>3, PTL DEF Spec

(***************************************************************************)
(* Errors are final, whether or not drives answer late: a port is started  *)
(* once, by the scan, and a command that issue_command took for done ended *)
(* without an error.                                                       *)
(***************************************************************************)
\* The ports from n on have not been started.
Fresh(n) == \A p \in Ports : p >= n => st[p] = "stopped"

FinalInv ==
    /\ TypeInv
    /\ pc = "scan" => Fresh(probe)
    /\ call.op = "identify" => Fresh(probe + 1)
    /\ pc = "finish" => st[port] = "idle"

\* Ports that have not been started stay so when another one is touched.
LEMMA FreshKept ==
    ASSUME NEW n, Fresh(n),
           \A p \in Ports : st[p] = "stopped" => st'[p] = "stopped"
    PROVE  \A p \in Ports : p >= n => st'[p] = "stopped"
  BY DEF Fresh

\* The scan, calls and the driver's steps with a command.
LEMMA DriverFinal ==
    ASSUME FinalInv, TypeInv', Scan \/ Request \/ Polling \/ Finish
    PROVE  FinalInv'
<1>1. CASE SkipPort
  <2>1. Fresh(probe) /\ probe' = probe + 1 /\ UNCHANGED <<pc, call, st>>
    BY <1>1 DEF SkipPort, Scanning, FinalInv
  <2>2. pc' = "scan" /\ call'.op # "identify"
    BY <1>1 DEF SkipPort, Scanning, FinalInv, TypeInv, ProbeOK, NoCommand, Command
  <2>3. \A p \in Ports : p >= probe + 1 => p >= probe
    BY PortCountType DEF FinalInv, TypeInv, TypeOK, Ports
  <2>4. Fresh(probe)'
    BY <2>1, <2>3 DEF Fresh
  <2> QED
    BY <2>2, <2>4 DEF FinalInv
<1>2. CASE StartPort
  <2>1. Fresh(probe) /\ probe' = probe /\ pc' = "port_wait"
        /\ \E s : st' = [st EXCEPT ![probe] = s]
    BY <1>2 DEF StartPort, Scanning, FinalInv
  <2>2. \A p \in Ports : p >= probe + 1 => p >= probe /\ p # probe
    BY PortCountType DEF FinalInv, TypeInv, TypeOK, Ports
  <2>3. st \in [Ports -> States]
    BY DEF FinalInv, TypeInv, TypeOK
  <2>4. Fresh(probe + 1)'
    BY <2>1, <2>2, <2>3 DEF Fresh
  <2> QED
    BY <2>1, <2>4 DEF FinalInv
<1>3. CASE EndScan
  <2>1. pc' = "idle" /\ call' = call /\ call.op # "identify"
    BY <1>3 DEF EndScan, FinalInv, TypeInv, ProbeOK, NoCommand, Command
  <2> QED
    BY <2>1 DEF FinalInv
<1>4. CASE Request
  <2>1. pc' \in {"idle", "port_wait"} /\ call'.op # "identify"
    <3>1. pc = "idle"
      BY <1>4 DEF Request, Read, Write, Flush
    <3>3. call.op # "identify"
      BY <3>1 DEF FinalInv, TypeInv, ProbeOK, NoCommand, Command
    <3>2. \/ pc' = pc /\ call' = call
          \/ /\ pc' = "port_wait"
             /\ \E op \in {"read", "write", "flush"} : \E p, s, v :
                   call' = Command(op, p, s, v)
      BY <1>4 DEF Request, Read, Write, Flush, Refuse, Accept
    <3> QED
      BY <3>1, <3>2, <3>3 DEF Command
  <2> QED
    BY <2>1 DEF FinalInv
<1>5. ASSUME GiveUp, pc \notin {"scan", "idle"} PROVE FinalInv'
  <2>1. call'.op # "identify" /\ pc' # "finish"
    <3>1. call' = NoCommand /\ pc' \in {"idle", "scan"}
      BY <1>5 DEF GiveUp
    <3> QED
      BY <3>1 DEF NoCommand, Command
  <2>2. CASE call.op # "identify"
    <3>1. pc' = "idle"
      BY <1>5, <2>2 DEF GiveUp
    <3> QED
      BY <2>1, <3>1 DEF FinalInv
  <2>3. CASE call.op = "identify"
    <3>1. Fresh(probe + 1) /\ probe' = probe + 1
          /\ st' \in {st, [st EXCEPT ![port] = "stopped"]}
      BY <1>5, <2>3 DEF GiveUp, FinalInv
    <3>2. \A p \in Ports : st[p] = "stopped" => st'[p] = "stopped"
      BY <3>1 DEF FinalInv, TypeInv, TypeOK
    <3>3. Fresh(probe)'
      BY <3>1, <3>2, FreshKept DEF Fresh
    <3> QED
      BY <2>1, <3>3 DEF FinalInv
  <2> QED
    BY <2>2, <2>3
<1>6. CASE Issue
  <2>1. /\ pc' = "poll" /\ UNCHANGED <<probe, call>>
        /\ st[port] = "idle" /\ st' = [st EXCEPT ![port] = "busy"]
    BY <1>6 DEF Issue
  <2>2. \A p \in Ports : st[p] = "stopped" => st'[p] = "stopped"
    BY <2>1 DEF FinalInv, TypeInv, TypeOK
  <2>3. call'.op = "identify" => Fresh(probe + 1)'
    BY <2>1, <2>2, FreshKept DEF FinalInv, Fresh
  <2> QED
    BY <2>1, <2>3 DEF FinalInv
<1>7. CASE PollDone
  <2>1. pc' = "finish" /\ st[port] = "idle" /\ UNCHANGED <<probe, call, st>>
    BY <1>7 DEF PollDone
  <2> QED
    BY <2>1 DEF FinalInv, Fresh, port
<1>8. CASE Register
  <2>1. Fresh(probe + 1) /\ probe' = probe + 1 /\ pc' = "scan" /\ st' = st
        /\ call'.op # "identify"
    BY <1>8 DEF Register, FinalInv, NoCommand, Command
  <2>2. Fresh(probe)'
    BY <2>1 DEF Fresh
  <2> QED
    BY <2>1, <2>2 DEF FinalInv
<1>9. CASE Return
  BY <1>9 DEF Return, FinalInv, NoCommand, Command
<1> QED
  BY <1>1, <1>2, <1>3, <1>4, <1>5, <1>6, <1>7, <1>8, <1>9
  DEF Scan, Polling, PortWaitError, PortWaitTimeout, PollError, PollTimeout,
      PollShort, Finish, NoSectors

\* What the drives do.
LEMMA DriveFinal == ASSUME FinalInv, TypeInv', Drive PROVE FinalInv'
<1>1. PICK q \in Ports, s \in States :
          st[q] = "busy" /\ st' = [st EXCEPT ![q] = s] /\ UNCHANGED driver
  BY DEF Drive, DriveReady, DriveIdentify, DriveRead, DriveWrite, DriveFlush,
         DriveShort, DriveError, Runs, Complete, States
<1>2. /\ \A p \in Ports : st[p] = "stopped" => st'[p] = "stopped"
      /\ st[port] = "idle" => st'[port] = "idle"
  BY <1>1 DEF FinalInv, TypeInv, TypeOK
<1>3. UNCHANGED <<pc, probe, call>>
  BY <1>1 DEF driver
<1>4. ASSUME NEW n, Fresh(n) PROVE \A p \in Ports : p >= n => st'[p] = "stopped"
  BY <1>2, <1>4, FreshKept
<1>5. /\ Fresh(probe) => Fresh(probe)'
      /\ Fresh(probe + 1) => Fresh(probe + 1)'
  BY <1>3, <1>4 DEF Fresh
<1> QED
  BY <1>2, <1>3, <1>5 DEF FinalInv, port

LEMMA FinalStep == ASSUME FinalInv, [Next]_vars PROVE FinalInv'
<1>1. TypeInv'
  BY TypeStep DEF FinalInv
<1>2. CASE UNCHANGED vars
  BY <1>1, <1>2 DEF vars, driver, FinalInv, Fresh, port
<1> QED
  BY <1>1, <1>2, DriverFinal, DriveFinal DEF Next

\* What a step does to a port that reported an error.
LEMMA AfterError ==
    ASSUME FinalInv, [Next]_vars, NEW p \in Ports, st[p] = "error"
    PROVE  /\ slot'[p] = slot[p]
           /\ st'[p] \in {"error", "stopped"}
           /\ ret' # ret /\ ret'.port = p /\ ret'.op \in {"read", "write"}
                  => ~ret'.ok
<1> USE DEF FinalInv, TypeInv, TypeOK
<1>1. CASE UNCHANGED <<slot, st, ret>>
  BY <1>1
<1>2. CASE StartPort
  <2>1. p # probe /\ UNCHANGED <<slot, ret>>
        /\ \E s : st' = [st EXCEPT ![probe] = s]
    <3>1. probe \in Int /\ st[probe] = "stopped"
      BY <1>2, PortCountType, AhciAssumption
      DEF StartPort, Scanning, Fresh, Ports
    <3> QED
      BY <1>2, <3>1 DEF StartPort
  <2> QED
    BY <2>1
<1>3. CASE Request
  <2>1. UNCHANGED <<slot, st>>
    BY <1>3 DEF Request, Read, Write, Flush
  <2>2. \/ ret' = NoResult
        \/ \E c, v : ret' = Result(c, FALSE, v)
        \/ \E q, v : ret' = Result(Command("flush", q, 0, v), TRUE, v)
    BY <1>3 DEF Request, Read, Write, Flush, Refuse, Accept
  <2>3. ~(ret'.ok /\ ret'.op \in {"read", "write"})
    BY <2>2 DEF NoResult, Result, Command
  <2> QED
    BY <2>1, <2>3
<1>4. CASE GiveUp /\ UNCHANGED slot
  <2>1. st' \in {st, [st EXCEPT ![port] = "stopped"]}
    BY <1>4 DEF GiveUp
  <2>2. ret' = ret \/ ret' = Result(call, FALSE, None)
    BY <1>4 DEF GiveUp
  <2>3. ret' # ret => ~ret'.ok
    BY <2>2 DEF Result
  <2> QED
    BY <1>4, <2>1, <2>3
<1>5. CASE Issue
  <2>1. p # port
    BY <1>5 DEF Issue
  <2> QED
    BY <1>5, <2>1 DEF Issue
<1>6. CASE Return
  <2>1. ret'.port = port /\ st[port] = "idle" /\ UNCHANGED <<slot, st>>
    BY <1>6 DEF Return, Result, port
  <2> QED
    BY <2>1
<1>7. CASE Drive
  <2>1. PICK q \in Ports, s \in States :
            st[q] = "busy" /\ st' = [st EXCEPT ![q] = s]
            /\ UNCHANGED <<slot, ret>>
    BY <1>7 DEF Drive, DriveReady, DriveIdentify, DriveRead, DriveWrite,
                DriveFlush, DriveShort, DriveError, Runs, Complete, States,
                driver
  <2> QED
    BY <2>1
<1>8. CASE SkipPort \/ EndScan \/ PollDone \/ Register \/ UNCHANGED vars
  BY <1>1, <1>8
  DEF SkipPort, EndScan, PollDone, Register, vars, driver
<1> QED
  BY <1>2, <1>3, <1>4, <1>5, <1>6, <1>7, <1>8
  DEF Next, Scan, Polling, PortWaitError, PortWaitTimeout, PollError,
      PollTimeout, PollShort, Finish, NoSectors

\* The driver never gives a port with an error another command, and reports
\* no success there any more, even when drives answer commands it has given
\* up (port_wait, ahci.c).
THEOREM ErrorStays == Spec => ErrorIsFinal
<1>1. Init => FinalInv
  <2> SUFFICES ASSUME Init PROVE FinalInv
    OBVIOUS
  <2>1. TypeInv
    BY InitType
  <2> QED
    BY <2>1 DEF Init, FinalInv, Fresh, NoCommand, Command
<1>2. FinalInv /\ [Next]_vars => FinalInv'
  BY FinalStep
<1>3. FinalInv /\ [Next]_vars =>
        [\A p \in Ports :
           st[p] = "error"
             => /\ slot'[p] = slot[p]
                /\ st'[p] \in {"error", "stopped"}
                /\ ret' # ret /\ ret'.port = p /\ ret'.op \in {"read", "write"}
                       => ~ret'.ok]_vars
  BY AfterError
<1> QED
  BY <1>1, <1>2, <1>3, PTL DEF Spec, ErrorIsFinal

(***************************************************************************)
(* Integrity, when a drive the driver gave up on stays silent.  Each lemma *)
(* shows that one group of steps preserves IInv.                           *)
(***************************************************************************)

\* An answer that reports no success promises nothing.
LEMMA NoSuccess ==
    ASSUME NEW c, NEW v, ret' = NoResult \/ ret' = Result(c, FALSE, v)
    PROVE  Answers'
  BY DEF Answers, WriteIntegrity, ReadIntegrity, FlushDurable, NoResult, Result

\* The disk table only depends on itself and on how far the scan has come.
LEMMA TableFrame ==
    ASSUME TypeInv, DiskTable, UNCHANGED disks, probe' \in {probe, probe + 1}
    PROVE  DiskTable'
<1>1. \A i \in DOMAIN disks : disks[i] \in Disks
  BY DEF TypeInv, TypeOK
<1>2. \A i \in DOMAIN disks : disks[i].port \in Int
  BY <1>1, PortCountType DEF Disks, Ports
<1>3. probe \in Int
  BY PortCountType DEF TypeInv, TypeOK
<1> QED
  BY <1>2, <1>3 DEF DiskTable

\* Outside issue_command only the answers and the table matter.
LEMMA QuietInv ==
    ASSUME TypeInv', ~Running', Answers', DiskTable',
           pc' = "scan" => ret' = NoResult
    PROVE  IInv'
<1>1. pc' \in {"scan", "idle"}
  BY DEF Running, TypeInv, TypeOK, Steps
<1> QED
  BY <1>1 DEF IInv, TypeInv, Running, CallOK, SlotOK, BufferOK, Ended

\* A command that is given up keeps the invariant.
LEMMA GiveUpInv ==
    ASSUME IInv, TypeInv', GiveUp, UNCHANGED disks, pc # "idle"
    PROVE  IInv'
<1>1. ~Running' /\ (pc' = "scan" => ret' = NoResult)
  BY DEF GiveUp, Running, IInv
<1>2. ret' = NoResult \/ ret' = Result(call, FALSE, None)
  BY DEF GiveUp, IInv
<1>3. Answers'
  BY <1>2, NoSuccess
<1>4. probe' \in {probe, probe + 1}
  BY DEF GiveUp
<1>5. DiskTable'
  BY <1>4, TableFrame DEF IInv, TypeInv
<1> QED
  BY <1>1, <1>3, <1>5, QuietInv

\* The steps of ahci_init keep the invariant.
LEMMA ScanInv == ASSUME IInv, TypeInv', Scan PROVE IInv'
<1>1. ret = NoResult /\ ret' = NoResult
  BY DEF Scan, SkipPort, StartPort, EndScan, Scanning, IInv
<1>2. Answers'
  BY <1>1, NoSuccess
<1>3. UNCHANGED disks /\ probe' \in {probe, probe + 1}
  BY DEF Scan, SkipPort, StartPort, EndScan
<1>4. DiskTable'
  BY <1>3, TableFrame DEF IInv, TypeInv
<1>5. CASE SkipPort \/ EndScan
  <2>1. ~Running'
    BY <1>5 DEF SkipPort, EndScan, Scanning, Running
  <2> QED
    BY <1>1, <1>2, <1>4, <2>1, QuietInv
<1>6. CASE StartPort
  <2>1. /\ pc' = "port_wait" /\ probe' = probe /\ probe \in Attached
        /\ Len(disks') < MaxDisks
        /\ call' = Command("identify", probe, 0, None)
    BY <1>6 DEF StartPort, Scanning
  <2>2. /\ call'.op = "identify" /\ call'.port = probe
    BY <2>1 DEF Command
  <2>3. CallOK' /\ SlotOK' /\ BufferOK' /\ ~Ended'
    BY <2>1, <2>2, AhciAssumption DEF CallOK, SlotOK, BufferOK, Ended
  <2> QED
    BY <1>1, <1>2, <1>4, <2>3 DEF IInv, TypeInv
<1> QED
  BY <1>5, <1>6 DEF Scan

\* A call that is accepted keeps it: it was checked against the table.
LEMMA AcceptInv ==
    ASSUME IInv, TypeInv', pc = "idle",
           UNCHANGED <<probe, disks>>,
           NEW op \in {"read", "write", "flush"},
           NEW d \in 0 .. MaxDisks, d < Len(disks),
           NEW s \in Sectors \cup {0}, NEW v,
           Accept(op, d, s, v),
           op \in {"read", "write"} => InRange(d, s),
           op = "write" => v \in Values /\ transfer_buffer' = v
    PROVE  IInv'
<1>1. d + 1 \in DOMAIN disks /\ disks[d + 1].port \in Ports
  BY DiskIndex DEF Disks, IInv, TypeInv
<1>2. /\ disks[d + 1].sectors \in 1 .. Capacity[disks[d + 1].port]
      /\ Capacity[disks[d + 1].port] \in Nat
  BY <1>1, AhciAssumption DEF IInv, DiskTable
<1>3. /\ pc' = "port_wait" /\ ret' = NoResult
      /\ call'.op = op /\ call'.port = disks[d + 1].port
      /\ call'.sector = s /\ call'.data = v
  BY DEF Accept, Command
<1>4. CallOK' /\ SlotOK' /\ BufferOK' /\ ~Ended'
  <2>1. op \in {"read", "write"} => s < Capacity[disks[d + 1].port]
    BY <1>2, SectorsType DEF InRange
  <2> QED
    BY <1>1, <1>3, <2>1 DEF CallOK, SlotOK, BufferOK, Ended
<1>5. Answers' /\ DiskTable'
  BY <1>3, NoSuccess, TableFrame DEF IInv, TypeInv
<1> QED
  BY <1>3, <1>4, <1>5 DEF IInv, TypeInv

\* The calls keep it.
LEMMA RequestInv == ASSUME IInv, TypeInv', Request PROVE IInv'
<1> PICK d \in 0 .. MaxDisks :
        Flush(d) \/ \E s \in Sectors : Read(d, s)
                                    \/ \E v \in Values : Write(d, s, v)
  BY DEF Request
<1>1. pc = "idle" /\ UNCHANGED <<probe, disks>>
  BY DEF Flush, Read, Write
<1>2. DiskTable'
  BY <1>1, TableFrame DEF IInv, TypeInv
<1>3. ASSUME NEW op, NEW s, NEW v, Refuse(op, s, v)
      PROVE  IInv'
  <2>1. Answers' /\ ~Running' /\ pc' # "scan"
    BY <1>1, <1>3, NoSuccess DEF Refuse, Running
  <2> QED
    BY <1>2, <2>1, QuietInv
<1>4. ASSUME NEW s \in Sectors, Read(d, s) PROVE IInv'
  <2>1. CASE Refuse("read", s, None)
    BY <2>1, <1>3
  <2>2. CASE InRange(d, s) /\ Accept("read", d, s, None)
    BY <2>2, <1>1, AcceptInv DEF InRange
  <2> QED
    BY <1>4, <2>1, <2>2 DEF Read
<1>5. ASSUME NEW s \in Sectors, NEW v \in Values, Write(d, s, v) PROVE IInv'
  <2>1. CASE Refuse("write", s, v)
    BY <2>1, <1>3
  <2>2. CASE InRange(d, s) /\ Accept("write", d, s, v) /\ transfer_buffer' = v
    BY <2>2, <1>1, AcceptInv DEF InRange
  <2> QED
    BY <1>5, <2>1, <2>2 DEF Write
<1>6. ASSUME Flush(d) PROVE IInv'
  <2>1. CASE Refuse("flush", 0, None)
    BY <2>1, <1>3
  <2>2. CASE d < Len(disks) /\ Accept("flush", d, 0, None)
    BY <2>2, <1>1, AcceptInv
  <2>3. CASE d < Len(disks) /\ ~disks[d + 1].flush /\ UNCHANGED pc
             /\ ret' = Result(Command("flush", disks[d + 1].port, 0, None),
                              TRUE, None)
    <3>1. d + 1 \in DOMAIN disks
      BY <2>3, DiskIndex DEF IInv, TypeInv
    <3>2. ~FlushSupported[disks[d + 1].port]
      BY <2>3, <3>1 DEF IInv, DiskTable
    <3>3. ret'.op = "flush" /\ ret'.port = disks[d + 1].port
      BY <2>3 DEF Result, Command
    <3>4. Answers'
      BY <3>2, <3>3 DEF Answers, WriteIntegrity, ReadIntegrity, FlushDurable
    <3>5. ~Running' /\ pc' # "scan"
      BY <1>1, <2>3 DEF Running
    <3> QED
      BY <1>2, <3>4, <3>5, QuietInv
  <2> QED
    BY <1>6, <2>1, <2>2, <2>3 DEF Flush
<1> QED
  BY <1>4, <1>5, <1>6

\* The sector a command is meant for is the one its FIS names.
LEMMA RightSector ==
    ASSUME NEW op \in {"read", "write"}, NEW s \in Nat
    PROVE  FisLba(op, s) = s
<1>1. Lba28Sectors \in Nat \ {0}
  BY AhciAssumption
<1>2. CASE s >= Lba28Sectors
  BY <1>1, <1>2 DEF FisLba, Ext
<1>3. CASE s < Lba28Sectors
  <2>1. s % Lba28Sectors = s
    BY <1>1, <1>3, LowSectors
  <2> QED
    BY <2>1 DEF FisLba
<1> QED
  BY <1>1, <1>2, <1>3

\* The steps of issue_command keep it.
LEMMA PollingInv == ASSUME IInv, TypeInv', Polling PROVE IInv'
<1>1. CASE Issue
  <2>1. /\ pc = "port_wait" /\ pc' = "poll"
        /\ UNCHANGED <<probe, disks, call, ret, transfer_buffer>>
        /\ st' = [st EXCEPT ![call.port] = "busy"]
        /\ slot' = [slot EXCEPT ![call.port] =
                       [op |-> call.op, lba |-> FisLba(call.op, call.sector)]]
    BY <1>1 DEF Issue, port
  <2>2. Running /\ call.port \in Ports
    BY <2>1 DEF Running, IInv, CallOK
  <2>3. st'[call.port] = "busy"
        /\ slot'[call.port] = [op  |-> call.op,
                               lba |-> FisLba(call.op, call.sector)]
    BY <2>1, <2>2 DEF IInv, TypeOK
  <2>4. call.sector \in Nat
    BY SectorsType DEF IInv, TypeOK, Calls
  <2>5. SlotOK'
    BY <2>1, <2>3, <2>4, RightSector DEF SlotOK
  <2>6. ~Ended'
    BY <2>1, <2>3 DEF Ended
  <2>7. CallOK' /\ BufferOK'
    BY <2>1, <2>2 DEF IInv, CallOK, BufferOK, Running
  <2>8. ret' = NoResult /\ Answers' /\ DiskTable'
    BY <2>1, NoSuccess, TableFrame DEF IInv, TypeInv
  <2> QED
    BY <2>1, <2>5, <2>6, <2>7, <2>8 DEF IInv, TypeInv
<1>2. CASE PollDone
  <2>1. /\ pc = "poll" /\ pc' = "finish"
        /\ UNCHANGED <<probe, disks, call, ret, transfer_buffer, drive>>
        /\ Ended
    BY <1>2 DEF PollDone, Ended, port
  <2>2. Effect'
    BY <2>1 DEF IInv, Effect, drive
  <2>3. CallOK' /\ BufferOK' /\ SlotOK'
    BY <2>1 DEF IInv, CallOK, BufferOK, SlotOK, Running
  <2>4. ret' = NoResult /\ Answers' /\ DiskTable'
    BY <2>1, NoSuccess, TableFrame DEF IInv, TypeInv
  <2> QED
    BY <2>2, <2>3, <2>4 DEF IInv, TypeInv
<1>3. CASE PortWaitError \/ PortWaitTimeout \/ PollError \/ PollTimeout
           \/ PollShort
  <2>1. GiveUp /\ pc # "idle" /\ UNCHANGED disks
    BY <1>3 DEF PortWaitError, PortWaitTimeout, PollError, PollTimeout,
                PollShort
  <2> QED
    BY <2>1, GiveUpInv
<1> QED
  BY <1>1, <1>2, <1>3 DEF Polling

\* What follows issue_command keeps it: a success is true.
LEMMA FinishInv == ASSUME IInv, TypeInv', Finish PROVE IInv'
<1>1. CASE Register
  <2> DEFINE row == [port |-> call.port, sectors |-> IdentifySectors,
                     flush |-> transfer_buffer.flush]
  <2>1. /\ pc = "finish" /\ pc' = "scan" /\ ret' = ret
        /\ call.op = "identify"
        /\ disks' = Append(disks, row) /\ probe' = probe + 1
    BY <1>1 DEF Register, port
  <2>2. /\ call.port = probe /\ probe \in Attached /\ call.port \in Ports
        /\ Len(disks) < MaxDisks /\ transfer_buffer = Page(call.port)
    BY <2>1 DEF IInv, ProbeOK, CallOK, Running, Ended, Effect
  <2>3. /\ row.port = probe /\ row.flush = FlushSupported[probe]
        /\ row.sectors \in 1 .. Capacity[probe]
        /\ Capacity[probe] < WordSize => row.sectors = Capacity[probe]
    <3>1. Capacity[probe] \in Nat /\ probe \in Ports
      BY <2>2, AhciAssumption
    <3>2. IdentifySectors > 0
      BY <1>1 DEF Register
    <3> QED
      BY <2>2, <3>1, <3>2, SizeRead DEF Page
  <2>4. ~Running' /\ ret' = NoResult
    BY <2>1 DEF Running, IInv
  <2>5. /\ Len(disks) \in Nat /\ Len(disks') = Len(disks) + 1
        /\ DOMAIN disks' = 1 .. Len(disks) + 1
        /\ \A i \in 1 .. Len(disks) : disks'[i] = disks[i]
        /\ disks'[Len(disks) + 1] = row
    BY <2>1 DEF IInv, TypeOK
  <2>6. probe \in Int /\ MaxDisks \in Int /\ DOMAIN disks = 1 .. Len(disks)
    BY PortCountType, AhciAssumption DEF IInv, TypeOK
  <2>7. \A i \in 1 .. Len(disks) : disks[i].port \in Int
    <3>1. \A i \in 1 .. Len(disks) : disks[i] \in Disks
      BY DEF IInv, TypeOK
    <3> QED
      BY <3>1, PortCountType DEF Disks, Ports
  <2>8. Len(disks') <= MaxDisks
    BY <2>2, <2>5, <2>6
  <2>9. ASSUME NEW i \in DOMAIN disks'
        PROVE  /\ disks'[i].port \in Attached
               /\ disks'[i].port < probe'
               /\ disks'[i].sectors \in 1 .. Capacity[disks'[i].port]
               /\ Capacity[disks'[i].port] < WordSize =>
                     disks'[i].sectors = Capacity[disks'[i].port]
               /\ disks'[i].flush = FlushSupported[disks'[i].port]
               /\ \A j \in 1 .. i - 1 : disks'[j].port < disks'[i].port
    <3>1. CASE i \in 1 .. Len(disks)
      BY <2>1, <2>5, <2>6, <2>7, <3>1 DEF IInv, DiskTable
    <3>2. CASE i = Len(disks) + 1
      BY <2>1, <2>2, <2>3, <2>5, <2>6, <3>2 DEF IInv, DiskTable
    <3> QED
      BY <2>5, <2>9, <3>1, <3>2
  <2>10. DiskTable'
    BY <2>8, <2>9 DEF DiskTable
  <2> QED
    BY <2>1, <2>4, <2>10, NoSuccess, QuietInv
<1>2. CASE NoSectors
  BY <1>2, GiveUpInv DEF NoSectors
<1>3. CASE Return
  <2>1. /\ pc = "finish" /\ pc' = "idle" /\ UNCHANGED <<probe, disks, drive>>
        /\ ret' = Result(call, TRUE, IF call.op = "read" THEN transfer_buffer
                                                         ELSE call.data)
    BY <1>3 DEF Return
  <2>2. Effect
    BY <2>1 DEF IInv, Ended
  <2>3. /\ ret'.op = call.op /\ ret'.port = call.port
        /\ ret'.sector = call.sector
        /\ ret'.data = IF call.op = "read" THEN transfer_buffer ELSE call.data
    BY <2>1 DEF Result
  <2>4. Answers'
    BY <2>1, <2>2, <2>3
    DEF Answers, WriteIntegrity, ReadIntegrity, FlushDurable, Effect, drive
  <2>5. DiskTable' /\ ~Running' /\ pc' # "scan"
    BY <2>1, TableFrame DEF IInv, TypeInv, Running
  <2> QED
    BY <2>4, <2>5, QuietInv
<1> QED
  BY <1>1, <1>2, <1>3 DEF Finish

\* A drive that is given up stays silent, so a drive only ever carries out
\* the command the driver is polling for.
LEMMA DriveInv ==
    ASSUME LateAnswers = FALSE, IInv, TypeInv', Drive
    PROVE  IInv'
<1> PICK p \in Ports : \/ DriveReady(p) \/ DriveIdentify(p) \/ DriveRead(p)
                       \/ DriveWrite(p) \/ DriveFlush(p) \/ DriveShort(p)
                       \/ DriveError(p)
  BY DEF Drive
<1>1. UNCHANGED <<pc, probe, disks, call, ret, slot>>
  BY DEF DriveReady, DriveIdentify, DriveRead, DriveWrite, DriveFlush,
         DriveShort, DriveError, Complete, driver
<1>2. DiskTable' /\ CallOK' /\ SlotOK'
  BY <1>1, TableFrame DEF IInv, TypeInv, CallOK, SlotOK, Running
<1>3. CASE DriveReady(p)
  <2>1. UNCHANGED <<transfer_buffer, transferred, media, stable>>
        /\ slot[p].op = "none" /\ st' = [st EXCEPT ![p] = "idle"]
    BY <1>3 DEF DriveReady, EmptySlot, drive
  <2>2. ASSUME pc = "poll" PROVE call.port \in Ports /\ call.port # p
    BY <2>1, <2>2 DEF IInv, CallOK, SlotOK, Running
  <2>3. Ended' => Ended
    BY <1>1, <2>1, <2>2 DEF Ended, IInv, TypeOK
  <2>4. (Ended => Effect) => (Ended' => Effect')
    BY <1>1, <2>1, <2>3 DEF Effect
  <2>5. BufferOK' /\ Answers' /\ (pc' # "idle" => ret' = NoResult)
    BY <1>1, <2>1 DEF IInv, BufferOK, Running, Answers, WriteIntegrity,
                      ReadIntegrity, FlushDurable
  <2> QED
    BY <1>2, <2>4, <2>5 DEF IInv, TypeInv
<1>4. ASSUME NEW op, Runs(p, op)
      PROVE  pc = "poll" /\ call.port = p /\ call.op = op /\ slot[p].op = op
  BY <1>4 DEF Runs, port, IInv, SlotOK
<1>5. ASSUME pc = "poll", call.port = p, BufferOK', Ended' => Effect'
      PROVE  IInv'
  <2>1. ret' = NoResult /\ Answers'
    BY <1>1, <1>5, NoSuccess DEF IInv
  <2> QED
    BY <1>2, <1>5, <2>1 DEF IInv, TypeInv
<1>6. CASE DriveIdentify(p)
  <2>1. pc = "poll" /\ call.port = p /\ call.op = "identify"
        /\ transfer_buffer' = Page(p)
    BY <1>4, <1>6 DEF DriveIdentify
  <2>2. BufferOK' /\ Effect'
    BY <1>1, <2>1 DEF BufferOK, Effect
  <2> QED
    BY <1>5, <2>1, <2>2
<1>7. CASE DriveRead(p)
  <2>1. pc = "poll" /\ call.port = p /\ call.op = "read"
        /\ transfer_buffer' = media[p][slot[p].lba] /\ UNCHANGED media
    BY <1>4, <1>7 DEF DriveRead, drive
  <2>2. slot[p].lba = call.sector
    BY <2>1 DEF IInv, SlotOK
  <2>3. BufferOK' /\ Effect'
    BY <1>1, <2>1, <2>2 DEF BufferOK, Effect
  <2> QED
    BY <1>5, <2>1, <2>3
<1>8. CASE DriveWrite(p)
  <2>1. pc = "poll" /\ call.port = p /\ call.op = "write" /\ Reachable(p)
        /\ media' = [media EXCEPT ![p][slot[p].lba] = transfer_buffer]
        /\ UNCHANGED transfer_buffer
    BY <1>4, <1>8 DEF DriveWrite
  <2>2. slot[p].lba = call.sector /\ transfer_buffer = call.data
    BY <2>1 DEF IInv, SlotOK, BufferOK, Running
  <2>3. call.sector \in Sectors
    BY <2>1, <2>2, ReachableSector DEF IInv, TypeInv
  <2>4. media'[p][call.sector] = call.data
    BY <2>1, <2>2, <2>3 DEF IInv, TypeOK, Media
  <2>5. BufferOK' /\ Effect'
    BY <1>1, <2>1, <2>2, <2>4 DEF BufferOK, Effect
  <2> QED
    BY <1>5, <2>1, <2>5
<1>9. CASE DriveFlush(p)
  <2>1. pc = "poll" /\ call.port = p /\ call.op = "flush"
        /\ stable' = [stable EXCEPT ![p] = media[p]] /\ UNCHANGED media
    BY <1>4, <1>9 DEF DriveFlush
  <2>2. stable'[p] = media[p]
    BY <2>1 DEF IInv, TypeOK, Media
  <2>3. BufferOK' /\ Effect'
    BY <1>1, <2>1, <2>2 DEF BufferOK, Effect
  <2> QED
    BY <1>5, <2>1, <2>3
<1>10. CASE DriveShort(p) \/ DriveError(p)
  <2>1. /\ pc = "poll" /\ call.port = p /\ Partial(p)
        /\ slot[p].op = call.op
    BY <1>4, <1>10 DEF DriveShort, DriveError
  <2>2. BufferOK'
    <3>1. call.op = "write" => UNCHANGED transfer_buffer
      BY <2>1 DEF Partial
    <3> QED
      BY <1>1, <3>1 DEF BufferOK, IInv, Running
  <2>3. ~Ended'
    <3>1. CASE DriveError(p)
      <4>1. st'[p] = "error"
        BY <3>1 DEF DriveError, IInv, TypeOK
      <4> QED
        BY <1>1, <2>1, <4>1 DEF Ended
    <3>2. CASE DriveShort(p)
      <4>1. transferred'[p] = 0
        BY <3>2 DEF DriveShort, Complete, IInv, TypeOK
      <4>2. call.op # "flush"
        BY <1>4, <3>2 DEF DriveShort
      <4> QED
        BY <1>1, <2>1, <4>1, <4>2 DEF Ended, SectorsOf
    <3> QED
      BY <1>10, <3>1, <3>2
  <2> QED
    BY <1>5, <2>1, <2>2, <2>3
<1> QED
  BY <1>3, <1>6, <1>7, <1>8, <1>9, <1>10

\* The invariant holds at boot.
LEMMA IntegrityInit == Init => IInv
<1> SUFFICES ASSUME Init PROVE IInv
  OBVIOUS
<1>1. TypeInv
  BY InitType
<1>2. ret = NoResult /\ ret.op = "none"
  BY DEF Init, NoResult, Result, NoCommand, Command
<1>3. DiskTable
  <2>1. disks = <<>> /\ MaxDisks \in Nat
    BY AhciAssumption DEF Init
  <2>2. Len(disks) = 0 /\ DOMAIN disks = {}
    BY <2>1
  <2> QED
    BY <2>1, <2>2 DEF DiskTable
<1>4. CallOK /\ SlotOK /\ BufferOK /\ ~Ended
  BY DEF Init, CallOK, SlotOK, BufferOK, Running, Ended
<1>5. Answers
  BY <1>2 DEF Answers, WriteIntegrity, ReadIntegrity, FlushDurable
<1> QED
  BY <1>1, <1>2, <1>3, <1>4, <1>5 DEF IInv, TypeInv

\* Every step keeps it.
LEMMA IntegrityStep ==
    ASSUME LateAnswers = FALSE, IInv, [Next]_vars
    PROVE  IInv'
<1>1. TypeInv'
  BY TypeStep DEF IInv, TypeInv
<1>2. CASE UNCHANGED vars
  <2>1. UNCHANGED <<pc, probe, disks, call, ret, transfer_buffer, st, slot,
                    transferred, media, stable>>
    BY <1>2 DEF vars, driver, drive
  <2>2. Answers'
    BY <2>1 DEF IInv, Answers, WriteIntegrity, ReadIntegrity, FlushDurable
  <2>4. DiskTable'
    BY <2>1 DEF IInv, DiskTable
  <2>3. CallOK' /\ SlotOK' /\ BufferOK' /\ (Ended' => Effect')
        /\ (pc' # "idle" => ret' = NoResult)
    BY <2>1 DEF IInv, CallOK, SlotOK, BufferOK, Ended, Effect, Running
  <2> QED
    BY <1>1, <2>2, <2>3, <2>4 DEF IInv, TypeInv
<1> QED
  BY <1>1, <1>2, ScanInv, RequestInv, PollingInv, FinishInv, DriveInv
  DEF Next

\* If drives that were given up stay silent, then every success the driver
\* reports is true: a write stored the caller's data in the caller's sector,
\* a read returned the sector, a flush made the drive durable, and the disk
\* table describes the drives.
THEOREM Integrity ==
    ASSUME LateAnswers = FALSE
    PROVE  Spec => [](WriteIntegrity /\ ReadIntegrity /\ FlushDurable
                        /\ DiskTable)
<1>1. Init => IInv
  BY IntegrityInit
<1>2. IInv /\ [Next]_vars => IInv'
  BY IntegrityStep
<1>3. IInv => WriteIntegrity /\ ReadIntegrity /\ FlushDurable /\ DiskTable
  BY DEF IInv, Answers
<1> QED
  BY <1>1, <1>2, <1>3, PTL DEF Spec

(***************************************************************************)
(* The AHCI driver implements the block device of BlockDisk.  A request is *)
(* pending from the call that ahci_transfer or ahci_flush accepts to its   *)
(* return; the scan of ahci_init, and the steps of a command that move     *)
(* nothing to a drive's media, are stutters.                               *)
(***************************************************************************)

\* The request the abstract device is working on.
Pending == IF call.op = "identify" THEN NoCommand ELSE call

\* Requests carry a sector of an existing drive, and data only for a write.
PendingOK == Pending \in BD!Requests \cup {NoCommand}

RInv == IInv /\ PendingOK

\* What the abstract device sees.
seen == <<media, stable, call, ret>>

(***************************************************************************)
(* Helpers.                                                                *)
(***************************************************************************)

\* The idle request and the empty answer are the same in both modules.
LEMMA SameNothing ==
    NoCommand = BD!Idle /\ NoResult = BD!Answer(BD!Idle, FALSE, None)
  BY DEF NoCommand, NoResult, Command, Result, BD!Idle, BD!Answer

\* A step that changes nothing the abstract device sees is a stutter.
LEMMA Stutter ==
    ASSUME UNCHANGED <<media, stable, ret>>, Pending' = Pending
    PROVE  [BD!Next]_(BD!vars) /\ (PendingOK => PendingOK')
  BY DEF Pending, PendingOK, BD!vars, BD!Requests

\* So is one that leaves the call alone too.
LEMMA StutterSeen ==
    ASSUME UNCHANGED seen
    PROVE  [BD!Next]_(BD!vars) /\ (PendingOK => PendingOK')
<1>1. UNCHANGED <<media, stable, ret>> /\ Pending' = Pending
  BY DEF seen, Pending
<1> QED
  BY <1>1, Stutter

\* A pending request is one of the three kinds.
LEMMA PendingKind ==
    ASSUME RInv, Running, call.op # "identify"
    PROVE  /\ Pending = call /\ call \in BD!Requests
           /\ call.op \in {"read", "write", "flush"}
           /\ call # NoCommand /\ Pending # BD!Idle
           /\ call.op = "write" => call.data \in Values
           /\ call.op # "write" => call.data = None
           /\ call.op # "flush" => call.sector \in Sectors
<1>1. Pending = call
  BY DEF Pending
<1>2. call # NoCommand
  BY DEF RInv, IInv, CallOK, NoCommand, Command
<1>3. call \in BD!Requests
  BY <1>1, <1>2 DEF RInv, PendingOK
<1> QED
  BY <1>1, <1>2, <1>3, SameNothing DEF BD!Requests

\* A command that is given up fails, or was an IDENTIFY.
LEMMA GiveUpMaps ==
    ASSUME RInv, GiveUp, Running, UNCHANGED <<media, stable>>
    PROVE  [BD!Next]_(BD!vars) /\ PendingOK'
<1>1. call' = NoCommand /\ Pending' = NoCommand
  BY DEF GiveUp, Pending
<1>2. PendingOK'
  BY <1>1 DEF PendingOK
<1>3. CASE call.op = "identify"
  <2>1. UNCHANGED ret /\ Pending = NoCommand
    BY <1>3 DEF GiveUp, Pending
  <2> QED
    BY <1>1, <1>2, <2>1, Stutter
<1>4. CASE call.op # "identify"
  <2>1. Pending = call /\ Pending # BD!Idle
    BY <1>4, PendingKind
  <2>2. ret' = BD!Answer(Pending, FALSE, None)
    BY <1>4, <2>1 DEF GiveUp, Result, BD!Answer
  <2>3. BD!Fail
    BY <1>1, <2>1, <2>2, SameNothing DEF BD!Fail, Pending
  <2> QED
    BY <1>2, <2>3 DEF BD!Next
<1> QED
  BY <1>3, <1>4

(***************************************************************************)
(* The steps of the driver.                                                *)
(***************************************************************************)

\* The scan is invisible.
LEMMA ScanMaps ==
    ASSUME RInv, Scan PROVE [BD!Next]_(BD!vars) /\ PendingOK'
<1>1. UNCHANGED <<media, stable, ret>> /\ call = NoCommand
  BY DEF Scan, SkipPort, StartPort, EndScan, Scanning, drive, RInv, IInv,
         ProbeOK
<1>2. Pending = NoCommand /\ Pending' = NoCommand
  <2>1. Pending = NoCommand
    BY <1>1 DEF Pending
  <2>2. CASE StartPort
    <3>1. call' = Command("identify", probe, 0, None)
      BY <2>2 DEF StartPort
    <3>2. call'.op = "identify"
      BY <3>1 DEF Command
    <3> QED
      BY <2>1, <3>2 DEF Pending
  <2>3. CASE SkipPort \/ EndScan
    <3>1. call' = call
      BY <2>3 DEF SkipPort, EndScan
    <3> QED
      BY <2>1, <3>1 DEF Pending
  <2> QED
    BY <2>1, <2>2, <2>3 DEF Scan
<1> QED
  BY <1>1, <1>2, Stutter DEF RInv

\* A call that is refused is rejected.
LEMMA RefuseMaps ==
    ASSUME RInv, pc = "idle", UNCHANGED <<media, stable>>,
           NEW op \in {"read", "write", "flush"},
           NEW s \in Sectors \cup {0}, NEW v, Refuse(op, s, v)
    PROVE  [BD!Next]_(BD!vars) /\ PendingOK'
<1>1. call = NoCommand /\ call' = call /\ Pending = NoCommand
      /\ Pending' = NoCommand
  BY DEF RInv, IInv, ProbeOK, Refuse, Pending
<1> DEFINE r == [op |-> op, port |-> 0, sector |-> s, data |-> None]
<1>2. r \in [op : {"read", "write", "flush"}, port : {0},
             sector : Sectors \cup {0}, data : {None}]
  OBVIOUS
<1>3. ret' = BD!Answer(r, FALSE, None)
  BY DEF Refuse, Result, Command, BD!Answer
<1>4. BD!Reject
  BY <1>1, <1>2, <1>3, SameNothing DEF BD!Reject, Pending
<1> QED
  BY <1>1, <1>4 DEF BD!Next, PendingOK

\* A call that goes on to issue_command begins a request.
LEMMA AcceptMaps ==
    ASSUME RInv, pc = "idle", UNCHANGED <<media, stable>>,
           NEW op \in {"read", "write", "flush"},
           NEW d \in 0 .. MaxDisks, d < Len(disks), NEW s, NEW v,
           op = "flush" => s = 0, op # "flush" => s \in Sectors,
           op = "write" => v \in Values, op # "write" => v = None,
           Accept(op, d, s, v)
    PROVE  [BD!Next]_(BD!vars) /\ PendingOK'
<1>1. disks[d + 1].port \in Ports
  BY DiskIndex DEF Disks, RInv, IInv, TypeInv
<1>2. call' = Command(op, disks[d + 1].port, s, v)
      /\ ret' = BD!Answer(BD!Idle, FALSE, None)
  BY SameNothing DEF Accept
<1>3. Pending' = call'
  BY <1>2 DEF Pending, Command
<1>4. Pending' \in BD!Requests
  BY <1>1, <1>2, <1>3 DEF Command, BD!Requests
<1>5. Pending = BD!Idle
  BY SameNothing DEF RInv, IInv, ProbeOK, Pending
<1>6. BD!Begin
  BY <1>2, <1>4, <1>5 DEF BD!Begin, Pending
<1> QED
  BY <1>4, <1>6 DEF BD!Next, PendingOK

\* The three calls, up to their call of issue_command.
LEMMA RequestMaps ==
    ASSUME RInv, Request PROVE [BD!Next]_(BD!vars) /\ PendingOK'
<1> PICK d \in 0 .. MaxDisks :
        Flush(d) \/ \E s \in Sectors : Read(d, s)
                                    \/ \E v \in Values : Write(d, s, v)
  BY DEF Request
<1>1. pc = "idle" /\ UNCHANGED <<media, stable>>
  BY DEF Flush, Read, Write, drive
<1>2. ASSUME NEW s \in Sectors, Read(d, s)
      PROVE  [BD!Next]_(BD!vars) /\ PendingOK'
  <2>1. CASE Refuse("read", s, None)
    BY <1>1, <2>1, RefuseMaps
  <2>2. CASE InRange(d, s) /\ Accept("read", d, s, None)
    BY <1>1, <2>2, AcceptMaps DEF InRange
  <2> QED
    BY <1>2, <2>1, <2>2 DEF Read
<1>3. ASSUME NEW s \in Sectors, NEW v \in Values, Write(d, s, v)
      PROVE  [BD!Next]_(BD!vars) /\ PendingOK'
  <2>1. CASE Refuse("write", s, v)
    BY <1>1, <2>1, RefuseMaps
  <2>2. CASE InRange(d, s) /\ Accept("write", d, s, v)
    BY <1>1, <2>2, AcceptMaps DEF InRange
  <2> QED
    BY <1>3, <2>1, <2>2 DEF Write
<1>4. ASSUME Flush(d) PROVE [BD!Next]_(BD!vars) /\ PendingOK'
  <2>1. CASE Refuse("flush", 0, None)
    BY <1>1, <2>1, RefuseMaps
  <2>2. CASE d < Len(disks) /\ Accept("flush", d, 0, None)
    BY <1>1, <2>2, AcceptMaps
  <2>3. CASE d < Len(disks) /\ ~disks[d + 1].flush /\ UNCHANGED call
             /\ ret' = Result(Command("flush", disks[d + 1].port, 0, None),
                              TRUE, None)
    <3>1. d + 1 \in DOMAIN disks /\ disks[d + 1].port \in Ports
      BY <2>3, DiskIndex DEF Disks, RInv, IInv, TypeInv
    <3>2. ~FlushSupported[disks[d + 1].port]
      BY <2>3, <3>1 DEF RInv, IInv, DiskTable
    <3>3. Pending = BD!Idle /\ Pending' = Pending /\ PendingOK'
      BY <1>1, <2>3, SameNothing
      DEF RInv, IInv, ProbeOK, Pending, PendingOK
    <3>4. ret' = [op |-> "flush", port |-> disks[d + 1].port, sector |-> 0,
                  data |-> None, ok |-> TRUE]
      BY <2>3 DEF Result, Command
    <3>5. disks[d + 1].port \in Ports \ {p \in Ports : FlushSupported[p]}
      BY <3>1, <3>2
    <3>6. BD!NothingToFlush
      BY <1>1, <3>3, <3>4, <3>5 DEF BD!NothingToFlush, Pending
    <3> QED
      BY <3>3, <3>6 DEF BD!Next
  <2> QED
    BY <1>4, <2>1, <2>2, <2>3 DEF Flush
<1> QED
  BY <1>2, <1>3, <1>4

\* Waiting and issuing are invisible; giving up fails the request.
LEMMA PollingMaps ==
    ASSUME RInv, Polling PROVE [BD!Next]_(BD!vars) /\ PendingOK'
<1>1. CASE Issue \/ PollDone
  <2>1. UNCHANGED seen
    BY <1>1 DEF Issue, PollDone, seen, drive
  <2> QED
    BY <2>1, StutterSeen DEF RInv
<1>2. CASE PortWaitError \/ PortWaitTimeout \/ PollError \/ PollTimeout
           \/ PollShort
  <2>1. GiveUp /\ Running /\ UNCHANGED <<media, stable>>
    BY <1>2 DEF PortWaitError, PortWaitTimeout, PollError, PollTimeout,
                PollShort, Running, drive
  <2> QED
    BY <2>1, GiveUpMaps
<1> QED
  BY <1>1, <1>2 DEF Polling

\* A return from issue_command that a caller sees completes its request.
LEMMA ReturnMaps ==
    ASSUME RInv, Return PROVE [BD!Next]_(BD!vars) /\ PendingOK'
<1>1. /\ pc = "finish" /\ call.op # "identify" /\ call' = NoCommand
      /\ UNCHANGED <<media, stable>>
      /\ ret' = Result(call, TRUE, IF call.op = "read" THEN transfer_buffer
                                                       ELSE call.data)
  BY DEF Return, drive
<1>2. Running /\ Effect
  BY <1>1 DEF RInv, IInv, Ended, Running
<1>3. Pending = call /\ call.op \in {"read", "write", "flush"}
      /\ (call.op # "write" => call.data = None)
  BY <1>1, <1>2, PendingKind
<1>4. Pending' = BD!Idle /\ PendingOK'
  BY <1>1, SameNothing DEF Pending, PendingOK
<1>5. CASE call.op = "read"
  <2>1. ret' = BD!Answer(Pending, TRUE, media[Pending.port][Pending.sector])
    BY <1>1, <1>2, <1>3, <1>5 DEF Effect, Result, BD!Answer
  <2>2. BD!ReadDone
    BY <1>1, <1>3, <1>4, <1>5, <2>1 DEF BD!ReadDone, BD!Done, Pending
  <2> QED
    BY <1>4, <2>2 DEF BD!Next
<1>6. CASE call.op = "write"
  <2>1. ret' = BD!Answer(Pending, TRUE, Pending.data)
    BY <1>1, <1>3, <1>6 DEF Result, BD!Answer
  <2>2. media[Pending.port][Pending.sector] = Pending.data
    BY <1>2, <1>3, <1>6 DEF Effect
  <2>3. BD!WriteDone
    BY <1>1, <1>3, <1>4, <1>6, <2>1, <2>2 DEF BD!WriteDone, BD!Done, Pending
  <2> QED
    BY <1>4, <2>3 DEF BD!Next
<1>7. CASE call.op = "flush"
  <2>1. ret' = BD!Answer(Pending, TRUE, None)
    BY <1>1, <1>3, <1>7 DEF Result, BD!Answer
  <2>2. stable[Pending.port] = media[Pending.port]
    BY <1>2, <1>3, <1>7 DEF Effect
  <2>3. BD!FlushDone
    BY <1>1, <1>3, <1>4, <1>7, <2>1, <2>2 DEF BD!FlushDone, BD!Done, Pending
  <2> QED
    BY <1>4, <2>3 DEF BD!Next
<1> QED
  BY <1>3, <1>5, <1>6, <1>7

\* What follows issue_command.
LEMMA FinishMaps ==
    ASSUME RInv, Finish PROVE [BD!Next]_(BD!vars) /\ PendingOK'
<1>1. CASE Register
  <2>1. UNCHANGED <<media, stable, ret>> /\ call.op = "identify"
        /\ call' = NoCommand
    BY <1>1 DEF Register, drive
  <2>2. Pending' = Pending
    BY <2>1 DEF Pending
  <2> QED
    BY <2>1, <2>2, Stutter DEF RInv
<1>2. CASE NoSectors
  <2>1. GiveUp /\ Running /\ UNCHANGED <<media, stable>>
    BY <1>2 DEF NoSectors, Running, drive
  <2> QED
    BY <2>1, GiveUpMaps
<1>3. CASE Return
  BY <1>3, ReturnMaps
<1> QED
  BY <1>1, <1>2, <1>3 DEF Finish

(***************************************************************************)
(* The steps of the drives.                                                *)
(***************************************************************************)

\* Data that reaches the media is the pending write's, or a torn part of it.
LEMMA LandMaps ==
    ASSUME RInv, NEW p \in Ports, NEW v \in Values,
           UNCHANGED <<call, ret, stable>>,
           pc = "poll", call.port = p, call.op = "write",
           media' = [media EXCEPT ![p][slot[p].lba] = v]
    PROVE  [BD!Next]_(BD!vars) /\ PendingOK'
<1>1. Pending = call /\ Pending' = call
  BY DEF Pending
<1>2. slot[p].lba = Pending.sector /\ Pending.port = p
  BY <1>1 DEF RInv, IInv, SlotOK
<1>3. media' = [media EXCEPT ![Pending.port][Pending.sector] = v]
  BY <1>2
<1>4. BD!Land
  BY <1>1, <1>3 DEF BD!Land, Pending
<1> QED
  BY <1>1, <1>4 DEF BD!Next, RInv, PendingOK

\* A drive that is given up stays silent, so its data is the request's.
LEMMA DriveMaps ==
    ASSUME LateAnswers = FALSE, RInv, Drive
    PROVE  [BD!Next]_(BD!vars) /\ PendingOK'
<1> PICK p \in Ports : \/ DriveReady(p) \/ DriveIdentify(p) \/ DriveRead(p)
                       \/ DriveWrite(p) \/ DriveFlush(p) \/ DriveShort(p)
                       \/ DriveError(p)
  BY DEF Drive
<1>1. UNCHANGED <<call, ret>>
  BY DEF DriveReady, DriveIdentify, DriveRead, DriveWrite, DriveFlush,
         DriveShort, DriveError, Complete, driver
<1>2. ASSUME NEW op, Runs(p, op)
      PROVE  pc = "poll" /\ call.port = p /\ call.op = op /\ slot[p].op = op
  BY <1>2 DEF Runs, port, RInv, IInv, SlotOK
<1>3. CASE UNCHANGED <<media, stable>>
  <2>1. UNCHANGED seen
    BY <1>1, <1>3 DEF seen
  <2> QED
    BY <2>1, StutterSeen DEF RInv
<1>4. CASE DriveReady(p) \/ DriveIdentify(p) \/ DriveRead(p)
  BY <1>3, <1>4 DEF DriveReady, DriveIdentify, DriveRead, drive
<1>5. CASE DriveWrite(p)
  <2>1. pc = "poll" /\ call.port = p /\ call.op = "write" /\ UNCHANGED stable
        /\ media' = [media EXCEPT ![p][slot[p].lba] = transfer_buffer]
    BY <1>2, <1>5 DEF DriveWrite
  <2>2. transfer_buffer = call.data /\ call.data \in Values
    BY <2>1 DEF RInv, IInv, BufferOK, CallOK, Running
  <2> QED
    BY <1>1, <2>1, <2>2, LandMaps
<1>6. CASE DriveFlush(p)
  <2>1. pc = "poll" /\ call.port = p /\ call.op = "flush" /\ UNCHANGED media
        /\ stable' = [stable EXCEPT ![p] = media[p]]
    BY <1>2, <1>6 DEF DriveFlush
  <2>2. Pending = call /\ Pending' = call
    BY <1>1, <2>1 DEF Pending
  <2>3. BD!Sync
    BY <1>1, <2>1, <2>2 DEF BD!Sync, Pending
  <2> QED
    BY <2>2, <2>3 DEF BD!Next, RInv, PendingOK
<1>7. CASE DriveShort(p) \/ DriveError(p)
  <2>1. pc = "poll" /\ call.port = p /\ slot[p].op = call.op /\ Partial(p)
        /\ UNCHANGED stable
    BY <1>2, <1>7 DEF DriveShort, DriveError
  <2>2. CASE UNCHANGED media
    BY <1>3, <2>1, <2>2
  <2>3. ASSUME NEW v \in Values, call.op = "write",
               media' = [media EXCEPT ![p][slot[p].lba] = v]
        PROVE  [BD!Next]_(BD!vars) /\ PendingOK'
    BY <1>1, <2>1, <2>3, LandMaps
  <2> QED
    BY <2>1, <2>2, <2>3 DEF Partial
<1> QED
  BY <1>4, <1>5, <1>6, <1>7

(***************************************************************************)
(* The refinement.                                                         *)
(***************************************************************************)

\* If drives that were given up stay silent, the driver implements the block
\* device its callers expect: one request at a time, nothing written but the
\* sector being written, and no success answer for work that was not done.
THEOREM BlockDiskImplemented ==
    ASSUME LateAnswers = FALSE
    PROVE  Spec => ImplementsBlockDisk
<1>1. Init => RInv /\ BD!Init
  <2> SUFFICES ASSUME Init PROVE RInv /\ BD!Init
    OBVIOUS
  <2>1. IInv
    BY IntegrityInit
  <2>2. Pending = NoCommand /\ ret = NoResult /\ stable = media
    BY DEF Init, Pending
  <2>3. media \in [Ports -> [Sectors -> Values \cup {BlankPage}]]
    BY DEF Init
  <2>4. BD!Init
    BY <2>2, <2>3, SameNothing DEF BD!Init, Pending
  <2> QED
    BY <2>1, <2>2, <2>4 DEF RInv, PendingOK
<1>2. RInv /\ [Next]_vars => RInv' /\ [BD!Next]_(BD!vars)
  <2> SUFFICES ASSUME RInv, [Next]_vars
               PROVE  RInv' /\ [BD!Next]_(BD!vars)
    OBVIOUS
  <2>1. IInv'
    BY IntegrityStep DEF RInv
  <2>2. CASE UNCHANGED vars
    <3>1. UNCHANGED seen
      BY <2>2 DEF vars, driver, drive, seen
    <3> QED
      BY <2>1, <3>1, StutterSeen DEF RInv
  <2>3. CASE Next
    <3>1. PendingOK' /\ [BD!Next]_(BD!vars)
      BY <2>3, ScanMaps, RequestMaps, PollingMaps, FinishMaps, DriveMaps
      DEF Next
    <3> QED
      BY <2>1, <3>1 DEF RInv
  <2> QED
    BY <2>2, <2>3
<1> QED
  BY <1>1, <1>2, PTL DEF Spec, ImplementsBlockDisk, BD!Spec
=============================================================================
