------------------------------ MODULE AtaProofs ------------------------------
(***************************************************************************)
(* Proofs about the ATA half of the disk layer, for every drive, geometry, *)
(* length of a transfer and set of sector contents: the address registers  *)
(* name the sector that was asked for, and diskio.c keeps the promise that *)
(* SectorDevice states.  Both are about Standard drives: those that show   *)
(* BSY before their status is read again and whose tracks fit the register *)
(* of the sector's number.                                                 *)
(***************************************************************************)
EXTENDS AtaPio, TLAPS

(***************************************************************************)
(* The inductive invariant: what is known in each of the driver's waits.   *)
(***************************************************************************)
DeviceType == [ready : BOOLEAN, sectors : Nat, lba : BOOLEAN, cylinders : Nat,
               heads : Nat, track : Nat, flush : BOOLEAN]

WorkOps == {"none", "identify", "read", "write", "store", "flush"}

Types ==
    /\ Standard(page)
    /\ page \in Pages
    /\ status \in States
    /\ work.op \in WorkOps
    /\ port \in Values
    /\ media \in [Sectors -> Values]
    /\ stable \in [Sectors -> Values]
    /\ ret.res \in {"RES_OK", "RES_ERROR", "RES_NOTRDY", "RES_PARERR"}

\* What the driver knows of the drive is true of it.
DeviceOK == device = NoDevice \/ (device = Identified(page) /\ page.ata)

\* A drive that works carries out this command and no other.
AtWork(op, at) == status \in {"busy", "drq"} => work = [op |-> op, at |-> at]

NoRequest == call = NoCall /\ done = 0 /\ buff = <<>>

\* The transfer ata_transfer accepted.
CallOK ==
    /\ device.ready
    /\ call.op \in {"read", "write"}
    /\ call.sector \in Sectors
    /\ call.count \in 1 .. MaxCount
    /\ done \in 0 .. call.count
    /\ call.sector + call.count <= device.sectors
    /\ call.op = "write" => call.data \in [1 .. call.count -> Values]

\* The sector being transferred.
Sector == call.sector + done

\* The first n sectors have been read, or written.
ReadUpTo(n)    == /\ buff \in Seq(Values)
                  /\ Len(buff) = n
                  /\ \A i \in 1 .. n : buff[i] = media[call.sector + i - 1]
WrittenUpTo(n) == /\ buff = <<>>
                  /\ \A i \in 1 .. n : media[call.sector + i - 1] = call.data[i]
Moved(n) == /\ call.op = "read" => ReadUpTo(n)
            /\ call.op = "write" => WrittenUpTo(n)

Resting ==
    /\ pc = "idle"
    /\ NoRequest
    /\ status # "busy"
    /\ status = "drq" => ~page.ata

Identifying ==
    /\ pc \in {"id_bsy", "id_drq"}
    /\ NoRequest
    /\ device = NoDevice
    /\ AtWork("identify", <<>>)
    /\ pc = "id_drq" => page.ata

AtSector ==
    /\ pc = "sector"
    /\ CallOK
    /\ Moved(done)
    /\ status \notin {"busy", "drq"}

AwaitDrq ==
    /\ pc = "wait_drq"
    /\ CallOK
    /\ done < call.count
    /\ Moved(done)
    /\ AtWork(call.op, Registers(Sector))
    /\ status = "drq" /\ call.op = "read" => port = media[Sector]

AwaitEnd ==
    /\ pc = "wait_end"
    /\ CallOK
    /\ done < call.count
    /\ status # "drq"
    /\ call.op = "read" => status = "ready"
    /\ call.op = "write" =>
         /\ WrittenUpTo(done)
         /\ AtWork("store", Registers(Sector))
         /\ status = "busy" => port = call.data[done + 1]
    /\ status = "ready" => Moved(done + 1)

AwaitFlush ==
    /\ pc = "wait_flush"
    /\ call = SyncCall /\ done = 0 /\ buff = <<>>
    /\ device.ready
    /\ status # "drq"
    /\ AtWork("flush", <<>>)
    /\ status = "ready" => stable = media

Waits == \/ Resting \/ Identifying \/ AtSector \/ AwaitDrq \/ AwaitEnd
         \/ AwaitFlush

AInv == Types /\ DeviceOK /\ Waits

(***************************************************************************)
(* Sectors and addresses.                                                  *)
(***************************************************************************)

\* Division with remainder.
LEMMA Division ==
    ASSUME NEW s \in Nat, NEW n \in Nat \ {0}
    PROVE  s \div n \in Nat /\ s % n \in 0 .. n - 1
  OBVIOUS

LEMMA DivisionSum ==
    ASSUME NEW s \in Nat, NEW n \in Nat \ {0}
    PROVE  s = n * (s \div n) + (s % n)
  OBVIOUS

LEMMA RemainderLess ==
    ASSUME NEW s \in Nat, NEW n \in Nat \ {0}
    PROVE  s % n \in Nat /\ s % n <= s
  BY SMTT(30)

\* Products grow with their factors.
LEMMA ProductMonotone ==
    ASSUME NEW k \in Nat, NEW n \in Nat, NEW q \in Nat, k >= q
    PROVE  k * n >= q * n
  OBVIOUS

\* A quotient is below q when the dividend is below q times the divisor.
LEMMA QuotientBound ==
    ASSUME NEW s \in Nat, NEW n \in Nat \ {0}, NEW q \in Nat, s < n * q
    PROVE  s \div n < q
<1> DEFINE k == s \div n
<1>1. k \in Nat /\ s % n \in Nat /\ s = n * k + (s % n)
  BY Division, DivisionSum
<1>2. SUFFICES ASSUME k >= q PROVE FALSE
  BY <1>1
<1> HIDE DEF k
<1>3. k * n >= q * n
  BY <1>1, <1>2, ProductMonotone
<1> QED
  BY <1>1, <1>3

\* Cylinder, head and track put back together.
LEMMA Reassemble ==
    ASSUME NEW q \in Nat, NEW h \in Nat, NEW t \in Nat, NEW k \in Nat,
           NEW m \in Nat
    PROVE  ((q * h + k) * t) + m = (h * t) * q + (t * k + m)
  OBVIOUS

\* The product of two positive numbers is positive.
LEMMA ProductPositive ==
    ASSUME NEW h \in Nat \ {0}, NEW t \in Nat \ {0}
    PROVE  h * t \in Nat \ {0}
  OBVIOUS

LEMMA ProductType ==
    ASSUME NEW h \in Nat, NEW t \in Nat
    PROVE  h * t \in Nat
  OBVIOUS

LEMMA ProductOrder ==
    ASSUME NEW c \in Nat, NEW h \in Nat, NEW t \in Nat
    PROVE  c * h * t = (h * t) * c
  OBVIOUS

\* An IDENTIFY page has a capacity.
LEMMA CapacityType == ASSUME NEW p \in Pages PROVE Capacity(p) \in Nat
<1>1. p \in PageType
  BY AtaAssumption
<1>2. p.size \in Nat /\ p.cylinders \in Nat /\ p.heads \in Nat
      /\ p.track \in Nat
  BY <1>1 DEF PageType
<1>3. p.cylinders * p.heads * p.track \in Nat
  BY <1>2, ProductType
<1> QED
  BY <1>2, <1>3 DEF Capacity

\* The 32-bit product is no more than the drive has.
LEMMA ChsType ==
    ASSUME NEW p \in Pages
    PROVE  ChsSectors(p) \in Nat /\ ChsSectors(p) <= Capacity(p)
<1>1. Capacity(p) \in Nat /\ LbaSize \in Nat \ {0}
  BY CapacityType, AtaAssumption
<1> QED
  BY <1>1, RemainderLess DEF ChsSectors

\* What ata_identify makes of a page has the type of ata_device_t.
LEMMA IdentifiedType ==
    ASSUME NEW p \in Pages PROVE Identified(p) \in DeviceType
<1>1. p \in PageType
  BY AtaAssumption
<1>2. /\ p.size \in Nat /\ p.cylinders \in Nat /\ p.heads \in Nat
      /\ p.track \in Nat /\ p.lba \in BOOLEAN /\ p.flush \in BOOLEAN
  BY <1>1 DEF PageType
<1>3. NoDevice \in DeviceType
  BY DEF NoDevice, DeviceType
<1>4. ChsSectors(p) \in Nat
  BY ChsType
<1>5. LbaSectors(p) \in Nat
  BY <1>2, AtaAssumption DEF LbaSectors
<1>6. Usable(p) \in BOOLEAN
  BY DEF Usable
<1>7. CASE p.lba
  <2>1. Identified(p) = [NoDevice EXCEPT !.lba = TRUE, !.flush = p.flush,
                 !.sectors = LbaSectors(p), !.ready = LbaSectors(p) > 0]
    BY <1>7 DEF Identified
  <2>2. (LbaSectors(p) > 0) \in BOOLEAN
    OBVIOUS
  <2> QED
    BY <1>2, <1>3, <1>5, <2>1, <2>2 DEF DeviceType
<1>8. CASE ~p.lba
  <2>1. Identified(p) = [NoDevice EXCEPT !.cylinders = p.cylinders,
            !.heads = p.heads, !.track = p.track,
            !.ready = Usable(p) /\ ChsSectors(p) > 0,
            !.sectors = ChsSectors(p), !.flush = Usable(p) /\ p.flush]
    BY <1>8 DEF Identified
  <2>2. /\ (Usable(p) /\ p.flush) \in BOOLEAN
        /\ (Usable(p) /\ ChsSectors(p) > 0) \in BOOLEAN
    BY <1>2, <1>6
  <2> QED
    BY <1>2, <1>3, <1>4, <1>6, <2>1, <2>2 DEF DeviceType
<1> QED
  BY <1>7, <1>8

LEMMA DeviceTyped ==
    ASSUME Types, DeviceOK PROVE device \in DeviceType
<1>1. NoDevice \in DeviceType
  BY DEF NoDevice, DeviceType
<1> QED
  BY <1>1, IdentifiedType DEF Types, DeviceOK

\* A device that is ready is the drive, with a part of its sectors.
LEMMA ReadyDevice ==
    ASSUME Types, DeviceOK, device.ready
    PROVE  /\ device = Identified(page) /\ page.ata /\ page \in PageType
           /\ device.sectors \in Nat /\ device.sectors <= Capacity(page)
           /\ device.sectors = IF page.lba THEN LbaSectors(page) ELSE ChsSectors(page)
           /\ device.flush = page.flush
<1>1. device = Identified(page) /\ page.ata
  BY DEF DeviceOK, NoDevice
<1>2. page \in Pages /\ page \in PageType
  BY AtaAssumption DEF Types
<1>3. page.size \in Nat /\ page.flush \in BOOLEAN /\ page.lba \in BOOLEAN
  BY <1>2 DEF PageType
<1>4. Capacity(page) \in Nat /\ device.sectors \in Nat
  BY <1>2, CapacityType, DeviceTyped DEF DeviceType
<1>5. CASE page.lba
  <2>1. device.flush = page.flush /\ device.sectors = LbaSectors(page)
    BY <1>1, <1>5 DEF Identified, NoDevice
  <2>2. Capacity(page) = page.size
    BY <1>5 DEF Capacity
  <2>3. LbaSectors(page) <= page.size
    BY <1>3, AtaAssumption DEF LbaSectors
  <2> QED
    BY <1>1, <1>2, <1>4, <1>5, <2>1, <2>2, <2>3
<1>6. CASE ~page.lba
  <2>1. /\ device.sectors = ChsSectors(page)
        /\ device.ready = (Usable(page) /\ ChsSectors(page) > 0)
        /\ device.flush = (Usable(page) /\ page.flush)
    BY <1>1, <1>6 DEF Identified, NoDevice
  <2>2. ChsSectors(page) <= Capacity(page)
    BY <1>2, ChsType
  <2>3. device.flush = page.flush
    BY <1>3, <2>1
  <2> QED
    BY <1>1, <1>2, <1>4, <1>6, <2>1, <2>2, <2>3
<1> QED
  BY <1>5, <1>6

\* The registers written for a sector name that sector and no other.
LEMMA Address ==
    ASSUME Types, DeviceOK, device.ready,
           NEW s \in Nat, s < device.sectors
    PROVE  /\ s \in Sectors /\ Exists(s)
           /\ Locate(Registers(s)) = s
           /\ ~device.lba => /\ Registers(s)[1] < device.cylinders
                             /\ Registers(s)[2] < device.heads
                             /\ Registers(s)[3] \in 1 .. device.track
<1>1. /\ device = Identified(page) /\ page \in PageType /\ page \in Pages
      /\ device.sectors \in Nat /\ device.sectors <= Capacity(page)
      /\ Capacity(page) \in Nat /\ TrackFits(page)
      /\ 0 .. device.sectors - 1 \subseteq Sectors
  <2>1. /\ device = Identified(page) /\ page \in PageType /\ page \in Pages
        /\ device.sectors \in Nat /\ device.sectors <= Capacity(page)
        /\ device.sectors = IF page.lba THEN LbaSectors(page) ELSE ChsSectors(page)
    BY ReadyDevice DEF Types
  <2>2. 0 .. device.sectors - 1 \subseteq Sectors
    BY <2>1, AtaAssumption
  <2> QED
    BY <2>1, <2>2, CapacityType DEF Types, Standard
<1>2. s \in 0 .. Capacity(page) - 1 /\ s \in 0 .. device.sectors - 1
  BY <1>1
<1>3. s \in Sectors /\ Exists(s)
  BY <1>1, <1>2 DEF Exists
<1>4. CASE page.lba
  <2>1. device.lba /\ device.sectors = LbaSectors(page)
    BY <1>1, <1>4 DEF Identified, NoDevice
  <2>2. s < Lba28Sectors /\ Lba28Sectors \in Nat \ {0} /\ page.size \in Nat
    BY <1>1, <2>1, AtaAssumption DEF LbaSectors, PageType
  <2>3. s % Lba28Sectors = s
    BY <2>2
  <2>4. Registers(s) = <<s>>
    BY <2>1, <2>3 DEF Registers
  <2>5. Locate(Registers(s)) = s
    BY <2>4 DEF Locate
  <2> QED
    BY <1>3, <2>1, <2>5
<1>5. CASE ~page.lba
  <2> DEFINE h == page.heads
             t == page.track
             c == page.cylinders
             q == s \div (h * t)
             r == s % (h * t)
  <2>1. /\ ~device.lba /\ device.heads = h /\ device.track = t
        /\ device.cylinders = c /\ Usable(page)
    BY <1>1, <1>5 DEF Identified, NoDevice
  <2>2. h \in Nat \ {0} /\ t \in Nat \ {0} /\ c \in Nat \ {0}
    BY <1>1, <2>1 DEF Usable, PageType
  <2>3. Capacity(page) = c * h * t
    BY <1>5, <2>1 DEF Capacity
  <2>16. ByteSize \in Nat /\ t < ByteSize
    BY <1>1, <1>5, AtaAssumption DEF TrackFits
  <2> HIDE DEF h, t, c
  <2>4. h * t \in Nat \ {0}
    BY <2>2, ProductPositive
  <2>5. s < (h * t) * c
    <3>1. c * h * t = (h * t) * c
      BY <2>2, ProductOrder
    <3>2. s < c * h * t
      BY <1>2, <1>1, <2>3
    <3> QED
      BY <3>1, <3>2, Zenon
  <2>6. q \in Nat /\ r \in Nat /\ r < h * t /\ s = (h * t) * q + r
    <3>1. q \in Nat /\ r \in 0 .. (h * t) - 1
      BY <2>4, Division
    <3>2. s = (h * t) * q + r
      BY <2>4, DivisionSum
    <3> HIDE DEF q, r
    <3> QED
      BY <2>4, <3>1, <3>2
  <2>7. q < c
    BY <2>2, <2>4, <2>5, QuotientBound
  <2> HIDE DEF q, r
  <2>8. /\ r \div t \in Nat /\ r % t \in 0 .. t - 1
        /\ r = t * (r \div t) + (r % t)
    BY <2>2, <2>6, Division, DivisionSum
  <2>9. r \div t < h
    <3>1. h * t = t * h
      BY <2>2
    <3> QED
      BY <2>2, <2>6, <3>1, QuotientBound
  <2>17. ((r % t) + 1) % ByteSize = (r % t) + 1
    <3>1. (r % t) + 1 \in Nat /\ (r % t) + 1 < ByteSize
      BY <2>2, <2>8, <2>16
    <3> HIDE DEF r
    <3> QED
      BY <2>16, <3>1, SMTT(30)
  <2>10. Registers(s) = <<q, r \div t, (r % t) + 1>>
    <3>1. Registers(s) = <<q, r \div t, ((r % t) + 1) % ByteSize>>
      BY <2>1 DEF Registers, q, r
    <3> QED
      BY <2>17, <3>1
  <2>11. Registers(s)[1] = q /\ Registers(s)[2] = r \div t
         /\ Registers(s)[3] = (r % t) + 1 /\ Len(Registers(s)) = 3
    BY <2>10
  <2>12. Locate(Registers(s)) = ((q * h + r \div t) * t) + ((r % t) + 1) - 1
    BY <2>11 DEF Locate, h, t
  <2>13. ((q * h + r \div t) * t) + (r % t) = s
    BY <2>2, <2>6, <2>8, Reassemble
  <2>14. ((q * h + r \div t) * t) \in Nat
    BY <2>2, <2>6, <2>8, ProductType
  <2>15. Locate(Registers(s)) = s
    BY <2>8, <2>12, <2>13, <2>14
  <2> QED
    BY <1>3, <2>1, <2>2, <2>7, <2>8, <2>9, <2>11, <2>15
<1> QED
  BY <1>4, <1>5

\* The address registers of every sector that is accepted, given the
\* invariant.
LEMMA AddressesOK == AInv => Reachable
<1> SUFFICES ASSUME AInv, device.ready PROVE
        \A s \in 0 .. device.sectors - 1 :
            /\ Exists(s)
            /\ Locate(Registers(s)) = s
            /\ ~device.lba => /\ Registers(s)[1] < device.cylinders
                              /\ Registers(s)[2] < device.heads
                              /\ Registers(s)[3] \in 1 .. device.track
  BY DEF Reachable
<1>1. device.sectors \in Nat
  BY ReadyDevice DEF AInv
<1>2. ASSUME NEW s \in 0 .. device.sectors - 1
      PROVE  s \in Nat /\ s < device.sectors
  BY <1>1, <1>2
<1> QED
  BY <1>2, Address DEF AInv

\* The numbers of a transfer.
LEMMA CallNumbers ==
    ASSUME Types, DeviceOK, CallOK
    PROVE  /\ call.sector \in Nat /\ call.count \in Nat \ {0} /\ done \in Nat
           /\ device.sectors \in Nat
<1>1. Sectors \subseteq Nat /\ MaxCount \in Nat
  BY AtaAssumption
<1>2. device.sectors \in Nat
  BY ReadyDevice DEF CallOK
<1>3. call.sector \in Sectors /\ call.count \in 1 .. MaxCount
      /\ done \in 0 .. call.count
  BY DEF CallOK
<1>4. call.count \in Nat \ {0}
  BY <1>1, <1>3
<1>5. done \in Nat
  BY <1>3, <1>4
<1> QED
  BY <1>1, <1>2, <1>3, <1>4, <1>5

\* The sector being transferred.
LEMMA CurrentSector ==
    ASSUME Types, DeviceOK, CallOK, done < call.count
    PROVE  /\ Sector \in Nat /\ Sector \in Sectors /\ Sector < device.sectors
           /\ Locate(Registers(Sector)) = Sector
<1>1. /\ call.sector \in Nat /\ call.count \in Nat /\ done \in Nat
      /\ device.sectors \in Nat
  BY CallNumbers
<1>2. Sector \in Nat /\ Sector < device.sectors
  BY <1>1 DEF CallOK, Sector
<1> QED
  BY <1>2, Address DEF CallOK

\* Each sector of a transfer is a sector of the drive.
LEMMA SectorOfCall ==
    ASSUME Types, DeviceOK, CallOK, NEW i \in 1 .. call.count
    PROVE  call.sector + i - 1 \in Sectors
<1>1. /\ call.sector \in Nat /\ call.count \in Nat /\ device.sectors \in Nat
  BY CallNumbers
<1>2. call.sector + i - 1 \in Nat /\ call.sector + i - 1 < device.sectors
  BY <1>1 DEF CallOK
<1> QED
  BY <1>2, Address DEF CallOK

(***************************************************************************)
(* The invariant.                                                          *)
(***************************************************************************)

\* The type invariant follows.
LEMMA TypeFollows == AInv => TypeOK
<1> SUFFICES ASSUME AInv PROVE TypeOK
  OBVIOUS
<1>1. device \in DeviceType
  BY DeviceTyped DEF AInv
<1>2. pc \in Steps
  BY DEF AInv, Waits, Resting, Identifying, AtSector, AwaitDrq, AwaitEnd,
         AwaitFlush, Steps
<1>3. MaxCount \in Nat
  BY AtaAssumption
<1>4. /\ call.op \in {"none", "read", "write", "flush"}
      /\ call.sector \in Sectors \cup {0}
      /\ call.count \in 0 .. MaxCount
      /\ done \in 0 .. call.count
      /\ Len(buff) \in 0 .. call.count
  <2>1. CASE NoRequest \/ (call = SyncCall /\ done = 0 /\ buff = <<>>)
    <3>1. /\ call.op \in {"none", "flush"} /\ call.sector = 0
          /\ call.count = 0
      BY <2>1 DEF NoRequest, NoCall, SyncCall, Call
    <3>2. done = 0 /\ Len(buff) = 0
      BY <2>1 DEF NoRequest
    <3> QED
      BY <1>3, <3>1, <3>2
  <2>2. CASE CallOK /\ Moved(done)
    <3>1. Len(buff) \in 0 .. call.count
      BY <2>2 DEF CallOK, Moved, ReadUpTo, WrittenUpTo
    <3> QED
      BY <1>3, <2>2, <3>1 DEF CallOK
  <2>3. CASE AwaitEnd
    <3>1. done + 1 \in 0 .. call.count
      BY <1>3, <2>3 DEF AwaitEnd, CallOK
    <3>2. Len(buff) \in {0, done + 1}
      BY <2>3 DEF AwaitEnd, CallOK, Moved, ReadUpTo, WrittenUpTo
    <3>3. Len(buff) \in 0 .. call.count
      BY <1>3, <2>3, <3>1, <3>2 DEF AwaitEnd, CallOK
    <3> QED
      BY <1>3, <2>3, <3>3 DEF AwaitEnd, CallOK
  <2> QED
    BY <2>1, <2>2, <2>3
    DEF AInv, Waits, Resting, Identifying, AtSector, AwaitDrq, AwaitFlush
<1> QED
  BY <1>1, <1>2, <1>4 DEF AInv, Types, TypeOK, DeviceType, WorkOps

\* At boot.
LEMMA InitInv == ASSUME Init, Standard(page) PROVE AInv
<1>1. Types
  BY DEF Init, Types, States, NoWork, WorkOps, NoResult, Result
<1>2. Resting
  BY DEF Init, Resting, NoRequest
<1> QED
  BY <1>1, <1>2 DEF AInv, Init, DeviceOK, Waits

\* A drive that takes a command shows BSY.
LEMMA SendBusy ==
    ASSUME Types, NEW op, NEW at, Send(op, at)
    PROVE  IF status \in {"absent", "busy", "hung"}
           THEN UNCHANGED <<status, work>>
           ELSE status' = "busy" /\ work' = [op |-> op, at |-> at]
  BY DEF Send, Taken, Late, Types, States, Standard

\* A command makes a drive that can take it busy.
LEMMA SendTypes ==
    ASSUME Types, NEW op \in WorkOps, NEW at, Send(op, at),
           UNCHANGED <<page, port, media, stable>>,
           ret' = ret \/ ret' = NoResult
    PROVE  Types'
<1>2. status \in States /\ work.op \in WorkOps
  BY DEF Types
<1>3. IF status \in {"absent", "busy", "hung"}
      THEN UNCHANGED <<status, work>>
      ELSE status' = "busy" /\ work' = [op |-> op, at |-> at]
  BY SendBusy
<1>1. status' \in States /\ work'.op \in WorkOps
  BY <1>2, <1>3 DEF States
<1> QED
  BY <1>1 DEF Types, NoResult, Result

LEMMA SendWork ==
    ASSUME Types, NEW op, NEW at, Send(op, at), status \notin {"busy", "drq"}
    PROVE  /\ status' \in {"busy", "drq"} => work' = [op |-> op, at |-> at]
           /\ status' # "drq"
           /\ status' = "ready" => status = "ready"
           /\ status' # "ready"
  BY SendBusy

\* While the device and the page stay, so does what is known of them.
LEMMA DeviceFrame ==
    ASSUME DeviceOK, UNCHANGED <<device, page>> PROVE DeviceOK'
  BY DEF DeviceOK, Identified, LbaSectors, Usable, Capacity, ChsSectors

\* Steps that leave the drive alone keep its types.
LEMMA DriveFrame ==
    ASSUME Types, UNCHANGED drive,
           ret'.res \in {"RES_OK", "RES_ERROR", "RES_NOTRDY", "RES_PARERR"}
    PROVE  Types'
  BY DEF Types, drive

\* A call that ends leaves the driver at rest.
LEMMA AnswerRests ==
    ASSUME Types, DeviceOK, NEW c,
           NEW res \in {"RES_OK", "RES_ERROR", "RES_NOTRDY", "RES_PARERR"},
           NEW d, Answer(c, res, d), UNCHANGED <<device, drive>>,
           status # "busy", status = "drq" => ~page.ata
    PROVE  AInv'
<1>1. ret'.res = res
  BY DEF Answer, Result
<1>2. Types'
  BY <1>1, DriveFrame
<1>3. DeviceOK'
  BY DeviceFrame DEF drive
<1>4. Resting'
  BY DEF Answer, Resting, NoRequest, drive
<1> QED
  BY <1>2, <1>3, <1>4 DEF AInv, Waits

\* Which wait the driver is in follows from pc.
LEMMA WaitCases ==
    ASSUME AInv
    PROVE  /\ pc = "idle" => Resting
           /\ pc \in {"id_bsy", "id_drq"} => Identifying
           /\ pc = "sector" => AtSector
           /\ pc = "wait_drq" => AwaitDrq
           /\ pc = "wait_end" => AwaitEnd
           /\ pc = "wait_flush" => AwaitFlush
  BY DEF AInv, Waits, Resting, Identifying, AtSector, AwaitDrq, AwaitEnd,
         AwaitFlush

\* disk_initialize forgets the device and asks again.
LEMMA InitializeInv == ASSUME AInv, Initialize PROVE AInv'
<1>1. Resting
  BY WaitCases DEF Initialize
<1>2. /\ pc' = "id_bsy" /\ device' = NoDevice /\ ret' = NoResult
      /\ UNCHANGED <<call, done, buff, page, port, media, stable>>
      /\ Send("identify", <<>>)
  BY DEF Initialize, request
<1>3. Types' /\ DeviceOK'
  BY <1>2, SendTypes DEF AInv, DeviceOK, WorkOps
<1>4. AtWork("identify", <<>>)'
  BY <1>1, <1>2, SendBusy DEF Resting, AtWork, AInv
<1>5. Identifying'
  BY <1>1, <1>2, <1>4 DEF Resting, NoRequest, Identifying
<1> QED
  BY <1>3, <1>5 DEF AInv, Waits

\* The page is read, or is not.
LEMMA IdentifyInv ==
    ASSUME AInv, IdentifyFails \/ IdentifyBusy \/ Identify PROVE AInv'
<1>1. Identifying /\ Types /\ DeviceOK
  BY WaitCases DEF IdentifyFails, IdentifyBusy, Identify, AInv
<1>2. CASE IdentifyFails
  <2>1. /\ device' = NoDevice /\ pc' = "idle" /\ UNCHANGED drive
        /\ UNCHANGED <<call, done, buff, ret>>
    BY <1>2 DEF IdentifyFails, Initialized, request
  <2>2. status # "busy" /\ (status = "drq" => ~page.ata)
    BY <1>2 DEF IdentifyFails, Failed, BsyClear, NoDrq
  <2>3. Types'
    BY <1>1, <2>1 DEF Types, drive
  <2>4. Resting'
    BY <1>1, <2>1, <2>2 DEF Identifying, Resting, NoRequest, drive
  <2> QED
    BY <2>1, <2>3, <2>4 DEF AInv, DeviceOK, Waits
<1>3. CASE IdentifyBusy
  <2>1. /\ pc' = "id_drq" /\ page.ata /\ UNCHANGED drive
        /\ UNCHANGED <<call, done, buff, ret, device>>
    BY <1>3 DEF IdentifyBusy, request
  <2>2. Types'
    BY <1>1, <2>1 DEF Types, drive
  <2>3. DeviceOK'
    BY <1>1, <2>1, DeviceFrame DEF drive
  <2>4. Identifying'
    BY <1>1, <2>1 DEF Identifying, NoRequest, AtWork, drive
  <2> QED
    BY <2>2, <2>3, <2>4 DEF AInv, Waits
<1>4. CASE Identify
  <2>1. /\ pc' = "idle" /\ status' = "ready" /\ work' = NoWork
        /\ UNCHANGED <<page, port, media, stable>>
        /\ UNCHANGED <<call, done, buff, ret>>
    BY <1>4 DEF Identify, Initialized, request
  <2>2. work.op = "identify" /\ page.ata
    BY <1>1, <1>4 DEF Identify, DrqSet, Identifying, AtWork
  <2>3. device' = Identified(page)
    BY <1>4, <2>2 DEF Identify, Initialized
  <2>4. DeviceOK'
    BY <2>1, <2>2, <2>3
    DEF DeviceOK, Identified, LbaSectors, Usable, Capacity, ChsSectors
  <2>5. Types'
    BY <1>1, <2>1 DEF Types, States, NoWork, WorkOps
  <2>6. Resting'
    BY <1>1, <2>1 DEF Identifying, Resting, NoRequest
  <2> QED
    BY <2>4, <2>5, <2>6 DEF AInv, Waits
<1> QED
  BY <1>2, <1>3, <1>4

\* What a read or a write asks for.
Asked(c) ==
    /\ c.op \in {"read", "write"}
    /\ c.sector \in Sectors
    /\ c.count \in 0 .. MaxCount
    /\ c.op = "write" => c.data \in [1 .. c.count -> Values]

\* The caller of disk_write hands over as many sectors as it says.
LEMMA WriteAsks ==
    ASSUME NEW s \in Sectors, NEW n \in 0 .. MaxCount,
           NEW d \in [1 .. n -> Values]
    PROVE  Asked(Call("write", s, Len(d), d))
<1>1. n \in Nat
  BY AtaAssumption
<1>2. Len(d) = n
  BY <1>1
<1> QED
  BY <1>2 DEF Asked, Call

\* A transfer is refused or accepted.
LEMMA TransferInv ==
    ASSUME AInv, NEW c, Asked(c), Transfer(c) PROVE AInv'
<1>1. Resting /\ Types /\ DeviceOK /\ UNCHANGED <<device, drive>>
  BY WaitCases DEF Transfer, AInv
<1>2. ASSUME NEW res \in {"RES_PARERR", "RES_NOTRDY"}, Answer(c, res, <<>>)
      PROVE  AInv'
  BY <1>1, <1>2, AnswerRests DEF Resting
<1>3. CASE /\ device.ready /\ c.count > 0 /\ InRange(c.sector, c.count)
           /\ call' = c /\ ret' = NoResult /\ pc' = "sector"
           /\ UNCHANGED <<done, buff>>
  <2>1. page.ata /\ device.sectors \in Nat
    BY <1>1, <1>3, ReadyDevice
  <2>2. status \notin {"busy", "drq"}
    BY <1>1, <2>1 DEF Resting
  <2>3. Sectors \subseteq Nat /\ MaxCount \in Nat
    BY AtaAssumption
  <2>4. c.sector \in Nat /\ c.count \in 1 .. MaxCount
    <3>1. c.sector \in Sectors /\ c.count \in 0 .. MaxCount
      BY DEF Asked
    <3>2. c.sector \in Nat
      BY <2>3, <3>1
    <3>3. c.count > 0
      BY <1>3
    <3>4. c.count \in 1 .. MaxCount
      BY <2>3, <3>1, <3>3
    <3> QED
      BY <3>2, <3>4
  <2>5. c.sector + c.count <= device.sectors
    BY <1>3, <2>1, <2>4 DEF InRange
  <2>6. done' = 0 /\ buff' = <<>> /\ call' = c /\ device' = device
    BY <1>1, <1>3 DEF Resting, NoRequest
  <2>7. CallOK'
    BY <1>3, <2>4, <2>5, <2>6 DEF CallOK, Asked
  <2>8. Moved(done)'
    BY <2>6 DEF Moved, ReadUpTo, WrittenUpTo
  <2>9. AtSector'
    BY <1>1, <1>3, <2>2, <2>7, <2>8 DEF AtSector, drive
  <2>10. Types'
    BY <1>1, <1>3, DriveFrame DEF NoResult, Result
  <2>11. DeviceOK'
    BY <1>1, DeviceFrame DEF drive
  <2> QED
    BY <2>9, <2>10, <2>11 DEF AInv, Waits
<1> QED
  BY <1>2, <1>3 DEF Transfer

\* The command for the next sector.
LEMMA CommandInv == ASSUME AInv, Command PROVE AInv'
<1>1. AtSector /\ Types /\ DeviceOK
  BY WaitCases DEF Command, AInv
<1>2. /\ pc' = "wait_drq" /\ done < call.count
      /\ Send(call.op, Registers(Sector))
      /\ UNCHANGED <<device, call, done, buff, ret, page, port, media, stable>>
  BY DEF Command, request, Sector
<1>3. call.op \in WorkOps
  BY <1>1 DEF AtSector, CallOK, WorkOps
<1>4. Types' /\ DeviceOK'
  BY <1>1, <1>2, <1>3, SendTypes, DeviceFrame
<1>5. AtWork(call.op, Registers(Sector))' /\ status' \notin {"drq", "ready"}
  <2>1. Registers(Sector)' = Registers(Sector)
    BY <1>2 DEF Registers, Sector
  <2> QED
    BY <1>1, <1>2, <2>1, SendBusy DEF AtSector, AtWork
<1>6. CallOK' /\ Moved(done)'
  BY <1>1, <1>2 DEF AtSector, CallOK, Moved, ReadUpTo, WrittenUpTo
<1>7. AwaitDrq'
  BY <1>2, <1>5, <1>6 DEF AwaitDrq
<1> QED
  BY <1>4, <1>7 DEF AInv, Waits

\* A sector comes out of the data register.
LEMMA ReadWordsInv == ASSUME AInv, ReadWords PROVE AInv'
<1>1. AwaitDrq /\ Types /\ DeviceOK
  BY WaitCases DEF ReadWords, AInv
<1>2. /\ pc' = "wait_end" /\ call.op = "read" /\ status = "drq"
      /\ buff' = Append(buff, port) /\ status' = "ready" /\ work' = NoWork
      /\ UNCHANGED <<device, call, done, ret, page, port, media, stable>>
  BY DEF ReadWords, DrqSet
<1>3. Types'
  BY <1>1, <1>2 DEF Types, States, NoWork, WorkOps
<1>4. DeviceOK'
  BY <1>1, <1>2, DeviceFrame
<1>5. /\ call.sector \in Nat /\ done \in Nat /\ port \in Values
      /\ port = media[call.sector + (done + 1) - 1] /\ ReadUpTo(done)
  <2>1. call.sector \in Nat /\ done \in Nat
    BY <1>1, CallNumbers DEF AwaitDrq
  <2>2. call.sector + (done + 1) - 1 = Sector
    BY <2>1 DEF Sector
  <2> QED
    BY <1>1, <1>2, <2>1, <2>2 DEF AwaitDrq, Moved, Types
<1>6. buff' \in Seq(Values) /\ Len(buff') = done + 1
  BY <1>2, <1>5 DEF ReadUpTo
<1>7. ASSUME NEW i \in 1 .. done + 1
      PROVE  buff'[i] = media[call.sector + i - 1]
  <2>1. CASE i \in 1 .. done
    BY <1>2, <1>5, <2>1 DEF ReadUpTo
  <2>2. CASE i = done + 1
    BY <1>2, <1>5, <2>2 DEF ReadUpTo
  <2> QED
    BY <1>5, <2>1, <2>2
<1>8. Moved(done + 1)'
  BY <1>2, <1>6, <1>7 DEF Moved, ReadUpTo
<1>9. CallOK' /\ done' < call'.count
  BY <1>1, <1>2 DEF AwaitDrq, CallOK
<1>10. AwaitEnd'
  BY <1>2, <1>8, <1>9 DEF AwaitEnd
<1> QED
  BY <1>3, <1>4, <1>10 DEF AInv, Waits

\* A sector goes into the data register.
LEMMA WriteWordsInv == ASSUME AInv, WriteWords PROVE AInv'
<1>1. AwaitDrq /\ Types /\ DeviceOK
  BY WaitCases DEF WriteWords, AInv
<1>2. /\ pc' = "wait_end" /\ call.op = "write" /\ status = "drq"
      /\ port' = call.data[done + 1]
      /\ UNCHANGED <<device, call, done, buff, ret, page, media, stable>>
  BY DEF WriteWords, DrqSet, request
<1>3. work = [op |-> "write", at |-> Registers(Sector)]
  BY <1>1, <1>2 DEF AwaitDrq, AtWork
<1>4. status' = "busy" /\ work' = [op |-> "store", at |-> Registers(Sector)]
  <2>1. work.op = "write"
    BY <1>3
  <2>2. status' = "busy" /\ work' = [work EXCEPT !.op = "store"]
    BY <1>1, <2>1 DEF WriteWords, Taken, Types, Standard
  <2> QED
    BY <1>3, <2>2
<1>5. done + 1 \in 1 .. call.count
  <2>1. done \in Nat /\ call.count \in Nat
    BY <1>1, CallNumbers DEF AwaitDrq
  <2> QED
    BY <1>1, <2>1 DEF AwaitDrq
<1>6. port' \in Values
  BY <1>1, <1>2, <1>5 DEF AwaitDrq, CallOK
<1>7. Types'
  BY <1>1, <1>2, <1>4, <1>6 DEF Types, States, WorkOps
<1>8. DeviceOK'
  BY <1>1, <1>2, DeviceFrame
<1>9. AtWork("store", Registers(Sector))'
  <2>1. Registers(Sector)' = Registers(Sector)
    BY <1>2 DEF Registers, Sector
  <2> QED
    BY <1>4, <2>1 DEF AtWork
<1>10. CallOK' /\ done' < call'.count /\ WrittenUpTo(done)'
  BY <1>1, <1>2 DEF AwaitDrq, CallOK, Moved, WrittenUpTo
<1>11. AwaitEnd'
  BY <1>2, <1>4, <1>9, <1>10 DEF AwaitEnd
<1> QED
  BY <1>7, <1>8, <1>11 DEF AInv, Waits

\* The loop goes on to the next sector.
LEMMA SectorDoneInv == ASSUME AInv, SectorDone PROVE AInv'
<1>1. AwaitEnd /\ Types /\ DeviceOK
  BY WaitCases DEF SectorDone, AInv
<1>2. /\ pc' = "sector" /\ done' = done + 1 /\ UNCHANGED drive
      /\ UNCHANGED <<device, call, buff, ret>>
  BY DEF SectorDone
<1>3. status = "ready" /\ Moved(done + 1)
  BY <1>1 DEF SectorDone, BsyClear, AwaitEnd, Types, States
<1>4. Types'
  BY <1>1, <1>2 DEF Types, drive
<1>5. DeviceOK'
  BY <1>1, <1>2, DeviceFrame DEF drive
<1>6. done + 1 \in 0 .. call.count
  <2>1. done \in Nat /\ call.count \in Nat
    BY <1>1, CallNumbers DEF AwaitEnd
  <2> QED
    BY <1>1, <2>1 DEF AwaitEnd
<1>7. CallOK'
  BY <1>1, <1>2, <1>6 DEF AwaitEnd, CallOK
<1>8. Moved(done)'
  BY <1>2, <1>3 DEF Moved, ReadUpTo, WrittenUpTo, drive
<1>9. AtSector'
  BY <1>2, <1>3, <1>7, <1>8 DEF AtSector, drive
<1> QED
  BY <1>4, <1>5, <1>9 DEF AInv, Waits

\* A transfer or a flush ends.
LEMMA EndInv ==
    ASSUME AInv, TransferFails \/ TransferDone \/ SyncDone PROVE AInv'
<1>1. Types /\ DeviceOK
  BY DEF AInv
<1>2. \E c, d : \E res \in {"RES_OK", "RES_ERROR"} : Answer(c, res, d)
  BY DEF TransferFails, TransferDone, SyncDone
<1>3. UNCHANGED <<device, drive>>
  BY DEF TransferFails, TransferDone, SyncDone
<1>4. status \notin {"busy", "drq"}
  <2>1. CASE TransferFails
    BY <2>1 DEF TransferFails, NoDrq, Failed
  <2>2. CASE TransferDone
    BY <2>2, WaitCases DEF TransferDone, AtSector
  <2>3. CASE SyncDone
    BY <2>3, WaitCases DEF SyncDone, BsyClear, Failed, AwaitFlush
  <2> QED
    BY <2>1, <2>2, <2>3
<1> QED
  BY <1>1, <1>2, <1>3, <1>4, AnswerRests

\* CTRL_SYNC is answered at once or sent.
LEMMA SyncInv == ASSUME AInv, Sync PROVE AInv'
<1>1. Resting /\ Types /\ DeviceOK
  BY WaitCases DEF Sync, AInv
<1>2. UNCHANGED <<device, page, port, media, stable>>
  BY DEF Sync
<1>3. ASSUME NEW res \in {"RES_NOTRDY", "RES_OK"}, Answer(SyncCall, res, <<>>),
             UNCHANGED <<status, work>>
      PROVE  AInv'
  <2>1. UNCHANGED <<device, drive>>
    BY <1>2, <1>3 DEF drive
  <2> QED
    BY <1>1, <1>3, <2>1, AnswerRests DEF Resting
<1>4. CASE /\ device.ready /\ call' = SyncCall /\ ret' = NoResult
           /\ pc' = "wait_flush" /\ Send("flush", <<>>)
           /\ UNCHANGED <<done, buff>>
  <2>1. page.ata
    BY <1>1, <1>4, ReadyDevice
  <2>2. status \notin {"busy", "drq"}
    BY <1>1, <2>1 DEF Resting
  <2>3. Types' /\ DeviceOK'
    BY <1>1, <1>2, <1>4, SendTypes, DeviceFrame DEF WorkOps
  <2>4. AtWork("flush", <<>>)' /\ status' # "drq"
    BY <1>1, <1>4, <2>2, SendWork DEF AtWork
  <2>5. status' = "ready" => FALSE
    BY <1>1, <1>4, <2>2, SendWork
  <2>6. AwaitFlush'
    BY <1>1, <1>2, <1>4, <2>4, <2>5 DEF AwaitFlush, Resting, NoRequest,
       SyncCall, Call
  <2> QED
    BY <2>3, <2>6 DEF AInv, Waits
<1> QED
  BY <1>3, <1>4 DEF Sync

\* Any request.
LEMMA RequestsInv == ASSUME AInv, Requests PROVE AInv'
<1>1. CASE Initialize
  BY <1>1, InitializeInv
<1>2. CASE Sync
  BY <1>2, SyncInv
<1>3. ASSUME NEW s \in Sectors, NEW n \in 0 .. MaxCount, Read(s, n)
      PROVE  AInv'
  <2>1. Asked(Call("read", s, n, <<>>))
    BY DEF Asked, Call
  <2> QED
    BY <1>3, <2>1, TransferInv DEF Read
<1>4. ASSUME NEW s \in Sectors, NEW n \in 0 .. MaxCount,
             NEW d \in [1 .. n -> Values], Write(s, d)
      PROVE  AInv'
  <2>1. Asked(Call("write", s, Len(d), d))
    BY WriteAsks
  <2> QED
    BY <1>4, <2>1, TransferInv DEF Write
<1> QED
  BY <1>1, <1>2, <1>3, <1>4 DEF Requests

(***************************************************************************)
(* The drive.                                                              *)
(***************************************************************************)

\* The drive leaves the driver alone.
LEMMA DriveLeaves ==
    ASSUME Types, DriveStep
    PROVE  /\ UNCHANGED <<pc, device, call, done, buff, ret, page>>
           /\ status = "busy" /\ ~ShowBusy
<1>1. ~ShowBusy
  BY DEF ShowBusy, Types, States, Late
<1> QED
  BY <1>1 DEF DriveStep, DriveAsks, DriveStore, DriveFlush, DriveError, Hang, Done,
         driver, request

\* Where the drive stores, or tears, a sector.
LEMMA StorePlace ==
    ASSUME AInv, status = "busy", work.op = "store"
    PROVE  /\ AwaitEnd /\ call.op = "write"
           /\ Locate(work.at) = Sector /\ Sector \in Sectors /\ Sector \in Nat
           /\ port = call.data[done + 1]
<1>1. AwaitEnd /\ call.op = "write"
  BY DEF AInv, Waits, Resting, Identifying, AtSector, AwaitDrq, AwaitEnd,
         AwaitFlush, AtWork, CallOK
<1>2. work.at = Registers(Sector)
  BY <1>1 DEF AwaitEnd, AtWork
<1> QED
  BY <1>1, <1>2, CurrentSector DEF AInv, AwaitEnd

\* A sector that is stored or torn is behind those already written.
LEMMA StoreKeeps ==
    ASSUME AInv, status = "busy", work.op = "store", NEW v,
           media' = [media EXCEPT ![Locate(work.at)] = v],
           UNCHANGED <<call, done, buff>>
    PROVE  WrittenUpTo(done)' /\ media'[Sector] = v
<1>1. /\ Locate(work.at) = Sector /\ Sector \in Sectors
      /\ media \in [Sectors -> Values] /\ CallOK /\ WrittenUpTo(done)
      /\ done < call.count
  BY StorePlace DEF AInv, Types, AwaitEnd
<1>2. call.sector \in Nat /\ done \in Nat /\ call.count \in Nat
  BY <1>1, CallNumbers DEF AInv
<1>3. media'[Sector] = v
  BY <1>1
<1>4. ASSUME NEW i \in 1 .. done
      PROVE  media'[call.sector + i - 1] = call.data[i]
  <2>1. call.sector + i - 1 # Sector
    BY <1>2 DEF Sector
  <2>2. call.sector + i - 1 \in Sectors
    <3>1. i \in 1 .. call.count
      BY <1>1, <1>2
    <3> QED
      BY <1>1, <3>1, SectorOfCall DEF AInv
  <2>3. media'[call.sector + i - 1] = media[call.sector + i - 1]
    BY <1>1, <2>1, <2>2
  <2> QED
    BY <1>1, <2>3 DEF WrittenUpTo
<1> QED
  BY <1>1, <1>3, <1>4 DEF WrittenUpTo

\* A step of the drive that writes nothing keeps what was transferred.
LEMMA QuietDrive ==
    ASSUME UNCHANGED <<device, call, done, buff, media>>
    PROVE  /\ \A n : Moved(n)' = Moved(n)
           /\ \A n : WrittenUpTo(n)' = WrittenUpTo(n)
           /\ CallOK' = CallOK /\ NoRequest' = NoRequest
           /\ Registers(Sector)' = Registers(Sector) /\ Sector' = Sector
  BY DEF Moved, ReadUpTo, WrittenUpTo, CallOK, NoRequest, Registers, Sector

\* The drive asks for the data of a sector, or has them ready.
LEMMA AsksInv == ASSUME AInv, DriveAsks PROVE AInv'
<1>1. /\ status = "busy" /\ status' = "drq" /\ UNCHANGED <<work, media, stable>>
      /\ UNCHANGED <<pc, device, call, done, buff, ret, page>>
  BY DriveLeaves DEF DriveAsks, DriveStep, AInv
<1>2. Types /\ DeviceOK
  BY DEF AInv
<1>3. CASE work.op = "identify" /\ UNCHANGED port
  <2>1. Identifying
    BY <1>1, <1>3 DEF AInv, Waits, Resting, Identifying, AtSector, AwaitDrq,
                      AwaitEnd, AwaitFlush, AtWork, CallOK
  <2>2. Identifying'
    BY <1>1, <2>1, QuietDrive DEF Identifying, AtWork
  <2>3. Types' /\ DeviceOK'
    BY <1>1, <1>2, <1>3, DeviceFrame DEF Types, States
  <2> QED
    BY <2>2, <2>3 DEF AInv, Waits
<1>4. CASE work.op \in {"read", "write"} /\ Found(work.at)
           /\ (work.op = "write" => UNCHANGED port)
           /\ (work.op = "read" => port' = media[Locate(work.at)])
  <2>1. AwaitDrq /\ work = [op |-> call.op, at |-> Registers(Sector)]
    BY <1>1, <1>4 DEF AInv, Waits, Resting, Identifying, AtSector, AwaitDrq,
                      AwaitEnd, AwaitFlush, AtWork, CallOK
  <2>2. Locate(work.at) = Sector /\ Sector \in Sectors
    BY <1>2, <2>1, CurrentSector DEF AwaitDrq
  <2>3. Types'
    <3>1. port' \in Values
      BY <1>2, <1>4, <2>2 DEF Types
    <3> QED
      BY <1>1, <1>2, <3>1 DEF Types, States
  <2>4. DeviceOK'
    BY <1>1, <1>2, DeviceFrame
  <2>5. AtWork(call.op, Registers(Sector))'
    BY <1>1, <2>1, QuietDrive DEF AtWork
  <2>6. call.op = "read" => port' = media[Sector]
    BY <1>4, <2>1, <2>2
  <2>7. AwaitDrq'
    BY <1>1, <2>1, <2>5, <2>6, QuietDrive DEF AwaitDrq
  <2> QED
    BY <2>3, <2>4, <2>7 DEF AInv, Waits
<1> QED
  BY <1>3, <1>4 DEF DriveAsks

\* A sector reaches the medium.
LEMMA StoreInv == ASSUME AInv, DriveStore PROVE AInv'
<1>1. /\ status = "busy" /\ status' = "ready" /\ work.op = "store"
      /\ work' = NoWork /\ UNCHANGED <<port, stable>>
      /\ media' = [media EXCEPT ![Locate(work.at)] = port]
      /\ UNCHANGED <<pc, device, call, done, buff, ret, page>>
  BY DriveLeaves DEF DriveStore, DriveStep, Done, AInv
<1>2. /\ AwaitEnd /\ call.op = "write" /\ Sector \in Sectors
      /\ Locate(work.at) = Sector /\ port = call.data[done + 1]
  BY <1>1, StorePlace
<1>3. WrittenUpTo(done)' /\ media'[Sector] = port
  BY <1>1, StoreKeeps
<1>4. call.sector \in Nat /\ done \in Nat
  BY <1>2, CallNumbers DEF AInv, AwaitEnd
<1>5. media'[call.sector + (done + 1) - 1] = call.data[done + 1]
  <2>1. call.sector + (done + 1) - 1 = Sector
    BY <1>4 DEF Sector
  <2> QED
    BY <1>2, <1>3, <2>1
<1>6. Moved(done + 1)'
  <2>1. ASSUME NEW i \in 1 .. done + 1
        PROVE  media'[call.sector + i - 1] = call.data[i]
    <3>1. CASE i \in 1 .. done
      BY <1>1, <1>3, <3>1 DEF WrittenUpTo
    <3>2. CASE i = done + 1
      BY <1>5, <3>2
    <3> QED
      BY <1>4, <3>1, <3>2
  <2> QED
    BY <1>1, <1>2, <1>3, <2>1 DEF Moved, WrittenUpTo
<1>7. Types'
  BY <1>1, <1>2 DEF AInv, Types, States, NoWork, WorkOps
<1>8. DeviceOK'
  BY <1>1, DeviceFrame DEF AInv
<1>9. AwaitEnd'
  BY <1>1, <1>2, <1>3, <1>6 DEF AwaitEnd, CallOK, AtWork
<1> QED
  BY <1>7, <1>8, <1>9 DEF AInv, Waits

\* The drive empties its cache.
LEMMA FlushInv == ASSUME AInv, DriveFlush PROVE AInv'
<1>1. /\ status = "busy" /\ status' = "ready" /\ work.op = "flush"
      /\ work' = NoWork /\ UNCHANGED <<port, media>> /\ stable' = media
      /\ UNCHANGED <<pc, device, call, done, buff, ret, page>>
  BY DriveLeaves DEF DriveFlush, DriveStep, Done, AInv
<1>2. AwaitFlush
  BY <1>1 DEF AInv, Waits, Resting, Identifying, AtSector, AwaitDrq,
              AwaitEnd, AwaitFlush, AtWork, CallOK
<1>3. Types'
  BY <1>1 DEF AInv, Types, States, NoWork, WorkOps
<1>4. DeviceOK'
  BY <1>1, DeviceFrame DEF AInv
<1>5. AwaitFlush'
  BY <1>1, <1>2 DEF AwaitFlush, AtWork
<1> QED
  BY <1>3, <1>4, <1>5 DEF AInv, Waits

\* A command that fails, or never ends.
LEMMA FailInv == ASSUME AInv, DriveError \/ Hang PROVE AInv'
<1>1. /\ status = "busy" /\ status' \in {"error", "hung"}
      /\ work'.op \in WorkOps /\ UNCHANGED <<port, stable>>
      /\ UNCHANGED <<pc, device, call, done, buff, ret, page>>
  <2>1. Types /\ DriveStep
    BY DEF DriveStep, AInv
  <2>2. UNCHANGED <<pc, device, call, done, buff, ret, page>>
    BY <2>1, DriveLeaves
  <2> QED
    BY <2>1, <2>2 DEF DriveError, Hang, Types, NoWork, WorkOps
<1>2. DeviceOK'
  BY <1>1, DeviceFrame DEF AInv
<1>3. CASE UNCHANGED media
  <2>1. Types'
    BY <1>1, <1>3 DEF AInv, Types, States
  <2>2. CASE Resting \/ AtSector
    BY <1>1, <2>2 DEF Resting, AtSector
  <2>3. CASE Identifying
    <3>1. Identifying'
      BY <1>1, <1>3, <2>3, QuietDrive DEF Identifying, AtWork
    <3> QED
      BY <1>2, <2>1, <3>1 DEF AInv, Waits
  <2>4. CASE AwaitDrq
    <3>1. AwaitDrq'
      BY <1>1, <1>3, <2>4, QuietDrive DEF AwaitDrq, AtWork
    <3> QED
      BY <1>2, <2>1, <3>1 DEF AInv, Waits
  <2>5. CASE AwaitEnd
    <3>1. AwaitEnd'
      BY <1>1, <1>3, <2>5, QuietDrive DEF AwaitEnd, AtWork
    <3> QED
      BY <1>2, <2>1, <3>1 DEF AInv, Waits
  <2>6. CASE AwaitFlush
    <3>1. AwaitFlush'
      BY <1>1, <1>3, <2>6 DEF AwaitFlush, AtWork
    <3> QED
      BY <1>2, <2>1, <3>1 DEF AInv, Waits
  <2> QED
    BY <2>2, <2>3, <2>4, <2>5, <2>6 DEF AInv, Waits
<1>4. ASSUME NEW v \in Values, work.op = "store",
             media' = [media EXCEPT ![Locate(work.at)] = v]
      PROVE  AInv'
  <2>1. WrittenUpTo(done)'
    BY <1>1, <1>4, StoreKeeps
  <2>2. AwaitEnd /\ call.op = "write"
    BY <1>1, <1>4, StorePlace
  <2>3. Types'
    BY <1>1, <1>4 DEF AInv, Types, States
  <2>4. AwaitEnd'
    BY <1>1, <2>1, <2>2 DEF AwaitEnd, AtWork, CallOK
  <2> QED
    BY <1>2, <2>3, <2>4 DEF AInv, Waits
<1> QED
  BY <1>3, <1>4 DEF DriveError, Hang

\* Every step keeps the invariant.
LEMMA StepInv == ASSUME AInv, [Next]_vars PROVE AInv'
<1>1. CASE UNCHANGED vars
  <2>1. UNCHANGED <<pc, device, call, done, buff, ret, page, status, work,
                    port, media, stable>>
    BY <1>1 DEF vars, driver, drive, request
  <2>2. Types' /\ DeviceOK'
    BY <2>1, DeviceFrame DEF AInv, Types
  <2>3. Waits'
    BY <2>1, QuietDrive DEF AInv, Waits, Resting, Identifying, AtSector,
       AwaitDrq, AwaitEnd, AwaitFlush, AtWork
  <2> QED
    BY <2>2, <2>3 DEF AInv
<1>2. CASE DriverStep
  BY <1>2, IdentifyInv, CommandInv, ReadWordsInv, WriteWordsInv,
     SectorDoneInv, EndInv DEF DriverStep
<1>3. CASE DriveStep
  BY <1>3, DriveLeaves, AsksInv, StoreInv, FlushInv, FailInv DEF DriveStep, AInv
<1> QED
  BY <1>1, <1>2, <1>3, RequestsInv DEF Next

(***************************************************************************)
(* The refinement: a request of SectorDevice is pending from its           *)
(* acceptance to its answer.                                               *)
(***************************************************************************)

\* What the abstract device shows as its last answer.
Shown == [op |-> ret.op, sector |-> ret.sector, data |-> ret.data,
          ok |-> ret.res = "RES_OK"]

\* The idle request and the requests are the same in both modules.
LEMMA SameRequests ==
    /\ NoCall = Promise!Idle
    /\ \A op, s, n, d : Call(op, s, n, d) = Promise!Request(op, s, n, d)
  BY DEF NoCall, Call, Promise!Idle, Promise!Request

\* So is the empty answer.
LEMMA SameNoAnswer ==
    ASSUME NEW r, r = NoResult
    PROVE  [op |-> r.op, sector |-> r.sector, data |-> r.data,
            ok |-> r.res = "RES_OK"] = Promise!NoAnswer
<1>1. /\ r.op = "none" /\ r.sector = 0 /\ r.data = <<>>
      /\ r.res = "RES_NOTRDY"
  BY DEF NoResult, Result, NoCall, Call
<1>2. (r.res = "RES_OK") = FALSE
  BY <1>1
<1> QED
  BY <1>1, <1>2 DEF Promise!NoAnswer

\* A step that neither the store nor the caller notices is a stutter.
LEMMA Unseen ==
    ASSUME UNCHANGED <<media, stable, call, ret, page>>
    PROVE  [Promise!Next]_(Promise!vars)
  BY DEF Promise!vars, Shown

\* An answer without a request is a refusal.
LEMMA RefuseMaps ==
    ASSUME Resting, UNCHANGED <<media, stable, call, page>>,
           ret'.res # "RES_OK"
    PROVE  [Promise!Next]_(Promise!vars)
<1>1. call = Promise!Idle
  BY SameRequests DEF Resting, NoRequest
<1>2. Promise!Refuse
  BY <1>1 DEF Promise!Refuse
<1> QED
  BY <1>2 DEF Promise!Next

\* A request that is accepted begins.
LEMMA BeginMaps ==
    ASSUME Resting, UNCHANGED <<media, stable, page>>, ret' = NoResult,
           \/ call' = Promise!Request("flush", 0, 0, <<>>)
           \/ \E s \in Sectors, n \in 1 .. MaxCount :
                \/ call' = Promise!Request("read", s, n, <<>>)
                \/ \E d \in [1 .. n -> Values] :
                      call' = Promise!Request("write", s, n, d),
           call'.sector .. call'.sector + call'.count - 1 \subseteq Sectors
    PROVE  [Promise!Next]_(Promise!vars)
<1>1. call = Promise!Idle
  BY SameRequests DEF Resting, NoRequest
<1>2. Shown' = Promise!NoAnswer
  BY SameNoAnswer DEF Shown
<1>3. Promise!Begin
  BY <1>1, <1>2 DEF Promise!Begin, Promise!Extent, Promise!Counts, Shown
<1> QED
  BY <1>3 DEF Promise!Next

\* disk_initialize changes nothing the caller can see.
LEMMA InitializeMaps ==
    ASSUME AInv, Initialize PROVE [Promise!Next]_(Promise!vars)
<1>1. Resting /\ UNCHANGED <<media, stable, call, page>> /\ ret' = NoResult
  BY WaitCases DEF Initialize, request
<1>2. ret'.res # "RES_OK"
  BY <1>1 DEF NoResult, Result
<1> QED
  BY <1>1, <1>2, RefuseMaps

\* A transfer that is accepted stays inside the drive.
LEMMA ExtentOK ==
    ASSUME Types, DeviceOK, device.ready, NEW s \in Sectors,
           NEW n \in 1 .. MaxCount, InRange(s, n)
    PROVE  s .. s + n - 1 \subseteq Sectors
<1>1. s \in Nat /\ n \in Nat \ {0} /\ device.sectors \in Nat
  <2>1. Sectors \subseteq Nat /\ MaxCount \in Nat
    BY AtaAssumption
  <2> QED
    BY <2>1, ReadyDevice
<1>2. s + n <= device.sectors
  BY <1>1 DEF InRange
<1>3. ASSUME NEW i \in s .. s + n - 1
      PROVE  i \in Nat /\ i < device.sectors
  BY <1>1, <1>2, <1>3
<1> QED
  BY <1>3, Address

\* A transfer is refused, or begins.
LEMMA TransferMaps ==
    ASSUME AInv, AInv', NEW s \in Sectors, NEW n \in 0 .. MaxCount,
           NEW op, NEW d, Transfer(Call(op, s, n, d)),
           \/ op = "read" /\ d = <<>>
           \/ op = "write" /\ d \in [1 .. n -> Values]
    PROVE  [Promise!Next]_(Promise!vars)
<1> DEFINE c == Call(op, s, n, d)
<1>1. Resting /\ UNCHANGED <<media, stable, page>>
  BY WaitCases DEF Transfer, drive
<1>2. c.op = op /\ c.sector = s /\ c.count = n
  BY DEF Call
<1>3. CASE \E res \in {"RES_PARERR", "RES_NOTRDY"} : Answer(c, res, <<>>)
  <2>1. call' = NoCall /\ ret'.res # "RES_OK"
    BY <1>3 DEF Answer, Result
  <2>2. UNCHANGED call
    BY <1>1, <2>1 DEF Resting, NoRequest
  <2> QED
    BY <1>1, <2>1, <2>2, RefuseMaps
<1>4. CASE /\ c.count > 0 /\ call' = c /\ ret' = NoResult
           /\ device.ready /\ InRange(c.sector, c.count)
  <2>1. n \in 1 .. MaxCount
    <3>1. n > 0 /\ MaxCount \in Nat
      BY <1>2, <1>4, AtaAssumption
    <3> QED
      BY <3>1
  <2>2. s .. s + n - 1 \subseteq Sectors
    BY <1>2, <1>4, <2>1, ExtentOK DEF AInv
  <2>3. call'.sector .. call'.sector + call'.count - 1 \subseteq Sectors
    BY <1>2, <1>4, <2>2
  <2>4. call' = Promise!Request(op, s, n, d)
    BY <1>4, SameRequests
  <2> QED
    BY <1>1, <1>4, <2>1, <2>3, <2>4, BeginMaps
<1> QED
  BY <1>3, <1>4 DEF Transfer

\* CTRL_SYNC begins a flush, has nothing to empty, or is refused.
LEMMA SyncMaps == ASSUME AInv, Sync PROVE [Promise!Next]_(Promise!vars)
<1>1. Resting /\ UNCHANGED <<media, stable, page>>
  BY WaitCases DEF Sync
<1>2. CASE Answer(SyncCall, "RES_NOTRDY", <<>>)
  <2>1. call' = NoCall /\ ret'.res # "RES_OK"
    BY <1>2 DEF Answer, Result
  <2>2. UNCHANGED call
    BY <1>1, <2>1 DEF Resting, NoRequest
  <2> QED
    BY <1>1, <2>1, <2>2, RefuseMaps
<1>3. CASE /\ device.ready /\ ~device.flush
           /\ Answer(SyncCall, "RES_OK", <<>>)
  <2>1. ~page.flush
    BY <1>3, ReadyDevice DEF AInv
  <2>2. call = NoCall /\ call' = NoCall
    BY <1>1, <1>3 DEF Resting, NoRequest, Answer
  <2>3. /\ ret'.op = "flush" /\ ret'.sector = 0 /\ ret'.data = <<>>
        /\ ret'.res = "RES_OK"
    BY <1>3 DEF Answer, Result, SyncCall, Call
  <2>4. (ret'.res = "RES_OK") = TRUE
    BY <2>3
  <2>5. Shown' = [op |-> "flush", sector |-> 0, data |-> <<>>, ok |-> TRUE]
    BY <2>3, <2>4 DEF Shown
  <2>6. Promise!NothingToSync
    BY <1>1, <2>1, <2>2, <2>5, SameRequests
    DEF Promise!NothingToSync, Shown
  <2> QED
    BY <2>6 DEF Promise!Next
<1>4. CASE call' = SyncCall /\ ret' = NoResult
  <2>1. call' = Promise!Request("flush", 0, 0, <<>>)
    BY <1>4, SameRequests DEF SyncCall
  <2>2. call'.sector = 0 /\ call'.count = 0
    BY <1>4 DEF SyncCall, Call
  <2>3. call'.sector .. call'.sector + call'.count - 1 \subseteq Sectors
    BY <2>2
  <2> QED
    BY <1>1, <1>4, <2>1, <2>3, BeginMaps
<1> QED
  BY <1>2, <1>3, <1>4 DEF Sync

\* Steps of the driver that do not end a call are stutters.
LEMMA MiddleMaps ==
    ASSUME IdentifyFails \/ IdentifyBusy \/ Identify \/ Command
           \/ ReadWords \/ WriteWords \/ SectorDone
    PROVE  [Promise!Next]_(Promise!vars)
<1>1. UNCHANGED <<media, stable, call, ret, page>>
  BY DEF IdentifyFails, IdentifyBusy, Identify, Initialized, Command,
         ReadWords, WriteWords, SectorDone, request, drive
<1> QED
  BY <1>1, Unseen

\* A call that ends is answered.
LEMMA FinishMaps ==
    ASSUME NEW ok \in BOOLEAN, NEW d, NEW res,
           Answer(call, res, d), UNCHANGED <<device, drive>>,
           ok = (res = "RES_OK"),
           \/ ~ok /\ d = <<>> /\ call # NoCall
           \/ ok /\ call.op = "read" /\ d = Promise!Stored
           \/ /\ ok /\ call.op = "write" /\ d = call.data
              /\ Promise!Stored = call.data
           \/ ok /\ call.op = "flush" /\ d = <<>> /\ stable = media
    PROVE  [Promise!Next]_(Promise!vars)
<1>1. /\ call' = NoCall /\ UNCHANGED <<media, stable, page>>
      /\ ret' = Result(call, res, d)
  BY DEF Answer, drive
<1>2. Shown' = Promise!Answer(ok, d)
  <2>1. /\ ret'.op = call.op /\ ret'.sector = call.sector /\ ret'.data = d
        /\ ret'.res = res
    BY <1>1 DEF Result
  <2> QED
    BY <2>1 DEF Shown, Promise!Answer
<1>3. Promise!ReadDone \/ Promise!WriteDone \/ Promise!FlushDone
        \/ Promise!Fail
  BY <1>2, SameRequests DEF Promise!ReadDone, Promise!WriteDone,
     Promise!FlushDone, Promise!Fail, Shown
<1>4. Promise!Finish
  BY <1>1, <1>3, SameRequests DEF Promise!Finish
<1> QED
  BY <1>4 DEF Promise!Next

\* Sequences with the same elements are the same.
LEMMA SameSequence ==
    ASSUME NEW S, NEW b \in Seq(S), NEW n \in Nat, Len(b) = n,
           NEW f, f = [i \in 1 .. n |-> f[i]], \A i \in 1 .. n : b[i] = f[i]
    PROVE  b = f
  OBVIOUS

\* What ata_transfer answers.
LEMMA TransferEndMaps ==
    ASSUME AInv, TransferFails \/ TransferDone
    PROVE  [Promise!Next]_(Promise!vars)
<1>1. UNCHANGED <<device, drive>> /\ Types /\ DeviceOK
  BY DEF TransferFails, TransferDone, AInv
<1>2. CASE TransferFails
  <2>1. CallOK
    BY <1>2, WaitCases DEF TransferFails, AwaitDrq, AwaitEnd
  <2>2. call # NoCall
    BY <2>1 DEF CallOK, NoCall, Call
  <2>3. Answer(call, "RES_ERROR", <<>>)
    BY <1>2 DEF TransferFails
  <2>4. FALSE = ("RES_ERROR" = "RES_OK")
    OBVIOUS
  <2> QED
    BY <1>1, <2>2, <2>3, <2>4, FinishMaps
<1>3. CASE TransferDone
  <2>1. CallOK /\ Moved(done) /\ done = call.count
    BY <1>3, WaitCases DEF TransferDone, AtSector
  <2>2. call.count \in Nat
    BY <1>1, <2>1, CallNumbers
  <2>3. Promise!Stored
          = [i \in 1 .. call.count |-> media[call.sector + i - 1]]
    BY DEF Promise!Stored
  <2>4. TRUE = ("RES_OK" = "RES_OK")
    OBVIOUS
  <2>5. CASE call.op = "read"
    <3>1. /\ buff \in Seq(Values) /\ Len(buff) = call.count
          /\ \A i \in 1 .. call.count : buff[i] = media[call.sector + i - 1]
      BY <2>1, <2>5 DEF Moved, ReadUpTo
    <3>2. buff = Promise!Stored
      BY <2>2, <2>3, <3>1, SameSequence
    <3>3. Answer(call, "RES_OK", buff)
      BY <1>3, <2>5 DEF TransferDone
    <3> QED
      BY <1>1, <2>4, <2>5, <3>2, <3>3, FinishMaps
  <2>6. CASE call.op = "write"
    <3>1. /\ call.data \in [1 .. call.count -> Values]
          /\ \A i \in 1 .. call.count :
                media[call.sector + i - 1] = call.data[i]
      BY <2>1, <2>6 DEF CallOK, Moved, WrittenUpTo
    <3>2. Promise!Stored = call.data
      BY <2>3, <3>1
    <3>3. Answer(call, "RES_OK", call.data)
      BY <1>3, <2>6 DEF TransferDone
    <3> QED
      BY <1>1, <2>4, <2>6, <3>2, <3>3, FinishMaps
  <2> QED
    BY <2>1, <2>5, <2>6 DEF CallOK
<1> QED
  BY <1>2, <1>3

\* What CTRL_SYNC answers.
LEMMA SyncDoneMaps ==
    ASSUME AInv, SyncDone PROVE [Promise!Next]_(Promise!vars)
<1>1. UNCHANGED <<device, drive>> /\ AwaitFlush
  BY WaitCases DEF SyncDone
<1>2. call.op = "flush" /\ call # NoCall
  BY <1>1 DEF AwaitFlush, SyncCall, NoCall, Call
<1>3. CASE BsyClear /\ Answer(call, "RES_OK", <<>>)
  <2>1. stable = media
    BY <1>1, <1>3 DEF AwaitFlush, BsyClear, AInv, Types, States
  <2>2. TRUE = ("RES_OK" = "RES_OK")
    OBVIOUS
  <2> QED
    BY <1>1, <1>2, <1>3, <2>1, <2>2, FinishMaps
<1>4. CASE Answer(call, "RES_ERROR", <<>>)
  <2>1. FALSE = ("RES_ERROR" = "RES_OK")
    OBVIOUS
  <2> QED
    BY <1>1, <1>2, <1>4, <2>1, FinishMaps
<1> QED
  BY <1>3, <1>4 DEF SyncDone

\* Data land in the range of the request, and a flush is a flush.
LEMMA DriveMaps ==
    ASSUME AInv, DriveStep PROVE [Promise!Next]_(Promise!vars)
<1>1. UNCHANGED <<pc, device, call, done, buff, ret, page>>
      /\ status = "busy" /\ ~ShowBusy
  BY DriveLeaves DEF AInv
<1>2. Shown' = Shown
  BY <1>1 DEF Shown
<1>3. CASE UNCHANGED <<media, stable>>
  BY <1>1, <1>3, Unseen
<1>4. ASSUME NEW v \in Values, work.op = "store", UNCHANGED stable,
             media' = [media EXCEPT ![Locate(work.at)] = v]
      PROVE  [Promise!Next]_(Promise!vars)
  <2>1. AwaitEnd /\ call.op = "write" /\ Locate(work.at) = Sector
    BY <1>1, <1>4, StorePlace
  <2>2. Sector \in Promise!Extent(call)
    <3>1. call.sector \in Nat /\ done \in Nat /\ call.count \in Nat
          /\ done < call.count
      BY <2>1, CallNumbers DEF AInv, AwaitEnd
    <3> QED
      BY <3>1 DEF Sector, Promise!Extent
  <2>3. media' = [media EXCEPT ![Sector] = v]
    BY <1>4, <2>1
  <2>4. Promise!Land
    BY <1>1, <1>2, <1>4, <2>1, <2>2, <2>3 DEF Promise!Land, Shown
  <2> QED
    BY <2>4 DEF Promise!Next
<1>5. CASE DriveStore
  <2>1. work.op = "store" /\ UNCHANGED stable /\ port \in Values
        /\ media' = [media EXCEPT ![Locate(work.at)] = port]
    BY <1>5 DEF DriveStore, AInv, Types
  <2> QED
    BY <1>4, <2>1
<1>6. CASE DriveFlush
  <2>1. work.op = "flush" /\ stable' = media /\ UNCHANGED media
    BY <1>6 DEF DriveFlush
  <2>2. AwaitFlush
    BY <1>1, <2>1 DEF AInv, Waits, Resting, Identifying, AtSector, AwaitDrq,
                      AwaitEnd, AwaitFlush, AtWork, CallOK
  <2>3. call.op = "flush"
    BY <2>2 DEF AwaitFlush, SyncCall, Call
  <2>4. Promise!Sync
    BY <1>1, <1>2, <2>1, <2>3 DEF Promise!Sync, Shown
  <2> QED
    BY <2>4 DEF Promise!Next
<1>7. CASE DriveAsks \/ Hang
  BY <1>3, <1>7 DEF DriveAsks, Hang
<1>8. CASE DriveError
  <2>1. UNCHANGED stable
    BY <1>8 DEF DriveError
  <2> QED
    BY <1>3, <1>4, <1>8, <2>1 DEF DriveError
<1> QED
  BY <1>1, <1>5, <1>6, <1>7, <1>8 DEF DriveStep

(***************************************************************************)
(* The drive stays what it is, so a Standard one keeps the invariant.      *)
(***************************************************************************)
Known == Standard(page) => AInv

LEMMA PageStays == ASSUME [Next]_vars PROVE page' = page
<1>1. CASE UNCHANGED vars
  BY <1>1 DEF vars, drive
<1>2. CASE Requests
  BY <1>2 DEF Requests, Initialize, Sync, Read, Write, Transfer, drive
<1>3. CASE DriverStep
  BY <1>3 DEF DriverStep, IdentifyFails, IdentifyBusy, Identify, Command, ReadWords,
              WriteWords, SectorDone, TransferFails, TransferDone, SyncDone, drive
<1>4. CASE DriveStep
  BY <1>4 DEF DriveStep, ShowBusy, DriveAsks, DriveStore, DriveFlush, DriveError,
              Hang, Done
<1> QED
  BY <1>1, <1>2, <1>3, <1>4 DEF Next

LEMMA KnownInit == Init => Known
  BY InitInv DEF Known

LEMMA KnownStep == Known /\ [Next]_vars => Known'
<1> SUFFICES ASSUME Known, [Next]_vars, Standard(page)' PROVE AInv'
  BY DEF Known
<1>1. Standard(page)
  BY PageStays
<1> QED
  BY <1>1, StepInv DEF Known

\* The registers written for a sector are the address of that sector, inside
\* the geometry of the drive: the RES_PARERR inside the loop of ata_transfer
\* (diskio.c:243) is never returned, unless a track does not fit the register.
THEOREM EverySectorAddressable == Spec => []Reachable
<1>1. Known => Reachable
  BY AddressesOK DEF Known, Reachable
<1> QED
  BY <1>1, KnownInit, KnownStep, PTL DEF Spec

\* Every variable of the driver and of a Standard drive keeps its type.
THEOREM TypeCorrect == Spec => [](Standard(page) => TypeOK)
<1>1. Known => (Standard(page) => TypeOK)
  BY TypeFollows DEF Known
<1> QED
  BY <1>1, KnownInit, KnownStep, PTL DEF Spec

\* The disk layer keeps SectorDevice's promise for any Standard drive, any
\* length of a transfer and any failures: RES_OK is true of every sector of the
\* range, a flush is a flush, and a transfer that fails touches nothing else.
THEOREM PromiseKept == Spec => ImplementsSectorDevice
<1>1. Init => Promise!Init
  <2> SUFFICES ASSUME Init PROVE Promise!Init
    OBVIOUS
  <2>2. page.flush \in BOOLEAN
    <3>1. page \in PageType
      BY AtaAssumption DEF Init
    <3> QED
      BY <3>1 DEF PageType
  <2>3. /\ media \in [Sectors -> Values] /\ stable = media
        /\ call = NoCall /\ ret = NoResult
    BY DEF Init
  <2>4. Shown = Promise!NoAnswer
    BY <2>3, SameNoAnswer DEF Shown
  <2> QED
    BY <2>2, <2>3, <2>4, SameRequests DEF Promise!Init, Shown
<1>2. Known /\ [Next]_vars => [Standard(page) => Promise!Next]_(Promise!vars)
  <2> SUFFICES ASSUME AInv, [Next]_vars PROVE [Promise!Next]_(Promise!vars)
    BY DEF Known
  <2>1. AInv'
    BY StepInv
  <2>2. CASE UNCHANGED vars
    <3>1. UNCHANGED <<media, stable, call, ret, page>>
      BY <2>2 DEF vars, driver, drive, request
    <3> QED
      BY <2>1, <3>1, Unseen
  <2>3. CASE Requests
    <3>1. CASE Initialize \/ Sync
      BY <2>1, <3>1, InitializeMaps, SyncMaps
    <3>2. ASSUME NEW s \in Sectors, NEW n \in 0 .. MaxCount, Read(s, n)
          PROVE  [Promise!Next]_(Promise!vars)
      BY <2>1, <3>2, TransferMaps DEF Read
    <3>3. ASSUME NEW s \in Sectors, NEW n \in 0 .. MaxCount,
                 NEW d \in [1 .. n -> Values], Write(s, d)
          PROVE  [Promise!Next]_(Promise!vars)
      <4>1. Len(d) = n
        BY AtaAssumption
      <4> QED
        BY <2>1, <3>3, <4>1, TransferMaps DEF Write
    <3> QED
      BY <2>1, <2>3, <3>1, <3>2, <3>3 DEF Requests
  <2>4. CASE DriverStep
    BY <2>1, <2>4, MiddleMaps, TransferEndMaps, SyncDoneMaps DEF DriverStep
  <2>5. CASE DriveStep
    BY <2>1, <2>5, DriveMaps
  <2> QED
    BY <2>2, <2>3, <2>4, <2>5 DEF Next
<1> QED
  BY <1>1, <1>2, KnownInit, KnownStep, PTL DEF Spec, ImplementsSectorDevice
=============================================================================
