----------------------------- MODULE FatVolume -----------------------------
(***************************************************************************)
(* A FAT32 volume under FatFs, fs/fatfs/source/ff.c, as MyDOS uses it: one *)
(* FAT, FSInfo trusted, one file open at a time, always written from its   *)
(* start.  A call is a record, op, whose pc names the next access to the   *)
(* disk; between two of them the power may go or an access may fail.       *)
(*                                                                         *)
(* FatFs changes the FAT and the directories in one sector buffer, win[],  *)
(* that reaches the disk only when another sector is wanted (move_window)  *)
(* or at the end of a call (sync_fs).  The order of the sectors on disk is *)
(* what stands between a power loss and a broken volume.  A cluster is one *)
(* sector here, a name takes one entry, and a write that disk_write has    *)
(* reported is on the medium.                                              *)
(***************************************************************************)
EXTENDS Integers, FiniteSets

CONSTANTS
    LastCluster,      \* n_fatent - 1
    FatSectors,       \* the sectors of the FAT
    FatOf,            \* the sector an entry of the FAT is in
    EndOfChain,       \* the mark of a last cluster
    Info, NoSector,   \* the FSInfo sector; no sector is in the window
    Names, NoName,    \* names of files and directories; a free entry
    Slots,            \* entries of a directory that fit in a cluster
    Units,            \* pieces of data that fit in a cluster
    MaxSize,          \* bound: pieces of data in a file
    Leftover,         \* what a free cluster holds when the volume is made
    MaxCalls,         \* bound: calls that change the volume
    Mishaps           \* bound: accesses to the disk that fail, and power losses

Clusters == 2 .. LastCluster
Root     == 2
Sectors  == FatSectors \cup Clusters \cup {Info}
Links    == Clusters \cup {0, EndOfChain}
NoEntry  == [name |-> NoName, dir |-> FALSE, clst |-> 0, size |-> 0]
NoUnit   == <<0, 0>>   \* otherwise: which save wrote it, and where in the file
NoData   == [u \in 1 .. Units |-> NoUnit]
Blank    == [ent |-> [i \in 1 .. Slots |-> NoEntry], data |-> NoData, dots |-> FALSE]

Entries  == [name : Names \cup {NoName}, dir : BOOLEAN, clst : Clusters \cup {0}, size : Nat]
Contents == [ent : [1 .. Slots -> Entries], data : [1 .. Units -> Nat \X Nat], dots : BOOLEAN]

ASSUME FatAssumption ==
    /\ LastCluster \in Nat \ {0, 1}
    /\ FatOf \in [Clusters -> FatSectors]
    /\ FatSectors \cap Clusters = {} /\ Info \notin FatSectors \cup Clusters
    /\ NoSector \notin Sectors
    /\ EndOfChain \notin Clusters \cup {0}
    /\ NoName \notin Names
    /\ Slots \in Nat \ {0} /\ Units \in Nat \ {0}
    /\ Leftover \in Contents /\ \A i \in 1 .. Slots : ~Leftover.ent[i].dir
    /\ MaxSize \in Nat /\ MaxCalls \in Nat /\ Mishaps \in Nat

VARIABLES
    disk,     \* the medium
    win,      \* win[], winsect and wflag
    fs,       \* the rest of FATFS: free_clst, last_clst, fsi_flag, cdir
    op,       \* the call that is running
    fil,      \* the open FIL
    known,    \* what the calls that returned FR_OK have told of every name
    spent     \* calls, faults of the disk and power losses so far

vars == <<disk, win, fs, op, fil, known, spent>>

(***************************************************************************)
(* The volume as FatFs sees it: the disk with the window over it.          *)
(***************************************************************************)
Vol == [s \in Sectors |-> IF s = win.sect THEN win.buf ELSE disk[s]]

Link(v, c)      == v[FatOf[c]][c]
Entry(v, t, i)  == v[t].ent[i]
InSector(f)     == {c \in Clusters : FatOf[c] = f}

HasName(v, t, n) == \E i \in 1 .. Slots : Entry(v, t, i).name = n
FirstOf(v, t, n) ==
    {i \in 1 .. Slots : Entry(v, t, i).name = n /\ \A j \in 1 .. i - 1 : Entry(v, t, j).name # n}

\* The directories a path can lead to: no entry that is out of use names one.
Directories(v) ==
    {Root} \cup {d \in Clusters : \E t \in Clusters, i \in 1 .. Slots :
                                      Entry(v, t, i).dir /\ Entry(v, t, i).clst = d}

(***************************************************************************)
(* The window: what move_window leaves in it.                              *)
(***************************************************************************)
Visit(s)    == win' = [sect |-> s, buf |-> Vol[s], dirty |-> win.dirty /\ win.sect = s]
Edit(s, b)  == win' = [sect |-> s, buf |-> b, dirty |-> TRUE]

SetEntry(t, i, e) == Edit(t, [Vol[t] EXCEPT !.ent[i] = e])
SetLink(c, x)     == Edit(FatOf[c], [Vol[FatOf[c]] EXCEPT ![c] = x])

(***************************************************************************)
(* A call, an open file and the budget.                                    *)
(***************************************************************************)
NoCall == [call |-> "none", pc |-> "idle", d |-> Root, n |-> NoName, fresh |-> FALSE,
           t |-> Root, i |-> 1, clst |-> 0, ncl |-> 0, dcl |-> 0, left |-> 0, seen |-> {}]
NoFile == [open |-> FALSE, fresh |-> FALSE, stop |-> FALSE, d |-> Root, n |-> NoName,
           t |-> Root, i |-> 1, ver |-> 0, sclust |-> 0, clust |-> 0, sect |-> 0, size |-> 0,
           buf |-> NoData, dirty |-> FALSE]

Idle    == op.call = "none"
Go(pc)  == [op EXCEPT !.pc = pc]
Call(c) == [NoCall EXCEPT !.call = c]
Opened(t, i) ==
    fil' = [NoFile EXCEPT !.open = TRUE, !.fresh = op.fresh, !.d = op.d, !.n = op.n,
                          !.t = t, !.i = i, !.ver = spent.calls]

(***************************************************************************)
(* create_chain's search: from scl, the first free cluster.                *)
(***************************************************************************)
After(c)       == IF c < LastCluster THEN c + 1 ELSE 2
Distance(s, c) == (c - s - 1 + 2 * (LastCluster - 1)) % (LastCluster - 1)

\* scl, where the search starts.
SearchFrom ==
    CASE op.clst # 0 /\ Link(Vol, After(op.clst)) = 0 -> op.clst
      [] fs.last \in Clusters -> fs.last
      [] op.clst # 0 -> op.clst
      [] OTHER -> 1
\* Entries of the FAT that are read before the search stops at c.
Probed(c) ==
    {x \in Clusters : Distance(SearchFrom, x) <= Distance(SearchFrom, c)}
        \cup (IF op.clst # 0 THEN {op.clst, After(op.clst)} ELSE {})
IsFree(c)   == Link(Vol, c) = 0
NextFree   == {c \in Clusters : IsFree(c) /\ \A x \in Clusters :
                  IsFree(x) => Distance(SearchFrom, c) <= Distance(SearchFrom, x)}
SectorsOf(C) == {FatOf[c] : c \in C}
Searched ==
    CASE fs.free = 0 -> IF op.clst = 0 THEN {} ELSE {FatOf[op.clst]}
      [] fs.free # 0 /\ NextFree = {} -> SectorsOf(Clusters)
      [] OTHER -> UNION {SectorsOf(Probed(c)) : c \in NextFree}

(***************************************************************************)
(* The sectors the next step of the call reads into the window.  When they *)
(* are others than the one in it, a dirty window is written back first;    *)
(* dir_clear, sync_fs and a call that only reads always write it back.     *)
(***************************************************************************)
\* mutant: sync_fs forgets the window
Wanted_SyncForgets ==
    CASE op.pc \in {"find", "alloc", "reset", "back", "drop"} -> {op.t}
      [] op.pc \in {"find_next", "alloc_next"} -> {FatOf[op.t]}
      [] op.pc = "empty" -> {op.clst}
      [] op.pc = "empty_next" -> {FatOf[op.clst]}
      [] op.pc = "entry" -> {fil.t}
      [] op.pc \in {"free", "link"} -> {FatOf[op.clst]}
      [] op.pc = "chain" -> Searched
      [] op.pc \in {"idle", "clear"} -> {NoSector}
      [] OTHER -> {win.sect}

Wanted ==
    CASE op.pc \in {"find", "alloc", "reset", "back", "drop"} -> {op.t}
      [] op.pc \in {"find_next", "alloc_next"} -> {FatOf[op.t]}
      [] op.pc = "empty" -> {op.clst}
      [] op.pc = "empty_next" -> {FatOf[op.clst]}
      [] op.pc = "entry" -> {fil.t}
      [] op.pc \in {"free", "link"} -> {FatOf[op.clst]}
      [] op.pc = "chain" -> Searched
      [] op.pc \in {"idle", "clear", "sync"} -> {NoSector}
      [] OTHER -> {win.sect}

Ready  == win.dirty => Wanted \subseteq {win.sect}
At(pc) == op.pc = pc /\ Ready

Unknown == [kind |-> "unknown", ver |-> 0, size |-> 0]
Absent  == [kind |-> "absent", ver |-> 0, size |-> 0]
Tell(d, n, k) == known' = [known EXCEPT ![d][n] = k]

NewFat(s) == [c \in InSector(s) |-> IF c = Root THEN EndOfChain ELSE 0]
NewSector(s) ==
    CASE s \in FatSectors -> NewFat(s)
      [] s = Info -> [free |-> LastCluster - 2, last |-> Root]
      [] s = Root -> Blank
      [] OTHER -> Leftover
Formatted == [s \in Sectors |-> NewSector(s)]
Mounted(v) == [free |-> v[Info].free, last |-> v[Info].last, flag |-> FALSE, cdir |-> Root]
Loaded(v)  == [sect |-> Info, buf |-> v[Info], dirty |-> FALSE]

Init ==
    /\ disk = Formatted
    /\ win = Loaded(disk)
    /\ fs = Mounted(disk)
    /\ op = NoCall
    /\ fil = NoFile
    /\ known = [d \in Clusters |-> [n \in Names |-> IF d = Root THEN Absent ELSE Unknown]]
    /\ spent = [calls |-> 0, faults |-> 0, losses |-> 0]

(***************************************************************************)
(* The calls.                                                              *)
(***************************************************************************)
Begin(o) ==
    /\ Idle
    /\ spent.calls < MaxCalls
    /\ op' = o
    /\ spent' = [spent EXCEPT !.calls = @ + 1]
    /\ UNCHANGED <<disk, win, fs, fil, known>>

OnName(c, d, n) == [Call(c) EXCEPT !.pc = "find", !.d = d, !.n = n, !.t = d]

\* f_open to write: FA_CREATE_NEW (make_file) or FA_CREATE_ALWAYS (save_document).
Open(d, n, new) == ~fil.open /\ Begin([OnName("open", d, n) EXCEPT !.fresh = new])
Mkdir(d, n)     == ~fil.open /\ Begin(OnName("mkdir", d, n))
Unlink(d, n)    == ~fil.open /\ Begin(OnName("unlink", d, n))

\* f_chdir changes nothing on the volume.
Chdir(d) ==
    /\ Idle /\ ~fil.open
    /\ fs.cdir # d
    /\ fs' = [fs EXCEPT !.cdir = d]
    /\ UNCHANGED <<disk, win, op, fil, known, spent>>

\* save_document writes until a write fails or is short; make_file never does.
Write(k) ==
    /\ Idle /\ fil.open /\ ~fil.stop /\ ~fil.fresh
    /\ k \in 1 .. MaxSize - fil.size
    /\ op' = [Call("write") EXCEPT !.pc = "chunk", !.left = k]
    /\ UNCHANGED <<disk, win, fs, fil, known, spent>>

\* mutant: f_sync forgets what is in fp->buf
Close_NoSpill ==
    /\ Idle /\ fil.open
    /\ op' = [Call("close") EXCEPT !.pc = "entry", !.d = fil.d, !.n = fil.n]
    /\ UNCHANGED <<disk, win, fs, fil, known, spent>>

Close ==
    /\ Idle /\ fil.open
    /\ op' = [Call("close") EXCEPT !.pc = "spill", !.d = fil.d, !.n = fil.n]
    /\ UNCHANGED <<disk, win, fs, fil, known, spent>>

(***************************************************************************)
(* follow_path and dir_find: one table after the other, each followed by   *)
(* the entry of the FAT that leads to the next.  (Stopping at an end mark  *)
(* saves reads, and is left out.)                                          *)
(***************************************************************************)
Found(i) ==
    LET e == Entry(Vol, op.t, i)
        o == [op EXCEPT !.i = i, !.dcl = e.clst, !.clst = e.clst]
    IN  CASE op.call = "open" /\ ~op.fresh /\ ~e.dir -> [o EXCEPT !.pc = "reset"]
          [] op.call = "unlink" /\ ~e.dir -> [o EXCEPT !.pc = "drop"]
          [] op.call = "unlink" /\ e.dir /\ e.clst # fs.cdir -> [o EXCEPT !.pc = "empty"]
          [] OTHER -> NoCall

NotFound ==
    CASE op.call = "open"  -> [op EXCEPT !.pc = "alloc", !.t = op.d]
      [] op.call = "mkdir" -> [op EXCEPT !.pc = "chain", !.t = op.d]
      [] OTHER -> NoCall

Find ==
    /\ At("find")
    /\ Visit(op.t)
    /\ \/ \E i \in FirstOf(Vol, op.t, op.n) : op' = Found(i)
       \/ ~HasName(Vol, op.t, op.n) /\ op' = Go("find_next")
    /\ UNCHANGED <<disk, fs, fil, known, spent>>

FindNext ==
    /\ At("find_next")
    /\ Visit(FatOf[op.t])
    /\ LET nxt == Link(Vol, op.t) IN
       op' = IF nxt \in Clusters THEN [op EXCEPT !.pc = "find", !.t = nxt] ELSE NotFound
    /\ UNCHANGED <<disk, fs, fil, known, spent>>

\* f_unlink reads a directory to its end; one that is not empty stays.
IsEmpty(v, t) == \A i \in 1 .. Slots : Entry(v, t, i).name = NoName

CheckEmpty ==
    /\ At("empty")
    /\ Visit(op.clst)
    /\ op' = IF IsEmpty(Vol, op.clst)
             THEN [op EXCEPT !.pc = "empty_next", !.seen = @ \cup {op.clst}] ELSE NoCall
    /\ UNCHANGED <<disk, fs, fil, known, spent>>

CheckNext ==
    /\ At("empty_next")
    /\ Visit(FatOf[op.clst])
    /\ LET nxt == Link(Vol, op.clst) IN
       op' = IF nxt \in Clusters THEN [op EXCEPT !.pc = "empty", !.clst = nxt]
             ELSE [op EXCEPT !.pc = "drop", !.clst = op.dcl]
    /\ UNCHANGED <<disk, fs, fil, known, spent>>

(***************************************************************************)
(* Entries: dir_alloc and dir_register, dir_remove, the reset in f_open.   *)
(***************************************************************************)
Register ==
    /\ At("alloc")
    /\ \E i \in FirstOf(Vol, op.t, NoName) :
          IF op.call = "mkdir"
          THEN /\ SetEntry(op.t, i, [name |-> op.n, dir |-> TRUE, clst |-> op.dcl, size |-> 0])
               /\ op' = Go("sync")
               /\ UNCHANGED fil
          ELSE /\ SetEntry(op.t, i, [NoEntry EXCEPT !.name = op.n])
               /\ op' = NoCall
               /\ Opened(op.t, i)
    /\ Tell(op.d, op.n, Unknown)
    /\ UNCHANGED <<disk, fs, spent>>

FullTable ==
    /\ At("alloc")
    /\ ~HasName(Vol, op.t, NoName)
    /\ Visit(op.t)
    /\ op' = Go("alloc_next")
    /\ UNCHANGED <<disk, fs, fil, known, spent>>

\* dir_next, which stretches the directory at its end.
AllocNext ==
    /\ At("alloc_next")
    /\ Visit(FatOf[op.t])
    /\ LET nxt == Link(Vol, op.t) IN
       op' = IF nxt \in Clusters THEN [op EXCEPT !.pc = "alloc", !.t = nxt]
             ELSE [op EXCEPT !.pc = "chain", !.clst = op.t]
    /\ UNCHANGED <<disk, fs, fil, known, spent>>

\* mutant: the entry keeps its cluster
Reset_KeepsCluster ==
    /\ At("reset")
    /\ SetEntry(op.t, op.i, [NoEntry EXCEPT !.name = op.n, !.clst = op.clst])
    /\ IF op.clst = 0 THEN op' = NoCall /\ Opened(op.t, op.i)
                      ELSE op' = Go("free") /\ UNCHANGED fil
    /\ Tell(op.d, op.n, Unknown)
    /\ UNCHANGED <<disk, fs, spent>>

Reset ==
    /\ At("reset")
    /\ SetEntry(op.t, op.i, [NoEntry EXCEPT !.name = op.n])
    /\ IF op.clst = 0 THEN op' = NoCall /\ Opened(op.t, op.i)
                      ELSE op' = Go("free") /\ UNCHANGED fil
    /\ Tell(op.d, op.n, Unknown)
    /\ UNCHANGED <<disk, fs, spent>>

\* f_open after remove_chain: back to the entry, and the hole is used first,
\* whether or not the entry can be read again.
HoleFirst == fs' = IF op.pc = "back" THEN [fs EXCEPT !.last = op.dcl - 1] ELSE fs

Back ==
    /\ At("back")
    /\ Visit(op.t)
    /\ HoleFirst
    /\ op' = NoCall
    /\ Opened(op.t, op.i)
    /\ UNCHANGED <<disk, known, spent>>

Drop ==
    /\ At("drop")
    /\ SetEntry(op.t, op.i, NoEntry)
    /\ op' = Go(IF op.clst = 0 THEN "sync" ELSE "free")
    /\ known' = [d \in Clusters |-> [n \in Names |->
          IF (d = op.d /\ n = op.n) \/ (Entry(Vol, op.t, op.i).dir /\ d = op.clst)
          THEN Unknown ELSE known[d][n]]]
    /\ UNCHANGED <<disk, fs, fil, spent>>

(***************************************************************************)
(* remove_chain, one cluster at a time.                                    *)
(***************************************************************************)
AfterFree == CASE op.call = "open"   -> Go("back")
               [] op.call = "unlink" -> Go("sync")
               [] OTHER -> NoCall

\* mutant: the clusters are not counted
Free_NotCounted ==
    /\ At("free")
    /\ LET nxt == Link(Vol, op.clst) IN
       \/ nxt = 0 /\ Visit(FatOf[op.clst]) /\ op' = AfterFree
       \/ /\ nxt # 0
          /\ SetLink(op.clst, 0)
          /\ op' = IF nxt \in Clusters THEN [op EXCEPT !.clst = nxt] ELSE AfterFree
    /\ UNCHANGED <<disk, fs, fil, known, spent>>

Free ==
    /\ At("free")
    /\ LET nxt == Link(Vol, op.clst) IN
       \/ nxt = 0 /\ Visit(FatOf[op.clst]) /\ op' = AfterFree /\ UNCHANGED fs
       \/ /\ nxt # 0
          /\ SetLink(op.clst, 0)
          /\ fs' = IF fs.free < LastCluster - 1
                   THEN [fs EXCEPT !.free = @ + 1, !.flag = TRUE] ELSE fs
          /\ op' = IF nxt \in Clusters THEN [op EXCEPT !.clst = nxt] ELSE AfterFree
    /\ UNCHANGED <<disk, fil, known, spent>>

(***************************************************************************)
(* create_chain: mark the cluster, link it.                                *)
(***************************************************************************)
\* The caller has its cluster.
Got(c) ==
    CASE op.call = "write" ->
            /\ op' = [Go("spill") EXCEPT !.clst = c]
            /\ fil' = [fil EXCEPT !.clust = c, !.sclust = IF @ = 0 THEN c ELSE @]
      [] op.call = "mkdir" /\ op.dcl = 0 ->
            op' = [Go("clear") EXCEPT !.ncl = c, !.dcl = c] /\ UNCHANGED fil
      [] OTHER ->
            op' = [Go("clear") EXCEPT !.ncl = c] /\ UNCHANGED fil

Allocated(c) ==
    fs' = IF fs.free \in 1 .. LastCluster - 1
          THEN [fs EXCEPT !.last = c, !.free = @ - 1, !.flag = TRUE]
          ELSE [fs EXCEPT !.last = c]

Allocate ==
    /\ At("chain")
    /\ fs.free # 0
    /\ \E c \in NextFree :
          /\ SetLink(c, EndOfChain)
          /\ IF op.clst = 0
             THEN Got(c) /\ Allocated(c)
             ELSE op' = [Go("link") EXCEPT !.ncl = c] /\ UNCHANGED <<fs, fil>>
    /\ UNCHANGED <<disk, known, spent>>

LinkIt ==
    /\ At("link")
    /\ SetLink(op.clst, op.ncl)
    /\ Got(op.ncl)
    /\ Allocated(op.ncl)
    /\ UNCHANGED <<disk, known, spent>>

\* mutant: f_mkdir keeps its cluster
Undone_KeepsCluster == NoCall

\* What a call does when it gets no further: f_mkdir gives its cluster back.
Undone ==
    IF op.call = "mkdir" /\ op.dcl # 0 /\ op.pc \in {"chain", "link", "clear", "alloc", "alloc_next"}
    THEN [Go("free") EXCEPT !.clst = op.dcl]
    ELSE NoCall

\* A failed f_write is the last one, and f_close is never called again.
StopFile == fil' = CASE op.call = "write" -> [fil EXCEPT !.stop = TRUE]
                     [] op.call = "close" -> NoFile
                     [] OTHER -> fil

\* No free cluster: known from the count, or found out by reading all of the FAT.
Full ==
    /\ At("chain")
    /\ \/ /\ fs.free = 0
          /\ IF op.clst = 0 THEN UNCHANGED win
             ELSE Visit(FatOf[op.clst])
       \/ /\ fs.free # 0
          /\ NextFree = {}
          /\ \E f \in SectorsOf(Clusters) : Visit(f)
    /\ op' = Undone
    /\ StopFile
    /\ UNCHANGED <<disk, fs, known, spent>>

\* dir_clear, and the dot entries f_mkdir then puts in the window.
Clear ==
    /\ At("clear")
    /\ disk' = [disk EXCEPT ![op.ncl] = Blank]
    /\ win' = IF op.ncl = op.dcl
              THEN [sect |-> op.ncl, buf |-> [Blank EXCEPT !.dots = TRUE], dirty |-> TRUE]
              ELSE [sect |-> op.ncl, buf |-> Blank, dirty |-> FALSE]
    /\ op' = [op EXCEPT !.pc = "alloc", !.t = IF op.ncl = op.dcl THEN op.d ELSE op.ncl]
    /\ UNCHANGED <<fs, fil, known, spent>>

(***************************************************************************)
(* f_write.  Whole clusters go to the disk at once, the rest by way of     *)
(* fp->buf, which is written when the next cluster is reached.             *)
(***************************************************************************)
Least(a, b) == IF a < b THEN a ELSE b
Filled(w)   == [u \in 1 .. Units |->
                   IF u - 1 - (fil.size % Units) \in 0 .. w - 1
                   THEN <<fil.ver, fil.size - (fil.size % Units) + u>> ELSE fil.buf[u]]
ToDisk(c, data) == disk' = [disk EXCEPT ![c] = [Blank EXCEPT !.data = data]]

Chunk ==
    /\ At("chunk")
    /\ CASE op.left = 0 -> op' = NoCall /\ UNCHANGED fil
         [] op.left # 0 /\ fil.size % Units = 0 ->
               op' = [Go("chain") EXCEPT !.clst = fil.clust] /\ UNCHANGED fil
         [] OTHER ->
               LET w == Least(Units - (fil.size % Units), op.left) IN
               /\ fil' = [fil EXCEPT !.buf = Filled(w), !.dirty = TRUE, !.size = @ + w]
               /\ op' = [op EXCEPT !.left = @ - w]
    /\ UNCHANGED <<disk, win, fs, known, spent>>

\* The cluster fp->sect is in: the one before the one just allocated, if any.
Spill ==
    /\ At("spill")
    /\ IF fil.dirty
       THEN ToDisk(fil.sect, fil.buf) /\ fil' = [fil EXCEPT !.dirty = FALSE]
       ELSE UNCHANGED <<disk, fil>>
    /\ op' = Go(IF op.call = "close" THEN "entry" ELSE "data")
    /\ UNCHANGED <<win, fs, known, spent>>

\* mutant: a part of a cluster counts as a whole one
Data_WholeCluster ==
    /\ At("data")
    /\ IF op.left >= Units
       THEN /\ ToDisk(fil.clust, [u \in 1 .. Units |-> <<fil.ver, fil.size + u>>])
            /\ fil' = [fil EXCEPT !.size = @ + Units]
            /\ op' = [Go("chunk") EXCEPT !.left = @ - Units]
       ELSE /\ fil' = [fil EXCEPT !.sect = fil.clust, !.buf = Filled(op.left),
                                  !.dirty = TRUE, !.size = @ + Units]
            /\ op' = [Go("chunk") EXCEPT !.left = 0]
            /\ UNCHANGED disk
    /\ UNCHANGED <<win, fs, known, spent>>

Data ==
    /\ At("data")
    /\ IF op.left >= Units
       THEN /\ ToDisk(fil.clust, [u \in 1 .. Units |-> <<fil.ver, fil.size + u>>])
            /\ fil' = [fil EXCEPT !.size = @ + Units]
            /\ op' = [Go("chunk") EXCEPT !.left = @ - Units]
       ELSE /\ fil' = [fil EXCEPT !.sect = fil.clust, !.buf = Filled(op.left),
                                  !.dirty = TRUE, !.size = @ + op.left]
            /\ op' = [Go("chunk") EXCEPT !.left = 0]
            /\ UNCHANGED disk
    /\ UNCHANGED <<win, fs, known, spent>>

(***************************************************************************)
(* f_sync and f_close: the data, then the entry; sync_fs ends every call   *)
(* that has changed the volume.                                            *)
(***************************************************************************)
PutEntry ==
    /\ At("entry")
    /\ SetEntry(fil.t, fil.i, [name |-> fil.n, dir |-> FALSE, clst |-> fil.sclust, size |-> fil.size])
    /\ op' = Go("sync")
    /\ UNCHANGED <<disk, fs, fil, known, spent>>

PutInfo ==
    /\ At("sync")
    /\ fs.flag
    /\ LET info == [free |-> fs.free, last |-> fs.last] IN
       /\ win' = [sect |-> Info, buf |-> info, dirty |-> FALSE]
       /\ disk' = [disk EXCEPT ![Info] = info]
    /\ fs' = [fs EXCEPT !.flag = FALSE]
    /\ UNCHANGED <<op, fil, known, spent>>

Told ==
    CASE op.call = "close"  -> [kind |-> "file", ver |-> fil.ver, size |-> fil.size]
      [] op.call = "mkdir"  -> [kind |-> "dir", ver |-> op.dcl, size |-> 0]
      [] op.call = "unlink" -> Absent

\* CTRL_SYNC, and the call returns FR_OK.
Synced ==
    /\ At("sync")
    /\ ~fs.flag
    /\ op' = NoCall
    /\ fil' = IF op.call = "close" THEN NoFile ELSE fil
    /\ known' = [d \in Clusters |-> [n \in Names |->
          CASE d = op.d /\ n = op.n -> Told
            [] op.call = "mkdir" /\ d = op.dcl -> Absent
            [] OTHER -> known[d][n]]]
    /\ UNCHANGED <<disk, win, fs, spent>>

(***************************************************************************)
(* sync_window.  A call that only reads comes to it too, and so does a     *)
(* path that leads through other directories.                              *)
(***************************************************************************)
Blocked == ~Ready \/ (op.pc = "find" /\ op.t = op.d)

SyncWindow ==
    /\ win.dirty
    /\ Blocked
    /\ disk' = [disk EXCEPT ![win.sect] = win.buf]
    /\ win' = [win EXCEPT !.dirty = FALSE]
    /\ UNCHANGED <<fs, op, fil, known, spent>>

(***************************************************************************)
(* The disk fails: a write of the window, a read into it, a write of data, *)
(* of a new table or of FSInfo (whose result is not looked at), CTRL_SYNC. *)
(***************************************************************************)
CanFail == spent.faults + spent.losses < Mishaps

GiveUp == op' = Undone /\ StopFile

FlushFails == win.dirty /\ Blocked /\ UNCHANGED win /\ HoleFirst /\ GiveUp

ReadFails ==
    /\ ~win.dirty
    /\ op.pc \notin {"idle", "clear", "sync"}
    /\ ~(Wanted \subseteq {win.sect})
    /\ win' = [win EXCEPT !.sect = NoSector]
    /\ HoleFirst
    /\ GiveUp

DataFails ==
    /\ \/ At("spill") /\ fil.dirty
       \/ At("data") /\ op.left >= Units
    /\ UNCHANGED <<win, fs>>
    /\ GiveUp

ClearFails ==
    /\ At("clear")
    /\ win' = [sect |-> op.ncl, buf |-> Blank, dirty |-> FALSE]
    /\ UNCHANGED fs
    /\ GiveUp

InfoFails ==
    /\ At("sync") /\ fs.flag
    /\ win' = [sect |-> Info, buf |-> [free |-> fs.free, last |-> fs.last], dirty |-> FALSE]
    /\ fs' = [fs EXCEPT !.flag = FALSE]
    /\ UNCHANGED <<op, fil>>

SyncFails == At("sync") /\ ~fs.flag /\ UNCHANGED <<win, fs>> /\ GiveUp

DiskFault ==
    /\ CanFail
    /\ spent' = [spent EXCEPT !.faults = @ + 1]
    /\ FlushFails \/ ReadFails \/ DataFails \/ ClearFails \/ InfoFails \/ SyncFails
    /\ UNCHANGED <<disk, known>>

\* The power goes; MyDOS starts again and mounts the volume.
PowerLoss ==
    /\ CanFail
    /\ spent' = [spent EXCEPT !.losses = @ + 1]
    /\ win' = Loaded(disk)
    /\ fs' = Mounted(disk)
    /\ op' = NoCall
    /\ fil' = NoFile
    /\ UNCHANGED <<disk, known>>

(***************************************************************************)
(* The specification.                                                      *)
(***************************************************************************)
CallStep ==
    \/ Find \/ FindNext \/ CheckEmpty \/ CheckNext
    \/ Register \/ FullTable \/ AllocNext \/ Reset \/ Back \/ Drop
    \/ Free \/ Allocate \/ LinkIt \/ Full \/ Clear
    \/ Chunk \/ Spill \/ Data \/ PutEntry \/ PutInfo \/ Synced
    \/ (~Idle /\ SyncWindow)

User ==
    \/ \E d \in Directories(Vol), n \in Names :
          \/ \E new \in BOOLEAN : Open(d, n, new)
          \/ Mkdir(d, n)
          \/ Unlink(d, n)
    \/ \E d \in Directories(Vol) : Chdir(d)
    \/ \E k \in 1 .. MaxSize : Write(k)
    \/ Close
    \/ (Idle /\ SyncWindow)

Next == CallStep \/ User \/ DiskFault \/ PowerLoss

Spec == Init /\ [][Next]_vars

=============================================================================
