----------------------------- MODULE FatProofs -----------------------------
(***************************************************************************)
(* NoCrossLink, TypeOK, FreeCount, NotMixed and NoLostCluster for any      *)
(* number of clusters, sectors of the FAT, entries and calls, and for      *)
(* faults and power losses without limit, when the free clusters of a new  *)
(* volume hold no entries that name clusters.                              *)
(*                                                                         *)
(* The first part is NoCrossLink.  Its invariant, IInv, speaks of Views,   *)
(* the volumes FatFs may see once the window has moved: the one it sees    *)
(* now, and the disk unless the window is dirty.  A step changes one link  *)
(* or one entry of one of them.  The second part, CInv, is the shape of    *)
(* what clusters hold, and the count of those that are free.  The third,   *)
(* DInv, is what files hold.  The fourth, EInv, is how each cluster that   *)
(* is not free is reached while nothing has failed.                        *)
(***************************************************************************)
EXTENDS FatChecks, FiniteSetTheorems, WellFoundedInduction, NaturalsInduction, TLAPS

Clean == \A i \in 1 .. Slots : Leftover.ent[i].clst = 0

Head(v, t, i) == Entry(v, t, i).clst

(***************************************************************************)
(* Soundness of a volume, of every entry in any cluster.                   *)
(***************************************************************************)
LinksOK(v) ==
    \A c \in Clusters : Link(v, c) \in Clusters =>
        /\ Link(v, c) # Root
        /\ Link(v, Link(v, c)) # 0
        /\ \A x \in Clusters : Link(v, x) = Link(v, c) => x = c

HeadsOK(v) ==
    \A t \in Clusters, i \in 1 .. Slots : Head(v, t, i) # 0 =>
        /\ Head(v, t, i) \in Clusters \ {Root}
        /\ Link(v, Head(v, t, i)) # 0
        /\ \A x \in Clusters : Link(v, x) # Head(v, t, i)
        /\ \A s \in Clusters, j \in 1 .. Slots :
              Head(v, s, j) = Head(v, t, i) => s = t /\ j = i

GSound(v) == Link(v, Root) # 0 /\ LinksOK(v) /\ HeadsOK(v)

\* Nothing refers to c, which may be given away; and it is not free.
Loose(v, c) ==
    /\ c \in Clusters \ {Root}
    /\ \A x \in Clusters : Link(v, x) # c
    /\ \A t \in Clusters, i \in 1 .. Slots : Head(v, t, i) # c
Fresh(v, c) == Loose(v, c) /\ Link(v, c) # 0

LEMMA ClusterFacts == Root \in Clusters /\ 0 \notin Clusters /\ EndOfChain \notin Clusters \cup {0}
  BY FatAssumption DEF Root, Clusters

LEMMA GSoundIsSound == ASSUME NEW v, GSound(v) PROVE Sound(v)
<1>1. LinksSound(v)
  BY DEF GSound, LinksOK, LinksSound
<1>2. HeadsSound(v)
  <2>1. \A d : Chain(v, d) \subseteq Clusters
    BY DEF Chain
  <2>2. Tables(v) \subseteq Clusters
    BY <2>1 DEF Tables
  <2> HIDE DEF Tables
  <2>3. \A p \in Heads(v) : /\ p[1] \in Clusters /\ p[2] \in 1 .. Slots
                            /\ p = <<p[1], p[2]>>
                            /\ HeadOf(v, p) = Head(v, p[1], p[2]) /\ HeadOf(v, p) # 0
    BY <2>2 DEF Heads, HeadOf, Head
  <2> SUFFICES ASSUME NEW p \in Heads(v)
               PROVE  /\ HeadOf(v, p) # Root
                      /\ Link(v, HeadOf(v, p)) # 0
                      /\ \A x \in Clusters : Link(v, x) # HeadOf(v, p)
                      /\ \A q \in Heads(v) : HeadOf(v, q) = HeadOf(v, p) => q = p
    BY DEF HeadsSound
  <2>4. /\ HeadOf(v, p) # Root
        /\ Link(v, HeadOf(v, p)) # 0
        /\ \A x \in Clusters : Link(v, x) # HeadOf(v, p)
    BY <2>3 DEF GSound, HeadsOK
  <2>5. ASSUME NEW q \in Heads(v), HeadOf(v, q) = HeadOf(v, p) PROVE q = p
    <3>1. q[1] = p[1] /\ q[2] = p[2]
      BY <2>3, <2>5 DEF GSound, HeadsOK
    <3> QED
      BY <2>3, <3>1
  <2> QED
    BY <2>4, <2>5
<1> QED
  BY <1>1, <1>2 DEF Sound, GSound

(***************************************************************************)
(* What a change of one link or one entry does to a volume.                *)
(***************************************************************************)
SameLinks(v, w) == \A c \in Clusters : Link(w, c) = Link(v, c)
SameHeads(v, w) == \A t \in Clusters, i \in 1 .. Slots : Head(w, t, i) = Head(v, t, i)
Erased(v, w) ==
    SameLinks(v, w) /\ \A t \in Clusters, i \in 1 .. Slots : Head(w, t, i) \in {Head(v, t, i), 0}
LinkIs(v, w, c, x) ==
    /\ \A y \in Clusters : Link(w, y) = IF y = c THEN x ELSE Link(v, y)
    /\ SameHeads(v, w)
HeadIs(v, w, t, i, x) ==
    /\ SameLinks(v, w)
    /\ \A s \in Clusters, j \in 1 .. Slots :
          Head(w, s, j) = IF s = t /\ j = i THEN x ELSE Head(v, s, j)

\* Entries that name nothing any more.
LEMMA Erase ==
    ASSUME NEW v, NEW w, Erased(v, w)
    PROVE  /\ GSound(v) => GSound(w)
           /\ \A c : Loose(v, c) => Loose(w, c)
           /\ \A c : Fresh(v, c) => Fresh(w, c)
<1>1. SameLinks(v, w)
  BY DEF Erased
<1>2. \A t \in Clusters, i \in 1 .. Slots : Head(w, t, i) # 0 => Head(w, t, i) = Head(v, t, i)
  BY DEF Erased
<1>3. ASSUME GSound(v) PROVE GSound(w)
  <2>1. Link(w, Root) # 0
    BY <1>1, <1>3, ClusterFacts DEF GSound, SameLinks
  <2>2. LinksOK(w)
    BY <1>1, <1>3 DEF GSound, LinksOK, SameLinks
  <2>3. HeadsOK(w)
    BY <1>1, <1>2, <1>3 DEF GSound, HeadsOK, SameLinks
  <2> QED
    BY <2>1, <2>2, <2>3 DEF GSound
<1>4. ASSUME NEW c, Loose(v, c) PROVE Loose(w, c)
  BY <1>1, <1>2, <1>4, ClusterFacts DEF Loose, SameLinks
<1>5. ASSUME NEW c, Fresh(v, c) PROVE Fresh(w, c)
  BY <1>1, <1>4, <1>5 DEF Fresh, Loose, SameLinks
<1> QED
  BY <1>3, <1>4, <1>5

\* A free cluster is marked: create_chain.
LEMMA Mark ==
    ASSUME NEW v, NEW w, NEW c \in Clusters, GSound(v), Link(v, c) = 0,
           LinkIs(v, w, c, EndOfChain)
    PROVE  /\ GSound(w) /\ Fresh(w, c)
           /\ \A d : Fresh(v, d) => Fresh(w, d) /\ d # c
           /\ \A d : Loose(v, d) => Loose(w, d)
<1>1. c # Root /\ EndOfChain # 0 /\ EndOfChain \notin Clusters
  BY ClusterFacts DEF GSound
<1>2. Loose(v, c)
  BY <1>1 DEF GSound, LinksOK, HeadsOK, Loose
<1>3. LinksOK(w)
  BY <1>1 DEF GSound, LinksOK, LinkIs
<1>4. HeadsOK(w)
  BY <1>1 DEF GSound, HeadsOK, LinkIs, SameHeads
<1>5. ASSUME NEW d, Loose(v, d) PROVE Loose(w, d)
  BY <1>1, <1>5 DEF Loose, LinkIs, SameHeads
<1>6. Fresh(w, c)
  BY <1>1, <1>2, <1>5 DEF Fresh, LinkIs
<1>7. ASSUME NEW d, Fresh(v, d) PROVE Fresh(w, d) /\ d # c
  BY <1>5, <1>7 DEF Fresh, Loose, LinkIs
<1> QED
  BY <1>1, <1>3, <1>4, <1>5, <1>6, <1>7, ClusterFacts DEF GSound, LinkIs

\* A fresh cluster is linked to a chain.
LEMMA LinkTo ==
    ASSUME NEW v, NEW w, NEW c \in Clusters, NEW n, GSound(v), Fresh(v, n), LinkIs(v, w, c, n)
    PROVE  /\ GSound(w)
           /\ \A d : Fresh(v, d) /\ d # n => Fresh(w, d)
<1>1. n \in Clusters \ {Root, 0}
  BY ClusterFacts DEF Fresh, Loose
<1>2. LinksOK(w)
  BY <1>1 DEF GSound, LinksOK, LinkIs, Fresh, Loose
<1>3. HeadsOK(w)
  BY <1>1 DEF GSound, HeadsOK, LinkIs, SameHeads, Fresh, Loose
<1>4. ASSUME NEW d, Fresh(v, d), d # n PROVE Fresh(w, d)
  BY <1>1, <1>4 DEF Fresh, Loose, LinkIs, SameHeads
<1> QED
  BY <1>1, <1>2, <1>3, <1>4, ClusterFacts DEF GSound, LinkIs

\* A cluster nothing refers to is freed: remove_chain.
LEMMA Unlinked ==
    ASSUME NEW v, NEW w, NEW c, GSound(v), Loose(v, c), LinkIs(v, w, c, 0)
    PROVE  /\ GSound(w)
           /\ Link(v, c) \in Clusters => Loose(w, Link(v, c))
<1>1. c \in Clusters \ {Root} /\ 0 \notin Clusters
  BY ClusterFacts DEF Loose
<1>2. LinksOK(w)
  BY <1>1 DEF GSound, LinksOK, LinkIs, Loose
<1>3. HeadsOK(w)
  BY <1>1 DEF GSound, HeadsOK, LinkIs, SameHeads, Loose
<1>4. ASSUME Link(v, c) \in Clusters PROVE Loose(w, Link(v, c))
  <2>1. Link(v, c) # Root /\ \A x \in Clusters : Link(v, x) = Link(v, c) => x = c
    BY <1>1, <1>4 DEF GSound, LinksOK
  <2>2. \A x \in Clusters : Link(w, x) # Link(v, c)
    BY <1>1, <1>4, <2>1 DEF LinkIs
  <2>3. \A t \in Clusters, i \in 1 .. Slots : Head(w, t, i) # Link(v, c)
    BY <1>1, <1>4 DEF GSound, HeadsOK, LinkIs, SameHeads
  <2> QED
    BY <1>4, <2>1, <2>2, <2>3 DEF Loose
<1> QED
  BY <1>1, <1>2, <1>3, <1>4, ClusterFacts DEF GSound, LinkIs

\* An entry is made for a fresh cluster.
LEMMA Named ==
    ASSUME NEW v, NEW w, NEW t \in Clusters, NEW i \in 1 .. Slots, NEW n,
           GSound(v), n # 0 => Fresh(v, n), HeadIs(v, w, t, i, n)
    PROVE  GSound(w)
<1>1. LinksOK(w) /\ Link(w, Root) # 0
  BY ClusterFacts DEF GSound, LinksOK, HeadIs, SameLinks
<1>2. HeadsOK(w)
  BY DEF GSound, HeadsOK, HeadIs, SameLinks, Fresh, Loose
<1> QED
  BY <1>1, <1>2 DEF GSound

\* An entry is taken away: its cluster is nobody's.
LEMMA Unnamed ==
    ASSUME NEW v, NEW w, NEW t \in Clusters, NEW i \in 1 .. Slots,
           GSound(v), HeadIs(v, w, t, i, 0)
    PROVE  /\ GSound(w)
           /\ Head(v, t, i) # 0 => Loose(w, Head(v, t, i))
<1>1. Erased(v, w)
  BY DEF HeadIs, Erased
<1>2. ASSUME Head(v, t, i) # 0 PROVE Loose(w, Head(v, t, i))
  BY <1>2 DEF GSound, HeadsOK, HeadIs, SameLinks, Loose
<1> QED
  BY <1>1, <1>2, Erase

(***************************************************************************)
(* The invariant.                                                          *)
(***************************************************************************)
EntryOK(e) == e.clst \in Clusters \cup {0} /\ (e.dir => e.clst # 0)

\* The sectors of a volume have the shape of what they are for.
Table(b) ==
    /\ b \in [ent : {b.ent}, data : {b.data}, dots : {b.dots}]
    /\ b.ent = [i \in 1 .. Slots |-> b.ent[i]]
    /\ \A i \in 1 .. Slots : EntryOK(b.ent[i])
Shaped(v) ==
    /\ v = [s \in Sectors |-> v[s]]
    /\ \A f \in FatSectors : v[f] \in [InSector(f) -> Links]
    /\ \A c \in Clusters : Table(v[c])

OpType == [call : {"none", "open", "mkdir", "unlink", "write", "close"}, pc : {op.pc}, d : Clusters,
           n : Names \cup {NoName}, fresh : BOOLEAN, t : Clusters, i : 1 .. Slots,
           clst : Clusters \cup {0}, ncl : Clusters \cup {0}, dcl : Clusters \cup {0},
           left : Nat, seen : {op.seen}]
FilType == [open : BOOLEAN, fresh : BOOLEAN, stop : BOOLEAN, d : Clusters,
            n : Names \cup {NoName}, t : Clusters, i : 1 .. Slots, ver : {fil.ver},
            sclust : Clusters \cup {0}, clust : Clusters \cup {0}, sect : Clusters \cup {0},
            size : Nat, buf : {fil.buf}, dirty : BOOLEAN]

WinInv ==
    /\ win \in [sect : Sectors \cup {NoSector}, buf : {win.buf}, dirty : BOOLEAN]
    /\ win.dirty => win.sect \in FatSectors \cup Clusters
    /\ Shaped(disk) /\ Shaped(Vol)

\* Where each call can be.
Places ==
    /\ op.pc \in {"idle", "find", "find_next", "empty", "empty_next", "alloc", "alloc_next", "reset",
                  "back", "drop", "free", "chain", "link", "clear", "chunk", "spill", "data",
                  "entry", "sync"}
    /\ op.pc \in {"chunk", "data"} => op.call = "write"
    /\ op.pc = "spill" => op.call \in {"write", "close"}
    /\ op.pc = "entry" => op.call = "close"
    /\ op.pc = "sync" => op.call \in {"mkdir", "unlink", "close"}
    /\ op.pc \in {"chain", "link"} => op.call \in {"open", "mkdir", "write"}
    /\ op.pc \in {"alloc", "alloc_next", "clear"} => op.call \in {"open", "mkdir"}
    /\ op.pc \in {"find", "find_next", "empty", "empty_next", "reset", "back", "drop", "free"} =>
          op.call \in {"open", "mkdir", "unlink"}
    /\ op.pc \in {"empty", "empty_next", "drop"} => op.call = "unlink"
    /\ op.pc = "idle" <=> op.call = "none"
    /\ op.pc \in {"find", "find_next"} => op.n \in Names /\ op.dcl = 0 /\ op.clst = 0
    /\ op.pc \in {"empty", "empty_next", "link", "free"} => op.clst # 0
    /\ op.pc = "clear" => op.ncl # 0

\* A new directory has its cluster before room is made for its entry.
MkdirInv ==
    op.call = "mkdir" =>
        /\ op.pc \in {"alloc", "alloc_next", "link", "clear"} => op.dcl # 0
        /\ op.pc = "chain" /\ op.clst # 0 => op.dcl # 0

\* The open file.  Only f_write and f_close run while there is one.
FilOK ==
    /\ fil \in FilType
    /\ ~fil.open => fil.sclust = 0 /\ ~fil.dirty
    /\ fil.clust = 0 <=> fil.sclust = 0
    /\ fil.dirty => fil.sect # 0
    /\ fil.sect # 0 => fil.sclust # 0
    /\ fil.size % Units # 0 => fil.sect # 0
FileInv ==
    /\ op.call \in {"open", "mkdir", "unlink"} => ~fil.open
    /\ op.call \in {"write", "close"} => fil.open
    /\ op.call = "write" /\ op.pc = "chain" => op.clst = fil.clust
    /\ op.call = "write" /\ op.pc \in {"link", "spill", "data"} => fil.sclust # 0

Control == op \in OpType /\ Places /\ MkdirInv /\ FilOK /\ FileInv

\* The first cluster of the open file is in no entry yet.
Unentered == fil.sclust # 0 /\ ~(op.call = "close" /\ op.pc = "sync")

Views == {Vol} \cup (IF win.dirty THEN {} ELSE {disk})

\* What the call that runs knows of a view.
Facts(v) ==
    /\ op.pc \in {"reset", "drop"} => Head(v, op.t, op.i) = op.clst
    /\ op.pc \in {"empty", "empty_next"} => Head(v, op.t, op.i) = op.dcl
    /\ op.pc = "free" => Loose(v, op.clst)
    /\ (op.call = "mkdir" /\ op.dcl # 0
            /\ op.pc \in {"alloc", "alloc_next", "chain", "link", "clear"}) => Fresh(v, op.dcl)
    /\ op.pc = "link" => /\ Fresh(v, op.ncl)
                         /\ op.ncl # fil.sclust
                         /\ op.call = "mkdir" => op.ncl # op.dcl
    /\ Unentered => Fresh(v, fil.sclust)

\* An entry in the window is the one on the disk, unless the window is dirty;
\* no table is in it once the file has clusters, which go to the disk past it.
WindowInv ==
    /\ \A v \in Views, t \in Clusters, i \in 1 .. Slots :
          Entry(Vol, t, i).name # NoName => Head(v, t, i) = Head(Vol, t, i)
    /\ Unentered => win.sect \notin Clusters

IInv ==
    /\ WinInv /\ Control /\ WindowInv
    /\ GSound(disk)
    /\ \A v \in Views : GSound(v) /\ Facts(v)

(***************************************************************************)
(* The window.                                                             *)
(***************************************************************************)
LEMMA SectorFacts ==
    /\ \A c \in Clusters : FatOf[c] \in FatSectors /\ c \in InSector(FatOf[c]) /\ c \in Sectors
    /\ FatSectors \subseteq Sectors /\ FatSectors \cap Clusters = {}
    /\ NoSector \notin Sectors /\ Info \in Sectors /\ Info \notin FatSectors \cup Clusters
    /\ 0 \in Links /\ EndOfChain \in Links /\ Clusters \subseteq Links
  BY FatAssumption DEF Sectors, InSector, Links

\* A volume of which one sector is overwritten by b.
Over(v, s, b) == [x \in Sectors |-> IF x = s THEN b ELSE v[x]]

LEMMA VolIsOver == WinInv => /\ Vol = Over(disk, win.sect, win.buf)
                             /\ disk = [s \in Sectors |-> disk[s]]
  BY DEF WinInv, Vol, Over, Shaped

\* A sector is wanted: either the window is there, or it is not dirty.
Movable(s) == win.dirty => win.sect = s

LEMMA VisitKeeps ==
    ASSUME WinInv, NEW s \in Sectors, Movable(s), Visit(s), disk' = disk
    PROVE  /\ WinInv' /\ Views' \subseteq Views
           /\ Vol'[s] = Vol[s] /\ win'.sect = s
           /\ (win.sect = s /\ Vol' = Vol) \/ (~win.dirty /\ Vol' = disk)
<1>1. win' = [sect |-> s, buf |-> Vol[s], dirty |-> win.dirty /\ win.sect = s]
  BY DEF Visit
<1>2. Vol' = Over(disk, s, Vol[s])
  BY <1>1 DEF Vol, Over
<1>3. CASE win.sect = s
  <2>1. Vol' = Vol
    BY <1>2, <1>3 DEF Vol, Over
  <2>2. win'.dirty = win.dirty /\ win'.sect = win.sect
    BY <1>1, <1>3 DEF WinInv
  <2>3. WinInv'
    BY <1>1, <2>1, <2>2 DEF WinInv
  <2> QED
    BY <1>3, <2>1, <2>2, <2>3 DEF Views
<1>4. CASE win.sect # s
  <2>1. ~win.dirty /\ win'.dirty = FALSE /\ win'.sect = s
    BY <1>1, <1>4 DEF Movable
  <2>2. Vol[s] = disk[s]
    BY <1>4 DEF Vol
  <2>3. Vol' = disk
    BY <1>2, <2>2, VolIsOver DEF Over
  <2>4. WinInv'
    BY <1>1, <2>1, <2>3 DEF WinInv
  <2>5. Views' \subseteq Views
    BY <2>1, <2>3 DEF Views
  <2> QED
    BY <2>1, <2>2, <2>3, <2>4, <2>5
<1> QED
  BY <1>3, <1>4

\* The view a change is made in.
Base(s) == IF win.sect = s THEN Vol ELSE disk

LEMMA EditGives ==
    ASSUME WinInv, NEW s \in FatSectors \cup Clusters, Movable(s), NEW b, Edit(s, b), disk' = disk,
           Shaped(Over(Base(s), s, b))
    PROVE  /\ WinInv' /\ Views' = {Vol'} /\ win'.sect = s
           /\ Base(s) \in Views /\ Base(s)[s] = Vol[s]
           /\ Vol' = Over(Base(s), s, b)
<1>1. win' = [sect |-> s, buf |-> b, dirty |-> TRUE]
  BY DEF Edit
<1>2. s \in Sectors
  BY SectorFacts
<1>3. Vol' = Over(disk, s, b)
  BY <1>1 DEF Vol, Over
<1>4. Over(Base(s), s, b) = Over(disk, s, b)
  BY DEF Over, Base, Vol
<1>5. Base(s) \in Views
  BY DEF Base, Views, Movable
<1>6. Base(s)[s] = Vol[s]
  BY <1>2 DEF Base, Vol
<1>7. WinInv'
  BY <1>1, <1>2, <1>3, <1>4 DEF WinInv
<1>8. Views' = {Vol'}
  BY <1>1 DEF Views
<1> QED
  BY <1>1, <1>3, <1>4, <1>5, <1>6, <1>7, <1>8

LEMMA LinkEdit ==
    ASSUME NEW v, Shaped(v), NEW c \in Clusters, NEW x \in Links,
           NEW w, w = Over(v, FatOf[c], [v[FatOf[c]] EXCEPT ![c] = x])
    PROVE  Shaped(w) /\ LinkIs(v, w, c, x)
<1> DEFINE f == FatOf[c]
<1>1. f \in FatSectors /\ c \in InSector(f) /\ f \notin Clusters /\ f \in Sectors
  BY SectorFacts
<1>2. v[f] \in [InSector(f) -> Links]
  BY <1>1 DEF Shaped
<1>3. w[f] \in [InSector(f) -> Links] /\ \A y \in InSector(f) : w[f][y] = IF y = c THEN x ELSE v[f][y]
  BY <1>1, <1>2 DEF Over
<1>4. \A s \in Sectors : s # f => w[s] = v[s]
  BY DEF Over
<1>5. w = [s \in Sectors |-> w[s]]
  BY DEF Over
<1> HIDE DEF f
<1>6. Shaped(w)
  <2>1. \A g \in FatSectors : w[g] \in [InSector(g) -> Links]
    BY <1>3, <1>4, SectorFacts DEF Shaped
  <2>2. \A d \in Clusters : Table(w[d])
    BY <1>1, <1>4, SectorFacts DEF Shaped
  <2> QED
    BY <1>5, <2>1, <2>2 DEF Shaped
<1>7. \A y \in Clusters : Link(w, y) = IF y = c THEN x ELSE Link(v, y)
  <2> SUFFICES ASSUME NEW y \in Clusters PROVE Link(w, y) = IF y = c THEN x ELSE Link(v, y)
    OBVIOUS
  <2>1. CASE FatOf[y] = f
    <3>1. y \in InSector(f)
      BY <2>1 DEF InSector
    <3> QED
      BY <1>3, <2>1, <3>1 DEF Link
  <2>2. CASE FatOf[y] # f
    <3>1. w[FatOf[y]] = v[FatOf[y]] /\ y # c
      BY <1>4, <2>2, SectorFacts DEF f
    <3> QED
      BY <3>1 DEF Link
  <2> QED
    BY <2>1, <2>2
<1>8. SameHeads(v, w)
  BY <1>1, <1>4, SectorFacts DEF SameHeads, Head, Entry
<1> QED
  BY <1>6, <1>7, <1>8 DEF LinkIs

LEMMA EntryEdit ==
    ASSUME NEW v, Shaped(v), NEW t \in Clusters, NEW i \in 1 .. Slots, NEW e, EntryOK(e),
           NEW w, w = Over(v, t, [v[t] EXCEPT !.ent[i] = e])
    PROVE  /\ Shaped(w) /\ HeadIs(v, w, t, i, e.clst)
           /\ \A s \in Clusters, j \in 1 .. Slots :
                 Entry(w, s, j) = IF s = t /\ j = i THEN e ELSE Entry(v, s, j)
<1>1. t \in Sectors /\ t \notin FatSectors
  BY SectorFacts
<1>2. Table(v[t])
  BY DEF Shaped
<1>3. w[t] = [v[t] EXCEPT !.ent[i] = e]
  BY <1>1 DEF Over
<1>4. /\ w[t] \in [ent : {w[t].ent}, data : {w[t].data}, dots : {w[t].dots}]
      /\ w[t].ent = [v[t].ent EXCEPT ![i] = e]
  BY <1>2, <1>3 DEF Table
<1>5. \A j \in 1 .. Slots : w[t].ent[j] = IF j = i THEN e ELSE v[t].ent[j]
  BY <1>2, <1>4 DEF Table
<1>6. w[t].ent = [j \in 1 .. Slots |-> w[t].ent[j]]
  BY <1>2, <1>4 DEF Table
<1>7. Table(w[t])
  BY <1>2, <1>4, <1>5, <1>6 DEF Table
<1>8. \A s \in Sectors : s # t => w[s] = v[s]
  BY DEF Over
<1>9. w = [s \in Sectors |-> w[s]]
  BY DEF Over
<1>10. Shaped(w)
  <2>1. \A g \in FatSectors : w[g] \in [InSector(g) -> Links]
    BY <1>1, <1>8, SectorFacts DEF Shaped
  <2>2. \A d \in Clusters : Table(w[d])
    BY <1>7, <1>8, SectorFacts DEF Shaped
  <2> QED
    BY <1>9, <2>1, <2>2 DEF Shaped
<1>11. \A s \in Clusters, j \in 1 .. Slots :
          Entry(w, s, j) = IF s = t /\ j = i THEN e ELSE Entry(v, s, j)
  BY <1>5, <1>8, SectorFacts DEF Entry
<1>12. SameLinks(v, w)
  BY <1>1, <1>8, SectorFacts DEF SameLinks, Link
<1> QED
  BY <1>10, <1>11, <1>12 DEF HeadIs, Head

LEMMA WantedIs ==
    /\ op.pc \in {"find", "alloc", "reset", "back", "drop"} => Wanted = {op.t}
    /\ op.pc \in {"find_next", "alloc_next"} => Wanted = {FatOf[op.t]}
    /\ op.pc = "empty" => Wanted = {op.clst}
    /\ op.pc \in {"free", "link", "empty_next"} => Wanted = {FatOf[op.clst]}
    /\ op.pc = "entry" => Wanted = {fil.t}
    /\ op.pc = "chain" => Wanted = Searched
    /\ op.pc \in {"idle", "clear", "sync"} => Wanted = {NoSector}
  BY DEF Wanted

\* No sector of the volume is wanted: the window is clean.
LEMMA CleanWindow ==
    ASSUME WinInv, Ready, Wanted = {NoSector}
    PROVE  ~win.dirty /\ disk \in Views
<1>1. win.dirty => win.sect \in Sectors
  BY DEF WinInv, Sectors
<1>2. ~win.dirty
  BY <1>1, SectorFacts DEF Ready
<1> QED
  BY <1>2 DEF Views

\* A step that moves the window.
LEMMA Moved ==
    ASSUME IInv, WinInv', Control', Views' \subseteq Views, Vol' = Vol \/ Views' = {Vol'},
           disk' = disk \/ disk' \in Views,
           \A v \in Views' : Facts(v)',
           Unentered' => win'.sect \notin Clusters
    PROVE  IInv'
<1>1. \A v \in Views' : GSound(v)
  BY DEF IInv
<1>2. GSound(disk')
  BY DEF IInv
<1>3. ASSUME NEW v \in Views', NEW t \in Clusters, NEW i \in 1 .. Slots, Entry(Vol', t, i).name # NoName
      PROVE  Head(v, t, i) = Head(Vol', t, i)
  BY <1>3 DEF IInv, WindowInv
<1>4. WindowInv'
  BY <1>3 DEF WindowInv
<1> QED
  BY <1>1, <1>2, <1>4 DEF IInv

\* A step that changes what is in the window.
LEMMA Changed ==
    ASSUME WinInv', Control', Views' = {Vol'}, GSound(disk'), GSound(Vol'),
           \A v \in Views' : Facts(v)',
           Unentered' => win'.sect \notin Clusters
    PROVE  IInv'
<1>1. WindowInv'
  BY DEF WindowInv
<1> QED
  BY <1>1 DEF IInv

LEMMA Linked ==
    ASSUME IInv, NEW c \in Clusters, NEW x \in Links, SetLink(c, x), Movable(FatOf[c]), disk' = disk
    PROVE  /\ WinInv' /\ Views' = {Vol'} /\ win'.sect \notin Clusters /\ GSound(disk')
           /\ \E v \in Views : /\ GSound(v) /\ Facts(v)
                               /\ LinkIs(v, Vol', c, x) /\ Link(v, c) = Link(Vol, c)
<1> DEFINE s == FatOf[c]
           v == Base(s)
           b == [Vol[s] EXCEPT ![c] = x]
<1>1. s \in FatSectors /\ s \in Sectors /\ s \notin Clusters
  BY SectorFacts
<1>2. Edit(s, b)
  BY DEF SetLink
<1>3. Shaped(v)
  BY DEF IInv, WinInv, Base
<1>4. v[s] = Vol[s]
  BY <1>1 DEF Base, Vol
<1> HIDE DEF v
<1>5. Shaped(Over(v, s, b)) /\ LinkIs(v, Over(v, s, b), c, x)
  BY <1>3, <1>4, LinkEdit
<1> HIDE DEF b, s
<1>6. WinInv' /\ Views' = {Vol'} /\ win'.sect = s /\ v \in Views /\ Vol' = Over(v, s, b)
  BY <1>1, <1>2, <1>5, EditGives DEF v, IInv, s
<1>7. Link(v, c) = Link(Vol, c)
  BY <1>4 DEF Link, s
<1>8. GSound(v) /\ Facts(v)
  BY <1>6 DEF IInv
<1> QED
  BY <1>1, <1>5, <1>6, <1>7, <1>8 DEF IInv

LEMMA Entered ==
    ASSUME IInv, NEW t \in Clusters, NEW i \in 1 .. Slots, NEW e, EntryOK(e),
           SetEntry(t, i, e), Movable(t), disk' = disk
    PROVE  /\ WinInv' /\ Views' = {Vol'} /\ GSound(disk')
           /\ \E v \in Views : /\ GSound(v) /\ Facts(v)
                               /\ HeadIs(v, Vol', t, i, e.clst)
<1> DEFINE v == Base(t)
           b == [Vol[t] EXCEPT !.ent[i] = e]
<1>1. t \in Sectors
  BY SectorFacts
<1>2. Edit(t, b)
  BY DEF SetEntry
<1>3. Shaped(v)
  BY DEF IInv, WinInv, Base
<1>4. v[t] = Vol[t]
  BY <1>1 DEF Base, Vol
<1> HIDE DEF v
<1>5. Shaped(Over(v, t, b)) /\ HeadIs(v, Over(v, t, b), t, i, e.clst)
  BY <1>3, <1>4, EntryEdit
<1> HIDE DEF b
<1>6. WinInv' /\ Views' = {Vol'} /\ win'.sect = t /\ v \in Views /\ Vol' = Over(v, t, b)
  BY <1>1, <1>2, <1>5, EditGives DEF v, IInv
<1>7. GSound(v) /\ Facts(v)
  BY <1>6 DEF IInv
<1> QED
  BY <1>1, <1>5, <1>6, <1>7 DEF IInv

LEMMA EntriesOK ==
    ASSUME NEW v, Shaped(v), NEW t \in Clusters, NEW i \in 1 .. Slots
    PROVE  EntryOK(Entry(v, t, i))
  BY DEF Shaped, Table, Entry

LEMMA Visited ==
    ASSUME IInv, NEW s \in Sectors, Ready, Wanted = {s} \/ Movable(s), Visit(s), disk' = disk
    PROVE  /\ WinInv' /\ Views' \subseteq Views /\ (Vol' = Vol \/ Views' = {Vol'})
           /\ Vol'[s] = Vol[s] /\ win'.sect = s
<1>1. Movable(s)
  BY DEF Ready, Movable
<1>2. /\ WinInv' /\ Views' \subseteq Views
      /\ Vol'[s] = Vol[s] /\ win'.sect = s
      /\ (win.sect = s /\ Vol' = Vol) \/ (~win.dirty /\ Vol' = disk)
  BY <1>1, VisitKeeps DEF IInv
<1>3. Vol' = disk => Views' = {Vol'}
  BY DEF Views
<1> QED
  BY <1>2, <1>3

(***************************************************************************)
(* The end of a call.                                                      *)
(***************************************************************************)
LEMMA NoCallIs ==
    /\ NoCall.call = "none" /\ NoCall.pc = "idle" /\ NoCall.dcl = 0
    /\ NoCall \in [call : {"none", "open", "mkdir", "unlink", "write", "close"}, pc : {"idle"},
                   d : Clusters, n : Names \cup {NoName}, fresh : BOOLEAN, t : Clusters,
                   i : 1 .. Slots, clst : Clusters \cup {0}, ncl : Clusters \cup {0},
                   dcl : Clusters \cup {0}, left : Nat, seen : {{}}]
  BY ClusterFacts, FatAssumption DEF NoCall

LEMMA Ends == ASSUME FilOK', op' = NoCall PROVE Control'
<1>1. op' \in OpType'
  BY NoCallIs DEF OpType
<1>2. Places' /\ MkdirInv' /\ FileInv'
  BY NoCallIs DEF Places, MkdirInv, FileInv
<1> QED
  BY <1>1, <1>2 DEF Control

LEMMA Unchanged == ASSUME Control, fil' = fil PROVE FilOK' /\ FilType' = FilType
  BY DEF Control, FilOK, FilType

LEMMA NoFileOK == ASSUME fil' = NoFile PROVE FilOK'
<1>1. NoFile \in [open : BOOLEAN, fresh : BOOLEAN, stop : BOOLEAN, d : Clusters,
            n : Names \cup {NoName}, t : Clusters, i : 1 .. Slots, ver : {NoFile.ver},
            sclust : Clusters \cup {0}, clust : Clusters \cup {0}, sect : Clusters \cup {0},
            size : Nat, buf : {NoFile.buf}, dirty : BOOLEAN]
  BY ClusterFacts, FatAssumption DEF NoFile
<1>2. /\ ~NoFile.open /\ NoFile.sclust = 0 /\ NoFile.clust = 0 /\ ~NoFile.dirty
      /\ NoFile.sect = 0 /\ NoFile.size = 0
  BY DEF NoFile
<1>3. 0 % Units = 0
  BY FatAssumption
<1> QED
  BY <1>1, <1>2, <1>3 DEF FilOK, FilType

(***************************************************************************)
(* The steps that read.                                                    *)
(***************************************************************************)
LEMMA FindStep == ASSUME IInv, Find PROVE IInv'
<1>1. op.pc = "find" /\ Ready /\ Visit(op.t) /\ UNCHANGED <<disk, fs, fil, known, spent>>
  BY DEF Find, At
<1>2. /\ op \in OpType /\ op.t \in Clusters /\ op.t \in Sectors /\ op.n \in Names
      /\ op.call \in {"open", "mkdir", "unlink"} /\ fil.sclust = 0
      /\ op.dcl = 0 /\ op.clst = 0
  BY <1>1, SectorFacts DEF IInv, Control, Places, FileInv, FilOK, OpType
<1>3. /\ WinInv' /\ Views' \subseteq Views /\ (Vol' = Vol \/ Views' = {Vol'})
  BY <1>1, <1>2, WantedIs, Visited
<1>4. CASE \E i \in FirstOf(Vol, op.t, op.n) : op' = Found(i)
  <2>1. PICK i \in 1 .. Slots : Entry(Vol, op.t, i).name = op.n /\ op' = Found(i)
    BY <1>4 DEF FirstOf
  <2> DEFINE e == Entry(Vol, op.t, i)
  <2>2. EntryOK(e)
    BY <1>2, EntriesOK DEF IInv, WinInv
  <2>3. \A v \in Views : Head(v, op.t, i) = e.clst
    BY <1>2, <2>1, FatAssumption DEF IInv, WindowInv, Head
  <2> HIDE DEF e
  <2>4. \/ op' = NoCall
        \/ op' = [op EXCEPT !.i = i, !.dcl = e.clst, !.clst = e.clst, !.pc = "reset"] /\ op.call = "open"
        \/ op' = [op EXCEPT !.i = i, !.dcl = e.clst, !.clst = e.clst, !.pc = "drop"] /\ op.call = "unlink"
        \/ op' = [op EXCEPT !.i = i, !.dcl = e.clst, !.clst = e.clst, !.pc = "empty"]
             /\ op.call = "unlink" /\ e.clst # 0
    BY <1>2, <2>1, <2>2 DEF Found, EntryOK, e, OpType
  <2>5. CASE op' = NoCall
    <3>1. Control'
      BY <1>1, <2>5, Unchanged, Ends DEF IInv
    <3>2. \A v \in Views' : Facts(v)'
      BY <1>1, <1>2, <2>5, NoCallIs DEF Facts, Unentered
    <3> QED
      BY <1>1, <1>2, <1>3, <3>1, <3>2, Moved DEF Unentered
  <2>6. CASE op' # NoCall
    <3> PICK p : /\ op' = [op EXCEPT !.i = i, !.dcl = e.clst, !.clst = e.clst, !.pc = p]
                 /\ \/ p = "reset" /\ op.call = "open"
                    \/ p = "drop" /\ op.call = "unlink"
                    \/ p = "empty" /\ op.call = "unlink" /\ e.clst # 0
      BY <2>4, <2>6
    <3>1. /\ op' \in OpType' /\ op'.call = op.call /\ op'.t = op.t /\ op'.i = i
          /\ op'.clst = e.clst /\ op'.dcl = e.clst
          /\ (op'.pc = "reset" /\ op.call = "open") \/ (op'.pc = "drop" /\ op.call = "unlink")
               \/ (op'.pc = "empty" /\ op.call = "unlink" /\ e.clst # 0)
      BY <1>2, <2>2 DEF OpType, EntryOK
    <3>2. Control'
      BY <1>1, <1>2, <3>1, Unchanged DEF IInv, Control, Places, MkdirInv, FileInv
    <3>3. \A v \in Views' : Facts(v)'
      BY <1>1, <1>2, <1>3, <2>3, <3>1 DEF Facts, Unentered
    <3> QED
      BY <1>1, <1>2, <1>3, <3>2, <3>3, Moved DEF Unentered
  <2> QED
    BY <2>5, <2>6
<1>5. CASE op' = Go("find_next")
  <2>1. op' \in OpType' /\ op'.call = op.call /\ op'.pc = "find_next" /\ op'.n = op.n
        /\ op'.dcl = 0 /\ op'.clst = 0
    BY <1>2, <1>5 DEF Go, OpType
  <2>2. Control'
    BY <1>1, <1>2, <2>1, Unchanged DEF IInv, Control, Places, MkdirInv, FileInv
  <2>3. \A v \in Views' : Facts(v)'
    BY <1>1, <1>2, <2>1 DEF Facts, Unentered
  <2> QED
    BY <1>1, <1>2, <1>3, <2>2, <2>3, Moved DEF Unentered
<1> QED
  BY <1>4, <1>5 DEF Find

LEMMA FindNextStep == ASSUME IInv, FindNext PROVE IInv'
<1> DEFINE nxt == Link(Vol, op.t)
<1>1. /\ op.pc = "find_next" /\ Ready /\ Visit(FatOf[op.t]) /\ disk' = disk /\ fil' = fil
      /\ op' = IF nxt \in Clusters THEN [op EXCEPT !.pc = "find", !.t = nxt] ELSE NotFound
  BY DEF FindNext, At
<1> HIDE DEF nxt
<1>2. /\ op \in OpType /\ op.t \in Clusters /\ FatOf[op.t] \in Sectors /\ op.n \in Names
      /\ op.call \in {"open", "mkdir", "unlink"} /\ fil.sclust = 0
      /\ op.dcl = 0 /\ op.clst = 0
  BY <1>1, SectorFacts DEF IInv, Control, Places, FileInv, FilOK, OpType
<1>3. WinInv' /\ Views' \subseteq Views /\ (Vol' = Vol \/ Views' = {Vol'})
  BY <1>1, <1>2, WantedIs, Visited
<1>4. CASE op' = NoCall
  <2>1. Control'
    BY <1>1, <1>4, Unchanged, Ends DEF IInv
  <2>2. \A v \in Views' : Facts(v)'
    BY <1>1, <1>2, <1>4, NoCallIs DEF Facts, Unentered
  <2> QED
    BY <1>1, <1>2, <1>3, <2>1, <2>2, Moved DEF Unentered
<1>5. CASE op' # NoCall
  <2> PICK p \in {"find", "alloc", "chain"}, t \in Clusters :
          /\ op' = [op EXCEPT !.pc = p, !.t = t]
          /\ p = "alloc" => op.call = "open"
          /\ p = "chain" => op.call = "mkdir"
    BY <1>1, <1>2, <1>5 DEF NotFound, OpType
  <2>1. /\ op' \in OpType' /\ op'.call = op.call /\ op'.pc = p /\ op'.n = op.n
        /\ op'.dcl = 0 /\ op'.clst = 0
    BY <1>2 DEF OpType
  <2>2. Control'
    BY <1>1, <1>2, <2>1, Unchanged DEF IInv, Control, Places, MkdirInv, FileInv
  <2>3. \A v \in Views' : Facts(v)'
    BY <1>1, <1>2, <2>1 DEF Facts, Unentered
  <2> QED
    BY <1>1, <1>2, <1>3, <2>2, <2>3, Moved DEF Unentered
<1> QED
  BY <1>4, <1>5

LEMMA CheckEmptyStep == ASSUME IInv, CheckEmpty PROVE IInv'
<1>1. /\ op.pc = "empty" /\ Ready /\ Visit(op.clst) /\ disk' = disk /\ fil' = fil
      /\ \/ op' = [op EXCEPT !.pc = "empty_next", !.seen = @ \cup {op.clst}]
         \/ op' = NoCall
  BY DEF CheckEmpty, At
<1>2. /\ op \in OpType /\ op.clst \in Clusters /\ op.clst \in Sectors
      /\ op.call \in {"open", "mkdir", "unlink"} /\ fil.sclust = 0
  BY <1>1, SectorFacts DEF IInv, Control, Places, FileInv, FilOK, OpType
<1>3. WinInv' /\ Views' \subseteq Views /\ (Vol' = Vol \/ Views' = {Vol'})
  BY <1>1, <1>2, WantedIs, Visited
<1>4. CASE op' = NoCall
  <2>1. Control'
    BY <1>1, <1>4, Unchanged, Ends DEF IInv
  <2>2. \A v \in Views' : Facts(v)'
    BY <1>1, <1>2, <1>4, NoCallIs DEF Facts, Unentered
  <2> QED
    BY <1>1, <1>2, <1>3, <2>1, <2>2, Moved DEF Unentered
<1>5. CASE op' = [op EXCEPT !.pc = "empty_next", !.seen = @ \cup {op.clst}]
  <2>1. /\ op' \in OpType' /\ op'.call = op.call /\ op'.pc = "empty_next" /\ op'.t = op.t
        /\ op'.i = op.i /\ op'.dcl = op.dcl /\ op'.clst = op.clst
    BY <1>2, <1>5 DEF OpType
  <2>2. Control'
    BY <1>1, <1>2, <2>1, Unchanged, ClusterFacts DEF IInv, Control, Places, MkdirInv, FileInv
  <2>3. \A v \in Views' : Facts(v)'
    BY <1>1, <1>2, <1>3, <2>1 DEF IInv, Facts, Unentered
  <2> QED
    BY <1>1, <1>2, <1>3, <2>2, <2>3, Moved DEF Unentered
<1> QED
  BY <1>1, <1>4, <1>5

LEMMA CheckNextStep == ASSUME IInv, CheckNext PROVE IInv'
<1> DEFINE nxt == Link(Vol, op.clst)
<1>1. /\ op.pc = "empty_next" /\ Ready /\ Visit(FatOf[op.clst]) /\ disk' = disk /\ fil' = fil
      /\ op' = IF nxt \in Clusters THEN [op EXCEPT !.pc = "empty", !.clst = nxt]
               ELSE [op EXCEPT !.pc = "drop", !.clst = op.dcl]
  BY DEF CheckNext, At
<1> HIDE DEF nxt
<1>2. /\ op \in OpType /\ op.clst \in Clusters /\ FatOf[op.clst] \in Sectors
      /\ op.call \in {"open", "mkdir", "unlink"} /\ fil.sclust = 0 /\ op.dcl \in Clusters \cup {0}
  BY <1>1, SectorFacts DEF IInv, Control, Places, FileInv, FilOK, OpType
<1>3. WinInv' /\ Views' \subseteq Views /\ (Vol' = Vol \/ Views' = {Vol'})
  BY <1>1, <1>2, WantedIs, Visited
<1> PICK p \in {"empty", "drop"}, c \in Clusters \cup {0} :
        /\ op' = [op EXCEPT !.pc = p, !.clst = c]
        /\ (p = "empty" /\ c \in Clusters) \/ (p = "drop" /\ c = op.dcl)
  BY <1>1, <1>2
<1>4. /\ op' \in OpType' /\ op'.call = op.call /\ op'.pc = p /\ op'.t = op.t
      /\ op'.i = op.i /\ op'.dcl = op.dcl /\ op'.clst = c
  BY <1>2 DEF OpType
<1>5. Control'
  BY <1>1, <1>2, <1>4, Unchanged, ClusterFacts DEF IInv, Control, Places, MkdirInv, FileInv
<1>6. \A v \in Views' : Facts(v)'
  BY <1>1, <1>2, <1>3, <1>4 DEF IInv, Facts, Unentered
<1> QED
  BY <1>1, <1>2, <1>3, <1>5, <1>6, Moved DEF Unentered

LEMMA FullTableStep == ASSUME IInv, FullTable PROVE IInv'
<1>1. /\ op.pc = "alloc" /\ Ready /\ Visit(op.t) /\ disk' = disk /\ fil' = fil
      /\ op' = [op EXCEPT !.pc = "alloc_next"]
  BY DEF FullTable, At, Go
<1>2. /\ op \in OpType /\ op.t \in Sectors
      /\ op.call \in {"open", "mkdir"} /\ fil.sclust = 0
  BY <1>1, SectorFacts DEF IInv, Control, Places, FileInv, FilOK, OpType
<1>3. WinInv' /\ Views' \subseteq Views /\ (Vol' = Vol \/ Views' = {Vol'})
  BY <1>1, <1>2, WantedIs, Visited
<1>4. /\ op' \in OpType' /\ op'.call = op.call /\ op'.pc = "alloc_next"
      /\ op'.dcl = op.dcl
  BY <1>1, <1>2 DEF OpType
<1>5. Control'
  BY <1>1, <1>2, <1>4, Unchanged DEF IInv, Control, Places, MkdirInv, FileInv
<1>6. \A v \in Views' : Facts(v)'
  BY <1>1, <1>2, <1>3, <1>4 DEF IInv, Facts, Unentered
<1> QED
  BY <1>1, <1>2, <1>3, <1>5, <1>6, Moved DEF Unentered

LEMMA AllocNextStep == ASSUME IInv, AllocNext PROVE IInv'
<1> DEFINE nxt == Link(Vol, op.t)
<1>1. /\ op.pc = "alloc_next" /\ Ready /\ Visit(FatOf[op.t]) /\ disk' = disk /\ fil' = fil
      /\ op' = IF nxt \in Clusters THEN [op EXCEPT !.pc = "alloc", !.t = nxt]
               ELSE [op EXCEPT !.pc = "chain", !.clst = op.t]
  BY DEF AllocNext, At
<1> HIDE DEF nxt
<1>2. /\ op \in OpType /\ op.t \in Clusters /\ FatOf[op.t] \in Sectors
      /\ op.call \in {"open", "mkdir"} /\ fil.sclust = 0
      /\ op.call = "mkdir" => op.dcl # 0
  BY <1>1, SectorFacts DEF IInv, Control, Places, MkdirInv, FileInv, FilOK, OpType
<1>3. WinInv' /\ Views' \subseteq Views /\ (Vol' = Vol \/ Views' = {Vol'})
  BY <1>1, <1>2, WantedIs, Visited
<1>4. /\ op' \in OpType' /\ op'.call = op.call /\ op'.pc \in {"alloc", "chain"}
      /\ op'.dcl = op.dcl
  BY <1>1, <1>2 DEF OpType
<1>5. Control'
  BY <1>1, <1>2, <1>4, Unchanged DEF IInv, Control, Places, MkdirInv, FileInv
<1>6. \A v \in Views' : Facts(v)'
  BY <1>1, <1>2, <1>3, <1>4 DEF IInv, Facts, Unentered
<1> QED
  BY <1>1, <1>2, <1>3, <1>5, <1>6, Moved DEF Unentered

LEMMA OpenedOK ==
    ASSUME op \in OpType, NEW t \in Clusters, NEW i \in 1 .. Slots, Opened(t, i)
    PROVE  FilOK' /\ fil'.sclust = 0
<1>1. NoFile \in [open : BOOLEAN, fresh : BOOLEAN, stop : BOOLEAN, d : Clusters,
            n : Names \cup {NoName}, t : Clusters, i : 1 .. Slots, ver : {NoFile.ver},
            sclust : Clusters \cup {0}, clust : Clusters \cup {0}, sect : Clusters \cup {0},
            size : Nat, buf : {NoFile.buf}, dirty : BOOLEAN]
  BY ClusterFacts, FatAssumption DEF NoFile
<1>2. /\ NoFile.sclust = 0 /\ NoFile.clust = 0 /\ NoFile.dirty = FALSE
      /\ NoFile.sect = 0 /\ NoFile.size = 0
  BY DEF NoFile
<1>3. op.fresh \in BOOLEAN /\ op.d \in Clusters /\ op.n \in Names \cup {NoName}
  BY DEF OpType
<1>4. fil' = [NoFile EXCEPT !.open = TRUE, !.fresh = op.fresh, !.d = op.d, !.n = op.n,
                            !.t = t, !.i = i, !.ver = spent.calls]
  BY DEF Opened
<1>5. /\ fil' \in FilType' /\ fil'.open = TRUE /\ fil'.sclust = 0 /\ fil'.clust = 0
      /\ fil'.dirty = FALSE /\ fil'.sect = 0 /\ fil'.size = 0
  BY <1>1, <1>2, <1>3, <1>4 DEF FilType
<1>6. 0 % Units = 0
  BY FatAssumption
<1> QED
  BY <1>5, <1>6 DEF FilOK

LEMMA BackStep == ASSUME IInv, Back PROVE IInv'
<1>1. /\ op.pc = "back" /\ Ready /\ Visit(op.t) /\ disk' = disk /\ op' = NoCall
      /\ Opened(op.t, op.i)
  BY DEF Back, At
<1>2. op \in OpType /\ op.t \in Clusters /\ op.i \in 1 .. Slots /\ op.t \in Sectors
  BY <1>1, SectorFacts DEF IInv, Control, OpType
<1>3. WinInv' /\ Views' \subseteq Views /\ (Vol' = Vol \/ Views' = {Vol'})
  BY <1>1, <1>2, WantedIs, Visited
<1>4. FilOK' /\ fil'.sclust = 0
  BY <1>1, <1>2, OpenedOK
<1>5. Control'
  BY <1>1, <1>4, Ends
<1>6. \A v \in Views' : Facts(v)'
  BY <1>1, <1>4, NoCallIs DEF Facts, Unentered
<1> QED
  BY <1>1, <1>3, <1>4, <1>5, <1>6, Moved DEF Unentered

\* A call that gets no further.
LEMMA GivenUp ==
    ASSUME IInv, op' = Undone, StopFile
    PROVE  /\ Control' /\ (Unentered' => Unentered)
           /\ \A v \in Views : Facts(v)'
<1>1. Control /\ op \in OpType /\ FilOK
  BY DEF IInv, Control
<1>2. FilOK' /\ (Unentered' => Unentered /\ fil'.sclust = fil.sclust)
  <2>1. CASE op.call = "write"
    <3>1. fil' = [fil EXCEPT !.stop = TRUE]
      BY <2>1 DEF StopFile
    <3>2. /\ fil' \in FilType' /\ fil'.open = fil.open /\ fil'.sclust = fil.sclust
          /\ fil'.clust = fil.clust /\ fil'.sect = fil.sect /\ fil'.dirty = fil.dirty
          /\ fil'.size = fil.size
      BY <1>1, <3>1 DEF FilOK, FilType
    <3> QED
      BY <1>1, <2>1, <3>2 DEF FilOK, Unentered
  <2>2. CASE op.call = "close"
    <3>1. fil' = NoFile
      BY <2>2 DEF StopFile
    <3> QED
      BY <3>1, NoFileOK DEF Unentered, NoFile
  <2>3. CASE op.call \notin {"write", "close"}
    <3>1. fil' = fil
      BY <2>3 DEF StopFile
    <3> QED
      BY <1>1, <2>3, <3>1, Unchanged DEF Unentered
  <2> QED
    BY <2>1, <2>2, <2>3
<1>3. CASE op' = NoCall
  <2>1. Control'
    BY <1>2, <1>3, Ends
  <2>2. \A v \in Views : Facts(v)'
    BY <1>2, <1>3, NoCallIs DEF IInv, Facts
  <2> QED
    BY <1>2, <2>1, <2>2
<1>4. CASE op' # NoCall
  <2>1. /\ op.call = "mkdir" /\ op.dcl # 0
        /\ op.pc \in {"chain", "link", "clear", "alloc", "alloc_next"}
        /\ op' = [op EXCEPT !.pc = "free", !.clst = op.dcl]
    BY <1>1, <1>4 DEF Undone, Go, OpType
  <2>2. fil' = fil /\ ~fil.open
    BY <1>1, <2>1 DEF StopFile, Control, FileInv
  <2>3. op' \in OpType' /\ op'.call = "mkdir" /\ op'.pc = "free" /\ op'.clst = op.dcl
        /\ op'.dcl = op.dcl
    BY <1>1, <2>1 DEF OpType
  <2>4. Control'
    BY <1>1, <1>2, <2>1, <2>2, <2>3 DEF Control, Places, MkdirInv, FileInv
  <2>5. \A v \in Views : Facts(v)'
    BY <1>1, <1>2, <2>1, <2>2, <2>3 DEF IInv, Facts, Fresh
  <2> QED
    BY <1>2, <2>4, <2>5
<1> QED
  BY <1>3, <1>4

(***************************************************************************)
(* The steps that change an entry.                                         *)
(***************************************************************************)
LEMMA NoEntryOK ==
    /\ EntryOK(NoEntry) /\ NoEntry.clst = 0 /\ NoEntry.name = NoName
    /\ \A n : EntryOK([NoEntry EXCEPT !.name = n]) /\ [NoEntry EXCEPT !.name = n].clst = 0
  BY DEF EntryOK, NoEntry

LEMMA RegisterStep == ASSUME IInv, Register PROVE IInv'
<1>1. op.pc = "alloc" /\ Ready /\ disk' = disk
  BY DEF Register, At
<1>2. /\ op \in OpType /\ op.t \in Clusters /\ op.dcl \in Clusters \cup {0}
      /\ op.call \in {"open", "mkdir"} /\ fil.sclust = 0
      /\ op.call = "mkdir" => op.dcl # 0
  BY <1>1 DEF IInv, Control, Places, MkdirInv, FileInv, FilOK, OpType
<1>3. Movable(op.t)
  BY <1>1, WantedIs DEF Ready, Movable
<1> PICK i \in 1 .. Slots :
        \/ /\ op.call = "mkdir"
           /\ SetEntry(op.t, i, [name |-> op.n, dir |-> TRUE, clst |-> op.dcl, size |-> 0])
           /\ op' = Go("sync")
           /\ fil' = fil
        \/ /\ op.call # "mkdir"
           /\ SetEntry(op.t, i, [NoEntry EXCEPT !.name = op.n])
           /\ op' = NoCall
           /\ Opened(op.t, i)
  BY DEF Register, FirstOf
<1>4. CASE op.call = "mkdir"
  <2> DEFINE e == [name |-> op.n, dir |-> TRUE, clst |-> op.dcl, size |-> 0]
  <2>1. SetEntry(op.t, i, e) /\ op' = Go("sync") /\ fil' = fil
    BY <1>4
  <2>2. EntryOK(e) /\ e.clst = op.dcl
    BY <1>2, <1>4 DEF EntryOK
  <2> HIDE DEF e
  <2>3. WinInv' /\ Views' = {Vol'} /\ GSound(disk')
    BY <1>1, <1>2, <1>3, <2>1, <2>2, Entered
  <2> PICK v \in Views : GSound(v) /\ Facts(v) /\ HeadIs(v, Vol', op.t, i, e.clst)
    BY <1>1, <1>2, <1>3, <2>1, <2>2, Entered
  <2>4. Fresh(v, op.dcl)
    BY <1>1, <1>2, <1>4 DEF Facts
  <2>5. GSound(Vol')
    BY <1>2, <2>2, <2>4, Named
  <2>6. op' \in OpType' /\ op'.call = op.call /\ op'.pc = "sync"
    BY <1>2, <2>1 DEF Go, OpType
  <2>7. Control'
    BY <1>2, <1>4, <2>1, <2>6, Unchanged DEF IInv, Control, Places, MkdirInv, FileInv
  <2>8. \A w \in Views' : Facts(w)'
    BY <1>2, <2>1, <2>6 DEF Facts, Unentered
  <2> QED
    BY <1>2, <2>1, <2>3, <2>5, <2>7, <2>8, Changed DEF Unentered
<1>5. CASE op.call # "mkdir"
  <2> DEFINE e == [NoEntry EXCEPT !.name = op.n]
  <2>1. SetEntry(op.t, i, e) /\ op' = NoCall /\ Opened(op.t, i)
    BY <1>5
  <2>2. EntryOK(e) /\ e.clst = 0
    BY NoEntryOK
  <2> HIDE DEF e
  <2>3. WinInv' /\ Views' = {Vol'} /\ GSound(disk')
    BY <1>1, <1>2, <1>3, <2>1, <2>2, Entered
  <2> PICK v \in Views : GSound(v) /\ Facts(v) /\ HeadIs(v, Vol', op.t, i, e.clst)
    BY <1>1, <1>2, <1>3, <2>1, <2>2, Entered
  <2>4. GSound(Vol')
    BY <1>2, <2>2, Named
  <2>5. FilOK' /\ fil'.sclust = 0
    BY <1>2, <2>1, OpenedOK
  <2>6. Control'
    BY <2>1, <2>5, Ends
  <2>7. \A w \in Views' : Facts(w)'
    BY <2>1, <2>5, NoCallIs DEF Facts, Unentered
  <2> QED
    BY <2>3, <2>4, <2>5, <2>6, <2>7, Changed DEF Unentered
<1> QED
  BY <1>4, <1>5

LEMMA ResetStep == ASSUME IInv, Reset PROVE IInv'
<1> DEFINE e == [NoEntry EXCEPT !.name = op.n]
<1>1. /\ op.pc = "reset" /\ Ready /\ disk' = disk /\ SetEntry(op.t, op.i, e)
      /\ IF op.clst = 0 THEN op' = NoCall /\ Opened(op.t, op.i)
                        ELSE op' = [op EXCEPT !.pc = "free"] /\ fil' = fil
  BY DEF Reset, At, Go
<1>2. /\ op \in OpType /\ op.t \in Clusters /\ op.i \in 1 .. Slots
      /\ op.call \in {"open", "mkdir", "unlink"} /\ fil.sclust = 0
  BY <1>1 DEF IInv, Control, Places, FileInv, FilOK, OpType
<1>3. Movable(op.t)
  BY <1>1, WantedIs DEF Ready, Movable
<1>4. EntryOK(e) /\ e.clst = 0
  BY NoEntryOK
<1> HIDE DEF e
<1>5. WinInv' /\ Views' = {Vol'} /\ GSound(disk')
  BY <1>1, <1>2, <1>3, <1>4, Entered
<1> PICK v \in Views : GSound(v) /\ Facts(v) /\ HeadIs(v, Vol', op.t, op.i, e.clst)
  BY <1>1, <1>2, <1>3, <1>4, Entered
<1>6. Head(v, op.t, op.i) = op.clst
  BY <1>1 DEF Facts
<1>7. GSound(Vol') /\ (op.clst # 0 => Loose(Vol', op.clst))
  BY <1>2, <1>4, <1>6, Unnamed
<1>8. CASE op.clst = 0
  <2>1. FilOK' /\ fil'.sclust = 0
    BY <1>1, <1>2, <1>8, OpenedOK
  <2>2. Control'
    BY <1>1, <1>8, <2>1, Ends
  <2>3. \A w \in Views' : Facts(w)'
    BY <1>1, <1>8, <2>1, NoCallIs DEF Facts, Unentered
  <2> QED
    BY <1>5, <1>7, <2>1, <2>2, <2>3, Changed DEF Unentered
<1>9. CASE op.clst # 0
  <2>1. /\ op' \in OpType' /\ op'.call = op.call /\ op'.pc = "free" /\ op'.clst = op.clst
        /\ fil' = fil
    BY <1>1, <1>2, <1>9 DEF OpType
  <2>2. Control'
    BY <1>2, <1>9, <2>1, Unchanged DEF IInv, Control, Places, MkdirInv, FileInv
  <2>3. \A w \in Views' : Facts(w)'
    BY <1>2, <1>5, <1>7, <1>9, <2>1 DEF Facts, Unentered
  <2> QED
    BY <1>2, <1>5, <1>7, <2>1, <2>2, <2>3, Changed DEF Unentered
<1> QED
  BY <1>8, <1>9

LEMMA DropStep == ASSUME IInv, Drop PROVE IInv'
<1>1. /\ op.pc = "drop" /\ Ready /\ disk' = disk /\ SetEntry(op.t, op.i, NoEntry) /\ fil' = fil
      /\ op' = [op EXCEPT !.pc = IF op.clst = 0 THEN "sync" ELSE "free"]
  BY DEF Drop, At, Go
<1>2. /\ op \in OpType /\ op.t \in Clusters /\ op.i \in 1 .. Slots
      /\ op.call = "unlink" /\ fil.sclust = 0
  BY <1>1 DEF IInv, Control, Places, FileInv, FilOK, OpType
<1>3. Movable(op.t)
  BY <1>1, WantedIs DEF Ready, Movable
<1>4. WinInv' /\ Views' = {Vol'} /\ GSound(disk')
  BY <1>1, <1>2, <1>3, NoEntryOK, Entered
<1> PICK v \in Views : GSound(v) /\ Facts(v) /\ HeadIs(v, Vol', op.t, op.i, NoEntry.clst)
  BY <1>1, <1>2, <1>3, NoEntryOK, Entered
<1>5. Head(v, op.t, op.i) = op.clst
  BY <1>1 DEF Facts
<1>6. GSound(Vol') /\ (op.clst # 0 => Loose(Vol', op.clst))
  BY <1>2, <1>5, NoEntryOK, Unnamed
<1>7. /\ op' \in OpType' /\ op'.call = op.call /\ op'.clst = op.clst
      /\ op'.pc = IF op.clst = 0 THEN "sync" ELSE "free"
  BY <1>1, <1>2 DEF OpType
<1>8. Control'
  BY <1>1, <1>2, <1>7, Unchanged DEF IInv, Control, Places, MkdirInv, FileInv
<1>9. \A w \in Views' : Facts(w)'
  BY <1>1, <1>2, <1>4, <1>6, <1>7 DEF Facts, Unentered
<1> QED
  BY <1>1, <1>2, <1>4, <1>6, <1>8, <1>9, Changed DEF Unentered

LEMMA PutEntryStep == ASSUME IInv, PutEntry PROVE IInv'
<1> DEFINE e == [name |-> fil.n, dir |-> FALSE, clst |-> fil.sclust, size |-> fil.size]
<1>1. /\ op.pc = "entry" /\ Ready /\ disk' = disk /\ SetEntry(fil.t, fil.i, e) /\ fil' = fil
      /\ op' = [op EXCEPT !.pc = "sync"]
  BY DEF PutEntry, At, Go
<1>2. /\ op \in OpType /\ op.call = "close"
      /\ fil.t \in Clusters /\ fil.i \in 1 .. Slots /\ fil.sclust \in Clusters \cup {0}
  BY <1>1 DEF IInv, Control, Places, FilOK, FilType
<1>3. Movable(fil.t)
  BY <1>1, WantedIs DEF Ready, Movable
<1>4. EntryOK(e) /\ e.clst = fil.sclust
  BY <1>2 DEF EntryOK
<1> HIDE DEF e
<1>5. WinInv' /\ Views' = {Vol'} /\ GSound(disk')
  BY <1>1, <1>2, <1>3, <1>4, Entered
<1> PICK v \in Views : GSound(v) /\ Facts(v) /\ HeadIs(v, Vol', fil.t, fil.i, e.clst)
  BY <1>1, <1>2, <1>3, <1>4, Entered
<1>6. fil.sclust # 0 => Fresh(v, fil.sclust)
  BY <1>1 DEF Facts, Unentered
<1>7. GSound(Vol')
  BY <1>2, <1>4, <1>6, Named
<1>8. op' \in OpType' /\ op'.call = op.call /\ op'.pc = "sync"
  BY <1>1, <1>2 DEF OpType
<1>9. Control'
  BY <1>1, <1>2, <1>8, Unchanged DEF IInv, Control, Places, MkdirInv, FileInv
<1>10. \A w \in Views' : Facts(w)'
  BY <1>1, <1>2, <1>8 DEF Facts, Unentered
<1> QED
  BY <1>2, <1>5, <1>7, <1>8, <1>9, <1>10, Changed DEF Unentered

(***************************************************************************)
(* The steps that change a link.                                           *)
(***************************************************************************)
LEMMA AfterFreeOK ==
    ASSUME Control, op.pc = "free", op' = AfterFree, fil' = fil
    PROVE  /\ Control' /\ ~Unentered'
           /\ \A v : Facts(v)'
<1>1. op \in OpType /\ op.call \in {"open", "mkdir", "unlink"} /\ fil.sclust = 0
  BY DEF Control, Places, FileInv, FilOK
<1>2. CASE op.call = "mkdir"
  <2>1. op' = NoCall
    BY <1>2 DEF AfterFree
  <2> QED
    BY <1>1, <2>1, Unchanged, Ends, NoCallIs DEF Facts, Unentered
<1>3. CASE op.call # "mkdir"
  <2>1. op' = [op EXCEPT !.pc = IF op.call = "open" THEN "back" ELSE "sync"]
    BY <1>1, <1>3 DEF AfterFree, Go
  <2>2. /\ op' \in OpType' /\ op'.call = op.call
        /\ op'.pc = IF op.call = "open" THEN "back" ELSE "sync"
    BY <1>1, <2>1 DEF OpType
  <2>3. Control'
    BY <1>1, <1>3, <2>2, Unchanged DEF Control, Places, MkdirInv, FileInv
  <2>4. ~Unentered' /\ \A v : Facts(v)'
    BY <1>1, <1>3, <2>2 DEF Facts, Unentered
  <2> QED
    BY <2>3, <2>4
<1> QED
  BY <1>2, <1>3

LEMMA FreeStep == ASSUME IInv, Free PROVE IInv'
<1> DEFINE nxt == Link(Vol, op.clst)
<1>1. /\ op.pc = "free" /\ Ready /\ disk' = disk /\ fil' = fil
      /\ \/ nxt = 0 /\ Visit(FatOf[op.clst]) /\ op' = AfterFree
         \/ SetLink(op.clst, 0) /\ op' = IF nxt \in Clusters THEN [op EXCEPT !.clst = nxt] ELSE AfterFree
  BY DEF Free, At
<1>2. /\ Control /\ op \in OpType /\ op.clst \in Clusters
      /\ op.call \in {"open", "mkdir", "unlink"} /\ fil.sclust = 0
      /\ FatOf[op.clst] \in Sectors
  BY <1>1, SectorFacts DEF IInv, Control, Places, FileInv, FilOK, OpType
<1>3. Movable(FatOf[op.clst])
  BY <1>1, WantedIs DEF Ready, Movable
<1>4. CASE nxt = 0 /\ Visit(FatOf[op.clst]) /\ op' = AfterFree
  <2>1. WinInv' /\ Views' \subseteq Views /\ (Vol' = Vol \/ Views' = {Vol'})
    BY <1>1, <1>2, <1>3, <1>4, Visited
  <2> QED
    BY <1>1, <1>2, <1>4, <2>1, AfterFreeOK, Moved
<1>5. CASE /\ SetLink(op.clst, 0)
           /\ op' = IF nxt \in Clusters THEN [op EXCEPT !.clst = nxt] ELSE AfterFree
  <2>1. WinInv' /\ Views' = {Vol'} /\ win'.sect \notin Clusters /\ GSound(disk')
    BY <1>1, <1>2, <1>3, <1>5, SectorFacts, Linked
  <2> PICK v \in Views : GSound(v) /\ Facts(v) /\ LinkIs(v, Vol', op.clst, 0) /\ Link(v, op.clst) = nxt
    BY <1>1, <1>2, <1>3, <1>5, SectorFacts, Linked
  <2> HIDE DEF nxt
  <2>2. Loose(v, op.clst)
    BY <1>1 DEF Facts
  <2>3. GSound(Vol') /\ (nxt \in Clusters => Loose(Vol', nxt))
    BY <2>2, Unlinked
  <2>4. CASE nxt \in Clusters
    <3>1. op' \in OpType' /\ op'.call = op.call /\ op'.pc = "free" /\ op'.clst = nxt
      BY <1>1, <1>2, <1>5, <2>4 DEF OpType
    <3>2. Control'
      BY <1>1, <1>2, <2>4, <3>1, Unchanged, ClusterFacts DEF Control, Places, MkdirInv, FileInv
    <3>3. \A w \in Views' : Facts(w)'
      BY <1>1, <1>2, <2>1, <2>3, <2>4, <3>1 DEF Facts, Unentered
    <3> QED
      BY <2>1, <2>3, <3>2, <3>3, Changed
  <2>5. CASE nxt \notin Clusters
    BY <1>1, <1>2, <1>5, <2>1, <2>3, <2>5, AfterFreeOK, Changed
  <2> QED
    BY <2>4, <2>5
<1> QED
  BY <1>1, <1>4, <1>5

\* The caller has its cluster.
LEMMA GotOK ==
    ASSUME Control, op.pc \in {"chain", "link"}, NEW c \in Clusters, Got(c)
    PROVE  /\ Control' /\ op'.call = op.call
           /\ \A w : /\ op.call = "mkdir" => Fresh(w, IF op.dcl = 0 THEN c ELSE op.dcl)
                     /\ op.call = "write" => Fresh(w, IF fil.sclust = 0 THEN c ELSE fil.sclust)
                     => Facts(w)'
<1>1. /\ op \in OpType /\ op.call \in {"open", "mkdir", "write"} /\ c # 0 /\ FilOK
      /\ op.call # "write" => fil.sclust = 0
  BY ClusterFacts DEF Control, Places, FileInv, FilOK
<1>2. CASE op.call = "write"
  <2>1. /\ op' = [op EXCEPT !.pc = "spill", !.clst = c]
        /\ fil' = [fil EXCEPT !.clust = c, !.sclust = IF @ = 0 THEN c ELSE @]
    BY <1>1, <1>2 DEF Got, Go, OpType
  <2>2. op' \in OpType' /\ op'.call = op.call /\ op'.pc = "spill"
    BY <1>1, <2>1 DEF OpType
  <2>3. /\ fil' \in FilType' /\ fil'.open = fil.open /\ fil'.clust = c
        /\ fil'.sclust = IF fil.sclust = 0 THEN c ELSE fil.sclust
        /\ fil'.sect = fil.sect /\ fil'.dirty = fil.dirty /\ fil'.size = fil.size
    BY <1>1, <2>1 DEF FilOK, FilType
  <2>4. fil.open
    BY <1>2 DEF Control, FileInv
  <2>5. FilOK'
    BY <1>1, <2>3, <2>4 DEF FilOK
  <2>6. Control'
    BY <1>1, <1>2, <2>2, <2>3, <2>4, <2>5 DEF Control, Places, MkdirInv, FileInv
  <2>7. \A w : Fresh(w, fil'.sclust) => Facts(w)'
    BY <1>2, <2>2 DEF Facts
  <2> QED
    BY <1>2, <2>2, <2>3, <2>6, <2>7
<1>3. CASE op.call # "write"
  <2> DEFINE d == IF op.call = "mkdir" /\ op.dcl = 0 THEN c ELSE op.dcl
  <2>1. op' = [op EXCEPT !.pc = "clear", !.ncl = c, !.dcl = d] /\ fil' = fil
    BY <1>1, <1>3 DEF Got, Go, OpType
  <2>2. d \in Clusters \cup {0}
    BY <1>1 DEF OpType
  <2>3. op.call = "mkdir" => d = (IF op.dcl = 0 THEN c ELSE op.dcl) /\ d # 0
    BY <1>1
  <2> HIDE DEF d
  <2>4. op' \in OpType' /\ op'.call = op.call /\ op'.pc = "clear" /\ op'.ncl = c /\ op'.dcl = d
    BY <1>1, <2>1, <2>2 DEF OpType
  <2>5. Control'
    BY <1>1, <1>3, <2>1, <2>3, <2>4, Unchanged DEF Control, Places, MkdirInv, FileInv
  <2>6. \A w : (op.call = "mkdir" => Fresh(w, d)) => Facts(w)'
    BY <1>1, <1>3, <2>1, <2>4 DEF Facts, Unentered
  <2> QED
    BY <1>3, <2>3, <2>4, <2>5, <2>6
<1> QED
  BY <1>2, <1>3

\* The entry of a free cluster that is found has been read.
LEMMA FoundIsRead ==
    ASSUME op \in OpType, fs.free # 0, NEW c \in NextFree PROVE FatOf[c] \in Searched
<1>1. c \in Clusters /\ LastCluster \in Nat \ {0, 1}
  BY FatAssumption DEF NextFree
<1>2. c \in Int /\ op.clst \in Int /\ (fs.last \in Clusters => fs.last \in Int)
  BY <1>1 DEF OpType, Clusters
<1>3. SearchFrom \in Int
  BY <1>2 DEF SearchFrom
<1>4. Distance(SearchFrom, c) \in Int
  BY <1>1, <1>2, <1>3 DEF Distance
<1>5. c \in Probed(c)
  BY <1>1, <1>4 DEF Probed
<1>6. FatOf[c] \in SectorsOf(Probed(c))
  BY <1>5 DEF SectorsOf
<1>7. Searched = UNION {SectorsOf(Probed(x)) : x \in NextFree}
  BY DEF Searched
<1> QED
  BY <1>6, <1>7

LEMMA AllocateStep == ASSUME IInv, Allocate PROVE IInv'
<1>1. op.pc = "chain" /\ Ready /\ disk' = disk /\ fs.free # 0
  BY DEF Allocate, At
<1>2. PICK c \in NextFree :
        /\ SetLink(c, EndOfChain)
        /\ IF op.clst = 0 THEN Got(c)
           ELSE op' = [op EXCEPT !.pc = "link", !.ncl = c] /\ fil' = fil
  BY DEF Allocate, Go
<1>3. /\ Control /\ op \in OpType /\ op.call \in {"open", "mkdir", "write"} /\ FilOK
      /\ op.call # "write" => fil.sclust = 0
  BY <1>1 DEF IInv, Control, Places, FileInv, FilOK
<1>4. c \in Clusters /\ Link(Vol, c) = 0 /\ c # 0
  BY ClusterFacts DEF NextFree, IsFree
<1>5. Movable(FatOf[c])
  BY <1>1, <1>3, FoundIsRead, WantedIs DEF Ready, Movable
<1>6. WinInv' /\ Views' = {Vol'} /\ win'.sect \notin Clusters /\ GSound(disk')
  BY <1>1, <1>4, <1>5, <1>2, SectorFacts, Linked
<1> PICK v \in Views : /\ GSound(v) /\ Facts(v)
                       /\ LinkIs(v, Vol', c, EndOfChain) /\ Link(v, c) = Link(Vol, c)
  BY <1>1, <1>4, <1>5, <1>2, SectorFacts, Linked
<1>7. /\ GSound(Vol') /\ Fresh(Vol', c)
      /\ \A d : Fresh(v, d) => Fresh(Vol', d) /\ d # c
  BY <1>4, Mark
<1>8. (op.call = "mkdir" /\ op.dcl # 0) => Fresh(v, op.dcl)
  BY <1>1 DEF Facts
<1>9. fil.sclust # 0 => Fresh(v, fil.sclust)
  BY <1>1 DEF Facts, Unentered
<1>10. CASE op.clst = 0
  <2>1. Got(c)
    BY <1>10, <1>2
  <2>2. Control'
    BY <1>1, <1>3, <1>4, <2>1, GotOK
  <2>3. /\ op.call = "mkdir" => Fresh(Vol', IF op.dcl = 0 THEN c ELSE op.dcl)
        /\ op.call = "write" => Fresh(Vol', IF fil.sclust = 0 THEN c ELSE fil.sclust)
    BY <1>7, <1>8, <1>9
  <2>4. \A w \in Views' : Facts(w)'
    BY <1>1, <1>3, <1>4, <1>6, <2>1, <2>3, GotOK
  <2> QED
    BY <1>6, <1>7, <2>2, <2>4, Changed
<1>11. CASE op.clst # 0
  <2> op' = [op EXCEPT !.pc = "link", !.ncl = c] /\ fil' = fil
    BY <1>2, <1>11
  <2>1. /\ op' \in OpType' /\ op'.call = op.call /\ op'.pc = "link" /\ op'.ncl = c
        /\ op'.clst = op.clst /\ op'.dcl = op.dcl /\ fil' = fil
    BY <1>3, <1>4 DEF OpType
  <2>2. op.call = "mkdir" => op.dcl # 0
    BY <1>1, <1>3, <1>11 DEF Control, MkdirInv
  <2>3. op.call = "write" => fil.sclust # 0
    BY <1>1, <1>3, <1>11 DEF Control, FileInv, FilOK
  <2>4. Control'
    BY <1>1, <1>3, <1>11, <2>1, <2>2, <2>3, Unchanged DEF Control, Places, MkdirInv, FileInv
  <2>5. \A w \in Views' : Facts(w)'
    BY <1>3, <1>4, <1>6, <1>7, <1>8, <1>9, <2>1, <2>2 DEF Facts, Unentered
  <2> QED
    BY <1>6, <1>7, <2>4, <2>5, Changed
<1> QED
  BY <1>10, <1>11

LEMMA LinkItStep == ASSUME IInv, LinkIt PROVE IInv'
<1>1. op.pc = "link" /\ Ready /\ disk' = disk /\ SetLink(op.clst, op.ncl) /\ Got(op.ncl)
  BY DEF LinkIt, At
<1>2. /\ Control /\ op \in OpType /\ op.call \in {"open", "mkdir", "write"} /\ FilOK
      /\ op.clst \in Clusters
      /\ op.call = "write" => fil.sclust # 0
      /\ op.call = "mkdir" => op.dcl # 0
  BY <1>1 DEF IInv, Control, Places, MkdirInv, FileInv, OpType
<1>3. Movable(FatOf[op.clst])
  BY <1>1, WantedIs DEF Ready, Movable
<1>4. Fresh(Vol, op.ncl)
  BY <1>1 DEF IInv, Views, Facts
<1>5. op.ncl \in Clusters /\ op.ncl \in Links
  BY <1>4, SectorFacts DEF Fresh, Loose
<1>6. WinInv' /\ Views' = {Vol'} /\ win'.sect \notin Clusters /\ GSound(disk')
  BY <1>1, <1>2, <1>3, <1>5, Linked
<1> PICK v \in Views : GSound(v) /\ Facts(v) /\ LinkIs(v, Vol', op.clst, op.ncl)
  BY <1>1, <1>2, <1>3, <1>5, Linked
<1>7. GSound(Vol') /\ \A d : Fresh(v, d) /\ d # op.ncl => Fresh(Vol', d)
  BY <1>1, <1>2, LinkTo DEF Facts
<1>8. op.call = "mkdir" => Fresh(Vol', op.dcl)
  BY <1>1, <1>2, <1>7 DEF Facts
<1>9. op.call = "write" => Fresh(Vol', fil.sclust)
  BY <1>1, <1>2, <1>7 DEF Facts, Unentered
<1>10. Control'
  BY <1>1, <1>2, <1>5, GotOK
<1>11. \A w \in Views' : Facts(w)'
  BY <1>1, <1>2, <1>5, <1>6, <1>8, <1>9, GotOK
<1> QED
  BY <1>6, <1>7, <1>10, <1>11, Changed

LEMMA FullStep == ASSUME IInv, Full PROVE IInv'
<1>1. op.pc = "chain" /\ Ready /\ disk' = disk /\ op' = Undone /\ StopFile
  BY DEF Full, At
<1>2. op \in OpType /\ Wanted = Searched
  BY <1>1, WantedIs DEF IInv, Control
<1>3. Control' /\ (Unentered' => Unentered) /\ \A v \in Views : Facts(v)'
  BY <1>1, GivenUp
<1>4. CASE win' = win
  <2>1. WinInv' /\ Vol' = Vol /\ Views' = Views
    BY <1>1, <1>4 DEF IInv, WinInv, Vol, Views
  <2> QED
    BY <1>1, <1>3, <1>4, <2>1, Moved DEF IInv, WindowInv
<1>5. CASE win' # win
  <2> PICK s \in FatSectors : Visit(s) /\ s \in Searched
    <3>1. CASE fs.free = 0
      BY <1>2, <1>4, <1>5, <3>1, SectorFacts DEF Full, Searched, OpType
    <3>2. CASE fs.free # 0
      BY <1>5, <3>2, SectorFacts DEF Full, Searched, SectorsOf
    <3> QED
      BY <3>1, <3>2
  <2>1. s \in Sectors /\ Movable(s)
    BY <1>1, <1>2, SectorFacts DEF Ready, Movable
  <2>2. WinInv' /\ Views' \subseteq Views /\ (Vol' = Vol \/ Views' = {Vol'}) /\ win'.sect = s
    BY <1>1, <2>1, Visited
  <2> QED
    BY <1>1, <1>3, <2>2, SectorFacts, Moved
<1> QED
  BY <1>4, <1>5

(***************************************************************************)
(* The steps that change neither the window nor the disk.                  *)
(***************************************************************************)
LEMMA Still ==
    ASSUME IInv, win' = win, disk' = disk, Control', \A v \in Views : Facts(v)',
           Unentered' => Unentered \/ win.sect \notin Clusters
    PROVE  IInv'
<1>1. WinInv' /\ Vol' = Vol /\ Views' = Views
  BY DEF IInv, WinInv, Vol, Views
<1>2. Unentered' => win'.sect \notin Clusters
  BY DEF IInv, WindowInv
<1> QED
  BY <1>1, <1>2, Moved

LEMMA IdleIs ==
    ASSUME Control, Idle
    PROVE  op.pc = "idle" /\ (Unentered <=> fil.sclust # 0)
  BY DEF Control, Places, Idle, Unentered

LEMMA OnNameOK ==
    ASSUME NEW c \in {"open", "mkdir", "unlink"}, NEW d \in Clusters, NEW n \in Names, NEW x \in BOOLEAN,
           op' = OnName(c, d, n) \/ op' = [OnName(c, d, n) EXCEPT !.fresh = x]
    PROVE  /\ op' \in OpType' /\ op'.call = c /\ op'.pc = "find" /\ op'.n = n
           /\ op'.dcl = 0 /\ op'.clst = 0
<1>1. NoCall.dcl = 0 /\ NoCall.clst = 0
  BY DEF NoCall
<1> DEFINE k == Call(c)
           o == OnName(c, d, n)
<1>2. /\ k \in [call : {"none", "open", "mkdir", "unlink", "write", "close"}, pc : {"idle"},
                d : Clusters, n : Names \cup {NoName}, fresh : BOOLEAN, t : Clusters,
                i : 1 .. Slots, clst : Clusters \cup {0}, ncl : Clusters \cup {0},
                dcl : Clusters \cup {0}, left : Nat, seen : {{}}]
      /\ k.call = c /\ k.dcl = 0 /\ k.clst = 0
  BY <1>1, NoCallIs DEF Call
<1> HIDE DEF k
<1>3. /\ o \in [call : {"none", "open", "mkdir", "unlink", "write", "close"}, pc : {"find"},
                d : Clusters, n : Names \cup {NoName}, fresh : BOOLEAN, t : Clusters,
                i : 1 .. Slots, clst : Clusters \cup {0}, ncl : Clusters \cup {0},
                dcl : Clusters \cup {0}, left : Nat, seen : {{}}]
      /\ o.call = c /\ o.pc = "find" /\ o.n = n /\ o.dcl = 0 /\ o.clst = 0
  BY <1>2 DEF OnName, k
<1> HIDE DEF o
<1>4. CASE op' = o
  BY <1>3, <1>4 DEF OpType
<1>5. CASE op' = [o EXCEPT !.fresh = x]
  BY <1>3, <1>5 DEF OpType
<1> QED
  BY <1>4, <1>5 DEF o

LEMMA NameStep ==
    ASSUME IInv, NEW d \in Clusters, NEW n \in Names, NEW new \in BOOLEAN,
           Open(d, n, new) \/ Mkdir(d, n) \/ Unlink(d, n)
    PROVE  IInv'
<1>1. PICK c \in {"open", "mkdir", "unlink"} :
          op' = OnName(c, d, n) \/ op' = [OnName(c, d, n) EXCEPT !.fresh = new]
  BY DEF Open, Mkdir, Unlink, Begin
<1>2. ~fil.open /\ win' = win /\ disk' = disk /\ fil' = fil /\ fil.sclust = 0
  BY DEF Open, Mkdir, Unlink, Begin, IInv, Control, FilOK
<1>3. /\ op' \in OpType' /\ op'.call = c /\ op'.pc = "find" /\ op'.n = n
      /\ op'.dcl = 0 /\ op'.clst = 0
  BY <1>1, OnNameOK
<1>4. Control'
  BY <1>2, <1>3, Unchanged DEF IInv, Control, Places, MkdirInv, FileInv
<1>5. \A v \in Views : Facts(v)'
  BY <1>2, <1>3 DEF Facts, Unentered
<1> QED
  BY <1>2, <1>4, <1>5, Still DEF Unentered

LEMMA FileStep ==
    ASSUME IInv, Close \/ \E k \in 1 .. MaxSize : Write(k)
    PROVE  IInv'
<1>1. Idle /\ fil.open /\ win' = win /\ disk' = disk /\ fil' = fil
  BY DEF Close, Write
<1>2. PICK c \in {"write", "close"} :
          /\ op' \in OpType' /\ op'.call = c /\ op'.dcl = 0
          /\ op'.pc = IF c = "write" THEN "chunk" ELSE "spill"
  <2>1. CASE Close
    <3>1. op' = [NoCall EXCEPT !.call = "close", !.pc = "spill", !.d = fil.d, !.n = fil.n]
      BY <2>1, NoCallIs DEF Close, Call
    <3>2. fil.d \in Clusters /\ fil.n \in Names \cup {NoName}
      BY DEF IInv, Control, FilOK, FilType
    <3>3. /\ op' \in OpType' /\ op'.call = "close" /\ op'.dcl = 0 /\ op'.pc = "spill"
      BY <3>1, <3>2, NoCallIs DEF OpType
    <3> QED
      BY <3>3
  <2>2. CASE \E k \in 1 .. MaxSize : Write(k)
    <3>1. PICK k \in 1 .. MaxSize : Write(k)
      BY <2>2
    <3>2. op' = [NoCall EXCEPT !.call = "write", !.pc = "chunk", !.left = k]
      BY <3>1, NoCallIs DEF Write, Call
    <3>3. k \in Nat
      BY <3>1, FatAssumption
    <3>4. /\ op' \in OpType' /\ op'.call = "write" /\ op'.dcl = 0 /\ op'.pc = "chunk"
      BY <3>2, <3>3, NoCallIs DEF OpType
    <3> QED
      BY <3>4
  <2> QED
    BY <2>1, <2>2
<1>3. Control'
  BY <1>1, <1>2, Unchanged DEF IInv, Control, Places, MkdirInv, FileInv
<1>4. Unentered' => Unentered
  BY <1>1, IdleIs DEF IInv, Unentered
<1>5. \A v \in Views : Facts(v)'
  BY <1>1, <1>2, <1>4 DEF IInv, Facts, Unentered
<1> QED
  BY <1>1, <1>3, <1>4, <1>5, Still

\* Chdir, and a step that changes nothing.
LEMMA IdleStep == ASSUME IInv, UNCHANGED <<disk, win, op, fil>> PROVE IInv'
<1>1. Control'
  BY Unchanged DEF IInv, Control, OpType, Places, MkdirInv, FileInv
<1>2. Unentered' = Unentered /\ \A v \in Views : Facts(v)'
  BY DEF IInv, Facts, Unentered
<1> QED
  BY <1>1, <1>2, Still

LEMMA SyncedStep == ASSUME IInv, Synced PROVE IInv'
<1>1. /\ op.pc = "sync" /\ op' = NoCall /\ win' = win /\ disk' = disk
      /\ fil' = IF op.call = "close" THEN NoFile ELSE fil
  BY DEF Synced, At
<1>2. FilOK' /\ fil'.sclust = 0
  <2>1. CASE op.call = "close"
    BY <1>1, <2>1, NoFileOK DEF NoFile
  <2>2. CASE op.call # "close"
    BY <1>1, <2>2, Unchanged DEF IInv, Control, Places, FileInv, FilOK
  <2> QED
    BY <2>1, <2>2
<1>3. Control'
  BY <1>1, <1>2, Ends
<1>4. \A v \in Views : Facts(v)'
  BY <1>1, <1>2, NoCallIs DEF Facts, Unentered
<1> QED
  BY <1>1, <1>2, <1>3, <1>4, Still DEF Unentered

LEMMA GiveUpStep == ASSUME IInv, GiveUp, win' = win, disk' = disk PROVE IInv'
<1>1. Control' /\ (Unentered' => Unentered) /\ \A v \in Views : Facts(v)'
  BY GivenUp DEF GiveUp
<1> QED
  BY <1>1, Still

LEMMA ReadFailsStep == ASSUME IInv, ReadFails, disk' = disk PROVE IInv'
<1>1. ~win.dirty /\ win' = [win EXCEPT !.sect = NoSector]
  BY DEF ReadFails
<1>2. Control' /\ \A v \in Views : Facts(v)'
  BY GivenUp DEF ReadFails, GiveUp
<1>3. win'.dirty = FALSE /\ win'.sect = NoSector
      /\ win' \in [sect : Sectors \cup {NoSector}, buf : {win'.buf}, dirty : BOOLEAN]
  BY <1>1 DEF IInv, WinInv
<1>4. Vol' = [s \in Sectors |-> disk[s]]
  BY <1>3, SectorFacts DEF Vol
<1>5. Vol' = disk
  BY <1>4, VolIsOver DEF IInv
<1>6. WinInv'
  BY <1>3, <1>5 DEF IInv, WinInv
<1>7. Views' = {Vol'} /\ Views' \subseteq Views
  BY <1>1, <1>3, <1>5 DEF Views
<1> QED
  BY <1>2, <1>3, <1>6, <1>7, SectorFacts, Moved

LEMMA SyncWindowStep == ASSUME IInv, SyncWindow PROVE IInv'
<1>1. /\ win.dirty /\ disk' = [disk EXCEPT ![win.sect] = win.buf]
      /\ win' = [win EXCEPT !.dirty = FALSE] /\ op' = op /\ fil' = fil
  BY DEF SyncWindow
<1>2. /\ win'.sect = win.sect /\ win'.buf = win.buf /\ win'.dirty = FALSE
      /\ win' \in [sect : Sectors \cup {NoSector}, buf : {win'.buf}, dirty : BOOLEAN]
  BY <1>1 DEF IInv, WinInv
<1>3. win.sect \in Sectors
  BY <1>1, SectorFacts DEF IInv, WinInv
<1>4. disk' = Vol
  BY <1>1, <1>3, VolIsOver DEF IInv, Over
<1>5. Vol' = Vol
  BY <1>2, <1>4 DEF Vol
<1>6. WinInv'
  BY <1>2, <1>4, <1>5 DEF IInv, WinInv
<1>7. Views' \subseteq Views /\ disk' \in Views
  BY <1>4, <1>5 DEF Views
<1>8. Control'
  BY <1>1, Unchanged DEF IInv, Control, OpType, Places, MkdirInv, FileInv
<1>9. Unentered' = Unentered /\ \A v \in Views : Facts(v)'
  BY <1>1 DEF IInv, Facts, Unentered
<1> QED
  BY <1>2, <1>5, <1>6, <1>7, <1>8, <1>9, Moved DEF IInv, WindowInv

(***************************************************************************)
(* The steps that write past the window.                                   *)
(***************************************************************************)
LEMMA Renewed ==
    ASSUME WinInv', Control', GSound(disk'), GSound(Vol'),
           \A t \in Clusters, i \in 1 .. Slots :
               Entry(Vol', t, i).name # NoName => Head(disk', t, i) = Head(Vol', t, i),
           \A v \in Views' : Facts(v)',
           Unentered' => win'.sect \notin Clusters
    PROVE  IInv'
<1>1. \A v \in Views' : v = Vol' \/ v = disk'
  BY DEF Views
<1>2. WindowInv'
  BY <1>1 DEF WindowInv
<1>3. \A v \in Views' : GSound(v)
  BY <1>1
<1> QED
  BY <1>2, <1>3 DEF IInv

\* A cluster is overwritten by a table that names nothing.
LEMMA Wiped ==
    ASSUME NEW v, Shaped(v), NEW c \in Clusters, NEW b, Table(b),
           \A i \in 1 .. Slots : b.ent[i].clst = 0 /\ b.ent[i].name = NoName,
           NEW w, w = Over(v, c, b)
    PROVE  /\ Shaped(w) /\ Erased(v, w)
           /\ \A t \in Clusters, i \in 1 .. Slots :
                 /\ t # c => Entry(w, t, i) = Entry(v, t, i)
                 /\ t = c => Entry(w, t, i).name = NoName
<1>1. c \in Sectors /\ c \notin FatSectors
  BY SectorFacts
<1>2. w[c] = b /\ \A s \in Sectors : s # c => w[s] = v[s]
  BY <1>1 DEF Over
<1>3. w = [s \in Sectors |-> w[s]]
  BY DEF Over
<1>4. Shaped(w)
  BY <1>1, <1>2, <1>3, SectorFacts DEF Shaped
<1>5. SameLinks(v, w)
  BY <1>1, <1>2, SectorFacts DEF SameLinks, Link
<1>6. \A t \in Clusters, i \in 1 .. Slots :
         /\ t # c => Entry(w, t, i) = Entry(v, t, i)
         /\ t = c => Entry(w, t, i) = b.ent[i]
  BY <1>2, SectorFacts DEF Entry
<1>7. Erased(v, w)
  BY <1>5, <1>6 DEF Erased, Head
<1> QED
  BY <1>4, <1>6, <1>7

LEMMA BlankIs ==
    /\ Table(Blank) /\ Table([Blank EXCEPT !.dots = TRUE])
    /\ \A x : Table([Blank EXCEPT !.data = x])
    /\ \A i \in 1 .. Slots : /\ Blank.ent[i].clst = 0 /\ Blank.ent[i].name = NoName
                             /\ [Blank EXCEPT !.dots = TRUE].ent[i] = Blank.ent[i]
                             /\ \A x : [Blank EXCEPT !.data = x].ent[i] = Blank.ent[i]
<1> DEFINE none == [i \in 1 .. Slots |-> NoEntry]
<1>1. Blank \in [ent : {none}, data : {NoData}, dots : {FALSE}]
  BY DEF Blank
<1>2. none = [i \in 1 .. Slots |-> none[i]] /\ \A i \in 1 .. Slots : none[i] = NoEntry
  OBVIOUS
<1> HIDE DEF none
<1>3. ASSUME NEW b, b.ent = none, b \in [ent : {b.ent}, data : {b.data}, dots : {b.dots}]
      PROVE  Table(b)
  BY <1>2, <1>3, NoEntryOK DEF Table
<1>4. Table(Blank) /\ Blank.ent = none
  BY <1>1, <1>3
<1>5. Table([Blank EXCEPT !.dots = TRUE]) /\ [Blank EXCEPT !.dots = TRUE].ent = none
  <2> DEFINE b == [Blank EXCEPT !.dots = TRUE]
  <2>1. b.ent = none /\ b \in [ent : {b.ent}, data : {b.data}, dots : {b.dots}]
    BY <1>1
  <2> QED
    BY <1>3, <2>1
<1>6. ASSUME NEW x
      PROVE  Table([Blank EXCEPT !.data = x]) /\ [Blank EXCEPT !.data = x].ent = none
  <2> DEFINE b == [Blank EXCEPT !.data = x]
  <2>1. b.ent = none /\ b \in [ent : {b.ent}, data : {b.data}, dots : {b.dots}]
    BY <1>1
  <2> QED
    BY <1>3, <2>1
<1> QED
  BY <1>2, <1>4, <1>5, <1>6, NoEntryOK

LEMMA ClearStep == ASSUME IInv, Clear PROVE IInv'
<1> DEFINE c == op.ncl
           b == IF op.ncl = op.dcl THEN [Blank EXCEPT !.dots = TRUE] ELSE Blank
<1>1. /\ op.pc = "clear" /\ Ready /\ disk' = [disk EXCEPT ![c] = Blank] /\ fil' = fil
      /\ win' = [sect |-> c, buf |-> b, dirty |-> op.ncl = op.dcl]
      /\ op' = [op EXCEPT !.pc = "alloc", !.t = IF op.ncl = op.dcl THEN op.d ELSE op.ncl]
  BY DEF Clear, At
<1>2. /\ op \in OpType /\ c \in Clusters /\ op.call \in {"open", "mkdir"} /\ fil.sclust = 0
      /\ op.call = "mkdir" => op.dcl # 0
  BY <1>1 DEF IInv, Control, Places, MkdirInv, FileInv, FilOK, OpType
<1>3. /\ Table(b) /\ \A i \in 1 .. Slots : b.ent[i].clst = 0 /\ b.ent[i].name = NoName
      /\ Table(Blank) /\ \A i \in 1 .. Slots : Blank.ent[i].clst = 0 /\ Blank.ent[i].name = NoName
  BY BlankIs
<1> HIDE DEF b
<1>4. disk \in Views /\ Shaped(disk) /\ disk = [s \in Sectors |-> disk[s]]
  BY <1>1, WantedIs, CleanWindow DEF IInv, WinInv, Shaped
<1>5. disk' = Over(disk, c, Blank) /\ Vol' = Over(disk, c, b)
  BY <1>1, <1>2, <1>4, SectorFacts DEF Over, Vol
<1>6. /\ Shaped(disk') /\ Erased(disk, disk')
      /\ \A t \in Clusters, i \in 1 .. Slots : t # c => Entry(disk', t, i) = Entry(disk, t, i)
  BY <1>2, <1>3, <1>4, <1>5, Wiped
<1>7. /\ Shaped(Vol') /\ Erased(disk, Vol')
      /\ \A t \in Clusters, i \in 1 .. Slots : /\ t # c => Entry(Vol', t, i) = Entry(disk, t, i)
                                               /\ t = c => Entry(Vol', t, i).name = NoName
  BY <1>2, <1>3, <1>4, <1>5, Wiped
<1>8. WinInv'
  <2>1. /\ win' \in [sect : Sectors \cup {NoSector}, buf : {win'.buf}, dirty : BOOLEAN]
        /\ win'.sect = c
    BY <1>1, <1>2, SectorFacts
  <2> QED
    BY <1>2, <1>6, <1>7, <2>1 DEF WinInv
<1>9. /\ op' \in OpType' /\ op'.call = op.call /\ op'.pc = "alloc" /\ op'.dcl = op.dcl
  <2>1. (IF op.ncl = op.dcl THEN op.d ELSE op.ncl) \in Clusters
    BY <1>2 DEF OpType
  <2> QED
    BY <1>1, <1>2, <2>1 DEF OpType
<1>10. Control'
  BY <1>1, <1>2, <1>9, Unchanged DEF IInv, Control, Places, MkdirInv, FileInv
<1>11. GSound(disk') /\ GSound(Vol')
  BY <1>6, <1>7, Erase DEF IInv
<1>12. op.call = "mkdir" => Fresh(disk', op.dcl) /\ Fresh(Vol', op.dcl)
  <2>1. op.call = "mkdir" => Fresh(disk, op.dcl)
    BY <1>1, <1>2, <1>4 DEF IInv, Facts
  <2> QED
    BY <1>6, <1>7, <2>1, Erase
<1>13. \A v \in Views' : Facts(v)'
  <2>1. \A v \in Views' : v = disk' \/ v = Vol'
    BY DEF Views
  <2> QED
    BY <1>1, <1>2, <1>9, <1>12, <2>1 DEF Facts, Unentered
<1>14. \A t \in Clusters, i \in 1 .. Slots :
          Entry(Vol', t, i).name # NoName => Head(disk', t, i) = Head(Vol', t, i)
  BY <1>6, <1>7 DEF Head
<1> QED
  BY <1>1, <1>2, <1>8, <1>10, <1>11, <1>13, <1>14, Renewed DEF Unentered

LEMMA ClearFailsStep == ASSUME IInv, ClearFails, disk' = disk PROVE IInv'
<1> DEFINE c == op.ncl
<1>1. /\ op.pc = "clear" /\ Ready /\ op' = Undone /\ StopFile
      /\ win' = [sect |-> c, buf |-> Blank, dirty |-> FALSE]
  BY DEF ClearFails, At, GiveUp
<1>2. /\ op \in OpType /\ c \in Clusters /\ op.call \in {"open", "mkdir"} /\ fil.sclust = 0
      /\ op.call = "mkdir" => op.dcl # 0
  BY <1>1 DEF IInv, Control, Places, MkdirInv, FileInv, FilOK, OpType
<1>3. Control' /\ fil' = fil
  BY <1>1, <1>2, GivenUp DEF StopFile
<1>4. disk \in Views /\ Shaped(disk) /\ disk = [s \in Sectors |-> disk[s]]
  BY <1>1, WantedIs, CleanWindow DEF IInv, WinInv, Shaped
<1>5. Vol' = Over(disk, c, Blank)
  BY <1>1, <1>2, <1>4, SectorFacts DEF Over, Vol
<1>6. /\ Shaped(Vol') /\ Erased(disk, Vol')
      /\ \A t \in Clusters, i \in 1 .. Slots : /\ t # c => Entry(Vol', t, i) = Entry(disk, t, i)
                                               /\ t = c => Entry(Vol', t, i).name = NoName
  BY <1>2, <1>4, <1>5, BlankIs, Wiped
<1>7. WinInv'
  <2>1. /\ win' \in [sect : Sectors \cup {NoSector}, buf : {win'.buf}, dirty : BOOLEAN]
        /\ win'.sect = c
    BY <1>1, <1>2, SectorFacts
  <2> QED
    BY <1>2, <1>4, <1>6, <2>1 DEF WinInv
<1>8. GSound(disk') /\ GSound(Vol')
  BY <1>6, Erase DEF IInv
<1>9. \/ op'.pc = "idle" /\ op'.call = "none" /\ op'.dcl = 0
      \/ op'.pc = "free" /\ op'.clst = op.dcl /\ op.call = "mkdir"
  BY <1>1, <1>2, NoCallIs DEF Undone, Go, OpType
<1>10. op.call = "mkdir" => Loose(disk', op.dcl) /\ Loose(Vol', op.dcl)
  <2>1. op.call = "mkdir" => Fresh(disk, op.dcl)
    BY <1>1, <1>2, <1>4 DEF IInv, Facts
  <2> QED
    BY <1>6, <2>1, Erase DEF Fresh
<1>11. \A v \in Views' : Facts(v)'
  <2>1. \A v \in Views' : v = disk' \/ v = Vol'
    BY DEF Views
  <2> QED
    BY <1>2, <1>3, <1>9, <1>10, <2>1 DEF Facts, Unentered
<1>12. \A t \in Clusters, i \in 1 .. Slots :
          Entry(Vol', t, i).name # NoName => Head(disk', t, i) = Head(Vol', t, i)
  BY <1>6 DEF Head
<1> QED
  BY <1>2, <1>3, <1>7, <1>8, <1>11, <1>12, Renewed DEF Unentered

\* Data go past the window to a cluster of the open file.
LEMMA ToDiskStep ==
    ASSUME IInv, NEW c \in Clusters, NEW data, ToDisk(c, data), win' = win, Unentered,
           Control', fil'.sclust = fil.sclust, op'.pc \in {"entry", "data", "chunk"}
    PROVE  IInv'
<1> DEFINE b == [Blank EXCEPT !.data = data]
<1>1. /\ Table(b) /\ \A i \in 1 .. Slots : b.ent[i].clst = 0 /\ b.ent[i].name = NoName
  BY BlankIs
<1>2. disk' = [disk EXCEPT ![c] = b]
  BY DEF ToDisk
<1> HIDE DEF b
<1>3. /\ win.sect \notin Clusters /\ c \in Sectors
      /\ Shaped(disk) /\ disk = [s \in Sectors |-> disk[s]]
      /\ Shaped(Vol) /\ Vol = [s \in Sectors |-> Vol[s]]
  BY SectorFacts DEF IInv, WindowInv, WinInv, Shaped
<1>4. disk' = Over(disk, c, b)
  BY <1>2, <1>3 DEF Over
<1>5. Vol' = Over(Vol, c, b)
  BY <1>3, <1>4 DEF Over, Vol
<1>6. Shaped(disk') /\ Erased(disk, disk')
  BY <1>1, <1>3, <1>4, Wiped
<1>7. /\ Shaped(Vol') /\ Erased(Vol, Vol')
      /\ \A t \in Clusters, i \in 1 .. Slots : /\ t # c => Entry(Vol', t, i) = Entry(Vol, t, i)
                                               /\ t = c => Entry(Vol', t, i).name = NoName
  BY <1>1, <1>3, <1>5, Wiped
<1>8. WinInv'
  BY <1>6, <1>7 DEF IInv, WinInv
<1>9. \A w \in Views' : \E v \in Views : w = Over(v, c, b) /\ Shaped(v)
  BY <1>3, <1>4, <1>5 DEF Views
<1>10. ASSUME NEW w \in Views'
       PROVE  /\ GSound(w) /\ Fresh(w, fil.sclust)
              /\ \A t \in Clusters, i \in 1 .. Slots :
                    Entry(Vol', t, i).name # NoName => Head(w, t, i) = Head(Vol', t, i)
  <2>1. PICK v \in Views : w = Over(v, c, b) /\ Shaped(v)
    BY <1>9
  <2>2. /\ Erased(v, w)
        /\ \A t \in Clusters, i \in 1 .. Slots : t # c => Entry(w, t, i) = Entry(v, t, i)
    BY <1>1, <2>1, Wiped
  <2>3. GSound(v) /\ Fresh(v, fil.sclust)
    BY DEF IInv, Facts
  <2>4. GSound(w) /\ Fresh(w, fil.sclust)
    BY <2>2, <2>3, Erase
  <2>5. ASSUME NEW t \in Clusters, NEW i \in 1 .. Slots, Entry(Vol', t, i).name # NoName
        PROVE  Head(w, t, i) = Head(Vol', t, i)
    <3>1. t # c /\ Entry(Vol', t, i) = Entry(Vol, t, i) /\ Entry(w, t, i) = Entry(v, t, i)
      BY <1>7, <2>2, <2>5
    <3>2. Head(v, t, i) = Head(Vol, t, i)
      BY <2>5, <3>1 DEF IInv, WindowInv
    <3> QED
      BY <3>1, <3>2 DEF Head
  <2> QED
    BY <2>4, <2>5
<1>11. WindowInv'
  BY <1>3, <1>10 DEF WindowInv
<1>12. GSound(disk')
  BY <1>6, Erase DEF IInv
<1>13. \A w \in Views' : Facts(w)'
  BY <1>10 DEF Facts
<1> QED
  BY <1>8, <1>10, <1>11, <1>12, <1>13 DEF IInv

LEMMA SpillStep == ASSUME IInv, Spill PROVE IInv'
<1>1. /\ op.pc = "spill" /\ win' = win
      /\ op' = [op EXCEPT !.pc = IF op.call = "close" THEN "entry" ELSE "data"]
  BY DEF Spill, At, Go
<1>2. op \in OpType /\ FilOK /\ op.call \in {"write", "close"} /\ fil.open
  BY <1>1 DEF IInv, Control, Places, FileInv
<1>3. /\ op' \in OpType' /\ op'.call = op.call
      /\ op'.pc = IF op.call = "close" THEN "entry" ELSE "data"
  BY <1>1, <1>2 DEF OpType
<1>4. CASE fil.dirty
  <2>1. ToDisk(fil.sect, fil.buf) /\ fil' = [fil EXCEPT !.dirty = FALSE]
    BY <1>4 DEF Spill
  <2>2. /\ fil' \in FilType' /\ fil'.open = fil.open /\ fil'.sclust = fil.sclust
        /\ fil'.clust = fil.clust /\ fil'.sect = fil.sect /\ fil'.dirty = FALSE
        /\ fil'.size = fil.size
    BY <1>2, <2>1 DEF FilOK, FilType
  <2>3. fil.sect \in Clusters /\ fil.sclust # 0
    BY <1>2, <1>4 DEF FilOK, FilType
  <2>4. Control'
    BY <1>1, <1>2, <1>3, <2>2 DEF IInv, Control, Places, MkdirInv, FilOK, FileInv
  <2>5. Unentered
    BY <1>1, <2>3 DEF Unentered
  <2> QED
    BY <1>1, <1>2, <1>3, <2>1, <2>2, <2>3, <2>4, <2>5, ToDiskStep
<1>5. CASE ~fil.dirty
  <2>1. disk' = disk /\ fil' = fil
    BY <1>5 DEF Spill
  <2>2. Control'
    BY <1>1, <1>2, <1>3, <2>1, Unchanged DEF IInv, Control, Places, MkdirInv, FileInv
  <2>3. (Unentered' => Unentered) /\ \A v \in Views : Facts(v)'
    BY <1>1, <1>2, <1>3, <2>1 DEF IInv, Facts, Unentered
  <2> QED
    BY <1>1, <2>1, <2>2, <2>3, Still
<1> QED
  BY <1>4, <1>5

\* A whole cluster more does not change what is left of one.
LEMMA Division ==
    ASSUME NEW a \in Nat, NEW u \in Nat \ {0}
    PROVE  /\ a \div u \in Int /\ a % u \in 0 .. u - 1
           /\ a = u * (a \div u) + (a % u)
  BY SMTT(30)
LEMMA Remainder ==
    ASSUME NEW a \in Nat, NEW q \in Int, NEW r \in Int, NEW u \in Nat \ {0},
           a = u * q + r, 0 <= r, r < u
    PROVE  r = a % u
  BY SMTT(30)
LEMMA WholeMore == ASSUME NEW a \in Nat, NEW u \in Nat \ {0} PROVE (a + u) % u = a % u
<1> DEFINE q == a \div u
           r == a % u
<1>1. q \in Int /\ r \in Int /\ 0 <= r /\ r < u /\ a = u * q + r
  BY Division
<1>2. a + u = u * (q + 1) + r
  BY <1>1
<1> HIDE DEF q, r
<1>3. a + u \in Nat /\ q + 1 \in Int
  BY <1>1
<1>4. r = (a + u) % u
  BY <1>1, <1>2, <1>3, Remainder
<1> QED
  BY <1>4 DEF r

LEMMA DataStep == ASSUME IInv, Data PROVE IInv'
<1>1. op.pc = "data" /\ win' = win
  BY DEF Data, At
<1>2. /\ op \in OpType /\ FilOK /\ op.call = "write" /\ fil.open /\ fil.sclust # 0
      /\ fil.clust \in Clusters /\ op.left \in Nat /\ fil.size \in Nat
  BY <1>1 DEF IInv, Control, Places, FileInv, FilOK, FilType, OpType
<1>3. Units \in Nat \ {0}
  BY FatAssumption
<1>4. Unentered
  BY <1>1, <1>2 DEF Unentered
<1>5. CASE op.left >= Units
  <2>1. /\ ToDisk(fil.clust, [u \in 1 .. Units |-> <<fil.ver, fil.size + u>>])
        /\ fil' = [fil EXCEPT !.size = @ + Units]
        /\ op' = [op EXCEPT !.pc = "chunk", !.left = @ - Units]
    BY <1>5 DEF Data, Go
  <2>2. op.left - Units \in Nat /\ fil.size + Units \in Nat
    BY <1>2, <1>3, <1>5
  <2>3. op' \in OpType' /\ op'.call = op.call /\ op'.pc = "chunk"
    BY <1>2, <2>1, <2>2 DEF OpType
  <2>4. /\ fil' \in FilType' /\ fil'.open = fil.open /\ fil'.sclust = fil.sclust
        /\ fil'.clust = fil.clust /\ fil'.sect = fil.sect /\ fil'.dirty = fil.dirty
        /\ fil'.size = fil.size + Units
    BY <1>2, <2>1, <2>2 DEF FilOK, FilType
  <2>5. fil'.size % Units = fil.size % Units
    BY <1>2, <1>3, <2>4, WholeMore
  <2>6. FilOK'
    BY <1>2, <2>4, <2>5 DEF FilOK
  <2>7. Control'
    BY <1>2, <2>3, <2>4, <2>6 DEF Control, Places, MkdirInv, FileInv
  <2> QED
    BY <1>1, <1>2, <1>4, <2>1, <2>3, <2>4, <2>7, ToDiskStep
<1>6. CASE ~(op.left >= Units)
  <2>1. /\ disk' = disk
        /\ fil' = [fil EXCEPT !.sect = fil.clust, !.buf = Filled(op.left),
                              !.dirty = TRUE, !.size = @ + op.left]
        /\ op' = [op EXCEPT !.pc = "chunk", !.left = 0]
    BY <1>6 DEF Data, Go
  <2>2. fil.size + op.left \in Nat
    BY <1>2
  <2>3. op' \in OpType' /\ op'.call = op.call /\ op'.pc = "chunk"
    BY <1>2, <2>1 DEF OpType
  <2>4. /\ fil' \in FilType' /\ fil'.open = fil.open /\ fil'.sclust = fil.sclust
        /\ fil'.clust = fil.clust /\ fil'.sect = fil.clust
    BY <1>2, <2>1, <2>2 DEF FilOK, FilType
  <2>5. FilOK'
    BY <1>2, <2>4, ClusterFacts DEF FilOK
  <2>6. Control'
    BY <1>2, <2>3, <2>4, <2>5 DEF Control, Places, MkdirInv, FileInv
  <2>7. \A v \in Views : Facts(v)'
    BY <1>2, <1>4, <2>3, <2>4 DEF IInv, Facts, Unentered
  <2> QED
    BY <1>1, <1>4, <2>1, <2>6, <2>7, Still
<1> QED
  BY <1>5, <1>6

LEMMA ChunkStep == ASSUME IInv, Chunk PROVE IInv'
<1>1. op.pc = "chunk" /\ win' = win /\ disk' = disk
  BY DEF Chunk, At
<1>2. /\ op \in OpType /\ FilOK /\ op.call = "write" /\ fil.open
      /\ op.left \in Nat /\ fil.size \in Nat
  BY <1>1 DEF IInv, Control, Places, FileInv, FilOK, FilType, OpType
<1>3. CASE op.left = 0
  <2>1. op' = NoCall /\ fil' = fil
    BY <1>3 DEF Chunk
  <2>2. Control'
    BY <2>1, Unchanged, Ends DEF IInv
  <2>3. (Unentered' => Unentered) /\ \A v \in Views : Facts(v)'
    BY <1>2, <2>1, NoCallIs DEF IInv, Facts, Unentered
  <2> QED
    BY <1>1, <2>2, <2>3, Still
<1>4. CASE op.left # 0 /\ fil.size % Units = 0
  <2>1. op' = [op EXCEPT !.pc = "chain", !.clst = fil.clust] /\ fil' = fil
    BY <1>4 DEF Chunk, Go
  <2>2. op' \in OpType' /\ op'.call = op.call /\ op'.pc = "chain" /\ op'.clst = fil.clust
    BY <1>2, <2>1 DEF OpType, FilOK, FilType
  <2>3. Control'
    BY <1>2, <2>1, <2>2, Unchanged DEF IInv, Control, Places, MkdirInv, FileInv
  <2>4. (Unentered' => Unentered) /\ \A v \in Views : Facts(v)'
    BY <1>2, <2>1, <2>2 DEF IInv, Facts, Unentered
  <2> QED
    BY <1>1, <2>3, <2>4, Still
<1>5. CASE op.left # 0 /\ fil.size % Units # 0
  <2> DEFINE w == Least(Units - (fil.size % Units), op.left)
  <2>1. /\ fil' = [fil EXCEPT !.buf = Filled(w), !.dirty = TRUE, !.size = @ + w]
        /\ op' = [op EXCEPT !.left = @ - w]
    BY <1>5 DEF Chunk
  <2>2. w \in Nat /\ op.left - w \in Nat
    <3>1. fil.size % Units \in 0 .. Units - 1
      BY <1>2, FatAssumption, Division
    <3> QED
      BY <1>2, <3>1, FatAssumption DEF Least
  <2> HIDE DEF w
  <2>3. op' \in OpType' /\ op'.call = op.call /\ op'.pc = "chunk"
    BY <1>1, <1>2, <2>1, <2>2 DEF OpType
  <2>4. fil.size + w \in Nat
    BY <1>2, <2>2
  <2>5. /\ fil' \in FilType' /\ fil'.open = fil.open /\ fil'.sclust = fil.sclust
        /\ fil'.clust = fil.clust /\ fil'.sect = fil.sect
    BY <1>2, <2>1, <2>4 DEF FilOK, FilType
  <2>6. FilOK'
    BY <1>2, <1>5, <2>5 DEF FilOK
  <2>7. Control'
    BY <1>2, <2>3, <2>5, <2>6 DEF Control, Places, MkdirInv, FileInv
  <2>8. (Unentered' => Unentered) /\ \A v \in Views : Facts(v)'
    BY <1>2, <2>3, <2>5 DEF IInv, Facts, Unentered
  <2> QED
    BY <1>1, <2>7, <2>8, Still
<1> QED
  BY <1>3, <1>4, <1>5

(***************************************************************************)
(* The steps of FSInfo, and the power.                                     *)
(***************************************************************************)
LEMMA InfoOnly ==
    ASSUME NEW v, Shaped(v), NEW b, NEW w, w = Over(v, Info, b)
    PROVE  /\ Shaped(w) /\ Erased(v, w)
           /\ \A t \in Clusters, i \in 1 .. Slots : Entry(w, t, i) = Entry(v, t, i)
<1>1. \A s \in Sectors : s # Info => w[s] = v[s]
  BY DEF Over
<1>2. w = [s \in Sectors |-> w[s]]
  BY DEF Over
<1>3. Shaped(w)
  BY <1>1, <1>2, SectorFacts DEF Shaped
<1>4. \A t \in Clusters, i \in 1 .. Slots : Entry(w, t, i) = Entry(v, t, i)
  BY <1>1, SectorFacts DEF Entry
<1>5. SameLinks(v, w)
  BY <1>1, SectorFacts DEF SameLinks, Link
<1> QED
  BY <1>3, <1>4, <1>5 DEF Erased, Head

LEMMA InfoStep == ASSUME IInv, PutInfo \/ (InfoFails /\ disk' = disk) PROVE IInv'
<1> DEFINE info == [free |-> fs.free, last |-> fs.last]
<1>1. /\ op.pc = "sync" /\ Ready /\ op' = op /\ fil' = fil
      /\ win' = [sect |-> Info, buf |-> info, dirty |-> FALSE]
      /\ disk' = [disk EXCEPT ![Info] = info] \/ disk' = disk
  BY DEF PutInfo, InfoFails, At
<1> HIDE DEF info
<1>2. ~Unentered /\ op.call \in {"mkdir", "unlink", "close"}
  BY <1>1 DEF IInv, Control, Places, FileInv, FilOK, Unentered
<1>3. Control' /\ Unentered' = Unentered
  BY <1>1, Unchanged DEF IInv, Control, OpType, Places, MkdirInv, FileInv, Unentered
<1>4. Shaped(disk) /\ disk = [s \in Sectors |-> disk[s]]
  BY DEF IInv, WinInv, Shaped
<1>5. disk' = Over(disk, Info, info) \/ disk' = disk
  BY <1>1, <1>4, SectorFacts DEF Over
<1>6. Vol' = Over(disk, Info, info)
  BY <1>1, <1>4, SectorFacts DEF Over, Vol
<1>7. /\ Shaped(Vol') /\ Erased(disk, Vol')
      /\ \A t \in Clusters, i \in 1 .. Slots : Entry(Vol', t, i) = Entry(disk, t, i)
  BY <1>4, <1>6, InfoOnly
<1>8. disk' = Vol' \/ disk' = disk
  BY <1>5, <1>6
<1>9. WinInv'
  <2>1. /\ win' \in [sect : Sectors \cup {NoSector}, buf : {win'.buf}, dirty : BOOLEAN]
        /\ win'.dirty = FALSE
    BY <1>1, SectorFacts
  <2>2. Shaped(disk')
    BY <1>4, <1>7, <1>8
  <2> QED
    BY <1>7, <2>1, <2>2 DEF WinInv
<1>10. GSound(disk') /\ GSound(Vol')
  BY <1>7, <1>8, Erase DEF IInv
<1>11. \A v \in Views' : Facts(v)'
  BY <1>1, <1>2, <1>3 DEF Facts
<1>12. \A t \in Clusters, i \in 1 .. Slots : Head(disk', t, i) = Head(Vol', t, i)
  BY <1>7, <1>8 DEF Head
<1> QED
  BY <1>2, <1>3, <1>9, <1>10, <1>11, <1>12, Renewed

LEMMA PowerLossStep == ASSUME IInv, PowerLoss PROVE IInv'
<1>1. /\ disk' = disk /\ op' = NoCall /\ fil' = NoFile
      /\ win' = [sect |-> Info, buf |-> disk[Info], dirty |-> FALSE]
  BY DEF PowerLoss, Loaded
<1>2. Shaped(disk) /\ disk = [s \in Sectors |-> disk[s]]
  BY DEF IInv, WinInv, Shaped
<1>3. Vol' = disk
  BY <1>1, <1>2 DEF Vol
<1>4. WinInv'
  <2>1. /\ win' \in [sect : Sectors \cup {NoSector}, buf : {win'.buf}, dirty : BOOLEAN]
        /\ win'.dirty = FALSE
    BY <1>1, SectorFacts
  <2> QED
    BY <1>1, <1>2, <1>3, <2>1 DEF WinInv
<1>5. Control'
  BY <1>1, NoFileOK, Ends
<1>6. ~Unentered' /\ \A v \in Views' : Facts(v)'
  BY <1>1, NoCallIs DEF Facts, Unentered, NoFile
<1>7. GSound(disk') /\ GSound(Vol')
  BY <1>1, <1>3 DEF IInv
<1> QED
  BY <1>1, <1>3, <1>4, <1>5, <1>6, <1>7, Renewed

(***************************************************************************)
(* The invariant holds, and says that the volume is sound.                 *)
(***************************************************************************)
LEMMA FormattedIs ==
    ASSUME Clean
    PROVE  /\ Shaped(Formatted)
           /\ \A c \in Clusters : Link(Formatted, c) = IF c = Root THEN EndOfChain ELSE 0
           /\ \A t \in Clusters, i \in 1 .. Slots : Head(Formatted, t, i) = 0
<1> DEFINE v == Formatted
<1>1. v = [s \in Sectors |-> v[s]] /\ \A s \in Sectors : v[s] = NewSector(s)
  BY DEF Formatted
<1>2. \A f \in FatSectors : v[f] = NewFat(f)
  BY <1>1, SectorFacts, ClusterFacts DEF NewSector
<1>3. \A c \in Clusters : v[c] = Blank \/ v[c] = Leftover
  BY <1>1, SectorFacts, ClusterFacts DEF NewSector
<1> HIDE DEF v
<1>4. Table(Leftover) /\ \A i \in 1 .. Slots : Leftover.ent[i].clst = 0
  <2>1. /\ Leftover \in [ent : {Leftover.ent}, data : {Leftover.data}, dots : {Leftover.dots}]
        /\ Leftover.ent = [i \in 1 .. Slots |-> Leftover.ent[i]]
    BY FatAssumption DEF Contents
  <2>2. \A i \in 1 .. Slots : Leftover.ent[i].clst = 0 /\ ~Leftover.ent[i].dir
    BY FatAssumption DEF Clean
  <2> QED
    BY <2>1, <2>2 DEF Table, EntryOK
<1>5. ASSUME NEW f \in FatSectors
      PROVE  /\ NewFat(f) \in [InSector(f) -> Links]
             /\ \A c \in InSector(f) : NewFat(f)[c] = IF c = Root THEN EndOfChain ELSE 0
  BY SectorFacts DEF NewFat
<1>6. Shaped(v)
  BY <1>1, <1>2, <1>3, <1>4, <1>5, BlankIs DEF Shaped
<1>7. \A c \in Clusters : Link(v, c) = IF c = Root THEN EndOfChain ELSE 0
  BY <1>2, <1>5, SectorFacts DEF Link
<1>8. \A t \in Clusters, i \in 1 .. Slots : Head(v, t, i) = 0
  BY <1>3, <1>4, BlankIs DEF Head, Entry
<1> QED
  BY <1>6, <1>7, <1>8 DEF v

LEMMA Initially == ASSUME Clean, Init PROVE IInv
<1>1. /\ disk = Formatted /\ op = NoCall /\ fil = NoFile
      /\ win = [sect |-> Info, buf |-> disk[Info], dirty |-> FALSE]
  BY DEF Init, Loaded
<1>2. /\ Shaped(disk) /\ disk = [s \in Sectors |-> disk[s]]
      /\ \A c \in Clusters : Link(disk, c) = IF c = Root THEN EndOfChain ELSE 0
      /\ \A t \in Clusters, i \in 1 .. Slots : Head(disk, t, i) = 0
  BY <1>1, FormattedIs DEF Shaped
<1>3. Vol = disk
  BY <1>1, <1>2 DEF Vol
<1>4. WinInv
  <2>1. /\ win \in [sect : Sectors \cup {NoSector}, buf : {win.buf}, dirty : BOOLEAN]
        /\ win.dirty = FALSE
    BY <1>1, SectorFacts
  <2> QED
    BY <1>2, <1>3, <2>1 DEF WinInv
<1>5. GSound(disk)
  BY <1>2, ClusterFacts DEF GSound, LinksOK, HeadsOK
<1>6. /\ NoFile.open = FALSE /\ NoFile.sclust = 0 /\ NoFile.clust = 0 /\ NoFile.dirty = FALSE
      /\ NoFile.sect = 0 /\ NoFile.size = 0 /\ 0 % Units = 0
  BY FatAssumption DEF NoFile
<1>7. FilOK
  <2>1. fil \in FilType
    BY <1>1, ClusterFacts, FatAssumption DEF NoFile, FilType
  <2> QED
    BY <1>1, <1>6, <2>1 DEF FilOK
<1>8. Control
  <2>1. op \in OpType
    BY <1>1, NoCallIs DEF OpType
  <2>2. Places /\ MkdirInv /\ FileInv
    BY <1>1, NoCallIs DEF Places, MkdirInv, FileInv
  <2> QED
    BY <1>7, <2>1, <2>2 DEF Control
<1>9. ~Unentered /\ \A v \in Views : v = disk /\ Facts(v)
  BY <1>1, <1>3, <1>6, NoCallIs DEF Views, Facts, Unentered
<1>10. WindowInv
  BY <1>3, <1>9 DEF WindowInv
<1> QED
  BY <1>4, <1>5, <1>8, <1>9, <1>10 DEF IInv

LEMMA Kept == ASSUME IInv, [Next]_vars PROVE IInv'
<1>1. CASE CallStep
  BY <1>1, FindStep, FindNextStep, CheckEmptyStep, CheckNextStep, RegisterStep, FullTableStep,
     AllocNextStep, ResetStep, BackStep, DropStep, FreeStep, AllocateStep, LinkItStep, FullStep,
     ClearStep, ChunkStep, SpillStep, DataStep, PutEntryStep, InfoStep, SyncedStep, SyncWindowStep
     DEF CallStep
<1>2. CASE User
  <2>1. Directories(Vol) \subseteq Clusters
    BY ClusterFacts DEF Directories
  <2>2. CASE \E d \in Directories(Vol), n \in Names :
                 \/ \E new \in BOOLEAN : Open(d, n, new)
                 \/ Mkdir(d, n)
                 \/ Unlink(d, n)
    BY <2>1, <2>2, NameStep
  <2>3. CASE \E d \in Directories(Vol) : Chdir(d)
    BY <2>3, IdleStep DEF Chdir
  <2>4. CASE Close \/ \E k \in 1 .. MaxSize : Write(k)
    BY <2>4, FileStep
  <2>5. CASE SyncWindow
    BY <2>5, SyncWindowStep
  <2> QED
    BY <1>2, <2>2, <2>3, <2>4, <2>5 DEF User
<1>3. CASE DiskFault
  <2>1. disk' = disk
    BY <1>3 DEF DiskFault
  <2>2. CASE FlushFails \/ DataFails \/ SyncFails
    BY <2>1, <2>2, GiveUpStep DEF FlushFails, DataFails, SyncFails
  <2>3. CASE ReadFails
    BY <2>1, <2>3, ReadFailsStep
  <2>4. CASE ClearFails
    BY <2>1, <2>4, ClearFailsStep
  <2>5. CASE InfoFails
    BY <2>1, <2>5, InfoStep
  <2> QED
    BY <1>3, <2>2, <2>3, <2>4, <2>5 DEF DiskFault
<1>4. CASE PowerLoss
  BY <1>4, PowerLossStep
<1>5. CASE UNCHANGED vars
  BY <1>5, IdleStep DEF vars
<1> QED
  BY <1>1, <1>2, <1>3, <1>4, <1>5 DEF Next

\* Whatever fails and whenever the power goes, neither the disk nor what FatFs
\* sees of it has a cluster with two owners or a reference to a free cluster:
\* put_fat, dir_register, remove_chain and create_chain write in an order
\* that costs lost clusters at most.
THEOREM NeverCrossLinked == ASSUME Clean PROVE Spec => []NoCrossLink
<1>1. Init => IInv
  BY Initially
<1>2. IInv /\ [Next]_vars => IInv'
  BY Kept
<1>3. IInv => NoCrossLink
  <2> SUFFICES ASSUME IInv PROVE NoCrossLink
    OBVIOUS
  <2>1. GSound(disk) /\ GSound(Vol)
    BY DEF IInv, Views
  <2> QED
    BY <2>1, GSoundIsSound DEF NoCrossLink
<1> QED
  BY <1>1, <1>2, <1>3, PTL DEF Spec

(***************************************************************************)
(* TypeOK and FreeCount.  The count of free clusters goes down when        *)
(* create_chain has linked the cluster and not when it marks it; what it   *)
(* links to, and the directory a call looks through, are not free.         *)
(***************************************************************************)
HeldIn(v) == \A c \in Clusters : v[c] \in Contents

FsOK    == fs \in [free : 0 .. LastCluster - 1, last : {fs.last}, flag : BOOLEAN, cdir : Clusters]
BufType == [1 .. Units -> Nat \X Nat]
FileOK  ==
    /\ fil.ver \in Nat /\ fil.buf \in BufType
    /\ fil.size <= MaxSize
    /\ op.call = "write" => fil.size + op.left <= MaxSize
SpentOK == spent \in [calls : Nat, faults : Nat, losses : Nat]

Typed ==
    /\ HeldIn(disk) /\ HeldIn(Vol)
    /\ disk[Info].free \in 0 .. LastCluster - 1
    /\ FsOK /\ FileOK /\ SpentOK

Uses(v, o, f) ==
    /\ (o.pc \in {"find", "find_next", "alloc", "alloc_next", "chain", "link", "clear"}
            /\ o.call # "write") => Link(v, o.d) # 0
    /\ o.pc \in {"find", "find_next", "alloc", "alloc_next"} => Link(v, o.t) # 0
    /\ o.pc \in {"chain", "link"} /\ o.clst # 0 => Link(v, o.clst) # 0
    /\ o.pc = "clear" => Link(v, o.ncl) # 0
    /\ f.clust # 0 => Link(v, f.clust) # 0
InUse == Uses(Vol, op, fil)

\* The cluster that is marked and not linked yet.
Pending == IF op.pc = "link" THEN 1 ELSE 0
Counts  == Cardinality(FreeIn(Vol)) + Pending

Counted ==
    /\ ~win.dirty => SameLinks(disk, Vol)
    /\ spent.losses = 0 => fs.free >= Counts
    /\ (spent.losses = 0 /\ spent.faults = 0) =>
          fs.free = Counts /\ (disk[Info].free = fs.free \/ fs.flag)

CInv == Typed /\ InUse /\ Counted

(***************************************************************************)
(* How many clusters are free.                                             *)
(***************************************************************************)
LEMMA FreeSame == ASSUME NEW v, NEW w, SameLinks(v, w) PROVE FreeIn(w) = FreeIn(v)
  BY DEF FreeIn, SameLinks

LEMMA FreeFinite ==
    ASSUME NEW v
    PROVE  /\ IsFiniteSet(FreeIn(v)) /\ Cardinality(FreeIn(v)) \in Nat
           /\ Cardinality(FreeIn(v)) <= LastCluster - 1
<1>1. LastCluster \in Nat \ {0, 1}
  BY FatAssumption
<1>2. IsFiniteSet(Clusters) /\ Cardinality(Clusters) = LastCluster - 1
  BY <1>1, FS_Interval DEF Clusters
<1>3. FreeIn(v) \subseteq Clusters
  BY DEF FreeIn
<1>4. IsFiniteSet(FreeIn(v)) /\ Cardinality(FreeIn(v)) <= Cardinality(Clusters)
  BY <1>2, <1>3, FS_Subset
<1> QED
  BY <1>2, <1>4, FS_CardinalityType

\* One is taken.
LEMMA OneLess ==
    ASSUME NEW v, NEW w, NEW c \in Clusters, NEW x, x # 0, Link(v, c) = 0,
           \A y \in Clusters : Link(w, y) = IF y = c THEN x ELSE Link(v, y)
    PROVE  Cardinality(FreeIn(w)) = Cardinality(FreeIn(v)) - 1
<1>1. c \in FreeIn(v) /\ FreeIn(w) = FreeIn(v) \ {c}
  BY DEF FreeIn
<1> QED
  BY <1>1, FreeFinite, FS_RemoveElement

\* One is given back.
LEMMA OneMore ==
    ASSUME NEW v, NEW w, NEW c \in Clusters, Link(v, c) # 0,
           \A y \in Clusters : Link(w, y) = IF y = c THEN 0 ELSE Link(v, y)
    PROVE  Cardinality(FreeIn(w)) = Cardinality(FreeIn(v)) + 1
<1>1. c \notin FreeIn(v) /\ FreeIn(w) = FreeIn(v) \cup {c}
  BY DEF FreeIn
<1> QED
  BY <1>1, FreeFinite, FS_AddElement

\* No link that is there goes: nothing more is free.
LEMMA NoneMore ==
    ASSUME NEW v, NEW w, NEW c \in Clusters, NEW x, x # 0, Link(v, c) # 0,
           \A y \in Clusters : Link(w, y) = IF y = c THEN x ELSE Link(v, y)
    PROVE  Cardinality(FreeIn(w)) = Cardinality(FreeIn(v))
<1>1. FreeIn(w) = FreeIn(v)
  BY DEF FreeIn
<1> QED
  BY <1>1

LEMMA RootIsNot ==
    ASSUME NEW v, Link(v, Root) # 0 PROVE Cardinality(FreeIn(v)) < LastCluster - 1
<1>1. LastCluster \in Nat \ {0, 1}
  BY FatAssumption
<1>2. IsFiniteSet(Clusters) /\ Cardinality(Clusters) = LastCluster - 1
  BY <1>1, FS_Interval DEF Clusters
<1>3. FreeIn(v) \subseteq Clusters \ {Root}
  BY DEF FreeIn
<1>4. /\ IsFiniteSet(Clusters \ {Root})
      /\ Cardinality(Clusters \ {Root}) = Cardinality(Clusters) - 1
  BY <1>2, ClusterFacts, FS_RemoveElement
<1>5. Cardinality(FreeIn(v)) <= Cardinality(Clusters \ {Root})
  BY <1>3, <1>4, FS_Subset
<1> QED
  BY <1>1, <1>2, <1>4, <1>5, FreeFinite

(***************************************************************************)
(* What is seen of the links and the contents through the window.          *)
(***************************************************************************)
\* A step that leaves the links alone, on the disk too when the window is clean.
LinksStay == SameLinks(Vol, Vol') /\ (~win'.dirty => SameLinks(disk', Vol'))

LEMMA ViewLinks == ASSUME Counted, NEW v \in Views PROVE SameLinks(v, Vol)
<1>1. CASE v = Vol
  BY <1>1 DEF SameLinks
<1>2. CASE v # Vol
  BY <1>2 DEF Views, Counted
<1> QED
  BY <1>1, <1>2

LEMMA BaseLinks ==
    ASSUME Counted, NEW s, Movable(s), Typed
    PROVE  SameLinks(Base(s), Vol) /\ HeldIn(Base(s))
<1>1. CASE win.sect = s
  BY <1>1 DEF Base, SameLinks, Typed
<1>2. CASE win.sect # s
  BY <1>2 DEF Base, Movable, Counted, Typed
<1> QED
  BY <1>1, <1>2

LEMMA VisitStays ==
    ASSUME IInv, CInv, NEW s \in Sectors, Movable(s), Visit(s), disk' = disk
    PROVE  LinksStay /\ HeldIn(disk') /\ HeldIn(Vol')
<1>1. (win.sect = s /\ Vol' = Vol) \/ (~win.dirty /\ Vol' = disk)
  BY VisitKeeps DEF IInv
<1>2. win'.dirty = (win.dirty /\ win.sect = s)
  BY DEF Visit
<1>3. CASE win.sect = s /\ Vol' = Vol
  <2>1. win'.dirty = win.dirty
    BY <1>2, <1>3 DEF IInv, WinInv
  <2>2. SameLinks(Vol, Vol)
    BY DEF SameLinks
  <2>3. ~win'.dirty => SameLinks(disk', Vol')
    BY <1>3, <2>1 DEF CInv, Counted
  <2>4. HeldIn(disk) /\ HeldIn(Vol)
    BY DEF CInv, Typed
  <2> QED
    BY <1>3, <2>2, <2>3, <2>4 DEF LinksStay
<1>4. CASE ~win.dirty /\ Vol' = disk
  <2>1. SameLinks(disk, Vol) /\ HeldIn(disk)
    BY <1>4 DEF CInv, Counted, Typed
  <2>2. SameLinks(Vol, Vol') /\ SameLinks(disk', Vol')
    BY <1>4, <2>1 DEF SameLinks
  <2> QED
    BY <1>4, <2>1, <2>2 DEF LinksStay
<1> QED
  BY <1>1, <1>3, <1>4

LEMMA EditStays ==
    ASSUME IInv, CInv, NEW t \in Clusters, NEW i \in 1 .. Slots, NEW e \in Entries, EntryOK(e),
           SetEntry(t, i, e), Movable(t), disk' = disk
    PROVE  LinksStay /\ HeldIn(disk') /\ HeldIn(Vol')
<1> DEFINE v == Base(t)
           b == [Vol[t] EXCEPT !.ent[i] = e]
<1>1. t \in Sectors
  BY SectorFacts
<1>2. Edit(t, b)
  BY DEF SetEntry
<1>3. Shaped(v) /\ SameLinks(v, Vol) /\ HeldIn(v)
  BY BaseLinks DEF IInv, WinInv, Base, CInv
<1>4. v[t] = Vol[t]
  BY <1>1 DEF Base, Vol
<1> HIDE DEF v
<1>5. Shaped(Over(v, t, b)) /\ HeadIs(v, Over(v, t, b), t, i, e.clst)
  BY <1>3, <1>4, EntryEdit
<1>6. Vol[t] \in Contents
  BY DEF CInv, Typed, HeldIn
<1>7. b \in Contents
  BY <1>6 DEF Contents
<1> HIDE DEF b
<1>8. Vol' = Over(v, t, b)
  BY <1>1, <1>2, <1>5, EditGives DEF v, IInv
<1>9. HeldIn(Vol')
  BY <1>3, <1>7, <1>8, SectorFacts DEF HeldIn, Over
<1>10. SameLinks(Vol, Vol')
  BY <1>3, <1>5, <1>8 DEF HeadIs, SameLinks
<1>11. win'.dirty /\ HeldIn(disk)
  BY <1>2 DEF Edit, CInv, Typed
<1> QED
  BY <1>9, <1>10, <1>11 DEF LinksStay

LEMMA LinkSet ==
    ASSUME IInv, CInv, NEW c \in Clusters, NEW x \in Links, SetLink(c, x), Movable(FatOf[c]),
           disk' = disk
    PROVE  /\ \A y \in Clusters : Link(Vol', y) = IF y = c THEN x ELSE Link(Vol, y)
           /\ win'.dirty /\ HeldIn(disk') /\ HeldIn(Vol')
<1> DEFINE s == FatOf[c]
           v == Base(s)
           b == [Vol[s] EXCEPT ![c] = x]
<1>1. s \in FatSectors /\ s \in Sectors /\ s \notin Clusters
  BY SectorFacts
<1>2. Edit(s, b)
  BY DEF SetLink
<1>3. Shaped(v) /\ SameLinks(v, Vol) /\ HeldIn(v)
  BY BaseLinks DEF IInv, WinInv, Base, CInv
<1>4. v[s] = Vol[s]
  BY <1>1 DEF Base, Vol
<1> HIDE DEF v
<1>5. Shaped(Over(v, s, b)) /\ LinkIs(v, Over(v, s, b), c, x)
  BY <1>3, <1>4, LinkEdit
<1> HIDE DEF b, s
<1>6. Vol' = Over(v, s, b)
  BY <1>1, <1>2, <1>5, EditGives DEF v, IInv, s
<1>7. HeldIn(Vol')
  BY <1>1, <1>3, <1>6, SectorFacts DEF HeldIn, Over
<1>8. \A y \in Clusters : Link(Vol', y) = IF y = c THEN x ELSE Link(Vol, y)
  BY <1>3, <1>5, <1>6 DEF LinkIs, SameLinks
<1>9. win'.dirty /\ HeldIn(disk)
  BY <1>2 DEF Edit, CInv, Typed
<1> QED
  BY <1>7, <1>8, <1>9

\* A cluster is written past the window.
LEMMA PastStays ==
    ASSUME IInv, CInv, NEW c \in Clusters, NEW b \in Contents, disk' = [disk EXCEPT ![c] = b],
           win' = win \/ \E d \in Contents, x \in BOOLEAN :
                             ~win.dirty /\ win' = [sect |-> c, buf |-> d, dirty |-> x]
    PROVE  LinksStay /\ HeldIn(disk') /\ HeldIn(Vol')
<1>1. disk' = Over(disk, c, b)
  BY VolIsOver DEF IInv, Over
<1>2. c \in Sectors /\ c \notin FatSectors
  BY SectorFacts
<1>3. HeldIn(disk')
  BY <1>1, <1>2, SectorFacts DEF CInv, Typed, HeldIn, Over
<1>4. SameLinks(disk, disk')
  BY <1>1, <1>2, SectorFacts DEF SameLinks, Link, Over
<1>5. CASE win' = win
  <2>1. \A s \in Sectors : Vol'[s] = Vol[s] \/ (s = c /\ Vol'[s] = b)
    BY <1>1, <1>5 DEF Vol, Over
  <2>2. HeldIn(Vol')
    BY <2>1, SectorFacts DEF CInv, Typed, HeldIn
  <2>3. SameLinks(Vol, Vol')
    BY <1>2, <2>1, SectorFacts DEF SameLinks, Link
  <2>4. ~win'.dirty => SameLinks(disk, Vol)
    BY <1>5 DEF CInv, Counted
  <2>5. ~win'.dirty => SameLinks(disk', Vol')
    BY <1>4, <2>3, <2>4 DEF SameLinks
  <2> QED
    BY <1>3, <2>2, <2>3, <2>5 DEF LinksStay
<1>6. CASE win' # win
  <2> PICK d \in Contents, x \in BOOLEAN : ~win.dirty /\ win' = [sect |-> c, buf |-> d, dirty |-> x]
    BY <1>6
  <2>1. \A s \in Sectors : Vol'[s] = IF s = c THEN d ELSE disk'[s]
    BY DEF Vol
  <2>2. HeldIn(Vol')
    BY <1>3, <2>1, SectorFacts DEF HeldIn
  <2>3. SameLinks(disk', Vol')
    BY <1>2, <2>1, SectorFacts DEF SameLinks, Link
  <2>4. SameLinks(disk, Vol)
    BY DEF CInv, Counted
  <2>5. SameLinks(Vol, Vol')
    BY <1>4, <2>3, <2>4 DEF SameLinks
  <2> QED
    BY <1>3, <2>2, <2>3, <2>5 DEF LinksStay
<1> QED
  BY <1>5, <1>6

LEMMA ContentsAre ==
    /\ NoEntry \in Entries /\ \A n \in Names : [NoEntry EXCEPT !.name = n] \in Entries
    /\ NoData \in BufType
    /\ Blank \in Contents /\ [Blank EXCEPT !.dots = TRUE] \in Contents
    /\ \A x \in BufType : [Blank EXCEPT !.data = x] \in Contents
<1>1. NoEntry \in Entries /\ \A n \in Names : [NoEntry EXCEPT !.name = n] \in Entries
  BY DEF NoEntry, Entries
<1>2. NoData \in BufType
  BY DEF NoData, NoUnit, BufType
<1>3. Blank \in [ent : [1 .. Slots -> Entries], data : BufType, dots : BOOLEAN]
  BY <1>1, <1>2 DEF Blank
<1> QED
  BY <1>1, <1>2, <1>3 DEF Contents, BufType

(***************************************************************************)
(* The parts of the invariant that a step leaves alone.                    *)
(***************************************************************************)
StillUsed(v, w) == \A c \in Clusters : Link(v, c) # 0 => Link(w, c) # 0

LEMMA UsesStay ==
    ASSUME StillUsed(Vol, Vol'), IInv', Uses(Vol, op', fil')
    PROVE  InUse'
<1>1. Control'
  BY DEF IInv
<1>2. /\ op'.d \in Clusters /\ op'.t \in Clusters
      /\ op'.clst \in Clusters \cup {0} /\ op'.ncl \in Clusters \cup {0}
      /\ op'.pc = "clear" => op'.ncl \in Clusters
  BY <1>1 DEF Control, Places, OpType
<1>3. fil'.clust \in Clusters \cup {0}
  BY <1>1 DEF Control, FilOK, FilType
<1>4. Uses(Vol', op', fil')
  BY <1>2, <1>3 DEF Uses, StillUsed
<1> QED
  BY <1>4 DEF InUse

LEMMA LinksUsed == ASSUME LinksStay PROVE StillUsed(Vol, Vol')
  BY DEF LinksStay, SameLinks, StillUsed

LEMMA PendingIs ==
    ASSUME CInv
    PROVE  Pending \in {0, 1} /\ Counts \in Nat /\ Pending' \in {0, 1}
  BY FreeFinite DEF Pending, Counts

LEMMA CountStays ==
    ASSUME CInv, LinksStay, fs'.free = fs.free, spent'.losses = spent.losses, SpentOK',
           Pending' <= Pending,
           \/ /\ spent'.faults = spent.faults /\ Pending' = Pending
              /\ \/ disk'[Info].free = fs.free
                 \/ disk'[Info] = disk[Info] /\ (fs.flag => fs'.flag)
           \/ spent'.faults # 0
    PROVE  Counted'
<1>1. FreeIn(Vol') = FreeIn(Vol)
  BY FreeSame DEF LinksStay
<1>2. Counts' = Cardinality(FreeIn(Vol)) + Pending'
  BY <1>1 DEF Counts
<1>3. Cardinality(FreeIn(Vol)) \in Nat /\ fs.free \in Int /\ Pending \in {0, 1} /\ Pending' \in {0, 1}
  BY FreeFinite, PendingIs, FatAssumption DEF CInv, Typed, FsOK
<1>4. Counts' <= Counts /\ Counts \in Int /\ Counts' \in Int
  BY <1>2, <1>3 DEF Counts
<1>5. spent'.losses = 0 => fs'.free >= Counts'
  BY <1>3, <1>4 DEF CInv, Counted
<1>6. (spent'.losses = 0 /\ spent'.faults = 0) =>
          fs'.free = Counts' /\ (disk'[Info].free = fs'.free \/ fs'.flag)
  <2> SUFFICES ASSUME spent'.losses = 0, spent'.faults = 0
               PROVE  fs'.free = Counts' /\ (disk'[Info].free = fs'.free \/ fs'.flag)
    OBVIOUS
  <2>1. /\ spent.faults = 0 /\ spent.losses = 0 /\ Pending' = Pending
        /\ \/ disk'[Info].free = fs.free
           \/ disk'[Info] = disk[Info] /\ (fs.flag => fs'.flag)
    OBVIOUS
  <2>2. fs.free = Counts /\ (disk[Info].free = fs.free \/ fs.flag)
    BY <2>1 DEF CInv, Counted
  <2>3. fs'.free = Counts'
    BY <1>2, <2>1, <2>2 DEF Counts
  <2> QED
    BY <2>1, <2>2, <2>3
<1> QED
  BY <1>5, <1>6 DEF Counted, LinksStay

LEMMA FileSame ==
    ASSUME FileOK, fil' = fil, op'.call = "write" => op.call = "write" /\ op'.left = op.left
    PROVE  FileOK'
  BY DEF FileOK

\* A step that only moves the window or changes what is in a cluster.
LEMMA Carried ==
    ASSUME IInv, IInv', CInv, LinksStay, HeldIn(disk'), HeldIn(Vol'), disk'[Info] = disk[Info],
           fs' = fs, spent' = spent, op.pc # "link", op'.pc # "link",
           Uses(Vol, op', fil'), FileOK'
    PROVE  CInv'
<1>1. Typed'
  BY DEF CInv, Typed, FsOK, SpentOK
<1>2. InUse'
  BY LinksUsed, UsesStay
<1>3. Pending' = Pending /\ Pending \in {0, 1}
  BY DEF Pending
<1>4. Counted'
  <2>1. SpentOK' /\ spent'.losses = spent.losses /\ spent'.faults = spent.faults
        /\ fs'.free = fs.free /\ fs'.flag = fs.flag
    BY DEF CInv, Typed, SpentOK
  <2>2. Pending' <= Pending
    BY <1>3
  <2> QED
    BY <1>3, <2>1, <2>2, CountStays
<1> QED
  BY <1>1, <1>2, <1>4 DEF CInv

\* A link of the volume that leads to a cluster leads to one in use.
LEMMA Leads ==
    ASSUME IInv, NEW c \in Clusters, Link(Vol, c) \in Clusters
    PROVE  Link(Vol, Link(Vol, c)) # 0
<1>1. GSound(Vol)
  BY DEF IInv, Views
<1> QED
  BY <1>1 DEF GSound, LinksOK

LEMMA NoUse ==
    ASSUME InUse, fil'.clust = fil.clust \/ fil'.clust = 0,
           op'.pc \notin {"find", "find_next", "alloc", "alloc_next", "chain", "link", "clear"}
    PROVE  Uses(Vol, op', fil')
  BY DEF InUse, Uses

\* What the calls on a name have in common.
LEMMA NameCall ==
    ASSUME IInv, op.call \in {"open", "mkdir", "unlink"}
    PROVE  /\ op \in OpType /\ fil.sclust = 0 /\ fil.clust = 0 /\ op.pc # "idle"
           /\ op.t \in Clusters /\ op.d \in Clusters /\ op.i \in 1 .. Slots
  BY DEF IInv, Control, Places, FileInv, FilOK, OpType

(***************************************************************************)
(* The steps that read.                                                    *)
(***************************************************************************)
LEMMA FindCounts == ASSUME IInv, IInv', CInv, Find PROVE CInv'
<1>1. op.pc = "find" /\ Ready /\ Visit(op.t) /\ UNCHANGED <<disk, fs, fil, spent>>
  BY DEF Find, At
<1>2. /\ op \in OpType /\ op.t \in Clusters /\ op.t \in Sectors
      /\ op.call \in {"open", "mkdir", "unlink"} /\ fil.clust = 0
  BY <1>1, SectorFacts, NameCall DEF IInv, Control, Places
<1>3. LinksStay /\ HeldIn(disk') /\ HeldIn(Vol')
  <2>1. Movable(op.t)
    BY <1>1, WantedIs DEF Ready, Movable
  <2> QED
    BY <1>1, <1>2, <2>1, VisitStays
<1>4. /\ op'.pc \in {"idle", "reset", "drop", "empty", "find_next"}
      /\ op'.call # "write"
      /\ op'.pc = "find_next" => op' = Go("find_next")
  <2>1. CASE \E i \in FirstOf(Vol, op.t, op.n) : op' = Found(i)
    <3> PICK i \in 1 .. Slots : op' = Found(i)
      BY <2>1 DEF FirstOf
    <3>1. \/ op' = NoCall
          \/ \E p \in {"reset", "drop", "empty"} : \E x :
                op' = [op EXCEPT !.i = i, !.dcl = x, !.clst = x, !.pc = p]
      BY DEF Found
    <3> QED
      BY <1>2, <3>1, NoCallIs DEF OpType
  <2>2. CASE op' = Go("find_next")
    BY <1>2, <2>2 DEF Go, OpType
  <2> QED
    BY <2>1, <2>2 DEF Find
<1>5. Uses(Vol, op', fil')
  <2>1. CASE op'.pc = "find_next"
    <3>1. op' = [op EXCEPT !.pc = "find_next"]
      BY <1>4, <2>1 DEF Go
    <3>2. op'.call = op.call /\ op'.d = op.d /\ op'.t = op.t
      BY <1>2, <3>1 DEF OpType
    <3> QED
      BY <1>1, <1>2, <2>1, <3>2 DEF Uses, CInv, InUse
  <2>2. CASE op'.pc # "find_next"
    BY <1>1, <1>4, <2>2, NoUse DEF CInv
  <2> QED
    BY <2>1, <2>2
<1>6. FileOK'
  BY <1>1, <1>4, FileSame DEF CInv, Typed
<1> QED
  BY <1>1, <1>3, <1>4, <1>5, <1>6, Carried

LEMMA FindNextCounts == ASSUME IInv, IInv', CInv, FindNext PROVE CInv'
<1> DEFINE nxt == Link(Vol, op.t)
<1>1. /\ op.pc = "find_next" /\ Ready /\ Visit(FatOf[op.t]) /\ UNCHANGED <<disk, fs, fil, spent>>
      /\ op' = IF nxt \in Clusters THEN [op EXCEPT !.pc = "find", !.t = nxt] ELSE NotFound
  BY DEF FindNext, At
<1>2. /\ op \in OpType /\ op.t \in Clusters /\ FatOf[op.t] \in Sectors
      /\ op.call \in {"open", "mkdir", "unlink"} /\ fil.clust = 0 /\ op.clst = 0
  BY <1>1, SectorFacts, NameCall DEF IInv, Control, Places
<1>3. LinksStay /\ HeldIn(disk') /\ HeldIn(Vol')
  <2>1. Movable(FatOf[op.t])
    BY <1>1, WantedIs DEF Ready, Movable
  <2> QED
    BY <1>1, <1>2, <2>1, VisitStays
<1>4. Link(Vol, op.d) # 0 /\ (nxt \in Clusters => Link(Vol, nxt) # 0)
  BY <1>1, <1>2, Leads DEF CInv, InUse, Uses
<1> HIDE DEF nxt
<1>5. \/ op' = NoCall
      \/ op' = [op EXCEPT !.pc = "find", !.t = nxt] /\ nxt \in Clusters
      \/ op' = [op EXCEPT !.pc = "alloc", !.t = op.d]
      \/ op' = [op EXCEPT !.pc = "chain", !.t = op.d]
  BY <1>1 DEF NotFound
<1>6. /\ op'.pc \in {"idle", "find", "alloc", "chain"} /\ op'.call # "write"
      /\ op'.pc # "idle" => /\ op'.d = op.d /\ op'.clst = 0
                            /\ Link(Vol, op'.t) # 0
  BY <1>2, <1>4, <1>5, NoCallIs DEF OpType
<1>7. Uses(Vol, op', fil')
  BY <1>1, <1>2, <1>4, <1>6 DEF Uses
<1>8. FileOK'
  BY <1>1, <1>6, FileSame DEF CInv, Typed
<1> QED
  BY <1>1, <1>3, <1>6, <1>7, <1>8, Carried

LEMMA EmptyCounts == ASSUME IInv, IInv', CInv, CheckEmpty \/ CheckNext PROVE CInv'
<1>1. PICK s \in {op.clst, FatOf[op.clst]} :
        /\ Visit(s) /\ Ready /\ Wanted = {s}
        /\ op.pc \in {"empty", "empty_next"} /\ UNCHANGED <<disk, fs, fil, spent>>
  BY WantedIs DEF CheckEmpty, CheckNext, At
<1>2. \/ op' = NoCall
      \/ op' = [op EXCEPT !.pc = "empty_next", !.seen = @ \cup {op.clst}]
      \/ \E p \in {"empty", "drop"} : \E c : op' = [op EXCEPT !.pc = p, !.clst = c]
  BY DEF CheckEmpty, CheckNext
<1>3. /\ op \in OpType /\ op.clst \in Clusters
      /\ op.call \in {"open", "mkdir", "unlink"}
  BY <1>1 DEF IInv, Control, Places, OpType
<1>4. s \in Sectors
  BY <1>3, SectorFacts
<1>5. LinksStay /\ HeldIn(disk') /\ HeldIn(Vol')
  <2>1. Movable(s)
    BY <1>1 DEF Ready, Movable
  <2> QED
    BY <1>1, <1>4, <2>1, VisitStays
<1>6. op'.pc \in {"idle", "empty", "empty_next", "drop"} /\ op'.call # "write"
  BY <1>2, <1>3, NoCallIs DEF OpType
<1>7. Uses(Vol, op', fil')
  BY <1>1, <1>6, NoUse DEF CInv
<1>8. FileOK'
  BY <1>1, <1>6, FileSame DEF CInv, Typed
<1> QED
  BY <1>1, <1>5, <1>6, <1>7, <1>8, Carried

LEMMA FullTableCounts == ASSUME IInv, IInv', CInv, FullTable PROVE CInv'
<1>1. /\ op.pc = "alloc" /\ Ready /\ Visit(op.t) /\ UNCHANGED <<disk, fs, fil, spent>>
      /\ op' = [op EXCEPT !.pc = "alloc_next"]
  BY DEF FullTable, At, Go
<1>2. /\ op \in OpType /\ op.t \in Sectors /\ op.call \in {"open", "mkdir"} /\ fil.clust = 0
  BY <1>1, SectorFacts, NameCall DEF IInv, Control, Places
<1>3. LinksStay /\ HeldIn(disk') /\ HeldIn(Vol')
  <2>1. Movable(op.t)
    BY <1>1, WantedIs DEF Ready, Movable
  <2> QED
    BY <1>1, <1>2, <2>1, VisitStays
<1>4. op'.pc = "alloc_next" /\ op'.call = op.call /\ op'.d = op.d /\ op'.t = op.t
  BY <1>1, <1>2 DEF OpType
<1>5. Uses(Vol, op', fil')
  BY <1>1, <1>2, <1>4 DEF CInv, InUse, Uses
<1>6. FileOK'
  BY <1>1, <1>2, <1>4, FileSame DEF CInv, Typed
<1> QED
  BY <1>1, <1>3, <1>4, <1>5, <1>6, Carried

LEMMA AllocNextCounts == ASSUME IInv, IInv', CInv, AllocNext PROVE CInv'
<1> DEFINE nxt == Link(Vol, op.t)
<1>1. /\ op.pc = "alloc_next" /\ Ready /\ Visit(FatOf[op.t]) /\ UNCHANGED <<disk, fs, fil, spent>>
      /\ op' = IF nxt \in Clusters THEN [op EXCEPT !.pc = "alloc", !.t = nxt]
               ELSE [op EXCEPT !.pc = "chain", !.clst = op.t]
  BY DEF AllocNext, At
<1>2. /\ op \in OpType /\ op.t \in Clusters /\ FatOf[op.t] \in Sectors
      /\ op.call \in {"open", "mkdir"} /\ fil.clust = 0
  BY <1>1, SectorFacts, NameCall DEF IInv, Control, Places
<1>3. LinksStay /\ HeldIn(disk') /\ HeldIn(Vol')
  <2>1. Movable(FatOf[op.t])
    BY <1>1, WantedIs DEF Ready, Movable
  <2> QED
    BY <1>1, <1>2, <2>1, VisitStays
<1>4. Link(Vol, op.d) # 0 /\ Link(Vol, op.t) # 0 /\ (nxt \in Clusters => Link(Vol, nxt) # 0)
  BY <1>1, <1>2, Leads DEF CInv, InUse, Uses
<1> HIDE DEF nxt
<1>5. \/ op'.pc = "alloc" /\ op'.t = nxt /\ nxt \in Clusters
      \/ op'.pc = "chain" /\ op'.clst = op.t
  BY <1>1, <1>2 DEF OpType
<1>6. op'.call = op.call /\ op'.d = op.d
  BY <1>1, <1>2 DEF OpType
<1>7. Uses(Vol, op', fil')
  BY <1>1, <1>2, <1>4, <1>5, <1>6 DEF Uses
<1>8. FileOK'
  BY <1>1, <1>2, <1>6, FileSame DEF CInv, Typed
<1> QED
  BY <1>1, <1>3, <1>5, <1>7, <1>8, Carried

LEMMA OpenedCounts ==
    ASSUME IInv, CInv, NEW t, NEW i, Opened(t, i), op' = NoCall
    PROVE  FileOK' /\ fil'.clust = 0
<1>1. NoFile.buf = NoData /\ NoFile.size = 0 /\ NoFile.clust = 0
  BY DEF NoFile
<1>2. fil' = [NoFile EXCEPT !.open = TRUE, !.fresh = op.fresh, !.d = op.d, !.n = op.n,
                            !.t = t, !.i = i, !.ver = spent.calls]
  BY DEF Opened
<1>3. fil'.buf = NoData /\ fil'.size = 0 /\ fil'.clust = 0 /\ fil'.ver = spent.calls
  BY <1>1, <1>2 DEF NoFile
<1>4. spent.calls \in Nat /\ MaxSize \in Nat
  BY FatAssumption DEF CInv, Typed, SpentOK
<1> QED
  BY <1>3, <1>4, NoCallIs, ContentsAre DEF FileOK

LEMMA BackCounts == ASSUME IInv, IInv', CInv, Back PROVE CInv'
<1>1. /\ op.pc = "back" /\ Ready /\ Visit(op.t) /\ disk' = disk /\ op' = NoCall
      /\ Opened(op.t, op.i) /\ spent' = spent /\ fs' = [fs EXCEPT !.last = op.dcl - 1]
  BY DEF Back, At, HoleFirst
<1>2. op.t \in Sectors
  BY <1>1, SectorFacts DEF IInv, Control, OpType
<1>3. LinksStay /\ HeldIn(disk') /\ HeldIn(Vol')
  <2>1. Movable(op.t)
    BY <1>1, WantedIs DEF Ready, Movable
  <2> QED
    BY <1>1, <1>2, <2>1, VisitStays
<1>4. FileOK' /\ fil'.clust = 0
  BY <1>1, OpenedCounts
<1>5. FsOK' /\ fs'.free = fs.free /\ fs'.flag = fs.flag
  BY <1>1 DEF CInv, Typed, FsOK
<1>6. Typed'
  BY <1>1, <1>3, <1>4, <1>5 DEF CInv, Typed, SpentOK
<1>7. InUse'
  BY <1>1, <1>3, <1>4, NoCallIs, NoUse, LinksUsed, UsesStay DEF CInv
<1>8. Counted'
  <2>1. Pending' = 0 /\ Pending = 0
    BY <1>1, NoCallIs DEF Pending
  <2> QED
    BY <1>1, <1>3, <1>5, <1>6, <2>1, CountStays DEF Typed
<1> QED
  BY <1>6, <1>7, <1>8 DEF CInv

(***************************************************************************)
(* The steps that change an entry.                                         *)
(***************************************************************************)
LEMMA SlotStep ==
    ASSUME IInv, IInv', CInv, NEW t \in Clusters, NEW i \in 1 .. Slots, NEW e \in Entries, EntryOK(e),
           SetEntry(t, i, e), Wanted = {t}, Ready, UNCHANGED <<disk, fs, spent>>,
           op.pc # "link",
           op'.pc \notin {"find", "find_next", "alloc", "alloc_next", "chain", "link", "clear"},
           fil'.clust = fil.clust \/ fil'.clust = 0, FileOK'
    PROVE  CInv'
<1>1. Movable(t)
  BY DEF Ready, Movable
<1>2. LinksStay /\ HeldIn(disk') /\ HeldIn(Vol')
  BY <1>1, EditStays
<1>3. Uses(Vol, op', fil')
  BY NoUse DEF CInv
<1>4. op'.pc # "link"
  OBVIOUS
<1> QED
  BY <1>2, <1>3, <1>4, Carried

LEMMA RegisterCounts == ASSUME IInv, IInv', CInv, Register PROVE CInv'
<1>1. op.pc = "alloc" /\ Ready /\ UNCHANGED <<disk, fs, spent>> /\ Wanted = {op.t}
  BY WantedIs DEF Register, At
<1>2. /\ op \in OpType /\ op.t \in Clusters /\ op.dcl \in Clusters \cup {0}
      /\ op.call \in {"open", "mkdir"} /\ fil.clust = 0
      /\ op.call = "mkdir" => op.dcl # 0
      /\ op.n \in Names \cup {NoName}
  BY <1>1, NameCall DEF IInv, Control, Places, MkdirInv, OpType
<1> PICK i \in 1 .. Slots :
        \/ /\ op.call = "mkdir"
           /\ SetEntry(op.t, i, [name |-> op.n, dir |-> TRUE, clst |-> op.dcl, size |-> 0])
           /\ op' = Go("sync")
           /\ fil' = fil
        \/ /\ op.call # "mkdir"
           /\ SetEntry(op.t, i, [NoEntry EXCEPT !.name = op.n])
           /\ op' = NoCall
           /\ Opened(op.t, i)
  BY DEF Register, FirstOf
<1>3. CASE op.call = "mkdir"
  <2> DEFINE e == [name |-> op.n, dir |-> TRUE, clst |-> op.dcl, size |-> 0]
  <2>1. SetEntry(op.t, i, e) /\ op' = [op EXCEPT !.pc = "sync"] /\ fil' = fil
    BY <1>3 DEF Go
  <2>2. EntryOK(e) /\ e \in Entries
    BY <1>2, <1>3 DEF EntryOK, Entries
  <2> HIDE DEF e
  <2>3. op'.pc = "sync" /\ op'.call = op.call
    BY <1>2, <2>1 DEF OpType
  <2>4. FileOK'
    BY <1>3, <2>1, <2>3, FileSame DEF CInv, Typed
  <2> QED
    BY <1>1, <1>2, <2>1, <2>2, <2>3, <2>4, SlotStep
<1>4. CASE op.call # "mkdir"
  <2> DEFINE e == [NoEntry EXCEPT !.name = op.n]
  <2>1. SetEntry(op.t, i, e) /\ op' = NoCall /\ Opened(op.t, i)
    BY <1>4
  <2>2. EntryOK(e) /\ e \in Entries
    BY <1>2, NoEntryOK DEF Entries, NoEntry
  <2> HIDE DEF e
  <2>3. FileOK' /\ fil'.clust = 0
    BY <2>1, OpenedCounts
  <2> QED
    BY <1>1, <1>2, <2>1, <2>2, <2>3, NoCallIs, SlotStep
<1> QED
  BY <1>3, <1>4

LEMMA ResetCounts == ASSUME IInv, IInv', CInv, Reset PROVE CInv'
<1> DEFINE e == [NoEntry EXCEPT !.name = op.n]
<1>1. /\ op.pc = "reset" /\ Ready /\ UNCHANGED <<disk, fs, spent>> /\ SetEntry(op.t, op.i, e)
      /\ IF op.clst = 0 THEN op' = NoCall /\ Opened(op.t, op.i)
                        ELSE op' = [op EXCEPT !.pc = "free"] /\ fil' = fil
  BY DEF Reset, At, Go
<1>2. /\ op \in OpType /\ op.t \in Clusters /\ op.i \in 1 .. Slots
      /\ op.call \in {"open", "mkdir", "unlink"} /\ fil.clust = 0
      /\ op.n \in Names \cup {NoName}
  BY <1>1, NameCall DEF IInv, Control, Places, OpType
<1>3. Wanted = {op.t}
  BY <1>1, WantedIs
<1>4. EntryOK(e) /\ e \in Entries
  BY <1>2, NoEntryOK DEF Entries, NoEntry
<1> HIDE DEF e
<1>5. CASE op.clst = 0
  <2>1. FileOK' /\ fil'.clust = 0
    BY <1>1, <1>5, OpenedCounts
  <2> QED
    BY <1>1, <1>2, <1>3, <1>4, <1>5, <2>1, NoCallIs, SlotStep
<1>6. CASE op.clst # 0
  <2>1. op'.pc = "free" /\ op'.call = op.call /\ fil' = fil
    BY <1>1, <1>2, <1>6 DEF OpType
  <2>2. FileOK'
    BY <1>2, <2>1, FileSame DEF CInv, Typed
  <2> QED
    BY <1>1, <1>2, <1>3, <1>4, <2>1, <2>2, SlotStep
<1> QED
  BY <1>5, <1>6

LEMMA DropCounts == ASSUME IInv, IInv', CInv, Drop PROVE CInv'
<1>1. /\ op.pc = "drop" /\ Ready /\ UNCHANGED <<disk, fs, spent, fil>>
      /\ SetEntry(op.t, op.i, NoEntry)
      /\ op' = [op EXCEPT !.pc = IF op.clst = 0 THEN "sync" ELSE "free"]
  BY DEF Drop, At, Go
<1>2. /\ op \in OpType /\ op.t \in Clusters /\ op.i \in 1 .. Slots
      /\ op.call = "unlink"
  BY <1>1 DEF IInv, Control, Places, OpType
<1>3. op'.pc \in {"sync", "free"} /\ op'.call = op.call
  BY <1>1, <1>2 DEF OpType
<1>4. FileOK'
  BY <1>1, <1>2, <1>3, FileSame DEF CInv, Typed
<1>5. Wanted = {op.t} /\ EntryOK(NoEntry) /\ NoEntry \in Entries
  BY <1>1, WantedIs, NoEntryOK, ContentsAre
<1> QED
  BY <1>1, <1>2, <1>3, <1>4, <1>5, SlotStep

LEMMA PutEntryCounts == ASSUME IInv, IInv', CInv, PutEntry PROVE CInv'
<1> DEFINE e == [name |-> fil.n, dir |-> FALSE, clst |-> fil.sclust, size |-> fil.size]
<1>1. /\ op.pc = "entry" /\ Ready /\ UNCHANGED <<disk, fs, spent, fil>> /\ SetEntry(fil.t, fil.i, e)
      /\ op' = [op EXCEPT !.pc = "sync"]
  BY DEF PutEntry, At, Go
<1>2. /\ op \in OpType /\ op.call = "close" /\ fil \in FilType
  BY <1>1 DEF IInv, Control, Places, FilOK
<1>3. fil.t \in Clusters /\ fil.i \in 1 .. Slots
  BY <1>2 DEF FilType
<1>4. EntryOK(e) /\ e \in Entries
  BY <1>2 DEF EntryOK, FilType, Entries
<1> HIDE DEF e
<1>5. op'.pc = "sync" /\ op'.call = op.call
  BY <1>1, <1>2 DEF OpType
<1>6. FileOK'
  BY <1>1, <1>2, <1>5, FileSame DEF CInv, Typed
<1>7. Wanted = {fil.t}
  BY <1>1, WantedIs
<1> QED
  BY <1>1, <1>3, <1>4, <1>5, <1>6, <1>7, SlotStep

(***************************************************************************)
(* The steps that change a link, and the count.                            *)
(***************************************************************************)
LEMMA FreeCounts == ASSUME IInv, IInv', CInv, Free PROVE CInv'
<1> DEFINE nxt == Link(Vol, op.clst)
<1>1. /\ op.pc = "free" /\ Ready /\ UNCHANGED <<disk, fil, spent>>
      /\ \/ nxt = 0 /\ Visit(FatOf[op.clst]) /\ op' = AfterFree /\ fs' = fs
         \/ /\ nxt # 0 /\ SetLink(op.clst, 0)
            /\ fs' = IF fs.free < LastCluster - 1
                     THEN [fs EXCEPT !.free = @ + 1, !.flag = TRUE] ELSE fs
            /\ op' = IF nxt \in Clusters THEN [op EXCEPT !.clst = nxt] ELSE AfterFree
  BY DEF Free, At
<1>2. /\ op \in OpType /\ op.clst \in Clusters /\ FatOf[op.clst] \in Sectors
      /\ op.call \in {"open", "mkdir", "unlink"} /\ fil.clust = 0
  BY <1>1, SectorFacts, NameCall DEF IInv, Control, Places, OpType
<1>3. Movable(FatOf[op.clst])
  BY <1>1, WantedIs DEF Ready, Movable
<1>4. op'.pc \in {"idle", "free", "back", "sync"} /\ op'.call # "write"
  BY <1>1, <1>2, NoCallIs DEF AfterFree, Go, OpType
<1>5. FileOK'
  BY <1>1, <1>4, FileSame DEF CInv, Typed
<1>6. Uses(Vol, op', fil') /\ Uses(Vol', op', fil')
  BY <1>1, <1>2, <1>4 DEF Uses
<1>7. CASE nxt = 0 /\ Visit(FatOf[op.clst]) /\ fs' = fs
  <2>1. LinksStay /\ HeldIn(disk') /\ HeldIn(Vol')
    BY <1>1, <1>2, <1>3, <1>7, VisitStays
  <2> QED
    BY <1>1, <1>4, <1>5, <1>6, <1>7, <2>1, Carried
<1>8. CASE /\ nxt # 0 /\ SetLink(op.clst, 0)
           /\ fs' = IF fs.free < LastCluster - 1
                    THEN [fs EXCEPT !.free = @ + 1, !.flag = TRUE] ELSE fs
  <2>1. /\ \A y \in Clusters : Link(Vol', y) = IF y = op.clst THEN 0 ELSE Link(Vol, y)
        /\ win'.dirty /\ HeldIn(disk') /\ HeldIn(Vol')
    BY <1>1, <1>2, <1>3, <1>8, SectorFacts, LinkSet
  <2>2. Cardinality(FreeIn(Vol')) = Cardinality(FreeIn(Vol)) + 1
    BY <1>2, <1>8, <2>1, OneMore
  <2>3. Pending = 0 /\ Pending' = 0
    BY <1>1, <1>4 DEF Pending
  <2>4. Counts' = Counts + 1 /\ Counts \in Nat /\ Counts < LastCluster - 1
    <3>1. GSound(Vol')
      BY DEF IInv, Views
    <3>2. Cardinality(FreeIn(Vol')) < LastCluster - 1
      BY <3>1, RootIsNot DEF GSound
    <3> QED
      BY <2>2, <2>3, <3>2, FreeFinite, FatAssumption DEF Counts
  <2>5. fs.free \in 0 .. LastCluster - 1 /\ LastCluster \in Nat /\ FsOK
    BY FatAssumption DEF CInv, Typed, FsOK
  <2>6. FsOK' /\ (fs'.flag \/ fs' = fs)
        /\ fs'.free = IF fs.free < LastCluster - 1 THEN fs.free + 1 ELSE fs.free
    <3>1. CASE fs.free < LastCluster - 1
      <4>1. fs' = [fs EXCEPT !.free = fs.free + 1, !.flag = TRUE]
        BY <1>8, <3>1
      <4>2. fs.free + 1 \in 0 .. LastCluster - 1
        BY <2>5, <3>1
      <4> QED
        BY <2>5, <3>1, <4>1, <4>2 DEF FsOK
    <3>2. CASE ~(fs.free < LastCluster - 1)
      BY <1>8, <2>5, <3>2 DEF FsOK
    <3> QED
      BY <3>1, <3>2
  <2>7. Counted'
    <3>1. spent.losses = 0 => fs.free >= Counts
      BY DEF CInv, Counted
    <3>2. spent.losses = 0 => fs'.free >= Counts'
      BY <2>4, <2>5, <2>6, <3>1
    <3>3. ASSUME spent.losses = 0, spent.faults = 0
          PROVE  fs'.free = Counts' /\ fs'.flag
      <4>1. fs.free = Counts
        BY <3>3 DEF CInv, Counted
      <4>2. fs.free < LastCluster - 1
        BY <2>4, <4>1
      <4>3. fs' = [fs EXCEPT !.free = fs.free + 1, !.flag = TRUE]
        BY <1>8, <4>2
      <4> QED
        BY <2>4, <2>5, <4>1, <4>3 DEF FsOK
    <3> QED
      BY <1>1, <2>1, <3>2, <3>3 DEF Counted
  <2>8. Typed'
    BY <1>1, <1>5, <2>1, <2>6 DEF CInv, Typed, SpentOK
  <2> QED
    BY <1>6, <2>7, <2>8 DEF CInv, InUse
<1> QED
  BY <1>1, <1>7, <1>8

\* The cluster c, which is in use, goes to the caller.
LEMMA GotCounts ==
    ASSUME IInv, CInv, op.pc \in {"chain", "link"}, NEW c \in Clusters, Got(c)
    PROVE  /\ op'.pc \in {"spill", "clear"} /\ FileOK'
           /\ \A v : /\ Link(v, c) # 0
                     /\ op.call # "write" => Link(v, op.d) # 0
                     => Uses(v, op', fil')
<1>1. op \in OpType /\ op.call \in {"open", "mkdir", "write"} /\ fil \in FilType
  BY DEF IInv, Control, Places, FilOK
<1>2. CASE op.call = "write"
  <2>1. /\ op' = [op EXCEPT !.pc = "spill", !.clst = c]
        /\ fil' = [fil EXCEPT !.clust = c, !.sclust = IF @ = 0 THEN c ELSE @]
    BY <1>1, <1>2 DEF Got, Go, OpType
  <2>2. op'.pc = "spill" /\ op'.left = op.left /\ op'.call = "write"
    BY <1>1, <1>2, <2>1 DEF OpType
  <2>3. fil'.clust = c /\ fil'.ver = fil.ver /\ fil'.buf = fil.buf /\ fil'.size = fil.size
    BY <1>1, <2>1 DEF FilType
  <2>4. FileOK'
    BY <1>2, <2>2, <2>3 DEF CInv, Typed, FileOK
  <2> QED
    BY <2>2, <2>3, <2>4 DEF Uses
<1>3. CASE op.call # "write"
  <2>1. fil' = fil /\ \E d : op' = [op EXCEPT !.pc = "clear", !.ncl = c, !.dcl = d]
    <3>1. \/ op' = [op EXCEPT !.pc = "clear", !.ncl = c, !.dcl = c]
          \/ op' = [op EXCEPT !.pc = "clear", !.ncl = c]
      BY <1>1, <1>3 DEF Got, Go, OpType
    <3>2. [op EXCEPT !.pc = "clear", !.ncl = c] = [op EXCEPT !.pc = "clear", !.ncl = c, !.dcl = op.dcl]
      BY <1>1 DEF OpType
    <3>3. fil' = fil
      BY <1>1, <1>3 DEF Got
    <3> QED
      BY <3>1, <3>2, <3>3
  <2>2. op'.pc = "clear" /\ op'.ncl = c /\ op'.d = op.d /\ op'.call = op.call
    BY <1>1, <2>1 DEF OpType
  <2>3. fil.clust = 0
    BY <1>1, <1>3, NameCall
  <2>4. FileOK'
    BY <1>3, <2>1, <2>2, FileSame DEF CInv, Typed
  <2> QED
    BY <1>3, <2>1, <2>2, <2>3, <2>4 DEF Uses
<1> QED
  BY <1>2, <1>3

\* A cluster less, when it was counted.
LEMMA AllocatedIs ==
    ASSUME CInv, NEW c, Allocated(c)
    PROVE  /\ FsOK'
           /\ fs.free # 0 => fs'.free = fs.free - 1 /\ fs'.flag
<1>1. fs \in [free : 0 .. LastCluster - 1, last : {fs.last}, flag : BOOLEAN, cdir : Clusters]
      /\ LastCluster \in Nat /\ fs.free \in 0 .. LastCluster - 1
  BY FatAssumption DEF CInv, Typed, FsOK
<1>2. CASE fs.free = 0
  <2>1. fs' = [fs EXCEPT !.last = c]
    BY <1>2 DEF Allocated
  <2> QED
    BY <1>1, <1>2, <2>1 DEF FsOK
<1>3. CASE fs.free # 0
  <2>1. fs' = [fs EXCEPT !.last = c, !.free = fs.free - 1, !.flag = TRUE]
    BY <1>1, <1>3 DEF Allocated
  <2>2. fs.free - 1 \in 0 .. LastCluster - 1
    BY <1>1, <1>3
  <2> QED
    BY <1>1, <2>1, <2>2 DEF FsOK
<1> QED
  BY <1>2, <1>3

LEMMA AllocateCounts == ASSUME IInv, IInv', CInv, Allocate PROVE CInv'
<1>1. op.pc = "chain" /\ Ready /\ disk' = disk /\ fs.free # 0 /\ spent' = spent
  BY DEF Allocate, At
<1>2. PICK c \in NextFree :
        /\ SetLink(c, EndOfChain)
        /\ IF op.clst = 0 THEN Got(c) /\ Allocated(c)
           ELSE op' = [op EXCEPT !.pc = "link", !.ncl = c] /\ UNCHANGED <<fs, fil>>
  BY DEF Allocate, Go
<1>3. c \in Clusters /\ Link(Vol, c) = 0 /\ EndOfChain # 0
  BY ClusterFacts DEF NextFree, IsFree
<1>4. op \in OpType /\ Movable(FatOf[c])
  BY <1>1, FoundIsRead, WantedIs DEF Ready, Movable, IInv, Control
<1>5. /\ \A y \in Clusters : Link(Vol', y) = IF y = c THEN EndOfChain ELSE Link(Vol, y)
      /\ win'.dirty /\ HeldIn(disk') /\ HeldIn(Vol')
  BY <1>1, <1>2, <1>3, <1>4, SectorFacts, LinkSet
<1>6. Cardinality(FreeIn(Vol')) = Cardinality(FreeIn(Vol)) - 1
  BY <1>3, <1>5, OneLess
<1>7. /\ Counts = Cardinality(FreeIn(Vol)) /\ Counts \in Nat
      /\ Cardinality(FreeIn(Vol')) = Counts - 1
      /\ fs.free \in Nat
  <2>1. Pending = 0
    BY <1>1 DEF Pending
  <2> QED
    BY <1>6, <2>1, FreeFinite, FatAssumption DEF Counts, CInv, Typed, FsOK
<1>8. StillUsed(Vol, Vol') /\ Link(Vol', c) # 0
  BY <1>3, <1>5 DEF StillUsed
<1>9. op.d \in Clusters /\ (op.call # "write" => Link(Vol', op.d) # 0)
  BY <1>1, <1>4, <1>8 DEF CInv, InUse, Uses, StillUsed, OpType
<1>10. CASE op.clst = 0
  <2>1. Got(c) /\ Allocated(c)
    BY <1>2, <1>10
  <2>2. op'.pc \in {"spill", "clear"} /\ FileOK' /\ Uses(Vol', op', fil')
    BY <1>1, <1>3, <1>8, <1>9, <2>1, GotCounts
  <2>3. FsOK' /\ fs'.free = fs.free - 1 /\ fs'.flag
    BY <1>1, <2>1, AllocatedIs
  <2>4. Counts' = Counts - 1
    <3>1. Pending' = 0
      BY <2>2 DEF Pending
    <3> QED
      BY <1>7, <3>1 DEF Counts
  <2>5. Counted'
    <3>1. /\ spent.losses = 0 => fs.free >= Counts
          /\ (spent.losses = 0 /\ spent.faults = 0) => fs.free = Counts
      BY DEF CInv, Counted
    <3> QED
      BY <1>1, <1>5, <1>7, <2>3, <2>4, <3>1 DEF Counted
  <2>6. Typed'
    BY <1>1, <1>5, <2>2, <2>3 DEF CInv, Typed, SpentOK
  <2> QED
    BY <2>2, <2>5, <2>6 DEF CInv, InUse
<1>11. CASE op.clst # 0
  <2>1. op' = [op EXCEPT !.pc = "link", !.ncl = c] /\ UNCHANGED <<fs, fil>>
    BY <1>2, <1>11
  <2>2. op'.pc = "link" /\ op'.call = op.call /\ op'.clst = op.clst /\ op'.d = op.d
        /\ op'.left = op.left
    BY <1>4, <2>1 DEF OpType
  <2>3. Uses(Vol, op', fil')
    BY <1>1, <2>1, <2>2 DEF CInv, InUse, Uses
  <2>4. InUse'
    BY <1>8, <2>3, UsesStay
  <2>5. FileOK'
    BY <2>1, <2>2, FileSame DEF CInv, Typed
  <2>6. Counts' = Counts
    <3>1. Pending' = 1
      BY <2>2 DEF Pending
    <3> QED
      BY <1>7, <3>1 DEF Counts
  <2>7. Counted'
    BY <1>1, <1>5, <2>1, <2>6 DEF CInv, Counted
  <2>8. Typed'
    BY <1>1, <1>5, <2>1, <2>5 DEF CInv, Typed, FsOK, SpentOK
  <2> QED
    BY <2>4, <2>7, <2>8 DEF CInv
<1> QED
  BY <1>10, <1>11

LEMMA LinkItCounts == ASSUME IInv, IInv', CInv, LinkIt PROVE CInv'
<1>1. /\ op.pc = "link" /\ Ready /\ disk' = disk /\ SetLink(op.clst, op.ncl) /\ Got(op.ncl)
      /\ Allocated(op.ncl) /\ spent' = spent
  BY DEF LinkIt, At
<1>2. op \in OpType /\ op.clst \in Clusters
  BY <1>1 DEF IInv, Control, Places, OpType
<1>3. Movable(FatOf[op.clst])
  BY <1>1, WantedIs DEF Ready, Movable
<1>4. Fresh(Vol, op.ncl)
  BY <1>1 DEF IInv, Views, Facts
<1>5. op.ncl \in Clusters /\ op.ncl \in Links /\ op.ncl # 0 /\ Link(Vol, op.ncl) # 0
  BY <1>4, SectorFacts, ClusterFacts DEF Fresh, Loose
<1>6. /\ \A y \in Clusters : Link(Vol', y) = IF y = op.clst THEN op.ncl ELSE Link(Vol, y)
      /\ win'.dirty /\ HeldIn(disk') /\ HeldIn(Vol')
  BY <1>1, <1>2, <1>3, <1>5, LinkSet
<1>7. Link(Vol, op.clst) # 0
  BY <1>1, <1>2, ClusterFacts DEF CInv, InUse, Uses
<1>8. Cardinality(FreeIn(Vol')) = Cardinality(FreeIn(Vol))
  BY <1>2, <1>5, <1>6, <1>7, NoneMore
<1>9. StillUsed(Vol, Vol')
  BY <1>5, <1>6 DEF StillUsed
<1>10. op.d \in Clusters /\ (op.call # "write" => Link(Vol', op.d) # 0) /\ Link(Vol', op.ncl) # 0
  BY <1>1, <1>2, <1>5, <1>9 DEF CInv, InUse, Uses, StillUsed, OpType
<1>11. op'.pc \in {"spill", "clear"} /\ FileOK' /\ Uses(Vol', op', fil')
  BY <1>1, <1>5, <1>10, GotCounts
<1>12. FsOK' /\ (fs.free # 0 => fs'.free = fs.free - 1 /\ fs'.flag)
  BY <1>1, AllocatedIs
<1>13. Counts = Cardinality(FreeIn(Vol)) + 1 /\ Counts' = Counts - 1
       /\ Cardinality(FreeIn(Vol)) \in Nat /\ fs.free \in Nat
  <2>1. Pending = 1 /\ Pending' = 0
    BY <1>1, <1>11 DEF Pending
  <2> QED
    BY <1>8, <2>1, FreeFinite, FatAssumption DEF Counts, CInv, Typed, FsOK
<1>14. Counted'
  <2>1. /\ spent.losses = 0 => fs.free >= Counts
        /\ (spent.losses = 0 /\ spent.faults = 0) => fs.free = Counts
    BY DEF CInv, Counted
  <2>2. spent.losses = 0 => fs.free # 0
    BY <1>13, <2>1
  <2> QED
    BY <1>1, <1>6, <1>12, <1>13, <2>1, <2>2 DEF Counted
<1>15. Typed'
  BY <1>1, <1>6, <1>11, <1>12 DEF CInv, Typed, SpentOK
<1> QED
  BY <1>11, <1>14, <1>15 DEF CInv, InUse

(***************************************************************************)
(* A call that gets no further.                                            *)
(***************************************************************************)
LEMMA NoFileIs == NoFile.buf = NoData /\ NoFile.ver = 0 /\ NoFile.size = 0 /\ NoFile.clust = 0
  BY DEF NoFile

LEMMA UndoneCounts ==
    ASSUME IInv, CInv, op' = Undone, StopFile
    PROVE  /\ FileOK' /\ Uses(Vol, op', fil') /\ Pending' = 0
           /\ op'.pc \in {"idle", "free"}
<1>1. op \in OpType /\ fil \in FilType
  BY DEF IInv, Control, FilOK
<1>2. op'.pc \in {"idle", "free"} /\ op'.call # "write"
  <2>1. CASE op' = NoCall
    BY <2>1, NoCallIs
  <2>2. CASE op' # NoCall
    <3>1. op.call = "mkdir" /\ op' = [op EXCEPT !.pc = "free", !.clst = op.dcl]
      BY <2>2 DEF Undone, Go
    <3> QED
      BY <1>1, <3>1 DEF OpType
  <2> QED
    BY <2>1, <2>2
<1>3. /\ fil'.ver \in Nat /\ fil'.buf \in BufType /\ fil'.size <= MaxSize
      /\ (fil'.clust = fil.clust \/ fil'.clust = 0)
  <2>1. FileOK
    BY DEF CInv, Typed
  <2>2. CASE fil' = NoFile
    BY <2>2, NoFileIs, ContentsAre, FatAssumption
  <2>3. CASE fil' = [fil EXCEPT !.stop = TRUE]
    <3>1. fil'.ver = fil.ver /\ fil'.buf = fil.buf /\ fil'.size = fil.size /\ fil'.clust = fil.clust
      BY <1>1, <2>3 DEF FilType
    <3> QED
      BY <2>1, <3>1 DEF FileOK
  <2>4. CASE fil' = fil
    BY <2>1, <2>4 DEF FileOK
  <2> QED
    BY <2>2, <2>3, <2>4 DEF StopFile
<1>4. FileOK'
  BY <1>2, <1>3 DEF FileOK
<1>5. Uses(Vol, op', fil')
  BY <1>2, <1>3, NoUse DEF CInv
<1> QED
  BY <1>2, <1>4, <1>5 DEF Pending

LEMMA Rests ==
    ASSUME CInv, win' = win, disk' = disk
    PROVE  LinksStay /\ HeldIn(disk') /\ HeldIn(Vol') /\ Vol' = Vol
<1>1. Vol' = Vol
  BY DEF Vol
<1> QED
  BY <1>1 DEF LinksStay, SameLinks, CInv, Typed, Counted

LEMMA FullCounts == ASSUME IInv, IInv', CInv, Full PROVE CInv'
<1>1. op.pc = "chain" /\ Ready /\ UNCHANGED <<disk, fs, spent>> /\ op' = Undone /\ StopFile
  BY DEF Full, At
<1>2. op \in OpType /\ Wanted = Searched
  BY <1>1, WantedIs DEF IInv, Control
<1>3. FileOK' /\ Uses(Vol, op', fil') /\ op'.pc # "link"
  BY <1>1, UndoneCounts
<1>4. LinksStay /\ HeldIn(disk') /\ HeldIn(Vol')
  <2>1. CASE win' = win
    BY <1>1, <2>1, Rests
  <2>2. CASE win' # win
    <3> PICK s \in FatSectors : Visit(s) /\ s \in Searched
      <4>1. CASE fs.free = 0
        BY <1>2, <2>2, <4>1, SectorFacts DEF Full, Searched, OpType
      <4>2. CASE fs.free # 0
        BY <2>2, <4>2, SectorFacts DEF Full, Searched, SectorsOf
      <4> QED
        BY <4>1, <4>2
    <3>1. s \in Sectors /\ Movable(s)
      BY <1>1, <1>2, SectorFacts DEF Ready, Movable
    <3> QED
      BY <1>1, <3>1, VisitStays
  <2> QED
    BY <2>1, <2>2
<1> QED
  BY <1>1, <1>3, <1>4, Carried

(***************************************************************************)
(* The steps that write past the window.                                   *)
(***************************************************************************)
LEMMA ClearCounts == ASSUME IInv, IInv', CInv, Clear PROVE CInv'
<1> DEFINE b == IF op.ncl = op.dcl THEN [Blank EXCEPT !.dots = TRUE] ELSE Blank
           x == IF op.ncl = op.dcl THEN TRUE ELSE FALSE
<1>1. /\ op.pc = "clear" /\ Ready /\ disk' = [disk EXCEPT ![op.ncl] = Blank]
      /\ UNCHANGED <<fil, fs, spent>>
      /\ win' = [sect |-> op.ncl, buf |-> b, dirty |-> x]
      /\ op' = [op EXCEPT !.pc = "alloc", !.t = IF op.ncl = op.dcl THEN op.d ELSE op.ncl]
  BY DEF Clear, At
<1>2. /\ op \in OpType /\ op.ncl \in Clusters /\ op.call \in {"open", "mkdir"} /\ fil.clust = 0
  BY <1>1, NameCall DEF IInv, Control, Places, OpType
<1>3. b \in Contents /\ Blank \in Contents /\ x \in BOOLEAN
  BY ContentsAre
<1> HIDE DEF b, x
<1>4. ~win.dirty
  BY <1>1, WantedIs, CleanWindow DEF IInv
<1>5. LinksStay /\ HeldIn(disk') /\ HeldIn(Vol')
  BY <1>1, <1>2, <1>3, <1>4, PastStays
<1>6. disk'[Info] = disk[Info]
  BY <1>1, <1>2, SectorFacts
<1>7. op'.pc = "alloc" /\ op'.call = op.call /\ op'.d = op.d /\ op'.t \in {op.d, op.ncl}
  BY <1>1, <1>2 DEF OpType
<1>8. Uses(Vol, op', fil')
  BY <1>1, <1>2, <1>7 DEF CInv, InUse, Uses
<1>9. FileOK'
  BY <1>1, <1>2, <1>7, FileSame DEF CInv, Typed
<1> QED
  BY <1>1, <1>5, <1>6, <1>7, <1>8, <1>9, Carried

LEMMA ToDiskStays ==
    ASSUME IInv, CInv, NEW c \in Clusters, NEW d \in BufType, ToDisk(c, d), win' = win
    PROVE  LinksStay /\ HeldIn(disk') /\ HeldIn(Vol') /\ disk'[Info] = disk[Info]
<1>1. [Blank EXCEPT !.data = d] \in Contents
  BY ContentsAre
<1>2. disk' = [disk EXCEPT ![c] = [Blank EXCEPT !.data = d]]
  BY DEF ToDisk
<1>3. disk'[Info] = disk[Info]
  BY <1>2, SectorFacts
<1> QED
  BY <1>1, <1>2, <1>3, PastStays

LEMMA SpillCounts == ASSUME IInv, IInv', CInv, Spill PROVE CInv'
<1>1. /\ op.pc = "spill" /\ UNCHANGED <<win, fs, spent>>
      /\ op' = [op EXCEPT !.pc = IF op.call = "close" THEN "entry" ELSE "data"]
  BY DEF Spill, At, Go
<1>2. op \in OpType /\ FilOK /\ fil \in FilType /\ FileOK
  BY DEF IInv, Control, FilOK, CInv, Typed
<1>3. op'.pc \in {"entry", "data"} /\ op'.call = op.call /\ op'.left = op.left
  BY <1>1, <1>2 DEF OpType
<1>4. CASE fil.dirty
  <2>1. ToDisk(fil.sect, fil.buf) /\ fil' = [fil EXCEPT !.dirty = FALSE]
    BY <1>4 DEF Spill
  <2>2. /\ fil'.ver = fil.ver /\ fil'.buf = fil.buf /\ fil'.size = fil.size
        /\ fil'.clust = fil.clust
    BY <1>2, <2>1 DEF FilType
  <2>3. fil.sect \in Clusters /\ fil.buf \in BufType
    BY <1>2, <1>4 DEF FilOK, FilType, FileOK
  <2>4. LinksStay /\ HeldIn(disk') /\ HeldIn(Vol') /\ disk'[Info] = disk[Info]
    BY <1>1, <2>1, <2>3, ToDiskStays
  <2>5. FileOK'
    BY <1>2, <1>3, <2>2 DEF FileOK
  <2>6. Uses(Vol, op', fil')
    BY <1>3, <2>2, NoUse DEF CInv
  <2> QED
    BY <1>1, <1>3, <2>4, <2>5, <2>6, Carried
<1>5. CASE ~fil.dirty
  <2>1. UNCHANGED <<disk, fil>>
    BY <1>5 DEF Spill
  <2>2. LinksStay /\ HeldIn(disk') /\ HeldIn(Vol')
    BY <1>1, <2>1, Rests
  <2>3. FileOK'
    BY <1>2, <1>3, <2>1, FileSame
  <2>4. Uses(Vol, op', fil')
    BY <1>3, <2>1, NoUse DEF CInv
  <2> QED
    BY <1>1, <1>3, <2>1, <2>2, <2>3, <2>4, Carried
<1> QED
  BY <1>4, <1>5

LEMMA NotMore == ASSUME NEW a \in Nat, NEW u \in Nat \ {0} PROVE a - (a % u) \in Nat
<1> DEFINE q == a \div u
           r == a % u
<1>1. q \in Int /\ r \in Int /\ 0 <= r /\ r < u /\ a = u * q + r
  BY Division
<1> HIDE DEF q, r
<1>2. q >= 0
  <2>1. CASE q <= -1
    <3>1. u * q <= -u
      BY <1>1, <2>1, SMTT(30)
    <3>2. u * q \in Int
      BY <1>1
    <3> QED
      BY <1>1, <3>1, <3>2
  <2> QED
    BY <1>1, <2>1
<1>3. u * q >= 0 /\ u * q \in Int
  BY <1>1, <1>2, SMTT(30)
<1>4. a - r \in Nat
  BY <1>1, <1>3
<1> QED
  BY <1>4 DEF r

LEMMA FilledIs ==
    ASSUME IInv, CInv, NEW w \in Nat
    PROVE  Filled(w) \in BufType
<1> DEFINE start == fil.size - (fil.size % Units)
<1>1. fil.ver \in Nat /\ fil.buf \in BufType /\ fil.size \in Nat /\ Units \in Nat \ {0}
  BY FatAssumption DEF IInv, Control, FilOK, FilType, CInv, Typed, FileOK
<1>2. start \in Nat
  BY <1>1, NotMore
<1>3. Filled(w) = [u \in 1 .. Units |->
                      IF u - 1 - (fil.size % Units) \in 0 .. w - 1
                      THEN <<fil.ver, start + u>> ELSE fil.buf[u]]
  BY DEF Filled
<1> HIDE DEF start
<1>4. ASSUME NEW u \in 1 .. Units
      PROVE  <<fil.ver, start + u>> \in Nat \X Nat /\ fil.buf[u] \in Nat \X Nat
  BY <1>1, <1>2 DEF BufType
<1> QED
  BY <1>3, <1>4 DEF BufType

LEMMA ChunkCounts == ASSUME IInv, IInv', CInv, Chunk PROVE CInv'
<1>1. op.pc = "chunk" /\ UNCHANGED <<disk, win, fs, spent>>
  BY DEF Chunk, At
<1>2. /\ op \in OpType /\ fil \in FilType /\ op.call = "write" /\ FileOK
      /\ op.left \in Nat /\ fil.size \in Nat
  BY <1>1 DEF IInv, Control, Places, FilOK, FilType, OpType, CInv, Typed
<1>3. LinksStay /\ HeldIn(disk') /\ HeldIn(Vol')
  BY <1>1, Rests
<1>4. CASE op.left = 0
  <2>1. op' = NoCall /\ fil' = fil
    BY <1>4 DEF Chunk
  <2>2. FileOK' /\ Uses(Vol, op', fil') /\ op'.pc # "link"
    BY <1>2, <2>1, NoCallIs, FileSame, NoUse DEF CInv
  <2> QED
    BY <1>1, <1>3, <2>2, Carried
<1>5. CASE op.left # 0 /\ fil.size % Units = 0
  <2>1. op' = [op EXCEPT !.pc = "chain", !.clst = fil.clust] /\ fil' = fil
    BY <1>5 DEF Chunk, Go
  <2>2. op'.call = "write" /\ op'.pc = "chain" /\ op'.clst = fil.clust /\ op'.left = op.left
    BY <1>2, <2>1 DEF OpType
  <2>3. Uses(Vol, op', fil')
    BY <2>1, <2>2 DEF CInv, InUse, Uses
  <2>4. FileOK'
    BY <1>2, <2>1, <2>2, FileSame
  <2> QED
    BY <1>1, <1>3, <2>2, <2>3, <2>4, Carried
<1>6. CASE op.left # 0 /\ fil.size % Units # 0
  <2> DEFINE w == Least(Units - (fil.size % Units), op.left)
  <2>1. /\ fil' = [fil EXCEPT !.buf = Filled(w), !.dirty = TRUE, !.size = @ + w]
        /\ op' = [op EXCEPT !.left = @ - w]
    BY <1>6 DEF Chunk
  <2>2. w \in Nat /\ op.left - w \in Nat
    <3>1. fil.size % Units \in 0 .. Units - 1
      BY <1>2, FatAssumption, Division
    <3> QED
      BY <1>2, <3>1, FatAssumption DEF Least
  <2> HIDE DEF w
  <2>3. op'.pc = "chunk" /\ op'.left = op.left - w
    BY <1>1, <1>2, <2>1 DEF OpType
  <2>4. /\ fil'.ver = fil.ver /\ fil'.buf = Filled(w) /\ fil'.size = fil.size + w
        /\ fil'.clust = fil.clust
    BY <1>2, <2>1 DEF FilType
  <2>5. FileOK'
    <3>1. fil.size + op.left <= MaxSize /\ MaxSize \in Nat
      BY <1>2, FatAssumption DEF FileOK
    <3>2. fil'.size <= MaxSize /\ fil'.size + op'.left <= MaxSize
      BY <1>2, <2>2, <2>3, <2>4, <3>1
    <3>3. fil'.buf \in BufType
      BY <2>2, <2>4, FilledIs
    <3> QED
      BY <1>2, <2>4, <3>2, <3>3 DEF FileOK
  <2>6. Uses(Vol, op', fil')
    BY <2>3, <2>4, NoUse DEF CInv
  <2> QED
    BY <1>1, <1>3, <2>3, <2>5, <2>6, Carried
<1> QED
  BY <1>4, <1>5, <1>6

LEMMA DataCounts == ASSUME IInv, IInv', CInv, Data PROVE CInv'
<1>1. op.pc = "data" /\ UNCHANGED <<win, fs, spent>>
  BY DEF Data, At
<1>2. /\ op \in OpType /\ FilOK /\ fil \in FilType /\ op.call = "write" /\ fil.clust \in Clusters
      /\ op.left \in Nat /\ fil.size \in Nat /\ FileOK
  BY <1>1 DEF IInv, Control, Places, FileInv, FilOK, FilType, OpType, CInv, Typed
<1>3. Units \in Nat \ {0} /\ MaxSize \in Nat /\ fil.ver \in Nat /\ fil.size + op.left <= MaxSize
  BY <1>2, FatAssumption DEF FileOK
<1>4. CASE op.left >= Units
  <2> DEFINE d == [u \in 1 .. Units |-> <<fil.ver, fil.size + u>>]
  <2>1. /\ ToDisk(fil.clust, d)
        /\ fil' = [fil EXCEPT !.size = @ + Units]
        /\ op' = [op EXCEPT !.pc = "chunk", !.left = @ - Units]
    BY <1>4 DEF Data, Go
  <2>2. d \in BufType
    BY <1>2, <1>3 DEF BufType
  <2> HIDE DEF d
  <2>3. LinksStay /\ HeldIn(disk') /\ HeldIn(Vol') /\ disk'[Info] = disk[Info]
    BY <1>1, <1>2, <2>1, <2>2, ToDiskStays
  <2>4. op'.pc = "chunk" /\ op'.left = op.left - Units
    BY <1>2, <2>1 DEF OpType
  <2>5. /\ fil'.ver = fil.ver /\ fil'.buf = fil.buf /\ fil'.size = fil.size + Units
        /\ fil'.clust = fil.clust
    BY <1>2, <2>1 DEF FilType
  <2>6. FileOK'
    <3>1. fil'.size <= MaxSize /\ fil'.size + op'.left <= MaxSize
      BY <1>2, <1>3, <1>4, <2>4, <2>5
    <3> QED
      BY <1>2, <2>5, <3>1 DEF FileOK
  <2>7. Uses(Vol, op', fil')
    BY <2>4, <2>5, NoUse DEF CInv
  <2> QED
    BY <1>1, <2>3, <2>4, <2>6, <2>7, Carried
<1>5. CASE ~(op.left >= Units)
  <2>1. /\ disk' = disk
        /\ fil' = [fil EXCEPT !.sect = fil.clust, !.buf = Filled(op.left),
                              !.dirty = TRUE, !.size = @ + op.left]
        /\ op' = [op EXCEPT !.pc = "chunk", !.left = 0]
    BY <1>5 DEF Data, Go
  <2>2. LinksStay /\ HeldIn(disk') /\ HeldIn(Vol')
    BY <1>1, <2>1, Rests
  <2>3. op'.pc = "chunk" /\ op'.left = 0
    BY <1>2, <2>1 DEF OpType
  <2>4. /\ fil'.ver = fil.ver /\ fil'.buf = Filled(op.left) /\ fil'.size = fil.size + op.left
        /\ fil'.clust = fil.clust
    BY <1>2, <2>1 DEF FilType
  <2>5. FileOK'
    <3>1. fil'.size <= MaxSize /\ fil'.size + op'.left <= MaxSize
      BY <1>2, <1>3, <2>3, <2>4
    <3>2. fil'.buf \in BufType
      BY <1>2, <2>4, FilledIs
    <3> QED
      BY <1>2, <2>4, <3>1, <3>2 DEF FileOK
  <2>6. Uses(Vol, op', fil')
    BY <2>3, <2>4, NoUse DEF CInv
  <2> QED
    BY <1>1, <2>1, <2>2, <2>3, <2>5, <2>6, Carried
<1> QED
  BY <1>4, <1>5

(***************************************************************************)
(* FSInfo, the end of a call, and the window on its way to the disk.       *)
(***************************************************************************)
\* A clean window gives way to what is on the disk; FSInfo may change.
LEMMA FromDisk ==
    ASSUME CInv, ~win.dirty, \A s \in Sectors \ {Info} : Vol'[s] = disk[s] /\ disk'[s] = disk[s]
    PROVE  LinksStay /\ HeldIn(disk') /\ HeldIn(Vol')
<1>1. \A c \in Clusters : /\ c \in Sectors \ {Info} /\ FatOf[c] \in Sectors \ {Info}
  BY SectorFacts
<1>2. SameLinks(disk, Vol)
  BY DEF CInv, Counted
<1>3. SameLinks(Vol, Vol') /\ SameLinks(disk', Vol')
  BY <1>1, <1>2 DEF SameLinks, Link
<1>4. HeldIn(disk') /\ HeldIn(Vol')
  BY <1>1 DEF CInv, Typed, HeldIn
<1> QED
  BY <1>3, <1>4 DEF LinksStay

LEMMA SyncIs ==
    ASSUME IInv, At("sync")
    PROVE  op.pc = "sync" /\ op \in OpType /\ op.call \in {"mkdir", "unlink", "close"} /\ ~win.dirty
<1>1. op.pc = "sync" /\ Ready
  BY DEF At
<1> QED
  BY <1>1, WantedIs, CleanWindow DEF IInv, Control, Places

LEMMA PutInfoCounts == ASSUME IInv, IInv', CInv, PutInfo PROVE CInv'
<1> DEFINE info == [free |-> fs.free, last |-> fs.last]
<1>1. /\ op.pc = "sync" /\ op.call \in {"mkdir", "unlink", "close"} /\ ~win.dirty
      /\ UNCHANGED <<op, fil, spent>> /\ fs' = [fs EXCEPT !.flag = FALSE]
      /\ win' = [sect |-> Info, buf |-> info, dirty |-> FALSE]
      /\ disk' = [disk EXCEPT ![Info] = info]
  BY SyncIs DEF PutInfo
<1>2. FsOK' /\ fs'.free = fs.free /\ disk'[Info].free = fs.free /\ fs.free \in 0 .. LastCluster - 1
  <2>1. disk'[Info] = info
    BY <1>1, SectorFacts, VolIsOver DEF IInv, Over
  <2>2. disk'[Info].free = fs.free
    BY <2>1
  <2>3. FsOK' /\ fs'.free = fs.free /\ fs.free \in 0 .. LastCluster - 1
    BY <1>1 DEF CInv, Typed, FsOK
  <2> QED
    BY <2>2, <2>3
<1>3. \A s \in Sectors \ {Info} : Vol'[s] = disk[s] /\ disk'[s] = disk[s]
  BY <1>1 DEF Vol
<1>4. LinksStay /\ HeldIn(disk') /\ HeldIn(Vol')
  BY <1>1, <1>3, FromDisk
<1>5. FileOK'
  BY <1>1, FileSame DEF CInv, Typed
<1>6. Typed'
  BY <1>1, <1>2, <1>4, <1>5 DEF CInv, Typed, SpentOK
<1>7. InUse'
  BY <1>1, <1>4, NoUse, LinksUsed, UsesStay DEF CInv
<1>8. Pending' = Pending /\ Pending = 0
  BY <1>1 DEF Pending
<1>9. Counted'
  BY <1>1, <1>2, <1>4, <1>6, <1>8, CountStays DEF Typed
<1> QED
  BY <1>6, <1>7, <1>9 DEF CInv

LEMMA SyncedCounts == ASSUME IInv, IInv', CInv, Synced PROVE CInv'
<1>1. /\ op.pc = "sync" /\ op' = NoCall /\ UNCHANGED <<disk, win, fs, spent>>
      /\ fil' = IF op.call = "close" THEN NoFile ELSE fil
  BY SyncIs DEF Synced
<1>2. LinksStay /\ HeldIn(disk') /\ HeldIn(Vol')
  BY <1>1, Rests
<1>3. FileOK' /\ (fil'.clust = 0 \/ fil'.clust = fil.clust)
  <2>1. CASE fil' = NoFile
    BY <1>1, <2>1, NoFileIs, ContentsAre, NoCallIs, FatAssumption DEF FileOK
  <2>2. CASE fil' = fil
    BY <1>1, <2>2, NoCallIs, FileSame DEF CInv, Typed
  <2> QED
    BY <1>1, <2>1, <2>2
<1>4. Uses(Vol, op', fil') /\ op'.pc # "link"
  BY <1>1, <1>3, NoCallIs, NoUse DEF CInv
<1> QED
  BY <1>1, <1>2, <1>3, <1>4, Carried

LEMMA SyncWindowCounts == ASSUME IInv, IInv', CInv, SyncWindow PROVE CInv'
<1>1. /\ win.dirty /\ disk' = [disk EXCEPT ![win.sect] = win.buf]
      /\ win' = [win EXCEPT !.dirty = FALSE] /\ UNCHANGED <<fs, op, fil, spent>>
  BY DEF SyncWindow
<1>2. win.sect \in FatSectors \cup Clusters /\ win.sect \in Sectors
  BY <1>1, SectorFacts DEF IInv, WinInv
<1>3. disk' = Vol
  BY <1>1, <1>2, VolIsOver DEF IInv, Over
<1>4. win'.sect = win.sect /\ win'.buf = win.buf /\ win'.dirty = FALSE
  BY <1>1 DEF IInv, WinInv
<1>5. Vol' = Vol
  BY <1>3, <1>4 DEF Vol
<1>6. LinksStay /\ HeldIn(disk') /\ HeldIn(Vol')
  BY <1>3, <1>5 DEF LinksStay, SameLinks, CInv, Typed
<1>7. disk'[Info] = disk[Info]
  BY <1>1, <1>2, SectorFacts
<1>8. FileOK'
  BY <1>1, FileSame DEF CInv, Typed
<1>9. Uses(Vol, op', fil')
  BY <1>1 DEF CInv, InUse
<1>10. Typed'
  BY <1>1, <1>6, <1>7, <1>8 DEF CInv, Typed, FsOK, SpentOK
<1>11. InUse'
  BY <1>6, <1>9, LinksUsed, UsesStay
<1>12. Counted'
  <2>1. Pending' = Pending /\ Pending \in {0, 1}
    BY <1>1 DEF Pending
  <2> QED
    BY <1>1, <1>6, <1>7, <1>10, <2>1, CountStays DEF Typed
<1> QED
  BY <1>10, <1>11, <1>12 DEF CInv

(***************************************************************************)
(* The faults and the power.                                               *)
(***************************************************************************)
LEMMA Faulty ==
    ASSUME IInv, IInv', CInv, disk' = disk, spent' = [spent EXCEPT !.faults = @ + 1],
           LinksStay, HeldIn(Vol'), FsOK', fs'.free = fs.free, FileOK',
           Uses(Vol, op', fil'), Pending' <= Pending
    PROVE  CInv'
<1>1. SpentOK' /\ spent'.losses = spent.losses /\ spent'.faults # 0
  BY DEF CInv, Typed, SpentOK
<1>2. Typed'
  BY <1>1 DEF CInv, Typed
<1>3. InUse'
  BY LinksUsed, UsesStay
<1>4. Counted'
  BY <1>1, CountStays
<1> QED
  BY <1>2, <1>3, <1>4 DEF CInv

LEMMA FaultCounts == ASSUME IInv, IInv', CInv, DiskFault PROVE CInv'
<1>1. disk' = disk /\ spent' = [spent EXCEPT !.faults = @ + 1]
  BY DEF DiskFault
<1>2. ASSUME GiveUp PROVE FileOK' /\ Uses(Vol, op', fil') /\ Pending' <= Pending
  BY <1>2, UndoneCounts, PendingIs DEF GiveUp
<1>3. ASSUME fs' = fs \/ HoleFirst PROVE FsOK' /\ fs'.free = fs.free
  <2>1. fs' = fs \/ fs' = [fs EXCEPT !.last = op.dcl - 1]
    BY <1>3 DEF HoleFirst
  <2> QED
    BY <2>1 DEF CInv, Typed, FsOK
<1>4. CASE FlushFails \/ DataFails \/ SyncFails
  <2>1. GiveUp /\ win' = win /\ (fs' = fs \/ HoleFirst)
    BY <1>4 DEF FlushFails, DataFails, SyncFails
  <2>2. LinksStay /\ HeldIn(Vol')
    BY <1>1, <2>1, Rests
  <2> QED
    BY <1>1, <1>2, <1>3, <2>1, <2>2, Faulty
<1>5. CASE ReadFails
  <2>1. GiveUp /\ HoleFirst /\ ~win.dirty /\ win' = [win EXCEPT !.sect = NoSector]
    BY <1>5 DEF ReadFails
  <2>2. win'.sect = NoSector
    BY <2>1 DEF IInv, WinInv
  <2>3. \A s \in Sectors \ {Info} : Vol'[s] = disk[s] /\ disk'[s] = disk[s]
    BY <1>1, <2>2, SectorFacts DEF Vol
  <2>4. LinksStay /\ HeldIn(Vol')
    BY <2>1, <2>3, FromDisk
  <2> QED
    BY <1>1, <1>2, <1>3, <2>1, <2>4, Faulty
<1>6. CASE ClearFails
  <2>1. /\ GiveUp /\ fs' = fs /\ op.pc = "clear" /\ Ready
        /\ win' = [sect |-> op.ncl, buf |-> Blank, dirty |-> FALSE]
    BY <1>6 DEF ClearFails, At
  <2>2. ~win.dirty /\ op.ncl \in Clusters
    BY <2>1, WantedIs, CleanWindow DEF IInv, Control, Places, OpType
  <2>3. \A s \in Sectors : Vol'[s] = IF s = op.ncl THEN Blank ELSE disk[s]
    BY <1>1, <2>1 DEF Vol
  <2>4. SameLinks(disk, Vol') /\ SameLinks(disk, Vol)
    BY <2>2, <2>3, SectorFacts DEF SameLinks, Link, CInv, Counted
  <2>5. LinksStay
    BY <1>1, <2>4 DEF LinksStay, SameLinks
  <2>6. HeldIn(Vol')
    BY <2>3, SectorFacts, ContentsAre DEF HeldIn, CInv, Typed
  <2> QED
    BY <1>1, <1>2, <1>3, <2>1, <2>5, <2>6, Faulty
<1>7. CASE InfoFails
  <2>1. /\ op.pc = "sync" /\ op.call \in {"mkdir", "unlink", "close"} /\ ~win.dirty
        /\ UNCHANGED <<op, fil>> /\ fs' = [fs EXCEPT !.flag = FALSE]
        /\ win' = [sect |-> Info, buf |-> [free |-> fs.free, last |-> fs.last], dirty |-> FALSE]
    BY <1>7, SyncIs DEF InfoFails
  <2>2. \A s \in Sectors \ {Info} : Vol'[s] = disk[s] /\ disk'[s] = disk[s]
    BY <1>1, <2>1 DEF Vol
  <2>3. LinksStay /\ HeldIn(Vol')
    BY <2>1, <2>2, FromDisk
  <2>4. FsOK' /\ fs'.free = fs.free
    BY <2>1 DEF CInv, Typed, FsOK
  <2>5. FileOK'
    BY <2>1, FileSame DEF CInv, Typed
  <2>6. Uses(Vol, op', fil') /\ Pending' <= Pending
    BY <2>1 DEF CInv, InUse, Pending
  <2> QED
    BY <1>1, <2>3, <2>4, <2>5, <2>6, Faulty
<1> QED
  BY <1>4, <1>5, <1>6, <1>7 DEF DiskFault

LEMMA PowerCounts == ASSUME IInv, IInv', CInv, PowerLoss PROVE CInv'
<1>1. /\ disk' = disk /\ op' = NoCall /\ fil' = NoFile
      /\ win' = [sect |-> Info, buf |-> disk[Info], dirty |-> FALSE]
      /\ fs' = [free |-> disk[Info].free, last |-> disk[Info].last, flag |-> FALSE, cdir |-> Root]
      /\ spent' = [spent EXCEPT !.losses = @ + 1]
  BY DEF PowerLoss, Loaded, Mounted
<1>2. Vol' = disk
  BY <1>1, VolIsOver DEF IInv, Vol
<1>3. FsOK'
  BY <1>1, ClusterFacts DEF FsOK, CInv, Typed
<1>4. FileOK'
  BY <1>1, NoFileIs, NoCallIs, ContentsAre, FatAssumption DEF FileOK
<1>5. SpentOK' /\ spent'.losses # 0
  BY <1>1 DEF SpentOK, CInv, Typed
<1>6. Typed'
  BY <1>1, <1>2, <1>3, <1>4, <1>5 DEF CInv, Typed
<1>7. InUse'
  BY <1>1, NoCallIs, NoFileIs DEF InUse, Uses
<1>8. Counted'
  BY <1>1, <1>2, <1>5 DEF Counted, SameLinks
<1> QED
  BY <1>6, <1>7, <1>8 DEF CInv

(***************************************************************************)
(* What the user does.                                                     *)
(***************************************************************************)
LEMMA DirectoryUsed ==
    ASSUME IInv, NEW d \in Directories(Vol) PROVE d \in Clusters /\ Link(Vol, d) # 0
<1>1. GSound(Vol) /\ Shaped(Vol)
  BY DEF IInv, Views, WinInv
<1>2. CASE d = Root
  BY <1>1, <1>2, ClusterFacts DEF GSound
<1>3. CASE d # Root
  <2>1. d \in Clusters
    BY <1>3 DEF Directories
  <2> PICK t \in Clusters, i \in 1 .. Slots : Entry(Vol, t, i).clst = d
    BY <1>3 DEF Directories
  <2>2. Head(Vol, t, i) = d /\ d # 0
    BY <2>1, ClusterFacts DEF Head
  <2> QED
    BY <1>1, <2>1, <2>2 DEF GSound, HeadsOK
<1> QED
  BY <1>2, <1>3

\* A call begins, or nothing does: all but the call is as it was.
LEMMA Begins ==
    ASSUME IInv, IInv', CInv, UNCHANGED <<disk, win, fil>>, FsOK', fs'.free = fs.free, fs'.flag = fs.flag,
           SpentOK', spent'.faults = spent.faults, spent'.losses = spent.losses,
           Pending' = Pending, Uses(Vol, op', fil'), FileOK'
    PROVE  CInv'
<1>1. LinksStay /\ HeldIn(disk') /\ HeldIn(Vol')
  BY Rests
<1>2. Typed'
  BY <1>1 DEF CInv, Typed
<1>3. InUse'
  BY <1>1, LinksUsed, UsesStay
<1>4. Counted'
  <2>1. Pending' <= Pending
    BY PendingIs
  <2> QED
    BY <1>1, <2>1, CountStays
<1> QED
  BY <1>2, <1>3, <1>4 DEF CInv

LEMMA NameCounts ==
    ASSUME IInv, IInv', CInv, NEW d \in Directories(Vol), NEW n \in Names, NEW new \in BOOLEAN,
           Open(d, n, new) \/ Mkdir(d, n) \/ Unlink(d, n)
    PROVE  CInv'
<1>1. PICK c \in {"open", "mkdir", "unlink"} :
          op' = OnName(c, d, n) \/ op' = [OnName(c, d, n) EXCEPT !.fresh = new]
  BY DEF Open, Mkdir, Unlink, Begin
<1>2. /\ UNCHANGED <<disk, win, fs, fil>> /\ spent' = [spent EXCEPT !.calls = @ + 1] /\ Idle
      /\ ~fil.open
  BY DEF Open, Mkdir, Unlink, Begin
<1>3. d \in Clusters /\ Link(Vol, d) # 0
  BY DirectoryUsed
<1>4. op'.pc = "find" /\ op'.call = c /\ op'.d = d /\ op'.t = d
  <2> DEFINE k == Call(c)
             o == OnName(c, d, n)
  <2>1. /\ k \in [call : {"none", "open", "mkdir", "unlink", "write", "close"}, pc : {"idle"},
                  d : Clusters, n : Names \cup {NoName}, fresh : BOOLEAN, t : Clusters,
                  i : 1 .. Slots, clst : Clusters \cup {0}, ncl : Clusters \cup {0},
                  dcl : Clusters \cup {0}, left : Nat, seen : {{}}]
        /\ k.call = c
    BY NoCallIs DEF Call
  <2> HIDE DEF k
  <2>2. /\ o \in [call : {c}, pc : {"find"}, d : {d}, n : Names \cup {NoName}, fresh : BOOLEAN, t : {d},
                  i : 1 .. Slots, clst : Clusters \cup {0}, ncl : Clusters \cup {0},
                  dcl : Clusters \cup {0}, left : Nat, seen : {{}}]
    BY <2>1 DEF OnName, k
  <2> HIDE DEF o
  <2>3. op' = o \/ op' = [o EXCEPT !.fresh = new]
    BY <1>1 DEF o
  <2> QED
    BY <2>2, <2>3
<1>5. fil.clust = 0
  BY <1>2 DEF IInv, Control, FilOK
<1>6. Uses(Vol, op', fil')
  BY <1>2, <1>3, <1>4, <1>5 DEF Uses
<1>7. FileOK'
  BY <1>2, <1>4, FileSame DEF CInv, Typed
<1>8. Pending' = Pending
  BY <1>2, <1>4, IdleIs DEF Pending, IInv
<1>9. /\ SpentOK' /\ spent'.faults = spent.faults /\ spent'.losses = spent.losses /\ FsOK'
  BY <1>2 DEF CInv, Typed, SpentOK, FsOK
<1> QED
  BY <1>2, <1>6, <1>7, <1>8, <1>9, Begins

LEMMA FileCounts ==
    ASSUME IInv, IInv', CInv, Close \/ \E k \in 1 .. MaxSize : Write(k)
    PROVE  CInv'
<1>1. UNCHANGED <<disk, win, fs, fil, spent>> /\ Idle
  BY DEF Close, Write
<1>2. /\ op'.pc \in {"chunk", "spill"}
      /\ op'.call = "write" => op'.left <= MaxSize - fil.size /\ op'.left \in Nat
  <2>1. CASE Close
    <3>1. op' = [NoCall EXCEPT !.call = "close", !.pc = "spill", !.d = fil.d, !.n = fil.n]
      BY <2>1, NoCallIs DEF Close, Call
    <3> QED
      BY <3>1, NoCallIs
  <2>2. CASE \E k \in 1 .. MaxSize : Write(k)
    <3>1. PICK k \in 1 .. MaxSize : Write(k)
      BY <2>2
    <3>2. op' = [NoCall EXCEPT !.call = "write", !.pc = "chunk", !.left = k] /\ k \in 1 .. MaxSize - fil.size
      BY <3>1, NoCallIs DEF Write, Call
    <3>3. k \in Nat /\ k <= MaxSize - fil.size
      BY <3>1, <3>2, FatAssumption DEF IInv, Control, FilOK, FilType
    <3> QED
      BY <3>2, <3>3, NoCallIs
  <2> QED
    BY <2>1, <2>2
<1>3. FileOK'
  <2>1. FileOK /\ fil.size \in Nat /\ MaxSize \in Nat
    BY FatAssumption DEF CInv, Typed, IInv, Control, FilOK, FilType
  <2> QED
    BY <1>1, <1>2, <2>1 DEF FileOK
<1>4. Uses(Vol, op', fil')
  BY <1>1, <1>2, NoUse DEF CInv
<1>5. Pending' = Pending
  BY <1>1, <1>2, IdleIs DEF Pending, IInv
<1>6. SpentOK' /\ FsOK'
  BY <1>1 DEF CInv, Typed, SpentOK, FsOK
<1> QED
  BY <1>1, <1>3, <1>4, <1>5, <1>6, Begins

LEMMA QuietCounts ==
    ASSUME IInv, IInv', CInv, UNCHANGED vars \/ \E d \in Directories(Vol) : Chdir(d)
    PROVE  CInv'
<1>1. /\ UNCHANGED <<disk, win, op, fil, spent>>
      /\ fs' = fs \/ \E d \in Clusters : fs' = [fs EXCEPT !.cdir = d]
  BY DirectoryUsed DEF Chdir, vars
<1>2. FsOK' /\ fs'.free = fs.free /\ fs'.flag = fs.flag
  BY <1>1 DEF CInv, Typed, FsOK
<1>3. SpentOK' /\ Uses(Vol, op', fil') /\ Pending' = Pending
  BY <1>1 DEF CInv, Typed, SpentOK, InUse, Pending
<1>4. FileOK'
  BY <1>1, FileSame DEF CInv, Typed
<1> QED
  BY <1>1, <1>2, <1>3, <1>4, Begins

(***************************************************************************)
(* The counts hold.                                                        *)
(***************************************************************************)
LEMMA InitiallyCounted == ASSUME Clean, Init PROVE CInv
<1>1. /\ disk = Formatted /\ op = NoCall /\ fil = NoFile
      /\ win = [sect |-> Info, buf |-> disk[Info], dirty |-> FALSE]
      /\ fs = [free |-> disk[Info].free, last |-> disk[Info].last, flag |-> FALSE, cdir |-> Root]
      /\ spent = [calls |-> 0, faults |-> 0, losses |-> 0]
  BY DEF Init, Loaded, Mounted
<1>2. /\ disk = [s \in Sectors |-> disk[s]]
      /\ \A c \in Clusters : Link(disk, c) = IF c = Root THEN EndOfChain ELSE 0
  BY <1>1, FormattedIs DEF Shaped
<1>3. Vol = disk
  BY <1>1, <1>2 DEF Vol
<1>4. LastCluster \in Nat \ {0, 1}
  BY FatAssumption
<1>5. disk[Info].free = LastCluster - 2 /\ LastCluster - 2 \in 0 .. LastCluster - 1
  <2>1. disk[Info] = NewSector(Info)
    BY <1>1, SectorFacts DEF Formatted
  <2> DEFINE info == [free |-> LastCluster - 2, last |-> Root]
  <2>2. NewSector(Info) = info
    <3>1. Info \notin FatSectors /\ Info # Root
      BY SectorFacts, ClusterFacts
    <3>2. NewSector(Info) = CASE Info \in FatSectors -> NewFat(Info) [] Info = Info -> info
                              [] Info = Root -> Blank [] OTHER -> Leftover
      BY DEF NewSector
    <3> HIDE DEF info
    <3> QED
      BY <3>1, <3>2
  <2>3. NewSector(Info).free = LastCluster - 2
    BY <2>2
  <2> QED
    BY <1>4, <2>1, <2>3
<1>6. HeldIn(disk)
  <2>1. \A c \in Clusters : disk[c] = Blank \/ disk[c] = Leftover
    BY <1>1, SectorFacts DEF Formatted, NewSector
  <2> QED
    BY <2>1, ContentsAre, FatAssumption DEF HeldIn
<1>7. Typed
  <2>1. FsOK
    BY <1>1, <1>5, ClusterFacts DEF FsOK
  <2>2. FileOK
    BY <1>1, NoFileIs, NoCallIs, ContentsAre, FatAssumption DEF FileOK
  <2>3. SpentOK
    BY <1>1 DEF SpentOK
  <2> QED
    BY <1>3, <1>5, <1>6, <2>1, <2>2, <2>3 DEF Typed
<1>8. InUse
  BY <1>1, NoCallIs, NoFileIs DEF InUse, Uses
<1>9. Counts = LastCluster - 2
  <2>1. IsFiniteSet(Clusters) /\ Cardinality(Clusters) = LastCluster - 1
    BY <1>4, FS_Interval DEF Clusters
  <2>2. FreeIn(disk) = Clusters \ {Root}
    BY <1>2, ClusterFacts DEF FreeIn
  <2>3. Cardinality(FreeIn(disk)) = LastCluster - 1 - 1
    BY <2>1, <2>2, ClusterFacts, FS_RemoveElement
  <2>4. Pending = 0
    BY <1>1, NoCallIs DEF Pending
  <2> QED
    BY <1>3, <1>4, <2>3, <2>4 DEF Counts
<1>10. Counted
  BY <1>1, <1>3, <1>4, <1>5, <1>9 DEF Counted, SameLinks
<1> QED
  BY <1>7, <1>8, <1>10 DEF CInv

LEMMA CountsKept == ASSUME IInv, CInv, [Next]_vars PROVE CInv'
<1>1. IInv'
  BY Kept
<1>2. CASE CallStep
  BY <1>1, <1>2, FindCounts, FindNextCounts, EmptyCounts, RegisterCounts, FullTableCounts,
     AllocNextCounts, ResetCounts, BackCounts, DropCounts, FreeCounts, AllocateCounts, LinkItCounts,
     FullCounts, ClearCounts, ChunkCounts, SpillCounts, DataCounts, PutEntryCounts, PutInfoCounts,
     SyncedCounts, SyncWindowCounts
     DEF CallStep
<1>3. CASE User
  <2>1. CASE \E d \in Directories(Vol), n \in Names :
                 \/ \E new \in BOOLEAN : Open(d, n, new)
                 \/ Mkdir(d, n)
                 \/ Unlink(d, n)
    BY <1>1, <2>1, NameCounts
  <2>2. CASE \E d \in Directories(Vol) : Chdir(d)
    BY <1>1, <2>2, QuietCounts
  <2>3. CASE Close \/ \E k \in 1 .. MaxSize : Write(k)
    BY <1>1, <2>3, FileCounts
  <2>4. CASE SyncWindow
    BY <1>1, <2>4, SyncWindowCounts
  <2> QED
    BY <1>3, <2>1, <2>2, <2>3, <2>4 DEF User
<1>4. CASE DiskFault
  BY <1>1, <1>4, FaultCounts
<1>5. CASE PowerLoss
  BY <1>1, <1>5, PowerCounts
<1>6. CASE UNCHANGED vars
  BY <1>1, <1>6, QuietCounts
<1> QED
  BY <1>2, <1>3, <1>4, <1>5, <1>6 DEF Next

LEMMA TypesHold == ASSUME IInv, CInv PROVE TypeOK
<1>1. \A f \in FatSectors : disk[f] \in [InSector(f) -> Links]
  BY DEF IInv, WinInv, Shaped
<1>2. \A c \in Clusters : disk[c] \in Contents
  BY DEF CInv, Typed, HeldIn
<1>3. disk[Info].free \in 0 .. LastCluster - 1 /\ fs.free \in 0 .. LastCluster - 1 /\ fs.cdir \in Clusters
  BY DEF CInv, Typed, FsOK
<1>4. win.sect \in Sectors \cup {NoSector} /\ (win.dirty => win.sect \in FatSectors \cup Clusters)
  BY DEF IInv, WinInv
<1>5. op.t \in Clusters /\ {op.clst, op.ncl, op.dcl} \subseteq Clusters \cup {0}
  BY DEF IInv, Control, OpType
<1>6. fil.size \in 0 .. MaxSize /\ fil.sclust \in Clusters \cup {0}
  BY FatAssumption DEF IInv, Control, FilOK, FilType, CInv, Typed, FileOK
<1> QED
  BY <1>1, <1>2, <1>3, <1>4, <1>5, <1>6 DEF TypeOK

LEMMA CountIsExact == ASSUME IInv, CInv PROVE FreeCount
<1>1. fs.free \in Int /\ Pending \in {0, 1} /\ Counts \in Nat /\ Cardinality(FreeIn(Vol)) \in Nat
  BY PendingIs, FreeFinite, FatAssumption DEF CInv, Typed, FsOK
<1>2. Counts >= Cardinality(FreeIn(Vol))
  BY <1>1 DEF Counts
<1>3. spent.losses = 0 => fs.free >= Cardinality(FreeIn(Vol))
  BY <1>1, <1>2 DEF CInv, Counted
<1>4. Quiet => Counts = Cardinality(FreeIn(Vol))
  <2>1. Quiet => Pending = 0
    BY IdleIs DEF Quiet, Pending, IInv
  <2> QED
    BY <1>1, <2>1 DEF Counts
<1> QED
  BY <1>3, <1>4 DEF CInv, Counted, FreeCount

LEMMA Invariants == ASSUME Clean PROVE Spec => [](IInv /\ CInv)
<1>1. Init => IInv /\ CInv
  BY Initially, InitiallyCounted
<1>2. IInv /\ CInv /\ [Next]_vars => IInv' /\ CInv'
  BY Kept, CountsKept
<1> QED
  BY <1>1, <1>2, PTL DEF Spec

\* Every sector keeps the shape of what it is for, whatever fails: a link
\* leads to a cluster, to nothing or marks an end, an entry names a cluster
\* or none, and the counts and the size of the file stay in their ranges
\* (ff.c create_chain, remove_chain, f_write and their callers).
THEOREM VolumeTyped == ASSUME Clean PROVE Spec => []TypeOK
<1>1. IInv /\ CInv => TypeOK
  BY TypesHold
<1> QED
  BY <1>1, Invariants, PTL

\* free_clst is the number of free clusters between calls as long as nothing
\* has failed, and FSInfo has it or fsi_flag is set; it is never too low while
\* the power stays on, so that create_chain says the volume is full only when
\* it is.
THEOREM FreeIsCounted == ASSUME Clean PROVE Spec => []FreeCount
<1>1. IInv /\ CInv => FreeCount
  BY CountIsExact
<1> QED
  BY <1>1, Invariants, PTL

(***************************************************************************)
(* NotMixed.  What is on the disk and what FatFs sees of it have whole     *)
(* files only: an entry names a file when its data are on the disk, and    *)
(* what is written past the window goes to clusters that no entry leads    *)
(* to.  The clusters of the open file are a sequence, its chain; the last  *)
(* piece of data may still be in fp->buf.                                  *)
(***************************************************************************)
Volumes == {disk, Vol}
Tail(n) == (n - 1) \div Units

InFile(v, e, x) == ~e.dir /\ \E j \in 0 .. Tail(e.size) : ClusterAt(v, e.clst, j) = x
Whole(v, e, n) ==
    /\ e.dir => v[e.clst].dots
    /\ ~e.dir =>
          /\ e.size <= MaxSize
          /\ \A j \in 0 .. Tail(e.size) : ClusterAt(v, e.clst, j) \in Clusters
          /\ \E w \in 1 .. n : \A k \in 1 .. e.size : Unit(v, e, k) = <<w, k>>
FilesWhole(v, n) ==
    \A t \in Clusters, i \in 1 .. Slots : Head(v, t, i) # 0 => Whole(v, Entry(v, t, i), n)

\* No entry leads to c.
Unfiled(v, c) ==
    \A t \in Clusters, i \in 1 .. Slots :
        Head(v, t, i) # 0 => Head(v, t, i) # c /\ ~InFile(v, Entry(v, t, i), c)

Writing == op.call = "write" /\ op.pc \in {"spill", "data"}
Linking == op.call = "write" /\ op.pc \in {"chain", "link"}
Closed  == op.call = "close" /\ op.pc = "sync"

IsChain(m, F) ==
    /\ m \in Nat /\ F \in [1 .. m -> Clusters]
    /\ m = 0 <=> fil.sclust = 0
    /\ m # 0 => F[1] = fil.sclust /\ F[m] = fil.clust /\ Link(Vol, F[m]) \notin Clusters
    /\ \A j, k \in 1 .. m : F[j] = F[k] => j = k
    /\ \A j \in 1 .. m - 1 : Link(Vol, F[j]) = F[j + 1]
    /\ \A j \in 1 .. m : \A v \in Volumes : Unfiled(v, F[j])
    /\ Linking /\ op.pc = "link" => \A j \in 1 .. m : F[j] # op.ncl
    /\ \A x \in Clusters : \/ fil.stop \/ Link(disk, x) = Link(Vol, x)
                           \/ \E j \in 1 .. m : F[j] = x
                           \/ Linking /\ op.pc = "link" /\ x = op.ncl
HasRoom(m) ==
    /\ Tail(fil.size) + 1 <= m
    /\ ~fil.stop /\ op.call # "close" => m = Tail(fil.size) + (IF Writing THEN 2 ELSE 1)
    /\ op.call = "write" => ~fil.stop
    /\ Writing \/ Linking => fil.size % Units = 0 /\ op.left # 0
    /\ Linking => op.clst = fil.clust
Piece(F, k) ==
    IF fil.dirty /\ Tail(k) = Tail(fil.size) THEN fil.buf[((k - 1) % Units) + 1]
    ELSE disk[F[Tail(k) + 1]].data[((k - 1) % Units) + 1]
HasData(F) ==
    /\ fil.dirty => fil.size # 0 /\ fil.sect = F[Tail(fil.size) + 1]
    /\ fil.size % Units # 0 /\ op.call # "close" => fil.dirty
    /\ op.pc \in {"data", "entry"} => ~fil.dirty
    /\ \A k \in 1 .. fil.size : Piece(F, k) = <<fil.ver, k>>
FileWritten == \E m \in Nat : \E F \in [1 .. m -> Clusters] : IsChain(m, F) /\ HasRoom(m) /\ HasData(F)

\* What the calls know that change directories.
Growing ==
    /\ op.pc \in {"find_next", "alloc", "alloc_next"} => (win.dirty => win.sect \in Clusters)
    /\ op.pc = "chain" /\ op.call # "write" => ~win.dirty
    /\ op.pc \in {"chain", "link"} /\ op.clst # 0 => Link(Vol, op.clst) \notin Clusters
    /\ op.pc = "link" => Link(Vol, op.ncl) \notin Clusters /\ op.clst # op.ncl
    /\ op.pc \in {"link", "clear"} => \A v \in Volumes : Unfiled(v, op.ncl)
    /\ (op.call = "mkdir" /\ op.dcl # 0 /\ op.pc \in {"alloc", "alloc_next", "chain", "link", "clear"}
          /\ ~(op.pc = "clear" /\ op.ncl = op.dcl)) => \A v \in Views : v[op.dcl].dots
Numbered ==
    /\ ~Idle => spent.calls # 0
    /\ fil.open => fil.ver \in 1 .. spent.calls

DInv ==
    /\ \A v \in Volumes : FilesWhole(v, spent.calls)
    /\ fil.open /\ ~Closed => FileWritten
    /\ Growing /\ Numbered

(***************************************************************************)
(* Induction: a set that has 0 and, with every i - 1, i.                   *)
(***************************************************************************)
LEMMA LeastNat ==
    ASSUME NEW T \in SUBSET Nat, T # {}
    PROVE  \E n \in T : \A m \in T : n <= m
<1> DEFINE R == OpToRel(<, Nat)
<1>1. IsWellFoundedOn(R, Nat)
  BY NatLessThanWellFounded
<1>2. \A x, y \in Nat : x < y => <<x, y>> \in R
  BY DEF OpToRel
<1> HIDE DEF R
<1>3. PICK n \in T : \A m \in T : ~(<<m, n>> \in R)
  BY <1>1, WFMin
<1>4. ASSUME NEW m \in T PROVE n <= m
  <2>1. m \in Nat /\ n \in Nat /\ ~(<<m, n>> \in R)
    BY <1>3
  <2>2. ~(m < n)
    BY <1>2, <2>1
  <2> QED
    BY <2>1, <2>2
<1> QED
  BY <1>4

LEMMA Induction ==
    ASSUME NEW n \in Nat, NEW S, 0 \in S, \A i \in 1 .. n : i - 1 \in S => i \in S
    PROVE  0 .. n \subseteq S
<1> DEFINE T == {i \in 0 .. n : i \notin S}
<1> SUFFICES ASSUME T # {} PROVE FALSE
  OBVIOUS
<1>1. T \in SUBSET Nat
  OBVIOUS
<1> HIDE DEF T
<1>2. PICK i \in T : \A j \in T : i <= j
  BY <1>1, LeastNat
<1>3. i \in 0 .. n /\ i \notin S
  BY DEF T
<1>4. i \in 1 .. n /\ i - 1 \in 0 .. n /\ i - 1 \notin T
  BY <1>1, <1>2, <1>3
<1> QED
  BY <1>3, <1>4 DEF T

\* The clusters of a chain, one after the other.
Steps(v, c, n, f) == f = [j \in 0 .. n |-> IF j = 0 THEN c ELSE Link(v, f[j - 1])]

LEMMA Walk ==
    ASSUME NEW v, NEW c
    PROVE  /\ ClusterAt(v, c, 0) = c
           /\ \A k \in 1 .. MaxSize : ClusterAt(v, c, k) = Link(v, ClusterAt(v, c, k - 1))
<1>1. MaxSize \in Nat
  BY FatAssumption
<1> DEFINE S == {n \in 0 .. MaxSize : \E f : Steps(v, c, n, f)}
<1>2. 0 \in S
  <2> DEFINE f == [j \in 0 .. 0 |-> c]
  <2>1. Steps(v, c, 0, f)
    BY DEF Steps
  <2> QED
    BY <1>1, <2>1
<1>3. ASSUME NEW n \in 1 .. MaxSize, n - 1 \in S PROVE n \in S
  <2> PICK g : Steps(v, c, n - 1, g)
    BY <1>3
  <2> DEFINE f == [j \in 0 .. n |-> IF j = n THEN Link(v, g[n - 1]) ELSE g[j]]
  <2>1. n \in Int /\ n >= 1
    BY <1>1
  <2>2. \A j \in 0 .. n - 1 : f[j] = g[j]
    BY <2>1
  <2>3. \A j \in 0 .. n - 1 : g[j] = IF j = 0 THEN c ELSE Link(v, g[j - 1])
    BY DEF Steps
  <2>4. f[n] = Link(v, f[n - 1])
    BY <2>1
  <2>5. f = [j \in 0 .. n |-> f[j]]
    OBVIOUS
  <2> HIDE DEF f
  <2>6. \A j \in 0 .. n : f[j] = IF j = 0 THEN c ELSE Link(v, f[j - 1])
    <3> SUFFICES ASSUME NEW j \in 0 .. n PROVE f[j] = IF j = 0 THEN c ELSE Link(v, f[j - 1])
      OBVIOUS
    <3>1. CASE j = n
      BY <2>1, <2>4, <3>1
    <3>2. CASE j # n
      <4>1. j \in 0 .. n - 1 /\ (j # 0 => j - 1 \in 0 .. n - 1)
        BY <2>1, <3>2
      <4> QED
        BY <2>2, <2>3, <4>1
    <3> QED
      BY <3>1, <3>2
  <2>7. Steps(v, c, n, f)
    BY <2>5, <2>6 DEF Steps
  <2> QED
    BY <2>7
<1>4. MaxSize \in S
  <2> HIDE DEF S
  <2>1. 0 .. MaxSize \subseteq S
    BY <1>1, <1>2, <1>3, Induction
  <2> QED
    BY <1>1, <2>1
<1> DEFINE F == CHOOSE f : Steps(v, c, MaxSize, f)
<1>5. Steps(v, c, MaxSize, F)
  BY <1>4
<1>6. \A k : ClusterAt(v, c, k) = F[k]
  BY DEF ClusterAt, Steps
<1> HIDE DEF F
<1>7. \A j \in 0 .. MaxSize : F[j] = IF j = 0 THEN c ELSE Link(v, F[j - 1])
  BY <1>5 DEF Steps
<1> QED
  BY <1>1, <1>6, <1>7

(***************************************************************************)
(* Where the pieces of a file are: piece k is in the cluster Tail(k), the  *)
(* first of which is 0, and the last in Tail(size).                        *)
(***************************************************************************)
LEMMA Times ==
    ASSUME NEW u \in Nat \ {0}, NEW p \in Int, NEW q \in Int, p < q
    PROVE  u * p + u <= u * q
<1>1. u * (q - p - 1) >= 0
  BY SMTT(30)
<1> QED
  BY <1>1, SMTT(30)

LEMMA Quotient ==
    ASSUME NEW u \in Nat \ {0}, NEW a \in Nat, NEW q \in Int, NEW r \in 0 .. u - 1, a = u * q + r
    PROVE  a \div u = q /\ a % u = r
<1> DEFINE p == a \div u
           s == a % u
<1>1. p \in Int /\ s \in 0 .. u - 1 /\ a = u * p + s
  BY Division
<1>2. u * p \in Int /\ u * q \in Int
  BY <1>1
<1> HIDE DEF p, s
<1>3. ~(p < q)
  <2> SUFFICES ASSUME p < q PROVE FALSE
    OBVIOUS
  <2>1. u * p + u <= u * q
    BY <1>1, Times
  <2> QED
    BY <1>1, <1>2, <2>1
<1>4. ~(q < p)
  <2> SUFFICES ASSUME q < p PROVE FALSE
    OBVIOUS
  <2>1. u * q + u <= u * p
    BY <1>1, Times
  <2> QED
    BY <1>1, <1>2, <2>1
<1>5. p = q /\ s = r
  BY <1>1, <1>3, <1>4
<1> QED
  BY <1>5 DEF p, s

LEMMA TailOrder ==
    ASSUME NEW n \in Nat, NEW k \in 1 .. n
    PROVE  /\ Tail(k) \in Nat /\ Tail(n) \in Nat /\ Tail(k) <= Tail(n) /\ Tail(n) < n
           /\ (k - 1) % Units \in 0 .. Units - 1
<1> DEFINE p == Tail(k)
           q == Tail(n)
           r == (k - 1) % Units
           s == (n - 1) % Units
<1>1. Units \in Nat \ {0} /\ k - 1 \in Nat /\ n - 1 \in Nat
  BY FatAssumption
<1>2. /\ p \in Int /\ r \in 0 .. Units - 1 /\ k - 1 = Units * p + r
      /\ q \in Int /\ s \in 0 .. Units - 1 /\ n - 1 = Units * q + s
  BY <1>1, Division DEF Tail
<1> HIDE DEF p, q, r, s
<1>3. Units * p \in Int /\ Units * q \in Int
  BY <1>1, <1>2
<1>4. ~(p < 0)
  <2> SUFFICES ASSUME p < 0 PROVE FALSE
    OBVIOUS
  <2>1. Units * p + Units <= Units * 0
    BY <1>1, <1>2, Times
  <2> QED
    BY <1>1, <1>2, <1>3, <2>1
<1>5. ~(q < p)
  <2> SUFFICES ASSUME q < p PROVE FALSE
    OBVIOUS
  <2>1. Units * q + Units <= Units * p
    BY <1>1, <1>2, Times
  <2> QED
    BY <1>1, <1>2, <1>3, <2>1
<1>6. q < n
  <2>1. q <= Units * q
    BY <1>1, <1>2, <1>4, <1>5, SMTT(30)
  <2> QED
    BY <1>1, <1>2, <1>3, <2>1
<1> QED
  BY <1>1, <1>2, <1>4, <1>5, <1>6 DEF p, q, r

LEMMA TailOfNone == Tail(0) = -1
  BY FatAssumption, SMTT(30) DEF Tail

LEMMA TailType == ASSUME NEW n \in Nat PROVE Tail(n) \in Int /\ Tail(n) + 1 \in Nat /\ Tail(n) < n
<1>1. CASE n = 0
  BY <1>1, TailOfNone
<1>2. CASE n # 0
  BY <1>2, TailOrder
<1> QED
  BY <1>1, <1>2

\* The pieces after the last one: in a new cluster, or in the one that is not full.
LEMMA TailWhole ==
    ASSUME NEW n \in Nat, n % Units = 0, NEW x \in 1 .. Units
    PROVE  Tail(n + x) = Tail(n) + 1 /\ (n + x - 1) % Units = x - 1
<1>1. Units \in Nat \ {0}
  BY FatAssumption
<1> DEFINE q == n \div Units
<1>2. q \in Int /\ n = Units * q + (n % Units)
  BY <1>1, Division
<1> HIDE DEF q
<1>3. n = Units * q /\ Units * q \in Int
  BY <1>1, <1>2
<1>4. Tail(n + x) = q /\ (n + x - 1) % Units = x - 1
  <2>1. x - 1 \in 0 .. Units - 1 /\ n + x - 1 \in Nat /\ n + x - 1 = Units * q + (x - 1)
    BY <1>1, <1>3
  <2> QED
    BY <1>1, <1>2, <2>1, Quotient DEF Tail
<1>5. Tail(n) = q - 1
  <2>1. CASE n = 0
    <3>1. n \div Units = 0
      BY <1>1, <2>1, SMTT(30)
    <3> QED
      BY <2>1, <3>1, TailOfNone DEF q
  <2>2. CASE n # 0
    <3>1. n - 1 \in Nat /\ Units - 1 \in 0 .. Units - 1 /\ q - 1 \in Int
      BY <1>1, <1>2, <2>2
    <3>2. Units * (q - 1) = Units * q - Units
      BY <1>1, <1>2, SMTT(30)
    <3>3. n - 1 = Units * (q - 1) + (Units - 1)
      BY <1>1, <1>3, <3>2
    <3> QED
      BY <1>1, <3>1, <3>3, Quotient DEF Tail
  <2> QED
    BY <2>1, <2>2
<1> QED
  BY <1>2, <1>4, <1>5

LEMMA TailPart ==
    ASSUME NEW n \in Nat, n % Units # 0
    PROVE  /\ \A x \in 1 .. Units - (n % Units) :
                 Tail(n + x) = Tail(n) /\ (n + x - 1) % Units = (n % Units) + x - 1
           /\ \A k \in 1 .. n : Tail(k) = Tail(n) => (k - 1) % Units < n % Units
<1> DEFINE q == n \div Units
           r == n % Units
<1>1. Units \in Nat \ {0}
  BY FatAssumption
<1>2. q \in Int /\ r \in 1 .. Units - 1 /\ n = Units * q + r
  BY <1>1, Division
<1> HIDE DEF q, r
<1>3. Units * q \in Int
  BY <1>1, <1>2
<1>4. ASSUME NEW x \in 0 .. Units - r PROVE Tail(n + x) = q /\ (n + x - 1) % Units = r + x - 1
  <2>1. r + x - 1 \in 0 .. Units - 1 /\ n + x - 1 \in Nat /\ n + x - 1 = Units * q + (r + x - 1)
    BY <1>1, <1>2, <1>3
  <2> QED
    BY <1>1, <1>2, <2>1, Quotient DEF Tail
<1>5. Tail(n) = q
  <2>1. 0 \in 0 .. Units - r /\ n + 0 = n
    BY <1>1, <1>2
  <2> QED
    BY <1>4, <2>1
<1>6. ASSUME NEW k \in 1 .. n, Tail(k) = q PROVE (k - 1) % Units < r
  <2> DEFINE s == (k - 1) % Units
  <2>1. k - 1 \in Nat
    OBVIOUS
  <2>2. s \in 0 .. Units - 1 /\ k - 1 = Units * q + s
    BY <1>1, <1>6, <2>1, Division DEF Tail
  <2> HIDE DEF s
  <2>3. s < r
    BY <1>2, <1>3, <2>2
  <2> QED
    BY <2>3 DEF s
<1>7. \A x \in 1 .. Units - r : Tail(n + x) = Tail(n) /\ (n + x - 1) % Units = r + x - 1
  <2> SUFFICES ASSUME NEW x \in 1 .. Units - r
               PROVE  Tail(n + x) = Tail(n) /\ (n + x - 1) % Units = r + x - 1
    OBVIOUS
  <2>1. x \in 0 .. Units - r
    BY <1>1, <1>2
  <2> QED
    BY <1>4, <1>5, <2>1
<1> QED
  BY <1>5, <1>6, <1>7 DEF r

(***************************************************************************)
(* What a change of the volume leaves of the files in it.                  *)
(***************************************************************************)
LEMMA SameWalk ==
    ASSUME NEW v, NEW w, NEW c, NEW n \in Int, n <= MaxSize,
           \A j \in 0 .. n : ClusterAt(v, c, j) \in Clusters,
           \A j \in 0 .. n : LET x == ClusterAt(v, c, j) IN Link(v, x) \in Clusters => Link(w, x) = Link(v, x)
    PROVE  \A j \in 0 .. n : ClusterAt(w, c, j) = ClusterAt(v, c, j)
<1>1. CASE n < 0
  BY <1>1
<1>2. CASE n >= 0
  <2> DEFINE S == {j \in 0 .. n : ClusterAt(w, c, j) = ClusterAt(v, c, j)}
  <2>1. n \in Nat /\ MaxSize \in Nat
    BY <1>2, FatAssumption
  <2>2. 0 \in S
    BY <2>1, Walk
  <2>3. ASSUME NEW i \in 1 .. n, i - 1 \in S PROVE i \in S
    <3>1. i \in 1 .. MaxSize /\ i \in 0 .. n /\ i - 1 \in 0 .. n
      BY <2>1
    <3>2. ClusterAt(w, c, i - 1) = ClusterAt(v, c, i - 1)
      BY <2>3
    <3>3. /\ ClusterAt(v, c, i) = Link(v, ClusterAt(v, c, i - 1))
          /\ ClusterAt(w, c, i) = Link(w, ClusterAt(w, c, i - 1))
      BY <3>1, Walk
    <3>4. Link(w, ClusterAt(v, c, i - 1)) = Link(v, ClusterAt(v, c, i - 1))
      BY <3>1, <3>3
    <3> QED
      BY <3>1, <3>2, <3>3, <3>4
  <2> HIDE DEF S
  <2>4. 0 .. n \subseteq S
    BY <2>1, <2>2, <2>3, Induction
  <2> QED
    BY <2>4 DEF S
<1> QED
  BY <1>1, <1>2

Steady(v, w, x) ==
    /\ w[x].data = v[x].data /\ w[x].dots = v[x].dots
    /\ Link(v, x) \in Clusters => Link(w, x) = Link(v, x)

LEMMA FileStays ==
    ASSUME NEW v, NEW w, NEW e \in Entries, e.clst \in Clusters, NEW n \in Nat, Whole(v, e, n),
           \A x \in Clusters : x = e.clst \/ InFile(v, e, x) => Steady(v, w, x)
    PROVE  Whole(w, e, n) /\ \A x : InFile(w, e, x) <=> InFile(v, e, x)
<1>1. e.size \in Nat /\ MaxSize \in Nat /\ e.dir \in BOOLEAN
  BY FatAssumption DEF Entries
<1>2. CASE e.dir
  BY <1>1, <1>2 DEF Whole, InFile, Steady
<1>3. CASE ~e.dir
  <2>1. /\ e.size <= MaxSize
        /\ \A j \in 0 .. Tail(e.size) : ClusterAt(v, e.clst, j) \in Clusters
    BY <1>3 DEF Whole
  <2> PICK ver \in 1 .. n : \A k \in 1 .. e.size : Unit(v, e, k) = <<ver, k>>
    BY <1>3 DEF Whole
  <2>2. Tail(e.size) \in Int /\ Tail(e.size) <= MaxSize
    BY <1>1, <2>1, TailType
  <2>3. \A j \in 0 .. Tail(e.size) : Steady(v, w, ClusterAt(v, e.clst, j))
    BY <1>3, <2>1 DEF InFile
  <2>4. \A j \in 0 .. Tail(e.size) : ClusterAt(w, e.clst, j) = ClusterAt(v, e.clst, j)
    <3>1. \A j \in 0 .. Tail(e.size) : LET x == ClusterAt(v, e.clst, j) IN
              Link(v, x) \in Clusters => Link(w, x) = Link(v, x)
      BY <2>3 DEF Steady
    <3> QED
      BY <2>1, <2>2, <3>1, SameWalk
  <2>5. ASSUME NEW k \in 1 .. e.size PROVE Unit(w, e, k) = <<ver, k>>
    <3> DEFINE x == ClusterAt(v, e.clst, Tail(k))
               y == ClusterAt(w, e.clst, Tail(k))
    <3>1. Tail(k) \in 0 .. Tail(e.size)
      BY <1>1, TailOrder
    <3>2. w[x].data = v[x].data /\ y = x
      BY <2>3, <2>4, <3>1 DEF Steady
    <3>3. Unit(w, e, k) = w[y].data[((k - 1) % Units) + 1]
      BY DEF Unit, Tail
    <3>4. Unit(v, e, k) = v[x].data[((k - 1) % Units) + 1]
      BY DEF Unit, Tail
    <3> HIDE DEF x, y
    <3>5. Unit(v, e, k) = <<ver, k>>
      OBVIOUS
    <3> QED
      BY <3>2, <3>3, <3>4, <3>5
  <2> QED
    BY <1>3, <2>1, <2>4, <2>5 DEF Whole, InFile
<1> QED
  BY <1>1, <1>2, <1>3

SameEntries(v, w) ==
    \A t \in Clusters, i \in 1 .. Slots : Head(w, t, i) # 0 => Entry(w, t, i) = Entry(v, t, i)

LEMMA FilesStay ==
    ASSUME NEW v, NEW w, NEW n \in Nat, GSound(v), HeldIn(v), FilesWhole(v, n),
           \A x \in Clusters : Steady(v, w, x) \/ Unfiled(v, x),
           NEW t \in Clusters, NEW i \in 1 .. Slots, Head(w, t, i) # 0,
           Entry(w, t, i) = Entry(v, t, i)
    PROVE  /\ Whole(w, Entry(w, t, i), n)
           /\ \A x : InFile(w, Entry(w, t, i), x) <=> InFile(v, Entry(v, t, i), x)
<1> DEFINE e == Entry(v, t, i)
<1>1. Head(v, t, i) = e.clst /\ e.clst # 0 /\ Entry(w, t, i) = e
  BY DEF Head
<1>2. e.clst \in Clusters
  BY <1>1 DEF GSound, HeadsOK
<1>3. v[t] \in Contents
  BY DEF HeldIn
<1>4. e \in Entries
  BY <1>3 DEF Contents, Entry
<1>5. Whole(v, e, n)
  BY <1>1 DEF FilesWhole
<1>6. \A x \in Clusters : x = e.clst \/ InFile(v, e, x) => Steady(v, w, x)
  BY <1>1 DEF Unfiled
<1> HIDE DEF e
<1>7. Whole(w, e, n) /\ \A x : InFile(w, e, x) <=> InFile(v, e, x)
  BY <1>2, <1>4, <1>5, <1>6, FileStays
<1> QED
  BY <1>1, <1>7 DEF e

LEMMA WholeStays ==
    ASSUME NEW v, NEW w, NEW n \in Nat, GSound(v), HeldIn(v), FilesWhole(v, n),
           \A x \in Clusters : Steady(v, w, x) \/ Unfiled(v, x),
           SameEntries(v, w)
    PROVE  FilesWhole(w, n) /\ \A x : Unfiled(v, x) => Unfiled(w, x)
<1>1. ASSUME NEW t \in Clusters, NEW i \in 1 .. Slots, Head(w, t, i) # 0
      PROVE  /\ Whole(w, Entry(w, t, i), n) /\ Head(v, t, i) = Head(w, t, i)
             /\ \A x : InFile(w, Entry(w, t, i), x) <=> InFile(v, Entry(v, t, i), x)
  <2>1. Entry(w, t, i) = Entry(v, t, i)
    BY <1>1 DEF SameEntries
  <2>2. Head(v, t, i) = Head(w, t, i)
    BY <2>1 DEF Head
  <2> QED
    BY <1>1, <2>1, <2>2, FilesStay
<1>2. FilesWhole(w, n)
  BY <1>1 DEF FilesWhole
<1>3. ASSUME NEW x, Unfiled(v, x) PROVE Unfiled(w, x)
  BY <1>1, <1>3 DEF Unfiled
<1> QED
  BY <1>2, <1>3

\* More calls.
LEMMA WholeLater ==
    ASSUME NEW v, NEW n \in Nat, NEW m \in Nat, n <= m, FilesWhole(v, n)
    PROVE  FilesWhole(v, m)
<1>1. 1 .. n \subseteq 1 .. m
  OBVIOUS
<1>2. ASSUME NEW e, Whole(v, e, n) PROVE Whole(v, e, m)
  BY <1>1, <1>2 DEF Whole
<1> QED
  BY <1>2 DEF FilesWhole

\* No entry leads to a cluster that is free or that nothing refers to.
LEMMA NotFiled ==
    ASSUME NEW v, NEW n \in Nat, GSound(v), HeldIn(v), FilesWhole(v, n), NEW c \in Clusters,
           Loose(v, c) \/ Link(v, c) = 0
    PROVE  Unfiled(v, c)
<1> SUFFICES ASSUME NEW t \in Clusters, NEW i \in 1 .. Slots, Head(v, t, i) # 0
             PROVE  Head(v, t, i) # c /\ ~InFile(v, Entry(v, t, i), c)
  BY DEF Unfiled
<1> DEFINE e == Entry(v, t, i)
<1>1. Head(v, t, i) = e.clst
  BY DEF Head
<1>2. e.clst # c /\ \A x \in Clusters : Link(v, x) # c
  <2>1. CASE Loose(v, c)
    BY <1>1, <2>1 DEF Loose
  <2>2. CASE Link(v, c) = 0
    BY <1>1, <2>2 DEF GSound, HeadsOK, LinksOK
  <2> QED
    BY <2>1, <2>2
<1>3. v[t] \in Contents
  BY DEF HeldIn
<1>4. e.size \in Nat /\ MaxSize \in Nat
  BY <1>3, FatAssumption DEF Contents, Entry, Entries
<1> SUFFICES ASSUME InFile(v, e, c) PROVE FALSE
  BY <1>1, <1>2
<1>5. Whole(v, e, n) /\ ~e.dir
  BY DEF FilesWhole, InFile
<1>6. PICK j \in 0 .. Tail(e.size) : ClusterAt(v, e.clst, j) = c
  BY DEF InFile
<1>7. Tail(e.size) \in Int /\ Tail(e.size) < e.size /\ e.size <= MaxSize
  BY <1>4, <1>5, TailType DEF Whole
<1>8. j # 0
  BY <1>2, <1>6, Walk
<1>9. j \in 1 .. MaxSize /\ j - 1 \in 0 .. Tail(e.size)
  BY <1>4, <1>7, <1>8
<1>10. ClusterAt(v, e.clst, j - 1) \in Clusters
  BY <1>5, <1>9 DEF Whole
<1>11. ClusterAt(v, e.clst, j) = Link(v, ClusterAt(v, e.clst, j - 1))
  BY <1>9, Walk
<1> QED
  BY <1>2, <1>6, <1>10, <1>11

(***************************************************************************)
(* The kinds of steps: the window moves, a link is set, an entry is set, a *)
(* cluster is written past the window.                                     *)
(***************************************************************************)
Stays(v, w) == SameEntries(v, w) /\ \A x \in Clusters : Steady(v, w, x) \/ Unfiled(v, x)
Remains == \A w \in Volumes' : \E v \in Volumes : Stays(v, w)
UnfiledStays == \A x : (\A v \in Volumes : Unfiled(v, x)) => \A w \in Volumes' : Unfiled(w, x)

LEMMA VolumeFacts == ASSUME IInv, CInv, NEW v \in Volumes PROVE GSound(v) /\ HeldIn(v)
  BY DEF Volumes, IInv, Views, CInv, Typed

LEMMA SameStays == ASSUME NEW v PROVE Stays(v, v)
  BY DEF Stays, SameEntries, Steady

LEMMA Remain ==
    ASSUME IInv, CInv, \A v \in Volumes : FilesWhole(v, spent.calls),
           spent'.calls \in Nat, spent.calls <= spent'.calls, Remains
    PROVE  (\A v \in Volumes' : FilesWhole(v, spent'.calls)) /\ UnfiledStays
<1>1. spent.calls \in Nat
  BY DEF CInv, Typed, SpentOK
<1>2. ASSUME NEW w \in Volumes'
      PROVE  /\ FilesWhole(w, spent'.calls)
             /\ \E v \in Volumes : \A x : Unfiled(v, x) => Unfiled(w, x)
  <2> PICK v \in Volumes : Stays(v, w)
    BY DEF Remains
  <2>1. GSound(v) /\ HeldIn(v) /\ FilesWhole(v, spent.calls)
    BY VolumeFacts
  <2>2. FilesWhole(w, spent.calls) /\ \A x : Unfiled(v, x) => Unfiled(w, x)
    BY <1>1, <2>1, WholeStays DEF Stays
  <2>3. FilesWhole(w, spent'.calls)
    BY <1>1, <2>2, WholeLater
  <2> QED
    BY <2>2, <2>3
<1> QED
  BY <1>2 DEF UnfiledStays

LEMMA SeenBefore == ASSUME disk' \in Volumes, Vol' \in Volumes PROVE Remains
  BY SameStays DEF Remains, Volumes

LEMMA VisitSees ==
    ASSUME IInv, NEW s \in Sectors, Movable(s), Visit(s), disk' = disk
    PROVE  Remains
<1>1. Vol' = Vol \/ Vol' = disk
  BY VisitKeeps DEF IInv
<1> QED
  BY <1>1, SeenBefore DEF Volumes

LEMMA ViewIsVolume == Views \subseteq Volumes
  BY DEF Views, Volumes

LEMMA LinkSees ==
    ASSUME IInv, CInv, NEW c \in Clusters, NEW x \in Links, SetLink(c, x), Movable(FatOf[c]), disk' = disk
    PROVE  \E v \in Views : /\ \A s \in Clusters : Vol'[s] = v[s]
                            /\ LinkIs(v, Vol', c, x)
                            /\ SameLinks(v, Vol)
<1> DEFINE s == FatOf[c]
           v == Base(s)
           b == [Vol[s] EXCEPT ![c] = x]
<1>1. s \in FatSectors /\ s \in Sectors /\ s \notin Clusters
  BY SectorFacts
<1>2. Edit(s, b)
  BY DEF SetLink
<1>3. Shaped(v) /\ SameLinks(v, Vol)
  BY BaseLinks DEF IInv, WinInv, Base, CInv
<1>4. v[s] = Vol[s]
  BY <1>1 DEF Base, Vol
<1> HIDE DEF v
<1>5. Shaped(Over(v, s, b)) /\ LinkIs(v, Over(v, s, b), c, x)
  BY <1>3, <1>4, LinkEdit
<1> HIDE DEF b, s
<1>6. v \in Views /\ Vol' = Over(v, s, b)
  BY <1>1, <1>2, <1>5, EditGives DEF v, IInv, s
<1>7. \A y \in Clusters : Vol'[y] = v[y]
  BY <1>1, <1>6, SectorFacts DEF Over
<1> QED
  BY <1>3, <1>5, <1>6, <1>7

LEMMA LinkRemains ==
    ASSUME IInv, CInv, NEW c \in Clusters, NEW x \in Links, SetLink(c, x), Movable(FatOf[c]), disk' = disk,
           Link(Vol, c) \notin Clusters \/ \A v \in Views : Unfiled(v, c)
    PROVE  Remains
<1> PICK v \in Views : /\ \A s \in Clusters : Vol'[s] = v[s]
                       /\ LinkIs(v, Vol', c, x)
                       /\ SameLinks(v, Vol)
  BY LinkSees
<1>1. SameEntries(v, Vol')
  BY DEF SameEntries, Entry
<1>2. ASSUME NEW y \in Clusters PROVE Steady(v, Vol', y) \/ Unfiled(v, y)
  BY DEF Steady, LinkIs, SameLinks
<1>3. Stays(v, Vol') /\ v \in Volumes /\ Stays(disk, disk')
  BY <1>1, <1>2, ViewIsVolume, SameStays DEF Stays
<1> QED
  BY <1>3 DEF Remains, Volumes

\* An entry is set in one of the views.
EntryIs(v, w, t, i, e) ==
    /\ SameLinks(v, w)
    /\ \A s \in Clusters : w[s].data = v[s].data /\ w[s].dots = v[s].dots
    /\ \A s \in Clusters, j \in 1 .. Slots :
          Entry(w, s, j) = IF s = t /\ j = i THEN e ELSE Entry(v, s, j)

LEMMA EntrySees ==
    ASSUME IInv, NEW t \in Clusters, NEW i \in 1 .. Slots, NEW e, EntryOK(e),
           SetEntry(t, i, e), Movable(t), disk' = disk
    PROVE  \E v \in Views : EntryIs(v, Vol', t, i, e)
<1> DEFINE v == Base(t)
           b == [Vol[t] EXCEPT !.ent[i] = e]
<1>1. t \in Sectors
  BY SectorFacts
<1>2. Edit(t, b)
  BY DEF SetEntry
<1>3. Shaped(v)
  BY DEF IInv, WinInv, Base
<1>4. v[t] = Vol[t]
  BY <1>1 DEF Base, Vol
<1> HIDE DEF v
<1>5. /\ Shaped(Over(v, t, b)) /\ SameLinks(v, Over(v, t, b))
      /\ \A s \in Clusters, j \in 1 .. Slots :
            Entry(Over(v, t, b), s, j) = IF s = t /\ j = i THEN e ELSE Entry(v, s, j)
  BY <1>3, <1>4, EntryEdit DEF HeadIs
<1>6. b.data = v[t].data /\ b.dots = v[t].dots
  <2>1. Table(v[t])
    BY <1>3 DEF Shaped
  <2> QED
    BY <1>4, <2>1 DEF Table
<1> HIDE DEF b
<1>7. v \in Views /\ Vol' = Over(v, t, b)
  BY <1>1, <1>2, <1>5, EditGives DEF v, IInv
<1>8. \A s \in Clusters : Vol'[s].data = v[s].data /\ Vol'[s].dots = v[s].dots
  BY <1>6, <1>7, SectorFacts DEF Over
<1> QED
  BY <1>5, <1>7, <1>8 DEF EntryIs

LEMMA EntryRemains ==
    ASSUME IInv, NEW t \in Clusters, NEW i \in 1 .. Slots, NEW e, EntryOK(e), e.clst = 0,
           SetEntry(t, i, e), Movable(t), disk' = disk
    PROVE  Remains
<1> PICK v \in Views : EntryIs(v, Vol', t, i, e)
  BY EntrySees
<1>1. SameEntries(v, Vol')
  BY DEF SameEntries, EntryIs, Head
<1>2. ASSUME NEW y \in Clusters PROVE Steady(v, Vol', y)
  BY DEF Steady, EntryIs, SameLinks
<1>3. Stays(v, Vol') /\ v \in Volumes /\ Stays(disk, disk')
  BY <1>1, <1>2, ViewIsVolume, SameStays DEF Stays
<1> QED
  BY <1>3 DEF Remains, Volumes

LEMMA WriteStays ==
    ASSUME NEW v, NEW w, NEW c \in Clusters, \A s \in Sectors \ {c} : w[s] = v[s],
           Unfiled(v, c), \A i \in 1 .. Slots : Head(w, c, i) = 0
    PROVE  Stays(v, w)
<1>1. \A s \in Clusters : s # c => w[s] = v[s]
  BY SectorFacts
<1>2. \A s \in Clusters : Link(w, s) = Link(v, s)
  BY SectorFacts DEF Link
<1>3. SameEntries(v, w)
  BY <1>1 DEF SameEntries, Head, Entry
<1>4. \A y \in Clusters : Steady(v, w, y) \/ Unfiled(v, y)
  BY <1>1, <1>2 DEF Steady
<1> QED
  BY <1>3, <1>4 DEF Stays

LEMMA NoHeads ==
    /\ \A x, i \in 1 .. Slots : [Blank EXCEPT !.data = x].ent[i].clst = 0
    /\ \A i \in 1 .. Slots : Blank.ent[i].clst = 0 /\ [Blank EXCEPT !.dots = TRUE].ent[i].clst = 0
    /\ \A x : [Blank EXCEPT !.data = x].data = x
    /\ [Blank EXCEPT !.dots = TRUE].dots
  BY DEF Blank, NoEntry

(***************************************************************************)
(* The open file.                                                          *)
(***************************************************************************)
PendingLink == Linking /\ op.pc = "link"

LEMMA ChainStays ==
    ASSUME NEW m, NEW F, IsChain(m, F), SameLinks(Vol, Vol'), UnfiledStays,
           \A x \in Clusters : Link(disk', x) = Link(disk, x) \/ Link(disk', x) = Link(Vol', x),
           fil'.sclust = fil.sclust, fil'.clust = fil.clust, fil.stop => fil'.stop,
           PendingLink' => PendingLink /\ op'.ncl = op.ncl,
           PendingLink => fil'.stop \/ (PendingLink' /\ op'.ncl = op.ncl)
    PROVE  IsChain(m, F)'
<1>1. /\ m \in Nat /\ F \in [1 .. m -> Clusters]
      /\ m = 0 <=> fil'.sclust = 0
      /\ \A j, k \in 1 .. m : F[j] = F[k] => j = k
  BY DEF IsChain
<1>2. m # 0 => m \in 1 .. m
  BY <1>1
<1>3. m # 0 => F[1] = fil'.sclust /\ F[m] = fil'.clust /\ Link(Vol', F[m]) \notin Clusters
  BY <1>1, <1>2 DEF IsChain, SameLinks
<1>4. \A j \in 1 .. m - 1 : Link(Vol', F[j]) = F[j + 1]
  BY <1>1 DEF IsChain, SameLinks
<1>5. \A j \in 1 .. m : \A v \in Volumes' : Unfiled(v, F[j])
  BY DEF IsChain, UnfiledStays
<1>6. PendingLink' => \A j \in 1 .. m : F[j] # op'.ncl
  BY DEF IsChain, PendingLink
<1>7. ASSUME NEW x \in Clusters
      PROVE  \/ fil'.stop \/ Link(disk', x) = Link(Vol', x)
             \/ \E j \in 1 .. m : F[j] = x
             \/ PendingLink' /\ x = op'.ncl
  BY DEF IsChain, PendingLink, SameLinks
<1> QED
  BY <1>1, <1>3, <1>4, <1>5, <1>6, <1>7 DEF IsChain, PendingLink

\* Where a piece of the file is.
LEMMA PieceAt ==
    ASSUME NEW m \in Nat, HasRoom(m), fil.size \in Nat, NEW k \in 1 .. fil.size
    PROVE  Tail(k) + 1 \in 1 .. m /\ Tail(k) <= Tail(fil.size) /\ (k - 1) % Units \in 0 .. Units - 1
<1>1. /\ Tail(k) \in Nat /\ Tail(fil.size) \in Nat /\ Tail(k) <= Tail(fil.size)
      /\ (k - 1) % Units \in 0 .. Units - 1
  BY TailOrder
<1> QED
  BY <1>1 DEF HasRoom

LEMMA DataStays ==
    ASSUME NEW m \in Nat, NEW F, NEW G, HasRoom(m), HasData(F), fil.size \in Nat,
           fil'.size = fil.size, fil'.dirty = fil.dirty, fil'.sect = fil.sect, fil'.buf = fil.buf,
           fil'.ver = fil.ver,
           \A j \in 1 .. m : G[j] = F[j] /\ disk'[F[j]].data = disk[F[j]].data,
           op'.pc \in {"data", "entry"} => ~fil.dirty,
           op'.call # "close" => op.call # "close"
    PROVE  HasData(G)'
<1>1. \A k \in 1 .. fil.size : Piece(G, k)' = <<fil.ver, k>>
  <2> SUFFICES ASSUME NEW k \in 1 .. fil.size PROVE Piece(G, k)' = <<fil.ver, k>>
    OBVIOUS
  <2>1. Tail(k) + 1 \in 1 .. m
    BY PieceAt
  <2>2. Piece(G, k)' = Piece(F, k)
    BY <2>1 DEF Piece
  <2> QED
    BY <2>2 DEF HasData
<1>2. fil.dirty => fil.size # 0 /\ fil.sect = G[Tail(fil.size) + 1]
  <2>1. fil.size # 0 => Tail(fil.size) + 1 \in 1 .. m
    BY PieceAt
  <2> QED
    BY <2>1 DEF HasData
<1> QED
  BY <1>1, <1>2 DEF HasData

(***************************************************************************)
(* The steps of the calls on a name.                                       *)
(***************************************************************************)
LEMMA NoGrowth ==
    ASSUME op'.pc \notin {"find_next", "alloc", "alloc_next", "chain", "link", "clear"}
    PROVE  Growing'
  BY DEF Growing

LEMMA NameWhole ==
    ASSUME IInv, CInv, CInv', DInv, op.call \in {"open", "mkdir", "unlink"}, Remains, fil' = fil,
           spent'.calls = spent.calls, Growing'
    PROVE  DInv'
<1>1. spent.calls \in Nat /\ spent'.calls \in Nat
  BY DEF CInv, Typed, SpentOK
<1>2. \A v \in Volumes' : FilesWhole(v, spent'.calls)
  BY <1>1, Remain DEF DInv
<1>3. ~fil'.open
  BY DEF IInv, Control, FileInv
<1>4. Numbered'
  BY <1>3 DEF DInv, Numbered, Idle
<1> QED
  BY <1>2, <1>3, <1>4 DEF DInv

LEMMA FindWhole == ASSUME IInv, CInv, CInv', DInv, Find PROVE DInv'
<1>1. op.pc = "find" /\ Ready /\ Visit(op.t) /\ UNCHANGED <<disk, fil, spent>>
  BY DEF Find, At
<1>2. op \in OpType /\ op.t \in Clusters /\ op.t \in Sectors /\ op.call \in {"open", "mkdir", "unlink"}
  BY <1>1, SectorFacts, NameCall DEF IInv, Control, Places
<1>3. Movable(op.t)
  BY <1>1, WantedIs DEF Ready, Movable
<1>4. Remains
  BY <1>1, <1>2, <1>3, VisitSees
<1>5. op'.pc \in {"idle", "reset", "drop", "empty", "find_next"}
  <2>1. CASE \E i \in FirstOf(Vol, op.t, op.n) : op' = Found(i)
    <3> PICK i \in 1 .. Slots : op' = Found(i)
      BY <2>1 DEF FirstOf
    <3>1. \/ op' = NoCall
          \/ \E p \in {"reset", "drop", "empty"} : \E x :
                op' = [op EXCEPT !.i = i, !.dcl = x, !.clst = x, !.pc = p]
      BY DEF Found
    <3> QED
      BY <1>2, <3>1, NoCallIs DEF OpType
  <2>2. CASE op' = Go("find_next")
    BY <1>2, <2>2 DEF Go, OpType
  <2> QED
    BY <2>1, <2>2 DEF Find
<1>6. win'.sect \in Clusters
  BY <1>1, <1>2 DEF Visit
<1>7. op'.pc = "find_next" => Growing'
  BY <1>6 DEF Growing
<1>8. Growing'
  BY <1>5, <1>7, NoGrowth
<1> QED
  BY <1>1, <1>2, <1>4, <1>8, NameWhole

\* The window has come from a table to the FAT: it is clean.
LEMMA ToFat ==
    ASSUME Growing, op.pc \in {"find_next", "alloc_next"}, NEW c \in Clusters, Visit(FatOf[c])
    PROVE  ~win'.dirty
<1>1. win.dirty => win.sect \in Clusters
  BY DEF Growing
<1>2. win'.dirty = (win.dirty /\ win.sect = FatOf[c])
  BY DEF Visit
<1> QED
  BY <1>1, <1>2, SectorFacts

LEMMA FindNextWhole == ASSUME IInv, CInv, CInv', DInv, FindNext PROVE DInv'
<1> DEFINE nxt == Link(Vol, op.t)
<1>1. /\ op.pc = "find_next" /\ Ready /\ Visit(FatOf[op.t]) /\ UNCHANGED <<disk, fil, spent>>
      /\ op' = IF nxt \in Clusters THEN [op EXCEPT !.pc = "find", !.t = nxt] ELSE NotFound
  BY DEF FindNext, At
<1>2. /\ op \in OpType /\ op.t \in Clusters /\ FatOf[op.t] \in Sectors
      /\ op.call \in {"open", "mkdir", "unlink"} /\ op.clst = 0 /\ op.dcl = 0
  BY <1>1, SectorFacts, NameCall DEF IInv, Control, Places
<1>3. Movable(FatOf[op.t])
  BY <1>1, WantedIs DEF Ready, Movable
<1>4. Remains
  BY <1>1, <1>2, <1>3, VisitSees
<1> HIDE DEF nxt
<1>5. \/ op' = NoCall
      \/ op' = [op EXCEPT !.pc = "find", !.t = nxt] /\ nxt \in Clusters
      \/ op' = [op EXCEPT !.pc = "alloc", !.t = op.d]
      \/ op' = [op EXCEPT !.pc = "chain", !.t = op.d]
  BY <1>1 DEF NotFound
<1>6. /\ op'.pc \in {"idle", "find", "alloc", "chain"} /\ op'.dcl = 0 /\ op'.clst = 0
  <2>1. NoCall.clst = 0
    BY DEF NoCall
  <2> QED
    BY <1>2, <1>5, <2>1, NoCallIs DEF OpType
<1>7. ~win'.dirty
  BY <1>1, <1>2, ToFat DEF DInv
<1>8. Growing'
  BY <1>6, <1>7 DEF Growing
<1> QED
  BY <1>1, <1>2, <1>4, <1>8, NameWhole

LEMMA EmptyWhole == ASSUME IInv, CInv, CInv', DInv, CheckEmpty \/ CheckNext PROVE DInv'
<1>1. PICK s \in {op.clst, FatOf[op.clst]} :
        /\ Visit(s) /\ Ready /\ Wanted = {s}
        /\ op.pc \in {"empty", "empty_next"} /\ UNCHANGED <<disk, fil, spent>>
  BY WantedIs DEF CheckEmpty, CheckNext, At
<1>2. \/ op' = NoCall
      \/ op' = [op EXCEPT !.pc = "empty_next", !.seen = @ \cup {op.clst}]
      \/ \E p \in {"empty", "drop"} : \E c : op' = [op EXCEPT !.pc = p, !.clst = c]
  BY DEF CheckEmpty, CheckNext
<1>3. op \in OpType /\ op.clst \in Clusters /\ op.call \in {"open", "mkdir", "unlink"}
  BY <1>1 DEF IInv, Control, Places, OpType
<1>4. s \in Sectors /\ Movable(s)
  BY <1>1, <1>3, SectorFacts DEF Ready, Movable
<1>5. Remains
  BY <1>1, <1>4, VisitSees
<1>6. op'.pc \in {"idle", "empty", "empty_next", "drop"}
  BY <1>2, <1>3, NoCallIs DEF OpType
<1>7. Growing'
  BY <1>6, NoGrowth
<1> QED
  BY <1>1, <1>3, <1>5, <1>7, NameWhole

LEMMA FullTableWhole == ASSUME IInv, CInv, CInv', DInv, FullTable PROVE DInv'
<1>1. /\ op.pc = "alloc" /\ Ready /\ Visit(op.t) /\ UNCHANGED <<disk, fil, spent>>
      /\ op' = [op EXCEPT !.pc = "alloc_next"]
  BY DEF FullTable, At, Go
<1>2. op \in OpType /\ op.t \in Clusters /\ op.t \in Sectors /\ op.call \in {"open", "mkdir"}
  BY <1>1, SectorFacts, NameCall DEF IInv, Control, Places
<1>3. Movable(op.t)
  BY <1>1, WantedIs DEF Ready, Movable
<1>4. Remains /\ Views' \subseteq Views
  BY <1>1, <1>2, <1>3, VisitSees, VisitKeeps DEF IInv
<1>5. op'.pc = "alloc_next" /\ op'.call = op.call /\ op'.dcl = op.dcl
  BY <1>1, <1>2 DEF OpType
<1>6. win'.sect \in Clusters
  BY <1>1, <1>2 DEF Visit
<1>7. Growing'
  BY <1>1, <1>4, <1>5, <1>6 DEF Growing, DInv
<1> QED
  BY <1>1, <1>2, <1>4, <1>7, NameWhole

LEMMA AllocNextWhole == ASSUME IInv, CInv, CInv', DInv, AllocNext PROVE DInv'
<1> DEFINE nxt == Link(Vol, op.t)
<1>1. /\ op.pc = "alloc_next" /\ Ready /\ Visit(FatOf[op.t]) /\ UNCHANGED <<disk, fil, spent>>
      /\ op' = IF nxt \in Clusters THEN [op EXCEPT !.pc = "alloc", !.t = nxt]
               ELSE [op EXCEPT !.pc = "chain", !.clst = op.t]
  BY DEF AllocNext, At
<1>2. /\ op \in OpType /\ op.t \in Clusters /\ FatOf[op.t] \in Sectors /\ op.call \in {"open", "mkdir"}
  BY <1>1, SectorFacts, NameCall DEF IInv, Control, Places
<1>3. Movable(FatOf[op.t])
  BY <1>1, WantedIs DEF Ready, Movable
<1>4. Remains /\ Views' \subseteq Views /\ SameLinks(Vol, Vol')
  BY <1>1, <1>2, <1>3, VisitSees, VisitKeeps, VisitStays DEF IInv, LinksStay
<1>5. ~win'.dirty
  BY <1>1, <1>2, ToFat DEF DInv
<1>6. Link(Vol', op.t) = nxt
  BY <1>2, <1>4 DEF SameLinks
<1> HIDE DEF nxt
<1>7. /\ op'.call = op.call /\ op'.dcl = op.dcl
      /\ \/ op'.pc = "alloc"
         \/ op'.pc = "chain" /\ op'.clst = op.t /\ nxt \notin Clusters
  BY <1>1, <1>2 DEF OpType
<1>8. Growing'
  BY <1>1, <1>4, <1>5, <1>6, <1>7 DEF Growing, DInv
<1> QED
  BY <1>1, <1>2, <1>4, <1>8, NameWhole

LEMMA TableLinks == ASSUME CInv, win.dirty => win.sect \in Clusters PROVE SameLinks(disk, Vol)
<1>1. CASE ~win.dirty
  BY <1>1 DEF CInv, Counted
<1>2. CASE win.dirty
  <2>1. \A c \in Clusters : Vol[FatOf[c]] = disk[FatOf[c]]
    BY <1>2, SectorFacts DEF Vol
  <2> QED
    BY <2>1 DEF SameLinks, Link
<1> QED
  BY <1>1, <1>2

\* A file is opened: it has no clusters.
LEMMA OpenedWhole ==
    ASSUME IInv, CInv, CInv', DInv, NEW t \in Clusters, NEW i \in 1 .. Slots, Opened(t, i),
           op' = NoCall, op.call # "none", spent' = spent, Remains,
           disk' = disk, Movable(t), SameLinks(Vol, Vol')
    PROVE  DInv'
<1>1. /\ fil'.open /\ ~fil'.stop /\ fil'.sclust = 0 /\ fil'.size = 0 /\ ~fil'.dirty /\ fil'.ver = spent.calls
  BY DEF Opened, NoFile
<1>2. spent.calls \in Nat /\ spent.calls # 0 /\ spent'.calls = spent.calls
  BY DEF CInv, Typed, SpentOK, DInv, Numbered, Idle
<1>3. op'.call = "none" /\ op'.pc = "idle"
  BY NoCallIs
<1>4. SameLinks(disk', Vol')
  <2>1. SameLinks(disk, Vol)
    BY TableLinks DEF Movable
  <2> QED
    BY <2>1 DEF SameLinks
<1> DEFINE F == [j \in 1 .. 0 |-> Root]
<1>5. F \in [1 .. 0 -> Clusters] /\ 1 .. 0 = {}
  BY ClusterFacts
<1> HIDE DEF F
<1>6. IsChain(0, F)'
  BY <1>1, <1>3, <1>4, <1>5 DEF IsChain, SameLinks, Linking
<1>7. HasRoom(0)'
  BY <1>1, <1>3, TailOfNone DEF HasRoom, Writing, Linking
<1>8. HasData(F)'
  <2>1. 0 % Units = 0
    BY FatAssumption
  <2> QED
    BY <1>1, <1>3, <2>1 DEF HasData
<1>9. FileWritten'
  BY <1>5, <1>6, <1>7, <1>8 DEF FileWritten
<1>10. \A v \in Volumes' : FilesWhole(v, spent'.calls)
  BY <1>2, Remain DEF DInv
<1>11. Growing'
  BY <1>3, NoGrowth
<1>12. Numbered'
  BY <1>1, <1>2 DEF Numbered
<1> QED
  BY <1>9, <1>10, <1>11, <1>12 DEF DInv

LEMMA BackWhole == ASSUME IInv, CInv, CInv', DInv, Back PROVE DInv'
<1>1. /\ op.pc = "back" /\ Ready /\ Visit(op.t) /\ disk' = disk /\ op' = NoCall
      /\ Opened(op.t, op.i) /\ spent' = spent
  BY DEF Back, At
<1>2. op.t \in Clusters /\ op.t \in Sectors /\ op.i \in 1 .. Slots /\ op.call # "none"
  BY <1>1, SectorFacts DEF IInv, Control, OpType, Places
<1>3. Movable(op.t)
  BY <1>1, WantedIs DEF Ready, Movable
<1>4. Remains /\ SameLinks(Vol, Vol')
  BY <1>1, <1>2, <1>3, VisitSees, VisitStays DEF LinksStay
<1> QED
  BY <1>1, <1>2, <1>3, <1>4, OpenedWhole

LEMMA EntryWhole ==
    ASSUME IInv, CInv, NEW n \in Nat, \A v \in Volumes : FilesWhole(v, n),
           NEW t \in Clusters, NEW i \in 1 .. Slots, NEW e, EntryOK(e), SetEntry(t, i, e), Movable(t),
           disk' = disk, \A v \in Views : EntryIs(v, Vol', t, i, e) => Whole(Vol', e, n)
    PROVE  \A w \in Volumes' : FilesWhole(w, n)
<1> PICK v \in Views : EntryIs(v, Vol', t, i, e)
  BY EntrySees
<1>1. v \in Volumes /\ GSound(v) /\ HeldIn(v) /\ FilesWhole(v, n)
  BY ViewIsVolume, VolumeFacts
<1>2. \A x \in Clusters : Steady(v, Vol', x)
  BY DEF Steady, EntryIs, SameLinks
<1>3. ASSUME NEW s \in Clusters, NEW j \in 1 .. Slots, Head(Vol', s, j) # 0
      PROVE  Whole(Vol', Entry(Vol', s, j), n)
  <2>1. CASE s = t /\ j = i
    <3>1. Entry(Vol', s, j) = e
      BY <2>1 DEF EntryIs
    <3> QED
      BY <3>1
  <2>2. CASE ~(s = t /\ j = i)
    <3>1. Entry(Vol', s, j) = Entry(v, s, j)
      BY <2>2 DEF EntryIs
    <3> QED
      BY <1>1, <1>2, <1>3, <3>1, FilesStay
  <2> QED
    BY <2>1, <2>2
<1>4. FilesWhole(Vol', n) /\ FilesWhole(disk', n)
  BY <1>3 DEF FilesWhole, Volumes
<1> QED
  BY <1>4 DEF Volumes

LEMMA RegisterWhole == ASSUME IInv, CInv, CInv', DInv, Register PROVE DInv'
<1>1. op.pc = "alloc" /\ Ready /\ UNCHANGED <<disk, spent>>
  BY DEF Register, At
<1>2. /\ op \in OpType /\ op.t \in Clusters /\ op.dcl \in Clusters \cup {0}
      /\ op.call \in {"open", "mkdir"} /\ fil.clust = 0
      /\ op.call = "mkdir" => op.dcl # 0
      /\ op.n \in Names \cup {NoName}
  BY <1>1, NameCall DEF IInv, Control, Places, MkdirInv, OpType
<1>3. Movable(op.t)
  BY <1>1, WantedIs DEF Ready, Movable
<1> PICK i \in 1 .. Slots :
        \/ /\ op.call = "mkdir"
           /\ SetEntry(op.t, i, [name |-> op.n, dir |-> TRUE, clst |-> op.dcl, size |-> 0])
           /\ op' = Go("sync")
           /\ fil' = fil
        \/ /\ op.call # "mkdir"
           /\ SetEntry(op.t, i, [NoEntry EXCEPT !.name = op.n])
           /\ op' = NoCall
           /\ Opened(op.t, i)
  BY DEF Register, FirstOf
<1>4. CASE op.call = "mkdir"
  <2> DEFINE e == [name |-> op.n, dir |-> TRUE, clst |-> op.dcl, size |-> 0]
  <2>1. SetEntry(op.t, i, e) /\ op' = [op EXCEPT !.pc = "sync"] /\ fil' = fil
    BY <1>4 DEF Go
  <2>2. EntryOK(e) /\ e.dir /\ e.clst = op.dcl
    BY <1>2, <1>4 DEF EntryOK
  <2> HIDE DEF e
  <2>3. op'.pc = "sync" /\ op'.call = op.call
    BY <1>2, <2>1 DEF OpType
  <2>4. ASSUME NEW v \in Views, EntryIs(v, Vol', op.t, i, e) PROVE Whole(Vol', e, spent.calls)
    <3>1. v[op.dcl].dots
      BY <1>1, <1>2, <1>4 DEF DInv, Growing
    <3>2. Vol'[op.dcl].dots
      BY <1>2, <1>4, <2>4, <3>1 DEF EntryIs
    <3> QED
      BY <2>2, <3>2 DEF Whole
  <2>5. spent.calls \in Nat /\ spent'.calls = spent.calls
    BY <1>1 DEF CInv, Typed, SpentOK
  <2>6. \A v \in Volumes' : FilesWhole(v, spent.calls)
    BY <1>1, <1>2, <1>3, <2>1, <2>2, <2>4, <2>5, EntryWhole DEF DInv
  <2>7. ~fil'.open
    BY <1>4, <2>1 DEF IInv, Control, FileInv
  <2>8. Growing'
    BY <2>3, NoGrowth
  <2>9. Numbered'
    BY <1>4, <2>5, <2>7 DEF DInv, Numbered, Idle
  <2> QED
    BY <2>5, <2>6, <2>7, <2>8, <2>9 DEF DInv
<1>5. CASE op.call # "mkdir"
  <2> DEFINE e == [NoEntry EXCEPT !.name = op.n]
  <2>1. SetEntry(op.t, i, e) /\ op' = NoCall /\ Opened(op.t, i)
    BY <1>5
  <2>2. EntryOK(e) /\ e.clst = 0 /\ e \in Entries
    BY <1>2, NoEntryOK DEF Entries, NoEntry
  <2> HIDE DEF e
  <2>3. Remains /\ SameLinks(Vol, Vol')
    BY <1>1, <1>2, <1>3, <2>1, <2>2, EntryRemains, EditStays DEF LinksStay
  <2> QED
    BY <1>1, <1>2, <1>3, <2>1, <2>3, OpenedWhole
<1> QED
  BY <1>4, <1>5

LEMMA ResetWhole == ASSUME IInv, CInv, CInv', DInv, Reset PROVE DInv'
<1> DEFINE e == [NoEntry EXCEPT !.name = op.n]
<1>1. /\ op.pc = "reset" /\ Ready /\ UNCHANGED <<disk, spent>> /\ SetEntry(op.t, op.i, e)
      /\ IF op.clst = 0 THEN op' = NoCall /\ Opened(op.t, op.i)
                        ELSE op' = [op EXCEPT !.pc = "free"] /\ fil' = fil
  BY DEF Reset, At, Go
<1>2. /\ op \in OpType /\ op.t \in Clusters /\ op.i \in 1 .. Slots
      /\ op.call \in {"open", "mkdir", "unlink"}
      /\ op.n \in Names \cup {NoName}
  BY <1>1, NameCall DEF IInv, Control, Places, OpType
<1>3. Movable(op.t)
  BY <1>1, WantedIs DEF Ready, Movable
<1>4. EntryOK(e) /\ e.clst = 0 /\ e \in Entries
  BY <1>2, NoEntryOK DEF Entries, NoEntry
<1> HIDE DEF e
<1>5. Remains /\ SameLinks(Vol, Vol')
  BY <1>1, <1>2, <1>3, <1>4, EntryRemains, EditStays DEF LinksStay
<1>6. CASE op.clst = 0
  BY <1>1, <1>2, <1>3, <1>5, <1>6, OpenedWhole
<1>7. CASE op.clst # 0
  <2>1. op'.pc = "free" /\ fil' = fil
    BY <1>1, <1>2, <1>7 DEF OpType
  <2>2. Growing'
    BY <2>1, NoGrowth
  <2> QED
    BY <1>1, <1>2, <1>5, <2>1, <2>2, NameWhole
<1> QED
  BY <1>6, <1>7

LEMMA DropWhole == ASSUME IInv, CInv, CInv', DInv, Drop PROVE DInv'
<1>1. /\ op.pc = "drop" /\ Ready /\ UNCHANGED <<disk, spent, fil>>
      /\ SetEntry(op.t, op.i, NoEntry)
      /\ op' = [op EXCEPT !.pc = IF op.clst = 0 THEN "sync" ELSE "free"]
  BY DEF Drop, At, Go
<1>2. /\ op \in OpType /\ op.t \in Clusters /\ op.i \in 1 .. Slots /\ op.call = "unlink"
  BY <1>1 DEF IInv, Control, Places, OpType
<1>3. Movable(op.t)
  BY <1>1, WantedIs DEF Ready, Movable
<1>4. Remains
  BY <1>1, <1>2, <1>3, NoEntryOK, EntryRemains
<1>5. op'.pc \in {"sync", "free"}
  BY <1>1, <1>2 DEF OpType
<1>6. Growing'
  BY <1>5, NoGrowth
<1> QED
  BY <1>1, <1>2, <1>4, <1>6, NameWhole

\* The chain, as ClusterAt follows it.
LEMMA ChainWalk ==
    ASSUME NEW v, NEW m \in Nat \ {0}, NEW F \in [1 .. m -> Clusters],
           \A j \in 1 .. m - 1 : Link(v, F[j]) = F[j + 1]
    PROVE  \A j \in 0 .. m - 1 : j <= MaxSize => ClusterAt(v, F[1], j) = F[j + 1]
<1> DEFINE S == {j \in 0 .. m - 1 : j <= MaxSize => ClusterAt(v, F[1], j) = F[j + 1]}
<1>1. m - 1 \in Nat /\ MaxSize \in Nat
  BY FatAssumption
<1>2. 0 \in S
  <2>1. ClusterAt(v, F[1], 0) = F[0 + 1]
    BY Walk
  <2> QED
    BY <1>1, <2>1
<1>3. ASSUME NEW i \in 1 .. m - 1, i - 1 \in S PROVE i \in S
  <2> SUFFICES ASSUME i <= MaxSize PROVE ClusterAt(v, F[1], i) = F[i + 1]
    BY <1>1
  <2>1. i \in 1 .. MaxSize /\ i - 1 <= MaxSize /\ (i - 1) + 1 = i /\ i \in 0 .. m - 1
    BY <1>1
  <2>2. ClusterAt(v, F[1], i - 1) = F[i]
    BY <1>3, <2>1
  <2>3. ClusterAt(v, F[1], i) = Link(v, ClusterAt(v, F[1], i - 1))
    BY <2>1, Walk
  <2> QED
    BY <2>2, <2>3
<1> HIDE DEF S
<1>4. 0 .. m - 1 \subseteq S
  BY <1>1, <1>2, <1>3, Induction
<1> QED
  BY <1>4 DEF S

\* f_close writes an entry of a file that is on the disk.
LEMMA ClosedIsWhole ==
    ASSUME IInv, CInv, DInv, op.pc = "entry", op.call = "close",
           NEW w, SameLinks(Vol, w),
           NEW v \in Views, \A s \in Clusters : w[s].data = v[s].data
    PROVE  LET e == [name |-> fil.n, dir |-> FALSE, clst |-> fil.sclust, size |-> fil.size] IN
           /\ Whole(w, e, spent.calls)
           /\ \A k \in 1 .. fil.size : Unit(w, e, k) = <<fil.ver, k>>
           /\ fil.sclust = 0 => fil.size = 0
<1> DEFINE e == [name |-> fil.n, dir |-> FALSE, clst |-> fil.sclust, size |-> fil.size]
<1>1. e.dir = FALSE /\ e.clst = fil.sclust /\ e.size = fil.size
  OBVIOUS
<1> HIDE DEF e
<1>2. fil.size \in Nat /\ fil.size <= MaxSize /\ MaxSize \in Nat /\ fil.open
  BY FatAssumption DEF IInv, Control, FilOK, FilType, FileInv, CInv, Typed, FileOK
<1>3. fil.ver \in 1 .. spent.calls
  BY <1>2 DEF DInv, Numbered
<1> PICK m \in Nat : \E F \in [1 .. m -> Clusters] : IsChain(m, F) /\ HasRoom(m) /\ HasData(F)
  <2>1. ~Closed
    BY DEF Closed
  <2> QED
    BY <1>2, <2>1 DEF DInv, FileWritten
<1> PICK F \in [1 .. m -> Clusters] : IsChain(m, F) /\ HasRoom(m) /\ HasData(F)
  OBVIOUS
<1>4. Tail(fil.size) \in Int /\ Tail(fil.size) < fil.size /\ Tail(fil.size) + 1 <= m
  BY <1>2, TailType DEF HasRoom
<1>5. ASSUME NEW j \in 0 .. Tail(fil.size)
      PROVE  ClusterAt(w, fil.sclust, j) = F[j + 1] /\ j + 1 \in 1 .. m
  <2>1. m # 0 /\ j \in 0 .. m - 1 /\ j <= MaxSize /\ j + 1 \in 1 .. m
    BY <1>2, <1>4
  <2>2. \A i \in 1 .. m - 1 : Link(w, F[i]) = F[i + 1]
    BY DEF IsChain, SameLinks
  <2>3. F[1] = fil.sclust /\ m \in Nat \ {0}
    BY <2>1 DEF IsChain
  <2>4. \A i \in 0 .. m - 1 : i <= MaxSize => ClusterAt(w, F[1], i) = F[i + 1]
    BY <2>2, <2>3, ChainWalk
  <2> QED
    BY <2>1, <2>3, <2>4
<1>6. ASSUME NEW k \in 1 .. fil.size PROVE Unit(w, e, k) = <<fil.ver, k>>
  <2>1. Tail(k) \in 0 .. Tail(fil.size)
    BY <1>2, <1>4, TailOrder
  <2> DEFINE c == F[Tail(k) + 1]
  <2>2. ClusterAt(w, fil.sclust, Tail(k)) = c /\ c \in Clusters /\ Tail(k) + 1 \in 1 .. m
    BY <1>5, <2>1
  <2>3. Unit(w, e, k) = w[c].data[((k - 1) % Units) + 1]
    BY <1>1, <2>2 DEF Unit, Tail
  <2>4. Piece(F, k) = disk[c].data[((k - 1) % Units) + 1]
    BY DEF Piece, HasData
  <2> HIDE DEF c
  <2>5. v[c] = disk[c]
    <3>1. fil.sclust # 0
      BY <2>2 DEF IsChain
    <3>2. win.sect \notin Clusters
      BY <3>1 DEF IInv, WindowInv, Unentered
    <3>3. Vol[c] = disk[c]
      BY <2>2, <3>2, SectorFacts DEF Vol
    <3> QED
      BY <3>3 DEF Views
  <2> QED
    BY <2>2, <2>3, <2>4, <2>5 DEF HasData
<1>7. Whole(w, e, spent.calls)
  BY <1>1, <1>2, <1>3, <1>5, <1>6 DEF Whole
<1>8. fil.sclust = 0 => fil.size = 0
  <2>1. fil.size # 0 => fil.size \in 1 .. fil.size /\ Tail(fil.size) \in Nat
    BY <1>2, TailOrder
  <2> QED
    BY <1>4, <2>1 DEF IsChain
<1> QED
  BY <1>6, <1>7, <1>8 DEF e

LEMMA PutEntryWhole == ASSUME IInv, CInv, CInv', DInv, PutEntry PROVE DInv'
<1> DEFINE e == [name |-> fil.n, dir |-> FALSE, clst |-> fil.sclust, size |-> fil.size]
<1>1. /\ op.pc = "entry" /\ Ready /\ UNCHANGED <<disk, spent, fil>> /\ SetEntry(fil.t, fil.i, e)
      /\ op' = [op EXCEPT !.pc = "sync"]
  BY DEF PutEntry, At, Go
<1>2. op \in OpType /\ op.call = "close" /\ fil \in FilType
  BY <1>1 DEF IInv, Control, Places, FilOK
<1>3. fil.t \in Clusters /\ fil.i \in 1 .. Slots /\ EntryOK(e)
  BY <1>2 DEF FilType, EntryOK
<1>4. Movable(fil.t)
  BY <1>1, WantedIs DEF Ready, Movable
<1>5. ASSUME NEW v \in Views, EntryIs(v, Vol', fil.t, fil.i, e) PROVE Whole(Vol', e, spent.calls)
  <2>1. SameLinks(Vol, Vol')
    BY <1>5, ViewLinks DEF EntryIs, SameLinks, CInv
  <2>2. \A s \in Clusters : Vol'[s].data = v[s].data
    BY <1>5 DEF EntryIs
  <2> QED
    BY <1>1, <1>2, <2>1, <2>2, ClosedIsWhole
<1> HIDE DEF e
<1>6. spent.calls \in Nat /\ spent'.calls = spent.calls
  BY <1>1 DEF CInv, Typed, SpentOK
<1>7. \A v \in Volumes' : FilesWhole(v, spent.calls)
  BY <1>1, <1>3, <1>4, <1>5, <1>6, EntryWhole DEF DInv
<1>8. op'.pc = "sync" /\ op'.call = "close"
  BY <1>1, <1>2 DEF OpType
<1>9. Growing' /\ Closed'
  BY <1>8, NoGrowth DEF Closed
<1>10. Numbered'
  BY <1>1, <1>2, <1>6 DEF DInv, Numbered, Idle
<1> QED
  BY <1>6, <1>7, <1>9, <1>10 DEF DInv

(***************************************************************************)
(* The steps that change a link.                                           *)
(***************************************************************************)
LEMMA NumberedStays ==
    ASSUME DInv, spent'.calls = spent.calls, op'.call \in {op.call, "none"}, fil'.ver = fil.ver,
           fil'.open => fil.open
    PROVE  Numbered'
  BY DEF DInv, Numbered, Idle

\* Nothing of the open file changes.
LEMMA FileStill ==
    ASSUME IInv, CInv, DInv, fil.open, ~Closed, UnfiledStays, SameLinks(Vol, Vol'),
           \A x \in Clusters : Link(disk', x) = Link(disk, x) \/ Link(disk', x) = Link(Vol', x),
           fil.sclust # 0 => \A x \in Clusters : disk'[x].data = disk[x].data,
           fil' = fil \/ fil' = [fil EXCEPT !.stop = TRUE],
           PendingLink' => PendingLink /\ op'.ncl = op.ncl,
           PendingLink => fil'.stop \/ (PendingLink' /\ op'.ncl = op.ncl),
           \A m \in Nat : HasRoom(m) => HasRoom(m)',
           op'.pc \in {"data", "entry"} => ~fil.dirty \/ op'.pc = op.pc,
           op'.call # "close" => op.call # "close"
    PROVE  FileWritten'
<1>1. fil \in FilType /\ fil.size \in Nat
  BY DEF IInv, Control, FilOK, FilType
<1>2. /\ fil'.sclust = fil.sclust /\ fil'.clust = fil.clust /\ (fil.stop => fil'.stop)
      /\ fil'.size = fil.size /\ fil'.dirty = fil.dirty /\ fil'.sect = fil.sect
      /\ fil'.buf = fil.buf /\ fil'.ver = fil.ver
  BY <1>1 DEF FilType
<1> PICK m \in Nat : \E F \in [1 .. m -> Clusters] : IsChain(m, F) /\ HasRoom(m) /\ HasData(F)
  BY DEF DInv, FileWritten
<1> PICK F \in [1 .. m -> Clusters] : IsChain(m, F) /\ HasRoom(m) /\ HasData(F)
  OBVIOUS
<1>3. IsChain(m, F)'
  BY <1>2, ChainStays
<1>4. HasRoom(m)'
  OBVIOUS
<1>5. HasData(F)'
  <2>1. \A j \in 1 .. m : F[j] = F[j] /\ disk'[F[j]].data = disk[F[j]].data
    BY DEF IsChain
  <2>2. op'.pc \in {"data", "entry"} => ~fil.dirty
    BY DEF HasData
  <2> QED
    BY <1>1, <1>2, <2>1, <2>2, DataStays
<1> QED
  BY <1>3, <1>4, <1>5 DEF FileWritten

\* A call gets no further.
LEMMA StopWhole ==
    ASSUME IInv, CInv, CInv', DInv, op' = Undone, StopFile, Remains, SameLinks(Vol, Vol'),
           disk' = disk, spent'.calls = spent.calls
    PROVE  DInv'
<1>1. /\ op \in OpType /\ fil \in FilType /\ op.call \in {"none", "open", "mkdir", "unlink", "write", "close"}
      /\ spent.calls \in Nat
  BY DEF IInv, Control, FilOK, OpType, CInv, Typed, SpentOK
<1>2. \A v \in Volumes' : FilesWhole(v, spent'.calls)
  BY <1>1, Remain DEF DInv
<1>3. UnfiledStays
  BY <1>1, Remain DEF DInv
<1>4. op'.pc \in {"free", "idle"} /\ (op.call # "mkdir" => op' = NoCall)
  BY <1>1, NoCallIs DEF Undone, Go, OpType
<1>5. Growing'
  BY <1>4, NoGrowth
<1>6. CASE op.call \in {"open", "mkdir", "unlink"}
  <2>1. fil' = fil
    BY <1>6 DEF StopFile
  <2> QED
    BY <1>5, <1>6, <2>1, NameWhole
<1>7. CASE op.call = "close"
  <2>1. fil' = NoFile /\ ~fil'.open
    BY <1>7 DEF StopFile, NoFile
  <2>2. op'.call = "none"
    BY <1>4, <1>7, NoCallIs
  <2>3. Numbered'
    BY <2>1, <2>2 DEF Numbered, Idle
  <2> QED
    BY <1>2, <1>5, <2>1, <2>3 DEF DInv
<1>8. CASE op.call \in {"none", "write"}
  <2>1. op'.call = "none" /\ op'.pc = "idle"
    BY <1>4, <1>8, NoCallIs
  <2>2. /\ fil' = fil \/ fil' = [fil EXCEPT !.stop = TRUE]
        /\ op.call = "write" => fil'.stop
    BY <1>1, <1>8 DEF StopFile, FilType
  <2>3. fil'.ver = fil.ver /\ fil'.open = fil.open /\ fil'.size = fil.size
    BY <1>1, <2>2 DEF FilType
  <2>4. Numbered'
    BY <2>1, <2>3, NumberedStays
  <2>5. ASSUME fil.open PROVE FileWritten'
    <3>1. PendingLink => fil'.stop
      BY <2>2 DEF PendingLink, Linking
    <3>2. ~PendingLink' /\ ~Writing' /\ ~Linking' /\ ~Closed
      BY <1>8, <2>1 DEF PendingLink, Linking, Writing, Closed
    <3>3. ASSUME NEW m \in Nat, HasRoom(m) PROVE HasRoom(m)'
      <4>1. ~fil'.stop => m = Tail(fil.size) + 1
        <5>1. ASSUME ~fil'.stop PROVE op.call = "none" /\ ~fil.stop
          BY <1>1, <1>8, <2>2, <5>1 DEF FilType
        <5> QED
          BY <3>3, <5>1 DEF HasRoom, Writing
      <4> QED
        BY <2>1, <2>3, <3>2, <3>3, <4>1 DEF HasRoom
    <3> QED
      BY <1>3, <1>8, <2>1, <2>2, <2>5, <3>1, <3>2, <3>3, FileStill
  <2> QED
    BY <1>2, <1>5, <2>3, <2>4, <2>5 DEF DInv
<1> QED
  BY <1>1, <1>6, <1>7, <1>8

LEMMA FreeWhole == ASSUME IInv, CInv, CInv', DInv, Free PROVE DInv'
<1> DEFINE nxt == Link(Vol, op.clst)
<1>1. /\ op.pc = "free" /\ Ready /\ UNCHANGED <<disk, fil, spent>>
      /\ \/ nxt = 0 /\ Visit(FatOf[op.clst]) /\ op' = AfterFree
         \/ SetLink(op.clst, 0) /\ op' = IF nxt \in Clusters THEN [op EXCEPT !.clst = nxt] ELSE AfterFree
  BY DEF Free, At
<1>2. /\ op \in OpType /\ op.clst \in Clusters /\ FatOf[op.clst] \in Sectors
      /\ op.call \in {"open", "mkdir", "unlink"}
  BY <1>1, SectorFacts DEF IInv, Control, Places, OpType
<1>3. Movable(FatOf[op.clst])
  BY <1>1, WantedIs DEF Ready, Movable
<1>4. ASSUME NEW v \in Views PROVE Unfiled(v, op.clst)
  <2>1. v \in Volumes /\ Loose(v, op.clst)
    BY <1>1, ViewIsVolume DEF IInv, Facts
  <2>2. spent.calls \in Nat /\ FilesWhole(v, spent.calls) /\ GSound(v) /\ HeldIn(v)
    BY <2>1, VolumeFacts DEF DInv, CInv, Typed, SpentOK
  <2> QED
    BY <1>2, <2>1, <2>2, NotFiled
<1>5. Remains
  <2>1. CASE Visit(FatOf[op.clst])
    BY <1>1, <1>2, <1>3, <2>1, VisitSees
  <2>2. CASE SetLink(op.clst, 0)
    BY <1>1, <1>2, <1>3, <1>4, <2>2, SectorFacts, LinkRemains
  <2> QED
    BY <1>1, <2>1, <2>2
<1> HIDE DEF nxt
<1>6. op'.pc \in {"free", "back", "sync", "idle"}
  <2>1. AfterFree = NoCall \/ AfterFree = Go("back") \/ AfterFree = Go("sync")
    BY DEF AfterFree
  <2> QED
    BY <1>1, <1>2, <2>1, NoCallIs DEF Go, OpType
<1>7. Growing'
  BY <1>6, NoGrowth
<1> QED
  BY <1>1, <1>2, <1>5, <1>7, NameWhole

LEMMA FullWhole == ASSUME IInv, CInv, CInv', DInv, Full PROVE DInv'
<1>1. op.pc = "chain" /\ Ready /\ UNCHANGED <<disk, spent>> /\ op' = Undone /\ StopFile
  BY DEF Full, At
<1>2. op \in OpType /\ Wanted = Searched
  BY <1>1, WantedIs DEF IInv, Control
<1>3. Remains /\ SameLinks(Vol, Vol')
  <2>1. CASE win' = win
    <3>1. Vol' = Vol
      BY <1>1, <2>1 DEF Vol
    <3> QED
      BY <1>1, <3>1, SeenBefore DEF SameLinks, Volumes
  <2>2. CASE win' # win
    <3> PICK s \in FatSectors : Visit(s) /\ s \in Searched
      <4>1. CASE fs.free = 0
        BY <1>2, <2>2, <4>1, SectorFacts DEF Full, Searched, OpType
      <4>2. CASE fs.free # 0
        BY <2>2, <4>2, SectorFacts DEF Full, Searched, SectorsOf
      <4> QED
        BY <4>1, <4>2
    <3>1. s \in Sectors /\ Movable(s)
      BY <1>1, <1>2, SectorFacts DEF Ready, Movable
    <3> QED
      BY <1>1, <3>1, VisitSees, VisitStays DEF LinksStay
  <2> QED
    BY <2>1, <2>2
<1> QED
  BY <1>1, <1>3, StopWhole

\* The clusters of the open file are in use.
LEMMA ChainUsed ==
    ASSUME CInv, NEW m \in Nat, NEW F \in [1 .. m -> Clusters], IsChain(m, F), NEW j \in 1 .. m
    PROVE  Link(Vol, F[j]) # 0
<1>1. CASE j = m
  <2>1. F[m] = fil.clust /\ fil.clust # 0
    BY <1>1, ClusterFacts DEF IsChain
  <2> QED
    BY <1>1, <2>1 DEF CInv, InUse, Uses
<1>2. CASE j # m
  <2>1. j \in 1 .. m - 1 /\ j + 1 \in 1 .. m
    BY <1>2
  <2> QED
    BY <2>1, ClusterFacts DEF IsChain
<1> QED
  BY <1>1, <1>2

\* The cluster create_chain takes: in no file, on the disk neither.
LEMMA TakenIsNew ==
    ASSUME IInv, CInv, DInv, op.pc = "chain", NEW c \in Clusters, Link(Vol, c) = 0
    PROVE  \A v \in Volumes : Unfiled(v, c)
<1>1. Link(disk, c) = 0
  <2>1. CASE op.call # "write"
    <3>1. ~win.dirty
      BY <2>1 DEF DInv, Growing
    <3> QED
      BY <3>1 DEF CInv, Counted, SameLinks
  <2>2. CASE op.call = "write"
    <3>1. fil.open /\ ~Closed /\ Linking
      BY <2>2 DEF IInv, Control, FileInv, Closed, Linking
    <3> PICK m \in Nat : \E F \in [1 .. m -> Clusters] : IsChain(m, F) /\ HasRoom(m) /\ HasData(F)
      BY <3>1 DEF DInv, FileWritten
    <3> PICK F \in [1 .. m -> Clusters] : IsChain(m, F) /\ HasRoom(m) /\ HasData(F)
      OBVIOUS
    <3>2. ~fil.stop
      BY <2>2 DEF HasRoom
    <3>3. \A j \in 1 .. m : F[j] # c
      BY ChainUsed
    <3> QED
      BY <3>2, <3>3 DEF IsChain
  <2> QED
    BY <2>1, <2>2
<1>2. ASSUME NEW v \in Volumes PROVE Unfiled(v, c)
  <2>1. Link(v, c) = 0 /\ spent.calls \in Nat
    BY <1>1 DEF Volumes, CInv, Typed, SpentOK
  <2>2. GSound(v) /\ HeldIn(v) /\ FilesWhole(v, spent.calls)
    BY VolumeFacts DEF DInv
  <2> QED
    BY <2>1, <2>2, NotFiled
<1> QED
  BY <1>2

\* The file has one more cluster, n.
LEMMA FileGrows ==
    ASSUME IInv, CInv, DInv, op.call = "write", op.pc \in {"chain", "link"}, NEW n \in Clusters,
           UnfiledStays, \A v \in Volumes : Unfiled(v, n), disk' = disk,
           PendingLink => op.ncl = n, Link(Vol, n) = 0 \/ PendingLink,
           \A y \in Clusters : y # n /\ y # fil.clust => Link(Vol', y) = Link(Vol, y),
           fil.clust # 0 => Link(Vol', fil.clust) = n,
           Link(Vol', n) \notin Clusters,
           op'.call = "write", op'.pc = "spill", op'.left = op.left,
           fil' = [fil EXCEPT !.clust = n, !.sclust = IF @ = 0 THEN n ELSE @]
    PROVE  FileWritten'
<1>1. fil \in FilType /\ fil.size \in Nat /\ fil.open /\ (fil.sclust = 0 <=> fil.clust = 0)
  BY DEF IInv, Control, FileInv, FilOK, FilType
<1>2. /\ fil'.clust = n /\ fil'.sclust = (IF fil.sclust = 0 THEN n ELSE fil.sclust)
      /\ fil'.stop = fil.stop /\ fil'.size = fil.size /\ fil'.dirty = fil.dirty
      /\ fil'.sect = fil.sect /\ fil'.buf = fil.buf /\ fil'.ver = fil.ver
  BY <1>1 DEF FilType
<1>3. ~Closed /\ Linking /\ ~Writing /\ Writing' /\ ~Linking' /\ ~PendingLink' /\ n # 0
  BY ClusterFacts DEF Closed, Linking, Writing, PendingLink
<1> PICK m \in Nat : \E F \in [1 .. m -> Clusters] : IsChain(m, F) /\ HasRoom(m) /\ HasData(F)
  BY <1>1, <1>3 DEF DInv, FileWritten
<1> PICK F \in [1 .. m -> Clusters] : IsChain(m, F) /\ HasRoom(m) /\ HasData(F)
  OBVIOUS
<1> DEFINE G == [j \in 1 .. m + 1 |-> IF j <= m THEN F[j] ELSE n]
<1>4. /\ m + 1 \in Nat /\ G \in [1 .. m + 1 -> Clusters] /\ G[m + 1] = n
      /\ \A j \in 1 .. m : G[j] = F[j]
      /\ \A j \in 1 .. m + 1 : j \in 1 .. m \/ j = m + 1
  OBVIOUS
<1> HIDE DEF G
<1>5. \A j \in 1 .. m : F[j] # n
  <2>1. CASE PendingLink
    BY <2>1 DEF IsChain, PendingLink
  <2>2. CASE Link(Vol, n) = 0
    BY <2>2, ChainUsed
  <2> QED
    BY <2>1, <2>2
<1>6. m # 0 => m \in 1 .. m /\ 1 \in 1 .. m
  OBVIOUS
<1>7. (m = 0 <=> fil.clust = 0) /\ (m # 0 => F[m] = fil.clust)
  BY <1>1 DEF IsChain
<1>8. G[1] = fil'.sclust
  <2>1. CASE m = 0
    BY <1>2, <1>4, <2>1 DEF IsChain
  <2>2. CASE m # 0
    BY <1>2, <1>4, <1>6, <2>2 DEF IsChain
  <2> QED
    BY <2>1, <2>2
<1>9. ASSUME NEW j \in 1 .. m PROVE Link(Vol', G[j]) = G[j + 1]
  <2>1. CASE j = m
    BY <1>4, <1>7, <2>1
  <2>2. CASE j # m
    <3>1. j \in 1 .. m - 1 /\ j + 1 \in 1 .. m /\ F[j] # fil.clust /\ m \in 1 .. m
      BY <1>7, <2>2 DEF IsChain
    <3>2. Link(Vol', F[j]) = Link(Vol, F[j])
      BY <1>5, <3>1
    <3> QED
      BY <1>4, <3>1, <3>2 DEF IsChain
  <2> QED
    BY <2>1, <2>2
<1>10. ASSUME NEW j \in 1 .. m + 1, NEW k \in 1 .. m + 1, G[j] = G[k] PROVE j = k
  BY <1>4, <1>5, <1>10 DEF IsChain
<1>11. ASSUME NEW j \in 1 .. m + 1, NEW v \in Volumes' PROVE Unfiled(v, G[j])
  BY <1>4, <1>11 DEF IsChain, UnfiledStays
<1>12. ASSUME NEW x \in Clusters
       PROVE  \/ fil'.stop \/ Link(disk', x) = Link(Vol', x) \/ \E j \in 1 .. m + 1 : G[j] = x
  <2>1. CASE x = n
    BY <1>4, <2>1
  <2>2. CASE x = fil.clust
    <3>1. m # 0
      BY <1>7, <2>2, ClusterFacts
    <3> QED
      BY <1>4, <1>6, <1>7, <2>2, <3>1
  <2>3. CASE x # n /\ x # fil.clust
    <3>1. Link(Vol', x) = Link(Vol, x)
      BY <2>3
    <3>2. fil.stop \/ Link(disk, x) = Link(Vol, x) \/ \E j \in 1 .. m : F[j] = x
      BY <2>3 DEF IsChain, PendingLink
    <3> QED
      BY <1>2, <1>4, <3>1, <3>2
  <2> QED
    BY <2>1, <2>2, <2>3
<1>13. IsChain(m + 1, G)'
  <2>1. m + 1 # 0 /\ (m + 1) - 1 = m /\ fil'.sclust # 0
    BY <1>2, <1>3
  <2>2. \A j, k \in 1 .. m + 1 : G[j] = G[k] => j = k
    BY <1>10
  <2>3. \A j \in 1 .. (m + 1) - 1 : Link(Vol', G[j]) = G[j + 1]
    BY <1>9, <2>1
  <2> QED
    BY <1>2, <1>3, <1>4, <1>8, <1>11, <1>12, <2>1, <2>2, <2>3 DEF IsChain, PendingLink
<1>14. Tail(fil.size) \in Int /\ Tail(fil.size) + 1 <= m /\ m = Tail(fil.size) + 1 /\ ~fil.stop
  BY <1>1, <1>3, TailType DEF HasRoom
<1>15. HasRoom(m + 1)'
  BY <1>2, <1>3, <1>14 DEF HasRoom
<1>16. HasData(G)'
  BY <1>1, <1>2, <1>4, DataStays
<1> QED
  BY <1>4, <1>13, <1>15, <1>16 DEF FileWritten

LEMMA GotIs ==
    ASSUME Control, op.pc \in {"chain", "link"}, NEW c \in Clusters, Got(c)
    PROVE  /\ op'.call = op.call
           /\ op.call = "write" =>
                 /\ op'.pc = "spill" /\ op'.left = op.left
                 /\ fil' = [fil EXCEPT !.clust = c, !.sclust = IF @ = 0 THEN c ELSE @]
           /\ op.call # "write" =>
                 /\ op'.pc = "clear" /\ op'.ncl = c /\ fil' = fil
                 /\ op'.dcl = IF op.call = "mkdir" /\ op.dcl = 0 THEN c ELSE op.dcl
<1>1. op \in OpType /\ op.call \in {"open", "mkdir", "write"}
  BY DEF Control, Places
<1>2. CASE op.call = "write"
  BY <1>1, <1>2 DEF Got, Go, OpType
<1>3. CASE op.call # "write"
  <2> DEFINE d == IF op.call = "mkdir" /\ op.dcl = 0 THEN c ELSE op.dcl
  <2>1. op' = [op EXCEPT !.pc = "clear", !.ncl = c, !.dcl = d] /\ fil' = fil
    BY <1>1, <1>3 DEF Got, Go, OpType
  <2> HIDE DEF d
  <2>2. op'.pc = "clear" /\ op'.ncl = c /\ fil' = fil /\ op'.dcl = d /\ op'.call = op.call
    BY <1>1, <2>1 DEF OpType
  <2> QED
    BY <1>3, <2>2 DEF d
<1> QED
  BY <1>2, <1>3

\* What is in the clusters stays when a link is set.
LEMMA DotsStay ==
    ASSUME IInv, CInv, DInv, op.call = "mkdir", op.dcl # 0, op.pc \in {"chain", "link"},
           NEW c \in Clusters, NEW x \in Links, SetLink(c, x), Movable(FatOf[c]), disk' = disk
    PROVE  \A v \in Views' : v[op.dcl].dots
<1>1. op.dcl \in Clusters
  BY DEF IInv, Control, OpType
<1> PICK v \in Views : \A s \in Clusters : Vol'[s] = v[s]
  BY LinkSees
<1>2. v[op.dcl].dots
  BY DEF DInv, Growing
<1>3. Views' = {Vol'}
  BY Linked
<1> QED
  BY <1>1, <1>2, <1>3

LEMMA AllocateWhole == ASSUME IInv, CInv, CInv', DInv, Allocate PROVE DInv'
<1>1. op.pc = "chain" /\ Ready /\ UNCHANGED <<disk, spent>> /\ fs.free # 0
  BY DEF Allocate, At
<1>2. PICK c \in NextFree :
        /\ SetLink(c, EndOfChain)
        /\ IF op.clst = 0 THEN Got(c)
           ELSE op' = [op EXCEPT !.pc = "link", !.ncl = c] /\ fil' = fil
  BY DEF Allocate, Go
<1>3. Control /\ op \in OpType /\ op.call \in {"open", "mkdir", "write"}
  BY <1>1 DEF IInv, Control, Places
<1>4. c \in Clusters /\ Link(Vol, c) = 0 /\ c # 0 /\ EndOfChain \in Links /\ EndOfChain \notin Clusters
  BY ClusterFacts, SectorFacts DEF NextFree, IsFree
<1>5. Movable(FatOf[c])
  BY <1>1, <1>3, FoundIsRead, WantedIs DEF Ready, Movable
<1>6. spent.calls \in Nat /\ spent'.calls = spent.calls
  BY <1>1 DEF CInv, Typed, SpentOK
<1>7. Remains
  BY <1>1, <1>2, <1>4, <1>5, ClusterFacts, LinkRemains
<1>8. (\A v \in Volumes' : FilesWhole(v, spent'.calls)) /\ UnfiledStays
  BY <1>6, <1>7, Remain DEF DInv
<1>9. \A v \in Volumes : Unfiled(v, c)
  BY <1>1, <1>4, TakenIsNew
<1>10. \A v \in Volumes' : Unfiled(v, c)
  BY <1>8, <1>9 DEF UnfiledStays
<1>11. \A y \in Clusters : Link(Vol', y) = IF y = c THEN EndOfChain ELSE Link(Vol, y)
  BY <1>1, <1>2, <1>4, <1>5, LinkSet
<1>12. op.call = "mkdir" /\ op.dcl # 0 => \A v \in Views' : v[op.dcl].dots
  BY <1>1, <1>2, <1>4, <1>5, DotsStay
<1>13. op.clst # 0 => op.clst \in Clusters /\ op.clst # c /\ Link(Vol', op.clst) \notin Clusters
  <2>1. op.clst # 0 => op.clst \in Clusters /\ Link(Vol, op.clst) \notin Clusters
    BY <1>1, <1>3 DEF DInv, Growing, OpType
  <2>2. op.clst # 0 => op.clst # c
    BY <1>1, <1>4 DEF CInv, InUse, Uses
  <2> QED
    BY <1>4, <1>11, <2>1, <2>2
<1>14. CASE op.clst = 0
  <2>1. Got(c)
    BY <1>2, <1>14
  <2>2. CASE op.call = "write"
    <3>1. /\ op'.pc = "spill" /\ op'.left = op.left /\ op'.call = "write"
          /\ fil' = [fil EXCEPT !.clust = c, !.sclust = IF @ = 0 THEN c ELSE @]
      BY <1>1, <1>3, <1>4, <2>1, <2>2, GotIs
    <3>2. fil.clust = 0 /\ ~PendingLink /\ fil.open /\ fil'.ver = fil.ver
      BY <1>1, <1>3, <1>14, <2>2, <3>1 DEF Control, FileInv, FilOK, FilType, PendingLink
    <3>3. FileWritten'
      BY <1>1, <1>4, <1>8, <1>9, <1>11, <2>2, <3>1, <3>2, FileGrows
    <3>4. Growing'
      BY <3>1, NoGrowth
    <3>5. Numbered'
      BY <1>6, <2>2, <3>1, <3>2, NumberedStays
    <3> QED
      BY <1>8, <3>3, <3>4, <3>5 DEF DInv
  <2>3. CASE op.call # "write"
    <3>1. /\ op'.pc = "clear" /\ op'.ncl = c /\ fil' = fil /\ op'.call = op.call
          /\ op'.dcl = IF op.call = "mkdir" /\ op.dcl = 0 THEN c ELSE op.dcl
      BY <1>1, <1>3, <1>4, <2>1, <2>3, GotIs
    <3>2. Growing'
      BY <1>10, <1>12, <3>1 DEF Growing
    <3> QED
      BY <1>3, <1>6, <1>7, <2>3, <3>1, <3>2, NameWhole
  <2> QED
    BY <2>2, <2>3
<1>15. CASE op.clst # 0
  <2> op' = [op EXCEPT !.pc = "link", !.ncl = c] /\ fil' = fil
    BY <1>2, <1>15
  <2>1. /\ op'.call = op.call /\ op'.pc = "link" /\ op'.ncl = c /\ op'.left = op.left
        /\ op'.clst = op.clst /\ op'.dcl = op.dcl
    BY <1>3 DEF OpType
  <2>2. Growing'
    BY <1>4, <1>10, <1>11, <1>12, <1>13, <2>1 DEF Growing
  <2>3. CASE op.call # "write"
    BY <1>3, <1>6, <1>7, <2>2, <2>3, NameWhole
  <2>4. CASE op.call = "write"
    <3>1. fil.open /\ ~Closed /\ Linking /\ Linking' /\ PendingLink' /\ ~Writing' /\ ~Writing /\ op.clst = fil.clust
      BY <1>1, <1>3, <2>1, <2>4 DEF Closed, Linking, PendingLink, Writing, Control, FileInv
    <3> PICK m \in Nat : \E F \in [1 .. m -> Clusters] : IsChain(m, F) /\ HasRoom(m) /\ HasData(F)
      BY <3>1 DEF DInv, FileWritten
    <3> PICK F \in [1 .. m -> Clusters] : IsChain(m, F) /\ HasRoom(m) /\ HasData(F)
      OBVIOUS
    <3>2. \A j \in 1 .. m : F[j] # c
      BY <1>4, ChainUsed
    <3>3. \A j \in 1 .. m : Link(Vol', F[j]) = Link(Vol, F[j])
      BY <1>11, <3>2
    <3>4. m # 0 => m \in 1 .. m
      OBVIOUS
    <3>5. \A j \in 1 .. m : \A v \in Volumes' : Unfiled(v, F[j])
      BY <1>8 DEF IsChain, UnfiledStays
    <3>6. ASSUME NEW x \in Clusters
          PROVE  \/ fil.stop \/ Link(disk, x) = Link(Vol', x) \/ \E j \in 1 .. m : F[j] = x
                 \/ x = c
      BY <1>1, <1>11 DEF IsChain
    <3>7. \A j \in 1 .. m - 1 : Link(Vol', F[j]) = F[j + 1]
      BY <3>3 DEF IsChain
    <3>8. m # 0 => F[1] = fil.sclust /\ F[m] = fil.clust /\ Link(Vol', F[m]) \notin Clusters
      BY <3>3, <3>4 DEF IsChain
    <3>9. /\ m = 0 <=> fil.sclust = 0
          /\ \A j, k \in 1 .. m : F[j] = F[k] => j = k
      BY DEF IsChain
    <3>10. IsChain(m, F)'
      BY <1>1, <2>1, <3>1, <3>2, <3>5, <3>6, <3>7, <3>8, <3>9 DEF IsChain
    <3>11. HasRoom(m)'
      BY <2>1, <2>4, <3>1 DEF HasRoom
    <3>12. HasData(F)'
      <4>1. fil.size \in Nat
        BY <1>3 DEF Control, FilOK, FilType
      <4>2. \A j \in 1 .. m : F[j] = F[j] /\ disk'[F[j]].data = disk[F[j]].data
        BY <1>1
      <4> QED
        BY <2>1, <2>4, <4>1, <4>2, DataStays
    <3>13. FileWritten'
      BY <3>10, <3>11, <3>12 DEF FileWritten
    <3>14. Numbered'
      BY <1>6, <2>1, NumberedStays
    <3> QED
      BY <1>8, <2>2, <3>13, <3>14 DEF DInv
  <2> QED
    BY <2>3, <2>4
<1> QED
  BY <1>14, <1>15

LEMMA LinkItWhole == ASSUME IInv, CInv, CInv', DInv, LinkIt PROVE DInv'
<1>1. op.pc = "link" /\ Ready /\ UNCHANGED <<disk, spent>> /\ SetLink(op.clst, op.ncl) /\ Got(op.ncl)
  BY DEF LinkIt, At
<1>2. /\ Control /\ op \in OpType /\ op.call \in {"open", "mkdir", "write"} /\ op.clst \in Clusters
      /\ op.call = "mkdir" => op.dcl # 0
  BY <1>1 DEF IInv, Control, Places, MkdirInv, OpType
<1>3. Movable(FatOf[op.clst])
  BY <1>1, WantedIs DEF Ready, Movable
<1>4. op.ncl \in Clusters /\ op.ncl \in Links /\ op.clst # op.ncl
  <2>1. op.ncl \in Clusters /\ Link(Vol, op.ncl) # 0
    BY <1>1 DEF IInv, Views, Facts, Fresh, Loose
  <2>2. op.clst # op.ncl
    BY <1>1 DEF DInv, Growing
  <2> QED
    BY <2>1, <2>2, SectorFacts
<1>5. spent.calls \in Nat /\ spent'.calls = spent.calls
  BY <1>1 DEF CInv, Typed, SpentOK
<1>6. Link(Vol, op.clst) \notin Clusters /\ Link(Vol, op.ncl) \notin Clusters
  BY <1>1, <1>2, ClusterFacts DEF DInv, Growing
<1>7. Remains
  BY <1>1, <1>2, <1>3, <1>4, <1>6, LinkRemains
<1>8. (\A v \in Volumes' : FilesWhole(v, spent'.calls)) /\ UnfiledStays
  BY <1>5, <1>7, Remain DEF DInv
<1>9. \A v \in Volumes : Unfiled(v, op.ncl)
  BY <1>1 DEF DInv, Growing
<1>10. \A v \in Volumes' : Unfiled(v, op.ncl)
  BY <1>8, <1>9 DEF UnfiledStays
<1>11. \A y \in Clusters : Link(Vol', y) = IF y = op.clst THEN op.ncl ELSE Link(Vol, y)
  BY <1>1, <1>2, <1>3, <1>4, LinkSet
<1>12. op.call = "mkdir" /\ op.dcl # 0 => \A v \in Views' : v[op.dcl].dots
  BY <1>1, <1>2, <1>3, <1>4, DotsStay
<1>13. CASE op.call = "write"
  <2>1. /\ op'.pc = "spill" /\ op'.left = op.left /\ op'.call = "write"
        /\ fil' = [fil EXCEPT !.clust = op.ncl, !.sclust = IF @ = 0 THEN op.ncl ELSE @]
    BY <1>1, <1>2, <1>4, <1>13, GotIs
  <2>2. fil.open /\ ~Closed /\ Linking /\ PendingLink /\ fil'.ver = fil.ver
    BY <1>1, <1>2, <1>13, <2>1 DEF Closed, Linking, PendingLink, Control, FileInv, FilOK, FilType
  <2> PICK m \in Nat : \E F \in [1 .. m -> Clusters] : IsChain(m, F) /\ HasRoom(m) /\ HasData(F)
    BY <2>2 DEF DInv, FileWritten
  <2>3. op.clst = fil.clust
    BY <2>2 DEF HasRoom
  <2>4. FileWritten'
    <3>1. \A y \in Clusters : y # op.ncl /\ y # fil.clust => Link(Vol', y) = Link(Vol, y)
      BY <1>11, <2>3
    <3>2. Link(Vol', fil.clust) = op.ncl /\ Link(Vol', op.ncl) \notin Clusters
      BY <1>2, <1>4, <1>6, <1>11, <2>3
    <3>3. disk' = disk /\ op.pc \in {"chain", "link"}
      BY <1>1
    <3> QED
      BY <1>4, <1>8, <1>9, <1>13, <2>1, <2>2, <3>1, <3>2, <3>3, FileGrows
  <2>5. Growing'
    BY <2>1, NoGrowth
  <2>6. Numbered'
    BY <1>5, <1>13, <2>1, <2>2, NumberedStays
  <2> QED
    BY <1>8, <2>4, <2>5, <2>6 DEF DInv
<1>14. CASE op.call # "write"
  <2>1. /\ op'.pc = "clear" /\ op'.ncl = op.ncl /\ fil' = fil /\ op'.call = op.call
        /\ op'.dcl = IF op.call = "mkdir" /\ op.dcl = 0 THEN op.ncl ELSE op.dcl
    BY <1>1, <1>2, <1>4, <1>14, GotIs
  <2>2. Growing'
    BY <1>2, <1>10, <1>12, <2>1 DEF Growing
  <2> QED
    BY <1>2, <1>5, <1>7, <1>14, <2>1, <2>2, NameWhole
<1> QED
  BY <1>13, <1>14

(***************************************************************************)
(* The steps that write past the window.                                   *)
(***************************************************************************)
LEMMA ClearWhole == ASSUME IInv, CInv, CInv', DInv, Clear PROVE DInv'
<1> DEFINE b == IF op.ncl = op.dcl THEN [Blank EXCEPT !.dots = TRUE] ELSE Blank
<1>1. /\ op.pc = "clear" /\ Ready /\ disk' = [disk EXCEPT ![op.ncl] = Blank]
      /\ UNCHANGED <<fil, spent>>
      /\ win'.sect = op.ncl /\ win'.buf = b /\ (win'.dirty <=> op.ncl = op.dcl)
      /\ op' = [op EXCEPT !.pc = "alloc", !.t = IF op.ncl = op.dcl THEN op.d ELSE op.ncl]
  BY DEF Clear, At
<1>2. /\ op \in OpType /\ op.ncl \in Clusters /\ op.ncl \in Sectors /\ op.call \in {"open", "mkdir"}
      /\ op.call = "mkdir" => op.dcl \in Clusters
  BY <1>1, SectorFacts, NameCall DEF IInv, Control, Places, MkdirInv, OpType
<1>3. \A i \in 1 .. Slots : b.ent[i].clst = 0 /\ Blank.ent[i].clst = 0
  BY NoHeads
<1>4. op.ncl = op.dcl => b.dots
  BY NoHeads
<1> HIDE DEF b
<1>5. ~win.dirty /\ disk \in Views
  BY <1>1, WantedIs, CleanWindow DEF IInv
<1>6. /\ \A s \in Sectors : disk'[s] = IF s = op.ncl THEN Blank ELSE disk[s]
      /\ \A s \in Sectors : Vol'[s] = IF s = op.ncl THEN b ELSE disk[s]
  <2>1. \A s \in Sectors : disk'[s] = IF s = op.ncl THEN Blank ELSE disk[s]
    BY <1>1, VolIsOver DEF IInv, Over
  <2>2. \A s \in Sectors : Vol'[s] = IF s = op.ncl THEN b ELSE disk'[s]
    BY <1>1 DEF Vol
  <2> QED
    BY <2>1, <2>2
<1>7. Unfiled(disk, op.ncl)
  BY <1>1 DEF DInv, Growing, Volumes
<1>8. Stays(disk, disk') /\ Stays(disk, Vol')
  BY <1>2, <1>3, <1>6, <1>7, WriteStays DEF Head, Entry
<1>9. Remains
  BY <1>8 DEF Remains, Volumes
<1>10. op'.pc = "alloc" /\ op'.call = op.call /\ op'.dcl = op.dcl
  BY <1>1, <1>2 DEF OpType
<1>11. ASSUME op.call = "mkdir", NEW v \in Views' PROVE v[op.dcl].dots
  <2>1. op.dcl \in Clusters /\ op.dcl \in Sectors
    BY <1>2, <1>11, SectorFacts
  <2>2. CASE op.ncl = op.dcl
    <3>1. v = Vol'
      BY <1>1, <2>2 DEF Views
    <3> QED
      BY <1>4, <1>6, <2>1, <2>2, <3>1
  <2>3. CASE op.ncl # op.dcl
    <3>1. v[op.dcl] = disk[op.dcl]
      BY <1>6, <2>1, <2>3 DEF Views
    <3>2. disk[op.dcl].dots
      BY <1>1, <1>5, <1>11, <2>1, <2>3, ClusterFacts DEF DInv, Growing
    <3> QED
      BY <3>1, <3>2
  <2> QED
    BY <2>2, <2>3
<1>12. Growing'
  BY <1>1, <1>2, <1>10, <1>11 DEF Growing
<1> QED
  BY <1>1, <1>2, <1>9, <1>12, NameWhole

\* A piece of the open file goes to the disk.
LEMMA PastRemains ==
    ASSUME IInv, NEW c \in Clusters, NEW d, ToDisk(c, d), win' = win, win.sect # c,
           \A v \in Volumes : Unfiled(v, c)
    PROVE  /\ Remains /\ SameLinks(Vol, Vol')
           /\ disk'[c].data = d /\ \A s \in Clusters : s # c => disk'[s] = disk[s]
           /\ \A x \in Clusters : Link(disk', x) = Link(disk, x)
<1> DEFINE b == [Blank EXCEPT !.data = d]
<1>1. b.data = d /\ \A i \in 1 .. Slots : b.ent[i].clst = 0
  BY NoHeads
<1>2. disk' = [disk EXCEPT ![c] = b]
  BY DEF ToDisk
<1> HIDE DEF b
<1>3. c \in Sectors /\ c \notin FatSectors
  BY SectorFacts
<1>4. \A s \in Sectors : disk'[s] = IF s = c THEN b ELSE disk[s]
  BY <1>2, VolIsOver DEF IInv, Over
<1>5. \A s \in Sectors : Vol'[s] = IF s = c THEN b ELSE Vol[s]
  BY <1>4 DEF Vol
<1>6. Stays(disk, disk') /\ Stays(Vol, Vol')
  BY <1>1, <1>3, <1>4, <1>5, WriteStays DEF Head, Entry, Volumes
<1>7. \A x \in Clusters : Link(disk', x) = Link(disk, x) /\ Link(Vol', x) = Link(Vol, x)
  BY <1>3, <1>4, <1>5, SectorFacts DEF Link
<1> QED
  BY <1>1, <1>3, <1>4, <1>6, <1>7, SectorFacts DEF Remains, Volumes, SameLinks

LEMMA SpillWhole == ASSUME IInv, CInv, CInv', DInv, Spill PROVE DInv'
<1>1. /\ op.pc = "spill" /\ UNCHANGED <<win, spent>> /\ op.call \in {"write", "close"}
      /\ op' = [op EXCEPT !.pc = IF op.call = "close" THEN "entry" ELSE "data"]
  BY DEF Spill, At, Go, IInv, Control, Places
<1>2. op \in OpType /\ FilOK /\ fil \in FilType /\ fil.open /\ fil.size \in Nat
  BY <1>1 DEF IInv, Control, FilOK, FilType, FileInv
<1>3. /\ op'.pc \in {"entry", "data"} /\ op'.call = op.call /\ op'.left = op.left
      /\ op.call = "write" => op'.pc = "data"
      /\ op.call = "close" => op'.pc = "entry"
  BY <1>1, <1>2 DEF OpType
<1>4. spent.calls \in Nat /\ spent'.calls = spent.calls
  BY <1>1 DEF CInv, Typed, SpentOK
<1>5. Growing' /\ ~Closed /\ ~PendingLink /\ ~PendingLink' /\ ~Linking' /\ (Writing' <=> Writing)
  BY <1>1, <1>3, NoGrowth DEF Closed, PendingLink, Linking, Writing
<1>6. CASE fil.dirty
  <2>1. ToDisk(fil.sect, fil.buf) /\ fil' = [fil EXCEPT !.dirty = FALSE]
    BY <1>6 DEF Spill
  <2>2. /\ fil'.ver = fil.ver /\ fil'.buf = fil.buf /\ fil'.size = fil.size /\ fil'.stop = fil.stop
        /\ fil'.clust = fil.clust /\ fil'.sclust = fil.sclust /\ fil'.open /\ ~fil'.dirty
    BY <1>2, <2>1 DEF FilType
  <2> PICK m \in Nat : \E F \in [1 .. m -> Clusters] : IsChain(m, F) /\ HasRoom(m) /\ HasData(F)
    BY <1>2, <1>5 DEF DInv, FileWritten
  <2> PICK F \in [1 .. m -> Clusters] : IsChain(m, F) /\ HasRoom(m) /\ HasData(F)
    OBVIOUS
  <2> DEFINE n == Tail(fil.size) + 1
  <2>3. fil.size # 0 /\ fil.sect = F[n] /\ n \in 1 .. m
    BY <1>2, <1>6, PieceAt DEF HasData
  <2> HIDE DEF n
  <2>4. fil.sect \in Clusters /\ \A v \in Volumes : Unfiled(v, fil.sect)
    BY <2>3 DEF IsChain
  <2>5. win.sect \notin Clusters
    <3>1. fil.sclust # 0
      BY <2>3 DEF IsChain
    <3> QED
      BY <1>5, <3>1 DEF IInv, WindowInv, Unentered, Closed
  <2>6. /\ Remains /\ SameLinks(Vol, Vol')
        /\ disk'[fil.sect].data = fil.buf /\ \A s \in Clusters : s # fil.sect => disk'[s] = disk[s]
        /\ \A x \in Clusters : Link(disk', x) = Link(disk, x)
    BY <1>1, <2>1, <2>4, <2>5, PastRemains
  <2>7. (\A v \in Volumes' : FilesWhole(v, spent'.calls)) /\ UnfiledStays
    BY <1>4, <2>6, Remain DEF DInv
  <2>8. IsChain(m, F)'
    BY <1>5, <2>2, <2>6, <2>7, ChainStays
  <2>9. HasRoom(m)'
    BY <1>3, <1>5, <2>2 DEF HasRoom
  <2>10. ASSUME NEW k \in 1 .. fil.size PROVE Piece(F, k)' = <<fil.ver, k>>
    <3>1. Tail(k) + 1 \in 1 .. m /\ Tail(k) <= Tail(fil.size)
      BY <1>2, PieceAt
    <3>2. Piece(F, k)' = disk'[F[Tail(k) + 1]].data[((k - 1) % Units) + 1]
      BY <2>2 DEF Piece
    <3>3. Piece(F, k) = <<fil.ver, k>>
      BY DEF HasData
    <3>4. CASE Tail(k) = Tail(fil.size)
      BY <1>6, <2>3, <2>6, <3>2, <3>3, <3>4 DEF Piece, n
    <3>5. CASE Tail(k) # Tail(fil.size)
      <4>1. Tail(k) + 1 # n
        <5>1. Tail(k) \in Int /\ Tail(fil.size) \in Int
          BY <1>2, TailOrder
        <5> QED
          BY <3>5, <5>1 DEF n
      <4>2. F[Tail(k) + 1] # fil.sect /\ F[Tail(k) + 1] \in Clusters
        BY <2>3, <3>1, <4>1 DEF IsChain
      <4> QED
        BY <2>6, <3>2, <3>3, <3>5, <4>2 DEF Piece
    <3> QED
      BY <3>4, <3>5
  <2>11. HasData(F)'
    <3>1. fil.size % Units # 0 => op.call = "close"
      BY <1>1 DEF HasRoom, Writing
    <3> QED
      BY <1>3, <2>2, <2>10, <3>1 DEF HasData
  <2>12. FileWritten'
    BY <2>8, <2>9, <2>11 DEF FileWritten
  <2>13. Numbered'
    BY <1>2, <1>3, <1>4, <2>2, NumberedStays
  <2> QED
    BY <1>5, <2>7, <2>12, <2>13 DEF DInv
<1>7. CASE ~fil.dirty
  <2>1. UNCHANGED <<disk, fil>>
    BY <1>7 DEF Spill
  <2>2. Vol' = Vol
    BY <1>1, <2>1 DEF Vol
  <2>3. Remains /\ SameLinks(Vol, Vol')
    BY <2>1, <2>2, SeenBefore DEF SameLinks, Volumes
  <2>4. (\A v \in Volumes' : FilesWhole(v, spent'.calls)) /\ UnfiledStays
    BY <1>4, <2>3, Remain DEF DInv
  <2>5. \A m \in Nat : HasRoom(m) => HasRoom(m)'
    BY <1>3, <1>5, <2>1 DEF HasRoom
  <2>6. FileWritten'
    BY <1>2, <1>3, <1>5, <1>7, <2>1, <2>3, <2>4, <2>5, FileStill
  <2>7. Numbered'
    BY <1>2, <1>3, <1>4, <2>1, NumberedStays
  <2> QED
    BY <1>5, <2>4, <2>6, <2>7 DEF DInv
<1> QED
  BY <1>6, <1>7

\* Where the next cluster of the open file goes.
Located(m, F) ==
    /\ IsChain(m, F) /\ HasRoom(m) /\ HasData(F)
    /\ m = Tail(fil.size) + 2 /\ m \in 1 .. m /\ F[m] = fil.clust /\ fil.clust \in Clusters
    /\ fil.size % Units = 0 /\ ~fil.dirty /\ ~fil.stop /\ op.left # 0
    /\ \A k \in 1 .. fil.size :
          /\ Tail(k) + 1 \in 1 .. m /\ F[Tail(k) + 1] # fil.clust /\ Tail(k) # Tail(fil.size) + 1
          /\ disk[F[Tail(k) + 1]].data[((k - 1) % Units) + 1] = <<fil.ver, k>>

LEMMA Whereabouts ==
    ASSUME IInv, CInv, DInv, op.pc = "data"
    PROVE  \E m \in Nat : \E F \in [1 .. m -> Clusters] : Located(m, F)
<1>1. op.call = "write" /\ fil.open /\ fil.size \in Nat /\ ~Closed /\ Writing
  BY DEF IInv, Control, Places, FileInv, FilOK, FilType, Closed, Writing
<1> PICK m \in Nat : \E F \in [1 .. m -> Clusters] : IsChain(m, F) /\ HasRoom(m) /\ HasData(F)
  BY <1>1 DEF DInv, FileWritten
<1> PICK F \in [1 .. m -> Clusters] : IsChain(m, F) /\ HasRoom(m) /\ HasData(F)
  OBVIOUS
<1>2. fil.size % Units = 0 /\ ~fil.stop /\ op.left # 0 /\ m = Tail(fil.size) + 2 /\ ~fil.dirty
  BY <1>1 DEF HasRoom, HasData
<1>3. Tail(fil.size) \in Int /\ Tail(fil.size) + 1 \in Nat
  BY <1>1, TailType
<1>4. m \in 1 .. m /\ m # 0
  BY <1>2, <1>3
<1>5. F[m] = fil.clust /\ fil.clust \in Clusters
  BY <1>4 DEF IsChain
<1>6. ASSUME NEW k \in 1 .. fil.size
      PROVE  /\ Tail(k) + 1 \in 1 .. m /\ F[Tail(k) + 1] # fil.clust /\ Tail(k) # Tail(fil.size) + 1
             /\ disk[F[Tail(k) + 1]].data[((k - 1) % Units) + 1] = <<fil.ver, k>>
  <2>1. Tail(k) + 1 \in 1 .. m /\ Tail(k) <= Tail(fil.size) /\ Tail(k) \in Int
    BY <1>1, PieceAt, TailOrder
  <2>2. Tail(k) + 1 # m /\ Tail(k) # Tail(fil.size) + 1
    BY <1>2, <1>3, <2>1
  <2>3. F[Tail(k) + 1] # F[m]
    BY <1>4, <2>1, <2>2 DEF IsChain
  <2>4. Piece(F, k) = disk[F[Tail(k) + 1]].data[((k - 1) % Units) + 1]
    BY <1>2 DEF Piece
  <2> QED
    BY <1>5, <2>1, <2>2, <2>3, <2>4 DEF HasData
<1> QED
  BY <1>2, <1>4, <1>5, <1>6 DEF Located

LEMMA Beyond ==
    ASSUME NEW n \in Nat, NEW w \in Nat, NEW k \in 1 .. n + w, k \notin 1 .. n
    PROVE  \E x \in 1 .. w : k = n + x
<1>1. k - n \in 1 .. w /\ k = n + (k - n)
  OBVIOUS
<1> QED
  BY <1>1

LEMMA DataWhole == ASSUME IInv, CInv, CInv', DInv, Data PROVE DInv'
<1>1. op.pc = "data" /\ UNCHANGED <<win, spent>> /\ op.call = "write"
  BY DEF Data, At, IInv, Control, Places
<1>2. /\ op \in OpType /\ fil \in FilType /\ fil.open /\ fil.size \in Nat /\ op.left \in Nat
      /\ Units \in Nat \ {0}
  BY <1>1, FatAssumption DEF IInv, Control, FilOK, FilType, FileInv, OpType
<1>3. spent.calls \in Nat /\ spent'.calls = spent.calls
  BY <1>1 DEF CInv, Typed, SpentOK
<1>4. ~Closed /\ ~PendingLink
  BY <1>1 DEF Closed, PendingLink
<1> PICK m \in Nat : \E F \in [1 .. m -> Clusters] : Located(m, F)
  BY <1>1, Whereabouts
<1> PICK F \in [1 .. m -> Clusters] : Located(m, F)
  OBVIOUS
<1>a. IsChain(m, F) /\ HasRoom(m)
  BY DEF Located
<1>b. /\ m = Tail(fil.size) + 2 /\ m \in 1 .. m /\ F[m] = fil.clust /\ fil.clust \in Clusters
      /\ fil.size % Units = 0 /\ ~fil.dirty /\ ~fil.stop /\ op.left # 0
  BY DEF Located
<1>c. \A k \in 1 .. fil.size :
          /\ Tail(k) + 1 \in 1 .. m /\ F[Tail(k) + 1] # fil.clust /\ Tail(k) # Tail(fil.size) + 1
          /\ disk[F[Tail(k) + 1]].data[((k - 1) % Units) + 1] = <<fil.ver, k>>
  BY DEF Located
<1>d. fil.size \in Nat /\ Tail(fil.size) \in Int
  BY <1>2, TailType
<1>e. Tail(fil.size) + 1 + 1 = m /\ fil.size % Units = 0
  BY <1>b, <1>d
<1>f. \A x \in 1 .. Units : Tail(fil.size + x) = Tail(fil.size) + 1 /\ (fil.size + x - 1) % Units = x - 1
  BY <1>d, <1>e, TailWhole
<1>5. \A v \in Volumes : Unfiled(v, fil.clust)
  BY <1>a, <1>b DEF IsChain
<1>6. win.sect \notin Clusters
  <2>1. fil.sclust # 0
    BY <1>1 DEF IInv, Control, FileInv
  <2> QED
    BY <1>1, <2>1 DEF IInv, WindowInv, Unentered
<1>7. ASSUME NEW w \in 1 .. Units, fil'.size = fil.size + w, op'.pc = "chunk", op'.call = "write",
             Remains, SameLinks(Vol, Vol'), \A x \in Clusters : Link(disk', x) = Link(disk, x),
             fil'.sclust = fil.sclust, fil'.clust = fil.clust, fil'.stop = fil.stop, fil'.ver = fil.ver,
             fil'.open = fil.open, HasData(F)'
      PROVE  DInv'
  <2>1. (\A v \in Volumes' : FilesWhole(v, spent'.calls)) /\ UnfiledStays
    BY <1>3, <1>7, Remain DEF DInv
  <2>2. ~PendingLink' /\ ~Linking' /\ ~Writing'
    BY <1>7 DEF PendingLink, Linking, Writing
  <2>3. IsChain(m, F)'
    BY <1>4, <1>7, <1>a, <2>1, <2>2, ChainStays
  <2>4. m = Tail(fil'.size) + 1
    <3>1. Tail(fil'.size) = Tail(fil.size) + 1
      BY <1>7, <1>f
    <3> QED
      BY <1>d, <1>e, <3>1
  <2>5. HasRoom(m)'
    <3>1. Tail(fil'.size) + 1 <= m
      BY <2>4
    <3> QED
      BY <1>7, <1>b, <2>2, <2>4, <3>1 DEF HasRoom
  <2>6. FileWritten'
    BY <1>7, <2>3, <2>5 DEF FileWritten
  <2>7. Growing' /\ Numbered'
    BY <1>1, <1>3, <1>7, NoGrowth, NumberedStays
  <2> QED
    BY <2>1, <2>6, <2>7 DEF DInv
<1>9. CASE op.left >= Units
  <2> DEFINE d == [u \in 1 .. Units |-> <<fil.ver, fil.size + u>>]
  <2>1. /\ ToDisk(fil.clust, d)
        /\ fil' = [fil EXCEPT !.size = @ + Units]
        /\ op' = [op EXCEPT !.pc = "chunk", !.left = @ - Units]
    BY <1>9 DEF Data, Go
  <2>2. \A u \in 1 .. Units : d[u] = <<fil.ver, fil.size + u>>
    OBVIOUS
  <2> HIDE DEF d
  <2>3. op'.pc = "chunk" /\ op'.call = "write"
    BY <1>1, <1>2, <2>1 DEF OpType
  <2>4. /\ fil'.ver = fil.ver /\ fil'.size = fil.size + Units /\ fil'.stop = fil.stop
        /\ fil'.clust = fil.clust /\ fil'.sclust = fil.sclust /\ fil'.open = fil.open /\ ~fil'.dirty
    BY <1>2, <1>b, <2>1 DEF FilType
  <2>5. /\ Remains /\ SameLinks(Vol, Vol')
        /\ disk'[fil.clust].data = d /\ \A s \in Clusters : s # fil.clust => disk'[s] = disk[s]
        /\ \A x \in Clusters : Link(disk', x) = Link(disk, x)
    BY <1>1, <1>5, <1>6, <1>b, <2>1, PastRemains
  <2>6. ASSUME NEW k \in 1 .. fil.size + Units PROVE Piece(F, k)' = <<fil.ver, k>>
    <3>1. Piece(F, k)' = disk'[F[Tail(k) + 1]].data[((k - 1) % Units) + 1]
      BY <2>4 DEF Piece
    <3>2. CASE k \in 1 .. fil.size
      <4>1. F[Tail(k) + 1] \in Clusters /\ F[Tail(k) + 1] # fil.clust
        BY <1>c, <3>2
      <4>2. disk'[F[Tail(k) + 1]] = disk[F[Tail(k) + 1]]
        BY <2>5, <4>1
      <4> QED
        BY <1>c, <3>1, <3>2, <4>2
    <3>3. CASE k \notin 1 .. fil.size
      <4> PICK x \in 1 .. Units : k = fil.size + x
        BY <1>2, <3>3, Beyond
      <4>1. Tail(k) = Tail(fil.size) + 1 /\ (k - 1) % Units = x - 1
        BY <1>2, <1>d, <1>f
      <4>2. Tail(k) + 1 = m /\ ((k - 1) % Units) + 1 = x
        BY <1>d, <1>e, <4>1
      <4> QED
        BY <1>b, <2>2, <2>5, <3>1, <4>2
    <3> QED
      BY <3>2, <3>3
  <2>7. HasData(F)'
    <3>1. fil'.size % Units = 0
      BY <1>2, <1>b, <2>4, WholeMore
    <3> QED
      BY <2>3, <2>4, <2>6, <3>1 DEF HasData
  <2>8. Units \in 1 .. Units
    BY <1>2
  <2> QED
    BY <1>7, <2>3, <2>4, <2>5, <2>7, <2>8
<1>10. CASE ~(op.left >= Units)
  <2>1. /\ disk' = disk
        /\ fil' = [fil EXCEPT !.sect = fil.clust, !.buf = Filled(op.left),
                              !.dirty = TRUE, !.size = @ + op.left]
        /\ op' = [op EXCEPT !.pc = "chunk", !.left = 0]
    BY <1>10 DEF Data, Go
  <2>2. op'.pc = "chunk" /\ op'.call = "write"
    BY <1>1, <1>2, <2>1 DEF OpType
  <2>3. /\ fil'.ver = fil.ver /\ fil'.buf = Filled(op.left) /\ fil'.size = fil.size + op.left
        /\ fil'.stop = fil.stop /\ fil'.sect = fil.clust /\ fil'.dirty
        /\ fil'.clust = fil.clust /\ fil'.sclust = fil.sclust /\ fil'.open = fil.open
    BY <1>2, <2>1 DEF FilType
  <2>4. op.left \in 1 .. Units
    BY <1>2, <1>10, <1>b
  <2>5. Vol' = Vol
    BY <1>1, <2>1 DEF Vol
  <2>6. /\ Remains /\ SameLinks(Vol, Vol') /\ \A x \in Clusters : Link(disk', x) = Link(disk, x)
    BY <2>1, <2>5, SeenBefore DEF SameLinks, Volumes
  <2>7. Tail(fil'.size) = Tail(fil.size) + 1 /\ Tail(fil'.size) + 1 = m /\ fil'.size # 0
    <3>1. Tail(fil'.size) = Tail(fil.size) + 1
      BY <1>f, <2>3, <2>4
    <3> QED
      BY <1>2, <1>d, <1>e, <2>3, <2>4, <3>1
  <2>8. ASSUME NEW k \in 1 .. fil.size + op.left PROVE Piece(F, k)' = <<fil.ver, k>>
    <3>1. CASE k \in 1 .. fil.size
      <4>1. Piece(F, k)' = disk[F[Tail(k) + 1]].data[((k - 1) % Units) + 1]
        BY <1>c, <2>1, <2>7, <3>1 DEF Piece
      <4> QED
        BY <1>c, <3>1, <4>1
    <3>2. CASE k \notin 1 .. fil.size
      <4> PICK x \in 1 .. op.left : k = fil.size + x
        BY <1>2, <3>2, Beyond
      <4>1. x \in 1 .. Units
        BY <1>2, <2>4
      <4>2. Tail(k) = Tail(fil'.size) /\ ((k - 1) % Units) + 1 = x
        <5>1. Tail(k) = Tail(fil.size) + 1 /\ (k - 1) % Units = x - 1
          BY <1>2, <1>d, <1>f, <4>1
        <5> QED
          BY <1>d, <2>7, <4>1, <5>1
      <4>3. Piece(F, k)' = Filled(op.left)[x]
        BY <2>3, <4>2 DEF Piece
      <4>4. Filled(op.left)[x] = <<fil.ver, fil.size - 0 + x>>
        <5>1. x - 1 - 0 \in 0 .. op.left - 1
          BY <1>2, <4>1
        <5> QED
          BY <1>b, <4>1, <5>1 DEF Filled
      <4>5. fil.size - 0 + x = k
        BY <1>2, <4>1
      <4> QED
        BY <4>3, <4>4, <4>5
    <3> QED
      BY <3>1, <3>2
  <2>9. HasData(F)'
    <3>1. fil'.sect = F[Tail(fil'.size) + 1]
      BY <1>b, <2>3, <2>7
    <3> QED
      BY <2>2, <2>3, <2>7, <2>8, <3>1 DEF HasData
  <2> QED
    BY <1>7, <2>2, <2>3, <2>4, <2>6, <2>9
<1> QED
  BY <1>9, <1>10

LEMMA ChunkWhole == ASSUME IInv, CInv, CInv', DInv, Chunk PROVE DInv'
<1>1. op.pc = "chunk" /\ UNCHANGED <<disk, win, spent>> /\ op.call = "write"
  BY DEF Chunk, At, IInv, Control, Places
<1>2. /\ op \in OpType /\ fil \in FilType /\ fil.open
      /\ fil.clust = 0 <=> fil.sclust = 0
  BY <1>1 DEF IInv, Control, FilOK, FileInv
<1>3. fil.size \in Nat /\ op.left \in Nat /\ Units \in Nat \ {0}
  BY <1>2, FatAssumption DEF FilType, OpType
<1>4. spent.calls \in Nat /\ spent'.calls = spent.calls
  BY <1>1 DEF CInv, Typed, SpentOK
<1>5. ~Closed /\ ~PendingLink /\ ~Writing /\ ~Linking
  BY <1>1 DEF Closed, PendingLink, Writing, Linking
<1>6. Vol' = Vol /\ disk' = disk
  BY <1>1 DEF Vol
<1>7. Remains /\ SameLinks(Vol, Vol') /\ \A x \in Clusters : Link(disk', x) = Link(disk, x)
  BY <1>6, SeenBefore DEF SameLinks, Volumes
<1>8. (\A v \in Volumes' : FilesWhole(v, spent'.calls)) /\ UnfiledStays
  BY <1>4, <1>7, Remain DEF DInv
<1> PICK m \in Nat : \E F \in [1 .. m -> Clusters] : IsChain(m, F) /\ HasRoom(m) /\ HasData(F)
  BY <1>2, <1>5 DEF DInv, FileWritten
<1> PICK F \in [1 .. m -> Clusters] : IsChain(m, F) /\ HasRoom(m) /\ HasData(F)
  OBVIOUS
<1>9. CASE op.left = 0
  <2>1. op' = NoCall /\ fil' = fil
    BY <1>9 DEF Chunk
  <2>2. op'.call = "none" /\ op'.pc = "idle"
    BY <2>1, NoCallIs
  <2>3. Growing' /\ ~PendingLink' /\ ~Writing' /\ ~Linking'
    BY <2>2, NoGrowth DEF PendingLink, Writing, Linking
  <2>4. \A k \in Nat : HasRoom(k) => HasRoom(k)'
    BY <1>1, <1>5, <2>1, <2>2, <2>3 DEF HasRoom
  <2>5. FileWritten'
    BY <1>1, <1>2, <1>5, <1>6, <1>7, <1>8, <2>1, <2>2, <2>3, <2>4, FileStill
  <2>6. Numbered'
    BY <1>4, <2>1, <2>2, NumberedStays
  <2> QED
    BY <1>8, <2>3, <2>5, <2>6 DEF DInv
<1>10. CASE op.left # 0 /\ fil.size % Units = 0
  <2>1. op' = [op EXCEPT !.pc = "chain", !.clst = fil.clust] /\ fil' = fil
    BY <1>10 DEF Chunk, Go
  <2>2. op'.call = "write" /\ op'.pc = "chain" /\ op'.clst = fil.clust /\ op'.left = op.left
    BY <1>1, <1>2, <2>1 DEF OpType, FilType
  <2>3. ~PendingLink' /\ ~Writing'
    BY <2>2 DEF PendingLink, Writing
  <2>4. fil.clust # 0 => Link(Vol', fil.clust) \notin Clusters
    BY <1>2, <1>6 DEF IsChain
  <2>5. Growing'
    BY <2>2, <2>4 DEF Growing
  <2>6. \A k \in Nat : HasRoom(k) => HasRoom(k)'
    BY <1>1, <1>5, <1>10, <2>1, <2>2, <2>3 DEF HasRoom
  <2>7. FileWritten'
    BY <1>1, <1>2, <1>5, <1>6, <1>7, <1>8, <2>1, <2>2, <2>3, <2>6, FileStill
  <2>8. Numbered'
    BY <1>1, <1>4, <2>1, <2>2, NumberedStays
  <2> QED
    BY <1>8, <2>5, <2>7, <2>8 DEF DInv
<1>11. CASE op.left # 0 /\ fil.size % Units # 0
  <2> DEFINE r == fil.size % Units
             w == Least(Units - r, op.left)
  <2>1. /\ fil' = [fil EXCEPT !.buf = Filled(w), !.dirty = TRUE, !.size = @ + w]
        /\ op' = [op EXCEPT !.left = @ - w]
    BY <1>11 DEF Chunk
  <2>2. r \in 0 .. Units - 1 /\ r # 0
    BY <1>3, <1>11, Division
  <2>3. w \in Nat /\ w <= Units - r /\ w # 0
    BY <1>3, <1>11, <2>2 DEF Least
  <2>4. /\ \A x \in 1 .. Units - r : Tail(fil.size + x) = Tail(fil.size) /\ (fil.size + x - 1) % Units = r + x - 1
        /\ \A k \in 1 .. fil.size : Tail(k) = Tail(fil.size) => (k - 1) % Units < r
    BY <1>3, <1>11, TailPart
  <2>5. \A u \in 1 .. Units : Filled(w)[u] = IF u - 1 - r \in 0 .. w - 1
                                             THEN <<fil.ver, fil.size - r + u>> ELSE fil.buf[u]
    BY DEF Filled
  <2>6. fil.dirty
    BY <1>1, <1>11 DEF HasData
  <2>7. fil.size # 0 /\ fil.sect = F[Tail(fil.size) + 1]
    BY <2>6 DEF HasData
  <2> HIDE DEF w, r
  <2>8. op'.pc = "chunk" /\ op'.call = "write"
    BY <1>1, <1>2, <2>1 DEF OpType
  <2>9. /\ fil'.ver = fil.ver /\ fil'.buf = Filled(w) /\ fil'.size = fil.size + w /\ fil'.dirty
        /\ fil'.clust = fil.clust /\ fil'.sclust = fil.sclust /\ fil'.stop = fil.stop
        /\ fil'.open = fil.open /\ fil'.sect = fil.sect
    BY <1>2, <2>1 DEF FilType
  <2>10. Tail(fil'.size) = Tail(fil.size) /\ fil'.size \in Nat /\ fil'.size # 0
    <3>1. w \in 1 .. Units - r
      BY <1>3, <2>2, <2>3
    <3> QED
      BY <1>3, <2>3, <2>4, <2>9, <3>1
  <2>11. ~PendingLink' /\ ~Writing' /\ ~Linking' /\ Growing'
    BY <2>8, NoGrowth DEF PendingLink, Writing, Linking
  <2>12. IsChain(m, F)'
    BY <1>5, <1>7, <1>8, <2>9, <2>11, ChainStays
  <2>13. HasRoom(m)'
    BY <1>1, <1>5, <2>8, <2>9, <2>10, <2>11 DEF HasRoom
  <2>14. ASSUME NEW k \in 1 .. fil.size + w PROVE Piece(F, k)' = <<fil.ver, k>>
    <3>1. CASE k \in 1 .. fil.size
      <4>1. Piece(F, k) = <<fil.ver, k>> /\ (k - 1) % Units \in 0 .. Units - 1
        BY <1>3, <3>1, PieceAt DEF HasData
      <4>2. CASE Tail(k) = Tail(fil.size)
        <5> DEFINE u == ((k - 1) % Units) + 1
        <5>1. (k - 1) % Units < r
          BY <2>4, <3>1, <4>2
        <5>2. u \in 1 .. Units /\ u - 1 - r \notin 0 .. w - 1
          BY <1>3, <2>2, <4>1, <5>1
        <5>3. Piece(F, k)' = Filled(w)[u] /\ Piece(F, k) = fil.buf[u]
          BY <2>6, <2>9, <2>10, <4>2 DEF Piece
        <5> HIDE DEF u
        <5> QED
          BY <2>5, <4>1, <5>2, <5>3
      <4>3. CASE Tail(k) # Tail(fil.size)
        <5>1. Piece(F, k)' = Piece(F, k)
          BY <1>6, <2>10, <4>3 DEF Piece
        <5> QED
          BY <4>1, <5>1
      <4> QED
        BY <4>2, <4>3
    <3>2. CASE k \notin 1 .. fil.size
      <4> PICK x \in 1 .. w : k = fil.size + x
        BY <1>3, <2>3, <3>2, Beyond
      <4>1. x \in 1 .. Units - r /\ x \in Nat
        BY <1>3, <2>2, <2>3
      <4>2. Tail(k) = Tail(fil.size) /\ (k - 1) % Units = r + x - 1
        BY <1>3, <2>4, <4>1
      <4> DEFINE u == ((k - 1) % Units) + 1
      <4>3. u = r + x
        BY <1>3, <2>2, <4>1, <4>2
      <4>4. Piece(F, k)' = Filled(w)[u]
        BY <2>9, <2>10, <4>2 DEF Piece
      <4> HIDE DEF u
      <4>5. u \in 1 .. Units /\ u - 1 - r \in 0 .. w - 1 /\ fil.size - r + u = k
        BY <1>3, <2>2, <2>3, <4>1, <4>3
      <4> QED
        BY <2>5, <4>4, <4>5
    <3> QED
      BY <3>1, <3>2
  <2>15. HasData(F)'
    BY <2>7, <2>8, <2>9, <2>10, <2>14 DEF HasData
  <2>16. FileWritten'
    BY <2>12, <2>13, <2>15 DEF FileWritten
  <2>17. Numbered'
    BY <1>1, <1>4, <2>8, <2>9, NumberedStays
  <2> QED
    BY <1>8, <2>11, <2>16, <2>17 DEF DInv
<1> QED
  BY <1>9, <1>10, <1>11

(***************************************************************************)
(* FSInfo, the end of a call, and the window on its way to the disk.       *)
(***************************************************************************)
LEMMA InfoStays ==
    ASSUME NEW v, NEW w, \A s \in Sectors \ {Info} : w[s] = v[s]
    PROVE  Stays(v, w)
<1>1. \A c \in Clusters : w[c] = v[c] /\ Link(w, c) = Link(v, c)
  BY SectorFacts DEF Link
<1> QED
  BY <1>1 DEF Stays, SameEntries, Steady, Entry

LEMMA InfoWhole ==
    ASSUME IInv, CInv, DInv, At("sync"), op' = op, fil' = fil, spent'.calls = spent.calls,
           \A s \in Sectors \ {Info} : Vol'[s] = disk[s] /\ disk'[s] = disk[s]
    PROVE  DInv'
<1>1. op.pc = "sync" /\ op.call \in {"mkdir", "unlink", "close"} /\ ~win.dirty
  BY SyncIs
<1>2. Remains
  BY InfoStays DEF Remains, Volumes
<1>3. \A v \in Volumes' : FilesWhole(v, spent'.calls)
  BY <1>2, Remain DEF DInv, CInv, Typed, SpentOK
<1>4. fil.open => Closed'
  BY <1>1 DEF Closed, IInv, Control, FileInv
<1>5. Growing'
  BY <1>1, NoGrowth
<1>6. Numbered'
  BY NumberedStays
<1> QED
  BY <1>3, <1>4, <1>5, <1>6 DEF DInv

LEMMA PutInfoWhole == ASSUME IInv, CInv, CInv', DInv, PutInfo PROVE DInv'
<1> DEFINE info == [free |-> fs.free, last |-> fs.last]
<1>1. /\ At("sync") /\ op' = op /\ fil' = fil /\ spent' = spent /\ win'.sect = Info
      /\ disk' = [disk EXCEPT ![Info] = info]
  BY DEF PutInfo
<1> HIDE DEF info
<1>2. \A s \in Sectors \ {Info} : Vol'[s] = disk[s] /\ disk'[s] = disk[s]
  BY <1>1 DEF Vol
<1> QED
  BY <1>1, <1>2, InfoWhole

LEMMA SyncedWhole == ASSUME IInv, CInv, CInv', DInv, Synced PROVE DInv'
<1>1. /\ op.pc = "sync" /\ op.call \in {"mkdir", "unlink", "close"}
      /\ op' = NoCall /\ UNCHANGED <<disk, win, spent>>
      /\ fil' = IF op.call = "close" THEN NoFile ELSE fil
  BY SyncIs DEF Synced
<1>2. Vol' = Vol /\ disk' = disk
  BY <1>1 DEF Vol
<1>3. \A v \in Volumes' : FilesWhole(v, spent'.calls)
  BY <1>1, <1>2 DEF DInv, Volumes
<1>4. ~fil'.open
  <2>1. ~NoFile.open
    BY DEF NoFile
  <2> QED
    BY <1>1, <2>1 DEF IInv, Control, FileInv
<1>5. op'.call = "none" /\ op'.pc = "idle"
  BY <1>1, NoCallIs
<1>6. Growing' /\ Numbered'
  BY <1>4, <1>5, NoGrowth DEF Numbered, Idle
<1> QED
  BY <1>3, <1>4, <1>6 DEF DInv

LEMMA SyncWindowWhole == ASSUME IInv, CInv, CInv', DInv, SyncWindow PROVE DInv'
<1>1. /\ win.dirty /\ disk' = [disk EXCEPT ![win.sect] = win.buf]
      /\ win' = [win EXCEPT !.dirty = FALSE] /\ UNCHANGED <<op, fil, spent>>
  BY DEF SyncWindow
<1>2. win.sect \in FatSectors \cup Clusters /\ win.sect \in Sectors
  BY <1>1, SectorFacts DEF IInv, WinInv
<1>3. disk' = Vol
  BY <1>1, <1>2, VolIsOver DEF IInv, Over
<1>4. win'.sect = win.sect /\ win'.buf = win.buf /\ win'.dirty = FALSE
  BY <1>1 DEF IInv, WinInv
<1>5. Vol' = Vol
  BY <1>3, <1>4 DEF Vol
<1>6. Remains /\ SameLinks(Vol, Vol') /\ Views' = {Vol} /\ Volumes' = {Vol} /\ Vol \in Views /\ Vol \in Volumes
  BY <1>3, <1>5, SeenBefore DEF SameLinks, Volumes, Views
<1>7. spent.calls \in Nat /\ spent'.calls = spent.calls
  BY <1>1 DEF CInv, Typed, SpentOK
<1>8. (\A v \in Volumes' : FilesWhole(v, spent'.calls)) /\ UnfiledStays
  BY <1>6, <1>7, Remain DEF DInv
<1>9. Growing'
  BY <1>1, <1>4, <1>5, <1>6 DEF DInv, Growing
<1>10. Numbered' /\ (Closed' <=> Closed) /\ (PendingLink' <=> PendingLink)
  BY <1>1, <1>7, NumberedStays DEF Closed, PendingLink, Linking
<1>11. ASSUME fil.open, ~Closed PROVE FileWritten'
  <2>1. ASSUME fil.sclust # 0 PROVE \A x \in Clusters : disk'[x].data = disk[x].data
    <3>1. win.sect \notin Clusters
      BY <1>11, <2>1 DEF IInv, WindowInv, Unentered, Closed
    <3> QED
      BY <1>1, <3>1
  <2>2. \A m \in Nat : HasRoom(m) => HasRoom(m)'
    BY <1>1 DEF HasRoom, Writing, Linking
  <2>3. \A x \in Clusters : Link(disk', x) = Link(Vol', x)
    BY <1>3, <1>5
  <2> QED
    BY <1>1, <1>6, <1>8, <1>10, <1>11, <2>1, <2>2, <2>3, FileStill
<1> QED
  BY <1>1, <1>8, <1>9, <1>10, <1>11 DEF DInv

(***************************************************************************)
(* The faults and the power.                                               *)
(***************************************************************************)
LEMMA FaultWhole == ASSUME IInv, CInv, CInv', DInv, DiskFault PROVE DInv'
<1>1. disk' = disk /\ spent' = [spent EXCEPT !.faults = @ + 1]
  BY DEF DiskFault
<1>2. spent'.calls = spent.calls
  BY <1>1 DEF CInv, Typed, SpentOK
<1>3. CASE FlushFails \/ DataFails \/ SyncFails
  <2>1. op' = Undone /\ StopFile /\ win' = win
    BY <1>3 DEF FlushFails, DataFails, SyncFails, GiveUp
  <2>2. Vol' = Vol
    BY <1>1, <2>1 DEF Vol
  <2>3. Remains /\ SameLinks(Vol, Vol')
    BY <1>1, <2>2, SeenBefore DEF SameLinks, Volumes
  <2> QED
    BY <1>1, <1>2, <2>1, <2>3, StopWhole
<1>4. CASE ReadFails
  <2>1. op' = Undone /\ StopFile /\ ~win.dirty /\ win' = [win EXCEPT !.sect = NoSector]
    BY <1>4 DEF ReadFails, GiveUp
  <2>2. win'.sect = NoSector
    BY <2>1 DEF IInv, WinInv
  <2>3. Vol' = disk
    BY <1>1, <2>2, SectorFacts, VolIsOver DEF Vol, IInv
  <2>4. Remains /\ SameLinks(Vol, Vol')
    BY <1>1, <2>1, <2>3, SeenBefore DEF SameLinks, Volumes, CInv, Counted
  <2> QED
    BY <1>1, <1>2, <2>1, <2>4, StopWhole
<1>5. CASE ClearFails
  <2>1. /\ op' = Undone /\ StopFile /\ op.pc = "clear" /\ Ready
        /\ win'.sect = op.ncl /\ win'.buf = Blank
    BY <1>5 DEF ClearFails, At, GiveUp
  <2>2. ~win.dirty /\ op.ncl \in Clusters
    BY <2>1, WantedIs, CleanWindow DEF IInv, Control, Places, OpType
  <2>3. \A s \in Sectors : Vol'[s] = IF s = op.ncl THEN Blank ELSE disk[s]
    BY <1>1, <2>1 DEF Vol
  <2>4. Unfiled(disk, op.ncl)
    BY <2>1 DEF DInv, Growing, Volumes
  <2>5. Stays(disk, Vol')
    BY <2>2, <2>3, <2>4, SectorFacts, NoHeads, WriteStays DEF Head, Entry
  <2>6. Remains
    BY <1>1, <2>5, SameStays DEF Remains, Volumes
  <2>7. SameLinks(disk, Vol') /\ SameLinks(disk, Vol)
    BY <2>2, <2>3, SectorFacts DEF SameLinks, Link, CInv, Counted
  <2>8. SameLinks(Vol, Vol')
    BY <2>7 DEF SameLinks
  <2> QED
    BY <1>1, <1>2, <2>1, <2>6, <2>8, StopWhole
<1>6. CASE InfoFails
  <2>1. At("sync") /\ op' = op /\ fil' = fil /\ win'.sect = Info
    BY <1>6 DEF InfoFails
  <2>2. \A s \in Sectors \ {Info} : Vol'[s] = disk[s] /\ disk'[s] = disk[s]
    BY <1>1, <2>1 DEF Vol
  <2> QED
    BY <1>2, <2>1, <2>2, InfoWhole
<1> QED
  BY <1>3, <1>4, <1>5, <1>6 DEF DiskFault

LEMMA PowerWhole == ASSUME IInv, CInv, CInv', DInv, PowerLoss PROVE DInv'
<1>1. /\ disk' = disk /\ op' = NoCall /\ fil' = NoFile
      /\ win'.sect = Info /\ win'.buf = disk[Info]
      /\ spent' = [spent EXCEPT !.losses = @ + 1]
  BY DEF PowerLoss, Loaded
<1>2. Vol' = disk
  BY <1>1, VolIsOver DEF IInv, Vol
<1>3. spent'.calls = spent.calls
  BY <1>1 DEF CInv, Typed, SpentOK
<1>4. \A v \in Volumes' : FilesWhole(v, spent'.calls)
  BY <1>1, <1>2, <1>3 DEF DInv, Volumes
<1>5. ~fil'.open
  BY <1>1 DEF NoFile
<1>6. op'.call = "none" /\ op'.pc = "idle"
  BY <1>1, NoCallIs
<1>7. Growing' /\ Numbered'
  BY <1>5, <1>6, NoGrowth DEF Numbered, Idle
<1> QED
  BY <1>4, <1>5, <1>7 DEF DInv

(***************************************************************************)
(* What the user does.                                                     *)
(***************************************************************************)
LEMMA BeginWhole ==
    ASSUME IInv, CInv, CInv', DInv, NEW d \in Directories(Vol), NEW n \in Names, NEW new \in BOOLEAN,
           Open(d, n, new) \/ Mkdir(d, n) \/ Unlink(d, n)
    PROVE  DInv'
<1>1. PICK c \in {"open", "mkdir", "unlink"} :
          op' = OnName(c, d, n) \/ op' = [OnName(c, d, n) EXCEPT !.fresh = new]
  BY DEF Open, Mkdir, Unlink, Begin
<1>2. /\ UNCHANGED <<disk, win, fil>> /\ spent' = [spent EXCEPT !.calls = @ + 1] /\ ~fil.open
  BY DEF Open, Mkdir, Unlink, Begin
<1>3. op'.pc = "find"
  <2> DEFINE k == Call(c)
  <2>1. k \in [call : {"none", "open", "mkdir", "unlink", "write", "close"}, pc : {"idle"},
               d : Clusters, n : Names \cup {NoName}, fresh : BOOLEAN, t : Clusters,
               i : 1 .. Slots, clst : Clusters \cup {0}, ncl : Clusters \cup {0},
               dcl : Clusters \cup {0}, left : Nat, seen : {{}}]
    BY NoCallIs DEF Call
  <2> HIDE DEF k
  <2>2. \/ op' = [k EXCEPT !.pc = "find", !.d = d, !.n = n, !.t = d]
        \/ op' = [[k EXCEPT !.pc = "find", !.d = d, !.n = n, !.t = d] EXCEPT !.fresh = new]
    BY <1>1 DEF OnName, k
  <2> QED
    BY <2>1, <2>2
<1>4. Vol' = Vol /\ disk' = disk
  BY <1>2 DEF Vol
<1>5. Remains
  BY <1>4, SeenBefore DEF Volumes
<1>6. spent.calls \in Nat /\ spent'.calls = spent.calls + 1
  BY <1>2 DEF CInv, Typed, SpentOK
<1>7. \A v \in Volumes' : FilesWhole(v, spent'.calls)
  BY <1>5, <1>6, Remain DEF DInv
<1>8. Growing' /\ Numbered' /\ ~fil'.open
  BY <1>2, <1>3, <1>6, NoGrowth DEF Numbered
<1> QED
  BY <1>7, <1>8 DEF DInv

LEMMA FileCallWhole ==
    ASSUME IInv, CInv, CInv', DInv, Close \/ \E k \in 1 .. MaxSize : Write(k)
    PROVE  DInv'
<1>1. UNCHANGED <<disk, win, fil, spent>> /\ Idle /\ fil.open /\ op.call = "none" /\ op.pc = "idle"
  BY IdleIs DEF Close, Write, Idle, IInv
<1>2. \/ op'.pc = "spill" /\ op'.call = "close"
      \/ op'.pc = "chunk" /\ op'.call = "write" /\ ~fil.stop
  <2>1. CASE Close
    <3>1. op' = [NoCall EXCEPT !.call = "close", !.pc = "spill", !.d = fil.d, !.n = fil.n]
      BY <2>1, NoCallIs DEF Close, Call
    <3> QED
      BY <3>1, NoCallIs
  <2>2. CASE \E k \in 1 .. MaxSize : Write(k)
    <3>1. PICK k \in 1 .. MaxSize : Write(k)
      BY <2>2
    <3>2. op' = [NoCall EXCEPT !.call = "write", !.pc = "chunk", !.left = k] /\ ~fil.stop
      BY <3>1, NoCallIs DEF Write, Call
    <3> QED
      BY <3>2, NoCallIs
  <2> QED
    BY <2>1, <2>2
<1>3. Vol' = Vol /\ disk' = disk
  BY <1>1 DEF Vol
<1>4. Remains /\ SameLinks(Vol, Vol') /\ \A x \in Clusters : Link(disk', x) = Link(disk, x)
  BY <1>3, SeenBefore DEF Volumes, SameLinks
<1>5. spent.calls \in Nat /\ spent'.calls = spent.calls
  BY <1>1 DEF CInv, Typed, SpentOK
<1>6. (\A v \in Volumes' : FilesWhole(v, spent'.calls)) /\ UnfiledStays
  BY <1>4, <1>5, Remain DEF DInv
<1>7. ~Closed /\ ~PendingLink /\ ~PendingLink' /\ ~Writing /\ ~Writing' /\ ~Linking /\ ~Linking'
  BY <1>1, <1>2 DEF Closed, PendingLink, Writing, Linking
<1>8. \A m \in Nat : HasRoom(m) => HasRoom(m)'
  BY <1>1, <1>2, <1>7 DEF HasRoom
<1>9. FileWritten'
  BY <1>1, <1>2, <1>3, <1>4, <1>6, <1>7, <1>8, FileStill
<1>10. Growing'
  BY <1>2, NoGrowth
<1>11. spent'.calls # 0
  <2>1. fil.ver \in 1 .. spent.calls
    BY <1>1 DEF DInv, Numbered
  <2> QED
    BY <1>5, <2>1
<1>12. Numbered'
  BY <1>1, <1>5, <1>11 DEF DInv, Numbered
<1> QED
  BY <1>6, <1>9, <1>10, <1>12 DEF DInv

LEMMA QuietWhole ==
    ASSUME IInv, CInv, CInv', DInv, UNCHANGED vars \/ \E d \in Directories(Vol) : Chdir(d)
    PROVE  DInv'
<1>1. UNCHANGED <<disk, win, op, fil, spent>>
  BY DEF Chdir, vars
<1>2. Vol' = Vol /\ Views' = Views /\ Volumes' = Volumes
  BY <1>1 DEF Vol, Views, Volumes
<1>3. FileWritten' <=> FileWritten
  BY <1>1, <1>2 DEF FileWritten, IsChain, HasRoom, HasData, Piece, Linking, Writing
<1>4. (Growing' <=> Growing) /\ (Numbered' <=> Numbered) /\ (Closed' <=> Closed)
  BY <1>1, <1>2 DEF Growing, Numbered, Closed, Idle
<1> QED
  BY <1>1, <1>2, <1>3, <1>4 DEF DInv

(***************************************************************************)
(* No file is mixed.                                                       *)
(***************************************************************************)
LEMMA InitiallyWhole == ASSUME Clean, Init PROVE DInv
<1>1. /\ disk = Formatted /\ op = NoCall /\ fil = NoFile
      /\ win.sect = Info /\ win.buf = disk[Info]
  BY DEF Init, Loaded
<1>2. /\ disk = [s \in Sectors |-> disk[s]]
      /\ \A t \in Clusters, i \in 1 .. Slots : Head(disk, t, i) = 0
  BY <1>1, FormattedIs DEF Shaped
<1>3. Vol = disk
  BY <1>1, <1>2 DEF Vol
<1>4. op.call = "none" /\ op.pc = "idle" /\ ~fil.open
  BY <1>1, NoCallIs DEF NoFile
<1>5. Growing /\ Numbered
  BY <1>4 DEF Growing, Numbered, Idle
<1>6. \A v \in Volumes : FilesWhole(v, spent.calls)
  BY <1>2, <1>3 DEF Volumes, FilesWhole
<1> QED
  BY <1>4, <1>5, <1>6 DEF DInv

LEMMA WholeKept == ASSUME IInv, CInv, DInv, [Next]_vars PROVE DInv'
<1>1. CInv'
  BY CountsKept
<1>2. CASE CallStep
  BY <1>1, <1>2, FindWhole, FindNextWhole, EmptyWhole, RegisterWhole, FullTableWhole,
     AllocNextWhole, ResetWhole, BackWhole, DropWhole, FreeWhole, AllocateWhole, LinkItWhole,
     FullWhole, ClearWhole, ChunkWhole, SpillWhole, DataWhole, PutEntryWhole, PutInfoWhole,
     SyncedWhole, SyncWindowWhole
     DEF CallStep
<1>3. CASE User
  <2>1. CASE \E d \in Directories(Vol), n \in Names :
                 \/ \E new \in BOOLEAN : Open(d, n, new)
                 \/ Mkdir(d, n)
                 \/ Unlink(d, n)
    BY <1>1, <2>1, BeginWhole
  <2>2. CASE \E d \in Directories(Vol) : Chdir(d)
    BY <1>1, <2>2, QuietWhole
  <2>3. CASE Close \/ \E k \in 1 .. MaxSize : Write(k)
    BY <1>1, <2>3, FileCallWhole
  <2>4. CASE SyncWindow
    BY <1>1, <2>4, SyncWindowWhole
  <2> QED
    BY <1>3, <2>1, <2>2, <2>3, <2>4 DEF User
<1>4. CASE DiskFault
  BY <1>1, <1>4, FaultWhole
<1>5. CASE PowerLoss
  BY <1>1, <1>5, PowerWhole
<1>6. CASE UNCHANGED vars
  BY <1>1, <1>6, QuietWhole
<1> QED
  BY <1>2, <1>3, <1>4, <1>5, <1>6 DEF Next

LEMMA WholeIsNotMixed == ASSUME IInv, CInv, DInv PROVE NotMixed
<1>1. Tables(disk) \subseteq Clusters
  BY DEF Tables, Chain
<1> SUFFICES ASSUME NEW p \in Heads(disk), NEW e, e = Entry(disk, p[1], p[2])
             PROVE  /\ e.dir => disk[e.clst].dots
                    /\ (~e.dir /\ e.size > 0) =>
                          \E w \in 1 .. spent.calls : \A k \in 1 .. e.size : Unit(disk, e, k) = <<w, k>>
  BY DEF NotMixed
<1> HIDE DEF Tables
<1>2. p[1] \in Clusters /\ p[2] \in 1 .. Slots /\ Head(disk, p[1], p[2]) # 0
  BY <1>1 DEF Heads, Head
<1>3. Whole(disk, e, spent.calls)
  BY <1>2 DEF DInv, Volumes, FilesWhole
<1> QED
  BY <1>3 DEF Whole

\* What is on the disk under a name is the beginning of one save, or a
\* directory with its dot entries: f_write puts the data, and dir_clear the
\* table, on the disk before f_sync and f_mkdir put the entry in the window,
\* and no cluster that an entry leads to is written past the window
\* (ff.c f_open, f_write, f_sync, f_mkdir, create_chain, remove_chain).
THEOREM NothingMixed == ASSUME Clean PROVE Spec => []NotMixed
<1>1. Init => IInv /\ CInv /\ DInv
  BY Initially, InitiallyCounted, InitiallyWhole
<1>2. IInv /\ CInv /\ DInv /\ [Next]_vars => IInv' /\ CInv' /\ DInv'
  BY Kept, CountsKept, WholeKept
<1>3. IInv /\ CInv /\ DInv => NotMixed
  BY WholeIsNotMixed
<1> QED
  BY <1>1, <1>2, <1>3, PTL DEF Spec

(***************************************************************************)
(* NoLostCluster, while nothing has failed.  A cluster is in the tree when *)
(* links and entries of directories lead to it from the root, and owned    *)
(* when links and entries do, from the root or from what the running call  *)
(* or the open file holds.  Both are said of the sets that are closed.     *)
(***************************************************************************)
TreeSet(v, S) ==
    /\ S \subseteq Clusters /\ Root \in S
    /\ \A x \in S : /\ Link(v, x) \in Clusters => Link(v, x) \in S
                    /\ \A i \in 1 .. Slots : Entry(v, x, i).dir => Head(v, x, i) \in S
OwnSet(v, H, S) ==
    /\ S \subseteq Clusters /\ Root \in S /\ H \subseteq S
    /\ \A x \in S : /\ Link(v, x) \in Clusters => Link(v, x) \in S
                    /\ \A i \in 1 .. Slots : Head(v, x, i) # 0 => Head(v, x, i) \in S

InTree(v, c)   == \A S \in SUBSET Clusters : TreeSet(v, S) => c \in S
Owned(v, H, c) == \A S \in SUBSET Clusters : OwnSet(v, H, S) => c \in S
Bare(v, c)     == \A i \in 1 .. Slots : Head(v, c, i) = 0

SameGraph(v, w) ==
    /\ SameLinks(v, w) /\ SameHeads(v, w)
    /\ \A t \in Clusters, i \in 1 .. Slots : Entry(w, t, i).dir = Entry(v, t, i).dir
SameTables(v, w) ==
    SameLinks(v, w) /\ \A t \in Clusters, i \in 1 .. Slots : Entry(w, t, i) = Entry(v, t, i)

\* Neither a fault nor a power loss so far.
Plain == spent.faults = 0 /\ spent.losses = 0

\* The clusters that only the running call or the open file knows of.
Held == {x \in Clusters :
    \/ Unentered /\ x = fil.sclust
    \/ op.pc = "free" /\ x = op.clst
    \/ op.pc = "link" /\ x = op.ncl
    \/ /\ op.call = "mkdir" /\ op.pc \in {"alloc", "alloc_next", "chain", "link", "clear"}
       /\ x = op.dcl}

\* The directory a call works in, and the room it makes there, are in the tree.
Path(v, o, f) ==
    /\ (o.pc \in {"find", "find_next", "alloc", "alloc_next", "chain", "link", "clear"}
           /\ o.call # "write") => InTree(v, o.d) /\ InTree(v, o.t)
    /\ o.call = "open" /\ o.pc \in {"reset", "free", "back"} => InTree(v, o.t)
    /\ o.pc \in {"chain", "link"} /\ o.call # "write" /\ o.clst # 0 => InTree(v, o.clst)
    /\ o.pc = "clear" /\ o.ncl # o.dcl => InTree(v, o.ncl)
    /\ o.pc \in {"link", "clear"} => Bare(v, o.ncl)
    /\ o.pc = "chain" /\ (o.call = "open" \/ (o.call = "mkdir" /\ o.dcl # 0)) => o.clst # 0
    /\ o.pc \in {"find", "find_next"} => o.seen = {}
    /\ o.call \in {"open", "mkdir"} => o.n \in Names
    /\ o.pc \in {"reset", "back"} => o.call = "open"
    /\ o.call = "open" /\ o.pc \in {"free", "back"} => Head(v, o.t, o.i) = 0
    /\ f.open => InTree(v, f.t) /\ f.n \in Names
    /\ f.open /\ o.pc # "sync" => Head(v, f.t, f.i) = 0

\* What f_unlink has seen of the directory, which is all of it in the end.
Within(v, S, T) == \A y \in S : Link(v, y) \in Clusters => Link(v, y) \in T
Emptied(v, o) ==
    /\ o.pc \in {"empty", "empty_next", "drop"} =>
          o.seen \subseteq Clusters /\ \A y \in o.seen : Bare(v, y)
    /\ o.pc = "empty" =>
          o.dcl \in o.seen \cup {o.clst} /\ Within(v, o.seen, o.seen \cup {o.clst})
    /\ o.pc = "empty_next" =>
          {o.dcl, o.clst} \subseteq o.seen /\ Within(v, o.seen \ {o.clst}, o.seen)
    /\ o.pc = "drop" /\ Entry(v, o.t, o.i).dir =>
          o.clst \in o.seen /\ Within(v, o.seen, o.seen)
    /\ o.pc = "reset" => ~Entry(v, o.t, o.i).dir

\* An entry that is in use is in the tree, a free one names nothing.
EntriesKept(v) ==
    \A t \in Clusters, i \in 1 .. Slots :
        Head(v, t, i) # 0 => InTree(v, t) /\ Entry(v, t, i).name # NoName

Owning(v, H) == \A c \in Clusters : Link(v, c) # 0 => Owned(v, H, c)

\* The window shows what is on the disk, unless it is dirty.
Mirror == ~win.dirty => SameTables(disk, Vol)

KInv ==
    /\ Mirror
    /\ Owning(Vol, Held) /\ EntriesKept(Vol)
    /\ Path(Vol, op, fil) /\ Emptied(Vol, op)
EInv == Plain => KInv

(***************************************************************************)
(* What a change of the volume leaves in the tree and owned.               *)
(***************************************************************************)
LEMMA TablesGraph == ASSUME NEW v, NEW w, SameTables(v, w) PROVE SameGraph(v, w)
  BY DEF SameTables, SameGraph, SameHeads, Head

LEMMA SameTree ==
    ASSUME NEW v, NEW w, SameGraph(v, w)
    PROVE  /\ \A c : InTree(v, c) => InTree(w, c)
           /\ \A H, c : Owned(v, H, c) => Owned(w, H, c)
           /\ \A c \in Clusters : Bare(v, c) => Bare(w, c)
           /\ \A S \in SUBSET Clusters : \A T : Within(v, S, T) => Within(w, S, T)
<1>1. \A c \in Clusters : Link(w, c) = Link(v, c)
  BY DEF SameGraph, SameLinks
<1>2. \A t \in Clusters, i \in 1 .. Slots :
          Head(w, t, i) = Head(v, t, i) /\ Entry(w, t, i).dir = Entry(v, t, i).dir
  BY DEF SameGraph, SameHeads
<1>3. ASSUME NEW S, TreeSet(w, S) PROVE TreeSet(v, S)
  BY <1>1, <1>2, <1>3 DEF TreeSet
<1>4. ASSUME NEW H, NEW S, OwnSet(w, H, S) PROVE OwnSet(v, H, S)
  BY <1>1, <1>2, <1>4 DEF OwnSet
<1>5. \A c : InTree(v, c) => InTree(w, c)
  BY <1>3 DEF InTree
<1>6. \A H, c : Owned(v, H, c) => Owned(w, H, c)
  BY <1>4 DEF Owned
<1>7. \A c \in Clusters : Bare(v, c) => Bare(w, c)
  BY <1>2 DEF Bare
<1>8. \A S \in SUBSET Clusters : \A T : Within(v, S, T) => Within(w, S, T)
  BY <1>1 DEF Within
<1> QED
  BY <1>5, <1>6, <1>7, <1>8

LEMMA HoldMore ==
    ASSUME NEW v, NEW H, NEW G, H \subseteq G, Owning(v, H) PROVE Owning(v, G)
<1>1. ASSUME NEW S, OwnSet(v, G, S) PROVE OwnSet(v, H, S)
  BY <1>1 DEF OwnSet
<1> QED
  BY <1>1 DEF Owning, Owned

\* Directories that are in the tree.
LEMMA RootInTree == ASSUME NEW v PROVE InTree(v, Root)
  BY DEF InTree, TreeSet

LEMMA TreeLink ==
    ASSUME NEW v, NEW c, InTree(v, c), Link(v, c) \in Clusters PROVE InTree(v, Link(v, c))
  BY DEF InTree, TreeSet

LEMMA TreeEntry ==
    ASSUME NEW v, NEW c, NEW i \in 1 .. Slots, InTree(v, c), Entry(v, c, i).dir
    PROVE  InTree(v, Head(v, c, i))
  BY DEF InTree, TreeSet


\* Entries of directories name clusters.
LEMMA DirHead ==
    ASSUME NEW v, Shaped(v), NEW t \in Clusters, NEW i \in 1 .. Slots, Entry(v, t, i).dir
    PROVE  Head(v, t, i) \in Clusters
<1>1. EntryOK(Entry(v, t, i))
  BY EntriesOK
<1> QED
  BY <1>1 DEF EntryOK, Head

\* A cluster nothing refers to is not in the tree and has no entries that
\* name anything.
LEMMA LooseOut == ASSUME NEW v, Shaped(v), NEW c, Loose(v, c) PROVE ~InTree(v, c)
<1> DEFINE S == Clusters \ {c}
<1>1. c \in Clusters \ {Root}
  BY DEF Loose
<1>2. \A x \in S, j \in 1 .. Slots : Entry(v, x, j).dir => Head(v, x, j) \in S
  BY DirHead DEF Loose
<1>3. TreeSet(v, S)
  BY <1>1, <1>2, ClusterFacts DEF TreeSet, Loose
<1> QED
  BY <1>3 DEF InTree

LEMMA LooseBare ==
    ASSUME NEW v, Shaped(v), EntriesKept(v), NEW c, Loose(v, c) PROVE Bare(v, c)
<1>1. c \in Clusters /\ ~InTree(v, c)
  BY LooseOut DEF Loose
<1> QED
  BY <1>1 DEF Bare, EntriesKept

(***************************************************************************)
(* One link is set, or one entry.                                          *)
(***************************************************************************)
LinkPut(v, w, c, x) ==
    /\ \A y \in Clusters : Link(w, y) = IF y = c THEN x ELSE Link(v, y)
    /\ \A t \in Clusters, i \in 1 .. Slots : Entry(w, t, i) = Entry(v, t, i)
EntryPut(v, w, t, i, e) ==
    /\ SameLinks(v, w)
    /\ \A s \in Clusters, j \in 1 .. Slots :
          Entry(w, s, j) = IF s = t /\ j = i THEN e ELSE Entry(v, s, j)

LEMMA PutHeads ==
    ASSUME NEW v, NEW w, NEW c, NEW x, LinkPut(v, w, c, x)
    PROVE  \A t \in Clusters, i \in 1 .. Slots :
               Head(w, t, i) = Head(v, t, i) /\ Entry(w, t, i).dir = Entry(v, t, i).dir
  BY DEF LinkPut, Head

LEMMA KeptEntries ==
    ASSUME NEW v, NEW w, EntriesKept(v),
           \A t \in Clusters, i \in 1 .. Slots : Entry(w, t, i) = Entry(v, t, i),
           \A t \in Clusters : InTree(v, t) /\ ~Bare(v, t) => InTree(w, t)
    PROVE  EntriesKept(w)
<1> SUFFICES ASSUME NEW t \in Clusters, NEW i \in 1 .. Slots, Head(w, t, i) # 0
             PROVE  InTree(w, t) /\ Entry(w, t, i).name # NoName
  BY DEF EntriesKept
<1>1. Head(v, t, i) # 0
  BY DEF Head
<1>2. ~Bare(v, t)
  BY <1>1 DEF Bare
<1> QED
  BY <1>1, <1>2 DEF EntriesKept

\* create_chain marks a cluster.
LEMMA MarkHeld ==
    ASSUME NEW v, NEW w, NEW c \in Clusters, NEW H, NEW G, Link(v, c) = 0,
           LinkPut(v, w, c, EndOfChain), Owning(v, H), EntriesKept(v), H \cup {c} \subseteq G
    PROVE  Owning(w, G) /\ EntriesKept(w) /\ \A x : InTree(v, x) => InTree(w, x)
<1>1. \A t \in Clusters, i \in 1 .. Slots :
          Head(w, t, i) = Head(v, t, i) /\ Entry(w, t, i).dir = Entry(v, t, i).dir
  BY PutHeads
<1>2. \A y \in Clusters : y # c => Link(w, y) = Link(v, y)
  BY DEF LinkPut
<1>3. ASSUME NEW S, TreeSet(w, S) PROVE TreeSet(v, S)
  BY <1>1, <1>2, <1>3, ClusterFacts DEF TreeSet
<1>4. ASSUME NEW S, OwnSet(w, G, S) PROVE OwnSet(v, H, S) /\ c \in S
  BY <1>1, <1>2, <1>4, ClusterFacts DEF OwnSet
<1>5. \A x : InTree(v, x) => InTree(w, x)
  BY <1>3 DEF InTree
<1>6. Owning(w, G)
  BY <1>2, <1>4 DEF Owning, Owned
<1>7. EntriesKept(w)
  BY <1>5, KeptEntries DEF LinkPut
<1> QED
  BY <1>5, <1>6, <1>7

\* create_chain links it.
LEMMA LinkHeld ==
    ASSUME NEW v, NEW w, NEW c \in Clusters, NEW n \in Clusters, NEW H, NEW G, c # n,
           Link(v, c) \notin Clusters \cup {0}, Link(v, n) \notin Clusters, Bare(v, n),
           LinkPut(v, w, c, n), Owning(v, H), EntriesKept(v), H \ {n} \subseteq G
    PROVE  /\ Owning(w, G) /\ EntriesKept(w) /\ \A x : InTree(v, x) => InTree(w, x)
           /\ InTree(v, c) => InTree(w, n)
<1>1. \A t \in Clusters, i \in 1 .. Slots :
          Head(w, t, i) = Head(v, t, i) /\ Entry(w, t, i).dir = Entry(v, t, i).dir
  BY PutHeads
<1>2. /\ \A y \in Clusters : y # c => Link(w, y) = Link(v, y)
      /\ Link(w, c) = n
  BY DEF LinkPut
<1>3. ASSUME NEW S, TreeSet(w, S) PROVE TreeSet(v, S)
  BY <1>1, <1>2, <1>3 DEF TreeSet
<1>4. \A x : InTree(v, x) => InTree(w, x)
  BY <1>3 DEF InTree
<1>5. InTree(v, c) => InTree(w, n)
  BY <1>2, <1>4, TreeLink
<1>6. ASSUME NEW S \in SUBSET Clusters, OwnSet(w, G, S), NEW y \in Clusters, Link(w, y) # 0 PROVE y \in S
  <2> DEFINE T == S \cup {n}
  <2>1. \A x \in T : /\ Link(v, x) \in Clusters => Link(v, x) \in T
                     /\ \A i \in 1 .. Slots : Head(v, x, i) # 0 => Head(v, x, i) \in T
    BY <1>1, <1>2, <1>6 DEF OwnSet, Bare
  <2>2. OwnSet(v, H, T)
    BY <1>6, <2>1 DEF OwnSet
  <2>3. Link(v, c) # 0 /\ Link(v, y) # 0
    BY <1>2, <1>6
  <2>4. T \in SUBSET Clusters
    OBVIOUS
  <2> HIDE DEF T
  <2>5. c \in T /\ y \in T
    BY <2>2, <2>3, <2>4 DEF Owning, Owned
  <2>6. c \in S
    BY <2>5 DEF T
  <2>7. n \in S
    BY <1>2, <1>6, <2>6 DEF OwnSet
  <2> QED
    BY <2>5, <2>7 DEF T
<1>7. Owning(w, G)
  BY <1>6 DEF Owning, Owned
<1>8. EntriesKept(w)
  BY <1>4, KeptEntries DEF LinkPut
<1> QED
  BY <1>4, <1>5, <1>7, <1>8

\* remove_chain frees a cluster; the next one is held.
LEMMA FreeHeld ==
    ASSUME NEW v, NEW w, NEW c, NEW H, NEW G, Shaped(v), Loose(v, c),
           LinkPut(v, w, c, 0), Owning(v, H), EntriesKept(v),
           H \ {c} \subseteq G, Link(v, c) \in Clusters => Link(v, c) \in G
    PROVE  Owning(w, G) /\ EntriesKept(w) /\ \A x : InTree(v, x) => InTree(w, x)
<1>1. \A t \in Clusters, i \in 1 .. Slots :
          Head(w, t, i) = Head(v, t, i) /\ Entry(w, t, i).dir = Entry(v, t, i).dir
  BY PutHeads
<1>2. c \in Clusters \ {Root} /\ Bare(v, c)
  BY LooseBare DEF Loose
<1>3. /\ \A y \in Clusters : y # c => Link(w, y) = Link(v, y)
      /\ Link(w, c) = 0
  BY <1>2 DEF LinkPut
<1>4. ASSUME NEW S, TreeSet(w, S) PROVE TreeSet(v, S \ {c})
  <2>1. \A x \in S \ {c}, j \in 1 .. Slots : Entry(v, x, j).dir => Head(v, x, j) \in S \ {c}
    BY <1>1, <1>4 DEF TreeSet, Loose
  <2>2. \A x \in S \ {c} : Link(v, x) \in Clusters => Link(v, x) \in S \ {c}
    BY <1>3, <1>4 DEF TreeSet, Loose
  <2> QED
    BY <1>2, <1>4, <2>1, <2>2 DEF TreeSet
<1>5. ASSUME NEW x, InTree(v, x) PROVE InTree(w, x)
  <2> SUFFICES ASSUME NEW S \in SUBSET Clusters, TreeSet(w, S) PROVE x \in S
    BY DEF InTree
  <2>1. TreeSet(v, S \ {c}) /\ S \ {c} \in SUBSET Clusters
    BY <1>4
  <2> QED
    BY <1>5, <2>1 DEF InTree
<1>6. ASSUME NEW S \in SUBSET Clusters, OwnSet(w, G, S), NEW y \in Clusters, Link(w, y) # 0 PROVE y \in S
  <2> DEFINE T == S \cup {c}
  <2>1. \A x \in T : /\ Link(v, x) \in Clusters => Link(v, x) \in T
                     /\ \A i \in 1 .. Slots : Head(v, x, i) # 0 => Head(v, x, i) \in T
    BY <1>1, <1>2, <1>3, <1>6 DEF OwnSet, Bare
  <2>2. OwnSet(v, H, T) /\ T \in SUBSET Clusters
    BY <1>2, <1>6, <2>1 DEF OwnSet
  <2>3. y # c /\ Link(v, y) # 0
    BY <1>3, <1>6
  <2> HIDE DEF T
  <2>4. y \in T
    BY <2>2, <2>3 DEF Owning, Owned
  <2> QED
    BY <2>3, <2>4 DEF T
<1>7. Owning(w, G)
  BY <1>6 DEF Owning, Owned
<1>8. EntriesKept(w)
  BY <1>5, KeptEntries DEF LinkPut
<1> QED
  BY <1>5, <1>7, <1>8

\* An entry that named nothing gets a cluster, or none.
LEMMA NameHeld ==
    ASSUME NEW v, NEW w, NEW t \in Clusters, NEW i \in 1 .. Slots, NEW e, NEW H, NEW G,
           H \subseteq Clusters, Shaped(v), Shaped(w), EntryPut(v, w, t, i, e), Head(v, t, i) = 0, InTree(v, t),
           e.clst # 0 => e.name # NoName,
           Owning(v, H), EntriesKept(v), H \ {e.clst} \subseteq G
    PROVE  Owning(w, G) /\ EntriesKept(w) /\ \A x : InTree(v, x) => InTree(w, x)
<1>1. \A y \in Clusters : Link(w, y) = Link(v, y)
  BY DEF EntryPut, SameLinks
<1>2. /\ Head(w, t, i) = e.clst
      /\ \A s \in Clusters, j \in 1 .. Slots :
            s # t \/ j # i => Entry(w, s, j) = Entry(v, s, j) /\ Head(w, s, j) = Head(v, s, j)
  BY DEF EntryPut, Head
<1>3. ~Entry(v, t, i).dir
  BY DirHead, ClusterFacts
<1>4. ASSUME NEW S, TreeSet(w, S) PROVE TreeSet(v, S)
  BY <1>1, <1>2, <1>3, <1>4 DEF TreeSet
<1>5. \A x : InTree(v, x) => InTree(w, x)
  BY <1>4 DEF InTree
<1>6. ASSUME NEW S \in SUBSET Clusters, OwnSet(w, G, S) PROVE OwnSet(v, H, S)
  <2>1. \A x \in S, j \in 1 .. Slots : Entry(w, x, j).dir => Head(w, x, j) \in S
    BY <1>6, DirHead, ClusterFacts DEF OwnSet
  <2>2. TreeSet(w, S)
    BY <1>6, <2>1 DEF OwnSet, TreeSet
  <2>3. t \in S
    BY <1>5, <2>2 DEF InTree
  <2>4. e.clst # 0 => e.clst \in S
    BY <1>2, <1>6, <2>3 DEF OwnSet
  <2>5. H \subseteq S
    BY <1>6, <2>4, ClusterFacts DEF OwnSet
  <2>6. \A x \in S, j \in 1 .. Slots : Head(v, x, j) # 0 => Head(v, x, j) \in S
    BY <1>2, <1>6 DEF OwnSet
  <2> QED
    BY <1>1, <1>6, <2>5, <2>6 DEF OwnSet
<1>7. Owning(w, G)
  BY <1>1, <1>6 DEF Owning, Owned
<1>8. EntriesKept(w)
  <2> SUFFICES ASSUME NEW s \in Clusters, NEW j \in 1 .. Slots, Head(w, s, j) # 0
               PROVE  InTree(w, s) /\ Entry(w, s, j).name # NoName
    BY DEF EntriesKept
  <2>1. CASE s = t /\ j = i
    BY <1>2, <1>5, <2>1 DEF EntryPut
  <2>2. CASE s # t \/ j # i
    BY <1>2, <1>5, <2>2 DEF EntriesKept
  <2> QED
    BY <2>1, <2>2
<1> QED
  BY <1>5, <1>7, <1>8

\* An entry is taken away: its cluster is held, and a directory had no entries.
LEMMA DropHeld ==
    ASSUME NEW v, NEW w, NEW t \in Clusters, NEW i \in 1 .. Slots, NEW e, NEW H, NEW G,
           NEW Q \in SUBSET Clusters, Shaped(v),
           EntryPut(v, w, t, i, e), e.clst = 0, ~e.dir,
           Entry(v, t, i).dir => Head(v, t, i) \in Q /\ Within(v, Q, Q) /\ \A y \in Q : Bare(v, y),
           Owning(v, H), EntriesKept(v), H \subseteq G, Head(v, t, i) # 0 => Head(v, t, i) \in G
    PROVE  /\ Owning(w, G) /\ EntriesKept(w)
           /\ ~Entry(v, t, i).dir => \A x : InTree(v, x) => InTree(w, x)
<1>1. \A y \in Clusters : Link(w, y) = Link(v, y)
  BY DEF EntryPut, SameLinks
<1>2. /\ Head(w, t, i) = 0 /\ ~Entry(w, t, i).dir
      /\ \A s \in Clusters, j \in 1 .. Slots :
            s # t \/ j # i => Entry(w, s, j) = Entry(v, s, j) /\ Head(w, s, j) = Head(v, s, j)
  BY DEF EntryPut, Head
<1>3. ASSUME NEW S \in SUBSET Clusters, OwnSet(w, G, S) PROVE OwnSet(v, H, S)
  BY <1>1, <1>2, <1>3 DEF OwnSet
<1>4. Owning(w, G)
  BY <1>1, <1>3 DEF Owning, Owned
<1> DEFINE D == Entry(v, t, i).dir
<1>5. ASSUME ~D, NEW x, InTree(v, x) PROVE InTree(w, x)
  <2>1. ASSUME NEW S, TreeSet(w, S) PROVE TreeSet(v, S)
    BY <1>1, <1>2, <1>5, <2>1 DEF TreeSet
  <2> QED
    BY <1>5, <2>1 DEF InTree
<1>6. ASSUME D, NEW x, InTree(v, x), x \notin Q PROVE InTree(w, x)
  <2> SUFFICES ASSUME NEW S \in SUBSET Clusters, TreeSet(w, S) PROVE x \in S
    BY DEF InTree
  <2> DEFINE T == S \cup Q
  <2> HIDE DEF D
  <2>0. D = Entry(v, t, i).dir
    BY DEF D
  <2>1. \A y \in S, j \in 1 .. Slots : Entry(v, y, j).dir => Head(v, y, j) \in T
    BY <1>2, <1>6, <2>0 DEF TreeSet
  <2>2. \A y \in Q, j \in 1 .. Slots : Entry(v, y, j).dir => Head(v, y, j) \in T
    <3> SUFFICES ASSUME NEW y \in Q, NEW j \in 1 .. Slots, Entry(v, y, j).dir PROVE FALSE
      OBVIOUS
    <3>1. Head(v, y, j) \in Clusters
      BY DirHead
    <3>2. Head(v, y, j) = 0
      BY <1>6, <2>0 DEF Bare
    <3> QED
      BY <3>1, <3>2, ClusterFacts
  <2>3. \A y \in T : Link(v, y) \in Clusters => Link(v, y) \in T
    BY <1>1, <1>6, <2>0 DEF TreeSet, Within
  <2>4. TreeSet(v, T)
    BY <2>1, <2>2, <2>3 DEF TreeSet
  <2>5. x \in T
    BY <1>6, <2>4 DEF InTree
  <2> QED
    BY <1>6, <2>5
<1>7. EntriesKept(w)
  <2> SUFFICES ASSUME NEW s \in Clusters, NEW j \in 1 .. Slots, Head(w, s, j) # 0
               PROVE  InTree(w, s) /\ Entry(w, s, j).name # NoName
    BY DEF EntriesKept
  <2>1. (s # t \/ j # i) /\ Head(v, s, j) # 0 /\ Entry(w, s, j) = Entry(v, s, j)
    BY <1>2
  <2>2. InTree(v, s) /\ Entry(w, s, j).name # NoName
    BY <2>1 DEF EntriesKept
  <2>3. D => s \notin Q
    BY <2>1 DEF Bare
  <2>4. InTree(w, s)
    BY <1>5, <1>6, <2>2, <2>3
  <2> QED
    BY <2>2, <2>4
<1> QED
  BY <1>4, <1>5, <1>7

(***************************************************************************)
(* What a step shows of the tables, while nothing has failed.              *)
(***************************************************************************)
LEMMA SameTablesAgain ==
    ASSUME NEW u, NEW v, NEW w, SameTables(u, v)
    PROVE  /\ SameTables(v, u)
           /\ SameTables(v, w) => SameTables(u, w)
  BY DEF SameTables, SameLinks

LEMMA ViewTables == ASSUME Mirror, NEW v \in Views PROVE SameTables(v, Vol)
<1>1. SameTables(Vol, Vol)
  BY DEF SameTables, SameLinks
<1> QED
  BY <1>1 DEF Views, Mirror

LEMMA VisitTables ==
    ASSUME IInv, NEW s \in Sectors, Movable(s), Visit(s), disk' = disk, Mirror
    PROVE  SameTables(Vol, Vol') /\ Mirror'
<1>1. (win.sect = s /\ Vol' = Vol) \/ (~win.dirty /\ Vol' = disk)
  BY VisitKeeps DEF IInv
<1>2. win'.dirty = (win.dirty /\ win.sect = s)
  BY DEF Visit
<1>3. SameTables(Vol, Vol) /\ SameTables(disk, disk)
  BY DEF SameTables, SameLinks
<1>4. CASE win.sect = s /\ Vol' = Vol
  <2>1. win'.dirty = win.dirty
    BY <1>2, <1>4 DEF IInv, WinInv
  <2> QED
    BY <1>3, <1>4, <2>1 DEF Mirror
<1>5. CASE ~win.dirty /\ Vol' = disk
  <2>1. SameTables(Vol, disk)
    BY <1>5, SameTablesAgain DEF Mirror
  <2> QED
    BY <1>3, <1>5, <2>1 DEF Mirror
<1> QED
  BY <1>1, <1>4, <1>5

LEMMA LinkTables ==
    ASSUME IInv, CInv, Mirror, NEW c \in Clusters, NEW x \in Links, SetLink(c, x), Movable(FatOf[c]),
           disk' = disk
    PROVE  LinkPut(Vol, Vol', c, x) /\ Mirror'
<1> PICK v \in Views : /\ \A s \in Clusters : Vol'[s] = v[s]
                       /\ LinkIs(v, Vol', c, x)
                       /\ SameLinks(v, Vol)
  BY LinkSees
<1>1. SameTables(v, Vol)
  BY ViewTables
<1>2. \A t \in Clusters, i \in 1 .. Slots : Entry(Vol', t, i) = Entry(Vol, t, i)
  BY <1>1 DEF SameTables, Entry
<1>3. \A y \in Clusters : Link(Vol', y) = IF y = c THEN x ELSE Link(Vol, y)
  BY DEF LinkIs, SameLinks
<1>4. win'.dirty
  BY DEF SetLink, Edit
<1> QED
  BY <1>2, <1>3, <1>4 DEF LinkPut, Mirror

LEMMA EntryTables ==
    ASSUME IInv, Mirror, NEW t \in Clusters, NEW i \in 1 .. Slots, NEW e, EntryOK(e),
           SetEntry(t, i, e), Movable(t), disk' = disk
    PROVE  EntryPut(Vol, Vol', t, i, e) /\ Mirror' /\ Shaped(Vol')
<1> PICK v \in Views : EntryIs(v, Vol', t, i, e)
  BY EntrySees
<1>1. SameTables(v, Vol)
  BY ViewTables
<1>2. EntryPut(Vol, Vol', t, i, e)
  BY <1>1 DEF EntryIs, EntryPut, SameTables, SameLinks
<1>3. win'.dirty
  BY DEF SetEntry, Edit
<1>4. WinInv'
  BY Entered
<1> QED
  BY <1>2, <1>3, <1>4 DEF Mirror, WinInv

\* A cluster without names is written past the window.
NoNames(b) == \A i \in 1 .. Slots : b.ent[i] = NoEntry

LEMMA WipeTables ==
    ASSUME IInv, Mirror, NEW c \in Clusters, NEW b, NoNames(b), disk' = [disk EXCEPT ![c] = b],
           \/ win' = win /\ win.sect # c
           \/ \E d, x : NoNames(d) /\ ~win.dirty /\ win' = [sect |-> c, buf |-> d, dirty |-> x]
    PROVE  /\ SameLinks(Vol, Vol') /\ Mirror'
           /\ \A t \in Clusters, i \in 1 .. Slots :
                 Entry(Vol', t, i) = IF t = c THEN NoEntry ELSE Entry(Vol, t, i)
<1>1. disk' = Over(disk, c, b)
  BY VolIsOver DEF IInv, Over
<1>2. c \in Sectors /\ c \notin FatSectors
  BY SectorFacts
<1>3. \A s \in Sectors : disk'[s] = IF s = c THEN b ELSE disk[s]
  BY <1>1 DEF Over
<1>4. CASE win' = win /\ win.sect # c
  <2>1. \A s \in Sectors : Vol'[s] = IF s = c THEN b ELSE Vol[s]
    BY <1>3, <1>4 DEF Vol
  <2>2. SameLinks(Vol, Vol') /\ SameLinks(disk, disk')
    BY <1>2, <1>3, <2>1, SectorFacts DEF SameLinks, Link
  <2>3. \A t \in Clusters, i \in 1 .. Slots :
             /\ Entry(Vol', t, i) = IF t = c THEN NoEntry ELSE Entry(Vol, t, i)
             /\ Entry(disk', t, i) = IF t = c THEN NoEntry ELSE Entry(disk, t, i)
    BY <1>3, <2>1, SectorFacts DEF Entry, NoNames
  <2>4. ~win'.dirty => SameTables(disk', Vol')
    BY <1>4, <2>2, <2>3 DEF Mirror, SameTables, SameLinks
  <2> QED
    BY <2>2, <2>3, <2>4 DEF Mirror
<1>5. CASE ~(win' = win /\ win.sect # c)
  <2> PICK d, x : NoNames(d) /\ ~win.dirty /\ win' = [sect |-> c, buf |-> d, dirty |-> x]
    BY <1>5
  <2>1. \A s \in Sectors : Vol'[s] = IF s = c THEN d ELSE disk[s]
    BY <1>3 DEF Vol
  <2>2. SameLinks(disk, Vol') /\ SameLinks(disk, disk')
    BY <1>2, <1>3, <2>1, SectorFacts DEF SameLinks, Link
  <2>3. \A t \in Clusters, i \in 1 .. Slots :
             /\ Entry(Vol', t, i) = IF t = c THEN NoEntry ELSE Entry(disk, t, i)
             /\ Entry(disk', t, i) = IF t = c THEN NoEntry ELSE Entry(disk, t, i)
    BY <1>3, <2>1, SectorFacts DEF Entry, NoNames
  <2>4. SameTables(disk, Vol)
    BY DEF Mirror
  <2>5. SameLinks(Vol, Vol') /\ SameTables(disk', Vol')
    BY <2>2, <2>3, <2>4 DEF SameTables, SameLinks
  <2> QED
    BY <2>3, <2>4, <2>5 DEF Mirror, SameTables
<1> QED
  BY <1>4, <1>5

LEMMA NextPlaces ==
    ASSUME IInv'
    PROVE  /\ op'.t \in Clusters /\ op'.i \in 1 .. Slots /\ op'.d \in Clusters
           /\ op'.pc \in {"link", "clear"} => op'.ncl \in Clusters
           /\ fil'.t \in Clusters /\ fil'.i \in 1 .. Slots
<1>1. op' \in OpType' /\ fil' \in FilType' /\ Places'
  BY DEF IInv, Control, FilOK
<1>2. op'.pc = "link" => op'.ncl \in Clusters
  BY DEF IInv, Views, Facts, Fresh, Loose
<1> QED
  BY <1>1, <1>2 DEF OpType, FilType, Places

LEMMA PathStays ==
    ASSUME IInv', \A x : InTree(Vol, x) => InTree(Vol', x), SameHeads(Vol, Vol'),
           Path(Vol, op', fil')
    PROVE  Path(Vol, op, fil)'
<1>1. /\ op'.t \in Clusters /\ op'.i \in 1 .. Slots
      /\ op'.pc \in {"link", "clear"} => op'.ncl \in Clusters
      /\ fil'.t \in Clusters /\ fil'.i \in 1 .. Slots
  BY NextPlaces
<1>2. op'.pc \in {"link", "clear"} => Bare(Vol', op'.ncl)
  BY <1>1 DEF Path, Bare, SameHeads
<1>3. /\ op'.call = "open" /\ op'.pc \in {"free", "back"} => Head(Vol', op'.t, op'.i) = 0
      /\ fil'.open /\ op'.pc # "sync" => Head(Vol', fil'.t, fil'.i) = 0
  BY <1>1 DEF Path, SameHeads
<1>4. \A x : InTree(Vol, x) => InTree(Vol', x)
  OBVIOUS
<1> HIDE DEF Vol
<1> QED
  BY <1>2, <1>3, <1>4 DEF Path

LEMMA Calmly ==
    ASSUME IInv', KInv, SameTables(Vol, Vol'), Mirror', Held \subseteq Held',
           Path(Vol, op', fil'), Emptied(Vol, op')
    PROVE  KInv'
<1>1. /\ op'.t \in Clusters /\ op'.i \in 1 .. Slots
  BY NextPlaces
<1>2. /\ \A c : InTree(Vol, c) => InTree(Vol', c)
      /\ \A H, c : Owned(Vol, H, c) => Owned(Vol', H, c)
      /\ \A c \in Clusters : Bare(Vol, c) => Bare(Vol', c)
      /\ \A S \in SUBSET Clusters : \A T : Within(Vol, S, T) => Within(Vol', S, T)
  <2>1. SameGraph(Vol, Vol')
    BY TablesGraph
  <2> QED
    BY <2>1, SameTree
<1>3. SameLinks(Vol, Vol') /\ SameHeads(Vol, Vol')
  BY TablesGraph DEF SameGraph
<1>4. Path(Vol, op, fil)'
  BY <1>2, <1>3, PathStays
<1>5. Owning(Vol, Held)'
  <2>1. Owning(Vol, Held')
    BY HoldMore DEF KInv
  <2> QED
    BY <1>2, <1>3, <2>1 DEF Owning, SameLinks
<1>6. EntriesKept(Vol')
  BY <1>2, KeptEntries DEF KInv, SameTables
<1>7. Emptied(Vol, op)'
  <2>1. Entry(Vol', op'.t, op'.i) = Entry(Vol, op'.t, op'.i)
    BY <1>1 DEF SameTables
  <2>2. op'.pc \in {"empty", "empty_next", "drop"} =>
          op'.seen \subseteq Clusters /\ \A y \in op'.seen : Bare(Vol', y)
    BY <1>2 DEF Emptied
  <2>3. op'.pc = "empty" =>
          op'.dcl \in op'.seen \cup {op'.clst} /\ Within(Vol', op'.seen, op'.seen \cup {op'.clst})
    BY <1>2 DEF Emptied
  <2>4. op'.pc = "empty_next" =>
          {op'.dcl, op'.clst} \subseteq op'.seen /\ Within(Vol', op'.seen \ {op'.clst}, op'.seen)
    <3>1. op'.pc = "empty_next" => op'.seen \ {op'.clst} \in SUBSET Clusters
      BY DEF Emptied
    <3> QED
      BY <1>2, <3>1 DEF Emptied
  <2>5. op'.pc = "drop" /\ Entry(Vol', op'.t, op'.i).dir =>
          op'.clst \in op'.seen /\ Within(Vol', op'.seen, op'.seen)
    BY <1>2, <2>1 DEF Emptied
  <2>6. op'.pc = "reset" => ~Entry(Vol', op'.t, op'.i).dir
    BY <2>1 DEF Emptied
  <2> QED
    BY <2>2, <2>3, <2>4, <2>5, <2>6 DEF Emptied
<1> QED
  BY <1>4, <1>5, <1>6, <1>7 DEF KInv

(***************************************************************************)
(* The steps that read.                                                    *)
(***************************************************************************)
LEMMA ReadStep ==
    ASSUME IInv, IInv', KInv, NEW s \in Sectors, Visit(s), Movable(s), disk' = disk,
           Held \subseteq Held', Path(Vol, op', fil'), Emptied(Vol, op')
    PROVE  KInv'
<1>1. SameTables(Vol, Vol') /\ Mirror'
  BY VisitTables DEF KInv
<1> QED
  BY <1>1, Calmly

LEMMA NotHeld ==
    ASSUME fil.sclust = 0, op.pc \notin {"free", "link"},
           op.pc \in {"alloc", "alloc_next", "chain", "clear"} => op.call # "mkdir"
    PROVE  Held = {}
  BY DEF Held, Unentered

LEMMA FindOwned == ASSUME IInv, IInv', KInv, Find PROVE KInv'
<1>1. op.pc = "find" /\ Ready /\ Visit(op.t) /\ UNCHANGED <<disk, fil>>
  BY DEF Find, At
<1>2. /\ op \in OpType /\ op.t \in Clusters /\ op.t \in Sectors
      /\ op.call \in {"open", "mkdir", "unlink"} /\ fil.sclust = 0 /\ ~fil.open
  BY <1>1, SectorFacts, NameCall DEF IInv, Control, Places, FileInv
<1>3. Movable(op.t)
  BY <1>1, WantedIs DEF Ready, Movable
<1>4. Held = {}
  BY <1>1, <1>2, NotHeld
<1>5. /\ InTree(Vol, op.t) /\ InTree(Vol, op.d) /\ op.seen = {}
      /\ op.call \in {"open", "mkdir"} => op.n \in Names
  BY <1>1, <1>2 DEF KInv, Path
<1>6. Path(Vol, op', fil') /\ Emptied(Vol, op')
  <2>1. CASE op' = Go("find_next")
    <3>1. /\ op'.pc = "find_next" /\ op'.call = op.call /\ op'.t = op.t /\ op'.d = op.d /\ op'.n = op.n
          /\ op'.seen = op.seen
      BY <1>2, <2>1 DEF Go, OpType
    <3> QED
      BY <1>1, <1>2, <1>5, <3>1 DEF Path, Emptied
  <2>2. CASE op' = NoCall
    BY <1>1, <1>2, <2>2, NoCallIs DEF Path, Emptied
  <2>3. CASE op' # Go("find_next") /\ op' # NoCall
    <3> PICK i \in 1 .. Slots : op' = Found(i)
      BY <2>3 DEF Find, FirstOf
    <3> DEFINE e == Entry(Vol, op.t, i)
    <3>1. \E p \in {"reset", "drop", "empty"} :
             /\ op' = [op EXCEPT !.i = i, !.dcl = e.clst, !.clst = e.clst, !.pc = p]
             /\ p = "reset" => op.call = "open"
             /\ p # "reset" => op.call = "unlink"
             /\ p \in {"reset", "drop"} => ~e.dir
      BY <2>3 DEF Found
    <3>2. /\ op'.pc \in {"reset", "drop", "empty"} /\ op'.call = op.call /\ op'.t = op.t /\ op'.n = op.n
          /\ op'.seen = op.seen /\ op'.dcl = op'.clst /\ op'.i = i
          /\ op'.pc \in {"reset", "drop"} => ~e.dir
          /\ op'.pc = "reset" => op.call = "open"
          /\ op'.pc # "reset" => op.call = "unlink"
      BY <1>2, <3>1 DEF OpType
    <3>3. Path(Vol, op', fil')
      BY <1>1, <1>2, <1>5, <3>2 DEF Path
    <3>4. Emptied(Vol, op')
      BY <1>5, <3>2 DEF Emptied, Within
    <3> QED
      BY <3>3, <3>4
  <2> QED
    BY <2>1, <2>2, <2>3
<1> QED
  BY <1>1, <1>2, <1>3, <1>4, <1>6, ReadStep

LEMMA FindNextOwned == ASSUME IInv, IInv', KInv, FindNext PROVE KInv'
<1> DEFINE nxt == Link(Vol, op.t)
<1>1. /\ op.pc = "find_next" /\ Ready /\ Visit(FatOf[op.t]) /\ UNCHANGED <<disk, fil>>
      /\ op' = IF nxt \in Clusters THEN [op EXCEPT !.pc = "find", !.t = nxt] ELSE NotFound
  BY DEF FindNext, At
<1>2. /\ op \in OpType /\ op.t \in Clusters /\ FatOf[op.t] \in Sectors
      /\ op.call \in {"open", "mkdir", "unlink"} /\ fil.sclust = 0 /\ ~fil.open /\ op.clst = 0 /\ op.dcl = 0
      /\ op.n \in Names
  BY <1>1, SectorFacts, NameCall DEF IInv, Control, Places, FileInv
<1>3. Movable(FatOf[op.t])
  BY <1>1, WantedIs DEF Ready, Movable
<1>4. Held = {}
  BY <1>1, <1>2, NotHeld
<1>5. /\ InTree(Vol, op.t) /\ InTree(Vol, op.d) /\ op.seen = {}
      /\ nxt \in Clusters => InTree(Vol, nxt)
  BY <1>1, <1>2, TreeLink DEF KInv, Path
<1> HIDE DEF nxt
<1>6. \/ op' = NoCall
      \/ op' = [op EXCEPT !.pc = "find", !.t = nxt] /\ nxt \in Clusters
      \/ op' = [op EXCEPT !.pc = "alloc", !.t = op.d] /\ op.call = "open"
      \/ op' = [op EXCEPT !.pc = "chain", !.t = op.d] /\ op.call = "mkdir"
  BY <1>1 DEF NotFound
<1>7. Path(Vol, op', fil') /\ Emptied(Vol, op')
  <2>1. CASE op' = NoCall
    BY <1>1, <1>2, <2>1, NoCallIs DEF Path, Emptied
  <2>2. CASE op' # NoCall
    <3>1. /\ op'.pc \in {"find", "alloc", "chain"} /\ op'.call = op.call /\ op'.d = op.d /\ op'.n = op.n
          /\ InTree(Vol, op'.t) /\ op'.clst = 0 /\ op'.seen = {}
          /\ op'.dcl = 0 /\ (op'.pc = "chain" => op'.call = "mkdir")
      BY <1>2, <1>5, <1>6, <2>2 DEF OpType
    <3> QED
      BY <1>1, <1>2, <1>5, <3>1 DEF Path, Emptied
  <2> QED
    BY <2>1, <2>2
<1> QED
  BY <1>1, <1>2, <1>3, <1>4, <1>7, ReadStep

LEMMA CheckEmptyOwned == ASSUME IInv, IInv', KInv, CheckEmpty PROVE KInv'
<1>1. /\ op.pc = "empty" /\ Ready /\ Visit(op.clst) /\ UNCHANGED <<disk, fil>>
      /\ op' = IF IsEmpty(Vol, op.clst)
               THEN [op EXCEPT !.pc = "empty_next", !.seen = @ \cup {op.clst}] ELSE NoCall
  BY DEF CheckEmpty, At
<1>2. /\ op \in OpType /\ op.clst \in Clusters /\ op.clst \in Sectors
      /\ op.call = "unlink" /\ fil.sclust = 0 /\ ~fil.open
  BY <1>1, SectorFacts, NameCall DEF IInv, Control, Places, FileInv, OpType
<1>3. Movable(op.clst)
  BY <1>1, WantedIs DEF Ready, Movable
<1>4. Held = {}
  BY <1>1, <1>2, NotHeld
<1>5. /\ op.seen \subseteq Clusters /\ \A y \in op.seen : Bare(Vol, y)
      /\ op.dcl \in op.seen \cup {op.clst} /\ Within(Vol, op.seen, op.seen \cup {op.clst})
  BY <1>1 DEF KInv, Emptied
<1>6. CASE IsEmpty(Vol, op.clst)
  <2> DEFINE Q == op.seen \cup {op.clst}
  <2>1. Bare(Vol, op.clst)
    BY <1>2, <1>6 DEF IsEmpty, KInv, EntriesKept, Bare
  <2>2. op' = [op EXCEPT !.pc = "empty_next", !.seen = Q]
    BY <1>1, <1>6
  <2>3. op'.pc = "empty_next" /\ op'.call = "unlink" /\ op'.seen = Q /\ op'.clst = op.clst /\ op'.dcl = op.dcl
    BY <1>2, <2>2 DEF OpType
  <2>4. Within(Vol, Q \ {op.clst}, Q)
    BY <1>5 DEF Within
  <2>5. Q \subseteq Clusters /\ \A y \in Q : Bare(Vol, y)
    BY <1>2, <1>5, <2>1
  <2>6. {op.dcl, op.clst} \subseteq Q
    BY <1>5
  <2> HIDE DEF Q
  <2>7. Emptied(Vol, op')
    BY <2>3, <2>4, <2>5, <2>6 DEF Emptied
  <2>8. Path(Vol, op', fil')
    BY <1>1, <1>2, <2>3 DEF Path
  <2> QED
    BY <1>1, <1>2, <1>3, <1>4, <2>7, <2>8, ReadStep
<1>7. CASE ~IsEmpty(Vol, op.clst)
  <2>1. op' = NoCall
    BY <1>1, <1>7
  <2>2. Path(Vol, op', fil') /\ Emptied(Vol, op')
    BY <1>1, <1>2, <2>1, NoCallIs DEF Path, Emptied
  <2> QED
    BY <1>1, <1>2, <1>3, <1>4, <2>2, ReadStep
<1> QED
  BY <1>6, <1>7

LEMMA CheckNextOwned == ASSUME IInv, IInv', KInv, CheckNext PROVE KInv'
<1> DEFINE nxt == Link(Vol, op.clst)
<1>1. /\ op.pc = "empty_next" /\ Ready /\ Visit(FatOf[op.clst]) /\ UNCHANGED <<disk, fil>>
      /\ op' = IF nxt \in Clusters THEN [op EXCEPT !.pc = "empty", !.clst = nxt]
               ELSE [op EXCEPT !.pc = "drop", !.clst = op.dcl]
  BY DEF CheckNext, At
<1>2. /\ op \in OpType /\ op.clst \in Clusters /\ FatOf[op.clst] \in Sectors
      /\ op.call = "unlink" /\ fil.sclust = 0 /\ ~fil.open
  BY <1>1, SectorFacts, NameCall DEF IInv, Control, Places, FileInv, OpType
<1>3. Movable(FatOf[op.clst])
  BY <1>1, WantedIs DEF Ready, Movable
<1>4. Held = {}
  BY <1>1, <1>2, NotHeld
<1>5. /\ op.seen \subseteq Clusters /\ \A y \in op.seen : Bare(Vol, y)
      /\ {op.dcl, op.clst} \subseteq op.seen /\ Within(Vol, op.seen \ {op.clst}, op.seen)
  BY <1>1 DEF KInv, Emptied
<1>6. /\ op'.call = "unlink" /\ op'.seen = op.seen /\ op'.dcl = op.dcl
      /\ IF nxt \in Clusters THEN op'.pc = "empty" /\ op'.clst = nxt
                             ELSE op'.pc = "drop" /\ op'.clst = op.dcl
  BY <1>1, <1>2 DEF OpType
<1>7. nxt \in Clusters => Within(Vol, op.seen, op.seen \cup {nxt})
  BY <1>5 DEF Within
<1>8. nxt \notin Clusters => Within(Vol, op.seen, op.seen)
  BY <1>5 DEF Within
<1> HIDE DEF nxt
<1>9. Emptied(Vol, op')
  BY <1>5, <1>6, <1>7, <1>8 DEF Emptied
<1>10. Path(Vol, op', fil')
  BY <1>1, <1>2, <1>6 DEF Path
<1> QED
  BY <1>1, <1>2, <1>3, <1>4, <1>9, <1>10, ReadStep

LEMMA FullTableOwned == ASSUME IInv, IInv', KInv, FullTable PROVE KInv'
<1>1. /\ op.pc = "alloc" /\ Ready /\ Visit(op.t) /\ UNCHANGED <<disk, fil>>
      /\ op' = [op EXCEPT !.pc = "alloc_next"]
  BY DEF FullTable, At, Go
<1>2. /\ op \in OpType /\ op.t \in Sectors /\ op.call \in {"open", "mkdir"} /\ fil.sclust = 0 /\ ~fil.open
  BY <1>1, SectorFacts, NameCall DEF IInv, Control, Places, FileInv
<1>3. Movable(op.t)
  BY <1>1, WantedIs DEF Ready, Movable
<1>4. /\ op'.pc = "alloc_next" /\ op'.call = op.call /\ op'.d = op.d /\ op'.t = op.t /\ op'.dcl = op.dcl
      /\ op'.n = op.n
  BY <1>1, <1>2 DEF OpType
<1>5. Held \subseteq Held'
  BY <1>1, <1>2, <1>4 DEF Held, Unentered
<1>6. Path(Vol, op', fil') /\ Emptied(Vol, op')
  BY <1>1, <1>2, <1>4 DEF KInv, Path, Emptied
<1> QED
  BY <1>1, <1>2, <1>3, <1>5, <1>6, ReadStep

LEMMA AllocNextOwned == ASSUME IInv, IInv', KInv, AllocNext PROVE KInv'
<1> DEFINE nxt == Link(Vol, op.t)
<1>1. /\ op.pc = "alloc_next" /\ Ready /\ Visit(FatOf[op.t]) /\ UNCHANGED <<disk, fil>>
      /\ op' = IF nxt \in Clusters THEN [op EXCEPT !.pc = "alloc", !.t = nxt]
               ELSE [op EXCEPT !.pc = "chain", !.clst = op.t]
  BY DEF AllocNext, At
<1>2. /\ op \in OpType /\ op.t \in Clusters /\ FatOf[op.t] \in Sectors
      /\ op.call \in {"open", "mkdir"} /\ fil.sclust = 0 /\ ~fil.open
  BY <1>1, SectorFacts, NameCall DEF IInv, Control, Places, FileInv
<1>3. Movable(FatOf[op.t])
  BY <1>1, WantedIs DEF Ready, Movable
<1>4. /\ InTree(Vol, op.t) /\ InTree(Vol, op.d) /\ op.n \in Names
      /\ nxt \in Clusters => InTree(Vol, nxt)
  BY <1>1, <1>2, TreeLink DEF KInv, Path
<1> HIDE DEF nxt
<1>5. /\ \/ op'.pc = "alloc" /\ op'.t = nxt /\ nxt \in Clusters
         \/ op'.pc = "chain" /\ op'.clst = op.t /\ op'.t = op.t
      /\ op'.call = op.call /\ op'.d = op.d /\ op'.n = op.n /\ op'.dcl = op.dcl
  BY <1>1, <1>2 DEF OpType
<1>6. Held \subseteq Held'
  BY <1>1, <1>2, <1>5 DEF Held, Unentered
<1>7. Path(Vol, op', fil') /\ Emptied(Vol, op')
  BY <1>1, <1>2, <1>4, <1>5, ClusterFacts DEF Path, Emptied
<1> QED
  BY <1>1, <1>2, <1>3, <1>6, <1>7, ReadStep

(***************************************************************************)
(* The steps that change an entry.                                         *)
(***************************************************************************)
LEMMA OpenedAt ==
    ASSUME NEW t, NEW i, Opened(t, i)
    PROVE  fil'.open /\ fil'.t = t /\ fil'.i = i /\ fil'.n = op.n /\ fil'.sclust = 0
<1>1. fil' = [NoFile EXCEPT !.open = TRUE, !.fresh = op.fresh, !.d = op.d, !.n = op.n,
                            !.t = t, !.i = i, !.ver = spent.calls]
  BY DEF Opened
<1> QED
  BY <1>1 DEF NoFile

LEMMA BackOwned == ASSUME IInv, IInv', KInv, Back PROVE KInv'
<1>1. /\ op.pc = "back" /\ Ready /\ Visit(op.t) /\ disk' = disk /\ op' = NoCall
      /\ Opened(op.t, op.i)
  BY DEF Back, At
<1>2. op.call = "open" /\ InTree(Vol, op.t) /\ Head(Vol, op.t, op.i) = 0 /\ op.n \in Names
  BY <1>1 DEF KInv, Path
<1>3. op.t \in Sectors /\ fil.sclust = 0
  BY <1>2, SectorFacts, NameCall
<1>4. Movable(op.t)
  BY <1>1, WantedIs DEF Ready, Movable
<1>5. Held = {}
  BY <1>1, <1>3, NotHeld
<1>6. Path(Vol, op', fil') /\ Emptied(Vol, op')
  BY <1>1, <1>2, OpenedAt, NoCallIs DEF Path, Emptied
<1> QED
  BY <1>1, <1>3, <1>4, <1>5, <1>6, ReadStep

LEMMA Untold ==
    ASSUME op'.pc \in {"idle", "sync", "free", "back"}
    PROVE  Emptied(Vol', op')
  BY DEF Emptied

LEMMA VolShaped == ASSUME IInv PROVE Shaped(Vol) /\ GSound(Vol)
  BY DEF IInv, WinInv, Views

LEMMA RegisterOwned == ASSUME IInv, IInv', KInv, Register PROVE KInv'
<1>1. op.pc = "alloc" /\ Ready /\ disk' = disk /\ Wanted = {op.t} /\ Movable(op.t)
  BY WantedIs DEF Register, At, Ready, Movable
<1>2. /\ op \in OpType /\ op.t \in Clusters /\ op.dcl \in Clusters \cup {0}
      /\ op.call \in {"open", "mkdir"} /\ fil.sclust = 0 /\ ~fil.open
      /\ op.call = "mkdir" => op.dcl # 0
  BY <1>1, NameCall DEF IInv, Control, Places, MkdirInv, OpType, FileInv
<1>3. InTree(Vol, op.t) /\ op.n \in Names
  BY <1>1, <1>2 DEF KInv, Path
<1> PICK i \in 1 .. Slots :
        /\ Entry(Vol, op.t, i).name = NoName
        /\ \/ /\ op.call = "mkdir"
              /\ SetEntry(op.t, i, [name |-> op.n, dir |-> TRUE, clst |-> op.dcl, size |-> 0])
              /\ op' = Go("sync")
              /\ fil' = fil
           \/ /\ op.call # "mkdir"
              /\ SetEntry(op.t, i, [NoEntry EXCEPT !.name = op.n])
              /\ op' = NoCall
              /\ Opened(op.t, i)
  BY DEF Register, FirstOf
<1>4. Head(Vol, op.t, i) = 0
  BY <1>2 DEF KInv, EntriesKept
<1>5. Held \subseteq Clusters /\ Held \subseteq {op.dcl} /\ (op.call # "mkdir" => Held = {})
  BY <1>1, <1>2 DEF Held, Unentered
<1>6. Shaped(Vol) /\ Owning(Vol, Held) /\ EntriesKept(Vol) /\ Mirror
  BY VolShaped DEF KInv
<1>7. CASE op.call = "mkdir"
  <2> DEFINE e == [name |-> op.n, dir |-> TRUE, clst |-> op.dcl, size |-> 0]
  <2>1. SetEntry(op.t, i, e) /\ op' = [op EXCEPT !.pc = "sync"] /\ fil' = fil
    BY <1>7 DEF Go
  <2>2. EntryOK(e) /\ e.clst = op.dcl /\ e.name # NoName
    BY <1>2, <1>3, <1>7, FatAssumption DEF EntryOK
  <2> HIDE DEF e
  <2>3. EntryPut(Vol, Vol', op.t, i, e) /\ Mirror' /\ Shaped(Vol')
    BY <1>1, <1>2, <1>6, <2>1, <2>2, EntryTables
  <2>4. op'.pc = "sync" /\ op'.call = op.call /\ op'.n = op.n
    BY <1>2, <2>1 DEF OpType
  <2>5. Owning(Vol', {}) /\ EntriesKept(Vol')
    <3>1. Held \ {e.clst} \subseteq {}
      BY <1>5, <2>2
    <3> QED
      BY <1>2, <1>3, <1>4, <1>5, <1>6, <2>2, <2>3, <3>1, NameHeld
  <2>6. Owning(Vol', Held')
    BY <2>5, HoldMore
  <2>7. Path(Vol', op', fil')
    BY <1>2, <1>3, <2>1, <2>4 DEF Path
  <2> QED
    BY <2>3, <2>4, <2>5, <2>6, <2>7, Untold DEF KInv
<1>8. CASE op.call # "mkdir"
  <2> DEFINE e == [NoEntry EXCEPT !.name = op.n]
  <2>1. SetEntry(op.t, i, e) /\ op' = NoCall /\ Opened(op.t, i)
    BY <1>8
  <2>2. EntryOK(e) /\ e.clst = 0
    BY NoEntryOK DEF NoEntry
  <2> HIDE DEF e
  <2>3. EntryPut(Vol, Vol', op.t, i, e) /\ Mirror' /\ Shaped(Vol')
    BY <1>1, <1>2, <1>6, <2>1, <2>2, EntryTables
  <2>5. /\ Owning(Vol', {}) /\ EntriesKept(Vol')
        /\ InTree(Vol', op.t)
    <3>1. Held \ {e.clst} \subseteq {}
      BY <1>5, <1>8
    <3>2. /\ Owning(Vol', {}) /\ EntriesKept(Vol')
          /\ \A x : InTree(Vol, x) => InTree(Vol', x)
      BY <1>2, <1>3, <1>4, <1>5, <1>6, <2>2, <2>3, <3>1, NameHeld
    <3> QED
      BY <1>3, <3>2
  <2>6. Owning(Vol', Held')
    BY <2>5, HoldMore
  <2>7. Head(Vol', op.t, i) = 0
    BY <1>2, <2>2, <2>3 DEF EntryPut, Head
  <2>8. Path(Vol', op', fil')
    BY <1>3, <2>1, <2>5, <2>7, NoCallIs, OpenedAt DEF Path
  <2> QED
    BY <2>1, <2>3, <2>5, <2>6, <2>8, NoCallIs, Untold DEF KInv
<1> QED
  BY <1>7, <1>8

LEMMA ResetOwned == ASSUME IInv, IInv', KInv, Reset PROVE KInv'
<1> DEFINE e == [NoEntry EXCEPT !.name = op.n]
<1>1. /\ op.pc = "reset" /\ Ready /\ disk' = disk /\ SetEntry(op.t, op.i, e)
      /\ IF op.clst = 0 THEN op' = NoCall /\ Opened(op.t, op.i)
                        ELSE op' = [op EXCEPT !.pc = "free"] /\ fil' = fil
  BY DEF Reset, At, Go
<1>2. op.call = "open" /\ InTree(Vol, op.t) /\ op.n \in Names
  BY <1>1 DEF KInv, Path
<1>3. /\ op \in OpType /\ op.t \in Clusters /\ op.i \in 1 .. Slots /\ fil.sclust = 0 /\ ~fil.open
      /\ op.clst \in Clusters \cup {0}
  BY <1>1, <1>2, NameCall DEF IInv, Control, FileInv, OpType
<1>4. Movable(op.t)
  BY <1>1, WantedIs DEF Ready, Movable
<1>5. EntryOK(e) /\ e.clst = 0 /\ ~e.dir
  BY NoEntryOK DEF NoEntry
<1> HIDE DEF e
<1>6. Shaped(Vol) /\ Owning(Vol, Held) /\ EntriesKept(Vol) /\ Mirror /\ Held = {}
  BY <1>1, <1>3, VolShaped, NotHeld DEF KInv
<1>7. EntryPut(Vol, Vol', op.t, op.i, e) /\ Mirror'
  BY <1>1, <1>3, <1>4, <1>5, <1>6, EntryTables
<1>8. Head(Vol, op.t, op.i) = op.clst
  BY <1>1 DEF IInv, Views, Facts
<1>9. ~Entry(Vol, op.t, op.i).dir
  BY <1>1 DEF KInv, Emptied
<1>10. /\ Owning(Vol', {op.clst}) /\ EntriesKept(Vol')
       /\ op.clst = 0 => Owning(Vol', {})
       /\ InTree(Vol', op.t)
  <2>1. ASSUME NEW G, op.clst # 0 => op.clst \in G
        PROVE  /\ Owning(Vol', G) /\ EntriesKept(Vol')
               /\ \A x : InTree(Vol, x) => InTree(Vol', x)
    <3>1. {} \in SUBSET Clusters /\ Held \subseteq G /\ (Head(Vol, op.t, op.i) # 0 => Head(Vol, op.t, op.i) \in G)
      BY <1>6, <1>8, <2>1
    <3> QED
      BY <1>3, <1>5, <1>6, <1>7, <1>9, <3>1, DropHeld
  <2> QED
    BY <1>2, <2>1
<1>11. Head(Vol', op.t, op.i) = 0
  BY <1>3, <1>5, <1>7 DEF EntryPut, Head
<1>12. CASE op.clst = 0
  <2>1. Owning(Vol', Held')
    BY <1>10, <1>12, HoldMore
  <2>2. Path(Vol', op', fil')
    BY <1>1, <1>2, <1>10, <1>11, <1>12, NoCallIs, OpenedAt DEF Path
  <2> QED
    BY <1>1, <1>7, <1>10, <1>12, <2>1, <2>2, NoCallIs, Untold DEF KInv
<1>13. CASE op.clst # 0
  <2>1. /\ op'.pc = "free" /\ op'.clst = op.clst /\ fil' = fil /\ op'.call = op.call /\ op'.t = op.t
        /\ op'.i = op.i /\ op'.n = op.n
    BY <1>1, <1>3, <1>13 DEF OpType
  <2>2. {op.clst} \subseteq Held'
    BY <1>3, <1>13, <2>1 DEF Held
  <2>3. Owning(Vol', Held')
    BY <1>10, <2>2, HoldMore
  <2>4. Path(Vol', op', fil')
    BY <1>2, <1>3, <1>10, <1>11, <2>1 DEF Path
  <2> QED
    BY <1>7, <1>10, <2>1, <2>3, <2>4, Untold DEF KInv
<1> QED
  BY <1>12, <1>13

LEMMA DropOwned == ASSUME IInv, IInv', KInv, Drop PROVE KInv'
<1>1. /\ op.pc = "drop" /\ Ready /\ disk' = disk /\ fil' = fil
      /\ SetEntry(op.t, op.i, NoEntry)
      /\ op' = [op EXCEPT !.pc = IF op.clst = 0 THEN "sync" ELSE "free"]
  BY DEF Drop, At, Go
<1>2. /\ op \in OpType /\ op.t \in Clusters /\ op.i \in 1 .. Slots
      /\ op.call = "unlink" /\ fil.sclust = 0 /\ ~fil.open
      /\ op.clst \in Clusters \cup {0}
  BY <1>1, NameCall DEF IInv, Control, Places, OpType, FileInv
<1>3. Movable(op.t)
  BY <1>1, WantedIs DEF Ready, Movable
<1>4. EntryOK(NoEntry) /\ NoEntry.clst = 0 /\ ~NoEntry.dir
  BY NoEntryOK DEF NoEntry
<1>5. Shaped(Vol) /\ Owning(Vol, Held) /\ EntriesKept(Vol) /\ Mirror /\ Held = {}
  BY <1>1, <1>2, VolShaped, NotHeld DEF KInv
<1>6. EntryPut(Vol, Vol', op.t, op.i, NoEntry) /\ Mirror'
  BY <1>1, <1>2, <1>3, <1>4, <1>5, EntryTables
<1>7. Head(Vol, op.t, op.i) = op.clst
  BY <1>1 DEF IInv, Views, Facts
<1>8. /\ op.seen \in SUBSET Clusters
      /\ Entry(Vol, op.t, op.i).dir =>
            Head(Vol, op.t, op.i) \in op.seen /\ Within(Vol, op.seen, op.seen) /\ \A y \in op.seen : Bare(Vol, y)
  BY <1>1, <1>7 DEF KInv, Emptied
<1>9. /\ op'.call = op.call /\ op'.clst = op.clst
      /\ op'.pc = IF op.clst = 0 THEN "sync" ELSE "free"
  BY <1>1, <1>2 DEF OpType
<1>10. /\ Held \subseteq Held'
       /\ Head(Vol, op.t, op.i) # 0 => Head(Vol, op.t, op.i) \in Held'
  BY <1>2, <1>5, <1>7, <1>9 DEF Held
<1>11. Owning(Vol', Held') /\ EntriesKept(Vol')
  BY <1>2, <1>4, <1>5, <1>6, <1>8, <1>10, DropHeld
<1>12. Path(Vol', op', fil')
  BY <1>1, <1>2, <1>9 DEF Path
<1> QED
  BY <1>6, <1>9, <1>11, <1>12, Untold DEF KInv

LEMMA PutEntryOwned == ASSUME IInv, IInv', KInv, PutEntry PROVE KInv'
<1> DEFINE e == [name |-> fil.n, dir |-> FALSE, clst |-> fil.sclust, size |-> fil.size]
<1>1. /\ op.pc = "entry" /\ Ready /\ disk' = disk /\ fil' = fil /\ SetEntry(fil.t, fil.i, e)
      /\ op' = [op EXCEPT !.pc = "sync"]
  BY DEF PutEntry, At, Go
<1>2. /\ op \in OpType /\ op.call = "close" /\ fil \in FilType /\ fil.open
  BY <1>1 DEF IInv, Control, Places, FilOK, FileInv
<1>3. fil.t \in Clusters /\ fil.i \in 1 .. Slots
  BY <1>2 DEF FilType
<1>4. InTree(Vol, fil.t) /\ fil.n \in Names /\ Head(Vol, fil.t, fil.i) = 0
  BY <1>1, <1>2 DEF KInv, Path
<1>5. EntryOK(e) /\ e.clst = fil.sclust /\ e.name # NoName
  BY <1>2, <1>4, FatAssumption DEF EntryOK, FilType
<1> HIDE DEF e
<1>6. Movable(fil.t)
  BY <1>1, WantedIs DEF Ready, Movable
<1>7. Shaped(Vol) /\ Owning(Vol, Held) /\ EntriesKept(Vol) /\ Mirror
  BY VolShaped DEF KInv
<1>8. EntryPut(Vol, Vol', fil.t, fil.i, e) /\ Mirror' /\ Shaped(Vol')
  BY <1>1, <1>3, <1>5, <1>6, <1>7, EntryTables
<1>9. op'.pc = "sync" /\ op'.call = "close"
  BY <1>1, <1>2 DEF OpType
<1>10. Held \subseteq Clusters /\ Held \ {e.clst} \subseteq Held'
  BY <1>1, <1>2, <1>5 DEF Held
<1>11. /\ Owning(Vol', Held') /\ EntriesKept(Vol')
       /\ \A x : InTree(Vol, x) => InTree(Vol', x)
  BY <1>3, <1>4, <1>5, <1>7, <1>8, <1>10, NameHeld
<1>12. Path(Vol', op', fil')
  BY <1>1, <1>2, <1>4, <1>9, <1>11 DEF Path
<1> QED
  BY <1>8, <1>9, <1>11, <1>12, Untold DEF KInv

(***************************************************************************)
(* The steps that change a link.                                           *)
(***************************************************************************)
LEMMA FreeOwned == ASSUME IInv, IInv', CInv, KInv, Free PROVE KInv'
<1> DEFINE nxt == Link(Vol, op.clst)
<1>1. /\ op.pc = "free" /\ Ready /\ disk' = disk /\ fil' = fil
      /\ \/ nxt = 0 /\ Visit(FatOf[op.clst]) /\ op' = AfterFree
         \/ /\ nxt # 0 /\ SetLink(op.clst, 0)
            /\ op' = IF nxt \in Clusters THEN [op EXCEPT !.clst = nxt] ELSE AfterFree
  BY DEF Free, At
<1>2. /\ op \in OpType /\ op.clst \in Clusters /\ FatOf[op.clst] \in Sectors
      /\ op.call \in {"open", "mkdir", "unlink"} /\ fil.sclust = 0 /\ ~fil.open
  BY <1>1, SectorFacts, NameCall DEF IInv, Control, Places, OpType, FileInv
<1>3. Movable(FatOf[op.clst])
  BY <1>1, WantedIs DEF Ready, Movable
<1>4. Loose(Vol, op.clst)
  BY <1>1 DEF IInv, Views, Facts
<1>5. Shaped(Vol) /\ Owning(Vol, Held) /\ EntriesKept(Vol) /\ Mirror
  BY VolShaped DEF KInv
<1>6. Held = {op.clst}
  BY <1>1, <1>2 DEF Held, Unentered
<1>7. /\ op.call = "open" => InTree(Vol, op.t) /\ Head(Vol, op.t, op.i) = 0
      /\ op.call \in {"open", "mkdir"} => op.n \in Names
  BY <1>1 DEF KInv, Path
<1>8. ASSUME op' = AfterFree
      PROVE  /\ op'.pc \in {"idle", "sync", "back"}
             /\ op'.pc = "back" => op'.call = "open" /\ op.call = "open" /\ op'.t = op.t /\ op'.i = op.i
             /\ op'.call \in {"open", "mkdir"} => op'.call = op.call /\ op'.n = op.n
  BY <1>2, <1>8, NoCallIs DEF AfterFree, Go, OpType
<1>9. CASE nxt = 0 /\ Visit(FatOf[op.clst]) /\ op' = AfterFree
  <2>1. SameTables(Vol, Vol') /\ Mirror'
    BY <1>1, <1>2, <1>3, <1>5, <1>9, VisitTables
  <2>2. LinkPut(Vol, Vol', op.clst, 0)
    BY <1>2, <1>9, <2>1 DEF LinkPut, SameTables, SameLinks
  <2>3. nxt \notin Clusters
    BY <1>9, ClusterFacts
  <2>4. Owning(Vol', {}) /\ EntriesKept(Vol') /\ \A x : InTree(Vol, x) => InTree(Vol', x)
    BY <1>4, <1>5, <1>6, <2>2, <2>3, FreeHeld
  <2>5. SameHeads(Vol, Vol')
    BY <2>1, TablesGraph DEF SameGraph
  <2>6. Path(Vol, op', fil')
    BY <1>1, <1>2, <1>7, <1>8, <1>9 DEF Path
  <2>7. Path(Vol, op, fil)'
    BY <2>4, <2>5, <2>6, PathStays
  <2> QED
    BY <1>8, <1>9, <2>1, <2>4, <2>7, Untold, HoldMore DEF KInv
<1>10. CASE nxt # 0 /\ SetLink(op.clst, 0)
  <2>1. LinkPut(Vol, Vol', op.clst, 0) /\ Mirror'
    BY <1>1, <1>2, <1>3, <1>5, <1>10, SectorFacts, LinkTables
  <2>2. SameHeads(Vol, Vol')
    BY <2>1, PutHeads DEF SameHeads
  <2>3. ASSUME NEW G, nxt \in Clusters => nxt \in G
        PROVE  Owning(Vol', G) /\ EntriesKept(Vol') /\ \A x : InTree(Vol, x) => InTree(Vol', x)
    <3>1. Held \ {op.clst} \subseteq G
      BY <1>6
    <3> QED
      BY <1>4, <1>5, <2>1, <2>3, <3>1, FreeHeld
  <2>4. CASE nxt \in Clusters
    <3>1. op' = [op EXCEPT !.clst = nxt]
      BY <1>1, <1>10, <2>4
    <3> HIDE DEF nxt
    <3>2. /\ op'.pc = "free" /\ op'.clst = nxt /\ op'.call = op.call /\ op'.t = op.t /\ op'.i = op.i
          /\ op'.n = op.n
      BY <1>1, <1>2, <3>1 DEF OpType
    <3>3. nxt \in Held'
      BY <2>4, <3>2 DEF Held
    <3>4. Owning(Vol', Held') /\ EntriesKept(Vol') /\ \A x : InTree(Vol, x) => InTree(Vol', x)
      BY <2>3, <3>3
    <3>5. Path(Vol, op', fil')
      BY <1>1, <1>2, <1>7, <3>2 DEF Path
    <3>6. Path(Vol, op, fil)'
      BY <2>2, <3>4, <3>5, PathStays
    <3> QED
      BY <2>1, <3>2, <3>4, <3>6, Untold DEF KInv
  <2>5. CASE nxt \notin Clusters
    <3>1. op' = AfterFree
      BY <1>1, <1>10, <2>5
    <3>2. Owning(Vol', Held') /\ EntriesKept(Vol') /\ \A x : InTree(Vol, x) => InTree(Vol', x)
      BY <2>3, <2>5
    <3>3. Path(Vol, op', fil')
      BY <1>1, <1>2, <1>7, <1>8, <3>1 DEF Path
    <3>4. Path(Vol, op, fil)'
      BY <2>2, <3>2, <3>3, PathStays
    <3> QED
      BY <1>8, <2>1, <3>1, <3>2, <3>4, Untold DEF KInv
  <2> QED
    BY <2>4, <2>5
<1> QED
  BY <1>1, <1>9, <1>10

LEMMA AllocateOwned == ASSUME IInv, IInv', CInv, KInv, Allocate PROVE KInv'
<1>1. op.pc = "chain" /\ Ready /\ disk' = disk /\ fs.free # 0
  BY DEF Allocate, At
<1> PICK c \in NextFree :
        /\ SetLink(c, EndOfChain)
        /\ IF op.clst = 0 THEN Got(c)
           ELSE op' = [op EXCEPT !.pc = "link", !.ncl = c] /\ fil' = fil
  BY DEF Allocate, Go
<1>2. /\ Control /\ op \in OpType /\ op.call \in {"open", "mkdir", "write"} /\ FilOK
      /\ op.call # "write" => fil.sclust = 0 /\ ~fil.open
      /\ op.call = "write" => op.clst = fil.clust
  BY <1>1 DEF IInv, Control, Places, FileInv, FilOK
<1>3. c \in Clusters /\ Link(Vol, c) = 0 /\ c # 0
  BY ClusterFacts DEF NextFree, IsFree
<1>4. Movable(FatOf[c])
  BY <1>1, <1>2, FoundIsRead, WantedIs DEF Ready, Movable
<1>5. Shaped(Vol) /\ GSound(Vol) /\ Owning(Vol, Held) /\ EntriesKept(Vol) /\ Mirror
  BY VolShaped DEF KInv
<1>6. LinkPut(Vol, Vol', c, EndOfChain) /\ Mirror'
  BY <1>1, <1>3, <1>4, <1>5, SectorFacts, LinkTables
<1>7. SameHeads(Vol, Vol')
  BY <1>6, PutHeads DEF SameHeads
<1>8. Bare(Vol, c)
  <2>1. Loose(Vol, c)
    BY <1>3, <1>5 DEF GSound, LinksOK, HeadsOK, Loose
  <2> QED
    BY <1>5, <2>1, LooseBare
<1>9. /\ op.call # "write" => InTree(Vol, op.d) /\ InTree(Vol, op.t)
      /\ op.call # "write" /\ op.clst # 0 => InTree(Vol, op.clst)
      /\ op.call \in {"open", "mkdir"} => op.n \in Names
      /\ fil.open => InTree(Vol, fil.t) /\ fil.n \in Names /\ Head(Vol, fil.t, fil.i) = 0
      /\ op.call = "open" \/ (op.call = "mkdir" /\ op.dcl # 0) => op.clst # 0
  BY <1>1, <1>2 DEF KInv, Path
<1>10. Held \cup {c} \subseteq Held' /\ Path(Vol, op', fil') /\ op'.pc \in {"spill", "clear", "link"}
  <2>1. CASE op.clst = 0 /\ op.call = "write"
    <3>1. /\ op'.pc = "spill" /\ op'.call = "write"
          /\ fil' = [fil EXCEPT !.clust = c, !.sclust = IF @ = 0 THEN c ELSE @]
      BY <1>1, <1>2, <1>3, <2>1, GotIs
    <3>2. fil.sclust = 0
      BY <1>2, <2>1 DEF FilOK
    <3>3. /\ fil'.sclust = c /\ fil'.open = fil.open /\ fil'.t = fil.t /\ fil'.i = fil.i /\ fil'.n = fil.n
      BY <1>2, <3>1, <3>2 DEF FilOK, FilType
    <3>4. Held = {}
      BY <1>1, <2>1, <3>2, NotHeld
    <3>5. c \in Held'
      BY <1>3, <3>1, <3>3 DEF Held, Unentered
    <3>6. Path(Vol, op', fil')
      BY <1>9, <2>1, <3>1, <3>3 DEF Path
    <3> QED
      BY <3>1, <3>4, <3>5, <3>6
  <2>2. CASE op.clst = 0 /\ op.call # "write"
    <3>1. op.call = "mkdir" /\ op.dcl = 0 /\ fil.sclust = 0 /\ ~fil.open
      BY <1>2, <1>9, <2>2
    <3>2. Got(c)
      BY <2>2
    <3>3. op' = [op EXCEPT !.pc = "clear", !.ncl = c, !.dcl = c] /\ fil' = fil
      BY <1>2, <3>1, <3>2 DEF Got, Go, OpType
    <3>4. /\ op'.pc = "clear" /\ op'.ncl = c /\ op'.dcl = c /\ op'.call = "mkdir"
          /\ op'.d = op.d /\ op'.t = op.t /\ op'.n = op.n /\ op'.clst = op.clst
      BY <1>2, <3>1, <3>3 DEF OpType
    <3>5. Held = {}
      BY <1>1, <1>3, <3>1, ClusterFacts DEF Held, Unentered
    <3>6. c \in Held'
      BY <1>3, <3>4 DEF Held
    <3>7. Path(Vol, op', fil')
      BY <1>2, <1>8, <1>9, <2>2, <3>3, <3>4 DEF Path
    <3> QED
      BY <3>4, <3>5, <3>6, <3>7
  <2>3. CASE op.clst # 0
    <3>1. op' = [op EXCEPT !.pc = "link", !.ncl = c] /\ fil' = fil
      BY <2>3
    <3>2. /\ op'.pc = "link" /\ op'.ncl = c /\ op'.dcl = op.dcl /\ op'.call = op.call
          /\ op'.d = op.d /\ op'.t = op.t /\ op'.n = op.n /\ op'.clst = op.clst
      BY <1>2, <3>1 DEF OpType
    <3>3. Held \cup {c} \subseteq Held'
      BY <1>1, <1>3, <3>1, <3>2 DEF Held, Unentered
    <3>4. Path(Vol, op', fil')
      BY <1>2, <1>8, <1>9, <3>1, <3>2 DEF Path
    <3> QED
      BY <3>2, <3>3, <3>4
  <2> QED
    BY <2>1, <2>2, <2>3
<1>11. Owning(Vol', Held') /\ EntriesKept(Vol') /\ \A x : InTree(Vol, x) => InTree(Vol', x)
  BY <1>3, <1>5, <1>6, <1>10, MarkHeld
<1>12. Path(Vol, op, fil)'
  BY <1>7, <1>10, <1>11, PathStays
<1>13. Emptied(Vol', op')
  BY <1>10 DEF Emptied
<1> QED
  BY <1>6, <1>11, <1>12, <1>13 DEF KInv

LEMMA LinkItOwned == ASSUME IInv, IInv', CInv, DInv, KInv, LinkIt PROVE KInv'
<1>1. op.pc = "link" /\ Ready /\ disk' = disk /\ SetLink(op.clst, op.ncl) /\ Got(op.ncl)
  BY DEF LinkIt, At
<1>2. /\ Control /\ op \in OpType /\ op.call \in {"open", "mkdir", "write"} /\ FilOK
      /\ op.clst \in Clusters
      /\ op.call # "write" => fil.sclust = 0 /\ ~fil.open
      /\ op.call = "write" => fil.sclust # 0
      /\ op.call = "mkdir" => op.dcl # 0
  BY <1>1 DEF IInv, Control, Places, MkdirInv, FileInv, FilOK, OpType
<1>3. Movable(FatOf[op.clst])
  BY <1>1, WantedIs DEF Ready, Movable
<1>4. op.ncl \in Clusters /\ op.ncl \in Links /\ op.ncl # fil.sclust
      /\ (op.call = "mkdir" => op.ncl # op.dcl)
  BY <1>1, SectorFacts DEF IInv, Views, Facts, Fresh, Loose
<1>5. Owning(Vol, Held) /\ EntriesKept(Vol) /\ Mirror
  BY DEF KInv
<1>6. LinkPut(Vol, Vol', op.clst, op.ncl) /\ Mirror'
  BY <1>1, <1>2, <1>3, <1>4, <1>5, LinkTables
<1>7. SameHeads(Vol, Vol')
  BY <1>6, PutHeads DEF SameHeads
<1>8. /\ Link(Vol, op.clst) \notin Clusters \cup {0} /\ Link(Vol, op.ncl) \notin Clusters
      /\ op.clst # op.ncl
  <2>1. Link(Vol, op.clst) # 0
    BY <1>1, <1>2, ClusterFacts DEF CInv, InUse, Uses
  <2> QED
    BY <1>1, <1>2, <2>1, ClusterFacts DEF DInv, Growing
<1>9. /\ op.call # "write" => InTree(Vol, op.clst)
      /\ Bare(Vol, op.ncl)
      /\ op.call \in {"open", "mkdir"} => op.n \in Names
      /\ fil.open => InTree(Vol, fil.t) /\ fil.n \in Names /\ Head(Vol, fil.t, fil.i) = 0
  BY <1>1, <1>2, <1>8, ClusterFacts DEF KInv, Path
<1>10. \A G : Held \ {op.ncl} \subseteq G =>
          /\ Owning(Vol', G) /\ EntriesKept(Vol') /\ \A x : InTree(Vol, x) => InTree(Vol', x)
          /\ InTree(Vol, op.clst) => InTree(Vol', op.ncl)
  BY <1>2, <1>4, <1>5, <1>6, <1>8, <1>9, LinkHeld
<1>11. CASE op.call = "write"
  <2>1. /\ op'.pc = "spill" /\ op'.call = "write"
        /\ fil' = [fil EXCEPT !.clust = op.ncl, !.sclust = IF @ = 0 THEN op.ncl ELSE @]
    BY <1>1, <1>2, <1>4, <1>11, GotIs
  <2>2. /\ fil'.sclust = fil.sclust /\ fil'.open = fil.open /\ fil'.t = fil.t /\ fil'.i = fil.i
        /\ fil'.n = fil.n
    BY <1>2, <1>11, <2>1 DEF FilOK, FilType
  <2>3. Held \ {op.ncl} \subseteq Held'
    BY <1>1, <1>11, <2>1, <2>2 DEF Held, Unentered
  <2>4. Path(Vol, op', fil')
    BY <1>9, <1>11, <2>1, <2>2 DEF Path
  <2>5. Path(Vol, op, fil)'
    BY <1>7, <1>10, <2>3, <2>4, PathStays
  <2>6. Emptied(Vol', op')
    BY <2>1 DEF Emptied
  <2> QED
    BY <1>6, <1>10, <2>3, <2>5, <2>6 DEF KInv
<1>12. CASE op.call # "write"
  <2>1. op' = [op EXCEPT !.pc = "clear", !.ncl = op.ncl] /\ fil' = fil
    <3>1. ~(op.call = "mkdir" /\ op.dcl = 0)
      BY <1>2
    <3> QED
      BY <1>1, <1>12, <3>1 DEF Got, Go
  <2>2. /\ op'.pc = "clear" /\ op'.ncl = op.ncl /\ op'.dcl = op.dcl /\ op'.call = op.call
        /\ op'.d = op.d /\ op'.t = op.t /\ op'.n = op.n /\ op'.clst = op.clst
    BY <1>2, <2>1 DEF OpType
  <2>3. Held \ {op.ncl} \subseteq Held'
    BY <1>1, <1>2, <1>12, <2>1, <2>2 DEF Held, Unentered
  <2>4. InTree(Vol', op'.ncl) /\ Bare(Vol', op'.ncl)
    BY <1>4, <1>7, <1>9, <1>10, <1>12, <2>2, <2>3 DEF SameHeads, Bare
  <2>5. InTree(Vol', op'.d) /\ InTree(Vol', op'.t)
    BY <1>1, <1>10, <1>12, <2>2, <2>3 DEF KInv, Path
  <2>6. Path(Vol', op', fil')
    BY <1>2, <1>9, <1>12, <2>1, <2>2, <2>4, <2>5 DEF Path
  <2>7. Emptied(Vol', op')
    BY <2>2 DEF Emptied
  <2> QED
    BY <1>6, <1>10, <2>3, <2>6, <2>7 DEF KInv
<1> QED
  BY <1>11, <1>12

\* A call that gets no further holds nothing that it does not free, except
\* the clusters of the open file.
LEMMA UndoneHolds ==
    ASSUME IInv, KInv, op' = Undone, StopFile, op.call # "close", op.pc \notin {"free", "link"}
    PROVE  Held \subseteq Held' /\ Path(Vol, op', fil') /\ Emptied(Vol, op')
<1>1. Control /\ op \in OpType /\ FilOK /\ fil \in FilType
  BY DEF IInv, Control, FilOK
<1>2. /\ fil'.sclust = fil.sclust /\ fil'.open = fil.open /\ fil'.t = fil.t /\ fil'.i = fil.i
      /\ fil'.n = fil.n
  <2>1. CASE op.call = "write"
    <3>1. fil' = [fil EXCEPT !.stop = TRUE]
      BY <2>1 DEF StopFile
    <3> QED
      BY <1>1, <3>1 DEF FilType
  <2>2. CASE op.call # "write"
    BY <2>2 DEF StopFile
  <2> QED
    BY <2>1, <2>2
<1>3. fil.open => op.pc # "sync" /\ InTree(Vol, fil.t) /\ fil.n \in Names /\ Head(Vol, fil.t, fil.i) = 0
  <2>1. fil.open => op.pc # "sync"
    BY <1>1 DEF Control, Places, FileInv
  <2> QED
    BY <2>1 DEF KInv, Path
<1>4. CASE op' = NoCall
  <2>1. op.call = "mkdir" /\ op.pc \in {"alloc", "alloc_next", "chain", "link", "clear"} => op.dcl = 0
    <3>1. SUFFICES ASSUME op.call = "mkdir", op.dcl # 0,
                          op.pc \in {"alloc", "alloc_next", "chain", "link", "clear"}
                   PROVE  FALSE
      OBVIOUS
    <3>2. op' = [op EXCEPT !.pc = "free", !.clst = op.dcl]
      BY <3>1 DEF Undone, Go
    <3>3. op'.pc = "free"
      BY <1>1, <3>2 DEF OpType
    <3> QED
      BY <1>4, <3>3, NoCallIs
  <2>2. Held \subseteq Held'
    BY <1>2, <1>4, <2>1, NoCallIs, ClusterFacts DEF Held, Unentered
  <2> QED
    BY <1>2, <1>3, <1>4, <2>2, NoCallIs DEF Path, Emptied
<1>5. CASE op' # NoCall
  <2>1. /\ op.call = "mkdir" /\ op.dcl # 0
        /\ op.pc \in {"chain", "link", "clear", "alloc", "alloc_next"}
        /\ op' = [op EXCEPT !.pc = "free", !.clst = op.dcl]
    BY <1>1, <1>5 DEF Undone, Go, OpType
  <2>2. op'.call = "mkdir" /\ op'.pc = "free" /\ op'.clst = op.dcl /\ op'.n = op.n
    BY <1>1, <2>1 DEF OpType
  <2>3. fil.sclust = 0
    BY <1>1, <2>1 DEF Control, FileInv, FilOK
  <2>4. Held \subseteq Held'
    BY <2>1, <2>2, <2>3 DEF Held, Unentered
  <2>5. op.n \in Names
    BY <2>1 DEF KInv, Path
  <2> QED
    BY <1>2, <1>3, <2>2, <2>4, <2>5 DEF Path, Emptied
<1> QED
  BY <1>4, <1>5

LEMMA FullOwned == ASSUME IInv, IInv', KInv, Full PROVE KInv'
<1>1. op.pc = "chain" /\ Ready /\ disk' = disk /\ op' = Undone /\ StopFile
  BY DEF Full, At
<1>2. op \in OpType /\ Wanted = Searched /\ op.call # "close"
  BY <1>1, WantedIs DEF IInv, Control, Places
<1>3. Held \subseteq Held' /\ Path(Vol, op', fil') /\ Emptied(Vol, op')
  BY <1>1, <1>2, UndoneHolds
<1>4. CASE win' = win
  <2>1. SameTables(Vol, Vol') /\ Mirror'
    BY <1>1, <1>4 DEF Vol, SameTables, SameLinks, KInv, Mirror
  <2> QED
    BY <1>3, <2>1, Calmly
<1>5. CASE win' # win
  <2> PICK s \in FatSectors : Visit(s) /\ s \in Searched
    <3>1. CASE fs.free = 0
      BY <1>2, <1>5, <3>1, SectorFacts DEF Full, Searched, OpType
    <3>2. CASE fs.free # 0
      BY <1>5, <3>2, SectorFacts DEF Full, Searched, SectorsOf
    <3> QED
      BY <3>1, <3>2
  <2>1. s \in Sectors /\ Movable(s)
    BY <1>1, <1>2, SectorFacts DEF Ready, Movable
  <2> QED
    BY <1>1, <1>3, <2>1, ReadStep
<1> QED
  BY <1>4, <1>5

(***************************************************************************)
(* The steps that write past the window.                                   *)
(***************************************************************************)
LEMMA WipedOwned ==
    ASSUME IInv, IInv', KInv, NEW c \in Clusters, NEW b, NoNames(b), disk' = [disk EXCEPT ![c] = b],
           \/ win' = win /\ win.sect # c
           \/ \E d, x : NoNames(d) /\ ~win.dirty /\ win' = [sect |-> c, buf |-> d, dirty |-> x],
           Bare(Vol, c), Held \subseteq Held', Path(Vol, op', fil'),
           op'.pc \in {"alloc", "chunk", "data", "entry"}
    PROVE  KInv'
<1>1. Shaped(Vol) /\ Owning(Vol, Held) /\ EntriesKept(Vol) /\ Mirror
  BY VolShaped DEF KInv
<1>2. /\ SameLinks(Vol, Vol') /\ Mirror'
      /\ \A t \in Clusters, i \in 1 .. Slots :
            Entry(Vol', t, i) = IF t = c THEN NoEntry ELSE Entry(Vol, t, i)
  BY <1>1, WipeTables
<1>3. NoEntry.clst = 0 /\ NoEntry.dir = FALSE
  BY DEF NoEntry
<1>4. \A i \in 1 .. Slots : Head(Vol, c, i) = 0 /\ Entry(Vol, c, i).dir = FALSE
  <2> SUFFICES ASSUME NEW i \in 1 .. Slots
               PROVE  Head(Vol, c, i) = 0 /\ Entry(Vol, c, i).dir = FALSE
    OBVIOUS
  <2>1. Head(Vol, c, i) = 0
    BY DEF Bare
  <2>2. ~Entry(Vol, c, i).dir
    BY <1>1, <2>1, DirHead, ClusterFacts
  <2> QED
    BY <2>1, <2>2
<1>5. SameGraph(Vol, Vol')
  BY <1>2, <1>3, <1>4 DEF SameGraph, SameHeads, Head
<1>6. /\ \A x : InTree(Vol, x) => InTree(Vol', x)
      /\ \A H, x : Owned(Vol, H, x) => Owned(Vol', H, x)
  BY <1>5, SameTree
<1>7. Path(Vol, op, fil)'
  BY <1>5, <1>6, PathStays DEF SameGraph
<1>8. Owning(Vol', Held')
  <2>1. Owning(Vol, Held')
    BY <1>1, HoldMore
  <2> QED
    BY <1>2, <1>6, <2>1 DEF Owning, SameLinks
<1>9. EntriesKept(Vol')
  BY <1>1, <1>2, <1>3, <1>6 DEF EntriesKept, Head
<1>10. Emptied(Vol', op')
  BY DEF Emptied
<1> QED
  BY <1>2, <1>7, <1>8, <1>9, <1>10 DEF KInv

LEMMA BlankNames ==
    NoNames(Blank) /\ NoNames([Blank EXCEPT !.dots = TRUE]) /\ \A x : NoNames([Blank EXCEPT !.data = x])
<1>1. \A i \in 1 .. Slots : Blank.ent[i] = NoEntry
  BY DEF Blank
<1> QED
  BY <1>1, BlankIs DEF NoNames

LEMMA ClearOwned == ASSUME IInv, IInv', KInv, Clear PROVE KInv'
<1> DEFINE d == IF op.ncl = op.dcl THEN [Blank EXCEPT !.dots = TRUE] ELSE Blank
<1>1. /\ op.pc = "clear" /\ Ready /\ disk' = [disk EXCEPT ![op.ncl] = Blank] /\ fil' = fil
      /\ win' = [sect |-> op.ncl, buf |-> d, dirty |-> op.ncl = op.dcl]
      /\ op' = [op EXCEPT !.pc = "alloc", !.t = IF op.ncl = op.dcl THEN op.d ELSE op.ncl]
  BY DEF Clear, At
<1>2. /\ op \in OpType /\ op.ncl \in Clusters /\ op.call \in {"open", "mkdir"} /\ fil.sclust = 0
      /\ ~fil.open
  BY <1>1, NameCall DEF IInv, Control, Places, FileInv, OpType
<1>3. ~win.dirty /\ NoNames(d) /\ NoNames(Blank)
  BY <1>1, WantedIs, CleanWindow, BlankNames DEF IInv
<1> HIDE DEF d
<1>4. /\ op'.pc = "alloc" /\ op'.call = op.call /\ op'.d = op.d /\ op'.n = op.n /\ op'.dcl = op.dcl
      /\ op'.t = IF op.ncl = op.dcl THEN op.d ELSE op.ncl
  BY <1>1, <1>2 DEF OpType
<1>5. Bare(Vol, op.ncl) /\ InTree(Vol, op'.d) /\ InTree(Vol, op'.t) /\ op'.n \in Names
  BY <1>1, <1>2, <1>4 DEF KInv, Path
<1>6. Path(Vol, op', fil')
  BY <1>1, <1>2, <1>4, <1>5 DEF Path
<1>7. Held \subseteq Held'
  BY <1>1, <1>2, <1>4 DEF Held, Unentered
<1> QED
  BY <1>1, <1>2, <1>3, <1>4, <1>5, <1>6, <1>7, WipedOwned

\* The clusters of the open file are not in the tree.
LEMMA ChainBare ==
    ASSUME IInv, KInv, Unentered, NEW m \in Nat, NEW F \in [1 .. m -> Clusters], IsChain(m, F),
           NEW j \in 1 .. m
    PROVE  Bare(Vol, F[j])
<1> DEFINE C == {F[k] : k \in 1 .. m}
           S == Clusters \ C
<1>1. Shaped(Vol) /\ GSound(Vol) /\ Fresh(Vol, fil.sclust)
  BY VolShaped DEF IInv, Views, Facts
<1>2. ASSUME NEW k \in 1 .. m
      PROVE  /\ F[k] # Root /\ \A x \in Clusters : Link(Vol, x) = F[k] => x \in C
             /\ \A t \in Clusters, i \in 1 .. Slots : Head(Vol, t, i) # F[k]
  <2>1. \A t \in Clusters, i \in 1 .. Slots : Head(Vol, t, i) # F[k]
    BY ClusterFacts DEF IsChain, Unfiled, Volumes
  <2>2. CASE k = 1
    <3>1. F[k] = fil.sclust
      BY <2>2, ClusterFacts DEF IsChain
    <3> QED
      BY <1>1, <2>1, <3>1 DEF Fresh, Loose
  <2>3. CASE k # 1
    <3>1. k - 1 \in 1 .. m - 1 /\ k - 1 \in 1 .. m /\ (k - 1) + 1 = k
      BY <2>3
    <3>2. Link(Vol, F[k - 1]) = F[k] /\ F[k - 1] \in Clusters /\ F[k] \in Clusters /\ F[k - 1] \in C
      BY <3>1 DEF IsChain
    <3> QED
      BY <1>1, <2>1, <3>2 DEF GSound, LinksOK
  <2> QED
    BY <2>2, <2>3
<1>3. \A x \in S, i \in 1 .. Slots : Entry(Vol, x, i).dir => Head(Vol, x, i) \in S
  BY <1>1, <1>2, DirHead
<1>4. TreeSet(Vol, S)
  BY <1>2, <1>3, ClusterFacts DEF TreeSet
<1>5. F[j] \in Clusters /\ F[j] \notin S
  OBVIOUS
<1> HIDE DEF S
<1>6. ~InTree(Vol, F[j])
  BY <1>4, <1>5 DEF InTree, TreeSet
<1> QED
  BY <1>5, <1>6 DEF KInv, EntriesKept, Bare

LEMMA ChunkOwned == ASSUME IInv, IInv', KInv, Chunk PROVE KInv'
<1>1. op.pc = "chunk" /\ win' = win /\ disk' = disk
  BY DEF Chunk, At
<1>2. op \in OpType /\ FilOK /\ fil \in FilType /\ op.call = "write" /\ fil.open
  BY <1>1 DEF IInv, Control, Places, FileInv, FilOK
<1>3. InTree(Vol, fil.t) /\ fil.n \in Names /\ Head(Vol, fil.t, fil.i) = 0
  BY <1>1, <1>2 DEF KInv, Path
<1>4. SameTables(Vol, Vol') /\ Mirror'
  BY <1>1 DEF Vol, SameTables, SameLinks, KInv, Mirror
<1>5. \/ op'.pc = "idle" /\ op'.call = "none"
      \/ op'.pc \in {"chain", "chunk"} /\ op'.call = "write"
  <2>1. CASE op' = NoCall
    BY <2>1, NoCallIs
  <2>2. CASE op' # NoCall
    BY <1>1, <1>2, <2>2 DEF Chunk, Go, OpType
  <2> QED
    BY <2>1, <2>2
<1>6. /\ fil'.sclust = fil.sclust /\ fil'.open = fil.open /\ fil'.t = fil.t /\ fil'.i = fil.i
      /\ fil'.n = fil.n
  <2>1. CASE fil' = fil
    BY <2>1
  <2>2. CASE fil' # fil
    <3> PICK w \in {Least(Units - (fil.size % Units), op.left)} :
           fil' = [fil EXCEPT !.buf = Filled(w), !.dirty = TRUE, !.size = @ + w]
      BY <2>2 DEF Chunk
    <3> QED
      BY <1>2 DEF FilType
  <2> QED
    BY <2>1, <2>2
<1>7. Held \subseteq Held'
  BY <1>1, <1>2, <1>5, <1>6 DEF Held, Unentered
<1>8. Path(Vol, op', fil')
  BY <1>3, <1>5, <1>6 DEF Path
<1>9. Emptied(Vol, op')
  BY <1>5 DEF Emptied
<1> QED
  BY <1>4, <1>7, <1>8, <1>9, Calmly

\* A step of the open file that writes at most one of its clusters.
LEMMA PastOwned ==
    ASSUME IInv, IInv', KInv, op.pc \in {"spill", "data"}, win' = win,
           op'.call = op.call, op'.pc \in {"chunk", "data", "entry"},
           fil'.sclust = fil.sclust, fil'.open = fil.open, fil'.t = fil.t, fil'.i = fil.i,
           fil'.n = fil.n,
           \/ disk' = disk
           \/ \E c \in Clusters : \E x : ToDisk(c, x) /\ win.sect # c /\ Bare(Vol, c)
    PROVE  KInv'
<1>1. op.call \in {"write", "close"} /\ fil.open
  BY DEF IInv, Control, Places, FileInv
<1>2. InTree(Vol, fil.t) /\ fil.n \in Names /\ Head(Vol, fil.t, fil.i) = 0
  BY <1>1 DEF KInv, Path
<1>3. Held \subseteq Held'
  BY <1>1 DEF Held, Unentered
<1>4. Path(Vol, op', fil') /\ Emptied(Vol, op')
  BY <1>1, <1>2 DEF Path, Emptied
<1>5. CASE disk' = disk
  <2>1. SameTables(Vol, Vol') /\ Mirror'
    BY <1>5 DEF Vol, SameTables, SameLinks, KInv, Mirror
  <2> QED
    BY <1>3, <1>4, <2>1, Calmly
<1>6. CASE disk' # disk
  <2> PICK c \in Clusters : \E x : ToDisk(c, x) /\ win.sect # c /\ Bare(Vol, c)
    BY <1>6
  <2> PICK x : ToDisk(c, x) /\ win.sect # c /\ Bare(Vol, c)
    OBVIOUS
  <2>1. disk' = [disk EXCEPT ![c] = [Blank EXCEPT !.data = x]]
    BY DEF ToDisk
  <2> QED
    BY <1>3, <1>4, <2>1, BlankNames, WipedOwned
<1> QED
  BY <1>5, <1>6

LEMMA SpillOwned == ASSUME IInv, IInv', DInv, KInv, Spill PROVE KInv'
<1>1. /\ op.pc = "spill" /\ win' = win /\ op.call \in {"write", "close"}
      /\ op' = [op EXCEPT !.pc = IF op.call = "close" THEN "entry" ELSE "data"]
      /\ IF fil.dirty
         THEN ToDisk(fil.sect, fil.buf) /\ fil' = [fil EXCEPT !.dirty = FALSE]
         ELSE UNCHANGED <<disk, fil>>
  BY DEF Spill, At, Go, IInv, Control, Places
<1>2. op \in OpType /\ FilOK /\ fil \in FilType /\ fil.open /\ fil.size \in Nat
  BY <1>1 DEF IInv, Control, FilOK, FilType, FileInv
<1>3. op'.pc \in {"entry", "data"} /\ op'.call = op.call
  BY <1>1, <1>2 DEF OpType
<1>4. /\ fil'.sclust = fil.sclust /\ fil'.open = fil.open /\ fil'.t = fil.t /\ fil'.i = fil.i
      /\ fil'.n = fil.n
  BY <1>1, <1>2 DEF FilType
<1>5. ASSUME fil.dirty PROVE fil.sect \in Clusters /\ win.sect # fil.sect /\ Bare(Vol, fil.sect)
  <2>1. ~Closed /\ Unentered
    BY <1>1, <1>2, <1>5 DEF Closed, Unentered, FilOK
  <2> PICK m \in Nat : \E F \in [1 .. m -> Clusters] : IsChain(m, F) /\ HasRoom(m) /\ HasData(F)
    BY <1>2, <2>1 DEF DInv, FileWritten
  <2> PICK F \in [1 .. m -> Clusters] : IsChain(m, F) /\ HasRoom(m) /\ HasData(F)
    OBVIOUS
  <2>2. fil.size # 0 /\ fil.sect = F[Tail(fil.size) + 1] /\ Tail(fil.size) + 1 \in 1 .. m
    BY <1>2, <1>5, PieceAt DEF HasData
  <2>3. fil.sect \in Clusters /\ Bare(Vol, fil.sect)
    BY <2>1, <2>2, ChainBare
  <2> QED
    BY <2>1, <2>3 DEF IInv, WindowInv
<1>6. \/ disk' = disk
      \/ \E c \in Clusters : \E x : ToDisk(c, x) /\ win.sect # c /\ Bare(Vol, c)
  BY <1>1, <1>5
<1> QED
  BY <1>1, <1>3, <1>4, <1>6, PastOwned

LEMMA DataOwned == ASSUME IInv, IInv', CInv, DInv, KInv, Data PROVE KInv'
<1>1. op.pc = "data" /\ win' = win /\ op.call = "write"
  BY DEF Data, At, IInv, Control, Places
<1>2. op \in OpType /\ fil \in FilType
  BY <1>1 DEF IInv, Control, FilOK
<1>3. op'.pc = "chunk" /\ op'.call = op.call
  BY <1>1, <1>2 DEF Data, Go, OpType
<1>4. /\ fil'.sclust = fil.sclust /\ fil'.open = fil.open /\ fil'.t = fil.t /\ fil'.i = fil.i
      /\ fil'.n = fil.n
  BY <1>1, <1>2 DEF Data, FilType
<1>5. fil.clust \in Clusters /\ win.sect # fil.clust /\ Bare(Vol, fil.clust)
  <2> PICK m \in Nat : \E F \in [1 .. m -> Clusters] : Located(m, F)
    BY <1>1, Whereabouts
  <2> PICK F \in [1 .. m -> Clusters] : Located(m, F)
    OBVIOUS
  <2>1. IsChain(m, F) /\ m \in 1 .. m /\ F[m] = fil.clust /\ fil.clust \in Clusters
    BY DEF Located
  <2>2. Unentered
    BY <1>1 DEF IInv, Control, FileInv, Unentered
  <2>3. Bare(Vol, F[m])
    BY <2>1, <2>2, ChainBare
  <2> QED
    BY <2>1, <2>2, <2>3 DEF IInv, WindowInv
<1>6. \/ disk' = disk
      \/ \E c \in Clusters : \E x : ToDisk(c, x) /\ win.sect # c /\ Bare(Vol, c)
  BY <1>1, <1>5 DEF Data
<1> QED
  BY <1>1, <1>3, <1>4, <1>6, PastOwned

(***************************************************************************)
(* The ends of a call, and the beginnings.                                 *)
(***************************************************************************)
LEMMA PutInfoOwned == ASSUME IInv, IInv', KInv, PutInfo PROVE KInv'
<1> DEFINE info == [free |-> fs.free, last |-> fs.last]
<1>1. /\ op.pc = "sync" /\ Ready /\ op' = op /\ fil' = fil /\ win'.sect = Info
      /\ disk' = [disk EXCEPT ![Info] = info]
  BY DEF PutInfo, At
<1> HIDE DEF info
<1>2. ~win.dirty
  BY <1>1, WantedIs, CleanWindow DEF IInv
<1>3. \A s \in Sectors \ {Info} : Vol'[s] = disk[s] /\ disk'[s] = disk[s]
  BY <1>1 DEF Vol
<1>4. SameTables(disk, Vol') /\ SameTables(disk, disk')
  BY <1>3, SectorFacts DEF SameTables, SameLinks, Link, Entry
<1>5. SameTables(disk, Vol)
  BY <1>2 DEF KInv, Mirror
<1>6. SameTables(Vol, Vol') /\ SameTables(disk', Vol')
  BY <1>4, <1>5, SameTablesAgain
<1>7. Held \subseteq Held' /\ Path(Vol, op', fil') /\ Emptied(Vol, op')
  BY <1>1 DEF Held, Unentered, KInv
<1> QED
  BY <1>6, <1>7, Calmly DEF Mirror

LEMMA SyncedOwned == ASSUME IInv, IInv', KInv, Synced PROVE KInv'
<1>1. /\ op.pc = "sync" /\ op.call \in {"mkdir", "unlink", "close"}
      /\ op' = NoCall /\ UNCHANGED <<disk, win>>
      /\ fil' = IF op.call = "close" THEN NoFile ELSE fil
  BY SyncIs DEF Synced
<1>2. SameTables(Vol, Vol') /\ Mirror'
  BY <1>1 DEF Vol, SameTables, SameLinks, KInv, Mirror
<1>3. ~fil'.open
  <2>1. ~NoFile.open
    BY DEF NoFile
  <2> QED
    BY <1>1, <2>1 DEF IInv, Control, FileInv
<1>4. Held = {}
  BY <1>1 DEF Held, Unentered, IInv, Control, FileInv, FilOK
<1>5. Path(Vol, op', fil') /\ Emptied(Vol, op')
  BY <1>1, <1>3, NoCallIs DEF Path, Emptied
<1> QED
  BY <1>2, <1>4, <1>5, Calmly

LEMMA SyncWindowOwned == ASSUME IInv, IInv', KInv, SyncWindow PROVE KInv'
<1>1. /\ win.dirty /\ disk' = [disk EXCEPT ![win.sect] = win.buf]
      /\ win' = [win EXCEPT !.dirty = FALSE] /\ UNCHANGED <<op, fil>>
  BY DEF SyncWindow
<1>2. win.sect \in FatSectors \cup Clusters /\ win.sect \in Sectors
  BY <1>1, SectorFacts DEF IInv, WinInv
<1>3. disk' = Vol
  BY <1>1, <1>2, VolIsOver DEF IInv, Over
<1>4. win'.sect = win.sect /\ win'.buf = win.buf /\ win'.dirty = FALSE
  BY <1>1 DEF IInv, WinInv
<1>5. Vol' = Vol
  BY <1>3, <1>4 DEF Vol
<1>6. SameTables(Vol, Vol)
  BY DEF SameTables, SameLinks
<1>7. SameTables(Vol, Vol') /\ Mirror'
  BY <1>3, <1>5, <1>6 DEF Mirror
<1>8. Held \subseteq Held' /\ Path(Vol, op', fil') /\ Emptied(Vol, op')
  BY <1>1 DEF Held, Unentered, KInv
<1> QED
  BY <1>7, <1>8, Calmly

LEMMA DirectoryInTree == ASSUME IInv, KInv, NEW d \in Directories(Vol) PROVE InTree(Vol, d)
<1>1. CASE d = Root
  BY <1>1, RootInTree
<1>2. CASE d # Root
  <2> PICK t \in Clusters, i \in 1 .. Slots : Entry(Vol, t, i).dir /\ Entry(Vol, t, i).clst = d
    BY <1>2 DEF Directories
  <2>1. Head(Vol, t, i) = d /\ d \in Clusters
    BY VolShaped, DirHead DEF Head
  <2>2. InTree(Vol, t)
    BY <2>1, ClusterFacts DEF KInv, EntriesKept
  <2> QED
    BY <2>1, <2>2, TreeEntry
<1> QED
  BY <1>1, <1>2

LEMMA BeginOwned ==
    ASSUME IInv, IInv', KInv, NEW d \in Directories(Vol), NEW n \in Names, NEW new \in BOOLEAN,
           Open(d, n, new) \/ Mkdir(d, n) \/ Unlink(d, n)
    PROVE  KInv'
<1>1. PICK c \in {"open", "mkdir", "unlink"} :
          op' = OnName(c, d, n) \/ op' = [OnName(c, d, n) EXCEPT !.fresh = new]
  BY DEF Open, Mkdir, Unlink, Begin
<1>2. UNCHANGED <<disk, win, fil>> /\ ~fil.open /\ fil.sclust = 0 /\ op.pc = "idle"
  BY IdleIs DEF Open, Mkdir, Unlink, Begin, Idle, IInv, Control, FilOK
<1>3. /\ op'.pc = "find" /\ op'.call \in {"open", "mkdir", "unlink"} /\ op'.d = d /\ op'.t = d
      /\ op'.n = n /\ op'.seen = {}
  <2> DEFINE k == Call(c)
  <2>1. k \in [call : {c}, pc : {"idle"},
               d : Clusters, n : Names \cup {NoName}, fresh : BOOLEAN, t : Clusters,
               i : 1 .. Slots, clst : Clusters \cup {0}, ncl : Clusters \cup {0},
               dcl : Clusters \cup {0}, left : Nat, seen : {{}}]
    BY NoCallIs DEF Call
  <2> HIDE DEF k
  <2>2. \/ op' = [k EXCEPT !.pc = "find", !.d = d, !.n = n, !.t = d]
        \/ op' = [[k EXCEPT !.pc = "find", !.d = d, !.n = n, !.t = d] EXCEPT !.fresh = new]
    BY <1>1 DEF OnName, k
  <2> QED
    BY <2>1, <2>2
<1>4. SameTables(Vol, Vol') /\ Mirror'
  BY <1>2 DEF Vol, SameTables, SameLinks, KInv, Mirror
<1>5. Held = {}
  BY <1>2, NotHeld
<1>6. InTree(Vol, d)
  BY DirectoryInTree
<1>7. Path(Vol, op', fil') /\ Emptied(Vol, op')
  BY <1>2, <1>3, <1>6 DEF Path, Emptied
<1> QED
  BY <1>4, <1>5, <1>7, Calmly

LEMMA FileCallOwned ==
    ASSUME IInv, IInv', KInv, Close \/ \E k \in 1 .. MaxSize : Write(k) PROVE KInv'
<1>1. UNCHANGED <<disk, win, fil>> /\ Idle /\ fil.open /\ op.call = "none" /\ op.pc = "idle"
  BY IdleIs DEF Close, Write, Idle, IInv
<1>2. \/ op'.pc = "spill" /\ op'.call = "close"
      \/ op'.pc = "chunk" /\ op'.call = "write"
  <2>1. CASE Close
    <3>1. op' = [NoCall EXCEPT !.call = "close", !.pc = "spill", !.d = fil.d, !.n = fil.n]
      BY <2>1, NoCallIs DEF Close, Call
    <3> QED
      BY <3>1, NoCallIs
  <2>2. CASE \E k \in 1 .. MaxSize : Write(k)
    <3>1. PICK k \in 1 .. MaxSize : Write(k)
      BY <2>2
    <3>2. op' = [NoCall EXCEPT !.call = "write", !.pc = "chunk", !.left = k]
      BY <3>1, NoCallIs DEF Write, Call
    <3> QED
      BY <3>2, NoCallIs
  <2> QED
    BY <2>1, <2>2
<1>3. SameTables(Vol, Vol') /\ Mirror'
  BY <1>1 DEF Vol, SameTables, SameLinks, KInv, Mirror
<1>4. Held \subseteq Held'
  BY <1>1, <1>2 DEF Held, Unentered
<1>5. Path(Vol, op', fil') /\ Emptied(Vol, op')
  BY <1>1, <1>2 DEF KInv, Path, Emptied
<1> QED
  BY <1>3, <1>4, <1>5, Calmly

LEMMA QuietOwned == ASSUME IInv', KInv, UNCHANGED <<disk, win, op, fil>> PROVE KInv'
<1>1. SameTables(Vol, Vol') /\ Mirror' /\ Held \subseteq Held'
  BY DEF Vol, SameTables, SameLinks, KInv, Mirror, Held, Unentered
<1>2. Path(Vol, op', fil') /\ Emptied(Vol, op')
  BY DEF KInv
<1> QED
  BY <1>1, <1>2, Calmly

LEMMA InitiallyOwned == ASSUME Clean, Init PROVE KInv
<1>1. /\ disk = Formatted /\ op = NoCall /\ fil = NoFile
      /\ win.sect = Info /\ win.buf = disk[Info]
  BY DEF Init, Loaded
<1>2. /\ disk = [s \in Sectors |-> disk[s]]
      /\ \A c \in Clusters : Link(disk, c) = IF c = Root THEN EndOfChain ELSE 0
      /\ \A t \in Clusters, i \in 1 .. Slots : Head(disk, t, i) = 0
  BY <1>1, FormattedIs DEF Shaped
<1>3. Vol = disk
  BY <1>1, <1>2 DEF Vol
<1>4. Mirror
  BY <1>3 DEF Mirror, SameTables, SameLinks
<1>5. Owning(disk, Held)
  BY <1>2 DEF Owning, Owned, OwnSet
<1>6. EntriesKept(disk)
  BY <1>2 DEF EntriesKept
<1>7. ~fil.open
  BY <1>1 DEF NoFile
<1>8. Path(disk, op, fil) /\ Emptied(disk, op)
  BY <1>1, <1>7, NoCallIs DEF Path, Emptied
<1> QED
  BY <1>3, <1>4, <1>5, <1>6, <1>8 DEF KInv

LEMMA OwnedKept == ASSUME IInv, CInv, DInv, EInv, [Next]_vars PROVE EInv'
<1> SUFFICES ASSUME Plain' PROVE KInv'
  BY DEF EInv
<1>1. IInv'
  BY Kept
<1>2. spent \in [calls : Nat, faults : Nat, losses : Nat]
  BY DEF CInv, Typed, SpentOK
<1>3. ~DiskFault
  <2> SUFFICES ASSUME DiskFault PROVE FALSE
    OBVIOUS
  <2>1. spent' = [spent EXCEPT !.faults = @ + 1]
    BY DEF DiskFault
  <2>2. spent'.faults = spent.faults + 1 /\ spent.faults \in Nat
    BY <1>2, <2>1
  <2> QED
    BY <2>2 DEF Plain
<1>4. ~PowerLoss
  <2> SUFFICES ASSUME PowerLoss PROVE FALSE
    OBVIOUS
  <2>1. spent' = [spent EXCEPT !.losses = @ + 1]
    BY DEF PowerLoss
  <2>2. spent'.losses = spent.losses + 1 /\ spent.losses \in Nat
    BY <1>2, <2>1
  <2> QED
    BY <2>2 DEF Plain
<1>5. ASSUME Plain PROVE KInv
  BY <1>5 DEF EInv
<1>6. CASE CallStep
  <2>1. spent' = spent
    BY <1>6 DEF CallStep, Find, FindNext, CheckEmpty, CheckNext, Register, FullTable, AllocNext, Reset,
       Back, Drop, Free, Allocate, LinkIt, Full, Clear, Chunk, Spill, Data, PutEntry, PutInfo, Synced,
       SyncWindow
  <2>2. KInv
    BY <1>5, <2>1 DEF Plain
  <2> QED
    BY <1>1, <1>6, <2>2, FindOwned, FindNextOwned, CheckEmptyOwned, CheckNextOwned, RegisterOwned,
       FullTableOwned, AllocNextOwned, ResetOwned, BackOwned, DropOwned, FreeOwned, AllocateOwned,
       LinkItOwned, FullOwned, ClearOwned, ChunkOwned, SpillOwned, DataOwned, PutEntryOwned,
       PutInfoOwned, SyncedOwned, SyncWindowOwned
       DEF CallStep
<1>7. CASE User
  <2>1. CASE \E d \in Directories(Vol), n \in Names :
                 \/ \E new \in BOOLEAN : Open(d, n, new)
                 \/ Mkdir(d, n)
                 \/ Unlink(d, n)
    <3>1. spent'.faults = spent.faults /\ spent'.losses = spent.losses
      BY <1>2, <2>1 DEF Open, Mkdir, Unlink, Begin
    <3>2. KInv
      BY <1>5, <3>1 DEF Plain
    <3> QED
      BY <1>1, <2>1, <3>2, BeginOwned
  <2>2. CASE \E d \in Directories(Vol) : Chdir(d)
    BY <1>1, <1>5, <2>2, QuietOwned DEF Chdir, Plain
  <2>3. CASE Close \/ \E k \in 1 .. MaxSize : Write(k)
    <3>1. spent' = spent
      BY <2>3 DEF Close, Write
    <3> QED
      BY <1>1, <1>5, <2>3, <3>1, FileCallOwned DEF Plain
  <2>4. CASE SyncWindow
    BY <1>1, <1>5, <2>4, SyncWindowOwned DEF SyncWindow, Plain
  <2> QED
    BY <1>7, <2>1, <2>2, <2>3, <2>4 DEF User
<1>8. CASE UNCHANGED vars
  BY <1>1, <1>5, <1>8, QuietOwned DEF vars, Plain
<1> QED
  BY <1>3, <1>4, <1>6, <1>7, <1>8 DEF Next

(***************************************************************************)
(* Chain and Dirs are closed: they grow, and there are fewer clusters than *)
(* steps.                                                                  *)
(***************************************************************************)
Levelled(n, U, A, G, f) ==
    f \in [0 .. n -> SUBSET U] /\ f[0] = A /\ \A k \in 1 .. n : f[k] = G[f[k - 1]]

LEMMA Levels ==
    ASSUME NEW n \in Nat, NEW U, NEW A \in SUBSET U, NEW G \in [SUBSET U -> SUBSET U]
    PROVE  \E f : Levelled(n, U, A, G, f)
<1> DEFINE S == {m \in 0 .. n : \E f \in [0 .. m -> SUBSET U] :
                                    f[0] = A /\ \A k \in 1 .. m : f[k] = G[f[k - 1]]}
<1>1. 0 \in S
  <2> DEFINE f == [k \in 0 .. 0 |-> A]
  <2>1. 0 \in 0 .. 0 /\ 0 \in 0 .. n /\ 1 .. 0 = {}
    OBVIOUS
  <2>2. f \in [0 .. 0 -> SUBSET U] /\ f[0] = A
    BY <2>1
  <2> HIDE DEF f
  <2> QED
    BY <2>1, <2>2
<1>2. ASSUME NEW m \in 1 .. n, m - 1 \in S PROVE m \in S
  <2> PICK g \in [0 .. m - 1 -> SUBSET U] : g[0] = A /\ \A k \in 1 .. m - 1 : g[k] = G[g[k - 1]]
    BY <1>2
  <2> DEFINE f == [k \in 0 .. m |-> IF k = m THEN G[g[m - 1]] ELSE g[k]]
  <2>1. m \in Int /\ m >= 1 /\ m - 1 \in 0 .. m - 1
    OBVIOUS
  <2>2. f[m] = G[g[m - 1]] /\ \A k \in 0 .. m - 1 : f[k] = g[k]
    BY <2>1
  <2>3. f \in [0 .. m -> SUBSET U]
    <3>1. G[g[m - 1]] \in SUBSET U
      BY <2>1
    <3>2. \A k \in 0 .. m : k # m => k \in 0 .. m - 1
      BY <2>1
    <3> QED
      BY <3>1, <3>2
  <2> HIDE DEF f
  <2>4. ASSUME NEW k \in 1 .. m PROVE f[k] = G[f[k - 1]]
    <3>1. k - 1 \in 0 .. m - 1 /\ (k # m => k \in 1 .. m - 1 /\ k \in 0 .. m - 1)
      BY <2>1
    <3> QED
      BY <2>2, <3>1
  <2>5. f[0] = A
    BY <2>1, <2>2
  <2> QED
    BY <2>3, <2>4, <2>5
<1>3. n \in S
  <2> HIDE DEF S
  <2>1. 0 .. n \subseteq S
    BY <1>1, <1>2, Induction
  <2> QED
    BY <2>1
<1> QED
  BY <1>3 DEF Levelled

LEMMA Saturates ==
    ASSUME NEW n \in Nat \ {0}, NEW U, IsFiniteSet(U), Cardinality(U) < n, NEW f,
           \A k \in 0 .. n : f[k] \in SUBSET U, \A k \in 1 .. n : f[k - 1] \subseteq f[k],
           \A k \in 1 .. n - 1 : f[k] = f[k - 1] => f[k + 1] = f[k]
    PROVE  f[n] = f[n - 1]
<1> DEFINE S == {k \in 0 .. n : Cardinality(f[k]) >= k \/ (k # 0 /\ f[k] = f[k - 1])}
<1>1. \A k \in 0 .. n : IsFiniteSet(f[k]) /\ Cardinality(f[k]) \in Nat /\ Cardinality(f[k]) <= Cardinality(U)
  BY FS_Subset, FS_CardinalityType
<1>2. 0 \in S
  <2>1. 0 \in 0 .. n
    OBVIOUS
  <2>2. Cardinality(f[0]) >= 0
    BY <1>1, <2>1
  <2> QED
    BY <2>1, <2>2
<1>3. ASSUME NEW k \in 1 .. n, k - 1 \in S PROVE k \in S
  <2>1. k \in 0 .. n /\ k - 1 \in 0 .. n /\ k # 0
    OBVIOUS
  <2>2. f[k - 1] \subseteq f[k]
    OBVIOUS
  <2>3. CASE f[k] = f[k - 1]
    BY <2>1, <2>3
  <2>4. CASE f[k] # f[k - 1]
    <3>1. ~(k - 1 # 0 /\ f[k - 1] = f[(k - 1) - 1])
      <4> SUFFICES ASSUME k - 1 # 0, f[k - 1] = f[(k - 1) - 1] PROVE FALSE
        OBVIOUS
      <4>1. k - 1 \in 1 .. n - 1 /\ (k - 1) + 1 = k
        OBVIOUS
      <4> QED
        BY <2>4, <4>1
    <3>2. Cardinality(f[k - 1]) >= k - 1
      BY <1>3, <3>1
    <3>3. f[k - 1] \in SUBSET f[k] /\ IsFiniteSet(f[k])
      BY <1>1, <2>1, <2>2
    <3>4. Cardinality(f[k - 1]) <= Cardinality(f[k]) /\ Cardinality(f[k - 1]) # Cardinality(f[k])
      BY <2>4, <3>3, FS_Subset
    <3>5. Cardinality(f[k]) >= k
      BY <1>1, <2>1, <3>2, <3>4
    <3> QED
      BY <2>1, <3>5
  <2> QED
    BY <2>3, <2>4
<1> HIDE DEF S
<1>4. 0 .. n \subseteq S
  BY <1>2, <1>3, Induction
<1>5. n \in S /\ n \in 0 .. n
  BY <1>4
<1>6. Cardinality(f[n]) <= Cardinality(U) /\ Cardinality(f[n]) \in Nat /\ Cardinality(U) \in Nat
  BY <1>1, <1>5, FS_CardinalityType
<1>7. ~(Cardinality(f[n]) >= n)
  BY <1>6
<1> QED
  BY <1>5, <1>7 DEF S

LEMMA ClustersFew ==
    /\ LastCluster \in Nat \ {0} /\ LastCluster \in 0 .. LastCluster
    /\ LastCluster - 1 \in 0 .. LastCluster
    /\ IsFiniteSet(Clusters) /\ Cardinality(Clusters) < LastCluster
<1>1. LastCluster \in Nat \ {0, 1}
  BY FatAssumption
<1>2. IsFiniteSet(Clusters) /\ Cardinality(Clusters) = LastCluster - 1
  BY <1>1, FS_Interval DEF Clusters
<1> QED
  BY <1>1, <1>2

\* f[k] is what Chain finds in k steps.
Reaching(v, d, f) ==
    f = [k \in 0 .. LastCluster |->
             IF k = 0 THEN {d} ELSE f[k - 1] \cup ({Link(v, x) : x \in f[k - 1]} \cap Clusters)]

LEMMA ChainSteps == ASSUME NEW v, NEW d \in Clusters PROVE \E f : Reaching(v, d, f)
<1> DEFINE N == LastCluster
           G == [S \in SUBSET Clusters |-> S \cup ({Link(v, x) : x \in S} \cap Clusters)]
<1>1. G \in [SUBSET Clusters -> SUBSET Clusters] /\ {d} \in SUBSET Clusters
  OBVIOUS
<1>2. \A S \in SUBSET Clusters : G[S] = S \cup ({Link(v, x) : x \in S} \cap Clusters)
  OBVIOUS
<1> HIDE DEF G
<1>3. N \in Nat
  BY ClustersFew
<1>4. \E f : Levelled(N, Clusters, {d}, G, f)
  <2> HIDE DEF N
  <2> QED
    BY <1>1, <1>3, Levels
<1> PICK f : Levelled(N, Clusters, {d}, G, f)
  BY <1>4
<1> USE DEF Levelled
<1>5. \A k \in 0 .. N : k # 0 => k \in 1 .. N /\ k - 1 \in 0 .. N
  BY <1>3
<1>6. \A k \in 0 .. N : f[k] = IF k = 0 THEN {d}
                               ELSE f[k - 1] \cup ({Link(v, x) : x \in f[k - 1]} \cap Clusters)
  BY <1>2, <1>5
<1>7. Reaching(v, d, f)
  BY <1>6 DEF Reaching
<1> QED
  BY <1>7

LEMMA ChainClosed ==
    ASSUME NEW v, NEW d \in Clusters
    PROVE  /\ d \in Chain(v, d) /\ Chain(v, d) \subseteq Clusters
           /\ \A x \in Chain(v, d) : Link(v, x) \in Clusters => Link(v, x) \in Chain(v, d)
<1> DEFINE N == LastCluster
           R == CHOOSE f : Reaching(v, d, f)
<1>1. Reaching(v, d, R)
  BY ChainSteps
<1>3. Chain(v, d) = R[N] \cap Clusters
  BY DEF Chain, Reaching
<1> HIDE DEF R
<1>4. /\ R[0] = {d}
      /\ \A k \in 1 .. N : R[k] = R[k - 1] \cup ({Link(v, x) : x \in R[k - 1]} \cap Clusters)
  BY <1>1, ClustersFew DEF Reaching
<1>5. N \in Nat /\ N \in 0 .. N /\ N \in 1 .. N
  BY ClustersFew
<1>6. \A k \in 0 .. N : R[k] \in SUBSET Clusters /\ d \in R[k]
  <2> DEFINE T == {k \in 0 .. N : R[k] \in SUBSET Clusters /\ d \in R[k]}
  <2>1. 0 \in T
    BY <1>4, <1>5
  <2>2. \A k \in 1 .. N : k - 1 \in T => k \in T
    BY <1>4
  <2> HIDE DEF T
  <2>3. 0 .. N \subseteq T
    BY <1>5, <2>1, <2>2, Induction
  <2> QED
    BY <2>3 DEF T
<1>7. R[N] = R[N - 1]
  <2>1. \A k \in 1 .. N : R[k - 1] \subseteq R[k]
    BY <1>4
  <2>2. ASSUME NEW k \in 1 .. N - 1, R[k] = R[k - 1] PROVE R[k + 1] = R[k]
    <3>1. k \in 1 .. N /\ k + 1 \in 1 .. N /\ (k + 1) - 1 = k
      BY <1>5
    <3> QED
      BY <1>4, <2>2, <3>1
  <2> QED
    BY <1>6, <2>1, <2>2, ClustersFew, Saturates
<1>8. R[N] = R[N] \cup ({Link(v, x) : x \in R[N]} \cap Clusters)
  BY <1>4, <1>5, <1>7
<1>9. R[N] \in SUBSET Clusters /\ d \in R[N]
  BY <1>5, <1>6
<1> HIDE DEF N
<1> QED
  BY <1>3, <1>8, <1>9

LEMMA DirsClosed ==
    ASSUME NEW v
    PROVE  /\ Root \in Dirs(v) /\ Dirs(v) \subseteq Clusters
           /\ \A d \in Dirs(v) : SubDirs(v, d) \cap Clusters \subseteq Dirs(v)
<1> DEFINE N == LastCluster
           L(f) == f = [k \in 0 .. N |->
                        IF k = 0 THEN {Root}
                        ELSE f[k - 1] \cup ((UNION {SubDirs(v, x) : x \in f[k - 1]}) \cap Clusters)]
           R == CHOOSE f : L(f)
<1>1. \E f : L(f)
  <2> DEFINE G == [S \in SUBSET Clusters |-> S \cup ((UNION {SubDirs(v, x) : x \in S}) \cap Clusters)]
  <2>1. G \in [SUBSET Clusters -> SUBSET Clusters] /\ {Root} \in SUBSET Clusters
    BY ClusterFacts
  <2>2. \A S \in SUBSET Clusters : G[S] = S \cup ((UNION {SubDirs(v, x) : x \in S}) \cap Clusters)
    OBVIOUS
  <2> HIDE DEF G
  <2>3. N \in Nat
    BY ClustersFew
  <2>4. \E f : Levelled(N, Clusters, {Root}, G, f)
    <3> HIDE DEF N
    <3> QED
      BY <2>1, <2>3, Levels
  <2> PICK f : Levelled(N, Clusters, {Root}, G, f)
    BY <2>4
  <2> USE DEF Levelled
  <2>5. \A k \in 0 .. N : k # 0 => k \in 1 .. N /\ k - 1 \in 0 .. N
    BY <2>3
  <2>6. \A k \in 0 .. N : f[k] = IF k = 0 THEN {Root}
                                 ELSE f[k - 1] \cup ((UNION {SubDirs(v, x) : x \in f[k - 1]}) \cap Clusters)
    BY <2>2, <2>5
  <2>7. L(f)
    BY <2>6
  <2> QED
    BY <2>7
<1>2. L(R)
  BY <1>1
<1>3. Dirs(v) = R[N]
  BY DEF Dirs
<1> HIDE DEF R
<1>4. /\ R[0] = {Root}
      /\ \A k \in 1 .. N : R[k] = R[k - 1] \cup ((UNION {SubDirs(v, x) : x \in R[k - 1]}) \cap Clusters)
  BY <1>2, ClustersFew
<1> HIDE DEF L
<1>5. N \in Nat /\ N \in 0 .. N /\ N \in 1 .. N
  BY ClustersFew
<1>6. \A k \in 0 .. N : R[k] \in SUBSET Clusters /\ Root \in R[k]
  <2> DEFINE T == {k \in 0 .. N : R[k] \in SUBSET Clusters /\ Root \in R[k]}
  <2>1. 0 \in T
    BY <1>4, <1>5, ClusterFacts
  <2>2. \A k \in 1 .. N : k - 1 \in T => k \in T
    BY <1>4
  <2> HIDE DEF T
  <2>3. 0 .. N \subseteq T
    BY <1>5, <2>1, <2>2, Induction
  <2> QED
    BY <2>3 DEF T
<1>7. R[N] = R[N - 1]
  <2>1. \A k \in 1 .. N : R[k - 1] \subseteq R[k]
    BY <1>4
  <2>2. ASSUME NEW k \in 1 .. N - 1, R[k] = R[k - 1] PROVE R[k + 1] = R[k]
    <3>1. k \in 1 .. N /\ k + 1 \in 1 .. N /\ (k + 1) - 1 = k
      BY <1>5
    <3> QED
      BY <1>4, <2>2, <3>1
  <2> QED
    BY <1>6, <2>1, <2>2, ClustersFew, Saturates
<1>8. R[N] = R[N] \cup ((UNION {SubDirs(v, x) : x \in R[N]}) \cap Clusters)
  BY <1>4, <1>5, <1>7
<1>9. R[N] \in SUBSET Clusters /\ Root \in R[N]
  BY <1>5, <1>6
<1>10. \A x \in R[N] : SubDirs(v, x) \subseteq UNION {SubDirs(v, y) : y \in R[N]}
  OBVIOUS
<1>11. \A x \in R[N] : SubDirs(v, x) \cap Clusters \subseteq R[N]
  BY <1>8, <1>10
<1> QED
  BY <1>3, <1>9, <1>11

\* The clusters of the directories are those in the tree.
LEMMA TablesTree == ASSUME NEW v, Shaped(v) PROVE TreeSet(v, Tables(v))
<1>1. /\ Root \in Dirs(v) /\ Dirs(v) \subseteq Clusters
      /\ \A d \in Dirs(v) : SubDirs(v, d) \cap Clusters \subseteq Dirs(v)
  BY DirsClosed
<1>2. \A x : x \in Tables(v) <=> \E d \in Dirs(v) : x \in Chain(v, d)
  BY DEF Tables
<1>3. Tables(v) \subseteq Clusters /\ Root \in Tables(v)
  BY <1>1, <1>2, ChainClosed
<1>4. ASSUME NEW x \in Tables(v), Link(v, x) \in Clusters PROVE Link(v, x) \in Tables(v)
  BY <1>1, <1>2, <1>4, ChainClosed
<1>5. ASSUME NEW x \in Tables(v), NEW i \in 1 .. Slots, Entry(v, x, i).dir PROVE Head(v, x, i) \in Tables(v)
  <2> PICK d \in Dirs(v) : x \in Chain(v, d)
    BY <1>2
  <2>1. Head(v, x, i) \in Clusters
    BY <1>3, <1>5, DirHead
  <2>2. Head(v, x, i) \in SubDirs(v, d)
    <3> DEFINE p == <<x, i>>
    <3>1. p \in {q \in Chain(v, d) \X (1 .. Slots) : Entry(v, q[1], q[2]).dir}
      BY <1>5
    <3>2. Entry(v, p[1], p[2]).clst = Head(v, x, i)
      BY DEF Head
    <3> QED
      BY <3>1, <3>2 DEF SubDirs
  <2>3. Head(v, x, i) \in Dirs(v)
    BY <1>1, <2>1, <2>2
  <2> QED
    BY <1>2, <2>1, <2>3, ChainClosed
<1> QED
  BY <1>3, <1>4, <1>5 DEF TreeSet

LEMMA OwnedIsFound == ASSUME IInv, EInv PROVE NoLostCluster
<1> SUFFICES ASSUME Quiet, Plain, NEW c \in Clusters \ FreeIn(Vol)
             PROVE  c \in Tables(Vol) \/ \E p \in Heads(Vol) : c \in Chain(Vol, HeadOf(Vol, p))
  BY DEF NoLostCluster, Plain
<1> DEFINE v == Vol
<1>1. KInv
  BY DEF EInv
<1>2. Shaped(v)
  BY VolShaped
<1>3. Held = {}
  <2>1. op.pc = "idle" /\ fil.sclust = 0
    BY IdleIs DEF Quiet, Idle, IInv, Control, FilOK
  <2> QED
    BY <2>1, NotHeld
<1>4. Owned(v, {}, c)
  BY <1>1, <1>3 DEF KInv, Owning, FreeIn
<1>5. EntriesKept(v)
  BY <1>1 DEF KInv
<1> HIDE DEF v
<1> DEFINE S == Tables(v) \cup UNION {Chain(v, HeadOf(v, p)) : p \in Heads(v)}
<1>6. TreeSet(v, Tables(v))
  BY <1>2, TablesTree
<1>7. ASSUME NEW x \in Clusters, NEW i \in 1 .. Slots, Head(v, x, i) # 0
      PROVE  <<x, i>> \in Heads(v) /\ HeadOf(v, <<x, i>>) = Head(v, x, i) /\ Head(v, x, i) \in Clusters
  <2>1. InTree(v, x)
    BY <1>5, <1>7 DEF EntriesKept
  <2>2. x \in Tables(v)
    BY <1>6, <2>1 DEF InTree, TreeSet
  <2>3. EntryOK(Entry(v, x, i))
    BY <1>2, EntriesOK
  <2> QED
    BY <1>7, <2>2, <2>3 DEF Heads, HeadOf, Head, EntryOK
<1>8. \A p \in Heads(v) : HeadOf(v, p) \in Clusters
  <2> SUFFICES ASSUME NEW p \in Heads(v) PROVE HeadOf(v, p) \in Clusters
    OBVIOUS
  <2>1. p[1] \in Tables(v) /\ p[2] \in 1 .. Slots /\ Head(v, p[1], p[2]) # 0 /\ HeadOf(v, p) = Head(v, p[1], p[2])
    BY DEF Heads, Head, HeadOf
  <2>2. p[1] \in Clusters
    BY <1>6, <2>1 DEF TreeSet
  <2> QED
    BY <1>7, <2>1, <2>2
<1>9. S \subseteq Clusters
  BY <1>6, <1>8, ChainClosed DEF TreeSet
<1>10. ASSUME NEW x \in S, Link(v, x) \in Clusters PROVE Link(v, x) \in S
  <2>1. CASE x \in Tables(v)
    BY <1>6, <1>10, <2>1 DEF TreeSet
  <2>2. CASE x \notin Tables(v)
    <3> PICK p \in Heads(v) : x \in Chain(v, HeadOf(v, p))
      BY <2>2
    <3>1. Link(v, x) \in Chain(v, HeadOf(v, p))
      BY <1>8, <1>10, ChainClosed
    <3> QED
      BY <3>1
  <2> QED
    BY <2>1, <2>2
<1>11. ASSUME NEW x \in S, NEW i \in 1 .. Slots, Head(v, x, i) # 0 PROVE Head(v, x, i) \in S
  <2>1. x \in Clusters
    BY <1>9
  <2>2. /\ <<x, i>> \in Heads(v) /\ HeadOf(v, <<x, i>>) = Head(v, x, i)
        /\ Head(v, x, i) \in Clusters
    BY <1>7, <1>11, <2>1
  <2>3. Head(v, x, i) \in Chain(v, HeadOf(v, <<x, i>>))
    BY <2>2, ChainClosed
  <2> QED
    BY <2>2, <2>3
<1>12. Root \in S
  BY <1>6 DEF TreeSet
<1>13. OwnSet(v, {}, S)
  BY <1>9, <1>10, <1>11, <1>12 DEF OwnSet
<1>14. c \in S
  BY <1>4, <1>9, <1>13 DEF Owned
<1> QED
  BY <1>14 DEF v

\* While nothing fails, no call that ends leaves a cluster that is neither
\* free nor part of a file or directory a path leads to: not f_unlink, whose
\* remove_chain is the last thing it does, and not f_mkdir or f_write on a
\* full volume.
THEOREM NothingLost == ASSUME Clean PROVE Spec => []NoLostCluster
<1>1. Init => IInv /\ CInv /\ DInv /\ EInv
  BY Initially, InitiallyCounted, InitiallyWhole, InitiallyOwned DEF EInv
<1>2. IInv /\ CInv /\ DInv /\ EInv /\ [Next]_vars => (IInv /\ CInv /\ DInv /\ EInv)'
  BY Kept, CountsKept, WholeKept, OwnedKept
<1>3. IInv /\ EInv => NoLostCluster
  BY OwnedIsFound
<1> QED
  BY <1>1, <1>2, <1>3, PTL DEF Spec
=============================================================================
