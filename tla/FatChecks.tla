----------------------------- MODULE FatChecks -----------------------------
(***************************************************************************)
(* What a FAT volume must keep: in the middle of every call, after an      *)
(* access that failed and after the power has gone.                        *)
(***************************************************************************)
EXTENDS FatVolume

\* The sectors hold what they are for, and the counts stay in their ranges.
TypeOK ==
    /\ \A f \in FatSectors : disk[f] \in [InSector(f) -> Links]
    /\ \A c \in Clusters : disk[c] \in Contents
    /\ disk[Info].free \in 0 .. LastCluster - 1
    /\ win.sect \in Sectors \cup {NoSector}
    /\ win.dirty => win.sect \in FatSectors \cup Clusters
    /\ fs.free \in 0 .. LastCluster - 1 /\ fs.cdir \in Clusters
    /\ op.t \in Clusters /\ {op.clst, op.ncl, op.dcl} \subseteq Clusters \cup {0}
    /\ fil.size \in 0 .. MaxSize /\ fil.sclust \in Clusters \cup {0}

(***************************************************************************)
(* The volume is sound when nothing in it refers to a free cluster and no  *)
(* cluster has two owners.  A cluster is referred to by the link of        *)
(* another one or by an entry of a directory that a path can reach.        *)
(***************************************************************************)
\* The clusters of the chain that starts at d, and the directories that can be
\* reached from the root.
Chain(v, d) ==
    LET R[k \in 0 .. LastCluster] ==
            IF k = 0 THEN {d}
            ELSE LET S == R[k - 1] IN S \cup ({Link(v, x) : x \in S} \cap Clusters)
    IN  R[LastCluster] \cap Clusters
SubDirs(v, x) ==
    {Entry(v, p[1], p[2]).clst : p \in {q \in Chain(v, x) \X (1 .. Slots) : Entry(v, q[1], q[2]).dir}}
Dirs(v) ==
    LET R[k \in 0 .. LastCluster] ==
            IF k = 0 THEN {Root}
            ELSE LET S == R[k - 1] IN S \cup ((UNION {SubDirs(v, x) : x \in S}) \cap Clusters)
    IN  R[LastCluster]

Tables(v) == UNION {Chain(v, d) : d \in Dirs(v)}
Heads(v)  == {p \in Tables(v) \X (1 .. Slots) : Entry(v, p[1], p[2]).clst # 0}
HeadOf(v, p) == Entry(v, p[1], p[2]).clst

LinksSound(v) ==
    \A c \in Clusters : Link(v, c) \in Clusters =>
        /\ Link(v, c) # Root
        /\ Link(v, Link(v, c)) # 0
        /\ \A x \in Clusters : Link(v, x) = Link(v, c) => x = c

HeadsSound(v) ==
    LET H == Heads(v) IN
    \A p \in H :
        /\ HeadOf(v, p) # Root
        /\ Link(v, HeadOf(v, p)) # 0
        /\ \A x \in Clusters : Link(v, x) # HeadOf(v, p)
        /\ \A q \in H : HeadOf(v, q) = HeadOf(v, p) => q = p

Sound(v) == Link(v, Root) # 0 /\ LinksSound(v) /\ HeadsSound(v)

\* On the disk and in what FatFs sees of it, at every moment, no cluster has
\* two owners and nothing refers to a free cluster: a call that is cut short,
\* by a fault or by the power, costs lost clusters at most (appnote.html,
\* "Critical Section").
NoCrossLink == Sound(disk) /\ Sound(Vol)

\* A volume that is mounted again after the power was lost has no cross link:
\* appnote.html, "Critical Section", has one only for the red section, which
\* is f_rename.
SoundAfterLoss == (Idle /\ spent.losses > 0) => Sound(disk)

(***************************************************************************)
(* What f_read returns of a file.                                          *)
(***************************************************************************)
ClusterAt(v, c, k) ==
    LET F[j \in 0 .. MaxSize] == IF j = 0 THEN c ELSE Link(v, F[j - 1]) IN F[k]
Unit(v, e, k) == v[ClusterAt(v, e.clst, (k - 1) \div Units)].data[((k - 1) % Units) + 1]

\* Whatever is on the disk under a name is the beginning of one save, or a
\* directory that starts with its dot entries: never a mixture of two saves,
\* or what the clusters held before.
NotMixed ==
    \A p \in Heads(disk) :
        LET e == Entry(disk, p[1], p[2]) IN
        /\ e.dir => disk[e.clst].dots
        /\ (~e.dir /\ e.size > 0) =>
              \E w \in 1 .. spent.calls : \A k \in 1 .. e.size : Unit(disk, e, k) = <<w, k>>

Holds(e, k) ==
    CASE k.kind = "file" -> /\ ~e.dir /\ e.size = k.size
                            /\ \A u \in 1 .. k.size : Unit(disk, e, u) = <<k.ver, u>>
      [] k.kind = "dir"  -> e.dir /\ e.clst = k.ver
      [] OTHER -> FALSE

\* What a call reported with FR_OK is on the disk and stays there, whatever
\* happens to the calls after it, until a call on the same name changes it.
KeptPromise ==
    \A d \in Clusters, n \in Names :
        LET k == known[d][n]
            E == {p \in Chain(disk, d) \X (1 .. Slots) : Entry(disk, p[1], p[2]).name = n}
        IN  /\ k.kind = "absent" => E = {}
            /\ k.kind \in {"file", "dir"} =>
                  \E p \in E : E = {p} /\ Holds(Entry(disk, p[1], p[2]), k)

(***************************************************************************)
(* Space.                                                                  *)
(***************************************************************************)
FreeIn(v) == {c \in Clusters : Link(v, c) = 0}
Quiet == Idle /\ ~fil.open

\* The count of free clusters is exact between calls as long as nothing
\* fails, in FSInfo too unless fsi_flag says it is to be written, and never
\* too low as long as the power stays on: create_chain reports a full volume
\* only when it is full.
FreeCount ==
    /\ (Quiet /\ spent.faults = 0 /\ spent.losses = 0) =>
          /\ fs.free = Cardinality(FreeIn(Vol))
          /\ disk[Info].free = fs.free \/ fs.flag
    /\ spent.losses = 0 => fs.free >= Cardinality(FreeIn(Vol))

\* As long as nothing fails, every cluster that is not free belongs to
\* something: no call that ends leaves lost clusters, also when it reports
\* that the volume is full or the directory not empty.  (In the window: an
\* f_mkdir that finds no room for the entry frees its cluster there, and
\* returns without sync_fs.)
NoLostCluster ==
    (Quiet /\ spent.faults = 0 /\ spent.losses = 0) =>
        \A c \in Clusters \ FreeIn(Vol) :
            \/ c \in Tables(Vol)
            \/ \E p \in Heads(Vol) : c \in Chain(Vol, HeadOf(Vol, p))

=============================================================================
