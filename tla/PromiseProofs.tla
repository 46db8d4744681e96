--------------------------- MODULE PromiseProofs ---------------------------
(***************************************************************************)
(* KeptPromise for any number of clusters, sectors of the FAT, entries and *)
(* calls, and for faults and power losses without limit, when the free     *)
(* clusters of a new volume hold no names.                                 *)
(*                                                                         *)
(* The invariant, TInv, stands on the three of FatProofs: no cross links,  *)
(* the shape of what clusters hold, and what files hold.  It says of each  *)
(* volume FatFs may see, and of the disk under a dirty window, that        *)
(* directories have no name twice and that what was told is so; and of the *)
(* call that runs what it knows about its name, and what it has read.      *)
(* Most steps only let directories grow by clusters without names (Grows)  *)
(* and leave the data of every file alone (SameUnits); the others change   *)
(* one entry under one name of which nothing is told any more (Puts); and  *)
(* Synced tells something new.                                             *)
(***************************************************************************)
EXTENDS FatProofs

\* Nothing of an old directory is left in a free cluster.
Nameless == \A i \in 1 .. Slots : Leftover.ent[i] = NoEntry

(***************************************************************************)
(* The invariant.                                                          *)
(***************************************************************************)
\* The clusters of the directory that starts at d, and clusters without names.
Line(v, d) ==
    {x \in Clusters : \A S \in SUBSET Clusters : d \in S /\ Within(v, S, S) => x \in S}
Vacant(v, c) == \A i \in 1 .. Slots : Entry(v, c, i) = NoEntry
Spare(v, c) ==
    \E S \in SUBSET Clusters : c \in S /\ Within(v, S, S) /\ \A x \in S : Vacant(v, x)

\* A free entry is blank, free clusters and clusters of files have no names,
\* and no directory has a name twice.
Unique(v, d) ==
    \A x, y \in Line(v, d), i, j \in 1 .. Slots :
        Entry(v, x, i).name = Entry(v, y, j).name /\ Entry(v, x, i).name # NoName => x = y /\ i = j
Tidy(v) ==
    /\ \A t \in Clusters, i \in 1 .. Slots : Entry(v, t, i).name = NoName => Entry(v, t, i) = NoEntry
    /\ \A c \in Clusters : Link(v, c) = 0 => Vacant(v, c)
    /\ \A t \in Clusters, i \in 1 .. Slots :
          Head(v, t, i) # 0 /\ ~Entry(v, t, i).dir => Spare(v, Head(v, t, i))
    /\ \A d \in Directories(v) : Unique(v, d)

\* What known tells of a name is so.
NotThere(v, d, n) == \A x \in Line(v, d) : ~HasName(v, x, n)
Keeps(v, e, k) ==
    /\ k.kind = "file" =>
          /\ ~e.dir /\ e.size = k.size /\ (e.clst = 0 => e.size = 0)
          /\ \A u \in 1 .. k.size : Unit(v, e, u) = <<k.ver, u>>
    /\ k.kind = "dir" => e.dir /\ e.clst = k.ver
Promised(v, kn) ==
    \A d \in Clusters, n \in Names :
        /\ kn[d][n].kind # "unknown" => d \in Directories(v)
        /\ kn[d][n].kind = "absent" => NotThere(v, d, n)
        /\ kn[d][n].kind \in {"file", "dir"} =>
              \E x \in Line(v, d), i \in 1 .. Slots :
                  Entry(v, x, i).name = n /\ Keeps(v, Entry(v, x, i), kn[d][n])

\* The call on a name that runs.
NameCalls == {"open", "mkdir", "unlink"}
Making  == {"alloc", "alloc_next", "chain", "link", "clear"}
FileEntry(f) == [name |-> f.n, dir |-> FALSE, clst |-> f.sclust, size |-> f.size]
NewFile(n) == [NoEntry EXCEPT !.name = n]
Aim(v, o, kn) ==
    /\ o.call \in NameCalls => o.n \in Names /\ o.d \in Directories(v) /\ o.t \in Line(v, o.d)
    /\ o.call \in {"open", "mkdir"} /\ o.pc \in Making => NotThere(v, o.d, o.n)
    /\ o.call = "unlink" /\ o.pc \in {"free", "sync"} => NotThere(v, o.d, o.n)
    /\ o.pc \in {"reset", "drop", "empty", "empty_next"} => Entry(v, o.t, o.i).name = o.n
    /\ o.pc = "reset" => o.call = "open" /\ ~Entry(v, o.t, o.i).dir
    /\ o.call = "open" /\ o.pc \in {"free", "back"} =>
          Entry(v, o.t, o.i) = NewFile(o.n) /\ kn[o.d][o.n].kind = "unknown"
    /\ o.call = "mkdir" /\ o.pc = "sync" =>
          \E i \in 1 .. Slots :
              Entry(v, o.t, i) = [name |-> o.n, dir |-> TRUE, clst |-> o.dcl, size |-> 0]
\* The clusters it takes or gives back.
Room(v, o) ==
    /\ o.pc = "drop" /\ o.clst # 0 => Spare(v, o.clst)
    /\ o.pc = "free" => Spare(v, o.clst)
    /\ o.pc \in {"link", "clear"} => Spare(v, o.ncl)
    /\ o.call = "mkdir" /\ o.dcl # 0 /\ o.pc \in Making \cup {"sync"} => Spare(v, o.dcl)
    /\ o.pc = "clear" => o.call \in {"open", "mkdir"}
    /\ o.pc = "clear" /\ o.ncl # o.dcl => o.ncl \in Line(v, o.d)
    /\ o.pc \in {"chain", "link"} /\ o.call # "write" /\ o.clst # 0 => o.clst = o.t
    /\ o.pc = "chain" /\ (o.call = "open" \/ (o.call = "mkdir" /\ o.dcl # 0)) => o.clst # 0
    /\ o.pc = "back" => o.call = "open"
\* The file that is open.
ClosedBy(o) == o.call = "close" /\ o.pc = "sync"
Filing(v, o, f, kn) ==
    /\ f.open => /\ f.n \in Names /\ f.d \in Directories(v) /\ f.t \in Line(v, f.d)
                 /\ kn[f.d][f.n].kind = "unknown"
                 /\ Entry(v, f.t, f.i) = IF ClosedBy(o) THEN FileEntry(f) ELSE NewFile(f.n)
    /\ f.sclust # 0 /\ ~ClosedBy(o) => Spare(v, f.sclust)
    /\ o.call = "close" => o.d = f.d /\ o.n = f.n
\* What has been read of the directories.
Searching(v, o) ==
    /\ o.pc = "find" =>
          o.seen = {} /\ \A x \in Line(v, o.d) : HasName(v, x, o.n) => x \in Line(v, o.t)
    /\ o.pc = "find_next" =>
          /\ o.seen = {}
          /\ \A x \in Line(v, o.d) : HasName(v, x, o.n) =>
                Link(v, o.t) \in Clusters /\ x \in Line(v, Link(v, o.t))
    /\ o.pc \in {"empty", "empty_next"} =>
          o.seen \in SUBSET Clusters /\ \A y \in o.seen : Vacant(v, y)
    /\ o.pc = "empty" =>
          o.dcl \in o.seen \cup {o.clst} /\ Within(v, o.seen, o.seen \cup {o.clst})
    /\ o.pc = "empty_next" =>
          o.dcl \in o.seen /\ o.clst \in o.seen /\ Within(v, o.seen \ {o.clst}, o.seen)
\* What f_close has put under the name.
Delivered(v, o, f) ==
    ClosedBy(o) =>
        /\ f.sclust = 0 => f.size = 0
        /\ \A u \in 1 .. f.size : Unit(v, FileEntry(f), u) = <<f.ver, u>>

KnownOK == known = [d \in Clusters |-> [n \in Names |-> known[d][n]]]

Course(v, o, f, kn) == Aim(v, o, kn) /\ Room(v, o) /\ Filing(v, o, f, kn)

TInv ==
    /\ Mirror /\ KnownOK
    /\ \A v \in Volumes : Tidy(v) /\ Promised(v, known)
    /\ Course(Vol, op, fil, known) /\ Searching(Vol, op)
    /\ \A v \in Views : Delivered(v, op, fil)

(***************************************************************************)
(* Lines.                                                                  *)
(***************************************************************************)
LEMMA LineFacts ==
    ASSUME NEW v, NEW d \in Clusters
    PROVE  /\ d \in Line(v, d) /\ Line(v, d) \in SUBSET Clusters
           /\ Within(v, Line(v, d), Line(v, d))
           /\ \A S \in SUBSET Clusters : d \in S /\ Within(v, S, S) => Line(v, d) \subseteq S
  BY DEF Line, Within

LEMMA SameLine ==
    ASSUME NEW v, NEW w, NEW d \in Clusters, \A x \in Line(v, d) : Link(w, x) = Link(v, x)
    PROVE  Line(w, d) = Line(v, d)
<1> DEFINE L == Line(v, d)
           M == Line(w, d)
<1>1. d \in L /\ L \in SUBSET Clusters /\ Within(v, L, L)
  BY LineFacts
<1>2. d \in M /\ M \in SUBSET Clusters /\ Within(w, M, M)
  BY LineFacts
<1>3. Within(w, L, L)
  BY <1>1 DEF Within
<1>4. M \subseteq L
  BY <1>1, <1>3, LineFacts
<1>5. Within(v, M, M)
  BY <1>2, <1>4 DEF Within
<1>6. L \subseteq M
  BY <1>2, <1>5, LineFacts
<1> QED
  BY <1>4, <1>6

LEMMA LineMore ==
    ASSUME NEW v, NEW d \in Clusters, NEW c \in Line(v, d)
    PROVE  /\ c \in Clusters /\ Line(v, c) \subseteq Line(v, d)
           /\ Link(v, c) \in Clusters => Link(v, c) \in Line(v, d)
<1>1. c \in Clusters /\ Line(v, d) \in SUBSET Clusters /\ Within(v, Line(v, d), Line(v, d))
  BY LineFacts
<1>2. Line(v, c) \subseteq Line(v, d)
  BY <1>1, LineFacts
<1> QED
  BY <1>1, <1>2 DEF Within

LEMMA LineStep ==
    ASSUME NEW v, NEW c \in Clusters, NEW x \in Line(v, c), x # c
    PROVE  Link(v, c) \in Clusters /\ x \in Line(v, Link(v, c))
<1>1. CASE Link(v, c) \notin Clusters
  <2>1. Within(v, {c}, {c})
    BY <1>1 DEF Within
  <2> QED
    BY <2>1, LineFacts
<1>2. CASE Link(v, c) \in Clusters
  <2> DEFINE M == Line(v, Link(v, c))
             S == {c} \cup M
  <2>1. Link(v, c) \in M /\ M \in SUBSET Clusters /\ Within(v, M, M)
    BY <1>2, LineFacts
  <2> HIDE DEF M
  <2>2. Within(v, S, S) /\ S \in SUBSET Clusters /\ c \in S
    BY <2>1 DEF Within
  <2>3. Line(v, c) \subseteq S
    BY <2>2, LineFacts
  <2> QED
    BY <1>2, <2>3 DEF M
<1> QED
  BY <1>1, <1>2

\* Two lines to whose first clusters nothing leads have no cluster in common.
LEMMA Apart ==
    ASSUME NEW v, LinksOK(v), NEW d \in Clusters, NEW h \in Clusters, h # d,
           \A x \in Clusters : Link(v, x) # d /\ Link(v, x) # h
    PROVE  \A x \in Line(v, h) : x \notin Line(v, d)
<1> DEFINE L == Line(v, d)
           S == L \ {h}
           T == {d} \cup {z \in L : \E y \in L : Link(v, y) = z}
           C == Clusters \ L
<1>1. d \in L /\ L \in SUBSET Clusters /\ Within(v, L, L)
  BY LineFacts
<1> HIDE DEF L
<1>2. Within(v, S, S) /\ S \in SUBSET Clusters /\ d \in S
  BY <1>1 DEF Within
<1>3. h \notin L
  BY <1>2, LineFacts DEF L
<1>4. Within(v, T, T) /\ T \in SUBSET Clusters /\ d \in T
  BY <1>1 DEF Within
<1>5. L \subseteq T
  BY <1>4, LineFacts DEF L
<1>6. Within(v, C, C)
  <2> SUFFICES ASSUME NEW x \in Clusters, x \notin L, Link(v, x) \in L PROVE FALSE
    BY DEF Within
  <2>1. Link(v, x) # d /\ Link(v, x) \in Clusters
    BY <1>1
  <2> PICK y \in L : Link(v, y) = Link(v, x)
    BY <1>5, <2>1
  <2>2. y \in Clusters /\ Link(v, y) \in Clusters
    BY <1>1, <2>1
  <2>3. x = y
    BY <2>2 DEF LinksOK
  <2> QED
    BY <2>3
<1>7. C \in SUBSET Clusters /\ h \in C
  BY <1>3
<1>8. Line(v, h) \subseteq C
  BY <1>6, <1>7, LineFacts
<1> QED
  BY <1>8 DEF L

(***************************************************************************)
(* The lines of directories.                                               *)
(***************************************************************************)
LEMMA DirStart ==
    ASSUME NEW v, GSound(v), NEW d \in Directories(v)
    PROVE  /\ d \in Clusters /\ Link(v, d) # 0
           /\ \A x \in Clusters : Link(v, x) # d
<1>1. CASE d = Root
  BY <1>1, ClusterFacts DEF GSound, LinksOK
<1>2. CASE d # Root
  <2> PICK t \in Clusters, i \in 1 .. Slots : Head(v, t, i) = d /\ d \in Clusters
    BY <1>2 DEF Directories, Head
  <2>1. Head(v, t, i) # 0
    BY ClusterFacts
  <2> QED
    BY <2>1 DEF GSound, HeadsOK
<1> QED
  BY <1>1, <1>2

LEMMA LineUsed ==
    ASSUME NEW v, GSound(v), NEW d \in Directories(v), NEW x \in Line(v, d)
    PROVE  x \in Clusters /\ Link(v, x) # 0
<1> DEFINE S == {y \in Clusters : Link(v, y) # 0}
<1>1. d \in S
  BY DirStart
<1>2. Within(v, S, S)
  BY DEF Within, GSound, LinksOK
<1>3. d \in Clusters /\ S \in SUBSET Clusters
  BY <1>1
<1>4. Line(v, d) \subseteq S
  BY <1>1, <1>2, <1>3, LineFacts
<1> QED
  BY <1>4

LEMMA OneLine ==
    ASSUME NEW v, GSound(v), NEW d \in Directories(v), NEW e \in Directories(v),
           NEW x \in Line(v, d), x \in Line(v, e)
    PROVE  d = e
<1>1. d \in Clusters /\ e \in Clusters /\ \A y \in Clusters : Link(v, y) # d /\ Link(v, y) # e
  BY DirStart
<1> QED
  BY <1>1, Apart DEF GSound

LEMMA LooseApart ==
    ASSUME NEW v, GSound(v), NEW d \in Directories(v), NEW c, Loose(v, c)
    PROVE  c \in Clusters /\ c \notin Line(v, d) /\ \A x \in Line(v, c) : x \notin Line(v, d)
<1>1. d \in Clusters /\ \A y \in Clusters : Link(v, y) # d
  BY DirStart
<1>2. c \in Clusters /\ \A y \in Clusters : Link(v, y) # c
  BY DEF Loose
<1>3. c # d
  BY DEF Loose, Directories, Head
<1>4. \A x \in Line(v, c) : x \notin Line(v, d)
  BY <1>1, <1>2, <1>3, Apart DEF GSound
<1> QED
  BY <1>2, <1>4, LineFacts

LEMMA SpareLine ==
    ASSUME NEW v, NEW c, Spare(v, c)
    PROVE  c \in Clusters /\ Vacant(v, c) /\ \A x \in Line(v, c) : Vacant(v, x)
<1> PICK S \in SUBSET Clusters : c \in S /\ Within(v, S, S) /\ \A x \in S : Vacant(v, x)
  BY DEF Spare
<1>1. Line(v, c) \subseteq S
  BY LineFacts
<1> QED
  BY <1>1

LEMMA BareNoEntry ==
    ASSUME NEW v, NEW c, Vacant(v, c), NEW i \in 1 .. Slots
    PROVE  /\ Entry(v, c, i).name = NoName /\ Head(v, c, i) = 0 /\ ~Entry(v, c, i).dir
  BY DEF Vacant, NoEntry, Head

LEMMA NotNamed == \A n \in Names : n # NoName
  BY FatAssumption

(***************************************************************************)
(* A step that changes no entry: directories may get clusters without      *)
(* names.                                                                  *)
(***************************************************************************)
Grows(v, w) ==
    /\ \A t \in Clusters, i \in 1 .. Slots : Entry(w, t, i) = Entry(v, t, i)
    /\ \A d \in Directories(v) :
          /\ Line(v, d) \subseteq Line(w, d)
          /\ \A x \in Line(w, d) : x \in Line(v, d) \/ Vacant(v, x)
    /\ \A c : Spare(v, c) => Spare(w, c)
    /\ \A c \in Clusters : Link(w, c) = 0 => Link(v, c) = 0 \/ Vacant(v, c)

\* The data of the files that have any.
SameUnits(v, w) ==
    \A t \in Clusters, i \in 1 .. Slots : Head(v, t, i) # 0 /\ ~Entry(v, t, i).dir =>
        \A u \in 1 .. Entry(v, t, i).size : Unit(w, Entry(v, t, i), u) = Unit(v, Entry(v, t, i), u)

LEMMA GrowsSame ==
    ASSUME NEW v, NEW w, Grows(v, w)
    PROVE  /\ Directories(w) = Directories(v)
           /\ \A c \in Clusters : Vacant(w, c) <=> Vacant(v, c)
           /\ \A t \in Clusters, i \in 1 .. Slots : Head(w, t, i) = Head(v, t, i)
           /\ \A d \in Directories(v) : d \in Clusters
           /\ \A x \in Clusters : \A n : HasName(w, x, n) <=> HasName(v, x, n)
<1>1. \A t \in Clusters, i \in 1 .. Slots : Entry(w, t, i) = Entry(v, t, i)
  BY DEF Grows
<1>2. \A d \in Clusters : d \in Directories(w) <=> d \in Directories(v)
  BY <1>1 DEF Directories
<1>3. \A d \in Directories(v) \cup Directories(w) : d \in Clusters
  BY ClusterFacts DEF Directories
<1> QED
  BY <1>1, <1>2, <1>3 DEF Vacant, Head, HasName

LEMMA GrowsTidy == ASSUME NEW v, NEW w, Tidy(v), Grows(v, w) PROVE Tidy(w)
<1>1. \A t \in Clusters, i \in 1 .. Slots : Entry(w, t, i) = Entry(v, t, i) /\ Head(w, t, i) = Head(v, t, i)
  BY GrowsSame DEF Grows
<1>2. Directories(w) = Directories(v) /\ \A c \in Clusters : Vacant(w, c) <=> Vacant(v, c)
  BY GrowsSame
<1>3. \A t \in Clusters, i \in 1 .. Slots : Entry(w, t, i).name = NoName => Entry(w, t, i) = NoEntry
  BY <1>1 DEF Tidy
<1>4. \A c \in Clusters : Link(w, c) = 0 => Vacant(w, c)
  BY <1>2 DEF Tidy, Grows
<1>5. \A t \in Clusters, i \in 1 .. Slots :
          Head(w, t, i) # 0 /\ ~Entry(w, t, i).dir => Spare(w, Head(w, t, i))
  BY <1>1 DEF Tidy, Grows
<1>6. ASSUME NEW d \in Directories(w) PROVE Unique(w, d)
  <2>1. Unique(v, d) /\ d \in Clusters
    BY <1>2, GrowsSame DEF Tidy
  <2> SUFFICES ASSUME NEW x \in Line(w, d), NEW y \in Line(w, d), NEW i \in 1 .. Slots, NEW j \in 1 .. Slots,
                      Entry(w, x, i).name = Entry(w, y, j).name, Entry(w, x, i).name # NoName
               PROVE  x = y /\ i = j
    BY DEF Unique
  <2>2. x \in Clusters /\ y \in Clusters
    BY <2>1, LineFacts
  <2>3. ~Vacant(v, x) /\ ~Vacant(v, y)
    BY <1>1, <2>2, BareNoEntry
  <2>4. x \in Line(v, d) /\ y \in Line(v, d)
    BY <1>2, <2>3 DEF Grows
  <2> QED
    BY <1>1, <2>1, <2>2, <2>4 DEF Unique
<1> QED
  BY <1>3, <1>4, <1>5, <1>6 DEF Tidy

LEMMA GrowsNotThere ==
    ASSUME NEW v, NEW w, Grows(v, w), NEW d \in Directories(v), NEW n \in Names, NotThere(v, d, n)
    PROVE  NotThere(w, d, n)
<1> SUFFICES ASSUME NEW x \in Line(w, d), HasName(w, x, n) PROVE FALSE
  BY DEF NotThere
<1>1. d \in Clusters /\ x \in Clusters
  BY GrowsSame, LineFacts
<1>2. HasName(v, x, n)
  BY <1>1, GrowsSame
<1>3. ~Vacant(v, x)
  BY <1>2, NotNamed, BareNoEntry DEF HasName
<1> QED
  BY <1>2, <1>3 DEF Grows, NotThere

LEMMA KeepsStill ==
    ASSUME NEW v, NEW w, SameUnits(v, w), NEW t \in Clusters, NEW i \in 1 .. Slots, NEW k,
           Keeps(v, Entry(v, t, i), k)
    PROVE  Keeps(w, Entry(v, t, i), k)
<1> DEFINE e == Entry(v, t, i)
<1>1. Head(v, t, i) = e.clst
  BY DEF Head
<1>2. ASSUME k.kind = "file", NEW u \in 1 .. k.size PROVE Unit(w, e, u) = <<k.ver, u>>
  <2>1. ~e.dir /\ e.size = k.size /\ (e.clst = 0 => e.size = 0) /\ Unit(v, e, u) = <<k.ver, u>>
    BY <1>2 DEF Keeps
  <2>2. e.clst # 0
    BY <2>1
  <2>3. Unit(w, e, u) = Unit(v, e, u)
    BY <1>1, <2>1, <2>2 DEF SameUnits
  <2> QED
    BY <2>1, <2>3
<1> HIDE DEF e
<1> QED
  BY <1>2 DEF Keeps, e

LEMMA GrowsPromised ==
    ASSUME NEW v, NEW w, Grows(v, w), SameUnits(v, w), NEW kn, Promised(v, kn)
    PROVE  Promised(w, kn)
<1> SUFFICES ASSUME NEW d \in Clusters, NEW n \in Names, kn[d][n].kind # "unknown"
             PROVE  /\ d \in Directories(w)
                    /\ kn[d][n].kind = "absent" => NotThere(w, d, n)
                    /\ kn[d][n].kind \in {"file", "dir"} =>
                          \E x \in Line(w, d), i \in 1 .. Slots :
                              Entry(w, x, i).name = n /\ Keeps(w, Entry(w, x, i), kn[d][n])
  <2>1. "unknown" # "absent" /\ "unknown" \notin {"file", "dir"}
    OBVIOUS
  <2> QED
    BY <2>1 DEF Promised
<1>1. d \in Directories(v) /\ Directories(w) = Directories(v)
  BY GrowsSame DEF Promised
<1>2. kn[d][n].kind = "absent" => NotThere(w, d, n)
  BY <1>1, GrowsNotThere DEF Promised
<1>3. ASSUME kn[d][n].kind \in {"file", "dir"}
      PROVE  \E x \in Line(w, d), i \in 1 .. Slots :
                 Entry(w, x, i).name = n /\ Keeps(w, Entry(w, x, i), kn[d][n])
  <2> PICK x \in Line(v, d), i \in 1 .. Slots : Entry(v, x, i).name = n /\ Keeps(v, Entry(v, x, i), kn[d][n])
    BY <1>3 DEF Promised
  <2>1. x \in Clusters /\ x \in Line(w, d)
    BY <1>1, LineFacts DEF Grows
  <2>2. Entry(w, x, i) = Entry(v, x, i)
    BY <2>1 DEF Grows
  <2>3. Keeps(w, Entry(v, x, i), kn[d][n])
    BY <2>1, KeepsStill
  <2> QED
    BY <2>1, <2>2, <2>3
<1> QED
  BY <1>1, <1>2, <1>3

LEMMA GrowsCourse ==
    ASSUME NEW v, NEW w, Grows(v, w), NEW o, NEW f, NEW kn, Course(v, o, f, kn),
           o.t \in Clusters, o.i \in 1 .. Slots, f.t \in Clusters, f.i \in 1 .. Slots
    PROVE  Course(w, o, f, kn)
<1>1. /\ Directories(w) = Directories(v)
      /\ \A d \in Directories(v) : Line(v, d) \subseteq Line(w, d)
      /\ \A c : Spare(v, c) => Spare(w, c)
  BY GrowsSame DEF Grows
<1>2. /\ \A i \in 1 .. Slots : Entry(w, o.t, i) = Entry(v, o.t, i)
      /\ Entry(w, f.t, f.i) = Entry(v, f.t, f.i)
  BY DEF Grows
<1>3. Aim(w, o, kn)
  <2>1. Aim(v, o, kn)
    BY DEF Course
  <2>2. o.call \in NameCalls => o.n \in Names /\ o.d \in Directories(w) /\ o.t \in Line(w, o.d)
    BY <1>1, <2>1 DEF Aim
  <2>3. /\ o.call \in {"open", "mkdir"} /\ o.pc \in Making => NotThere(w, o.d, o.n)
        /\ o.call = "unlink" /\ o.pc \in {"free", "sync"} => NotThere(w, o.d, o.n)
    <3>1. o.call \in {"open", "mkdir", "unlink"} => o.n \in Names /\ o.d \in Directories(v)
      BY <2>1 DEF Aim, NameCalls
    <3> QED
      BY <2>1, <3>1, GrowsNotThere DEF Aim
  <2> QED
    BY <1>2, <2>1, <2>2, <2>3 DEF Aim
<1>4. Room(w, o)
  <2>1. Room(v, o)
    BY DEF Course
  <2>2. o.pc = "clear" /\ o.ncl # o.dcl => o.ncl \in Line(w, o.d)
    BY <1>1, <2>1 DEF Course, Aim, Room, NameCalls
  <2> QED
    BY <1>1, <2>1, <2>2 DEF Room
<1>5. Filing(w, o, f, kn)
  BY <1>1, <1>2 DEF Course, Filing
<1> QED
  BY <1>3, <1>4, <1>5 DEF Course

LEMMA TablesGrow == ASSUME NEW v, NEW w, SameTables(v, w) PROVE Grows(v, w)
<1>1. \A c \in Clusters : Link(w, c) = Link(v, c)
  BY DEF SameTables, SameLinks
<1>2. \A t \in Clusters, i \in 1 .. Slots : Entry(w, t, i) = Entry(v, t, i)
  BY DEF SameTables
<1>3. \A d \in Directories(v) : Line(w, d) = Line(v, d)
  BY <1>1, ClusterFacts, SameLine, LineFacts DEF Directories
<1>4. ASSUME NEW c, Spare(v, c) PROVE Spare(w, c)
  BY <1>1, <1>2, <1>4 DEF Spare, Within, Vacant
<1> QED
  BY <1>1, <1>2, <1>3, <1>4 DEF Grows

\* A free cluster is marked.
LEMMA MarkGrows ==
    ASSUME NEW v, NEW w, NEW c \in Clusters, GSound(v), Link(v, c) = 0, LinkPut(v, w, c, EndOfChain)
    PROVE  Grows(v, w)
<1>1. \A y \in Clusters : y # c => Link(w, y) = Link(v, y)
  BY DEF LinkPut
<1>2. Link(w, c) \notin Clusters \cup {0}
  BY ClusterFacts DEF LinkPut
<1>3. \A t \in Clusters, i \in 1 .. Slots : Entry(w, t, i) = Entry(v, t, i)
  BY DEF LinkPut
<1>4. ASSUME NEW d \in Directories(v) PROVE Line(w, d) = Line(v, d)
  <2>1. d \in Clusters /\ \A x \in Line(v, d) : x \in Clusters /\ x # c
    BY DirStart, LineUsed
  <2> QED
    BY <1>1, <2>1, SameLine
<1>5. ASSUME NEW a, Spare(v, a) PROVE Spare(w, a)
  <2> PICK S \in SUBSET Clusters : a \in S /\ Within(v, S, S) /\ \A x \in S : Vacant(v, x)
    BY <1>5 DEF Spare
  <2>1. Within(w, S, S)
    BY <1>1, <1>2 DEF Within
  <2>2. \A x \in S : Vacant(w, x)
    BY <1>3 DEF Vacant
  <2> QED
    BY <2>1, <2>2 DEF Spare
<1> QED
  BY <1>1, <1>2, <1>3, <1>4, <1>5 DEF Grows

\* A cluster without names that nothing refers to is freed.
LEMMA FreeGrows ==
    ASSUME NEW v, NEW w, NEW c, GSound(v), Loose(v, c), Spare(v, c), LinkPut(v, w, c, 0)
    PROVE  Grows(v, w) /\ (Link(v, c) \in Clusters => Spare(w, Link(v, c)))
<1>0. c \in Clusters /\ Vacant(v, c)
  BY SpareLine
<1>1. \A y \in Clusters : y # c => Link(w, y) = Link(v, y)
  BY DEF LinkPut
<1>2. Link(w, c) = 0
  BY <1>0 DEF LinkPut
<1>3. \A t \in Clusters, i \in 1 .. Slots : Entry(w, t, i) = Entry(v, t, i)
  BY DEF LinkPut
<1>4. ASSUME NEW d \in Directories(v) PROVE Line(w, d) = Line(v, d)
  <2>1. d \in Clusters /\ \A x \in Line(v, d) : x \in Clusters /\ x # c
    BY DirStart, LineUsed, LooseApart
  <2> QED
    BY <1>1, <2>1, SameLine
<1>5. ASSUME NEW a, NEW S \in SUBSET Clusters, a \in S, Within(v, S, S), \A x \in S : Vacant(v, x)
      PROVE  Spare(w, a)
  <2>1. Within(w, S, S)
    BY <1>1, <1>2, <1>5, ClusterFacts DEF Within
  <2>2. \A x \in S : Vacant(w, x)
    BY <1>3, <1>5 DEF Vacant
  <2> QED
    BY <1>5, <2>1, <2>2 DEF Spare
<1>6. \A a : Spare(v, a) => Spare(w, a)
  BY <1>5 DEF Spare
<1>7. ASSUME Link(v, c) \in Clusters PROVE Spare(w, Link(v, c))
  <2> PICK S \in SUBSET Clusters : c \in S /\ Within(v, S, S) /\ \A x \in S : Vacant(v, x)
    BY DEF Spare
  <2>1. Link(v, c) \in S
    BY <1>7 DEF Within
  <2> QED
    BY <1>5, <2>1
<1>8. \A y \in Clusters : Link(w, y) = 0 => Link(v, y) = 0 \/ Vacant(v, y)
  BY <1>0, <1>1
<1> QED
  BY <1>3, <1>4, <1>6, <1>7, <1>8 DEF Grows

\* A chain without names is linked to the end of another.
LEMMA LinkGrows ==
    ASSUME NEW v, NEW w, NEW c \in Clusters, NEW n, Link(v, c) \notin Clusters, Spare(v, n),
           LinkPut(v, w, c, n)
    PROVE  Grows(v, w) /\ \A d \in Directories(v) : c \in Line(v, d) => n \in Line(w, d)
<1> PICK N \in SUBSET Clusters : n \in N /\ Within(v, N, N) /\ \A x \in N : Vacant(v, x)
  BY DEF Spare
<1>1. \A y \in Clusters : y # c => Link(w, y) = Link(v, y)
  BY DEF LinkPut
<1>2. Link(w, c) = n /\ n \in Clusters /\ n # 0
  BY ClusterFacts DEF LinkPut
<1>3. \A t \in Clusters, i \in 1 .. Slots : Entry(w, t, i) = Entry(v, t, i)
  BY DEF LinkPut
<1>4. ASSUME NEW S \in SUBSET Clusters, Within(v, S, S) PROVE Within(w, S \cup N, S \cup N)
  BY <1>1, <1>2, <1>4 DEF Within
<1>5. ASSUME NEW d \in Directories(v)
      PROVE  Line(v, d) \subseteq Line(w, d) /\ \A x \in Line(w, d) : x \in Line(v, d) \/ Vacant(v, x)
  <2>0. d \in Clusters
    BY ClusterFacts DEF Directories
  <2> DEFINE L == Line(v, d)
             M == Line(w, d)
  <2>1. /\ d \in L /\ L \in SUBSET Clusters /\ Within(v, L, L)
        /\ \A S \in SUBSET Clusters : d \in S /\ Within(v, S, S) => L \subseteq S
    BY <2>0, LineFacts
  <2>2. /\ d \in M /\ M \in SUBSET Clusters /\ Within(w, M, M)
        /\ \A S \in SUBSET Clusters : d \in S /\ Within(w, S, S) => M \subseteq S
    BY <2>0, LineFacts
  <2> HIDE DEF L, M
  <2>3. Within(v, M, M)
    BY <1>1, <2>2 DEF Within
  <2>4. Within(w, L \cup N, L \cup N) /\ L \cup N \in SUBSET Clusters /\ d \in L \cup N
    BY <1>4, <2>1
  <2>5. L \subseteq M /\ M \subseteq L \cup N
    BY <2>1, <2>2, <2>3, <2>4
  <2> QED
    BY <2>5 DEF L, M
<1>6. ASSUME NEW a, Spare(v, a) PROVE Spare(w, a)
  <2> PICK S \in SUBSET Clusters : a \in S /\ Within(v, S, S) /\ \A x \in S : Vacant(v, x)
    BY <1>6 DEF Spare
  <2>1. Within(w, S \cup N, S \cup N)
    BY <1>4
  <2>2. \A x \in S \cup N : Vacant(w, x)
    BY <1>3 DEF Vacant
  <2> DEFINE T == S \cup N
  <2>3. T \in SUBSET Clusters /\ a \in T /\ Within(w, T, T) /\ \A x \in T : Vacant(w, x)
    BY <2>1, <2>2
  <2> HIDE DEF T
  <2> QED
    BY <2>3 DEF Spare
<1>7. ASSUME NEW d \in Directories(v), c \in Line(v, d) PROVE n \in Line(w, d)
  <2>1. d \in Clusters /\ c \in Line(w, d)
    BY <1>5, <1>7, ClusterFacts DEF Directories
  <2> QED
    BY <1>2, <2>1, LineMore
<1>8. \A y \in Clusters : Link(w, y) = 0 => Link(v, y) = 0
  BY <1>1, <1>2
<1> QED
  BY <1>3, <1>5, <1>6, <1>7, <1>8 DEF Grows

(***************************************************************************)
(* What files hold.                                                        *)
(***************************************************************************)
LEMMA UnitsStay ==
    ASSUME NEW v, NEW w, NEW n \in Nat, GSound(v), HeldIn(v), FilesWhole(v, n),
           \A x \in Clusters : Steady(v, w, x) \/ Unfiled(v, x)
    PROVE  SameUnits(v, w)
<1> SUFFICES ASSUME NEW t \in Clusters, NEW i \in 1 .. Slots, Head(v, t, i) # 0, ~Entry(v, t, i).dir
             PROVE  \A u \in 1 .. Entry(v, t, i).size :
                        Unit(w, Entry(v, t, i), u) = Unit(v, Entry(v, t, i), u)
  BY DEF SameUnits
<1> DEFINE e == Entry(v, t, i)
<1>1. Head(v, t, i) = e.clst /\ ~e.dir
  BY DEF Head
<1>2. v[t] \in Contents
  BY DEF HeldIn
<1>3. e.size \in Nat /\ MaxSize \in Nat
  BY <1>2, FatAssumption DEF Contents, Entry, Entries
<1>4. Whole(v, e, n)
  BY DEF FilesWhole
<1>5. \A x \in Clusters : x = e.clst \/ InFile(v, e, x) => Steady(v, w, x)
  BY <1>1 DEF Unfiled
<1> HIDE DEF e
<1>6. /\ e.size <= MaxSize
      /\ \A j \in 0 .. Tail(e.size) : ClusterAt(v, e.clst, j) \in Clusters
  BY <1>1, <1>4 DEF Whole
<1>7. Tail(e.size) \in Int /\ Tail(e.size) <= MaxSize
  BY <1>3, <1>6, TailType
<1>8. \A j \in 0 .. Tail(e.size) : Steady(v, w, ClusterAt(v, e.clst, j))
  BY <1>1, <1>5, <1>6 DEF InFile
<1>9. \A j \in 0 .. Tail(e.size) : LET x == ClusterAt(v, e.clst, j) IN
          Link(v, x) \in Clusters => Link(w, x) = Link(v, x)
  BY <1>8 DEF Steady
<1>10. \A j \in 0 .. Tail(e.size) : ClusterAt(w, e.clst, j) = ClusterAt(v, e.clst, j)
  BY <1>6, <1>7, <1>9, SameWalk
<1>11. ASSUME NEW u \in 1 .. e.size PROVE Unit(w, e, u) = Unit(v, e, u)
  <2> DEFINE x == ClusterAt(v, e.clst, Tail(u))
             y == ClusterAt(w, e.clst, Tail(u))
  <2>1. Tail(u) \in 0 .. Tail(e.size)
    BY <1>3, TailOrder
  <2>2. w[x].data = v[x].data /\ y = x
    BY <1>8, <1>10, <2>1 DEF Steady
  <2>3. Unit(w, e, u) = w[y].data[((u - 1) % Units) + 1]
    BY DEF Unit, Tail
  <2>4. Unit(v, e, u) = v[x].data[((u - 1) % Units) + 1]
    BY DEF Unit, Tail
  <2> HIDE DEF x, y
  <2> QED
    BY <2>2, <2>3, <2>4
<1> QED
  BY <1>11 DEF e

\* Every volume of the next state comes from one of this state.
Lasts == \A w \in Volumes' : \E v \in Volumes : Grows(v, w) /\ SameUnits(v, w)

LEMMA Lasting ==
    ASSUME TInv, Lasts, known' = known
    PROVE  KnownOK' /\ \A w \in Volumes' : Tidy(w) /\ Promised(w, known')
<1>1. ASSUME NEW w \in Volumes' PROVE Tidy(w) /\ Promised(w, known)
  <2> PICK v \in Volumes : Grows(v, w) /\ SameUnits(v, w)
    BY DEF Lasts
  <2>1. Tidy(v) /\ Promised(v, known)
    BY DEF TInv
  <2> QED
    BY <2>1, GrowsTidy, GrowsPromised
<1>2. KnownOK' = KnownOK
  BY DEF KnownOK
<1> QED
  BY <1>1, <1>2 DEF TInv

LEMMA SelfGrows == ASSUME NEW v PROVE Grows(v, v) /\ SameUnits(v, v) /\ SameTables(v, v)
  BY DEF Grows, SameUnits, SameTables, SameLinks

LEMMA SeenLasts == ASSUME disk' \in Volumes, Vol' \in Volumes PROVE Lasts
  BY SelfGrows DEF Lasts, Volumes

(***************************************************************************)
(* A step that changes one entry: of the name n, in the directory d.       *)
(***************************************************************************)
Puts(v, w, d, n, t, i, e) ==
    /\ EntryPut(v, w, t, i, e)
    /\ d \in Directories(v) /\ n \in Names /\ t \in Line(v, d) /\ i \in 1 .. Slots
    /\ e.name \in {n, NoName} /\ (e.name = NoName => e = NoEntry)
    /\ Entry(v, t, i).name \in {n, NoName}
    /\ \A x \in Line(v, d), j \in 1 .. Slots : Entry(v, x, j).name = n => x = t /\ j = i
    /\ e.dir => e.clst # 0
    /\ e.clst # 0 => Spare(v, e.clst) /\ Fresh(v, e.clst)

\* What such a step leaves alone.
OneEntry(v, w, d, t, i, e) ==
    /\ d \in Clusters /\ t \in Clusters /\ i \in 1 .. Slots /\ Link(v, t) # 0
    /\ \A c \in Clusters : Link(w, c) = Link(v, c) /\ Line(w, c) = Line(v, c)
    /\ \A a \in Directories(v) : a \in Clusters /\ (a # d => t \notin Line(v, a))
    /\ \A s \in Clusters, j \in 1 .. Slots : s # t \/ j # i => Entry(w, s, j) = Entry(v, s, j)
    /\ Entry(w, t, i) = e

LEMMA PutLines ==
    ASSUME NEW v, NEW w, GSound(v), NEW d, NEW n, NEW t, NEW i, NEW e, Puts(v, w, d, n, t, i, e)
    PROVE  OneEntry(v, w, d, t, i, e)
<1>1. d \in Directories(v) /\ t \in Line(v, d) /\ i \in 1 .. Slots
  BY DEF Puts
<1>2. d \in Clusters /\ t \in Clusters /\ Link(v, t) # 0
  BY <1>1, DirStart, LineUsed
<1>3. \A c \in Clusters : Link(w, c) = Link(v, c)
  BY DEF Puts, EntryPut, SameLinks
<1>4. ASSUME NEW c \in Clusters PROVE Line(w, c) = Line(v, c)
  <2>1. \A x \in Line(v, c) : Link(w, x) = Link(v, x)
    BY <1>3, LineFacts
  <2> QED
    BY <2>1, SameLine
<1>5. \A a \in Directories(v) : a \in Clusters /\ (a # d => t \notin Line(v, a))
  BY <1>1, DirStart, OneLine
<1>6. /\ Entry(w, t, i) = e
      /\ \A s \in Clusters, j \in 1 .. Slots : s # t \/ j # i => Entry(w, s, j) = Entry(v, s, j)
  BY <1>1, <1>2 DEF Puts, EntryPut
<1> QED
  BY <1>1, <1>2, <1>3, <1>4, <1>5, <1>6 DEF OneEntry

LEMMA PutSpare ==
    ASSUME NEW v, NEW w, GSound(v), NEW d, NEW n, NEW t, NEW i, NEW e, Puts(v, w, d, n, t, i, e),
           NEW h, Spare(v, h), h # d, \A x \in Clusters : Link(v, x) # h
    PROVE  Spare(w, h)
<1>1. /\ d \in Clusters /\ t \in Clusters /\ t \in Line(v, d)
      /\ \A c \in Clusters : Link(w, c) = Link(v, c)
      /\ \A s \in Clusters, j \in 1 .. Slots : s # t \/ j # i => Entry(w, s, j) = Entry(v, s, j)
  <2>1. OneEntry(v, w, d, t, i, e)
    BY PutLines
  <2> QED
    BY <2>1 DEF OneEntry, Puts
<1>2. h \in Clusters /\ \A x \in Line(v, h) : Vacant(v, x)
  BY SpareLine
<1>3. \A x \in Clusters : Link(v, x) # d
  BY DirStart DEF Puts
<1>4. t \notin Line(v, h)
  BY <1>1, <1>2, <1>3, Apart DEF GSound
<1> DEFINE S == Line(v, h)
<1>5. S \in SUBSET Clusters /\ h \in S /\ Within(v, S, S)
  BY <1>2, LineFacts
<1> HIDE DEF S
<1>6. Within(w, S, S)
  BY <1>1, <1>5 DEF Within
<1>7. \A x \in S : Vacant(w, x)
  <2>1. \A x \in S : x # t /\ x \in Clusters /\ Vacant(v, x)
    BY <1>2, <1>4, <1>5 DEF S
  <2> QED
    BY <1>1, <2>1 DEF Vacant
<1> QED
  BY <1>5, <1>6, <1>7 DEF Spare

LEMMA PutDirs ==
    ASSUME NEW v, NEW w, GSound(v), NEW d, NEW n, NEW t, NEW i, NEW e, Puts(v, w, d, n, t, i, e)
    PROVE  /\ \A a \in Directories(w) : a \in Directories(v) \/ (e.dir /\ a = e.clst)
           /\ \A a \in Directories(v) : (Entry(v, t, i).dir => a # Head(v, t, i)) => a \in Directories(w)
<1>1. /\ Entry(w, t, i) = e
      /\ \A s \in Clusters, j \in 1 .. Slots : s # t \/ j # i => Entry(w, s, j) = Entry(v, s, j)
  <2>1. OneEntry(v, w, d, t, i, e)
    BY PutLines
  <2> QED
    BY <2>1 DEF OneEntry
<1>2. ASSUME NEW a \in Directories(w) PROVE a \in Directories(v) \/ (e.dir /\ a = e.clst)
  <2>1. CASE a = Root
    BY <2>1 DEF Directories
  <2>2. CASE a # Root
    <3> PICK s \in Clusters, j \in 1 .. Slots :
                  Entry(w, s, j).dir /\ Entry(w, s, j).clst = a /\ a \in Clusters
      BY <2>2 DEF Directories
    <3> QED
      BY <1>1 DEF Directories
  <2> QED
    BY <2>1, <2>2
<1>3. ASSUME NEW a \in Directories(v), Entry(v, t, i).dir => a # Head(v, t, i)
      PROVE  a \in Directories(w)
  <2>1. CASE a = Root
    BY <2>1 DEF Directories
  <2>2. CASE a # Root
    <3> PICK s \in Clusters, j \in 1 .. Slots :
                  Entry(v, s, j).dir /\ Entry(v, s, j).clst = a /\ a \in Clusters
      BY <2>2 DEF Directories
    <3>1. s # t \/ j # i
      BY <1>3 DEF Head
    <3>2. Entry(w, s, j) = Entry(v, s, j)
      BY <1>1, <3>1
    <3> QED
      BY <3>2 DEF Directories
  <2> QED
    BY <2>1, <2>2
<1> QED
  BY <1>2, <1>3

LEMMA PutTidy ==
    ASSUME NEW v, NEW w, GSound(v), Tidy(v), NEW d, NEW n, NEW t, NEW i, NEW e,
           Puts(v, w, d, n, t, i, e)
    PROVE  Tidy(w)
<1>1. /\ d \in Clusters /\ t \in Clusters /\ i \in 1 .. Slots /\ Link(v, t) # 0
      /\ \A c \in Clusters : Link(w, c) = Link(v, c) /\ Line(w, c) = Line(v, c)
      /\ \A a \in Directories(v) : a \in Clusters /\ (a # d => t \notin Line(v, a))
      /\ \A s \in Clusters, j \in 1 .. Slots : s # t \/ j # i => Entry(w, s, j) = Entry(v, s, j)
      /\ Entry(w, t, i) = e
  <2>1. OneEntry(v, w, d, t, i, e)
    BY PutLines
  <2> QED
    BY <2>1 DEF OneEntry
<1>2. ASSUME NEW s \in Clusters, NEW j \in 1 .. Slots, Entry(w, s, j).name = NoName
      PROVE  Entry(w, s, j) = NoEntry
  <2>1. CASE s = t /\ j = i
    BY <1>1, <1>2, <2>1 DEF Puts
  <2>2. CASE s # t \/ j # i
    BY <1>1, <1>2, <2>2 DEF Tidy
  <2> QED
    BY <2>1, <2>2
<1>3. ASSUME NEW c \in Clusters, Link(w, c) = 0 PROVE Vacant(w, c)
  <2>1. Vacant(v, c) /\ c # t
    BY <1>1, <1>3 DEF Tidy
  <2> QED
    BY <1>1, <2>1 DEF Vacant
<1>4. ASSUME NEW s \in Clusters, NEW j \in 1 .. Slots, Head(w, s, j) # 0, ~Entry(w, s, j).dir
      PROVE  Spare(w, Head(w, s, j))
  <2>1. CASE s = t /\ j = i
    <3>1. Head(w, s, j) = e.clst /\ e.clst # 0
      BY <1>1, <1>4, <2>1 DEF Head
    <3>2. Spare(v, e.clst) /\ Fresh(v, e.clst)
      BY <3>1 DEF Puts
    <3>3. e.clst # d /\ \A x \in Clusters : Link(v, x) # e.clst
      BY <3>2 DEF Fresh, Loose, Puts, Directories, Head
    <3> QED
      BY <3>1, <3>2, <3>3, PutSpare
  <2>2. CASE s # t \/ j # i
    <3> DEFINE h == Head(v, s, j)
    <3>1. h = Head(w, s, j) /\ h # 0 /\ ~Entry(v, s, j).dir
      BY <1>1, <1>4, <2>2 DEF Head
    <3>2. Spare(v, h)
      BY <3>1 DEF Tidy
    <3>3. h # Root /\ \A x \in Clusters : Link(v, x) # h
      BY <3>1 DEF GSound, HeadsOK
    <3>4. h # d
      <4> SUFFICES ASSUME h = d PROVE FALSE
        OBVIOUS
      <4> PICK a \in Clusters, b \in 1 .. Slots : Entry(v, a, b).dir /\ Head(v, a, b) = d
        BY <3>3 DEF Puts, Directories, Head
      <4>1. s = a /\ j = b
        BY <3>1 DEF GSound, HeadsOK
      <4> QED
        BY <3>1, <4>1
    <3> HIDE DEF h
    <3>5. Spare(w, h)
      BY <3>2, <3>3, <3>4, PutSpare
    <3> QED
      BY <3>1, <3>5
  <2> QED
    BY <2>1, <2>2
<1>5. ASSUME NEW a \in Directories(w) PROVE Unique(w, a)
  <2>0. a \in Clusters /\ Line(w, a) = Line(v, a)
    BY <1>1, ClusterFacts DEF Directories
  <2> SUFFICES ASSUME NEW x \in Line(v, a), NEW y \in Line(v, a), NEW j \in 1 .. Slots, NEW k \in 1 .. Slots,
                      Entry(w, x, j).name = Entry(w, y, k).name, Entry(w, x, j).name # NoName
               PROVE  x = y /\ j = k
    BY <2>0 DEF Unique
  <2>1. x \in Clusters /\ y \in Clusters
    BY <2>0, LineFacts
  <2>2. CASE a \notin Directories(v)
    <3>1. e.clst = a /\ e.dir
      BY <2>2, PutDirs
    <3>2. Spare(v, a) /\ Fresh(v, a)
      BY <3>1 DEF Puts
    <3>3. a # d /\ \A z \in Clusters : Link(v, z) # a
      BY <2>2, <3>2 DEF Fresh, Loose, Puts
    <3>4. Spare(w, a)
      BY <3>2, <3>3, PutSpare
    <3>5. Vacant(w, x)
      BY <2>0, <3>4, SpareLine
    <3> QED
      BY <3>5, BareNoEntry
  <2>3. CASE a \in Directories(v) /\ a # d
    <3>1. x # t /\ y # t
      BY <1>1, <2>3
    <3>2. Unique(v, a)
      BY <2>3 DEF Tidy
    <3> QED
      BY <1>1, <2>1, <3>1, <3>2 DEF Unique
  <2>4. CASE a = d
    <3>1. Unique(v, d)
      BY DEF Tidy, Puts
    <3>2. /\ e.name \in {n, NoName}
          /\ \A z \in Line(v, d), l \in 1 .. Slots : Entry(v, z, l).name = n => z = t /\ l = i
      BY DEF Puts
    <3>3. CASE x = t /\ j = i
      BY <1>1, <2>1, <2>4, <3>2, <3>3
    <3>4. CASE y = t /\ k = i
      BY <1>1, <2>1, <2>4, <3>2, <3>4
    <3>5. CASE (x # t \/ j # i) /\ (y # t \/ k # i)
      BY <1>1, <2>1, <2>4, <3>1, <3>5 DEF Unique
    <3> QED
      BY <3>3, <3>4, <3>5
  <2> QED
    BY <2>2, <2>3, <2>4
<1> QED
  BY <1>2, <1>3, <1>4, <1>5 DEF Tidy

\* The entries of all other names are those they were.
LEMMA PutOthers ==
    ASSUME NEW v, NEW w, GSound(v), NEW d, NEW n, NEW t, NEW i, NEW e, Puts(v, w, d, n, t, i, e),
           NEW a \in Directories(v), NEW m \in Names, a # d \/ m # n,
           NEW x \in Line(v, a), NEW j \in 1 .. Slots,
           Entry(v, x, j).name = m \/ Entry(w, x, j).name = m
    PROVE  Entry(w, x, j) = Entry(v, x, j)
<1>1. /\ d \in Clusters /\ t \in Clusters /\ i \in 1 .. Slots
      /\ a \in Clusters /\ (a # d => t \notin Line(v, a))
      /\ \A s \in Clusters, k \in 1 .. Slots : s # t \/ k # i => Entry(w, s, k) = Entry(v, s, k)
      /\ Entry(w, t, i) = e
  <2>1. OneEntry(v, w, d, t, i, e)
    BY PutLines
  <2> QED
    BY <2>1 DEF OneEntry
<1>2. x \in Clusters
  BY <1>1, LineFacts
<1>3. CASE x # t \/ j # i
  BY <1>1, <1>2, <1>3
<1>4. CASE x = t /\ j = i
  <2>1. m # n
    BY <1>1, <1>4
  <2>2. Entry(v, t, i).name # m /\ Entry(w, t, i).name # m
    BY <1>1, <2>1, NotNamed DEF Puts
  <2> QED
    BY <1>4, <2>2
<1> QED
  BY <1>3, <1>4

LEMMA PutPromised ==
    ASSUME NEW v, NEW w, GSound(v), NEW d, NEW n, NEW t, NEW i, NEW e, Puts(v, w, d, n, t, i, e),
           SameUnits(v, w), NEW kn, NEW kw, Promised(v, kn),
           \A a \in Clusters, m \in Names : kw[a][m] = kn[a][m] \/ kw[a][m].kind = "unknown",
           kw[d][n].kind = "unknown",
           Entry(v, t, i).dir => \A m \in Names : kw[Head(v, t, i)][m].kind = "unknown"
    PROVE  Promised(w, kw)
<1> SUFFICES ASSUME NEW a \in Clusters, NEW m \in Names, kw[a][m].kind # "unknown"
             PROVE  /\ a \in Directories(w)
                    /\ kw[a][m].kind = "absent" => NotThere(w, a, m)
                    /\ kw[a][m].kind \in {"file", "dir"} =>
                          \E x \in Line(w, a), j \in 1 .. Slots :
                              Entry(w, x, j).name = m /\ Keeps(w, Entry(w, x, j), kw[a][m])
  <2>1. "unknown" # "absent" /\ "unknown" \notin {"file", "dir"}
    OBVIOUS
  <2> QED
    BY <2>1 DEF Promised
<1>1. kw[a][m] = kn[a][m] /\ a \in Directories(v) /\ (a # d \/ m # n)
  BY DEF Promised
<1>2. a \in Directories(w)
  BY <1>1, PutDirs
<1>3. Line(w, a) = Line(v, a)
  <2>1. OneEntry(v, w, d, t, i, e)
    BY PutLines
  <2> QED
    BY <2>1 DEF OneEntry
<1>4. \A x \in Line(v, a), j \in 1 .. Slots :
          Entry(v, x, j).name = m \/ Entry(w, x, j).name = m => Entry(w, x, j) = Entry(v, x, j)
  BY <1>1, PutOthers
<1>5. kw[a][m].kind = "absent" => NotThere(w, a, m)
  BY <1>1, <1>3, <1>4 DEF Promised, NotThere, HasName
<1>6. ASSUME kw[a][m].kind \in {"file", "dir"}
      PROVE  \E x \in Line(w, a), j \in 1 .. Slots :
                 Entry(w, x, j).name = m /\ Keeps(w, Entry(w, x, j), kw[a][m])
  <2> PICK x \in Line(v, a), j \in 1 .. Slots : Entry(v, x, j).name = m /\ Keeps(v, Entry(v, x, j), kn[a][m])
    BY <1>1, <1>6 DEF Promised
  <2>1. Entry(w, x, j) = Entry(v, x, j) /\ x \in Clusters
    BY <1>4, LineFacts
  <2>2. Keeps(w, Entry(v, x, j), kn[a][m])
    BY <2>1, KeepsStill
  <2> QED
    BY <1>1, <1>3, <2>1, <2>2
<1> QED
  BY <1>2, <1>5, <1>6

(***************************************************************************)
(* The kinds of steps.                                                     *)
(***************************************************************************)
LEMMA SameSearch ==
    ASSUME NEW v, NEW w, SameTables(v, w), NEW o, o.d \in Clusters, o.t \in Clusters, Searching(v, o)
    PROVE  Searching(w, o)
<1>1. \A c \in Clusters : Link(w, c) = Link(v, c)
  BY DEF SameTables, SameLinks
<1>2. ASSUME NEW c \in Clusters PROVE Line(w, c) = Line(v, c)
  BY <1>1, LineFacts, SameLine
<1>3. \A c \in Clusters : \A n : HasName(w, c, n) <=> HasName(v, c, n)
  BY DEF SameTables, HasName
<1>4. \A c \in Clusters : Vacant(w, c) <=> Vacant(v, c)
  BY DEF SameTables, Vacant
<1>5. \A S \in SUBSET Clusters : \A T : Within(w, S, T) <=> Within(v, S, T)
  BY <1>1 DEF Within
<1>6. Line(v, o.d) \in SUBSET Clusters
  BY LineFacts
<1>7. o.pc = "find" => o.seen = {} /\ \A x \in Line(w, o.d) : HasName(w, x, o.n) => x \in Line(w, o.t)
  BY <1>2, <1>3, <1>6 DEF Searching
<1>8. o.pc = "find_next" =>
          /\ o.seen = {}
          /\ \A x \in Line(w, o.d) : HasName(w, x, o.n) =>
                Link(w, o.t) \in Clusters /\ x \in Line(w, Link(w, o.t))
  BY <1>1, <1>2, <1>3, <1>6 DEF Searching
<1>9. o.pc \in {"empty", "empty_next"} => o.seen \in SUBSET Clusters /\ \A y \in o.seen : Vacant(w, y)
  BY <1>4 DEF Searching
<1>10. o.pc = "empty" => o.dcl \in o.seen \cup {o.clst} /\ Within(w, o.seen, o.seen \cup {o.clst})
  BY <1>5, <1>9 DEF Searching
<1>11. o.pc = "empty_next" =>
           o.dcl \in o.seen /\ o.clst \in o.seen /\ Within(w, o.seen \ {o.clst}, o.seen)
  <2>1. o.pc = "empty_next" => o.seen \ {o.clst} \in SUBSET Clusters
    BY <1>9
  <2> QED
    BY <1>5, <2>1 DEF Searching
<1> QED
  BY <1>7, <1>8, <1>9, <1>10, <1>11 DEF Searching

\* No entry and no link is changed.
LEMMA Calm ==
    ASSUME IInv', TInv, SameTables(Vol, Vol'), Mirror', Lasts, known' = known,
           Course(Vol, op', fil', known), Searching(Vol, op'),
           ~ClosedBy(op') \/ \A v \in Views' : Delivered(v, op', fil')
    PROVE  TInv'
<1>1. /\ op'.t \in Clusters /\ op'.i \in 1 .. Slots /\ op'.d \in Clusters
      /\ fil'.t \in Clusters /\ fil'.i \in 1 .. Slots
  BY NextPlaces
<1>2. Course(Vol', op', fil', known')
  BY <1>1, TablesGrow, GrowsCourse
<1>3. Searching(Vol', op')
  BY <1>1, SameSearch
<1>4. KnownOK' /\ \A w \in Volumes' : Tidy(w) /\ Promised(w, known')
  BY Lasting
<1>5. \A v \in Views' : Delivered(v, op', fil')
  BY DEF Delivered
<1> HIDE DEF Vol, Mirror, KnownOK, Volumes, Views
<1> QED
  BY <1>2, <1>3, <1>4, <1>5 DEF TInv

LEMMA VisitLasts ==
    ASSUME IInv, TInv, NEW s \in Sectors, Movable(s), Visit(s), disk' = disk
    PROVE  SameTables(Vol, Vol') /\ Mirror' /\ Lasts
<1>1. SameTables(Vol, Vol') /\ Mirror'
  BY VisitTables DEF TInv
<1>2. Vol' = Vol \/ Vol' = disk
  BY VisitKeeps DEF IInv
<1> QED
  BY <1>1, <1>2, SeenLasts DEF Volumes

\* A step that reads.
LEMMA Reads ==
    ASSUME IInv, IInv', TInv, NEW s \in Sectors, Movable(s), Visit(s), disk' = disk, known' = known,
           Course(Vol, op', fil', known), Searching(Vol, op'), ~ClosedBy(op')
    PROVE  TInv'
  BY VisitLasts, Calm

\* A change of the FAT.
LEMMA LinkMoves ==
    ASSUME IInv, CInv, DInv, TInv, NEW c \in Clusters, NEW x \in Links, SetLink(c, x), Movable(FatOf[c]),
           disk' = disk, Link(Vol, c) \notin Clusters \/ \A v \in Views : Unfiled(v, c)
    PROVE  /\ LinkPut(Vol, Vol', c, x) /\ Mirror'
           /\ \E v \in Views : /\ v \in Volumes /\ GSound(v) /\ SameTables(Vol, v) /\ SameUnits(v, Vol')
                               /\ LinkPut(v, Vol', c, x)
<1>1. LinkPut(Vol, Vol', c, x) /\ Mirror'
  BY LinkTables DEF TInv
<1> PICK v \in Views : /\ \A s \in Clusters : Vol'[s] = v[s]
                       /\ LinkIs(v, Vol', c, x)
                       /\ SameLinks(v, Vol)
  BY LinkSees
<1>2. v \in Volumes /\ GSound(v) /\ HeldIn(v)
  BY ViewIsVolume, VolumeFacts
<1>3. SameTables(Vol, v)
  BY ViewTables, SameTablesAgain DEF TInv
<1>4. LinkPut(v, Vol', c, x)
  BY DEF LinkIs, LinkPut, Entry
<1>5. \A y \in Clusters : Steady(v, Vol', y) \/ Unfiled(v, y)
  BY DEF Steady, LinkIs, SameLinks
<1>6. FilesWhole(v, spent.calls) /\ spent.calls \in Nat
  BY <1>2 DEF DInv, CInv, Typed, SpentOK
<1>7. SameUnits(v, Vol')
  BY <1>2, <1>5, <1>6, UnitsStay
<1> QED
  BY <1>1, <1>2, <1>3, <1>4, <1>7

LEMMA LastsFrom ==
    ASSUME NEW v \in Volumes, Grows(v, Vol'), SameUnits(v, Vol'), disk' = disk
    PROVE  Lasts
  BY SelfGrows DEF Lasts, Volumes

LEMMA Marks ==
    ASSUME IInv, CInv, DInv, TInv, NEW c \in Clusters, SetLink(c, EndOfChain), Movable(FatOf[c]),
           disk' = disk, Link(Vol, c) = 0
    PROVE  Mirror' /\ Lasts /\ Grows(Vol, Vol')
<1>1. EndOfChain \in Links /\ Link(Vol, c) \notin Clusters
  BY SectorFacts, ClusterFacts
<1>2. LinkPut(Vol, Vol', c, EndOfChain) /\ Mirror'
  BY <1>1, LinkMoves
<1> PICK v \in Views : /\ v \in Volumes /\ GSound(v) /\ SameTables(Vol, v) /\ SameUnits(v, Vol')
                       /\ LinkPut(v, Vol', c, EndOfChain)
  BY <1>1, LinkMoves
<1>3. Link(v, c) = 0
  BY DEF SameTables, SameLinks
<1>4. Grows(v, Vol')
  BY <1>3, MarkGrows
<1>5. GSound(Vol)
  BY VolumeFacts DEF Volumes
<1>6. Grows(Vol, Vol')
  BY <1>2, <1>5, MarkGrows
<1> QED
  BY <1>2, <1>4, <1>6, LastsFrom

LEMMA Frees ==
    ASSUME IInv, CInv, DInv, TInv, NEW c \in Clusters, SetLink(c, 0), Movable(FatOf[c]),
           disk' = disk, Spare(Vol, c), \A v \in Views : Loose(v, c)
    PROVE  /\ Mirror' /\ Lasts /\ Grows(Vol, Vol')
           /\ Link(Vol, c) \in Clusters => Spare(Vol', Link(Vol, c))
<1>1. 0 \in Links
  BY SectorFacts
<1>2. \A v \in Views : Unfiled(v, c)
  <2> SUFFICES ASSUME NEW v \in Views PROVE Unfiled(v, c)
    OBVIOUS
  <2>1. v \in Volumes /\ GSound(v) /\ HeldIn(v)
    BY ViewIsVolume, VolumeFacts
  <2>2. FilesWhole(v, spent.calls) /\ spent.calls \in Nat
    BY <2>1 DEF DInv, CInv, Typed, SpentOK
  <2> QED
    BY <2>1, <2>2, NotFiled
<1>3. LinkPut(Vol, Vol', c, 0) /\ Mirror'
  BY <1>1, <1>2, LinkMoves
<1> PICK v \in Views : /\ v \in Volumes /\ GSound(v) /\ SameTables(Vol, v) /\ SameUnits(v, Vol')
                       /\ LinkPut(v, Vol', c, 0)
  BY <1>1, <1>2, LinkMoves
<1>4. Spare(v, c) /\ Loose(v, c)
  BY TablesGrow DEF Grows
<1>5. Grows(v, Vol')
  BY <1>4, FreeGrows
<1>6. GSound(Vol) /\ Loose(Vol, c)
  BY VolumeFacts DEF Volumes, Views
<1>7. Grows(Vol, Vol') /\ (Link(Vol, c) \in Clusters => Spare(Vol', Link(Vol, c)))
  BY <1>3, <1>6, FreeGrows
<1> QED
  BY <1>3, <1>5, <1>7, LastsFrom

LEMMA Stretches ==
    ASSUME IInv, CInv, DInv, TInv, NEW c \in Clusters, NEW n \in Clusters, SetLink(c, n),
           Movable(FatOf[c]), disk' = disk, Spare(Vol, n), Link(Vol, c) \notin Clusters
    PROVE  /\ Mirror' /\ Lasts /\ Grows(Vol, Vol')
           /\ \A d \in Directories(Vol) : c \in Line(Vol, d) => n \in Line(Vol', d)
<1>1. n \in Links
  BY SectorFacts
<1>2. LinkPut(Vol, Vol', c, n) /\ Mirror'
  BY <1>1, LinkMoves
<1> PICK v \in Views : /\ v \in Volumes /\ GSound(v) /\ SameTables(Vol, v) /\ SameUnits(v, Vol')
                       /\ LinkPut(v, Vol', c, n)
  BY <1>1, LinkMoves
<1>3. Spare(v, n) /\ Link(v, c) \notin Clusters
  BY TablesGrow DEF Grows, SameTables, SameLinks
<1>4. Grows(v, Vol')
  BY <1>3, LinkGrows
<1>5. Grows(Vol, Vol') /\ \A d \in Directories(Vol) : c \in Line(Vol, d) => n \in Line(Vol', d)
  BY <1>2, LinkGrows
<1> QED
  BY <1>2, <1>4, <1>5, LastsFrom

\* A step that changes one link: the rest of the invariant.
LEMMA LinkCalm ==
    ASSUME IInv', TInv, Mirror', Lasts, known' = known, ~ClosedBy(op'),
           op'.pc \notin {"find", "find_next", "empty", "empty_next"},
           Course(Vol', op', fil', known)
    PROVE  TInv'
<1>1. KnownOK' /\ \A w \in Volumes' : Tidy(w) /\ Promised(w, known')
  BY Lasting
<1>2. \A v \in Views' : Delivered(v, op', fil')
  BY DEF Delivered
<1>3. Searching(Vol', op')
  BY DEF Searching
<1> HIDE DEF Vol, Mirror, KnownOK, Volumes, Views
<1> QED
  BY <1>1, <1>2, <1>3 DEF TInv

\* A call forgets what was told of some names.
Forgets(kn, kw) == \A a \in Clusters, m \in Names : kw[a][m] = kn[a][m] \/ kw[a][m].kind = "unknown"

LEMMA ForgetPromised ==
    ASSUME NEW v, NEW kn, NEW kw, Promised(v, kn), Forgets(kn, kw) PROVE Promised(v, kw)
<1>1. "unknown" # "absent" /\ "unknown" \notin {"file", "dir"}
  OBVIOUS
<1>2. ASSUME NEW a \in Clusters, NEW m \in Names
      PROVE  /\ kw[a][m].kind # "unknown" => a \in Directories(v)
             /\ kw[a][m].kind = "absent" => NotThere(v, a, m)
             /\ kw[a][m].kind \in {"file", "dir"} =>
                   \E x \in Line(v, a), i \in 1 .. Slots :
                       Entry(v, x, i).name = m /\ Keeps(v, Entry(v, x, i), kw[a][m])
  <2>1. CASE kw[a][m] = kn[a][m]
    BY <2>1 DEF Promised
  <2>2. CASE kw[a][m].kind = "unknown"
    BY <1>1, <2>2
  <2> QED
    BY <2>1, <2>2 DEF Forgets
<1> QED
  BY <1>2 DEF Promised

LEMMA PutsAgain ==
    ASSUME NEW u, NEW v, NEW w, SameTables(u, v), NEW d, NEW n, NEW t, NEW i, NEW e,
           Puts(u, w, d, n, t, i, e), e.clst # 0 => Fresh(v, e.clst), GSound(u)
    PROVE  Puts(v, w, d, n, t, i, e)
<1>1. Grows(u, v)
  BY TablesGrow
<1>2. t \in Clusters /\ i \in 1 .. Slots /\ d \in Clusters /\ d \in Directories(u)
  BY DirStart, LineUsed DEF Puts
<1>3. \A x \in Line(u, d) : Link(v, x) = Link(u, x)
  BY <1>2, LineFacts DEF SameTables, SameLinks
<1>4. Line(v, d) = Line(u, d) /\ Directories(v) = Directories(u)
  BY <1>1, <1>2, <1>3, SameLine, GrowsSame
<1>5. EntryPut(v, w, t, i, e)
  BY DEF Puts, EntryPut, SameTables, SameLinks
<1>6. Entry(v, t, i) = Entry(u, t, i)
  BY <1>2 DEF SameTables
<1>7. \A x \in Line(v, d), j \in 1 .. Slots : Entry(v, x, j).name = n => x = t /\ j = i
  <2>1. \A x \in Line(v, d), j \in 1 .. Slots : Entry(v, x, j) = Entry(u, x, j)
    BY <1>2, <1>4, LineFacts DEF SameTables
  <2> QED
    BY <1>4, <2>1 DEF Puts
<1>8. e.clst # 0 => Spare(v, e.clst)
  BY <1>1 DEF Puts, Grows
<1> QED
  BY <1>2, <1>4, <1>5, <1>6, <1>7, <1>8 DEF Puts

LEMMA Writes ==
    ASSUME IInv, CInv, DInv, TInv, NEW d, NEW n, NEW t \in Clusters, NEW i \in 1 .. Slots, NEW e,
           EntryOK(e), SetEntry(t, i, e), Movable(t), disk' = disk,
           Puts(Vol, Vol', d, n, t, i, e), \A v \in Views : e.clst # 0 => Fresh(v, e.clst),
           Forgets(known, known'), known'[d][n].kind = "unknown",
           Entry(Vol, t, i).dir => \A m \in Names : known'[Head(Vol, t, i)][m].kind = "unknown"
    PROVE  /\ Mirror' /\ \A w \in Volumes' : Tidy(w) /\ Promised(w, known')
<1>1. Mirror'
  BY EntryTables DEF TInv
<1> PICK v \in Views : EntryIs(v, Vol', t, i, e)
  BY EntrySees
<1>2. v \in Volumes /\ GSound(v) /\ HeldIn(v) /\ Tidy(v) /\ Promised(v, known) /\ GSound(Vol)
  BY ViewIsVolume, VolumeFacts DEF TInv, Volumes
<1>3. SameTables(Vol, v)
  BY ViewTables, SameTablesAgain DEF TInv
<1>4. Puts(v, Vol', d, n, t, i, e)
  BY <1>2, <1>3, PutsAgain
<1>5. \A y \in Clusters : Steady(v, Vol', y)
  BY DEF Steady, EntryIs, SameLinks
<1>6. FilesWhole(v, spent.calls) /\ spent.calls \in Nat
  BY <1>2 DEF DInv, CInv, Typed, SpentOK
<1>7. SameUnits(v, Vol')
  BY <1>2, <1>5, <1>6, UnitsStay
<1>8. Entry(v, t, i) = Entry(Vol, t, i) /\ Head(v, t, i) = Head(Vol, t, i)
  BY <1>3 DEF SameTables, Head
<1>9. Tidy(Vol')
  BY <1>2, <1>4, PutTidy
<1>10. Promised(Vol', known')
  <2>1. Entry(v, t, i).dir => \A m \in Names : known'[Head(v, t, i)][m].kind = "unknown"
    BY <1>8
  <2>2. \A a \in Clusters, m \in Names : known'[a][m] = known[a][m] \/ known'[a][m].kind = "unknown"
    BY DEF Forgets
  <2> QED
    BY <1>2, <1>4, <1>7, <2>1, <2>2, PutPromised
<1>11. Tidy(disk) /\ Promised(disk, known')
  BY ForgetPromised DEF TInv, Volumes
<1> QED
  BY <1>1, <1>9, <1>10, <1>11 DEF Volumes

(***************************************************************************)
(* The end of a call.                                                      *)
(***************************************************************************)
LEMMA NoCallCourse ==
    ASSUME NEW v, NEW o, NEW f, NEW kn, (Filing(v, o, f, kn) /\ ~ClosedBy(o)) \/ (~f.open /\ f.sclust = 0)
    PROVE  Course(v, NoCall, f, kn) /\ Searching(v, NoCall) /\ ~ClosedBy(NoCall)
<1>1. NoCall.call = "none" /\ NoCall.pc = "idle"
  BY NoCallIs
<1>2. Aim(v, NoCall, kn)
  BY <1>1 DEF Aim, NameCalls
<1>3. Room(v, NoCall)
  BY <1>1 DEF Room
<1>4. Filing(v, NoCall, f, kn)
  BY <1>1 DEF Filing, ClosedBy
<1>5. Searching(v, NoCall) /\ ~ClosedBy(NoCall)
  BY <1>1 DEF Searching, ClosedBy
<1> QED
  BY <1>2, <1>3, <1>4, <1>5 DEF Course

\* A call on a name does not concern the open file, as there is none.
LEMMA NoFiling ==
    ASSUME NEW v, NEW o, NEW f, NEW kn, ~f.open, f.sclust = 0, o.call # "close"
    PROVE  Filing(v, o, f, kn)
  BY DEF Filing

LEMMA NameHasNoFile == ASSUME IInv, op.call \in NameCalls PROVE ~fil.open /\ fil.sclust = 0 /\ ~ClosedBy(op)
  BY DEF IInv, Control, FileInv, FilOK, NameCalls, ClosedBy

(***************************************************************************)
(* The steps that read.                                                    *)
(***************************************************************************)
LEMMA NameReads ==
    ASSUME IInv, IInv', TInv, NEW s \in Sectors, Movable(s), Visit(s), disk' = disk, known' = known,
           fil' = fil, op.call \in NameCalls, op'.call \in NameCalls,
           Aim(Vol, op', known), Room(Vol, op'), Searching(Vol, op')
    PROVE  TInv'
<1>1. ~fil'.open /\ fil'.sclust = 0
  BY NameHasNoFile
<1>2. op'.call # "close" /\ ~ClosedBy(op')
  BY DEF NameCalls, ClosedBy
<1>3. Course(Vol, op', fil', known)
  BY <1>1, <1>2, NoFiling DEF Course
<1> QED
  BY <1>2, <1>3, Reads

LEMMA NameEnds ==
    ASSUME IInv, IInv', TInv, NEW s \in Sectors, Movable(s), Visit(s), disk' = disk, known' = known,
           fil' = fil, op.call \in NameCalls, op' = NoCall
    PROVE  TInv'
<1>1. ~fil'.open /\ fil'.sclust = 0
  BY NameHasNoFile
<1>2. Course(Vol, op', fil', known) /\ Searching(Vol, op') /\ ~ClosedBy(op')
  BY <1>1, NoCallCourse
<1> QED
  BY <1>2, Reads

LEMMA FindKeeps == ASSUME IInv, IInv', TInv, Find PROVE TInv'
<1>1. op.pc = "find" /\ Ready /\ Visit(op.t) /\ UNCHANGED <<disk, fil, known>>
  BY DEF Find, At
<1>2. op \in OpType /\ op.t \in Clusters /\ op.t \in Sectors /\ op.call \in NameCalls
  BY <1>1, SectorFacts, NameCall DEF IInv, Control, Places, NameCalls
<1>3. Movable(op.t)
  BY <1>1, WantedIs DEF Ready, Movable
<1>4. /\ op.n \in Names /\ op.d \in Directories(Vol) /\ op.t \in Line(Vol, op.d)
      /\ op.seen = {} /\ op.dcl = 0 /\ op.d \in Clusters
      /\ \A x \in Line(Vol, op.d) : HasName(Vol, x, op.n) => x \in Line(Vol, op.t)
  BY <1>1, <1>2 DEF TInv, Course, Aim, Searching, IInv, Control, Places, OpType
<1>5. CASE op' = Go("find_next") /\ ~HasName(Vol, op.t, op.n)
  <2>1. /\ op'.pc = "find_next" /\ op'.call = op.call /\ op'.t = op.t /\ op'.d = op.d /\ op'.n = op.n
        /\ op'.seen = op.seen /\ op'.dcl = 0
    BY <1>2, <1>4, <1>5 DEF Go, OpType
  <2>2. Aim(Vol, op', known)
    BY <1>2, <1>4, <2>1 DEF Aim, Making
  <2>3. Room(Vol, op')
    BY <2>1 DEF Room
  <2>4. Searching(Vol, op')
    <3>1. ASSUME NEW x \in Line(Vol, op.d), HasName(Vol, x, op.n)
          PROVE  Link(Vol, op.t) \in Clusters /\ x \in Line(Vol, Link(Vol, op.t))
      <4>1. x \in Line(Vol, op.t) /\ x # op.t
        BY <1>4, <1>5, <3>1
      <4> QED
        BY <1>2, <4>1, LineStep
    <3> QED
      BY <1>4, <2>1, <3>1 DEF Searching
  <2> QED
    BY <1>1, <1>2, <1>3, <2>1, <2>2, <2>3, <2>4, NameReads
<1>6. ASSUME NEW i \in FirstOf(Vol, op.t, op.n), op' = Found(i), op' # NoCall PROVE TInv'
  <2> DEFINE e == Entry(Vol, op.t, i)
  <2>1. i \in 1 .. Slots /\ e.name = op.n
    BY <1>6 DEF FirstOf
  <2>2. \E p \in {"reset", "drop", "empty"} :
           /\ op' = [op EXCEPT !.i = i, !.dcl = e.clst, !.clst = e.clst, !.pc = p]
           /\ p = "reset" => op.call = "open"
           /\ p # "reset" => op.call = "unlink"
           /\ p \in {"reset", "drop"} => ~e.dir
    BY <1>6 DEF Found
  <2>3. /\ op'.pc \in {"reset", "drop", "empty"} /\ op'.call = op.call /\ op'.t = op.t /\ op'.n = op.n
        /\ op'.seen = {} /\ op'.dcl = op'.clst /\ op'.i = i /\ op'.clst = e.clst /\ op'.d = op.d
        /\ op'.pc \in {"reset", "drop"} => ~e.dir
        /\ op'.pc = "reset" => op.call = "open"
        /\ op'.pc # "reset" => op.call = "unlink"
    BY <1>2, <1>4, <2>2 DEF OpType
  <2>4. Head(Vol, op.t, i) = e.clst
    BY DEF Head
  <2>5. op'.pc = "drop" /\ op'.clst # 0 => Spare(Vol, op'.clst)
    BY <1>2, <2>1, <2>3, <2>4 DEF TInv, Tidy, Volumes
  <2> HIDE DEF e
  <2>6. Aim(Vol, op', known)
    BY <1>2, <1>4, <2>1, <2>3 DEF Aim, Making, e
  <2>7. Room(Vol, op')
    BY <2>3, <2>5 DEF Room
  <2>8. Searching(Vol, op')
    BY <2>3 DEF Searching, Within
  <2> QED
    BY <1>1, <1>2, <1>3, <2>3, <2>6, <2>7, <2>8, NameReads
<1>7. CASE op' = NoCall
  BY <1>1, <1>2, <1>3, <1>7, NameEnds
<1> QED
  BY <1>5, <1>6, <1>7 DEF Find

LEMMA FindNextKeeps == ASSUME IInv, IInv', TInv, FindNext PROVE TInv'
<1> DEFINE nxt == Link(Vol, op.t)
<1>1. /\ op.pc = "find_next" /\ Ready /\ Visit(FatOf[op.t]) /\ UNCHANGED <<disk, fil, known>>
      /\ op' = IF nxt \in Clusters THEN [op EXCEPT !.pc = "find", !.t = nxt] ELSE NotFound
  BY DEF FindNext, At
<1>2. /\ op \in OpType /\ op.t \in Clusters /\ FatOf[op.t] \in Sectors /\ op.call \in NameCalls
      /\ op.clst = 0 /\ op.dcl = 0
  BY <1>1, SectorFacts, NameCall DEF IInv, Control, Places, NameCalls
<1>3. Movable(FatOf[op.t])
  BY <1>1, WantedIs DEF Ready, Movable
<1>4. /\ op.n \in Names /\ op.d \in Directories(Vol) /\ op.t \in Line(Vol, op.d) /\ op.d \in Clusters
      /\ op.seen = {}
      /\ \A x \in Line(Vol, op.d) : HasName(Vol, x, op.n) => nxt \in Clusters /\ x \in Line(Vol, nxt)
  BY <1>1, <1>2 DEF TInv, Course, Aim, Searching, OpType
<1>5. nxt \in Clusters => nxt \in Line(Vol, op.d)
  BY <1>4, LineMore
<1> HIDE DEF nxt
<1>6. CASE op' = NoCall
  BY <1>1, <1>2, <1>3, <1>6, NameEnds
<1>7. CASE op' = [op EXCEPT !.pc = "find", !.t = nxt] /\ nxt \in Clusters
  <2>1. /\ op'.pc = "find" /\ op'.call = op.call /\ op'.d = op.d /\ op'.n = op.n /\ op'.t = nxt
        /\ op'.seen = {} /\ op'.dcl = 0
    BY <1>2, <1>4, <1>7 DEF OpType
  <2>2. Aim(Vol, op', known)
    BY <1>2, <1>4, <1>5, <1>7, <2>1 DEF Aim, Making
  <2>3. Room(Vol, op') /\ Searching(Vol, op')
    BY <1>4, <2>1 DEF Room, Searching
  <2> QED
    BY <1>1, <1>2, <1>3, <2>1, <2>2, <2>3, NameReads
<1>8. CASE nxt \notin Clusters /\ op' # NoCall
  <2>1. \/ op' = [op EXCEPT !.pc = "alloc", !.t = op.d] /\ op.call = "open"
        \/ op' = [op EXCEPT !.pc = "chain", !.t = op.d] /\ op.call = "mkdir"
    BY <1>1, <1>8 DEF NotFound
  <2>2. /\ op'.pc \in {"alloc", "chain"} /\ op'.call = op.call /\ op'.d = op.d /\ op'.n = op.n
        /\ op'.t = op.d /\ op'.clst = 0 /\ op'.dcl = 0
        /\ op'.pc = "chain" => op.call = "mkdir"
    BY <1>2, <2>1 DEF OpType
  <2>3. NotThere(Vol, op.d, op.n)
    BY <1>4, <1>8 DEF NotThere
  <2>4. op.d \in Line(Vol, op.d)
    BY <1>4, LineFacts
  <2>5. Aim(Vol, op', known)
    BY <1>2, <1>4, <2>2, <2>3, <2>4 DEF Aim, Making
  <2>6. Room(Vol, op') /\ Searching(Vol, op')
    BY <2>2 DEF Room, Searching
  <2> QED
    BY <1>1, <1>2, <1>3, <2>2, <2>5, <2>6, NameReads
<1> QED
  BY <1>1, <1>6, <1>7, <1>8

LEMMA CheckEmptyKeeps == ASSUME IInv, IInv', TInv, CheckEmpty PROVE TInv'
<1>1. /\ op.pc = "empty" /\ Ready /\ Visit(op.clst) /\ UNCHANGED <<disk, fil, known>>
      /\ op' = IF IsEmpty(Vol, op.clst)
               THEN [op EXCEPT !.pc = "empty_next", !.seen = @ \cup {op.clst}] ELSE NoCall
  BY DEF CheckEmpty, At
<1>2. /\ op \in OpType /\ op.clst \in Clusters /\ op.clst \in Sectors
      /\ op.call = "unlink" /\ op.call \in NameCalls
  BY <1>1, SectorFacts, NameCall DEF IInv, Control, Places, OpType, NameCalls
<1>3. Movable(op.clst)
  BY <1>1, WantedIs DEF Ready, Movable
<1>4. /\ op.seen \in SUBSET Clusters /\ \A y \in op.seen : Vacant(Vol, y)
      /\ op.dcl \in op.seen \cup {op.clst} /\ Within(Vol, op.seen, op.seen \cup {op.clst})
      /\ op.n \in Names /\ op.d \in Directories(Vol) /\ op.t \in Line(Vol, op.d)
      /\ Entry(Vol, op.t, op.i).name = op.n
  BY <1>1, <1>2 DEF TInv, Course, Aim, Searching
<1>5. CASE IsEmpty(Vol, op.clst)
  <2> DEFINE Q == op.seen \cup {op.clst}
  <2>1. Vacant(Vol, op.clst)
    BY <1>2, <1>5 DEF IsEmpty, TInv, Tidy, Vacant, Volumes
  <2>2. op' = [op EXCEPT !.pc = "empty_next", !.seen = Q]
    BY <1>1, <1>5
  <2>3. /\ op'.pc = "empty_next" /\ op'.call = "unlink" /\ op'.seen = Q /\ op'.clst = op.clst
        /\ op'.dcl = op.dcl /\ op'.n = op.n /\ op'.d = op.d /\ op'.t = op.t /\ op'.i = op.i
    BY <1>2, <2>2 DEF OpType
  <2>4. Within(Vol, Q \ {op.clst}, Q)
    BY <1>4 DEF Within
  <2>5. Q \in SUBSET Clusters /\ (\A y \in Q : Vacant(Vol, y)) /\ op.dcl \in Q /\ op.clst \in Q
    BY <1>2, <1>4, <2>1
  <2> HIDE DEF Q
  <2>6. Searching(Vol, op')
    BY <2>3, <2>4, <2>5 DEF Searching
  <2>7. Aim(Vol, op', known)
    BY <1>4, <2>3 DEF Aim, Making
  <2>8. Room(Vol, op')
    BY <2>3 DEF Room
  <2> QED
    BY <1>1, <1>2, <1>3, <2>3, <2>6, <2>7, <2>8, NameReads
<1>6. CASE ~IsEmpty(Vol, op.clst)
  BY <1>1, <1>2, <1>3, <1>6, NameEnds
<1> QED
  BY <1>5, <1>6

LEMMA CheckNextKeeps == ASSUME IInv, IInv', TInv, CheckNext PROVE TInv'
<1> DEFINE nxt == Link(Vol, op.clst)
<1>1. /\ op.pc = "empty_next" /\ Ready /\ Visit(FatOf[op.clst]) /\ UNCHANGED <<disk, fil, known>>
      /\ op' = IF nxt \in Clusters THEN [op EXCEPT !.pc = "empty", !.clst = nxt]
               ELSE [op EXCEPT !.pc = "drop", !.clst = op.dcl]
  BY DEF CheckNext, At
<1>2. /\ op \in OpType /\ op.clst \in Clusters /\ FatOf[op.clst] \in Sectors
      /\ op.call = "unlink" /\ op.call \in NameCalls
  BY <1>1, SectorFacts, NameCall DEF IInv, Control, Places, OpType, NameCalls
<1>3. Movable(FatOf[op.clst])
  BY <1>1, WantedIs DEF Ready, Movable
<1>4. /\ op.seen \in SUBSET Clusters /\ \A y \in op.seen : Vacant(Vol, y)
      /\ op.dcl \in op.seen /\ op.clst \in op.seen /\ Within(Vol, op.seen \ {op.clst}, op.seen)
      /\ op.n \in Names /\ op.d \in Directories(Vol) /\ op.t \in Line(Vol, op.d)
      /\ Entry(Vol, op.t, op.i).name = op.n
  BY <1>1, <1>2 DEF TInv, Course, Aim, Searching
<1>5. /\ op'.call = "unlink" /\ op'.seen = op.seen /\ op'.dcl = op.dcl
      /\ op'.n = op.n /\ op'.d = op.d /\ op'.t = op.t /\ op'.i = op.i
      /\ IF nxt \in Clusters THEN op'.pc = "empty" /\ op'.clst = nxt
                             ELSE op'.pc = "drop" /\ op'.clst = op.dcl
  BY <1>1, <1>2 DEF OpType
<1>6. nxt \in Clusters => Within(Vol, op.seen, op.seen \cup {nxt})
  BY <1>4 DEF Within
<1>7. nxt \notin Clusters => Within(Vol, op.seen, op.seen)
  BY <1>4 DEF Within
<1> HIDE DEF nxt
<1>8. Searching(Vol, op')
  BY <1>4, <1>5, <1>6 DEF Searching
<1>9. Aim(Vol, op', known)
  BY <1>4, <1>5 DEF Aim, Making
<1>10. Room(Vol, op')
  <2>1. nxt \notin Clusters => Spare(Vol, op.dcl)
    BY <1>4, <1>7 DEF Spare
  <2> QED
    BY <1>5, <2>1 DEF Room
<1> QED
  BY <1>1, <1>2, <1>3, <1>5, <1>8, <1>9, <1>10, NameReads DEF NameCalls

LEMMA FullTableKeeps == ASSUME IInv, IInv', TInv, FullTable PROVE TInv'
<1>1. /\ op.pc = "alloc" /\ Ready /\ Visit(op.t) /\ UNCHANGED <<disk, fil, known>>
      /\ op' = [op EXCEPT !.pc = "alloc_next"]
  BY DEF FullTable, At, Go
<1>2. op \in OpType /\ op.t \in Sectors /\ op.call \in {"open", "mkdir"} /\ op.call \in NameCalls
  BY <1>1, SectorFacts, NameCall DEF IInv, Control, Places, NameCalls
<1>3. Movable(op.t)
  BY <1>1, WantedIs DEF Ready, Movable
<1>4. /\ op'.pc = "alloc_next" /\ op'.call = op.call /\ op'.d = op.d /\ op'.t = op.t /\ op'.dcl = op.dcl
      /\ op'.n = op.n
  BY <1>1, <1>2 DEF OpType
<1>5. Aim(Vol, op', known)
  BY <1>1, <1>2, <1>4 DEF TInv, Course, Aim, Making
<1>6. Room(Vol, op') /\ Searching(Vol, op')
  BY <1>1, <1>2, <1>4 DEF TInv, Course, Room, Searching, Making
<1> QED
  BY <1>1, <1>2, <1>3, <1>4, <1>5, <1>6, NameReads

LEMMA AllocNextKeeps == ASSUME IInv, IInv', TInv, AllocNext PROVE TInv'
<1> DEFINE nxt == Link(Vol, op.t)
<1>1. /\ op.pc = "alloc_next" /\ Ready /\ Visit(FatOf[op.t]) /\ UNCHANGED <<disk, fil, known>>
      /\ op' = IF nxt \in Clusters THEN [op EXCEPT !.pc = "alloc", !.t = nxt]
               ELSE [op EXCEPT !.pc = "chain", !.clst = op.t]
  BY DEF AllocNext, At
<1>2. /\ op \in OpType /\ op.t \in Clusters /\ FatOf[op.t] \in Sectors
      /\ op.call \in {"open", "mkdir"} /\ op.call \in NameCalls
  BY <1>1, SectorFacts, NameCall DEF IInv, Control, Places, NameCalls
<1>3. Movable(FatOf[op.t])
  BY <1>1, WantedIs DEF Ready, Movable
<1>4. /\ op.n \in Names /\ op.d \in Directories(Vol) /\ op.t \in Line(Vol, op.d) /\ op.d \in Clusters
      /\ NotThere(Vol, op.d, op.n)
      /\ op.call = "mkdir" /\ op.dcl # 0 => Spare(Vol, op.dcl)
  BY <1>1, <1>2 DEF TInv, Course, Aim, Room, Making, OpType
<1>5. nxt \in Clusters => nxt \in Line(Vol, op.d)
  BY <1>4, LineMore
<1> HIDE DEF nxt
<1>6. /\ \/ op'.pc = "alloc" /\ op'.t = nxt /\ nxt \in Clusters
         \/ op'.pc = "chain" /\ op'.clst = op.t /\ op'.t = op.t
      /\ op'.call = op.call /\ op'.d = op.d /\ op'.n = op.n /\ op'.dcl = op.dcl
  BY <1>1, <1>2 DEF OpType
<1>7. Aim(Vol, op', known)
  BY <1>2, <1>4, <1>5, <1>6 DEF Aim, Making
<1>8. Room(Vol, op')
  BY <1>2, <1>4, <1>6, ClusterFacts DEF Room, Making
<1>9. Searching(Vol, op')
  BY <1>6 DEF Searching
<1> QED
  BY <1>1, <1>2, <1>3, <1>6, <1>7, <1>8, <1>9, NameReads

\* f_open is done: the entry has its name, no cluster and no size.
LEMMA OpenedFiling ==
    ASSUME NEW v, NEW t, NEW i, Opened(t, i), NEW kn, op.n \in Names, op.d \in Directories(v),
           t \in Line(v, op.d), kn[op.d][op.n].kind = "unknown", Entry(v, t, i) = NewFile(op.n)
    PROVE  Filing(v, NoCall, fil', kn)
<1>1. fil' = [NoFile EXCEPT !.open = TRUE, !.fresh = op.fresh, !.d = op.d, !.n = op.n,
                            !.t = t, !.i = i, !.ver = spent.calls]
  BY DEF Opened
<1>2. fil'.t = t /\ fil'.i = i /\ fil'.n = op.n /\ fil'.d = op.d /\ fil'.sclust = 0
  BY <1>1 DEF NoFile
<1>3. NoCall.call # "close"
  BY NoCallIs
<1> QED
  BY <1>2, <1>3 DEF Filing, ClosedBy

LEMMA BackKeeps == ASSUME IInv, IInv', TInv, Back PROVE TInv'
<1>1. /\ op.pc = "back" /\ Ready /\ Visit(op.t) /\ UNCHANGED <<disk, known>> /\ op' = NoCall
      /\ Opened(op.t, op.i)
  BY DEF Back, At
<1>2. op.call = "open" /\ op.call \in NameCalls
  BY <1>1 DEF TInv, Course, Room, NameCalls
<1>3. op.t \in Sectors
  BY <1>2, SectorFacts, NameCall
<1>4. Movable(op.t)
  BY <1>1, WantedIs DEF Ready, Movable
<1>5. /\ op.n \in Names /\ op.d \in Directories(Vol) /\ op.t \in Line(Vol, op.d)
      /\ Entry(Vol, op.t, op.i) = NewFile(op.n) /\ known[op.d][op.n].kind = "unknown"
  BY <1>1, <1>2 DEF TInv, Course, Aim
<1>6. Filing(Vol, NoCall, fil', known) /\ ~ClosedBy(NoCall)
  BY <1>1, <1>5, OpenedFiling, NoCallIs DEF ClosedBy
<1>7. Course(Vol, op', fil', known) /\ Searching(Vol, op') /\ ~ClosedBy(op')
  BY <1>1, <1>6, NoCallCourse
<1> QED
  BY <1>1, <1>3, <1>4, <1>7, Reads

(***************************************************************************)
(* The steps that change an entry.                                         *)
(***************************************************************************)
LEMMA PutStays ==
    ASSUME NEW v, NEW w, GSound(v), NEW d, NEW n, NEW t, NEW i, NEW e, Puts(v, w, d, n, t, i, e),
           Entry(v, t, i).dir => d # Head(v, t, i)
    PROVE  /\ d \in Directories(w) /\ Line(w, d) = Line(v, d) /\ t \in Line(w, d)
           /\ Entry(w, t, i) = e
<1>1. OneEntry(v, w, d, t, i, e) /\ d \in Directories(v) /\ t \in Line(v, d)
  BY PutLines DEF Puts
<1>2. d \in Directories(w)
  BY <1>1, PutDirs
<1> QED
  BY <1>1, <1>2 DEF OneEntry

LEMMA TellForgets ==
    ASSUME KnownOK, NEW d \in Clusters, NEW n \in Names, Tell(d, n, Unknown)
    PROVE  Forgets(known, known') /\ known'[d][n].kind = "unknown" /\ KnownOK'
<1>1. known' = [a \in Clusters |-> [m \in Names |->
                   IF a = d /\ m = n THEN Unknown ELSE known[a][m]]]
  BY DEF Tell, KnownOK
<1> QED
  BY <1>1 DEF Forgets, KnownOK, Unknown

\* The rest of the invariant.
LEMMA EntryStep ==
    ASSUME IInv, CInv, DInv, TInv, NEW d, NEW n, NEW t \in Clusters, NEW i \in 1 .. Slots, NEW e,
           EntryOK(e), SetEntry(t, i, e), Movable(t), disk' = disk,
           Puts(Vol, Vol', d, n, t, i, e), \A v \in Views : e.clst # 0 => Fresh(v, e.clst),
           Forgets(known, known'), known'[d][n].kind = "unknown", KnownOK',
           Entry(Vol, t, i).dir => \A m \in Names : known'[Head(Vol, t, i)][m].kind = "unknown",
           Course(Vol', op', fil', known'), op'.pc \notin {"find", "find_next", "empty", "empty_next"},
           Delivered(Vol', op', fil')
    PROVE  TInv'
<1>1. Mirror' /\ \A w \in Volumes' : Tidy(w) /\ Promised(w, known')
  BY Writes
<1>2. Views' = {Vol'}
  BY DEF SetEntry, Edit, Views
<1>3. Searching(Vol', op')
  BY DEF Searching
<1> HIDE DEF Vol, Mirror, KnownOK, Volumes, Views
<1> QED
  BY <1>1, <1>2, <1>3 DEF TInv

LEMMA UniqueName ==
    ASSUME TInv, NEW d \in Directories(Vol), NEW t \in Line(Vol, d), NEW i \in 1 .. Slots,
           NEW n \in Names, Entry(Vol, t, i).name = n
    PROVE  \A x \in Line(Vol, d), j \in 1 .. Slots : Entry(Vol, x, j).name = n => x = t /\ j = i
<1>1. Unique(Vol, d)
  BY DEF TInv, Tidy, Volumes
<1> QED
  BY <1>1, NotNamed DEF Unique

LEMMA RegisterKeeps == ASSUME IInv, IInv', CInv, DInv, TInv, Register PROVE TInv'
<1>1. /\ op.pc = "alloc" /\ Ready /\ disk' = disk /\ Wanted = {op.t} /\ Movable(op.t)
      /\ Tell(op.d, op.n, Unknown)
  BY WantedIs DEF Register, At, Ready, Movable
<1>2. /\ op \in OpType /\ op.t \in Clusters /\ op.dcl \in Clusters \cup {0}
      /\ op.call \in {"open", "mkdir"} /\ ~fil.open /\ op.d \in Clusters /\ op.call \in NameCalls
      /\ op.call = "mkdir" => op.dcl # 0
  BY <1>1, NameCall DEF IInv, Control, Places, MkdirInv, OpType, FileInv, NameCalls
<1>3. /\ op.n \in Names /\ op.d \in Directories(Vol) /\ op.t \in Line(Vol, op.d)
      /\ NotThere(Vol, op.d, op.n)
      /\ op.call = "mkdir" => Spare(Vol, op.dcl)
  BY <1>1, <1>2 DEF TInv, Course, Aim, Room, Making
<1> PICK i \in 1 .. Slots :
        /\ Entry(Vol, op.t, i).name = NoName
        /\ \/ /\ op.call = "mkdir"
              /\ SetEntry(op.t, i, [name |-> op.n, dir |-> TRUE, clst |-> op.dcl, size |-> 0])
              /\ op' = Go("sync")
              /\ fil' = fil
           \/ /\ op.call # "mkdir"
              /\ SetEntry(op.t, i, [NoEntry EXCEPT !.name = op.n])
              /\ op' = NoCall
              /\ Opened(op.t, i)
  BY DEF Register, FirstOf
<1>4. ~Entry(Vol, op.t, i).dir
  <2>1. Entry(Vol, op.t, i) = NoEntry
    BY <1>2 DEF TInv, Tidy, Volumes
  <2> QED
    BY <2>1 DEF NoEntry
<1>5. GSound(Vol) /\ Mirror
  BY VolShaped DEF TInv
<1>6. Forgets(known, known') /\ known'[op.d][op.n].kind = "unknown" /\ KnownOK'
  BY <1>1, <1>2, <1>3, TellForgets DEF TInv
<1>7. \A x \in Line(Vol, op.d), j \in 1 .. Slots : Entry(Vol, x, j).name = op.n => x = op.t /\ j = i
  BY <1>3 DEF NotThere, HasName
<1>8. CASE op.call = "mkdir"
  <2> DEFINE e == [name |-> op.n, dir |-> TRUE, clst |-> op.dcl, size |-> 0]
  <2>1. SetEntry(op.t, i, e) /\ op' = [op EXCEPT !.pc = "sync"] /\ fil' = fil
    BY <1>8 DEF Go
  <2>2. EntryOK(e) /\ e.clst = op.dcl /\ e.name = op.n /\ op.n # NoName /\ op.dcl # 0
    BY <1>2, <1>3, <1>8, NotNamed DEF EntryOK
  <2> HIDE DEF e
  <2>3. EntryPut(Vol, Vol', op.t, i, e)
    BY <1>1, <1>2, <1>5, <2>1, <2>2, EntryTables
  <2>4. \A v \in Views : Fresh(v, e.clst)
    BY <1>1, <1>8, <2>2 DEF IInv, Facts
  <2>5. Puts(Vol, Vol', op.d, op.n, op.t, i, e)
    <3>1. Spare(Vol, e.clst) /\ Fresh(Vol, e.clst)
      BY <1>3, <1>8, <2>2, <2>4 DEF Views
    <3> QED
      BY <1>3, <1>7, <2>2, <2>3, <3>1 DEF Puts
  <2>6. /\ op.d \in Directories(Vol') /\ op.t \in Line(Vol', op.d) /\ Entry(Vol', op.t, i) = e
    BY <1>4, <1>5, <2>5, PutStays
  <2>7. Spare(Vol', op.dcl)
    <3>1. Spare(Vol, op.dcl) /\ Fresh(Vol, op.dcl)
      BY <2>2, <2>4, <2>5 DEF Puts, Views
    <3>2. op.dcl # op.d /\ \A x \in Clusters : Link(Vol, x) # op.dcl
      BY <1>3, <3>1 DEF Fresh, Loose, Directories, Head
    <3> QED
      BY <1>5, <2>5, <3>1, <3>2, PutSpare
  <2>8. /\ op'.pc = "sync" /\ op'.call = "mkdir" /\ op'.n = op.n /\ op'.d = op.d /\ op'.t = op.t
        /\ op'.dcl = op.dcl
    BY <1>2, <1>8, <2>1 DEF OpType
  <2>9. Aim(Vol', op', known')
    BY <1>3, <2>6, <2>8 DEF Aim, Making, e
  <2>10. Room(Vol', op')
    BY <2>7, <2>8 DEF Room
  <2>11. Filing(Vol', op', fil', known') /\ Delivered(Vol', op', fil')
    BY <1>2, <2>1, <2>8, NameHasNoFile, NoFiling DEF Delivered, ClosedBy
  <2>12. Course(Vol', op', fil', known')
    BY <2>9, <2>10, <2>11 DEF Course
  <2>13. op'.pc \notin {"find", "find_next", "empty", "empty_next"}
    BY <2>8
  <2> HIDE DEF Vol, Views, KnownOK
  <2> QED
    BY <1>1, <1>2, <1>4, <1>6, <2>1, <2>2, <2>4, <2>5, <2>11, <2>12, <2>13, EntryStep
<1>9. CASE op.call # "mkdir"
  <2> DEFINE e == [NoEntry EXCEPT !.name = op.n]
  <2>1. SetEntry(op.t, i, e) /\ op' = NoCall /\ Opened(op.t, i)
    BY <1>9
  <2>2. EntryOK(e) /\ e.clst = 0 /\ e = NewFile(op.n) /\ e.name = op.n /\ ~e.dir /\ op.n # NoName
    BY <1>3, NoEntryOK, NotNamed DEF NewFile, NoEntry
  <2> HIDE DEF e
  <2>3. EntryPut(Vol, Vol', op.t, i, e)
    BY <1>1, <1>2, <1>5, <2>1, <2>2, EntryTables
  <2>4. Puts(Vol, Vol', op.d, op.n, op.t, i, e)
    BY <1>3, <1>7, <2>2, <2>3 DEF Puts
  <2>5. /\ op.d \in Directories(Vol') /\ op.t \in Line(Vol', op.d) /\ Entry(Vol', op.t, i) = NewFile(op.n)
    BY <1>4, <1>5, <2>2, <2>4, PutStays
  <2>6. Filing(Vol', NoCall, fil', known') /\ ~ClosedBy(NoCall)
    BY <1>3, <1>6, <2>1, <2>5, OpenedFiling, NoCallIs DEF ClosedBy
  <2>7. Course(Vol', op', fil', known') /\ ~ClosedBy(op')
    BY <2>1, <2>6, NoCallCourse
  <2>8. Delivered(Vol', op', fil') /\ op'.pc \notin {"find", "find_next", "empty", "empty_next"}
    BY <2>1, <2>7, NoCallIs DEF Delivered
  <2> HIDE DEF Vol, Views, KnownOK
  <2> QED
    BY <1>1, <1>2, <1>4, <1>6, <2>1, <2>2, <2>4, <2>7, <2>8, EntryStep
<1> QED
  BY <1>8, <1>9

LEMMA ResetKeeps == ASSUME IInv, IInv', CInv, DInv, TInv, Reset PROVE TInv'
<1> DEFINE e == [NoEntry EXCEPT !.name = op.n]
<1>1. /\ op.pc = "reset" /\ Ready /\ disk' = disk /\ SetEntry(op.t, op.i, e)
      /\ Tell(op.d, op.n, Unknown)
      /\ IF op.clst = 0 THEN op' = NoCall /\ Opened(op.t, op.i)
                        ELSE op' = [op EXCEPT !.pc = "free"] /\ fil' = fil
  BY DEF Reset, At, Go
<1>2. /\ op.call = "open" /\ op.call \in NameCalls /\ Entry(Vol, op.t, op.i).name = op.n
      /\ ~Entry(Vol, op.t, op.i).dir
  BY <1>1 DEF TInv, Course, Aim, NameCalls
<1>3. /\ op \in OpType /\ op.t \in Clusters /\ op.i \in 1 .. Slots /\ op.d \in Clusters
      /\ op.clst \in Clusters \cup {0}
  BY <1>1, <1>2, NameCall DEF IInv, Control, OpType
<1>4. op.n \in Names /\ op.d \in Directories(Vol) /\ op.t \in Line(Vol, op.d)
  BY <1>2 DEF TInv, Course, Aim
<1>5. Movable(op.t)
  BY <1>1, WantedIs DEF Ready, Movable
<1>6. EntryOK(e) /\ e.clst = 0 /\ e = NewFile(op.n) /\ e.name = op.n /\ ~e.dir /\ op.n # NoName
  BY <1>4, NoEntryOK, NotNamed DEF NewFile, NoEntry
<1> HIDE DEF e
<1>7. GSound(Vol) /\ Mirror
  BY VolShaped DEF TInv
<1>8. EntryPut(Vol, Vol', op.t, op.i, e)
  BY <1>1, <1>3, <1>5, <1>6, <1>7, EntryTables
<1>9. Puts(Vol, Vol', op.d, op.n, op.t, op.i, e)
  <2>1. \A x \in Line(Vol, op.d), j \in 1 .. Slots : Entry(Vol, x, j).name = op.n => x = op.t /\ j = op.i
    BY <1>2, <1>3, <1>4, UniqueName
  <2> QED
    BY <1>2, <1>3, <1>4, <1>6, <1>8, <2>1 DEF Puts
<1>10. Forgets(known, known') /\ known'[op.d][op.n].kind = "unknown" /\ KnownOK'
  BY <1>1, <1>3, <1>4, TellForgets DEF TInv
<1>11. /\ op.d \in Directories(Vol') /\ op.t \in Line(Vol', op.d) /\ Entry(Vol', op.t, op.i) = NewFile(op.n)
  <2>1. /\ op.d \in Directories(Vol') /\ op.t \in Line(Vol', op.d)
        /\ Entry(Vol', op.t, op.i) = e
    BY <1>2, <1>7, <1>9, PutStays
  <2> QED
    BY <1>6, <2>1
<1>12. CASE op.clst = 0
  <2>1. op' = NoCall /\ Opened(op.t, op.i)
    BY <1>1, <1>12
  <2>2. Filing(Vol', NoCall, fil', known') /\ ~ClosedBy(NoCall)
    BY <1>4, <1>10, <1>11, <2>1, OpenedFiling, NoCallIs DEF ClosedBy
  <2>3. Course(Vol', op', fil', known') /\ ~ClosedBy(op')
    BY <2>1, <2>2, NoCallCourse
  <2>4. Delivered(Vol', op', fil') /\ op'.pc \notin {"find", "find_next", "empty", "empty_next"}
    BY <2>1, <2>3, NoCallIs DEF Delivered
  <2> HIDE DEF Vol, Views, KnownOK
  <2> QED
    BY <1>1, <1>2, <1>3, <1>5, <1>6, <1>9, <1>10, <2>3, <2>4, EntryStep
<1>13. CASE op.clst # 0
  <2>1. /\ op'.pc = "free" /\ op'.clst = op.clst /\ fil' = fil /\ op'.call = op.call /\ op'.t = op.t
        /\ op'.i = op.i /\ op'.n = op.n /\ op'.d = op.d
    BY <1>1, <1>3, <1>13 DEF OpType
  <2>2. Head(Vol, op.t, op.i) = op.clst
    BY <1>1 DEF IInv, Views, Facts
  <2>3. Spare(Vol', op.clst)
    <3>1. Spare(Vol, op.clst)
      BY <1>2, <1>3, <1>13, <2>2 DEF TInv, Tidy, Volumes
    <3>2. op.clst # Root /\ \A x \in Clusters : Link(Vol, x) # op.clst
      BY <1>3, <1>7, <1>13, <2>2 DEF GSound, HeadsOK
    <3>3. op.clst # op.d
      <4> SUFFICES ASSUME op.clst = op.d PROVE FALSE
        OBVIOUS
      <4>1. ~Vacant(Vol, op.t)
        BY <1>2, <1>3, <1>6, BareNoEntry
      <4>2. Vacant(Vol, op.t)
        BY <1>4, <3>1, SpareLine
      <4> QED
        BY <4>1, <4>2
    <3> QED
      BY <1>7, <1>9, <3>1, <3>2, <3>3, PutSpare
  <2>4. Aim(Vol', op', known')
    BY <1>2, <1>4, <1>10, <1>11, <2>1 DEF Aim, Making
  <2>5. Room(Vol', op')
    BY <1>2, <2>1, <2>3 DEF Room
  <2>6. Filing(Vol', op', fil', known') /\ Delivered(Vol', op', fil')
    BY <1>2, <2>1, NameHasNoFile, NoFiling DEF Delivered, ClosedBy
  <2>7. Course(Vol', op', fil', known') /\ op'.pc \notin {"find", "find_next", "empty", "empty_next"}
    BY <2>1, <2>4, <2>5, <2>6, SMTT(30) DEF Course
  <2> HIDE DEF Vol, Views, KnownOK
  <2> QED
    BY <1>1, <1>2, <1>3, <1>5, <1>6, <1>9, <1>10, <2>6, <2>7, EntryStep
<1> QED
  BY <1>12, <1>13

LEMMA DropKeeps == ASSUME IInv, IInv', CInv, DInv, TInv, Drop PROVE TInv'
<1>1. /\ op.pc = "drop" /\ Ready /\ disk' = disk /\ fil' = fil
      /\ SetEntry(op.t, op.i, NoEntry)
      /\ op' = [op EXCEPT !.pc = IF op.clst = 0 THEN "sync" ELSE "free"]
      /\ known' = [d \in Clusters |-> [n \in Names |->
            IF (d = op.d /\ n = op.n) \/ (Entry(Vol, op.t, op.i).dir /\ d = op.clst)
            THEN Unknown ELSE known[d][n]]]
  BY DEF Drop, At, Go
<1>2. /\ op \in OpType /\ op.t \in Clusters /\ op.i \in 1 .. Slots /\ op.d \in Clusters
      /\ op.call = "unlink" /\ op.call \in NameCalls /\ op.clst \in Clusters \cup {0}
  BY <1>1, NameCall DEF IInv, Control, Places, OpType, NameCalls
<1>3. /\ op.n \in Names /\ op.d \in Directories(Vol) /\ op.t \in Line(Vol, op.d)
      /\ Entry(Vol, op.t, op.i).name = op.n
      /\ op.clst # 0 => Spare(Vol, op.clst)
  BY <1>1, <1>2 DEF TInv, Course, Aim, Room
<1>4. Movable(op.t)
  BY <1>1, WantedIs DEF Ready, Movable
<1>5. EntryOK(NoEntry) /\ NoEntry.clst = 0 /\ ~NoEntry.dir /\ NoEntry.name = NoName
  BY NoEntryOK DEF NoEntry
<1>6. GSound(Vol) /\ Mirror /\ op.n # NoName
  BY <1>3, VolShaped, NotNamed DEF TInv
<1>7. EntryPut(Vol, Vol', op.t, op.i, NoEntry)
  BY <1>1, <1>2, <1>4, <1>5, <1>6, EntryTables
<1>8. \A x \in Line(Vol, op.d), j \in 1 .. Slots : Entry(Vol, x, j).name = op.n => x = op.t /\ j = op.i
  BY <1>2, <1>3, UniqueName
<1>9. Puts(Vol, Vol', op.d, op.n, op.t, op.i, NoEntry)
  BY <1>2, <1>3, <1>5, <1>7, <1>8 DEF Puts
<1>10. Head(Vol, op.t, op.i) = op.clst
  BY <1>1 DEF IInv, Views, Facts
<1>11. op.clst # op.d
  <2> SUFFICES ASSUME op.clst = op.d PROVE FALSE
    OBVIOUS
  <2>1. ~Vacant(Vol, op.t)
    BY <1>2, <1>3, <1>6, BareNoEntry
  <2>2. Vacant(Vol, op.t)
    BY <1>2, <1>3, SpareLine, ClusterFacts
  <2> QED
    BY <2>1, <2>2
<1>12. /\ op.d \in Directories(Vol') /\ Line(Vol', op.d) = Line(Vol, op.d) /\ op.t \in Line(Vol', op.d)
       /\ Entry(Vol', op.t, op.i) = NoEntry
  BY <1>6, <1>9, <1>10, <1>11, PutStays
<1>13. /\ Forgets(known, known') /\ known'[op.d][op.n].kind = "unknown"
       /\ Entry(Vol, op.t, op.i).dir => \A m \in Names : known'[Head(Vol, op.t, op.i)][m].kind = "unknown"
  <2>1. Unknown.kind = "unknown"
    BY DEF Unknown
  <2>2. Entry(Vol, op.t, op.i).dir => op.clst \in Clusters
    BY <1>2, <1>10, VolShaped, DirHead
  <2> QED
    BY <1>1, <1>2, <1>3, <1>10, <2>1, <2>2 DEF Forgets
<1>14. KnownOK'
  BY <1>1 DEF KnownOK
<1>15. NotThere(Vol', op.d, op.n)
  <2> SUFFICES ASSUME NEW x \in Line(Vol, op.d), NEW j \in 1 .. Slots, Entry(Vol', x, j).name = op.n
               PROVE  FALSE
    BY <1>12 DEF NotThere, HasName
  <2>1. x \in Clusters
    BY <1>2, LineFacts
  <2>2. x # op.t \/ j # op.i
    BY <1>5, <1>6, <1>12
  <2>3. Entry(Vol', x, j) = Entry(Vol, x, j)
    BY <1>7, <2>1, <2>2 DEF EntryPut
  <2> QED
    BY <1>8, <2>2, <2>3
<1>16. op.clst # 0 => Spare(Vol', op.clst)
  <2> SUFFICES ASSUME op.clst # 0 PROVE Spare(Vol', op.clst)
    OBVIOUS
  <2>1. \A x \in Clusters : Link(Vol, x) # op.clst
    BY <1>2, <1>6, <1>10 DEF GSound, HeadsOK
  <2> QED
    BY <1>3, <1>6, <1>9, <1>11, <2>1, PutSpare
<1>17. /\ op'.call = op.call /\ op'.clst = op.clst /\ op'.n = op.n /\ op'.d = op.d /\ op'.t = op.t
       /\ op'.pc = IF op.clst = 0 THEN "sync" ELSE "free"
  BY <1>1, <1>2 DEF OpType
<1>18. Aim(Vol', op', known')
  BY <1>2, <1>3, <1>12, <1>15, <1>17 DEF Aim, Making
<1>19. Room(Vol', op')
  BY <1>2, <1>16, <1>17 DEF Room
<1>20. Filing(Vol', op', fil', known') /\ Delivered(Vol', op', fil')
  BY <1>1, <1>2, <1>17, NameHasNoFile, NoFiling DEF Delivered, ClosedBy
<1>21. Course(Vol', op', fil', known') /\ op'.pc \notin {"find", "find_next", "empty", "empty_next"}
  BY <1>17, <1>18, <1>19, <1>20 DEF Course
<1> HIDE DEF Vol, Views, KnownOK
<1> QED
  BY <1>1, <1>2, <1>4, <1>5, <1>9, <1>13, <1>14, <1>20, <1>21, EntryStep

LEMMA PutEntryKeeps == ASSUME IInv, IInv', CInv, DInv, TInv, PutEntry PROVE TInv'
<1> DEFINE e == FileEntry(fil)
<1>1. /\ op.pc = "entry" /\ Ready /\ disk' = disk /\ fil' = fil /\ known' = known
      /\ SetEntry(fil.t, fil.i, e)
      /\ op' = [op EXCEPT !.pc = "sync"]
  BY DEF PutEntry, At, Go, FileEntry
<1>2. op \in OpType /\ op.call = "close" /\ fil \in FilType /\ fil.open
  BY <1>1 DEF IInv, Control, Places, FilOK, FileInv
<1>3. fil.t \in Clusters /\ fil.i \in 1 .. Slots /\ fil.d \in Clusters /\ fil.sclust \in Clusters \cup {0}
  BY <1>2 DEF FilType
<1>4. ~ClosedBy(op)
  BY <1>1 DEF ClosedBy
<1>5. /\ fil.n \in Names /\ fil.d \in Directories(Vol) /\ fil.t \in Line(Vol, fil.d)
      /\ known[fil.d][fil.n].kind = "unknown" /\ Entry(Vol, fil.t, fil.i) = NewFile(fil.n)
      /\ fil.sclust # 0 => Spare(Vol, fil.sclust)
      /\ op.d = fil.d /\ op.n = fil.n
  BY <1>2, <1>4 DEF TInv, Course, Filing
<1>6. EntryOK(e) /\ e.clst = fil.sclust /\ e.name = fil.n /\ ~e.dir /\ fil.n # NoName
  BY <1>3, <1>5, NotNamed DEF EntryOK, FileEntry
<1> HIDE DEF e
<1>7. Movable(fil.t)
  BY <1>1, WantedIs DEF Ready, Movable
<1>8. GSound(Vol) /\ Mirror
  BY VolShaped DEF TInv
<1>9. EntryPut(Vol, Vol', fil.t, fil.i, e)
  BY <1>1, <1>3, <1>6, <1>7, <1>8, EntryTables
<1>10. Entry(Vol, fil.t, fil.i).name = fil.n /\ ~Entry(Vol, fil.t, fil.i).dir
  BY <1>5 DEF NewFile, NoEntry
<1>11. \A v \in Views : e.clst # 0 => Fresh(v, e.clst)
  BY <1>1, <1>6 DEF IInv, Facts, Unentered
<1>12. Puts(Vol, Vol', fil.d, fil.n, fil.t, fil.i, e)
  <2>1. \A x \in Line(Vol, fil.d), j \in 1 .. Slots : Entry(Vol, x, j).name = fil.n => x = fil.t /\ j = fil.i
    BY <1>3, <1>5, <1>10, UniqueName
  <2>2. e.clst # 0 => Spare(Vol, e.clst) /\ Fresh(Vol, e.clst)
    BY <1>5, <1>6, <1>11 DEF Views
  <2> QED
    BY <1>3, <1>5, <1>6, <1>9, <1>10, <2>1, <2>2 DEF Puts
<1>13. fil.d \in Directories(Vol') /\ fil.t \in Line(Vol', fil.d) /\ Entry(Vol', fil.t, fil.i) = e
  BY <1>8, <1>10, <1>12, PutStays
<1>14. op'.pc = "sync" /\ op'.call = "close" /\ op'.d = op.d /\ op'.n = op.n /\ ClosedBy(op')
  BY <1>1, <1>2 DEF OpType, ClosedBy
<1>15. Aim(Vol', op', known') /\ Room(Vol', op')
  BY <1>14 DEF Aim, Room, NameCalls, Making
<1>16. Filing(Vol', op', fil', known')
  BY <1>1, <1>5, <1>13, <1>14 DEF Filing, e
<1>17. Delivered(Vol', op', fil')
  <2> PICK v \in Views : EntryIs(v, Vol', fil.t, fil.i, e)
    BY <1>1, <1>3, <1>6, <1>7, EntrySees
  <2>1. SameLinks(Vol, Vol') /\ \A s \in Clusters : Vol'[s].data = v[s].data
    BY ViewLinks DEF EntryIs, SameLinks, CInv
  <2>2. /\ \A k \in 1 .. fil.size : Unit(Vol', FileEntry(fil), k) = <<fil.ver, k>>
        /\ fil.sclust = 0 => fil.size = 0
    BY <1>1, <1>2, <2>1, ClosedIsWhole DEF FileEntry
  <2> QED
    BY <1>1, <2>2 DEF Delivered
<1>18. Course(Vol', op', fil', known') /\ op'.pc \notin {"find", "find_next", "empty", "empty_next"}
  BY <1>14, <1>15, <1>16 DEF Course
<1>19. Forgets(known, known') /\ known'[fil.d][fil.n].kind = "unknown" /\ KnownOK'
  BY <1>1, <1>5 DEF Forgets, TInv, KnownOK
<1> HIDE DEF Vol, Views, KnownOK
<1> QED
  BY <1>1, <1>3, <1>6, <1>7, <1>10, <1>11, <1>12, <1>17, <1>18, <1>19, EntryStep

(***************************************************************************)
(* The steps that change a link.                                           *)
(***************************************************************************)
LEMMA CourseGrows == ASSUME IInv, TInv, Grows(Vol, Vol') PROVE Course(Vol', op, fil, known)
<1>1. /\ op.t \in Clusters /\ op.i \in 1 .. Slots /\ fil.t \in Clusters /\ fil.i \in 1 .. Slots
  BY DEF IInv, Control, OpType, FilOK, FilType
<1>2. Course(Vol, op, fil, known)
  BY DEF TInv
<1> HIDE DEF Vol
<1> QED
  BY <1>1, <1>2, GrowsCourse

LEMMA AfterFreeCourse ==
    ASSUME IInv, op.pc = "free", op.call \in NameCalls, NEW v, Course(v, op, fil, known), op' = AfterFree
    PROVE  /\ Course(v, op', fil, known) /\ Searching(v, op') /\ ~ClosedBy(op')
           /\ op'.pc \notin {"find", "find_next", "empty", "empty_next"}
<1>1. op \in OpType /\ ~fil.open /\ fil.sclust = 0
  BY NameHasNoFile DEF IInv, Control
<1>2. CASE op.call = "mkdir"
  <2>1. op' = NoCall
    BY <1>2 DEF AfterFree
  <2> QED
    BY <1>1, <2>1, NoCallCourse, NoCallIs
<1>3. CASE op.call = "open"
  <2>1. /\ op'.pc = "back" /\ op'.call = "open" /\ op'.d = op.d /\ op'.n = op.n /\ op'.t = op.t
        /\ op'.i = op.i
    BY <1>1, <1>3 DEF AfterFree, Go, OpType
  <2>2. Aim(v, op', known)
    BY <1>3, <2>1 DEF Course, Aim, NameCalls, Making
  <2>3. Room(v, op')
    BY <2>1 DEF Room
  <2> QED
    BY <1>1, <2>1, <2>2, <2>3, NoFiling DEF Course, Searching, ClosedBy
<1>4. CASE op.call = "unlink"
  <2>1. /\ op'.pc = "sync" /\ op'.call = "unlink" /\ op'.d = op.d /\ op'.n = op.n /\ op'.t = op.t
        /\ op'.i = op.i
    BY <1>1, <1>4 DEF AfterFree, Go, OpType
  <2>2. Aim(v, op', known)
    BY <1>4, <2>1 DEF Course, Aim, NameCalls, Making
  <2>3. Room(v, op')
    BY <2>1 DEF Room
  <2> QED
    BY <1>1, <2>1, <2>2, <2>3, NoFiling DEF Course, Searching, ClosedBy
<1> QED
  BY <1>2, <1>3, <1>4 DEF NameCalls

LEMMA FreeKeeps == ASSUME IInv, IInv', CInv, DInv, TInv, Free PROVE TInv'
<1> DEFINE nxt == Link(Vol, op.clst)
<1>1. /\ op.pc = "free" /\ Ready /\ disk' = disk /\ fil' = fil /\ known' = known
      /\ \/ nxt = 0 /\ Visit(FatOf[op.clst]) /\ op' = AfterFree
         \/ /\ nxt # 0 /\ SetLink(op.clst, 0)
            /\ op' = IF nxt \in Clusters THEN [op EXCEPT !.clst = nxt] ELSE AfterFree
  BY DEF Free, At
<1>2. op \in OpType /\ op.clst \in Clusters /\ FatOf[op.clst] \in Sectors /\ op.call \in NameCalls
  BY <1>1, SectorFacts DEF IInv, Control, Places, OpType, NameCalls
<1>3. Movable(FatOf[op.clst])
  BY <1>1, WantedIs DEF Ready, Movable
<1>4. CASE nxt = 0 /\ Visit(FatOf[op.clst]) /\ op' = AfterFree
  <2>1. Course(Vol, op', fil', known) /\ Searching(Vol, op') /\ ~ClosedBy(op')
    BY <1>1, <1>2, <1>4, AfterFreeCourse DEF TInv
  <2> QED
    BY <1>1, <1>2, <1>3, <1>4, <2>1, Reads
<1>5. CASE nxt # 0 /\ SetLink(op.clst, 0)
  <2>1. Spare(Vol, op.clst) /\ \A v \in Views : Loose(v, op.clst)
    BY <1>1 DEF IInv, Facts, TInv, Course, Room
  <2>2. /\ Mirror' /\ Lasts /\ Grows(Vol, Vol')
        /\ nxt \in Clusters => Spare(Vol', nxt)
    BY <1>1, <1>2, <1>3, <1>5, <2>1, Frees
  <2>3. Course(Vol', op, fil, known)
    BY <2>2, CourseGrows
  <2> HIDE DEF nxt
  <2>4. CASE nxt \in Clusters
    <3>1. op' = [op EXCEPT !.clst = nxt]
      BY <1>1, <1>5, <2>4
    <3>2. /\ op'.pc = "free" /\ op'.clst = nxt /\ op'.call = op.call /\ op'.t = op.t /\ op'.i = op.i
          /\ op'.n = op.n /\ op'.d = op.d
      BY <1>1, <1>2, <3>1 DEF OpType
    <3>3. Aim(Vol', op', known)
      BY <1>1, <2>3, <3>2 DEF Course, Aim, Making
    <3>4. Room(Vol', op')
      BY <2>2, <2>4, <3>2 DEF Room, Making
    <3>5. Filing(Vol', op', fil', known) /\ ~ClosedBy(op')
      BY <1>1, <1>2, <3>2, NameHasNoFile, NoFiling DEF NameCalls, ClosedBy
    <3>6. Course(Vol', op', fil', known) /\ op'.pc \notin {"find", "find_next", "empty", "empty_next"}
      BY <3>2, <3>3, <3>4, <3>5 DEF Course
    <3> QED
      BY <1>1, <2>2, <3>5, <3>6, LinkCalm
  <2>5. CASE nxt \notin Clusters
    <3>1. op' = AfterFree
      BY <1>1, <1>5, <2>5
    <3>2. /\ Course(Vol', op', fil, known) /\ ~ClosedBy(op')
          /\ op'.pc \notin {"find", "find_next", "empty", "empty_next"}
      BY <1>1, <1>2, <2>3, <3>1, AfterFreeCourse
    <3> QED
      BY <1>1, <2>2, <3>2, LinkCalm
  <2> QED
    BY <2>4, <2>5
<1> QED
  BY <1>1, <1>4, <1>5

LEMMA AllocateKeeps == ASSUME IInv, IInv', CInv, DInv, TInv, Allocate PROVE TInv'
<1>1. op.pc = "chain" /\ Ready /\ disk' = disk /\ known' = known /\ fs.free # 0
  BY DEF Allocate, At
<1> PICK c \in NextFree :
        /\ SetLink(c, EndOfChain)
        /\ IF op.clst = 0 THEN Got(c)
           ELSE op' = [op EXCEPT !.pc = "link", !.ncl = c] /\ fil' = fil
  BY DEF Allocate, Go
<1>2. /\ Control /\ op \in OpType /\ op.call \in {"open", "mkdir", "write"} /\ FilOK /\ fil \in FilType
      /\ op.call # "write" => op.call \in NameCalls
      /\ op.call = "write" => op.clst = fil.clust
  BY <1>1 DEF IInv, Control, Places, FileInv, FilOK, NameCalls
<1>3. c \in Clusters /\ Link(Vol, c) = 0 /\ c # 0
  BY ClusterFacts DEF NextFree, IsFree
<1>4. Movable(FatOf[c])
  BY <1>1, <1>2, FoundIsRead, WantedIs DEF Ready, Movable
<1>5. Mirror' /\ Lasts /\ Grows(Vol, Vol')
  BY <1>1, <1>3, <1>4, Marks
<1>6. Course(Vol', op, fil, known)
  BY <1>5, CourseGrows
<1>7. Spare(Vol', c)
  <2>1. Vacant(Vol, c)
    BY <1>3 DEF TInv, Tidy, Volumes
  <2>2. Vacant(Vol', c)
    BY <1>3, <1>5, <2>1 DEF Grows, Vacant
  <2>3. Link(Vol', c) = EndOfChain
    <3>1. EndOfChain \in Links
      BY SectorFacts
    <3> QED
      BY <1>1, <1>3, <1>4, <3>1, LinkTables DEF TInv, LinkPut
  <2>4. Within(Vol', {c}, {c})
    BY <2>3, ClusterFacts DEF Within
  <2> HIDE DEF Vol
  <2> QED
    BY <1>3, <2>2, <2>4 DEF Spare
<1>8. CASE op.clst = 0 /\ op.call = "write"
  <2>1. /\ op'.pc = "spill" /\ op'.call = "write"
        /\ fil' = [fil EXCEPT !.clust = c, !.sclust = IF @ = 0 THEN c ELSE @]
    BY <1>1, <1>2, <1>3, <1>8, GotIs
  <2>2. fil.sclust = 0
    BY <1>2, <1>8 DEF FilOK
  <2>3. /\ fil'.sclust = c /\ fil'.open = fil.open /\ fil'.t = fil.t /\ fil'.i = fil.i /\ fil'.n = fil.n
        /\ fil'.d = fil.d
    BY <1>2, <2>1, <2>2 DEF FilType
  <2>4. ~ClosedBy(op') /\ ~ClosedBy(op)
    BY <1>8, <2>1 DEF ClosedBy
  <2>5. Aim(Vol', op', known) /\ Room(Vol', op')
    BY <2>1 DEF Aim, Room, NameCalls, Making
  <2>6. Filing(Vol', op', fil', known)
    BY <1>6, <1>7, <2>1, <2>3, <2>4 DEF Course, Filing
  <2>7. Course(Vol', op', fil', known) /\ op'.pc \notin {"find", "find_next", "empty", "empty_next"}
    BY <2>1, <2>5, <2>6 DEF Course
  <2> QED
    BY <1>1, <1>5, <2>4, <2>7, LinkCalm
<1>9. CASE op.clst = 0 /\ op.call # "write"
  <2>1. op.call = "mkdir" /\ op.dcl = 0 /\ op.call \in NameCalls
    BY <1>1, <1>2, <1>9 DEF TInv, Course, Room
  <2>2. op' = [op EXCEPT !.pc = "clear", !.ncl = c, !.dcl = c] /\ fil' = fil
    BY <1>2, <1>9, <2>1 DEF Got, Go, OpType
  <2>3. /\ op'.pc = "clear" /\ op'.ncl = c /\ op'.dcl = c /\ op'.call = "mkdir"
        /\ op'.d = op.d /\ op'.t = op.t /\ op'.n = op.n
    BY <1>2, <2>1, <2>2 DEF OpType
  <2>4. Aim(Vol', op', known)
    BY <1>1, <1>6, <2>1, <2>3 DEF Course, Aim, Making, NameCalls
  <2>5. Room(Vol', op')
    BY <1>7, <2>3 DEF Room
  <2>6. Filing(Vol', op', fil', known) /\ ~ClosedBy(op')
    BY <2>1, <2>2, <2>3, NameHasNoFile, NoFiling DEF ClosedBy
  <2>7. Course(Vol', op', fil', known) /\ op'.pc \notin {"find", "find_next", "empty", "empty_next"}
    BY <2>3, <2>4, <2>5, <2>6 DEF Course
  <2> QED
    BY <1>1, <1>5, <2>6, <2>7, LinkCalm
<1>10. CASE op.clst # 0
  <2>1. op' = [op EXCEPT !.pc = "link", !.ncl = c] /\ fil' = fil
    BY <1>10
  <2>2. /\ op'.pc = "link" /\ op'.ncl = c /\ op'.dcl = op.dcl /\ op'.call = op.call
        /\ op'.d = op.d /\ op'.t = op.t /\ op'.n = op.n /\ op'.clst = op.clst
    BY <1>2, <2>1 DEF OpType
  <2>3. Aim(Vol', op', known)
    BY <1>1, <1>2, <1>6, <2>2 DEF Course, Aim, Making
  <2>4. Room(Vol', op')
    BY <1>1, <1>2, <1>6, <1>7, <2>2 DEF Course, Room, Making
  <2>5. ~ClosedBy(op') /\ ~ClosedBy(op) /\ op'.call # "close"
    BY <1>2, <2>2 DEF ClosedBy
  <2>6. Filing(Vol', op', fil', known)
    BY <1>6, <2>1, <2>5 DEF Course, Filing
  <2>7. Course(Vol', op', fil', known) /\ op'.pc \notin {"find", "find_next", "empty", "empty_next"}
    BY <2>2, <2>3, <2>4, <2>6 DEF Course
  <2> QED
    BY <1>1, <1>5, <2>5, <2>7, LinkCalm
<1> QED
  BY <1>8, <1>9, <1>10

LEMMA LinkItKeeps == ASSUME IInv, IInv', CInv, DInv, TInv, LinkIt PROVE TInv'
<1>1. op.pc = "link" /\ Ready /\ disk' = disk /\ known' = known /\ SetLink(op.clst, op.ncl) /\ Got(op.ncl)
  BY DEF LinkIt, At
<1>2. /\ Control /\ op \in OpType /\ op.call \in {"open", "mkdir", "write"} /\ FilOK /\ fil \in FilType
      /\ op.clst \in Clusters
      /\ op.call # "write" => op.call \in NameCalls
      /\ op.call = "write" => fil.sclust # 0
      /\ op.call = "mkdir" => op.dcl # 0
  BY <1>1 DEF IInv, Control, Places, MkdirInv, FileInv, FilOK, OpType, NameCalls
<1>3. Movable(FatOf[op.clst])
  BY <1>1, WantedIs DEF Ready, Movable
<1>4. op.ncl \in Clusters
  BY <1>1 DEF IInv, Views, Facts, Fresh, Loose
<1>5. Spare(Vol, op.ncl) /\ Link(Vol, op.clst) \notin Clusters
  BY <1>1, <1>2, ClusterFacts DEF TInv, Course, Room, DInv, Growing
<1>6. /\ Mirror' /\ Lasts /\ Grows(Vol, Vol')
      /\ \A d \in Directories(Vol) : op.clst \in Line(Vol, d) => op.ncl \in Line(Vol', d)
  BY <1>1, <1>2, <1>3, <1>4, <1>5, Stretches
<1>7. Course(Vol', op, fil, known) /\ Spare(Vol', op.ncl)
  BY <1>5, <1>6, CourseGrows DEF Grows
<1>8. ~ClosedBy(op)
  BY <1>1 DEF ClosedBy
<1>9. CASE op.call = "write"
  <2>1. /\ op'.pc = "spill" /\ op'.call = "write"
        /\ fil' = [fil EXCEPT !.clust = op.ncl, !.sclust = IF @ = 0 THEN op.ncl ELSE @]
    BY <1>1, <1>2, <1>4, <1>9, GotIs
  <2>2. /\ fil'.sclust = fil.sclust /\ fil'.open = fil.open /\ fil'.t = fil.t /\ fil'.i = fil.i
        /\ fil'.n = fil.n /\ fil'.d = fil.d
    BY <1>2, <1>9, <2>1 DEF FilType
  <2>3. ~ClosedBy(op')
    BY <2>1 DEF ClosedBy
  <2>4. Aim(Vol', op', known) /\ Room(Vol', op')
    BY <2>1 DEF Aim, Room, NameCalls, Making
  <2>5. Filing(Vol', op', fil', known)
    BY <1>7, <1>8, <2>1, <2>2, <2>3 DEF Course, Filing
  <2>6. Course(Vol', op', fil', known) /\ op'.pc \notin {"find", "find_next", "empty", "empty_next"}
    BY <2>1, <2>4, <2>5 DEF Course
  <2> QED
    BY <1>1, <1>6, <2>3, <2>6, LinkCalm
<1>10. CASE op.call # "write"
  <2>1. op' = [op EXCEPT !.pc = "clear", !.ncl = op.ncl] /\ fil' = fil /\ op.call \in NameCalls
    <3>1. ~(op.call = "mkdir" /\ op.dcl = 0)
      BY <1>2
    <3> QED
      BY <1>1, <1>2, <1>10, <3>1 DEF Got, Go
  <2>2. /\ op'.pc = "clear" /\ op'.ncl = op.ncl /\ op'.dcl = op.dcl /\ op'.call = op.call
        /\ op'.d = op.d /\ op'.t = op.t /\ op'.n = op.n
    BY <1>2, <2>1 DEF OpType
  <2>3. op.ncl \in Line(Vol', op.d)
    <3>1. op.d \in Directories(Vol) /\ op.t \in Line(Vol, op.d) /\ op.clst = op.t
      BY <1>1, <1>2, <1>10, <2>1, ClusterFacts DEF TInv, Course, Aim, Room
    <3> QED
      BY <1>6, <3>1
  <2>4. Aim(Vol', op', known)
    BY <1>1, <1>2, <1>7, <2>2 DEF Course, Aim, Making
  <2>5. Room(Vol', op')
    BY <1>1, <1>2, <1>7, <1>10, <2>2, <2>3 DEF Course, Room, Making
  <2>6. Filing(Vol', op', fil', known) /\ ~ClosedBy(op')
    BY <1>2, <1>10, <2>1, <2>2, NameHasNoFile, NoFiling DEF ClosedBy
  <2>7. Course(Vol', op', fil', known) /\ op'.pc \notin {"find", "find_next", "empty", "empty_next"}
    BY <2>2, <2>4, <2>5, <2>6 DEF Course
  <2> QED
    BY <1>1, <1>6, <2>6, <2>7, LinkCalm
<1> QED
  BY <1>9, <1>10

\* A call that gets no further: f_mkdir gives back its cluster.
LEMMA UndoneCourse ==
    ASSUME IInv, TInv, op' = Undone, StopFile
    PROVE  Course(Vol, op', fil', known) /\ Searching(Vol, op') /\ ~ClosedBy(op')
<1>1. Control /\ op \in OpType /\ FilOK /\ fil \in FilType /\ Course(Vol, op, fil, known)
  BY DEF IInv, Control, FilOK, TInv
<1>2. CASE op' = NoCall
  <2>1. CASE op.call = "close"
    <3>1. ~fil'.open /\ fil'.sclust = 0
      BY <2>1 DEF StopFile, NoFile
    <3> QED
      BY <1>2, <3>1, NoCallCourse
  <2>2. CASE op.call # "close"
    <3>1. /\ fil'.sclust = fil.sclust /\ fil'.open = fil.open /\ fil'.t = fil.t /\ fil'.i = fil.i
          /\ fil'.n = fil.n /\ fil'.d = fil.d
      <4>1. CASE op.call = "write"
        <5>1. fil' = [fil EXCEPT !.stop = TRUE]
          BY <4>1 DEF StopFile
        <5> QED
          BY <1>1, <5>1 DEF FilType
      <4>2. CASE op.call # "write"
        BY <2>2, <4>2 DEF StopFile
      <4> QED
        BY <4>1, <4>2
    <3>2. ~ClosedBy(op) /\ ~ClosedBy(NoCall) /\ NoCall.call # "close"
      BY <2>2, NoCallIs DEF ClosedBy
    <3>3. Filing(Vol, NoCall, fil', known)
      BY <1>1, <3>1, <3>2 DEF Course, Filing
    <3> QED
      BY <1>2, <3>2, <3>3, NoCallCourse
  <2> QED
    BY <2>1, <2>2
<1>3. CASE op' # NoCall
  <2>1. /\ op.call = "mkdir" /\ op.dcl # 0
        /\ op.pc \in {"chain", "link", "clear", "alloc", "alloc_next"}
        /\ op' = [op EXCEPT !.pc = "free", !.clst = op.dcl]
    BY <1>1, <1>3 DEF Undone, Go, OpType
  <2>2. /\ op'.call = "mkdir" /\ op'.pc = "free" /\ op'.clst = op.dcl /\ op'.n = op.n /\ op'.d = op.d
        /\ op'.t = op.t
    BY <1>1, <2>1 DEF OpType
  <2>3. fil' = fil /\ ~fil.open /\ fil.sclust = 0
    BY <1>1, <2>1 DEF StopFile, Control, FileInv, FilOK
  <2>4. Aim(Vol, op', known)
    BY <1>1, <2>1, <2>2 DEF Course, Aim, NameCalls, Making
  <2>5. Room(Vol, op')
    BY <1>1, <2>1, <2>2 DEF Course, Room, Making
  <2>6. Filing(Vol, op', fil', known) /\ ~ClosedBy(op') /\ Searching(Vol, op')
    BY <2>2, <2>3, NoFiling DEF ClosedBy, Searching
  <2> QED
    BY <2>4, <2>5, <2>6 DEF Course
<1> QED
  BY <1>2, <1>3

\* Nothing is written and the window stays.
LEMMA NothingMoves ==
    ASSUME IInv', TInv, disk' = disk, win' = win, known' = known,
           Course(Vol, op', fil', known), Searching(Vol, op'), ~ClosedBy(op')
    PROVE  TInv'
<1>1. Vol' = Vol
  BY DEF Vol
<1>2. SameTables(Vol, Vol') /\ Mirror'
  BY <1>1 DEF SameTables, SameLinks, TInv, Mirror
<1>3. Lasts
  BY <1>1, SeenLasts DEF Volumes
<1> QED
  BY <1>2, <1>3, Calm

LEMMA FullKeeps == ASSUME IInv, IInv', TInv, Full PROVE TInv'
<1>1. op.pc = "chain" /\ Ready /\ disk' = disk /\ known' = known /\ op' = Undone /\ StopFile
  BY DEF Full, At
<1>2. op \in OpType /\ Wanted = Searched
  BY <1>1, WantedIs DEF IInv, Control
<1>3. Course(Vol, op', fil', known) /\ Searching(Vol, op') /\ ~ClosedBy(op')
  BY <1>1, UndoneCourse
<1>4. CASE win' = win
  BY <1>1, <1>3, <1>4, NothingMoves
<1>5. CASE win' # win
  <2> PICK s \in FatSectors : Visit(s) /\ s \in Searched
    <3>1. CASE fs.free = 0
      BY <1>2, <1>5, <3>1, SectorFacts DEF Full, Searched, OpType
    <3>2. CASE fs.free # 0
      BY <1>5, <3>2, SectorFacts DEF Full, Searched, SectorsOf
    <3> QED
      BY <3>1, <3>2
  <2>1. s \in Sectors /\ Movable(s)
    BY <1>1, <1>2, SectorFacts DEF Ready, Movable
  <2> QED
    BY <1>1, <1>3, <2>1, Reads
<1> QED
  BY <1>4, <1>5

(***************************************************************************)
(* The steps that write past the window.                                   *)
(***************************************************************************)
LEMMA DataLast ==
    ASSUME IInv, CInv, DInv, NEW v \in Volumes, NEW w, SameTables(v, w),
           \A s \in Clusters : w[s] = v[s] \/ Unfiled(v, s)
    PROVE  Grows(v, w) /\ SameUnits(v, w)
<1>1. GSound(v) /\ HeldIn(v) /\ FilesWhole(v, spent.calls) /\ spent.calls \in Nat
  BY VolumeFacts DEF DInv, CInv, Typed, SpentOK
<1>2. \A x \in Clusters : Steady(v, w, x) \/ Unfiled(v, x)
  BY DEF Steady, SameTables, SameLinks
<1>3. SameUnits(v, w)
  BY <1>1, <1>2, UnitsStay
<1> QED
  BY <1>3, TablesGrow

LEMMA WipeLasts ==
    ASSUME IInv, CInv, DInv, TInv, NEW c \in Clusters, NEW b, NoNames(b), disk' = [disk EXCEPT ![c] = b],
           \/ win' = win /\ win.sect # c
           \/ \E d, x : NoNames(d) /\ ~win.dirty /\ win' = [sect |-> c, buf |-> d, dirty |-> x],
           Vacant(Vol, c), \A v \in Volumes : Unfiled(v, c)
    PROVE  SameTables(Vol, Vol') /\ Mirror' /\ Lasts
<1>1. Mirror /\ disk \in Volumes /\ Vol \in Volumes
  BY DEF TInv, Volumes
<1>2. /\ SameLinks(Vol, Vol') /\ Mirror'
      /\ \A t \in Clusters, i \in 1 .. Slots :
            Entry(Vol', t, i) = IF t = c THEN NoEntry ELSE Entry(Vol, t, i)
  BY <1>1, WipeTables
<1>3. SameTables(Vol, Vol')
  BY <1>2 DEF SameTables, Vacant
<1>4. disk' = Over(disk, c, b)
  BY VolIsOver DEF IInv, Over
<1>5. c \in Sectors /\ c \notin FatSectors
  BY SectorFacts
<1>6. \A s \in Sectors : disk'[s] = IF s = c THEN b ELSE disk[s]
  BY <1>4 DEF Over
<1>7. Vacant(disk, c)
  <2>1. CASE win' = win /\ win.sect # c
    <3>1. Vol[c] = disk[c]
      BY <1>5, <2>1 DEF Vol
    <3> QED
      BY <3>1 DEF Vacant, Entry
  <2>2. CASE ~(win' = win /\ win.sect # c)
    <3>1. SameTables(disk, Vol)
      BY <1>1, <2>2 DEF Mirror
    <3> QED
      BY <3>1 DEF Vacant, SameTables
  <2> QED
    BY <2>1, <2>2
<1>8. SameTables(disk, disk')
  <2>1. SameLinks(disk, disk')
    BY <1>5, <1>6, SectorFacts DEF SameLinks, Link
  <2>2. \A t \in Clusters, i \in 1 .. Slots : Entry(disk', t, i) = Entry(disk, t, i)
    BY <1>6, <1>7, SectorFacts DEF Entry, NoNames, Vacant
  <2> QED
    BY <2>1, <2>2 DEF SameTables
<1>9. Grows(disk, disk') /\ SameUnits(disk, disk')
  <2>1. \A s \in Clusters : disk'[s] = disk[s] \/ Unfiled(disk, s)
    BY <1>1, <1>6, SectorFacts
  <2> QED
    BY <1>1, <1>8, <2>1, DataLast
<1>10. \E v \in Volumes : Grows(v, Vol') /\ SameUnits(v, Vol')
  <2>1. CASE win' = win /\ win.sect # c
    <3>1. \A s \in Clusters : Vol'[s] = Vol[s] \/ Unfiled(Vol, s)
      <4>1. \A s \in Clusters : s # c => Vol'[s] = Vol[s]
        BY <1>6, <2>1, SectorFacts DEF Vol
      <4> QED
        BY <1>1, <4>1
    <3> QED
      BY <1>1, <1>3, <3>1, DataLast
  <2>2. CASE ~(win' = win /\ win.sect # c)
    <3>1. win'.sect = c /\ ~win.dirty
      BY <2>2
    <3>2. \A s \in Clusters : Vol'[s] = disk[s] \/ Unfiled(disk, s)
      <4>1. \A s \in Clusters : s # c => Vol'[s] = disk[s]
        BY <1>6, <3>1, SectorFacts DEF Vol
      <4> QED
        BY <1>1, <4>1
    <3>3. SameTables(disk, Vol')
      <4>1. SameTables(disk, Vol)
        BY <1>1, <3>1 DEF Mirror
      <4> QED
        BY <1>3, <4>1 DEF SameTables, SameLinks
    <3> QED
      BY <1>1, <3>2, <3>3, DataLast
  <2> QED
    BY <2>1, <2>2
<1>11. \A w \in Volumes' : w = disk' \/ w = Vol'
  BY DEF Volumes
<1>12. Lasts
  BY <1>1, <1>9, <1>10, <1>11 DEF Lasts
<1> QED
  BY <1>2, <1>3, <1>12

LEMMA ClearKeeps == ASSUME IInv, IInv', CInv, DInv, TInv, Clear PROVE TInv'
<1> DEFINE d == IF op.ncl = op.dcl THEN [Blank EXCEPT !.dots = TRUE] ELSE Blank
<1>1. /\ op.pc = "clear" /\ Ready /\ disk' = [disk EXCEPT ![op.ncl] = Blank] /\ fil' = fil
      /\ win' = [sect |-> op.ncl, buf |-> d, dirty |-> op.ncl = op.dcl] /\ known' = known
      /\ op' = [op EXCEPT !.pc = "alloc", !.t = IF op.ncl = op.dcl THEN op.d ELSE op.ncl]
  BY DEF Clear, At
<1>2. op \in OpType /\ op.ncl \in Clusters /\ op.call \in {"open", "mkdir"}
  BY <1>1, NameCall DEF IInv, Control, Places, OpType
<1>3. ~win.dirty /\ NoNames(d) /\ NoNames(Blank)
  BY <1>1, WantedIs, CleanWindow, BlankNames DEF IInv
<1> HIDE DEF d
<1>4. /\ op'.pc = "alloc" /\ op'.call = op.call /\ op'.d = op.d /\ op'.n = op.n /\ op'.dcl = op.dcl
      /\ op'.t = IF op.ncl = op.dcl THEN op.d ELSE op.ncl
  BY <1>1, <1>2 DEF OpType
<1>5. ~fil'.open /\ fil'.sclust = 0 /\ op.call \in NameCalls
  BY <1>1, <1>2, NameHasNoFile DEF NameCalls
<1>6. Course(Vol, op, fil, known)
  BY DEF TInv
<1>7. Aim(Vol, op, known) /\ Room(Vol, op)
  BY <1>6 DEF Course
<1>8. Vacant(Vol, op.ncl) /\ \A v \in Volumes : Unfiled(v, op.ncl)
  BY <1>1, <1>7, SpareLine DEF Room, DInv, Growing
<1>9. SameTables(Vol, Vol') /\ Mirror' /\ Lasts
  BY <1>1, <1>2, <1>3, <1>8, WipeLasts
<1>10. op.d \in Directories(Vol) /\ op'.t \in Line(Vol, op.d) /\ op.n \in Names
       /\ NotThere(Vol, op.d, op.n)
  <2>1. op.n \in Names /\ op.d \in Directories(Vol) /\ NotThere(Vol, op.d, op.n)
    BY <1>1, <1>2, <1>5, <1>7 DEF Aim, Making
  <2>2. op.d \in Line(Vol, op.d)
    BY <1>2, LineFacts DEF OpType
  <2>3. op.ncl # op.dcl => op.ncl \in Line(Vol, op.d)
    BY <1>1, <1>7 DEF Room
  <2> QED
    BY <1>4, <2>1, <2>2, <2>3
<1>11. Aim(Vol, op', known)
  BY <1>2, <1>4, <1>10 DEF Aim, NameCalls
<1>12. Room(Vol, op')
  BY <1>1, <1>4, <1>7 DEF Room, Making
<1>13. Searching(Vol, op') /\ ~ClosedBy(op') /\ Filing(Vol, op', fil', known)
  BY <1>2, <1>4, <1>5, NoFiling DEF Searching, ClosedBy
<1>14. Course(Vol, op', fil', known)
  BY <1>11, <1>12, <1>13 DEF Course
<1> QED
  BY <1>1, <1>9, <1>13, <1>14, Calm

\* The open file goes on, under its name and with its first cluster.
LEMMA FileCourse ==
    ASSUME NEW v, NEW o, NEW f, NEW kn, Course(v, o, f, kn), ~ClosedBy(o),
           NEW p, p.call \in {"none", "write"} \/ (p.call = "close" /\ p.d = f.d /\ p.n = f.n),
           p.pc \in {"idle", "chunk", "spill", "data", "entry"} \/ (p.pc = "chain" /\ p.call = "write"),
           NEW g, g.open = f.open, g.d = f.d, g.n = f.n, g.t = f.t, g.i = f.i, g.sclust = f.sclust
    PROVE  Course(v, p, g, kn) /\ Searching(v, p) /\ ~ClosedBy(p)
<1>1. Filing(v, o, f, kn)
  BY DEF Course
<1>2. ~ClosedBy(p) /\ Searching(v, p)
  BY DEF ClosedBy, Searching
<1>3. Aim(v, p, kn)
  BY DEF Aim, NameCalls
<1>4. Room(v, p)
  BY DEF Room
<1>5. Filing(v, p, g, kn)
  BY <1>1, <1>2 DEF Filing
<1> QED
  BY <1>2, <1>3, <1>4, <1>5 DEF Course

\* The clusters of the open file have no names.
LEMMA ChainVacant ==
    ASSUME TInv, Unentered, NEW m \in Nat, NEW F \in [1 .. m -> Clusters], IsChain(m, F),
           NEW j \in 1 .. m
    PROVE  Vacant(Vol, F[j])
<1> DEFINE L == Line(Vol, fil.sclust)
           S == {k \in 0 .. m : k = 0 \/ F[k] \in L}
<1>1. F[1] = fil.sclust /\ fil.sclust \in Clusters
  BY ClusterFacts DEF IsChain
<1>2. fil.sclust \in L
  BY <1>1, LineFacts
<1>3. Spare(Vol, fil.sclust)
  BY DEF TInv, Course, Filing, Unentered, ClosedBy
<1>4. \A x \in L : Vacant(Vol, x)
  BY <1>3, SpareLine
<1>5. \A x \in L : Link(Vol, x) \in Clusters => Link(Vol, x) \in L
  BY <1>1, LineMore
<1> HIDE DEF L
<1>6. ASSUME NEW k \in 1 .. m, k - 1 \in S PROVE k \in S
  <2>1. CASE k = 1
    BY <1>1, <1>2, <2>1
  <2>2. CASE k # 1
    <3>1. k - 1 \in 1 .. m - 1 /\ (k - 1) + 1 = k
      BY <2>2
    <3>2. Link(Vol, F[k - 1]) = F[k]
      BY <3>1 DEF IsChain
    <3>3. F[k - 1] \in L /\ F[k] \in Clusters
      BY <1>6, <3>1
    <3> QED
      BY <1>5, <3>2, <3>3
  <2> QED
    BY <2>1, <2>2
<1>7. 0 \in S
  OBVIOUS
<1> HIDE DEF S
<1>8. 0 .. m \subseteq S
  BY <1>6, <1>7, Induction
<1>9. j \in S
  BY <1>8
<1> QED
  BY <1>4, <1>9 DEF S

LEMMA ChunkKeeps == ASSUME IInv, IInv', TInv, Chunk PROVE TInv'
<1>1. op.pc = "chunk" /\ win' = win /\ disk' = disk /\ known' = known
  BY DEF Chunk, At
<1>2. op \in OpType /\ FilOK /\ fil \in FilType /\ op.call = "write" /\ fil.open
  BY <1>1 DEF IInv, Control, Places, FileInv, FilOK
<1>3. \/ op'.pc = "idle" /\ op'.call = "none"
      \/ op'.pc \in {"chain", "chunk"} /\ op'.call = "write"
  <2>1. CASE op' = NoCall
    BY <2>1, NoCallIs
  <2>2. CASE op' # NoCall
    BY <1>1, <1>2, <2>2 DEF Chunk, Go, OpType
  <2> QED
    BY <2>1, <2>2
<1>4. /\ fil'.sclust = fil.sclust /\ fil'.open = fil.open /\ fil'.t = fil.t /\ fil'.i = fil.i
      /\ fil'.n = fil.n /\ fil'.d = fil.d
  <2>1. CASE fil' = fil
    BY <2>1
  <2>2. CASE fil' # fil
    <3> PICK w \in {Least(Units - (fil.size % Units), op.left)} :
           fil' = [fil EXCEPT !.buf = Filled(w), !.dirty = TRUE, !.size = @ + w]
      BY <2>2 DEF Chunk
    <3> QED
      BY <1>2 DEF FilType
  <2> QED
    BY <2>1, <2>2
<1>5. Course(Vol, op, fil, known) /\ ~ClosedBy(op)
  BY <1>2 DEF TInv, ClosedBy
<1>6. Course(Vol, op', fil', known) /\ Searching(Vol, op') /\ ~ClosedBy(op')
  BY <1>3, <1>4, <1>5, FileCourse
<1> QED
  BY <1>1, <1>6, NothingMoves

\* A step of the open file that writes at most one of its clusters.
LEMMA PastKeeps ==
    ASSUME IInv, IInv', CInv, DInv, TInv, op.pc \in {"spill", "data"}, win' = win, known' = known,
           op'.call = op.call, op'.pc \in {"chunk", "data", "entry"}, op'.d = op.d, op'.n = op.n,
           fil'.sclust = fil.sclust, fil'.open = fil.open, fil'.t = fil.t, fil'.i = fil.i,
           fil'.n = fil.n, fil'.d = fil.d,
           \/ disk' = disk
           \/ \E c \in Clusters : \E x : /\ ToDisk(c, x) /\ win.sect # c /\ Vacant(Vol, c)
                                        /\ \A v \in Volumes : Unfiled(v, c)
    PROVE  TInv'
<1>1. op.call \in {"write", "close"}
  BY DEF IInv, Control, Places
<1>2. Course(Vol, op, fil, known) /\ ~ClosedBy(op)
  BY DEF TInv, ClosedBy
<1>3. op.call = "close" => op.d = fil.d /\ op.n = fil.n
  BY <1>2 DEF Course, Filing
<1>4. Course(Vol, op', fil', known) /\ Searching(Vol, op') /\ ~ClosedBy(op')
  BY <1>1, <1>2, <1>3, FileCourse
<1>5. CASE disk' = disk
  BY <1>4, <1>5, NothingMoves
<1>6. CASE disk' # disk
  <2> PICK c \in Clusters : \E x : /\ ToDisk(c, x) /\ win.sect # c /\ Vacant(Vol, c)
                                  /\ \A v \in Volumes : Unfiled(v, c)
    BY <1>6
  <2> PICK x : /\ ToDisk(c, x) /\ win.sect # c /\ Vacant(Vol, c)
               /\ \A v \in Volumes : Unfiled(v, c)
    OBVIOUS
  <2>1. disk' = [disk EXCEPT ![c] = [Blank EXCEPT !.data = x]]
    BY DEF ToDisk
  <2>2. SameTables(Vol, Vol') /\ Mirror' /\ Lasts
    BY <2>1, BlankNames, WipeLasts
  <2> QED
    BY <1>4, <2>2, Calm
<1> QED
  BY <1>5, <1>6

LEMMA SpillKeeps == ASSUME IInv, IInv', CInv, DInv, TInv, Spill PROVE TInv'
<1>1. /\ op.pc = "spill" /\ win' = win /\ op.call \in {"write", "close"} /\ known' = known
      /\ op' = [op EXCEPT !.pc = IF op.call = "close" THEN "entry" ELSE "data"]
      /\ IF fil.dirty
         THEN ToDisk(fil.sect, fil.buf) /\ fil' = [fil EXCEPT !.dirty = FALSE]
         ELSE UNCHANGED <<disk, fil>>
  BY DEF Spill, At, Go, IInv, Control, Places
<1>2. op \in OpType /\ FilOK /\ fil \in FilType /\ fil.open /\ fil.size \in Nat
  BY <1>1 DEF IInv, Control, FilOK, FilType, FileInv
<1>3. op'.pc \in {"entry", "data"} /\ op'.call = op.call /\ op'.d = op.d /\ op'.n = op.n
  BY <1>1, <1>2 DEF OpType
<1>4. /\ fil'.sclust = fil.sclust /\ fil'.open = fil.open /\ fil'.t = fil.t /\ fil'.i = fil.i
      /\ fil'.n = fil.n /\ fil'.d = fil.d
  BY <1>1, <1>2 DEF FilType
<1>5. ASSUME fil.dirty
      PROVE  /\ fil.sect \in Clusters /\ win.sect # fil.sect /\ Vacant(Vol, fil.sect)
             /\ \A v \in Volumes : Unfiled(v, fil.sect)
  <2>1. ~Closed /\ Unentered
    BY <1>1, <1>2, <1>5 DEF Closed, Unentered, FilOK
  <2> PICK m \in Nat : \E F \in [1 .. m -> Clusters] : IsChain(m, F) /\ HasRoom(m) /\ HasData(F)
    BY <1>2, <2>1 DEF DInv, FileWritten
  <2> PICK F \in [1 .. m -> Clusters] : IsChain(m, F) /\ HasRoom(m) /\ HasData(F)
    OBVIOUS
  <2>2. fil.size # 0 /\ fil.sect = F[Tail(fil.size) + 1] /\ Tail(fil.size) + 1 \in 1 .. m
    BY <1>2, <1>5, PieceAt DEF HasData
  <2>3. Vacant(Vol, fil.sect)
    BY <2>1, <2>2, ChainVacant
  <2>4. fil.sect \in Clusters /\ \A v \in Volumes : Unfiled(v, fil.sect)
    BY <2>2 DEF IsChain
  <2> QED
    BY <2>1, <2>3, <2>4 DEF IInv, WindowInv
<1>6. \/ disk' = disk
      \/ \E c \in Clusters : \E x : /\ ToDisk(c, x) /\ win.sect # c /\ Vacant(Vol, c)
                                   /\ \A v \in Volumes : Unfiled(v, c)
  BY <1>1, <1>5
<1> QED
  BY <1>1, <1>3, <1>4, <1>6, PastKeeps

LEMMA DataKeeps == ASSUME IInv, IInv', CInv, DInv, TInv, Data PROVE TInv'
<1>1. op.pc = "data" /\ win' = win /\ op.call = "write" /\ known' = known
  BY DEF Data, At, IInv, Control, Places
<1>2. op \in OpType /\ fil \in FilType
  BY <1>1 DEF IInv, Control, FilOK
<1>3. op'.pc = "chunk" /\ op'.call = op.call /\ op'.d = op.d /\ op'.n = op.n
  BY <1>1, <1>2 DEF Data, Go, OpType
<1>4. /\ fil'.sclust = fil.sclust /\ fil'.open = fil.open /\ fil'.t = fil.t /\ fil'.i = fil.i
      /\ fil'.n = fil.n /\ fil'.d = fil.d
  BY <1>1, <1>2 DEF Data, FilType
<1>5. /\ fil.clust \in Clusters /\ win.sect # fil.clust /\ Vacant(Vol, fil.clust)
      /\ \A v \in Volumes : Unfiled(v, fil.clust)
  <2> PICK m \in Nat : \E F \in [1 .. m -> Clusters] : Located(m, F)
    BY <1>1, Whereabouts
  <2> PICK F \in [1 .. m -> Clusters] : Located(m, F)
    BY SMTT(30)
  <2>1. IsChain(m, F) /\ m \in 1 .. m /\ F[m] = fil.clust /\ fil.clust \in Clusters
    BY DEF Located
  <2>2. Unentered
    BY <1>1 DEF IInv, Control, FileInv, Unentered
  <2>3. Vacant(Vol, F[m])
    BY <2>1, <2>2, ChainVacant
  <2>4. \A v \in Volumes : Unfiled(v, fil.clust)
    BY <2>1 DEF IsChain
  <2> QED
    BY <2>1, <2>2, <2>3, <2>4 DEF IInv, WindowInv
<1>6. \/ disk' = disk
      \/ \E c \in Clusters : \E x : /\ ToDisk(c, x) /\ win.sect # c /\ Vacant(Vol, c)
                                   /\ \A v \in Volumes : Unfiled(v, c)
  BY <1>1, <1>5 DEF Data
<1> QED
  BY <1>1, <1>3, <1>4, <1>6, PastKeeps

\* The entry f_close has put leads to the same data.
LEMMA DeliveredLasts ==
    ASSUME NEW v, NEW w, SameUnits(v, w), NEW o, NEW f, f.t \in Clusters, f.i \in 1 .. Slots,
           ClosedBy(o) => Entry(v, f.t, f.i) = FileEntry(f), Delivered(v, o, f)
    PROVE  Delivered(w, o, f)
<1> SUFFICES ASSUME ClosedBy(o) PROVE Delivered(w, o, f)
  BY DEF Delivered
<1> DEFINE e == FileEntry(f)
<1>1. e.clst = f.sclust /\ e.size = f.size /\ ~e.dir
  BY DEF FileEntry
<1>2. Entry(v, f.t, f.i) = e
  OBVIOUS
<1>3. /\ f.sclust = 0 => f.size = 0
      /\ \A u \in 1 .. f.size : Unit(v, e, u) = <<f.ver, u>>
  BY DEF Delivered
<1> HIDE DEF e
<1>4. ASSUME NEW u \in 1 .. f.size PROVE Unit(w, e, u) = <<f.ver, u>>
  <2>1. f.sclust # 0
    BY <1>3
  <2>2. Head(v, f.t, f.i) # 0
    BY <1>1, <1>2, <2>1 DEF Head
  <2>3. Unit(w, e, u) = Unit(v, e, u)
    BY <1>1, <1>2, <2>2 DEF SameUnits
  <2> QED
    BY <1>3, <2>3
<1> QED
  BY <1>3, <1>4 DEF Delivered, e

LEMMA InfoKeeps ==
    ASSUME IInv, IInv', CInv, DInv, TInv, At("sync"), op' = op, fil' = fil, known' = known,
           \A s \in Sectors \ {Info} : Vol'[s] = disk[s] /\ disk'[s] = disk[s]
    PROVE  TInv'
<1>1. op.pc = "sync" /\ ~win.dirty
  BY SyncIs
<1>2. disk \in Views /\ disk \in Volumes /\ Vol \in Volumes
  BY <1>1 DEF Views, Volumes
<1>3. SameTables(disk, Vol)
  BY <1>1 DEF TInv, Mirror
<1>4. /\ \A s \in Clusters : Vol'[s] = disk[s] /\ disk'[s] = disk[s]
      /\ SameTables(disk, Vol') /\ SameTables(disk, disk')
  BY SectorFacts DEF SameTables, SameLinks, Link, Entry
<1>5. SameTables(Vol, Vol') /\ SameTables(disk', Vol')
  BY <1>3, <1>4, SameTablesAgain
<1>6. \A w \in Volumes' : w = disk' \/ w = Vol'
  BY DEF Volumes
<1>7. \A w \in Volumes' : Grows(disk, w) /\ SameUnits(disk, w)
  BY <1>2, <1>4, <1>6, DataLast
<1>8. Lasts
  BY <1>2, <1>7 DEF Lasts
<1>9. Course(Vol, op', fil', known) /\ Searching(Vol, op') /\ Delivered(disk, op, fil)
  BY <1>2 DEF TInv
<1>10. ClosedBy(op) => Entry(disk, fil.t, fil.i) = FileEntry(fil)
  <2>1. ClosedBy(op) => Entry(Vol, fil.t, fil.i) = FileEntry(fil)
    <3>1. ClosedBy(op) => fil.open
      BY DEF ClosedBy, IInv, Control, FileInv
    <3> QED
      BY <1>9, <3>1 DEF Course, Filing
  <2> QED
    BY <1>3, <2>1 DEF SameTables, IInv, Control, FilOK, FilType
<1>11. fil.t \in Clusters /\ fil.i \in 1 .. Slots
  BY DEF IInv, Control, FilOK, FilType
<1>12. \A w \in Volumes' : Delivered(w, op', fil')
  BY <1>7, <1>9, <1>10, <1>11, DeliveredLasts
<1>13. \A w \in Views' : Delivered(w, op', fil')
  BY <1>12 DEF Views, Volumes
<1>14. Mirror'
  BY <1>5 DEF Mirror
<1> QED
  BY <1>5, <1>8, <1>9, <1>13, <1>14, Calm

LEMMA PutInfoKeeps == ASSUME IInv, IInv', CInv, DInv, TInv, PutInfo PROVE TInv'
<1> DEFINE info == [free |-> fs.free, last |-> fs.last]
<1>1. /\ At("sync") /\ op' = op /\ fil' = fil /\ known' = known /\ win'.sect = Info
      /\ disk' = [disk EXCEPT ![Info] = info]
  BY DEF PutInfo
<1> HIDE DEF info
<1>2. \A s \in Sectors \ {Info} : Vol'[s] = disk[s] /\ disk'[s] = disk[s]
  BY <1>1 DEF Vol
<1> QED
  BY <1>1, <1>2, InfoKeeps

LEMMA SyncWindowKeeps == ASSUME IInv, IInv', TInv, SyncWindow PROVE TInv'
<1>1. /\ win.dirty /\ disk' = [disk EXCEPT ![win.sect] = win.buf] /\ known' = known
      /\ win' = [win EXCEPT !.dirty = FALSE] /\ UNCHANGED <<op, fil>>
  BY DEF SyncWindow
<1>2. win.sect \in FatSectors \cup Clusters /\ win.sect \in Sectors
  BY <1>1, SectorFacts DEF IInv, WinInv
<1>3. disk' = Vol
  BY <1>1, <1>2, VolIsOver DEF IInv, Over
<1>4. win'.sect = win.sect /\ win'.buf = win.buf /\ win'.dirty = FALSE
  BY <1>1 DEF IInv, WinInv
<1>5. Vol' = Vol
  BY <1>3, <1>4 DEF Vol
<1>6. SameTables(Vol, Vol') /\ Mirror' /\ Lasts
  BY <1>3, <1>5, SelfGrows, SeenLasts DEF Mirror, Volumes
<1>7. Course(Vol, op', fil', known) /\ Searching(Vol, op')
  BY <1>1 DEF TInv
<1>8. \A v \in Views' : Delivered(v, op', fil')
  <2>1. \A v \in Views' : v = Vol
    BY <1>3, <1>5 DEF Views
  <2>2. Delivered(Vol, op, fil)
    BY DEF TInv, Views
  <2> QED
    BY <1>1, <2>1, <2>2
<1> QED
  BY <1>1, <1>6, <1>7, <1>8, Calm

(***************************************************************************)
(* The faults and the power.                                               *)
(***************************************************************************)
LEMMA FaultKeeps == ASSUME IInv, IInv', CInv, DInv, TInv, DiskFault PROVE TInv'
<1>1. disk' = disk /\ known' = known
  BY DEF DiskFault
<1>2. CASE FlushFails \/ DataFails \/ SyncFails
  <2>1. op' = Undone /\ StopFile /\ win' = win
    BY <1>2 DEF FlushFails, DataFails, SyncFails, GiveUp
  <2>2. Course(Vol, op', fil', known) /\ Searching(Vol, op') /\ ~ClosedBy(op')
    BY <2>1, UndoneCourse
  <2> QED
    BY <1>1, <2>1, <2>2, NothingMoves
<1>3. CASE ReadFails
  <2>1. op' = Undone /\ StopFile /\ ~win.dirty /\ win' = [win EXCEPT !.sect = NoSector]
    BY <1>3 DEF ReadFails, GiveUp
  <2>2. win'.sect = NoSector
    BY <2>1 DEF IInv, WinInv
  <2>3. Vol' = disk
    BY <1>1, <2>2, SectorFacts, VolIsOver DEF Vol, IInv
  <2>4. Course(Vol, op', fil', known) /\ Searching(Vol, op') /\ ~ClosedBy(op')
    BY <2>1, UndoneCourse
  <2>5. SameTables(disk, Vol)
    BY <2>1 DEF TInv, Mirror
  <2>6. SameTables(Vol, Vol')
    BY <2>3, <2>5, SameTablesAgain
  <2>7. Mirror'
    BY <1>1, <2>3, SelfGrows DEF Mirror
  <2>8. Lasts
    BY <1>1, <2>3, SeenLasts DEF Volumes
  <2> QED
    BY <1>1, <2>4, <2>6, <2>7, <2>8, Calm
<1>4. CASE ClearFails
  <2>1. /\ op' = Undone /\ StopFile /\ op.pc = "clear" /\ Ready
        /\ win'.sect = op.ncl /\ win'.buf = Blank
    BY <1>4 DEF ClearFails, At, GiveUp
  <2>2. ~win.dirty /\ op.ncl \in Clusters /\ disk \in Volumes
    BY <2>1, WantedIs, CleanWindow DEF IInv, Control, Places, OpType, Volumes
  <2>3. \A s \in Sectors : Vol'[s] = IF s = op.ncl THEN Blank ELSE disk[s]
    BY <1>1, <2>1 DEF Vol
  <2>4. Unfiled(disk, op.ncl)
    BY <2>1 DEF DInv, Growing, Volumes
  <2>5. SameTables(disk, Vol)
    BY <2>2 DEF TInv, Mirror
  <2>6. Vacant(disk, op.ncl)
    <3>1. Vacant(Vol, op.ncl)
      BY <2>1, SpareLine DEF TInv, Course, Room
    <3> QED
      BY <2>2, <2>5, <3>1 DEF Vacant, SameTables
  <2>7. SameTables(disk, Vol')
    <3>1. SameLinks(disk, Vol')
      BY <2>2, <2>3, SectorFacts DEF SameLinks, Link
    <3>2. \A i \in 1 .. Slots : Blank.ent[i] = NoEntry
      BY BlankNames DEF NoNames
    <3>3. \A t \in Clusters, i \in 1 .. Slots : Entry(Vol', t, i) = Entry(disk, t, i)
      BY <2>3, <2>6, <3>2, SectorFacts DEF Entry, Vacant
    <3> QED
      BY <3>1, <3>3 DEF SameTables
  <2>8. SameTables(Vol, Vol')
    BY <2>5, <2>7, SameTablesAgain
  <2>9. Mirror'
    BY <1>1, <2>7 DEF Mirror
  <2>10. \A s \in Clusters : Vol'[s] = disk[s] \/ Unfiled(disk, s)
    BY <2>3, <2>4, SectorFacts
  <2>11. Grows(disk, Vol') /\ SameUnits(disk, Vol')
    BY <2>2, <2>7, <2>10, DataLast
  <2>12. Lasts
    BY <1>1, <2>2, <2>11, LastsFrom
  <2>13. Course(Vol, op', fil', known) /\ Searching(Vol, op') /\ ~ClosedBy(op')
    BY <2>1, UndoneCourse
  <2> QED
    BY <1>1, <2>8, <2>9, <2>12, <2>13, Calm
<1>5. CASE InfoFails
  <2>1. At("sync") /\ op' = op /\ fil' = fil /\ win'.sect = Info
    BY <1>5 DEF InfoFails
  <2>2. \A s \in Sectors \ {Info} : Vol'[s] = disk[s] /\ disk'[s] = disk[s]
    BY <1>1, <2>1 DEF Vol
  <2> QED
    BY <1>1, <2>1, <2>2, InfoKeeps
<1> QED
  BY <1>2, <1>3, <1>4, <1>5 DEF DiskFault

LEMMA PowerKeeps == ASSUME IInv, TInv, PowerLoss PROVE TInv'
<1>1. /\ disk' = disk /\ op' = NoCall /\ fil' = NoFile /\ known' = known
      /\ win'.sect = Info /\ win'.buf = disk[Info]
  BY DEF PowerLoss, Loaded
<1>2. Vol' = disk
  BY <1>1, VolIsOver DEF IInv, Vol
<1>3. Lasts
  BY <1>1, <1>2, SeenLasts DEF Volumes
<1>4. KnownOK' /\ \A w \in Volumes' : Tidy(w) /\ Promised(w, known')
  BY <1>1, <1>3, Lasting
<1>5. ~fil'.open /\ fil'.sclust = 0
  BY <1>1 DEF NoFile
<1>6. Course(Vol', op', fil', known') /\ Searching(Vol', op') /\ ~ClosedBy(op')
  BY <1>1, <1>5, NoCallCourse
<1>7. \A v \in Views' : Delivered(v, op', fil')
  BY <1>6 DEF Delivered
<1>8. Mirror'
  BY <1>1, <1>2, SelfGrows DEF Mirror
<1> HIDE DEF Vol, Mirror, KnownOK, Volumes, Views
<1> QED
  BY <1>4, <1>6, <1>7, <1>8 DEF TInv

(***************************************************************************)
(* The user, and what is told at the end of a call.                        *)
(***************************************************************************)
LEMMA BeginKeeps ==
    ASSUME IInv, IInv', TInv, NEW d \in Directories(Vol), NEW n \in Names, NEW new \in BOOLEAN,
           Open(d, n, new) \/ Mkdir(d, n) \/ Unlink(d, n)
    PROVE  TInv'
<1>1. PICK c \in {"open", "mkdir", "unlink"} :
          op' = OnName(c, d, n) \/ op' = [OnName(c, d, n) EXCEPT !.fresh = new]
  BY DEF Open, Mkdir, Unlink, Begin
<1>2. UNCHANGED <<disk, win, fil, known>> /\ ~fil.open /\ fil.sclust = 0
  BY DEF Open, Mkdir, Unlink, Begin, IInv, Control, FilOK
<1>3. /\ op'.pc = "find" /\ op'.call \in {"open", "mkdir", "unlink"} /\ op'.d = d /\ op'.t = d
      /\ op'.n = n /\ op'.seen = {}
  <2> DEFINE k == Call(c)
  <2>1. k \in [call : {c}, pc : {"idle"},
               d : Clusters, n : Names \cup {NoName}, fresh : BOOLEAN, t : Clusters,
               i : 1 .. Slots, clst : Clusters \cup {0}, ncl : Clusters \cup {0},
               dcl : Clusters \cup {0}, left : Nat, seen : {{}}]
    BY NoCallIs DEF Call
  <2> HIDE DEF k
  <2>2. \/ op' = [k EXCEPT !.pc = "find", !.d = d, !.n = n, !.t = d]
        \/ op' = [[k EXCEPT !.pc = "find", !.d = d, !.n = n, !.t = d] EXCEPT !.fresh = new]
    BY <1>1 DEF OnName, k
  <2> QED
    BY <2>1, <2>2
<1>4. d \in Clusters /\ d \in Line(Vol, d)
  BY VolShaped, DirStart, LineFacts
<1>5. Aim(Vol, op', known)
  BY <1>3, <1>4 DEF Aim, NameCalls, Making
<1>6. Room(Vol, op')
  BY <1>3 DEF Room, Making
<1>7. Searching(Vol, op') /\ ~ClosedBy(op')
  BY <1>3 DEF Searching, ClosedBy
<1>8. Filing(Vol, op', fil', known)
  BY <1>2, <1>3, NoFiling
<1>9. Course(Vol, op', fil', known)
  BY <1>5, <1>6, <1>8 DEF Course
<1> QED
  BY <1>2, <1>7, <1>9, NothingMoves

LEMMA FileCallKeeps ==
    ASSUME IInv, IInv', TInv, Close \/ \E k \in 1 .. MaxSize : Write(k) PROVE TInv'
<1>1. UNCHANGED <<disk, win, fil, known>> /\ Idle /\ op.call = "none" /\ op.pc = "idle"
  BY IdleIs DEF Close, Write, Idle, IInv
<1>2. \/ op'.pc = "spill" /\ op'.call = "close" /\ op'.d = fil.d /\ op'.n = fil.n
      \/ op'.pc = "chunk" /\ op'.call = "write"
  <2>1. CASE Close
    <3>1. op' = [NoCall EXCEPT !.call = "close", !.pc = "spill", !.d = fil.d, !.n = fil.n]
      BY <2>1, NoCallIs DEF Close, Call
    <3> QED
      BY <3>1, NoCallIs
  <2>2. CASE \E k \in 1 .. MaxSize : Write(k)
    <3>1. PICK k \in 1 .. MaxSize : Write(k)
      BY <2>2
    <3>2. op' = [NoCall EXCEPT !.call = "write", !.pc = "chunk", !.left = k]
      BY <3>1, NoCallIs DEF Write, Call
    <3> QED
      BY <3>2, NoCallIs
  <2> QED
    BY <2>1, <2>2
<1>3. Course(Vol, op, fil, known) /\ ~ClosedBy(op)
  BY <1>1 DEF TInv, ClosedBy
<1>4. Course(Vol, op', fil', known) /\ Searching(Vol, op') /\ ~ClosedBy(op')
  BY <1>1, <1>2, <1>3, FileCourse
<1> QED
  BY <1>1, <1>4, NothingMoves

LEMMA QuietKeeps == ASSUME IInv', TInv, UNCHANGED <<disk, win, op, fil, known>> PROVE TInv'
<1>1. Vol' = Vol /\ Volumes' = Volumes /\ Views' = Views
  BY DEF Vol, Volumes, Views
<1>2. SameTables(Vol, Vol') /\ Mirror'
  BY <1>1, SelfGrows DEF TInv, Mirror
<1>3. Lasts
  BY SeenLasts, <1>1 DEF Volumes
<1>4. Course(Vol, op', fil', known) /\ Searching(Vol, op') /\ \A v \in Views' : Delivered(v, op', fil')
  BY <1>1 DEF TInv
<1> QED
  BY <1>2, <1>3, <1>4, Calm

\* What a call tells when it returns FR_OK.
Tells(o, f, kn, kw) ==
    \A a \in Clusters, m \in Names :
        /\ a = o.d /\ m = o.n =>
              /\ o.call = "close"  => kw[a][m] = [kind |-> "file", ver |-> f.ver, size |-> f.size]
              /\ o.call = "mkdir"  => kw[a][m] = [kind |-> "dir", ver |-> o.dcl, size |-> 0]
              /\ o.call = "unlink" => kw[a][m] = Absent
        /\ ~(a = o.d /\ m = o.n) =>
              kw[a][m] = IF o.call = "mkdir" /\ a = o.dcl THEN Absent ELSE kn[a][m]

LEMMA TellPromised ==
    ASSUME NEW v, NEW o, NEW f, NEW kn, NEW kw, Course(v, o, f, kn), Delivered(v, o, f),
           Promised(v, kn), o.pc = "sync", o.call \in {"mkdir", "unlink", "close"},
           o.call = "close" => f.open, Tells(o, f, kn, kw), o.t \in Clusters,
           f.t \in Clusters, f.i \in 1 .. Slots
    PROVE  Promised(v, kw)
<1> SUFFICES ASSUME NEW a \in Clusters, NEW m \in Names
             PROVE  /\ kw[a][m].kind # "unknown" => a \in Directories(v)
                    /\ kw[a][m].kind = "absent" => NotThere(v, a, m)
                    /\ kw[a][m].kind \in {"file", "dir"} =>
                          \E x \in Line(v, a), i \in 1 .. Slots :
                              Entry(v, x, i).name = m /\ Keeps(v, Entry(v, x, i), kw[a][m])
  BY DEF Promised
<1>1. Aim(v, o, kn) /\ Room(v, o) /\ Filing(v, o, f, kn)
  BY DEF Course
<1>2. Absent.kind = "absent"
  BY DEF Absent
<1>3. CASE a = o.d /\ m = o.n
  <2>1. CASE o.call = "close"
    <3>1. kw[a][m] = [kind |-> "file", ver |-> f.ver, size |-> f.size]
      BY <1>3, <2>1 DEF Tells
    <3>2. /\ a = f.d /\ m = f.n /\ f.d \in Directories(v) /\ f.t \in Line(v, f.d)
          /\ Entry(v, f.t, f.i) = FileEntry(f)
      BY <1>1, <1>3, <2>1 DEF Filing, ClosedBy
    <3>3. /\ FileEntry(f).name = f.n /\ ~FileEntry(f).dir /\ FileEntry(f).size = f.size
          /\ FileEntry(f).clst = f.sclust
      BY DEF FileEntry
    <3>4. ClosedBy(o)
      BY <2>1 DEF ClosedBy
    <3>5. kw[a][m].kind = "file" /\ kw[a][m].ver = f.ver /\ kw[a][m].size = f.size
      BY <3>1
    <3>6. Keeps(v, FileEntry(f), kw[a][m])
      BY <3>3, <3>4, <3>5 DEF Keeps, Delivered
    <3> HIDE DEF FileEntry
    <3>7. Entry(v, f.t, f.i).name = m /\ Keeps(v, Entry(v, f.t, f.i), kw[a][m])
      BY <3>2, <3>3, <3>6
    <3> QED
      BY <3>2, <3>5, <3>7
  <2>2. CASE o.call = "mkdir"
    <3>1. kw[a][m] = [kind |-> "dir", ver |-> o.dcl, size |-> 0]
      BY <1>3, <2>2 DEF Tells
    <3>2. o.d \in Directories(v) /\ o.t \in Line(v, o.d)
      BY <1>1, <2>2 DEF Aim, NameCalls
    <3> PICK i \in 1 .. Slots : Entry(v, o.t, i) = [name |-> o.n, dir |-> TRUE, clst |-> o.dcl, size |-> 0]
      BY <1>1, <2>2 DEF Aim
    <3>3. /\ Entry(v, o.t, i).name = o.n /\ Entry(v, o.t, i).dir /\ Entry(v, o.t, i).clst = o.dcl
      OBVIOUS
    <3>4. kw[a][m].kind = "dir" /\ kw[a][m].ver = o.dcl
      BY <3>1
    <3>5. Entry(v, o.t, i).name = m /\ Keeps(v, Entry(v, o.t, i), kw[a][m])
      BY <1>3, <3>3, <3>4 DEF Keeps
    <3> QED
      BY <1>3, <3>2, <3>4, <3>5
  <2>3. CASE o.call = "unlink"
    <3>1. kw[a][m] = Absent
      BY <1>3, <2>3 DEF Tells
    <3>2. o.d \in Directories(v) /\ NotThere(v, o.d, o.n)
      BY <1>1, <2>3 DEF Aim, NameCalls
    <3> QED
      BY <1>2, <1>3, <3>1, <3>2
  <2> QED
    BY <2>1, <2>2, <2>3
<1>4. CASE ~(a = o.d /\ m = o.n) /\ o.call = "mkdir" /\ a = o.dcl
  <2>1. kw[a][m] = Absent
    BY <1>4 DEF Tells
  <2> PICK i \in 1 .. Slots : Entry(v, o.t, i) = [name |-> o.n, dir |-> TRUE, clst |-> o.dcl, size |-> 0]
    BY <1>1, <1>4 DEF Aim
  <2>2. Entry(v, o.t, i).dir /\ Entry(v, o.t, i).clst = a
    BY <1>4
  <2>3. a \in Directories(v)
    BY <2>2 DEF Directories
  <2>4. Spare(v, a)
    BY <1>1, <1>4, ClusterFacts DEF Room
  <2>5. NotThere(v, a, m)
    BY <2>4, SpareLine, BareNoEntry, NotNamed DEF NotThere, HasName
  <2> QED
    BY <1>2, <2>1, <2>3, <2>5
<1>5. CASE ~(a = o.d /\ m = o.n) /\ ~(o.call = "mkdir" /\ a = o.dcl)
  <2>1. kw[a][m] = kn[a][m]
    BY <1>5 DEF Tells
  <2> QED
    BY <2>1 DEF Promised
<1> QED
  BY <1>3, <1>4, <1>5

LEMMA SyncedKeeps == ASSUME IInv, TInv, Synced PROVE TInv'
<1>1. /\ op.pc = "sync" /\ op.call \in {"mkdir", "unlink", "close"} /\ ~win.dirty
      /\ op' = NoCall /\ UNCHANGED <<disk, win>>
      /\ fil' = IF op.call = "close" THEN NoFile ELSE fil
      /\ op \in OpType
  BY SyncIs DEF Synced
<1>2. Vol' = Vol /\ Volumes' = Volumes
  BY <1>1 DEF Vol, Volumes
<1>3. ~fil'.open /\ fil'.sclust = 0
  <2>1. ~NoFile.open /\ NoFile.sclust = 0
    BY DEF NoFile
  <2> QED
    BY <1>1, <2>1 DEF IInv, Control, FileInv, FilOK
<1>4. Course(Vol', op', fil', known') /\ Searching(Vol', op') /\ ~ClosedBy(op')
  BY <1>1, <1>3, NoCallCourse
<1>5. \A v \in Views' : Delivered(v, op', fil')
  BY <1>4 DEF Delivered
<1>6. Mirror'
  BY <1>1, <1>2 DEF TInv, Mirror
<1>7. known' = [d \in Clusters |-> [n \in Names |->
          CASE d = op.d /\ n = op.n -> Told
            [] op.call = "mkdir" /\ d = op.dcl -> Absent
            [] OTHER -> known[d][n]]]
  BY DEF Synced
<1>8. KnownOK'
  BY <1>7 DEF KnownOK
<1>9. ASSUME NEW v \in Volumes PROVE Tidy(v) /\ Promised(v, known')
  <2>1. Tidy(v) /\ Promised(v, known) /\ v \in Views
    BY <1>1 DEF TInv, Volumes, Views
  <2>2. SameTables(Vol, v)
    BY <2>1, SameTablesAgain, ViewTables DEF TInv
  <2>3. Course(Vol, op, fil, known) /\ Delivered(v, op, fil)
    BY <2>1 DEF TInv
  <2>4. op.t \in Clusters /\ op.i \in 1 .. Slots /\ fil.t \in Clusters /\ fil.i \in 1 .. Slots
    BY <1>1 DEF OpType, IInv, Control, FilOK, FilType
  <2>5. Course(v, op, fil, known)
    BY <2>2, <2>3, <2>4, TablesGrow, GrowsCourse
  <2>6. op.call = "close" => fil.open
    BY DEF IInv, Control, FileInv
  <2>7. Tells(op, fil, known, known')
    <3> SUFFICES ASSUME NEW a \in Clusters, NEW m \in Names
                 PROVE  /\ a = op.d /\ m = op.n =>
                              /\ op.call = "close"  =>
                                    known'[a][m] = [kind |-> "file", ver |-> fil.ver, size |-> fil.size]
                              /\ op.call = "mkdir"  =>
                                    known'[a][m] = [kind |-> "dir", ver |-> op.dcl, size |-> 0]
                              /\ op.call = "unlink" => known'[a][m] = Absent
                        /\ ~(a = op.d /\ m = op.n) =>
                              known'[a][m] = IF op.call = "mkdir" /\ a = op.dcl THEN Absent ELSE known[a][m]
      BY DEF Tells
    <3>1. ASSUME op.call = "mkdir" PROVE op.dcl # op.d
      <4> SUFFICES ASSUME op.dcl = op.d PROVE FALSE
        OBVIOUS
      <4>1. Aim(Vol, op, known) /\ Room(Vol, op)
        BY DEF TInv, Course
      <4>2. op.d \in Clusters /\ op.d # 0 /\ op.t \in Line(Vol, op.d) /\ op.n \in Names
        BY <1>1, <3>1, <4>1, ClusterFacts DEF OpType, Aim, NameCalls
      <4>3. Vacant(Vol, op.t)
        BY <1>1, <3>1, <4>1, <4>2, SpareLine DEF Room
      <4> PICK i \in 1 .. Slots :
             Entry(Vol, op.t, i) = [name |-> op.n, dir |-> TRUE, clst |-> op.dcl, size |-> 0]
        BY <1>1, <3>1, <4>1 DEF Aim
      <4>4. Entry(Vol, op.t, i).dir
        OBVIOUS
      <4> QED
        BY <4>3, <4>4, BareNoEntry
    <3>2. known'[a][m] = CASE a = op.d /\ m = op.n -> Told
                           [] op.call = "mkdir" /\ a = op.dcl -> Absent
                           [] OTHER -> known[a][m]
      BY <1>7, Zenon
    <3> HIDE DEF Told, Absent
    <3>3. a = op.d /\ m = op.n => known'[a][m] = Told
      BY <3>2, <3>1
    <3>4. ~(a = op.d /\ m = op.n) =>
              known'[a][m] = IF op.call = "mkdir" /\ a = op.dcl THEN Absent ELSE known[a][m]
      BY <3>2
    <3>5. op.call = "close" => Told = [kind |-> "file", ver |-> fil.ver, size |-> fil.size]
      BY DEF Told
    <3>6. op.call = "mkdir" => Told = [kind |-> "dir", ver |-> op.dcl, size |-> 0]
      BY DEF Told
    <3>7. op.call = "unlink" => Told = Absent
      BY DEF Told
    <3> QED
      BY <3>3, <3>4, <3>5, <3>6, <3>7
  <2> QED
    BY <1>1, <2>1, <2>3, <2>4, <2>5, <2>6, <2>7, TellPromised
<1> HIDE DEF Vol, Mirror, KnownOK, Volumes, Views
<1> QED
  BY <1>2, <1>4, <1>5, <1>6, <1>8, <1>9 DEF TInv

(***************************************************************************)
(* A new volume.                                                           *)
(***************************************************************************)
LEMMA NamelessClean == ASSUME Nameless PROVE Clean
  BY DEF Nameless, Clean, NoEntry

LEMMA InitiallyKept == ASSUME Nameless, Init PROVE TInv
<1>1. /\ disk = Formatted /\ op = NoCall /\ fil = NoFile
      /\ win.sect = Info /\ win.buf = disk[Info] /\ ~win.dirty
  BY DEF Init, Loaded
<1>2. /\ disk = [s \in Sectors |-> disk[s]]
      /\ \A c \in Clusters : Link(disk, c) = IF c = Root THEN EndOfChain ELSE 0
  BY <1>1, NamelessClean, FormattedIs DEF Shaped
<1>3. Vol = disk
  BY <1>1, <1>2 DEF Vol
<1>4. \A c \in Clusters : Vacant(disk, c)
  <2>1. \A s \in Sectors : disk[s] = NewSector(s)
    BY <1>1 DEF Formatted
  <2>2. \A c \in Clusters : disk[c] = Blank \/ disk[c] = Leftover
    BY <2>1, SectorFacts, ClusterFacts DEF NewSector
  <2>3. ASSUME NEW c \in Clusters, NEW i \in 1 .. Slots PROVE Entry(disk, c, i) = NoEntry
    <3>1. Blank.ent[i] = NoEntry /\ Leftover.ent[i] = NoEntry
      BY BlankIs DEF Blank, Nameless
    <3> QED
      BY <2>2, <3>1 DEF Entry
  <2> QED
    BY <2>3 DEF Vacant
<1>5. \A c \in Clusters, i \in 1 .. Slots : /\ Entry(disk, c, i).name = NoName
                                           /\ Head(disk, c, i) = 0 /\ ~Entry(disk, c, i).dir
  BY <1>4, BareNoEntry
<1>6. Directories(disk) = {Root}
  BY <1>5 DEF Directories
<1>7. /\ known = [d \in Clusters |-> [n \in Names |-> known[d][n]]]
      /\ \A d \in Clusters, n \in Names : known[d][n] = IF d = Root THEN Absent ELSE Unknown
  BY DEF Init
<1>8. Tidy(disk)
  <2>1. \A d \in Directories(disk) : Unique(disk, d)
    <3>1. Line(disk, Root) \subseteq Clusters
      BY ClusterFacts, LineFacts
    <3> QED
      BY <1>5, <1>6, <3>1 DEF Unique
  <2>2. \A c \in Clusters, i \in 1 .. Slots : Entry(disk, c, i) = NoEntry
    BY <1>4 DEF Vacant
  <2> QED
    BY <1>4, <1>5, <2>1, <2>2 DEF Tidy
<1>9. Promised(disk, known)
  <2> SUFFICES ASSUME NEW d \in Clusters, NEW n \in Names
               PROVE  /\ known[d][n].kind # "unknown" => d \in Directories(disk)
                      /\ known[d][n].kind = "absent" => NotThere(disk, d, n)
                      /\ known[d][n].kind \notin {"file", "dir"}
    BY DEF Promised
  <2>1. known[d][n] = IF d = Root THEN Absent ELSE Unknown
    BY <1>7
  <2>2. Absent.kind = "absent" /\ Unknown.kind = "unknown"
    BY DEF Absent, Unknown
  <2>3. NotThere(disk, d, n)
    <3>1. Line(disk, d) \subseteq Clusters
      BY LineFacts
    <3> QED
      BY <1>5, <3>1, NotNamed DEF NotThere, HasName
  <2> QED
    BY <1>6, <2>1, <2>2, <2>3
<1>10. Mirror
  BY <1>3 DEF Mirror, SameTables, SameLinks
<1>11. Course(disk, op, fil, known) /\ Searching(disk, op) /\ ~ClosedBy(op)
  <2>1. ~fil.open /\ fil.sclust = 0
    BY <1>1 DEF NoFile
  <2> QED
    BY <1>1, <2>1, NoCallCourse
<1>12. \A v \in Views : Delivered(v, op, fil)
  BY <1>11 DEF Delivered
<1>13. \A v \in Volumes : v = disk
  BY <1>3 DEF Volumes, Views
<1> QED
  BY <1>3, <1>7, <1>8, <1>9, <1>10, <1>11, <1>12, <1>13 DEF TInv, KnownOK

(***************************************************************************)
(* Every step keeps the invariant.                                         *)
(***************************************************************************)
LEMMA TellingKept == ASSUME IInv, CInv, DInv, TInv, [Next]_vars PROVE TInv'
<1>1. IInv'
  BY Kept
<1>2. CASE CallStep
  BY <1>1, <1>2, FindKeeps, FindNextKeeps, CheckEmptyKeeps, CheckNextKeeps, RegisterKeeps,
     FullTableKeeps, AllocNextKeeps, ResetKeeps, BackKeeps, DropKeeps, FreeKeeps, AllocateKeeps,
     LinkItKeeps, FullKeeps, ClearKeeps, ChunkKeeps, SpillKeeps, DataKeeps, PutEntryKeeps,
     PutInfoKeeps, SyncedKeeps, SyncWindowKeeps
     DEF CallStep
<1>3. CASE User
  <2>1. CASE \E d \in Directories(Vol), n \in Names :
                 \/ \E new \in BOOLEAN : Open(d, n, new)
                 \/ Mkdir(d, n)
                 \/ Unlink(d, n)
    <3> PICK d \in Directories(Vol), n \in Names :
                 \/ \E new \in BOOLEAN : Open(d, n, new)
                 \/ Mkdir(d, n)
                 \/ Unlink(d, n)
      BY <2>1
    <3> PICK new \in BOOLEAN : Open(d, n, new) \/ Mkdir(d, n) \/ Unlink(d, n)
      OBVIOUS
    <3> QED
      BY <1>1, BeginKeeps
  <2>2. CASE \E d \in Directories(Vol) : Chdir(d)
    BY <1>1, <2>2, QuietKeeps DEF Chdir
  <2>3. CASE Close \/ \E k \in 1 .. MaxSize : Write(k)
    BY <1>1, <2>3, FileCallKeeps
  <2>4. CASE SyncWindow
    BY <1>1, <2>4, SyncWindowKeeps
  <2> QED
    BY <1>3, <2>1, <2>2, <2>3, <2>4 DEF User
<1>4. CASE DiskFault
  BY <1>1, <1>4, FaultKeeps
<1>5. CASE PowerLoss
  BY <1>5, PowerKeeps
<1>6. CASE UNCHANGED vars
  BY <1>1, <1>6, QuietKeeps DEF vars
<1> QED
  BY <1>2, <1>3, <1>4, <1>5, <1>6 DEF Next

(***************************************************************************)
(* Chain, which is computed, is the line; and the theorem.                 *)
(***************************************************************************)
LEMMA ChainIsLine == ASSUME NEW v, NEW d \in Clusters PROVE Chain(v, d) = Line(v, d)
<1> DEFINE N == LastCluster
           R == CHOOSE f : Reaching(v, d, f)
<1>1. Line(v, d) \subseteq Chain(v, d)
  <2>1. d \in Chain(v, d) /\ Chain(v, d) \in SUBSET Clusters /\ Within(v, Chain(v, d), Chain(v, d))
    BY ChainClosed DEF Within
  <2> QED
    BY <2>1, LineFacts
<1>2. Reaching(v, d, R)
  BY ChainSteps
<1>3. Chain(v, d) = R[N] \cap Clusters
  BY DEF Chain, Reaching
<1> HIDE DEF R
<1>4. /\ R[0] = {d}
      /\ \A k \in 1 .. N : R[k] = R[k - 1] \cup ({Link(v, x) : x \in R[k - 1]} \cap Clusters)
  BY <1>2, ClustersFew DEF Reaching
<1>5. N \in Nat /\ N \in 0 .. N
  BY ClustersFew
<1>6. \A k \in 0 .. N : R[k] \subseteq Line(v, d)
  <2> DEFINE T == {k \in 0 .. N : R[k] \subseteq Line(v, d)}
  <2>1. 0 \in T
    BY <1>4, <1>5, LineFacts
  <2>2. \A k \in 1 .. N : k - 1 \in T => k \in T
    BY <1>4, LineMore
  <2> HIDE DEF T
  <2>3. 0 .. N \subseteq T
    BY <1>5, <2>1, <2>2, Induction
  <2> QED
    BY <2>3 DEF T
<1>7. R[N] \subseteq Line(v, d)
  BY <1>5, <1>6
<1> QED
  BY <1>1, <1>3, <1>7

LEMMA KeptIsPromise == ASSUME TInv PROVE KeptPromise
<1> SUFFICES ASSUME NEW d \in Clusters, NEW n \in Names
             PROVE  LET k == known[d][n]
                        E == {p \in Chain(disk, d) \X (1 .. Slots) : Entry(disk, p[1], p[2]).name = n}
                    IN  /\ k.kind = "absent" => E = {}
                        /\ k.kind \in {"file", "dir"} =>
                              \E p \in E : E = {p} /\ Holds(Entry(disk, p[1], p[2]), k)
  BY DEF KeptPromise
<1> DEFINE k == known[d][n]
           E == {p \in Line(disk, d) \X (1 .. Slots) : Entry(disk, p[1], p[2]).name = n}
<1>1. Tidy(disk) /\ Promised(disk, known)
  BY DEF TInv, Volumes
<1>2. /\ k.kind # "unknown" => d \in Directories(disk)
      /\ k.kind = "absent" => NotThere(disk, d, n)
      /\ k.kind \in {"file", "dir"} =>
            \E x \in Line(disk, d), i \in 1 .. Slots :
                Entry(disk, x, i).name = n /\ Keeps(disk, Entry(disk, x, i), k)
  BY <1>1 DEF Promised
<1> HIDE DEF k
<1>3. k.kind = "absent" => E = {}
  BY <1>2 DEF NotThere, HasName
<1>4. ASSUME k.kind \in {"file", "dir"} PROVE \E p \in E : E = {p} /\ Holds(Entry(disk, p[1], p[2]), k)
  <2>1. \E x \in Line(disk, d), i \in 1 .. Slots :
            Entry(disk, x, i).name = n /\ Keeps(disk, Entry(disk, x, i), k)
    BY <1>2, <1>4
  <2> PICK x \in Line(disk, d) : \E i \in 1 .. Slots :
            Entry(disk, x, i).name = n /\ Keeps(disk, Entry(disk, x, i), k)
    BY <2>1
  <2> PICK i \in 1 .. Slots : Entry(disk, x, i).name = n /\ Keeps(disk, Entry(disk, x, i), k)
    OBVIOUS
  <2>2. Unique(disk, d)
    BY <1>1, <1>2, <1>4 DEF Tidy
  <2> DEFINE q == <<x, i>>
  <2>3. q \in E
    OBVIOUS
  <2>4. ASSUME NEW p \in E PROVE p = q
    <3>1. p = <<p[1], p[2]>> /\ p[1] \in Line(disk, d) /\ p[2] \in 1 .. Slots
          /\ Entry(disk, p[1], p[2]).name = n
      OBVIOUS
    <3>2. p[1] = x /\ p[2] = i
      BY <2>2, <3>1, NotNamed DEF Unique
    <3> QED
      BY <3>1, <3>2
  <2>5. E = {q}
    BY <2>3, <2>4
  <2>6. Holds(Entry(disk, q[1], q[2]), k)
    BY <1>4 DEF Holds, Keeps
  <2> HIDE DEF E, q
  <2> QED
    BY <2>3, <2>5, <2>6
<1> HIDE DEF E
<1>5. E = {p \in Chain(disk, d) \X (1 .. Slots) : Entry(disk, p[1], p[2]).name = n}
  BY ChainIsLine DEF E
<1> QED
  BY <1>3, <1>4, <1>5 DEF k

\* What a call reported with FR_OK is on the disk and stays there, whatever
\* happens to the calls after it, until a call on the same name changes it.
THEOREM PromisesKept == ASSUME Nameless PROVE Spec => []KeptPromise
<1>1. Init => IInv /\ CInv /\ DInv /\ TInv
  BY NamelessClean, Initially, InitiallyCounted, InitiallyWhole, InitiallyKept
<1>2. IInv /\ CInv /\ DInv /\ TInv /\ [Next]_vars => (IInv /\ CInv /\ DInv /\ TInv)'
  BY Kept, CountsKept, WholeKept, TellingKept
<1>3. TInv => KeptPromise
  BY KeptIsPromise
<1> QED
  BY <1>1, <1>2, <1>3, PTL DEF Spec
=============================================================================
