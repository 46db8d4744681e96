----------------------------- MODULE LongNames -----------------------------
(***************************************************************************)
(* Long file names in a directory, fs/fatfs/source/ff.c.  An object is one *)
(* entry with its alias, an 8.3 name, and in front of it, last piece       *)
(* first, the entries of its long name, tied to it by their order and by   *)
(* the checksum of the alias.  The set may lie in several sectors, which   *)
(* reach the disk one at a time, so that the power may go inside it.       *)
(*                                                                         *)
(* A table of fixed size, as when the volume is full: FatVolume has the    *)
(* clusters of a directory.  Letter case is left out: names that differ in *)
(* it alone are one name.                                                  *)
(***************************************************************************)
EXTENDS Integers, FiniteSets, Sequences

CONSTANTS
    Names, NoName,   \* the names callers use; no long name
    Text,            \* a name cut into pieces of 13 characters
    NeedsLong,       \* NS_LFN: the names that need entries of their own
    Lossy,           \* NS_LOSS: those of them that an alias does not express
    Short,           \* a name's alias: its body and its number, 0 for none
    Sum,             \* the checksum of an alias, a byte: aliases may share it
    MaxNumber,       \* numbers tried for an alias: 99
    Slots,           \* entries the table has room for
    PerSector,       \* entries of a sector: 16
    Mishaps          \* bound: accesses that fail, and power losses

ASSUME NameAssumption ==
    /\ Lossy \subseteq NeedsLong /\ NeedsLong \subseteq Names /\ NoName \notin Names
    /\ \A n \in Names : /\ Len(Text[n]) \in Nat \ {0}
                        /\ Text[n] = [k \in 1 .. Len(Text[n]) |-> Text[n][k]]
    /\ \A n, m \in Names : Text[n] = Text[m] => n = m
    /\ \A n, m \in Names \ Lossy : Short[n] = Short[m] => n = m
    /\ MaxNumber \in Nat /\ Slots \in Nat \ {0} /\ PerSector \in Nat \ {0} /\ Mishaps \in Nat

VARIABLES
    slots,     \* the table as FatFs sees it
    disk,      \* the table on the medium
    win,       \* the sector of the table that is dirty in win[], or None
    op,        \* the call that is running
    result,    \* what the last call returned
    mishaps,
    adopted    \* history: an entry has been put behind pieces of another's name that fit it

vars == <<slots, disk, win, op, result, mishaps, adopted>>

Places == 1 .. Slots
None   == 0
SectorOf(i) == (i - 1) \div PerSector + 1

EndMark == [kind |-> "end"]
Deleted == [kind |-> "deleted"]
Piece(text, ord, last, sum) ==
    [kind |-> "piece", text |-> text, ord |-> ord, last |-> last, sum |-> sum]
Entry(alias, data) == [kind |-> "entry", alias |-> alias, data |-> data]

IsPiece(s, i) == s[i].kind = "piece"
IsEntry(s, i) == s[i].kind = "entry"
IsFree(s, i)  == s[i].kind \in {"end", "deleted"}

\* A search goes no further than the first end mark.
Live(s) == {i \in Places : \A j \in 1 .. i : s[j] # EndMark}

(***************************************************************************)
(* The set of entries in front of i: it starts at the nearest piece marked *)
(* LLEF with only pieces between.  It is the name of i when the orders go  *)
(* down to 1 and every checksum is that of the alias.                      *)
(***************************************************************************)
Starts(s, i) ==
    {j \in 1 .. i - 1 : /\ s[j].kind = "piece" /\ s[j].last
                        /\ \A k \in j + 1 .. i - 1 : IsPiece(s, k) /\ ~s[k].last}

\* mutant: the checksum is not compared
Valid_NoSum(s, j, i) ==
    \A k \in j .. i - 1 : s[k].ord = i - k

Valid(s, j, i) ==
    \A k \in j .. i - 1 : s[k].ord = i - k /\ s[k].sum = Sum[s[i].alias]

Pieces(s, j, i) == [k \in 1 .. i - j |-> s[i - k].text]
NoText  == <<>>
LongText(s, i) ==
    IF \E j \in Starts(s, i) : Valid(s, j, i)
    THEN Pieces(s, CHOOSE j \in Starts(s, i) : Valid(s, j, i), i)
    ELSE NoText

\* mutant: pieces of nobody's name hide the alias behind them
Matches_Hidden(s, i, text, alias, lossy) ==
    IsEntry(s, i) /\ IF Starts(s, i) # {} THEN text # NoText /\ LongText(s, i) = text
                                         ELSE ~lossy /\ s[i].alias = alias

\* dir_find by a name as create_name takes it apart; dir_read gives every
\* object the name LongText, or else its alias.
Matches(s, i, text, alias, lossy) ==
    IsEntry(s, i) /\ ((text # NoText /\ LongText(s, i) = text) \/ (~lossy /\ s[i].alias = alias))
First(S) == {i \in S : \A j \in S : i <= j}
FindBy(s, text, alias, lossy) == First({i \in Live(s) : Matches(s, i, text, alias, lossy)})
Find(s, n) == FindBy(s, Text[n], Short[n], n \in Lossy)

(***************************************************************************)
(* dir_register: the alias and the place of a new object.                  *)
(***************************************************************************)
Numbered(n, k) == <<Short[n][1], k>>
Taken(s, a)    == \E i \in Live(s) : IsEntry(s, i) /\ s[i].alias = a

AliasFor(s, n) ==
    IF n \in Lossy
    THEN {Numbered(n, k) : k \in First({k \in 1 .. MaxNumber : ~Taken(s, Numbered(n, k))})}
    ELSE {Short[n]}

\* The aliases a name may get.
Forms(n) == IF n \in Lossy THEN {Numbered(n, k) : k \in 1 .. MaxNumber} ELSE {Short[n]}

ASSUME AliasAssumption == \A n \in Names : Forms(n) \subseteq DOMAIN Sum /\ <<>> \notin Forms(n)

Need(n) == IF n \in NeedsLong THEN Len(Text[n]) + 1 ELSE 1

\* dir_alloc: the first run of free entries that is long enough.
Room(s, n) ==
    First({i \in Places : i + Need(n) - 1 <= Slots /\ \A j \in i .. i + Need(n) - 1 : IsFree(s, j)})

(***************************************************************************)
(* The calls.                                                              *)
(***************************************************************************)
Op(call, n) == [call |-> call, n |-> n, pc |-> "find", at |-> 1, left |-> 0,
                last |-> 1, alias |-> <<>>]
NoOp == [call |-> "none", n |-> NoName, pc |-> "idle", at |-> 1, left |-> 0,
         last |-> 1, alias |-> <<>>]

Init ==
    /\ slots = [i \in Places |-> EndMark]
    /\ disk = slots
    /\ win = None
    /\ op = NoOp
    /\ result = "none"
    /\ mishaps = 0
    /\ adopted = FALSE

Begin(call, n) ==
    /\ op = NoOp
    /\ op' = Op(call, n)
    /\ result' = "none"
    /\ UNCHANGED <<slots, disk, win, mishaps, adopted>>

\* f_open with FA_CREATE_ALWAYS, and f_close.
Open(n)   == Begin("open", n)
Unlink(n) == Begin("unlink", n)

\* The sectors of the table are read up to one of them.
ReadTo(S) == IF \E i \in S : TRUE THEN SectorOf(CHOOSE i \in S : \A j \in S : j <= i) ELSE SectorOf(Slots)
Searched  ==
    IF Find(slots, op.n) # {} THEN ReadTo(Find(slots, op.n))
    ELSE ReadTo(First(Places \ Live(slots)))
Scanned   == IF Room(slots, op.n) = {} THEN SectorOf(Slots)
             ELSE ReadTo({i + Need(op.n) - 1 : i \in Room(slots, op.n)}
                         \cup (IF op.n \in Lossy THEN First(Places \ Live(slots)) ELSE {}))

Ready ==
    CASE op.pc = "find"  -> win = None \/ (win = 1 /\ Searched = 1)
      [] op.pc = "alloc" -> win = None \/ (win = 1 /\ Scanned = 1)
      [] op.pc \in {"put", "set", "delete"} -> win \in {None, SectorOf(op.at)}
      [] OTHER -> win = None
At(pc) == op.pc = pc /\ Ready

End(res) == op' = NoOp /\ result' = res
Go(pc)   == op' = [op EXCEPT !.pc = pc] /\ UNCHANGED result

\* mutant: the entries of the long name stay
BlkOfs_EntryOnly(s, i) == i

\* Where the set of i begins: blk_ofs, or i itself.
BlkOfs(s, i) == IF Starts(s, i) = {} THEN i ELSE CHOOSE j \in Starts(s, i) : TRUE

FindIt ==
    /\ At("find")
    /\ \/ \E i \in Find(slots, op.n) :
             /\ op' = [op EXCEPT !.alias = slots[i].alias, !.last = i,
                                 !.pc = IF op.call = "open" THEN "set" ELSE "delete",
                                 !.at = IF op.call = "open" THEN i ELSE BlkOfs(slots, i)]
             /\ UNCHANGED result
       \/ /\ Find(slots, op.n) = {}
          /\ IF op.call = "open" THEN Go("alloc") ELSE End("error")
    /\ UNCHANGED <<slots, disk, win, mishaps, adopted>>

Alloc ==
    /\ At("alloc")
    /\ \/ \E a \in AliasFor(slots, op.n), i \in Room(slots, op.n) :
             /\ op' = [op EXCEPT !.alias = a, !.at = i, !.left = Need(op.n) - 1,
                                 !.pc = IF Need(op.n) = 1 THEN "set" ELSE "put"]
             /\ UNCHANGED result
       \/ (AliasFor(slots, op.n) = {} \/ Room(slots, op.n) = {}) /\ End("error")
    /\ UNCHANGED <<slots, disk, win, mishaps, adopted>>

Edit(x) == slots' = [slots EXCEPT ![op.at] = x] /\ win' = SectorOf(op.at)

\* The last piece comes first.
PutPiece ==
    /\ At("put")
    /\ Edit(Piece(Text[op.n][op.left], op.left, op.left = Len(Text[op.n]), Sum[op.alias]))
    /\ op' = [op EXCEPT !.at = @ + 1, !.left = @ - 1, !.pc = IF op.left = 1 THEN "set" ELSE "put"]
    /\ UNCHANGED <<disk, result, mishaps, adopted>>

\* A new entry, or the one of an object that is overwritten.  What lies in front
\* of a new one is not looked at: that may be what a call cut short has left, a
\* whole name for this alias or for one of the same checksum.
Fits(s, i, a) ==
    \E n \in NeedsLong : \A k \in 1 .. Len(Text[n]) :
        i - k \in Places /\ s[i - k] = Piece(Text[n][k], k, k = Len(Text[n]), Sum[a])
Adopts == ~IsEntry(slots, op.at) /\ op.n \notin NeedsLong /\ Fits(slots, op.at, op.alias)

SetEntry ==
    /\ At("set")
    /\ Edit(Entry(op.alias, op.n))
    /\ adopted' = (adopted \/ Adopts)
    /\ Go("sync")
    /\ UNCHANGED <<disk, mishaps>>

Delete ==
    /\ At("delete")
    /\ Edit(Deleted)
    /\ IF op.at < op.last THEN op' = [op EXCEPT !.at = @ + 1] /\ UNCHANGED result
       ELSE Go("sync")
    /\ UNCHANGED <<disk, mishaps, adopted>>

Synced ==
    /\ At("sync")
    /\ End("FR_OK")
    /\ UNCHANGED <<slots, disk, win, mishaps, adopted>>

\* sync_window, when another sector is wanted or a call ends.
SyncWindow ==
    /\ win # None
    /\ ~Ready
    /\ disk' = slots
    /\ win' = None
    /\ UNCHANGED <<slots, op, result, mishaps, adopted>>

\* An access fails: the call ends, the window stays as it is.
DiskFails ==
    /\ op # NoOp
    /\ mishaps < Mishaps
    /\ op.pc \in {"put", "set", "delete"} => win # SectorOf(op.at)
    /\ End("error")
    /\ mishaps' = mishaps + 1
    /\ UNCHANGED <<slots, disk, win, adopted>>

PowerLoss ==
    /\ mishaps < Mishaps
    /\ slots' = disk
    /\ win' = None
    /\ op' = NoOp /\ result' = "none"
    /\ mishaps' = mishaps + 1
    /\ UNCHANGED <<disk, adopted>>

Next ==
    \/ \E n \in Names : Open(n) \/ Unlink(n)
    \/ FindIt \/ Alloc \/ PutPiece \/ SetEntry \/ Delete \/ Synced
    \/ SyncWindow \/ DiskFails \/ PowerLoss

Spec == Init /\ [][Next]_vars

(***************************************************************************)
(* Properties.                                                             *)
(***************************************************************************)
NameOf(text) ==
    IF \E n \in Names : Text[n] = text THEN CHOOSE n \in Names : Text[n] = text ELSE NoName
Objects(s) ==
    {[long |-> NameOf(LongText(s, i)), alias |-> s[i].alias, data |-> s[i].data] :
        i \in {j \in Live(s) : IsEntry(s, j)}}

Promised == INSTANCE NameTable WITH
    table <- Objects(slots), safe <- Objects(disk),
    call <- [what |-> op.call, name |-> op.n, on |-> op.alias]

\* The directory keeps the promise NameTable states, through failures and power
\* losses: a call makes, overwrites or removes the one object of its name and
\* leaves every other as it is; the entries that a call has left behind are
\* nobody's (dir_register, ff.c:2497; dir_remove, ff.c:2610).  From the moment
\* that an entry without a long name is put right behind such a rest whose
\* checksum fits it, nothing is promised: that object has two names then, and
\* the long one may belong to another object too (dir_register, ff.c:2585).
ImplementsNameTable == Promised!Init /\ [][adopted' \/ Promised!Next]_(Promised!vars)

\* Up to that moment, by the name f_readdir shows, dir_find gets to the very
\* object it was shown for, which is how rm -r removes what it reads (ff.c:2337
\* and 2415): also when a power loss has taken the long name.
ListedIsFound ==
    ~adopted =>
        \A s \in {slots, disk} : \A i \in {j \in Live(s) : IsEntry(s, j)} :
            IF LongText(s, i) = NoText
            THEN FindBy(s, NoText, s[i].alias, FALSE) = {i}
            ELSE \E n \in Names : Text[n] = LongText(s, i) /\ Find(s, n) = {i}

\* As long as nothing fails that moment does not come, also when aliases share a
\* checksum or are given by hand, and every entry in use belongs to an object
\* that is there: no removal leaves pieces of a name behind (dir_remove, ff.c:2619).
NoOrphan ==
    mishaps = 0 =>
        /\ ~adopted
        /\ op = NoOp =>
              \A i \in Places : IsPiece(slots, i) =>
                  \E j \in i + 1 .. Slots :
                      IsEntry(slots, j) /\ LongText(slots, j) # NoText /\ BlkOfs(slots, j) <= i
=============================================================================
