---------------------------- MODULE SectorDevice ----------------------------
(***************************************************************************)
(* What the disk layer promises FatFs for one drive: requests for ranges   *)
(* of sectors, one at a time, and RES_OK only for work that was done.      *)
(*                                                                         *)
(* store is what a read of each sector returns, safe what is left of it    *)
(* after a power loss.  A request that fails may have been done in part,   *)
(* and touches nothing outside its range.                                  *)
(***************************************************************************)
EXTENDS Integers, Sequences

CONSTANTS Sectors, Values, MaxCount

VARIABLES store, safe, pending, result,
          syncable       \* the drive can be told to empty its cache

vars == <<store, safe, pending, result, syncable>>

Idle     == [op |-> "none", sector |-> 0, count |-> 0, data |-> <<>>]
NoAnswer == [op |-> "none", sector |-> 0, data |-> <<>>, ok |-> FALSE]

Request(op, s, n, d) == [op |-> op, sector |-> s, count |-> n, data |-> d]
Answer(ok, d) ==
    [op |-> pending.op, sector |-> pending.sector, data |-> d, ok |-> ok]

Extent(r) == r.sector .. r.sector + r.count - 1
Counts    == 1 .. MaxCount

Init ==
    /\ store \in [Sectors -> Values]
    /\ safe = store
    /\ syncable \in BOOLEAN
    /\ pending = Idle
    /\ result = NoAnswer

Begin ==
    /\ pending = Idle
    /\ \/ pending' = Request("flush", 0, 0, <<>>)
       \/ \E s \in Sectors, n \in Counts :
             \/ pending' = Request("read", s, n, <<>>)
             \/ \E d \in [1 .. n -> Values] : pending' = Request("write", s, n, d)
    /\ Extent(pending') \subseteq Sectors
    /\ result' = NoAnswer
    /\ UNCHANGED <<store, safe, syncable>>

\* A request that is refused, or a drive being identified again.
Refuse ==
    /\ pending = Idle
    /\ ~result'.ok
    /\ UNCHANGED <<store, safe, pending, syncable>>

\* A drive without a flush command has nothing to empty.
NothingToSync ==
    /\ pending = Idle
    /\ ~syncable
    /\ result' = [op |-> "flush", sector |-> 0, data |-> <<>>, ok |-> TRUE]
    /\ UNCHANGED <<store, safe, pending, syncable>>

Land ==
    /\ pending.op = "write"
    /\ \E s \in Extent(pending), v \in Values : store' = [store EXCEPT ![s] = v]
    /\ UNCHANGED <<safe, pending, result, syncable>>

Sync ==
    /\ pending.op = "flush"
    /\ safe' = store
    /\ UNCHANGED <<store, pending, result, syncable>>

Stored == [i \in 1 .. pending.count |-> store[pending.sector + i - 1]]

ReadDone  == pending.op = "read" /\ result' = Answer(TRUE, Stored)
WriteDone == /\ pending.op = "write"
             /\ Stored = pending.data
             /\ result' = Answer(TRUE, pending.data)
FlushDone == /\ pending.op = "flush"
             /\ safe = store
             /\ result' = Answer(TRUE, <<>>)
Fail      == pending # Idle /\ result' = Answer(FALSE, <<>>)

Finish ==
    /\ ReadDone \/ WriteDone \/ FlushDone \/ Fail
    /\ pending' = Idle
    /\ UNCHANGED <<store, safe, syncable>>

Next == Begin \/ Refuse \/ NothingToSync \/ Land \/ Sync \/ Finish
Spec == Init /\ [][Next]_vars
=============================================================================
