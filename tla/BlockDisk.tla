------------------------------ MODULE BlockDisk ------------------------------
(***************************************************************************)
(* What a driver of block devices promises its callers: one request at a   *)
(* time, and a success answer only for work that was really done.          *)
(*                                                                         *)
(* store is what a read of each sector returns, safe what is left of it    *)
(* after a power loss.  A request that fails may leave anything in the     *)
(* one sector it was about to write, and changes nothing else.             *)
(***************************************************************************)
CONSTANTS Disks, Sectors, Values, None,
          Initial,      \* what a sector may hold at first
          Syncable      \* disks that can be told to empty their cache

VARIABLES store, safe, pending, result

vars == <<store, safe, pending, result>>

Idle == [op |-> "none", port |-> 0, sector |-> 0, data |-> None]
Answer(c, ok, v) == [op |-> c.op, port |-> c.port, sector |-> c.sector,
                     data |-> v, ok |-> ok]

Requests == [op : {"read"}, port : Disks, sector : Sectors, data : {None}]
            \cup [op : {"write"}, port : Disks, sector : Sectors, data : Values]
            \cup [op : {"flush"}, port : Disks, sector : {0}, data : {None}]

Init ==
    /\ store \in [Disks -> [Sectors -> Initial]]
    /\ safe = store
    /\ pending = Idle
    /\ result = Answer(Idle, FALSE, None)

Begin ==
    /\ pending = Idle
    /\ pending' \in Requests
    /\ result' = Answer(Idle, FALSE, None)
    /\ UNCHANGED <<store, safe>>

\* A request for a disk or a sector that does not exist.
Reject ==
    /\ pending = Idle
    /\ result' \in { Answer(r, FALSE, None) :
                       r \in [op : {"read", "write", "flush"}, port : {0},
                              sector : Sectors \cup {0}, data : {None}] }
    /\ UNCHANGED <<store, safe, pending>>

\* Data arrives in the sector being written: all of it, or a torn part.
Land ==
    /\ pending.op = "write"
    /\ \E v \in Values :
         store' = [store EXCEPT ![pending.port][pending.sector] = v]
    /\ UNCHANGED <<safe, pending, result>>

Sync ==
    /\ pending.op = "flush"
    /\ safe' = [safe EXCEPT ![pending.port] = store[pending.port]]
    /\ UNCHANGED <<store, pending, result>>

Done(v) ==
    /\ result' = Answer(pending, TRUE, v)
    /\ pending' = Idle
    /\ UNCHANGED <<store, safe>>

ReadDone  == pending.op = "read" /\ Done(store[pending.port][pending.sector])
WriteDone == /\ pending.op = "write"
             /\ store[pending.port][pending.sector] = pending.data
             /\ Done(pending.data)
FlushDone == /\ pending.op = "flush"
             /\ safe[pending.port] = store[pending.port]
             /\ Done(None)

\* A disk whose cache cannot be emptied answers a flush at once.
NothingToFlush ==
    /\ pending = Idle
    /\ \E d \in Disks \ Syncable :
         result' = [op |-> "flush", port |-> d, sector |-> 0, data |-> None,
                    ok |-> TRUE]
    /\ UNCHANGED <<store, safe, pending>>

Fail ==
    /\ pending # Idle
    /\ result' = Answer(pending, FALSE, None)
    /\ pending' = Idle
    /\ UNCHANGED <<store, safe>>

Next == \/ Begin \/ Reject \/ Land \/ Sync
        \/ ReadDone \/ WriteDone \/ FlushDone \/ NothingToFlush \/ Fail

Spec == Init /\ [][Next]_vars
=============================================================================
