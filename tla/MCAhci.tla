------------------------------- MODULE MCAhci -------------------------------
(* Instances of AhciPort for TLC. *)
EXTENDS AhciPort, TLC

\* Three ports: the first drive has four sectors more than 32 bits count, its sector
\* 1 needs a 48-bit command, and only that drive can flush; the second one has one
\* sector; the third has no 48-bit addresses and reports no sectors.
ThreePorts    == 0 .. 2
CapacityThree == 0 :> 6 @@ 1 :> 1 @@ 2 :> 0
FlushFirst    == [p \in 0 .. 2 |-> p = 0]
Lba48Three    == [p \in 0 .. 2 |-> p # 2]

\* One drive only.
OnePort == {0}
CapacityOne == [p \in {0} |-> 2]
FlushOne == [p \in {0} |-> TRUE]
Lba48One == [p \in {0} |-> TRUE]

ValueSymmetry == Permutations(Values)
=============================================================================
