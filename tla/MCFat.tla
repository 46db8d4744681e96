------------------------------- MODULE MCFat -------------------------------
EXTENDS FatChecks, TLC

CONSTANTS f1, f2, a, b
TwoSectors == [c \in Clusters |-> IF c <= 3 THEN f1 ELSE f2]
Zeros == Blank

\* A cluster of a directory of the volume that was there before.
OldTable == [Blank EXCEPT !.ent = [i \in 1 .. Slots |->
                [name |-> a, dir |-> FALSE, clst |-> 3, size |-> 1]]]
Swapped == Permutations(Names)
=============================================================================
