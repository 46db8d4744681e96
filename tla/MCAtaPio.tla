------------------------------ MODULE MCAtaPio ------------------------------
(* Small drives for the model checker.                                     *)
EXTENDS AtaPio

Lba(size, flush) ==
    [lba |-> TRUE, size |-> size, cylinders |-> 0, heads |-> 0, track |-> 0,
     ata |-> TRUE, flush |-> flush, prompt |-> TRUE]
Chs(c, h, t, flush) ==
    [lba |-> FALSE, size |-> 0, cylinders |-> c, heads |-> h, track |-> t,
     ata |-> TRUE, flush |-> flush, prompt |-> TRUE]
Packet == [Lba(0, FALSE) EXCEPT !.ata = FALSE]

Slow(p) == [p EXCEPT !.prompt = FALSE]

\* A drive with one sector more than LBA reaches, drives addressed by
\* cylinder, head and sector, each number in turn above 1, drives without
\* sectors, two whose product does not fit an LBA_t, one of them with nothing
\* left of it, one with a geometry that is refused and one that is not a disk.
\* The last two are not Standard: BSY comes late, and the last sector of the
\* track gets the register of the first.
DiskPages   == {Lba(3, TRUE), Lba(0, TRUE), Chs(1, 2, 1, FALSE), Chs(1, 1, 2, TRUE),
                Chs(2, 1, 1, FALSE), Chs(3, 2, 1, TRUE), Chs(5, 1, 1, TRUE),
                Chs(1, 17, 1, TRUE), Chs(0, 2, 2, TRUE), Packet,
                Slow(Lba(1, TRUE)), Chs(1, 1, 4, TRUE)}
DiskSectors == 0 .. 3
=============================================================================
