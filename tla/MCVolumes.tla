----------------------------- MODULE MCVolumes -----------------------------
EXTENDS Volumes, TLC

CONSTANTS track, elsewhere

Plain(kind) == [zero |-> kind, table |-> NoParts, at |-> [p \in Places |-> "blank"]]
Partitioned(p, q, t, e) ==
    [zero |-> "other", table |-> <<p, q>>, at |-> (track :> t @@ elsewhere :> e)]

\* Bare disks, volumes without a partition table, and tables with one or two entries.
SomeLayouts ==
    {Plain("blank"), Plain("fat"), Plain("bad")}
        \cup {Partitioned(track, NoPlace, t, "blank") : t \in {"other", "fat"}}
        \cup {Partitioned(elsewhere, track, t, e) : t \in {"blank", "fat"}, e \in {"fat", "bad"}}
        \cup {Partitioned(track, elsewhere, "other", "other")}
=============================================================================
