----------------------------- MODULE EditorText -----------------------------
(***************************************************************************)
(* What the editor promises the person at the keyboard: one text, read as  *)
(* a sequence of characters and line breaks, and a point in it.            *)
(***************************************************************************)
EXTENDS Integers, Sequences, FiniteSets

CONSTANTS Chars, Newline

VARIABLES buffer, point

vars == <<buffer, point>>

Breaks(s, p)  == { i \in 1 .. p : s[i] = Newline }
LineOf(s, p)  == Cardinality(Breaks(s, p))
Column(s, p)  == p - (CHOOSE b \in Breaks(s, p) \cup {0} :
                        \A i \in Breaks(s, p) : i <= b)
LineEnd(s, p) == p = Len(s) \/ s[p + 1] = Newline

Init == buffer = <<>> /\ point = 0

Insert ==
    /\ \E c \in Chars \cup {Newline} :
         buffer' = SubSeq(buffer, 1, point) \o <<c>>
                     \o SubSeq(buffer, point + 1, Len(buffer))
    /\ point' = point + 1

\* Deletes what is before the point.  When that was a line break the point
\* goes to the end of the line that results.
Delete ==
    /\ point > 0
    /\ buffer' = SubSeq(buffer, 1, point - 1)
                   \o SubSeq(buffer, point + 1, Len(buffer))
    /\ \/ buffer[point] # Newline /\ point' = point - 1
       \/ /\ buffer[point] = Newline
          /\ point' >= point - 1
          /\ LineEnd(buffer', point')
          /\ \A i \in point .. point' : buffer'[i] # Newline

Step ==
    /\ point' \in {point - 1, point + 1} \cap 0 .. Len(buffer)
    /\ UNCHANGED buffer

\* To the line above or below, in the same column if the line is that long.
Vertical ==
    /\ point' \in 0 .. Len(buffer)
    /\ LineOf(buffer, point') - LineOf(buffer, point) \in {-1, 1}
    /\ \/ Column(buffer, point') = Column(buffer, point)
       \/ /\ Column(buffer, point') < Column(buffer, point)
          /\ LineEnd(buffer, point')
    /\ UNCHANGED buffer

\* The editor starts with an empty text.
Clear == buffer' = <<>> /\ point' = 0

Next == Insert \/ Delete \/ Step \/ Vertical \/ Clear
Spec == Init /\ [][Next]_vars
=============================================================================
