-------------------------- MODULE LongNamesProofs --------------------------
(***************************************************************************)
(* ListedIsFound, NoOrphan and ImplementsNameTable for any names, aliases  *)
(* and checksums, table and sectors, any failures and any power losses.    *)
(*                                                                         *)
(* The invariant says of both tables, the one FatFs sees and the one on    *)
(* the medium, that whatever pieces follow one marked as the last are one  *)
(* name's (Whole), so that an entry has the long name n just when all of   *)
(* n's pieces are right in front of it and carry its checksum (Tied).  It  *)
(* holds until an entry adopts the pieces of another name.                 *)
(***************************************************************************)
EXTENDS LongNames, TLAPS

\* Piece k of the entries of n under the alias a.
PieceWith(n, sum, k) == Piece(Text[n][k], k, k = Len(Text[n]), sum)
PieceOf(n, a, k)     == PieceWith(n, Sum[a], k)

Aliases == UNION {Forms(n) : n \in Names}

IsItem(x) ==
    \/ x \in {EndMark, Deleted}
    \/ \E n \in NeedsLong : \E a \in Forms(n), k \in 1 .. Len(Text[n]) : x = PieceOf(n, a, k)
    \/ \E a \in Aliases, d \in Names : x = Entry(a, d)

\* The pieces from j, marked as the last, on are those of one name.
Run(s, j, k) == \A m \in j + 1 .. k : IsPiece(s, m) /\ ~s[m].last
SetOf(s, j, n, a) ==
    \A k \in j .. Slots : Run(s, j, k) =>
        k - j < Len(Text[n]) /\ s[k] = PieceOf(n, a, Len(Text[n]) - (k - j))
Whole(s) ==
    \A j \in Places : IsPiece(s, j) /\ s[j].last =>
        \E n \in NeedsLong : \E a \in Forms(n) : SetOf(s, j, n, a)

Shape(s) == s = [i \in Places |-> s[i]] /\ \A i \in Places : IsItem(s[i])
Ends(s)  == \A i, j \in Places : i <= j /\ s[i] = EndMark => s[j] = EndMark

\* The entries, and that n is the long name of the entry i.
Held(s) == {i \in Places : IsEntry(s, i)}
Tied(s, i, n) ==
    /\ n \in NeedsLong
    /\ \A k \in 1 .. Len(Text[n]) : i - k \in Places /\ s[i - k] = PieceOf(n, s[i].alias, k)
Known(s, i, n) == Tied(s, i, n) \/ (n \notin Lossy /\ s[i].alias = Short[n])

Distinct(s) ==
    /\ \A i, j \in Held(s) : s[i].alias = s[j].alias => i = j
    /\ \A i, j \in Held(s), n \in NeedsLong : Tied(s, i, n) /\ Tied(s, j, n) => i = j
    /\ \A i \in Held(s), n \in NeedsLong : Tied(s, i, n) => s[i].alias \in Forms(n)
Table(s) == Shape(s) /\ Ends(s) /\ Whole(s) /\ Distinct(s)

LEMMA Constants ==
    /\ Lossy \subseteq NeedsLong /\ NeedsLong \subseteq Names /\ NoName \notin Names
    /\ \A n \in Names : Len(Text[n]) \in Nat /\ Len(Text[n]) >= 1
    /\ \A n \in Names : Text[n] = [k \in 1 .. Len(Text[n]) |-> Text[n][k]]
    /\ \A n, m \in Names : Text[n] = Text[m] => n = m
    /\ Slots \in Nat /\ Slots >= 1
<1>1. Lossy \subseteq NeedsLong /\ NeedsLong \subseteq Names /\ NoName \notin Names
  BY NameAssumption
<1>2. Slots \in Nat /\ Slots >= 1
  BY NameAssumption
<1>3. \A n, m \in Names : Text[n] = Text[m] => n = m
  BY NameAssumption, Zenon
<1>4. \A n \in Names : Text[n] = [k \in 1 .. Len(Text[n]) |-> Text[n][k]]
  BY NameAssumption, Zenon
<1>5. \A n \in Names : Len(Text[n]) \in Nat \ {0}
  BY NameAssumption, Zenon
<1> QED
  BY <1>1, <1>2, <1>3, <1>4, <1>5

LEMMA LastIs ==
    ASSUME NEW n, NEW a, NEW k
    PROVE  /\ PieceOf(n, a, k).kind = "piece"
           /\ PieceOf(n, a, k).text = Text[n][k]
           /\ PieceOf(n, a, k).ord = k
           /\ PieceOf(n, a, k).last <=> k = Len(Text[n])
           /\ PieceOf(n, a, k).sum = Sum[a]
  BY DEF PieceOf, PieceWith, Piece

LEMMA ItemIs ==
    ASSUME NEW x, IsItem(x)
    PROVE  /\ x.kind \in {"end", "deleted", "piece", "entry"}
           /\ x.kind = "end" <=> x = EndMark
           /\ x.kind = "deleted" <=> x = Deleted
           /\ x.kind = "piece" =>
                 \E n \in NeedsLong : \E a \in Forms(n), k \in 1 .. Len(Text[n]) : x = PieceOf(n, a, k)
           /\ x.kind = "entry" => /\ x = Entry(x.alias, x.data)
                                  /\ x.alias \in Aliases /\ x.data \in Names
<1>1. CASE x \in {EndMark, Deleted}
  BY <1>1 DEF EndMark, Deleted
<1>2. CASE \E n \in NeedsLong : \E a \in Forms(n), k \in 1 .. Len(Text[n]) : x = PieceOf(n, a, k)
  <2>1. x.kind = "piece"
    BY <1>2, LastIs
  <2>2. x # EndMark /\ x # Deleted
    BY <2>1 DEF EndMark, Deleted
  <2> QED
    BY <1>2, <2>1, <2>2
<1>3. CASE \E a \in Aliases, d \in Names : x = Entry(a, d)
  BY <1>3 DEF Entry, EndMark, Deleted
<1> QED
  BY <1>1, <1>2, <1>3 DEF IsItem

(***************************************************************************)
(* What LongText and Find are in a table.                                  *)
(***************************************************************************)
LEMMA OneStart ==
    ASSUME NEW s, NEW i \in Places, NEW j \in Starts(s, i), NEW k \in Starts(s, i)
    PROVE  j = k
<1>1. /\ j \in Int /\ k \in Int /\ j <= i - 1 /\ k <= i - 1
      /\ s[j].last /\ s[k].last
      /\ \A m \in j + 1 .. i - 1 : ~s[m].last
      /\ \A m \in k + 1 .. i - 1 : ~s[m].last
  BY Constants DEF Starts, Places
<1>2. ~(j < k)
  BY <1>1, Constants DEF Places
<1>3. ~(k < j)
  BY <1>1, Constants DEF Places
<1> QED
  BY <1>1, <1>2, <1>3

LEMMA TiedStarts ==
    ASSUME NEW s, NEW i \in Places, NEW n, Tied(s, i, n)
    PROVE  /\ i - Len(Text[n]) \in Starts(s, i)
           /\ Valid(s, i - Len(Text[n]), i)
           /\ Pieces(s, i - Len(Text[n]), i) = Text[n]
<1> DEFINE L == Len(Text[n])
<1>1. n \in Names /\ L \in Nat /\ L >= 1
  BY Constants DEF Tied
<1>2. \A k \in 1 .. L : i - k \in Places /\ s[i - k] = PieceOf(n, s[i].alias, k)
  BY DEF Tied
<1> HIDE DEF L
<1>3. i \in Int /\ i - L \in 1 .. i - 1
  BY <1>1, <1>2, Constants DEF Places
<1>4. ASSUME NEW k \in i - L .. i - 1
      PROVE  /\ i - k \in 1 .. L /\ s[k] = PieceOf(n, s[i].alias, i - k)
             /\ k = i - L <=> i - k = L
  <2>1. i - k \in 1 .. L /\ i - (i - k) = k /\ (k = i - L <=> i - k = L)
    BY <1>1, <1>3
  <2> QED
    BY <1>2, <2>1
<1>5. ASSUME NEW k \in i - L .. i - 1
      PROVE  /\ s[k].kind = "piece" /\ s[k].ord = i - k /\ s[k].sum = Sum[s[i].alias]
             /\ s[k].last <=> k = i - L
             /\ s[k].text = Text[n][i - k]
  BY <1>4, LastIs DEF L
<1>6. i - L \in i - L .. i - 1
  BY <1>3
<1>7. i - L \in Starts(s, i)
  <2>1. s[i - L].kind = "piece" /\ s[i - L].last
    BY <1>5, <1>6
  <2>2. \A k \in (i - L) + 1 .. i - 1 : k \in i - L .. i - 1 /\ k # i - L
    BY <1>1, <1>3
  <2>3. \A k \in (i - L) + 1 .. i - 1 : IsPiece(s, k) /\ ~s[k].last
    BY <1>5, <2>2 DEF IsPiece
  <2> QED
    BY <1>3, <2>1, <2>3 DEF Starts
<1>8. Valid(s, i - L, i)
  BY <1>5 DEF Valid
<1>9. Pieces(s, i - L, i) = Text[n]
  <2>1. i - (i - L) = L
    BY <1>1, <1>3
  <2>2. \A k \in 1 .. L : i - k \in i - L .. i - 1 /\ i - (i - k) = k
    BY <1>1, <1>3
  <2>3. \A k \in 1 .. L : s[i - k].text = Text[n][k]
    BY <1>5, <2>2
  <2>4. Pieces(s, i - L, i) = [k \in 1 .. L |-> Text[n][k]]
    BY <2>1, <2>3 DEF Pieces
  <2> QED
    BY <1>1, <2>4, Constants DEF L
<1> QED
  BY <1>7, <1>8, <1>9 DEF L

LEMMA TextWhenTied ==
    ASSUME NEW s, NEW i \in Places, NEW n, Tied(s, i, n)
    PROVE  LongText(s, i) = Text[n]
<1> DEFINE j == i - Len(Text[n])
           c == CHOOSE j2 \in Starts(s, i) : Valid(s, j2, i)
<1>1. j \in Starts(s, i) /\ Valid(s, j, i) /\ Pieces(s, j, i) = Text[n]
  BY TiedStarts
<1> HIDE DEF j
<1>2. c \in Starts(s, i)
  BY <1>1
<1>3. c = j
  BY <1>1, <1>2, OneStart
<1>4. LongText(s, i) = Pieces(s, c, i)
  BY <1>1 DEF LongText
<1> QED
  BY <1>1, <1>3, <1>4

\* In a whole table only the pieces of one name are put together.
LEMMA TiedWhenText ==
    ASSUME NEW s, Shape(s), Whole(s), NEW i \in Places, NEW j \in Starts(s, i), Valid(s, j, i),
           IsEntry(s, i)
    PROVE  \E n \in NeedsLong : Tied(s, i, n)
<1>1. /\ j \in Places /\ i \in Int /\ j \in Int /\ 1 <= j /\ j <= i - 1 /\ i <= Slots
      /\ IsPiece(s, j) /\ s[j].last /\ \A k \in j + 1 .. i - 1 : IsPiece(s, k) /\ ~s[k].last
  BY Constants DEF Starts, Places, IsPiece
<1>2. PICK n \in NeedsLong : \E a \in Forms(n) : SetOf(s, j, n, a)
  BY <1>1 DEF Whole
<1>3. PICK a \in Forms(n) : SetOf(s, j, n, a)
  BY <1>2
<1> DEFINE L == Len(Text[n])
<1>4. n \in Names /\ L \in Nat /\ L >= 1
  BY Constants
<1>5. ASSUME NEW k \in j .. i - 1
      PROVE  k - j < L /\ s[k] = PieceOf(n, a, L - (k - j))
  <2>1. k \in j .. Slots /\ \A m \in j + 1 .. k : m \in j + 1 .. i - 1
    BY <1>1, Constants
  <2>2. Run(s, j, k)
    BY <1>1, <2>1 DEF Run
  <2> QED
    BY <1>3, <2>1, <2>2 DEF SetOf
<1> HIDE DEF L
<1>6. ASSUME NEW k \in j .. i - 1
      PROVE  s[k].ord = L - (k - j) /\ s[k].sum = Sum[a]
  BY <1>5, LastIs
<1>7. j \in j .. i - 1
  BY <1>1
<1>8. s[j].ord = i - j /\ s[j].sum = Sum[s[i].alias]
  BY <1>7 DEF Valid
<1>9. i - j = L
  BY <1>1, <1>4, <1>6, <1>7, <1>8
<1>10. \A k : PieceOf(n, a, k) = PieceOf(n, s[i].alias, k)
  <2>1. Sum[s[i].alias] = Sum[a]
    BY <1>6, <1>7, <1>8
  <2> QED
    BY <2>1 DEF PieceOf
<1>11. \A k \in 1 .. L : i - k \in Places /\ s[i - k] = PieceOf(n, s[i].alias, k)
  <2> SUFFICES ASSUME NEW k \in 1 .. L PROVE i - k \in Places /\ s[i - k] = PieceOf(n, s[i].alias, k)
    OBVIOUS
  <2>a. k \in Int /\ 1 <= k /\ k <= i - j /\ Slots \in Int
    BY <1>9, Constants
  <2>1. i - k \in j .. i - 1 /\ L - ((i - k) - j) = k /\ i - k \in 1 .. Slots
    BY <1>1, <1>9, <2>a
  <2> QED
    BY <1>5, <1>10, <2>1 DEF Places
<1> QED
  BY <1>11 DEF Tied, L

LEMMA TextIs ==
    ASSUME NEW s, Shape(s), Whole(s), NEW i \in Held(s)
    PROVE  \/ LongText(s, i) = NoText /\ \A n \in NeedsLong : ~Tied(s, i, n)
           \/ \E n \in NeedsLong : Tied(s, i, n) /\ LongText(s, i) = Text[n]
<1>1. i \in Places /\ IsEntry(s, i)
  BY DEF Held
<1>2. CASE \E j \in Starts(s, i) : Valid(s, j, i)
  <2>1. PICK n \in NeedsLong : Tied(s, i, n)
    BY <1>1, <1>2, TiedWhenText
  <2> QED
    BY <1>1, <2>1, TextWhenTied
<1>3. CASE ~\E j \in Starts(s, i) : Valid(s, j, i)
  <2>1. LongText(s, i) = NoText
    BY <1>3 DEF LongText
  <2>2. \A n \in NeedsLong : ~Tied(s, i, n)
    BY <1>1, <1>3, TiedStarts
  <2> QED
    BY <2>1, <2>2
<1> QED
  BY <1>2, <1>3

LEMMA TextNotEmpty == ASSUME NEW n \in Names PROVE Text[n] # NoText
<1>1. Len(Text[n]) >= 1 /\ Len(Text[n]) \in Nat
  BY Constants
<1>2. Len(<<>>) = 0
  OBVIOUS
<1> QED
  BY <1>1, <1>2 DEF NoText

LEMMA TextMeans ==
    ASSUME NEW s, Shape(s), Whole(s), NEW i \in Held(s), NEW n \in Names
    PROVE  LongText(s, i) = Text[n] <=> Tied(s, i, n)
<1>1. i \in Places
  BY DEF Held
<1>2. ASSUME Tied(s, i, n) PROVE LongText(s, i) = Text[n]
  BY <1>1, <1>2, TextWhenTied
<1>3. ASSUME LongText(s, i) = Text[n] PROVE Tied(s, i, n)
  <2>1. PICK m \in NeedsLong : Tied(s, i, m) /\ LongText(s, i) = Text[m]
    BY <1>3, TextIs, TextNotEmpty
  <2>2. m \in Names /\ Text[m] = Text[n]
    BY <1>3, <2>1, Constants
  <2> QED
    BY <2>1, <2>2, Constants
<1> QED
  BY <1>2, <1>3

LEMMA LiveEntries ==
    ASSUME NEW s, Ends(s) PROVE {i \in Live(s) : IsEntry(s, i)} = Held(s)
<1>1. ASSUME NEW i \in Held(s) PROVE i \in Live(s)
  <2>1. i \in Places /\ s[i].kind = "entry"
    BY DEF Held, IsEntry
  <2>2. s[i] # EndMark
    BY <2>1 DEF EndMark
  <2>3. \A j \in 1 .. i : j \in Places /\ j <= i
    BY <2>1, Constants DEF Places
  <2> QED
    BY <2>1, <2>2, <2>3 DEF Ends, Live
<1> QED
  BY <1>1 DEF Live, Held

LEMMA Matching ==
    ASSUME NEW s, Shape(s), Whole(s), NEW i \in Held(s), NEW n \in Names
    PROVE  Matches(s, i, Text[n], Short[n], n \in Lossy) <=> Known(s, i, n)
<1>1. IsEntry(s, i)
  BY DEF Held
<1> QED
  BY <1>1, TextMeans, TextNotEmpty DEF Matches, Known

LEMMA OneKnown ==
    ASSUME NEW s, Table(s), NEW n \in Names, NEW i \in Held(s), NEW j \in Held(s),
           Known(s, i, n), Known(s, j, n)
    PROVE  i = j
<1>1. ASSUME NEW k \in Held(s), Known(s, k, n), n \notin Lossy PROVE s[k].alias = Short[n]
  <2>1. Forms(n) = {Short[n]}
    BY <1>1 DEF Forms
  <2>2. ASSUME Tied(s, k, n) PROVE s[k].alias \in Forms(n)
    BY <2>2 DEF Table, Distinct, Tied
  <2> QED
    BY <1>1, <2>1, <2>2 DEF Known
<1>2. CASE n \notin Lossy
  BY <1>1, <1>2 DEF Table, Distinct
<1>3. CASE n \in Lossy
  BY <1>3, Constants DEF Table, Distinct, Known
<1> QED
  BY <1>2, <1>3

LEMMA FirstOfOne ==
    ASSUME NEW S \in SUBSET Int, \A i, j \in S : i = j
    PROVE  First(S) = S
<1>1. \A i \in S : i \in Int /\ i <= i
  OBVIOUS
<1>2. \A i, j \in S : i <= j
  BY <1>1, Zenon
<1> QED
  BY <1>2, Zenon DEF First

LEMMA FindIs ==
    ASSUME NEW s, Table(s), NEW n \in Names
    PROVE  Find(s, n) = {i \in Held(s) : Known(s, i, n)}
<1> DEFINE M == {i \in Live(s) : Matches(s, i, Text[n], Short[n], n \in Lossy)}
<1>1. M = {i \in Held(s) : Known(s, i, n)}
  <2>1. \A i \in M : i \in Held(s)
    BY LiveEntries DEF Table, Matches
  <2>2. Held(s) \subseteq Live(s)
    BY LiveEntries DEF Table
  <2> QED
    BY <2>1, <2>2, Matching DEF Table
<1>2. \A i, j \in M : i = j
  BY <1>1, OneKnown
<1>3. M \in SUBSET Int
  BY DEF Live, Places
<1> HIDE DEF M
<1>4. First(M) = M
  BY <1>2, <1>3, FirstOfOne
<1> QED
  BY <1>1, <1>4 DEF Find, FindBy, M

\* ListedIsFound of one table.
LEMMA TableListed ==
    ASSUME NEW s, Table(s), NEW i \in Held(s)
    PROVE  IF LongText(s, i) = NoText
           THEN FindBy(s, NoText, s[i].alias, FALSE) = {i}
           ELSE \E n \in Names : Text[n] = LongText(s, i) /\ Find(s, n) = {i}
<1>1. CASE LongText(s, i) = NoText
  <2> DEFINE M == {j \in Live(s) : Matches(s, j, NoText, s[i].alias, FALSE)}
  <2>1. M = {j \in Held(s) : s[j].alias = s[i].alias}
    BY LiveEntries DEF Table, Matches, Held
  <2>2. M = {i}
    BY <2>1 DEF Table, Distinct
  <2> HIDE DEF M
  <2>3. M \in SUBSET Int
    BY <2>2 DEF Held, Places
  <2>4. First(M) = {i}
    BY <2>2, <2>3, FirstOfOne
  <2> QED
    BY <1>1, <2>4 DEF FindBy, M
<1>2. CASE LongText(s, i) # NoText
  <2>1. PICK n \in NeedsLong : Tied(s, i, n) /\ LongText(s, i) = Text[n]
    BY <1>2, TextIs DEF Table
  <2>2. n \in Names
    BY Constants
  <2>3. Find(s, n) = {j \in Held(s) : Known(s, j, n)}
    BY <2>2, FindIs
  <2>4. Known(s, i, n)
    BY <2>1 DEF Known
  <2>5. Find(s, n) = {i}
    BY <2>2, <2>3, <2>4, OneKnown
  <2> QED
    BY <1>2, <2>1, <2>2, <2>5
<1> QED
  BY <1>1, <1>2

(***************************************************************************)
(* What one changed slot does to a table.                                  *)
(***************************************************************************)
Wrote(s, u, at, x) == u = [s EXCEPT ![at] = x]
Holds(u, at, x)    == u[at] = x
Alike(s, u, at)    == \A j \in Places : j # at => u[j] = s[j]

LEMMA TiesKeep ==
    ASSUME NEW s, NEW u, NEW i \in Places, NEW n, Tied(s, i, n),
           u[i].alias = s[i].alias, \A k \in i - Len(Text[n]) .. i - 1 : u[k] = s[k]
    PROVE  Tied(u, i, n)
<1>1. n \in Names /\ Len(Text[n]) \in Nat /\ i \in Int
  BY Constants DEF Tied, Places
<1>2. ASSUME NEW k \in 1 .. Len(Text[n])
      PROVE  u[i - k] = s[i - k]
  <2>1. i - k \in i - Len(Text[n]) .. i - 1
    BY <1>1
  <2> QED
    BY <2>1
<1> QED
  BY <1>2 DEF Tied

LEMMA TiePieces ==
    ASSUME NEW s, NEW i \in Places, NEW n, Tied(s, i, n), NEW k \in i - Len(Text[n]) .. i - 1
    PROVE  /\ k \in Places /\ IsPiece(s, k)
           /\ s[k].last <=> k = i - Len(Text[n])
<1>1. n \in Names /\ Len(Text[n]) \in Nat /\ i \in Int
  BY Constants DEF Tied, Places
<1>2. i - k \in 1 .. Len(Text[n]) /\ i - (i - k) = k /\ (i - k = Len(Text[n]) <=> k = i - Len(Text[n]))
  BY <1>1
<1>3. k \in Places /\ s[k] = PieceOf(n, s[i].alias, i - k)
  BY <1>2 DEF Tied
<1> QED
  BY <1>2, <1>3, LastIs DEF IsPiece

\* A slot that holds no piece is part of no name.
LEMMA TiesStay ==
    ASSUME NEW s, NEW u, NEW at \in Places, Alike(s, u, at), ~IsPiece(s, at),
           NEW i \in Places, u[i].alias = s[i].alias, NEW n, Tied(s, i, n)
    PROVE  Tied(u, i, n)
<1>1. \A k \in i - Len(Text[n]) .. i - 1 : k \in Places /\ k # at
  BY TiePieces
<1> QED
  BY <1>1, TiesKeep DEF Alike

LEMMA ShapeAfter ==
    ASSUME NEW s, NEW u, NEW at \in Places, NEW x,
           Shape(s) /\ IsItem(x) /\ Wrote(s, u, at, x)
    PROVE  Shape(u) /\ Alike(s, u, at) /\ Holds(u, at, x)
<1> DEFINE f == [i \in Places |-> s[i]]
<1>1. s = f
  BY DEF Shape
<1> HIDE DEF f
<1>2. u = [f EXCEPT ![at] = x]
  BY <1>1 DEF Wrote
<1>3. u = [i \in Places |-> IF i = at THEN x ELSE s[i]]
  BY <1>2, Zenon DEF f
<1>4. u[at] = x /\ \A j \in Places : j # at => u[j] = s[j]
  BY <1>3
<1>5. u = [i \in Places |-> u[i]]
  BY <1>3
<1> QED
  BY <1>4, <1>5 DEF Shape, Alike, Holds

LEMMA EndsAfter ==
    ASSUME NEW s, Ends(s), NEW u, NEW at \in Places, Alike(s, u, at), u[at] # EndMark,
           \A i \in 1 .. at - 1 : s[i] # EndMark
    PROVE  Ends(u)
<1> SUFFICES ASSUME NEW i \in Places, NEW j \in Places, i <= j, u[i] = EndMark
             PROVE  u[j] = EndMark
  BY DEF Ends
<1>1. i # at /\ s[i] = EndMark
  BY DEF Alike
<1>2. j # at
  <2>1. i \in Int /\ i >= 1 /\ at \in Int
    BY Constants DEF Places
  <2> QED
    BY <1>1, <2>1
<1> QED
  BY <1>1, <1>2 DEF Ends, Alike

LEMMA WholeAfter ==
    ASSUME NEW s, Whole(s), NEW u, NEW at \in Places, Alike(s, u, at), ~IsPiece(u, at)
    PROVE  Whole(u)
<1> SUFFICES ASSUME NEW j \in Places, IsPiece(u, j), u[j].last
             PROVE  \E n \in NeedsLong : \E a \in Forms(n) : SetOf(u, j, n, a)
  BY DEF Whole
<1>1. j # at /\ u[j] = s[j]
  BY DEF Alike
<1>2. PICK n \in NeedsLong : \E a \in Forms(n) : SetOf(s, j, n, a)
  BY <1>1 DEF Whole, IsPiece
<1>3. PICK a \in Forms(n) : SetOf(s, j, n, a)
  BY <1>2
<1>4. ASSUME NEW k \in j .. Slots, Run(u, j, k)
      PROVE  k - j < Len(Text[n]) /\ u[k] = PieceOf(n, a, Len(Text[n]) - (k - j))
  <2>1. j \in Int /\ k \in Int /\ 1 <= j /\ j <= k /\ k <= Slots
    BY Constants DEF Places
  <2>2. at \notin j + 1 .. k
    BY <1>4 DEF Run
  <2>3. at \notin j .. k
    BY <1>1, <2>1, <2>2 DEF Places
  <2>4. \A m \in j .. k : u[m] = s[m]
    BY <2>1, <2>3, Constants DEF Alike, Places
  <2>5. Run(s, j, k)
    <3>1. \A m \in j + 1 .. k : m \in j .. k
      BY <2>1
    <3> QED
      BY <1>4, <2>4, <3>1 DEF Run, IsPiece
  <2>6. k \in j .. k
    BY <2>1
  <2> QED
    BY <1>3, <2>4, <2>5, <2>6 DEF SetOf
<1> QED
  BY <1>4 DEF SetOf

\* Entries that go, or lose their long names, leave the others distinct.
LEMMA DistinctAfter ==
    ASSUME NEW s, Distinct(s), NEW u, Held(u) \subseteq Held(s),
           \A i \in Held(u) : u[i].alias = s[i].alias,
           \A i \in Held(u) : \A n \in NeedsLong : Tied(u, i, n) => Tied(s, i, n)
    PROVE  Distinct(u)
<1> SUFFICES ASSUME NEW i \in Held(u), NEW j \in Held(u)
             PROVE  /\ u[i].alias = u[j].alias => i = j
                    /\ \A n \in NeedsLong : Tied(u, i, n) /\ Tied(u, j, n) => i = j
                    /\ \A n \in NeedsLong : Tied(u, i, n) => u[i].alias \in Forms(n)
  BY DEF Distinct
<1>1. i \in Held(s) /\ j \in Held(s) /\ u[i].alias = s[i].alias /\ u[j].alias = s[j].alias
  OBVIOUS
<1>2. u[i].alias = u[j].alias => i = j
  BY <1>1 DEF Distinct
<1>3. \A n \in NeedsLong : Tied(u, i, n) /\ Tied(u, j, n) => i = j
  BY <1>1 DEF Distinct
<1>4. \A n \in NeedsLong : Tied(u, i, n) => u[i].alias \in Forms(n)
  BY <1>1 DEF Distinct
<1> QED
  BY <1>2, <1>3, <1>4

(***************************************************************************)
(* A call o on the table s.                                                *)
(***************************************************************************)
OpType ==
    [call : {"none", "open", "unlink"}, n : Names \cup {NoName},
     pc : {"idle", "find", "alloc", "put", "set", "delete", "sync"}, at : Places, left : Nat,
     last : Places, alias : Aliases \cup {<<>>}]
Control(o) ==
    /\ o \in OpType
    /\ o.call = "none" => o = NoOp
    /\ o.call # "none" => o.n \in Names
    /\ o.pc = "idle" <=> o.call = "none"
    /\ o.pc \in {"alloc", "put", "set"} => o.call = "open"
    /\ o.pc = "delete" => o.call = "unlink"
    /\ o.alias = <<>> <=> o.pc \in {"idle", "find", "alloc"}

Absent(s, n) == \A i \in Held(s) : ~Known(s, i, n)

\* A new object is being put together, its entry to be at at + left.
Making(s, o) == o.pc \in {"put", "set"} /\ IsFree(s, o.at)
Made(s, o) ==
    /\ Absent(s, o.n) /\ o.alias \in Forms(o.n)
    /\ \A i \in Held(s) : s[i].alias # o.alias
    /\ o.at + o.left <= Slots /\ \A j \in o.at .. o.at + o.left : IsFree(s, j)
    /\ \A i \in 1 .. o.at - 1 : s[i] # EndMark
    /\ o.pc = "set" <=> o.left = 0
    /\ o.n \notin NeedsLong => o.left = 0
    /\ o.n \in NeedsLong =>
          /\ o.left <= Len(Text[o.n])
          /\ \A k \in o.left + 1 .. Len(Text[o.n]) :
                /\ o.at + o.left - k \in Places
                /\ s[o.at + o.left - k] = PieceOf(o.n, o.alias, k)

\* The object found is being removed, its pieces from the front.
Removing(s, o) ==
    /\ o.last \in Held(s) /\ s[o.last].alias = o.alias /\ o.at <= o.last
    /\ \A m \in o.at .. o.last - 1 : IsPiece(s, m)
    /\ \A m \in o.at + 1 .. o.last - 1 : ~s[m].last
    /\ \A i \in Held(s) : Known(s, i, o.n) => i = o.last
    /\ (\A m \in NeedsLong : ~Tied(s, o.last, m)) \/ (o.at < o.last /\ s[o.at].last)

CallOK(s, o) ==
    /\ o.pc = "alloc" => Absent(s, o.n)
    /\ o.pc = "put" => Making(s, o)
    /\ Making(s, o) => Made(s, o)
    /\ o.pc = "set" /\ ~Making(s, o) =>
          o.at \in Held(s) /\ s[o.at].alias = o.alias /\ Known(s, o.at, o.n)
    /\ o.pc = "delete" => Removing(s, o)
    /\ o.pc = "sync" /\ o.call = "open" =>
          \E i \in Held(s) : s[i].alias = o.alias /\ s[i].data = o.n /\ Known(s, i, o.n)
    /\ o.pc = "sync" /\ o.call = "unlink" => Absent(s, o.n)

\* Whose a piece is, while nothing has failed.
Owned(s, i) ==
    \E j \in Held(s), n \in NeedsLong : Tied(s, j, n) /\ j - Len(Text[n]) <= i /\ i < j
Covered(s, o) ==
    \A i \in Places : IsPiece(s, i) =>
        \/ Owned(s, i)
        \/ /\ Making(s, o) /\ o.n \in NeedsLong
           /\ o.at + o.left - Len(Text[o.n]) <= i /\ i < o.at
        \/ o.pc = "delete" /\ o.at <= i /\ i < o.last

IInv ==
    /\ Table(slots) /\ Table(disk) /\ (win = None => slots = disk)
    /\ Control(op) /\ CallOK(slots, op)
    /\ mishaps \in Nat /\ (mishaps = 0 => Covered(slots, op))

LEMMA FreeIs ==
    ASSUME NEW s, NEW i, IsFree(s, i)
    PROVE  ~IsPiece(s, i) /\ ~IsEntry(s, i)
  BY DEF IsFree, IsPiece, IsEntry

LEMMA PieceIs ==
    ASSUME NEW s, NEW i, IsPiece(s, i)
    PROVE  ~IsFree(s, i) /\ ~IsEntry(s, i) /\ s[i] # EndMark
  BY DEF IsFree, IsPiece, IsEntry, EndMark

LEMMA ItemsWritten ==
    /\ IsItem(Deleted)
    /\ \A n \in NeedsLong : \A a \in Forms(n), k \in 1 .. Len(Text[n]) : IsItem(PieceOf(n, a, k))
    /\ \A a \in Aliases, d \in Names : IsItem(Entry(a, d))
<1>1. IsItem(Deleted)
  BY DEF IsItem
<1>2. \A n \in NeedsLong : \A a \in Forms(n), k \in 1 .. Len(Text[n]) : IsItem(PieceOf(n, a, k))
  BY Zenon DEF IsItem
<1>3. \A a \in Aliases, d \in Names : IsItem(Entry(a, d))
  BY Zenon DEF IsItem
<1> QED
  BY <1>1, <1>2, <1>3

(***************************************************************************)
(* One more piece of a new object.                                         *)
(***************************************************************************)
LEMMA PutWhole ==
    ASSUME NEW s, Whole(s), NEW o, Made(s, o), o.n \in NeedsLong, o.at \in Places,
           o.left \in Nat, o.left # 0,
           NEW u, Alike(s, u, o.at), u[o.at] = PieceOf(o.n, o.alias, o.left)
    PROVE  Whole(u)
<1> DEFINE n == o.n
           a == o.alias
           at == o.at
           left == o.left
           L == Len(Text[o.n])
           p == at + left - L
<1>1. /\ n \in NeedsLong /\ n \in Names /\ a \in Forms(n) /\ L \in Nat /\ left \in Nat /\ left >= 1
      /\ left <= L /\ at \in Places /\ at \in Int /\ at >= 1 /\ at + left <= Slots /\ Slots \in Nat
  BY Constants DEF Made, Places
<1>2. ASSUME NEW k \in left + 1 .. L
      PROVE  at + left - k \in Places /\ s[at + left - k] = PieceOf(n, a, k)
  BY DEF Made
<1>3. at + 1 \in Places /\ ~IsPiece(s, at + 1) /\ at + 1 # at
  <2>1. at + 1 \in at .. at + left /\ at + 1 \in Places /\ at + 1 # at
    BY <1>1 DEF Places
  <2>2. IsFree(s, at + 1)
    BY <2>1 DEF Made
  <2> QED
    BY <2>1, <2>2, FreeIs
<1>4. ~IsPiece(u, at + 1)
  BY <1>3 DEF Alike, IsPiece
<1>5. u[at] = PieceOf(n, a, left)
  OBVIOUS
<1> HIDE DEF n, a, at, left, L
<1>6. ASSUME NEW k \in p .. at - 1
      PROVE  k \in Places /\ k # at /\ u[k] = s[k] /\ u[k] = PieceOf(n, a, at + left - k)
  <2>1. at + left - k \in left + 1 .. L /\ at + left - (at + left - k) = k /\ k # at
    BY <1>1
  <2>2. k \in Places /\ s[k] = PieceOf(n, a, at + left - k)
    BY <1>2, <2>1
  <2> QED
    BY <2>1, <2>2 DEF Alike, at
<1>7. ASSUME NEW k \in p .. at
      PROVE  /\ u[k] = PieceOf(n, a, at + left - k)
             /\ u[k].last <=> k = p
  <2>1. u[k] = PieceOf(n, a, at + left - k)
    <3>1. CASE k = at
      <4>1. at + left - at = left
        BY <1>1
      <4> QED
        BY <1>5, <3>1, <4>1
    <3>2. CASE k # at
      <4>1. k \in p .. at - 1
        BY <1>1, <3>2
      <4> QED
        BY <1>6, <4>1
    <3> QED
      BY <3>1, <3>2
  <2>2. at + left - k = L <=> k = p
    BY <1>1
  <2> QED
    BY <2>1, <2>2, LastIs DEF L, n
<1>8. p \in p .. at /\ p <= at /\ p \in Int
  BY <1>1
<1>9. SetOf(u, p, n, a)
  <2> SUFFICES ASSUME NEW k \in p .. Slots, Run(u, p, k)
               PROVE  k - p < L /\ u[k] = PieceOf(n, a, L - (k - p))
    BY DEF SetOf, L, n
  <2>1. at + 1 \notin p + 1 .. k
    BY <1>4 DEF Run
  <2>2. k \in p .. at
    BY <1>1, <1>8, <2>1
  <2>3. k - p < L /\ L - (k - p) = at + left - k
    BY <1>1, <2>2
  <2> QED
    BY <1>7, <2>2, <2>3
<1> SUFFICES ASSUME NEW j \in Places, IsPiece(u, j), u[j].last
             PROVE  \E m \in NeedsLong : \E b \in Forms(m) : SetOf(u, j, m, b)
  BY DEF Whole
<1>10. CASE j = p
  BY <1>1, <1>9, <1>10
<1>11. CASE j # p
  <2>1. j \in Int /\ 1 <= j /\ j <= Slots
    BY Constants DEF Places
  <2>2. j \notin p .. at
    BY <1>7, <1>11
  <2>3. j # at /\ u[j] = s[j]
    <3>1. j # at
      BY <1>1, <1>8, <2>2
    <3> QED
      BY <3>1 DEF Alike, at
  <2>4. PICK m \in NeedsLong : \E b \in Forms(m) : SetOf(s, j, m, b)
    BY <2>3 DEF Whole, IsPiece
  <2>5. PICK b \in Forms(m) : SetOf(s, j, m, b)
    BY <2>4
  <2>6. ASSUME NEW k \in j .. Slots, Run(u, j, k)
        PROVE  k - j < Len(Text[m]) /\ u[k] = PieceOf(m, b, Len(Text[m]) - (k - j))
    <3>1. p \notin j + 1 .. k
      BY <1>7, <1>8, <2>6 DEF Run
    <3>2. at \notin j .. k
      BY <1>1, <1>8, <2>1, <2>2, <3>1
    <3>3. \A i \in j .. k : u[i] = s[i]
      <4>1. \A i \in j .. k : i \in Places /\ i # at
        BY <1>1, <2>1, <3>2 DEF Places
      <4> QED
        BY <4>1 DEF Alike, at
    <3>4. \A i \in j + 1 .. k : i \in j .. k
      BY <2>1
    <3>5. Run(s, j, k)
      BY <2>6, <3>3, <3>4 DEF Run, IsPiece
    <3>6. k \in j .. k
      BY <2>1
    <3> QED
      BY <2>5, <3>3, <3>5, <3>6 DEF SetOf
  <2> QED
    BY <2>5, <2>6 DEF SetOf
<1> QED
  BY <1>10, <1>11

LEMMA PutTable ==
    ASSUME NEW s, Table(s), NEW o, Made(s, o), o.n \in Names, o.at \in Places,
           o.left \in Nat, o.left # 0,
           NEW u, Wrote(s, u, o.at, PieceOf(o.n, o.alias, o.left))
    PROVE  /\ Table(u) /\ Held(u) = Held(s) /\ o.n \in NeedsLong
           /\ Alike(s, u, o.at) /\ u[o.at] = PieceOf(o.n, o.alias, o.left)
           /\ \A i \in Held(s) : i # o.at /\ u[i] = s[i]
                              /\ \A m \in NeedsLong : Tied(u, i, m) <=> Tied(s, i, m)
<1>1. /\ o.n \in NeedsLong /\ o.alias \in Forms(o.n) /\ o.left \in 1 .. Len(Text[o.n])
      /\ o.at \in Int /\ o.at >= 1 /\ o.at + o.left <= Slots /\ Slots \in Nat
  BY Constants DEF Made, Places
<1>2. IsItem(PieceOf(o.n, o.alias, o.left))
  BY <1>1, ItemsWritten
<1>3. Shape(u) /\ Alike(s, u, o.at) /\ u[o.at] = PieceOf(o.n, o.alias, o.left)
  <2> DEFINE w == PieceOf(o.n, o.alias, o.left)
             i == o.at
  <2>1. Shape(s) /\ IsItem(w) /\ Wrote(s, u, i, w) /\ i \in Places
    BY <1>2 DEF Table
  <2> HIDE DEF w, i
  <2>2. Shape(u) /\ Alike(s, u, i) /\ Holds(u, i, w)
    BY <2>1, ShapeAfter, Zenon
  <2> QED
    BY <2>2 DEF w, i, Holds
<1>4. IsPiece(u, o.at)
  BY <1>3, LastIs DEF IsPiece
<1>5. IsFree(s, o.at) /\ IsFree(s, o.at + 1) /\ o.at + 1 \in Places /\ o.at + 1 # o.at
  <2>1. o.at \in o.at .. o.at + o.left /\ o.at + 1 \in o.at .. o.at + o.left
    BY <1>1
  <2> QED
    BY <1>1, <2>1 DEF Made, Places
<1>6. ~IsPiece(s, o.at) /\ ~IsEntry(s, o.at) /\ ~IsEntry(u, o.at)
  BY <1>4, <1>5, FreeIs, PieceIs
<1>7. Held(u) = Held(s)
  BY <1>3, <1>6 DEF Held, Alike, IsEntry
<1>8. ~IsPiece(u, o.at + 1) /\ ~IsEntry(u, o.at + 1)
  <2>1. u[o.at + 1] = s[o.at + 1]
    BY <1>3, <1>5 DEF Alike
  <2> QED
    BY <1>5, <2>1, FreeIs DEF IsPiece, IsEntry
<1>9. ASSUME NEW i \in Held(s)
      PROVE  i # o.at /\ u[i] = s[i] /\ \A m \in NeedsLong : Tied(u, i, m) <=> Tied(s, i, m)
  <2>1. i # o.at /\ u[i] = s[i] /\ i \in Places
    BY <1>3, <1>6 DEF Held, Alike
  <2>2. ASSUME NEW m \in NeedsLong, Tied(s, i, m) PROVE Tied(u, i, m)
    BY <1>3, <1>6, <2>1, <2>2, TiesStay
  <2>3. ASSUME NEW m \in NeedsLong, Tied(u, i, m) PROVE Tied(s, i, m)
    <3> DEFINE L == Len(Text[m])
    <3>1. i \in Int /\ L \in Nat
      BY <2>1, Constants DEF Places
    <3>2. \A k \in i - L .. i - 1 : k \in Places /\ IsPiece(u, k)
      BY <2>1, <2>3, TiePieces
    <3> HIDE DEF L
    <3>3. o.at + 1 # i
      BY <1>7, <1>8 DEF Held
    <3>4. o.at \notin i - L .. i - 1
      <4>1. o.at \in i - L .. i - 1 => o.at + 1 \in i - L .. i - 1
        BY <1>1, <3>1, <3>3
      <4> QED
        BY <1>8, <3>2, <4>1
    <3>5. \A k \in i - L .. i - 1 : s[k] = u[k]
      BY <1>3, <3>2, <3>4 DEF Alike
    <3> QED
      BY <2>1, <2>3, <3>5, TiesKeep DEF L
  <2> QED
    BY <2>1, <2>2, <2>3
<1>10. Ends(u)
  <2>1. u[o.at] # EndMark
    BY <1>4, PieceIs
  <2> QED
    BY <1>3, <2>1, EndsAfter DEF Table, Made
<1>11. Whole(u)
  BY <1>1, <1>3, PutWhole DEF Table
<1>12. Distinct(u)
  BY <1>7, <1>9, DistinctAfter DEF Table
<1> QED
  BY <1>1, <1>3, <1>7, <1>9, <1>10, <1>11, <1>12 DEF Table

(***************************************************************************)
(* The entry of a new object.                                              *)
(***************************************************************************)
LEMMA EntryIs ==
    ASSUME NEW a, NEW d
    PROVE  /\ Entry(a, d).kind = "entry" /\ Entry(a, d).alias = a /\ Entry(a, d).data = d
           /\ Entry(a, d) # EndMark
  BY DEF Entry, EndMark

LEMMA EntryAfter ==
    ASSUME NEW s, NEW u, NEW at \in Places, NEW a \in Aliases, NEW n \in Names,
           Shape(s) /\ Wrote(s, u, at, Entry(a, n))
    PROVE  Shape(u) /\ Alike(s, u, at) /\ Holds(u, at, Entry(a, n))
<1> DEFINE w == Entry(a, n)
<1>1. IsItem(w)
  BY ItemsWritten
<1> HIDE DEF w
<1>2. Shape(s) /\ IsItem(w) /\ Wrote(s, u, at, w)
  BY <1>1 DEF w
<1>3. Shape(u) /\ Alike(s, u, at) /\ Holds(u, at, w)
  BY <1>2, ShapeAfter, Zenon
<1> QED
  BY <1>3 DEF w

LEMMA HoldsEntry ==
    ASSUME NEW u, NEW at, NEW a, NEW d, Holds(u, at, Entry(a, d))
    PROVE  /\ IsEntry(u, at) /\ u[at].alias = a /\ u[at].data = d /\ u[at] # EndMark
           /\ ~IsPiece(u, at)
  BY EntryIs DEF Holds, IsEntry, IsPiece

LEMMA FormsAre == \A n \in Names : Forms(n) \subseteq Aliases
  BY Zenon DEF Aliases

\* What is in front of a new entry without a long name fits nothing.
Alone(s, o) == o.n \notin NeedsLong => ~Fits(s, o.at, o.alias)

LEMMA NewTies ==
    ASSUME NEW s, NEW o, Made(s, o), o.n \in Names, o.at \in Places, o.left = 0,
           Alone(s, o), NEW u, Shape(u), Whole(u), Alike(s, u, o.at), u[o.at].alias = o.alias, o.at \in Held(u)
    PROVE  /\ o.n \in NeedsLong => Tied(u, o.at, o.n)
           /\ \A m \in NeedsLong : Tied(u, o.at, m) => m = o.n
           /\ Known(u, o.at, o.n)
<1>1. o.n \in NeedsLong => Tied(u, o.at, o.n)
  <2> SUFFICES ASSUME o.n \in NeedsLong PROVE Tied(u, o.at, o.n)
    OBVIOUS
  <2>1. o.at \in Int /\ Len(Text[o.n]) \in Nat
    BY Constants DEF Places
  <2> SUFFICES ASSUME NEW k \in 1 .. Len(Text[o.n])
               PROVE  o.at - k \in Places /\ u[o.at - k] = PieceOf(o.n, o.alias, k)
    BY DEF Tied, Made
  <2>2. k \in o.left + 1 .. Len(Text[o.n]) /\ o.at + o.left - k = o.at - k /\ o.at - k # o.at
    BY <2>1
  <2>3. o.at - k \in Places /\ s[o.at - k] = PieceOf(o.n, o.alias, k)
    BY <2>2 DEF Made
  <2> QED
    BY <2>2, <2>3 DEF Alike
<1>2. ASSUME NEW m \in NeedsLong, Tied(u, o.at, m) PROVE m = o.n
  <2>1. m \in Names
    BY Constants
  <2>2. CASE o.n \in NeedsLong
    <3>1. LongText(u, o.at) = Text[m] /\ LongText(u, o.at) = Text[o.n]
      BY <1>1, <1>2, <2>2, TextWhenTied
    <3> QED
      BY <2>1, <3>1, Constants
  <2>3. CASE o.n \notin NeedsLong
    <3>1. ASSUME NEW k \in 1 .. Len(Text[m])
          PROVE  o.at - k \in Places /\ s[o.at - k] = PieceOf(m, o.alias, k)
      <4>1. o.at - k \in Places /\ u[o.at - k] = PieceOf(m, o.alias, k)
        BY <1>2 DEF Tied, PieceOf
      <4>2. o.at - k # o.at
        BY <2>1, Constants DEF Places
      <4> QED
        BY <4>1, <4>2 DEF Alike
    <3>2. Fits(s, o.at, o.alias)
      BY <3>1 DEF Fits, PieceOf, PieceWith
    <3> QED
      BY <2>3, <3>2 DEF Alone
  <2> QED
    BY <2>2, <2>3
<1>3. Known(u, o.at, o.n)
  <2>1. CASE o.n \in NeedsLong
    BY <1>1, <2>1 DEF Known
  <2>2. CASE o.n \notin NeedsLong
    <3>1. o.n \notin Lossy
      BY <2>2, Constants
    <3>2. o.alias = Short[o.n]
      BY <3>1 DEF Made, Forms
    <3> QED
      BY <3>1, <3>2 DEF Known
  <2> QED
    BY <2>1, <2>2
<1> QED
  BY <1>1, <1>2, <1>3

LEMMA NewTable ==
    ASSUME NEW s, Table(s), NEW o, Made(s, o), o.n \in Names, o.at \in Places, o.left = 0,
           Alone(s, o), NEW u, Wrote(s, u, o.at, Entry(o.alias, o.n))
    PROVE  /\ Table(u) /\ Held(u) = Held(s) \cup {o.at} /\ o.at \notin Held(s)
           /\ Alike(s, u, o.at) /\ u[o.at].alias = o.alias /\ u[o.at].data = o.n /\ ~IsPiece(u, o.at)
           /\ \A i \in Held(s) : i # o.at /\ u[i] = s[i]
                              /\ \A m \in NeedsLong : Tied(u, i, m) <=> Tied(s, i, m)
           /\ o.n \in NeedsLong => Tied(u, o.at, o.n)
           /\ \A m \in NeedsLong : Tied(u, o.at, m) => m = o.n
           /\ Known(u, o.at, o.n)
<1>1. o.alias \in Aliases
  BY FormsAre DEF Made
<1>2. Shape(s)
  BY DEF Table
<1>3. /\ Shape(u) /\ Alike(s, u, o.at) /\ IsEntry(u, o.at) /\ ~IsPiece(u, o.at)
      /\ u[o.at].alias = o.alias /\ u[o.at].data = o.n /\ u[o.at] # EndMark
  <2>1. o.at \in Places /\ o.alias \in Aliases /\ Shape(s)
    BY <1>1, <1>2
  <2>2. Shape(u) /\ Alike(s, u, o.at) /\ Holds(u, o.at, Entry(o.alias, o.n))
    BY <2>1, EntryAfter, Zenon
  <2> QED
    BY <2>2, HoldsEntry
<1>4. IsFree(s, o.at)
  <2>1. o.at \in o.at .. o.at + o.left
    BY DEF Places
  <2> QED
    BY <2>1 DEF Made
<1>5. ~IsPiece(s, o.at) /\ ~IsEntry(s, o.at)
  BY <1>4, FreeIs
<1>6. Held(u) = Held(s) \cup {o.at} /\ o.at \notin Held(s)
  BY <1>3, <1>5 DEF Held, Alike, IsEntry
<1>7. ASSUME NEW i \in Held(s)
      PROVE  i # o.at /\ u[i] = s[i] /\ \A m \in NeedsLong : Tied(u, i, m) <=> Tied(s, i, m)
  <2>1. i # o.at /\ u[i] = s[i] /\ i \in Places
    BY <1>3, <1>6 DEF Held, Alike
  <2>2. ASSUME NEW m \in NeedsLong, Tied(s, i, m) PROVE Tied(u, i, m)
    BY <1>3, <1>5, <2>1, <2>2, TiesStay
  <2>3. Alike(u, s, o.at)
    BY <1>3 DEF Alike
  <2>4. ASSUME NEW m \in NeedsLong, Tied(u, i, m) PROVE Tied(s, i, m)
    BY <1>3, <2>1, <2>3, <2>4, TiesStay
  <2> QED
    BY <2>1, <2>2, <2>4
<1>8. Ends(u)
  BY <1>3, EndsAfter DEF Table, Made
<1>9. Whole(u)
  BY <1>3, WholeAfter DEF Table
<1>10. /\ o.n \in NeedsLong => Tied(u, o.at, o.n)
       /\ \A m \in NeedsLong : Tied(u, o.at, m) => m = o.n
       /\ Known(u, o.at, o.n)
  <2>1. o.at \in Held(u)
    BY <1>6
  <2> QED
    BY <1>3, <1>9, <2>1, NewTies
<1>11. Distinct(u)
  <2> SUFFICES ASSUME NEW i \in Held(u), NEW j \in Held(u)
               PROVE  /\ u[i].alias = u[j].alias => i = j
                      /\ \A n \in NeedsLong : Tied(u, i, n) /\ Tied(u, j, n) => i = j
                      /\ \A n \in NeedsLong : Tied(u, i, n) => u[i].alias \in Forms(n)
    BY DEF Distinct
  <2>1. CASE i \in Held(s) /\ j \in Held(s)
    BY <1>7, <2>1 DEF Table, Distinct
  <2>2. ASSUME NEW k \in Held(s)
        PROVE  /\ u[k].alias # o.alias
               /\ \A n \in NeedsLong : ~(Tied(u, k, n) /\ Tied(u, o.at, n))
    <3>1. s[k].alias # o.alias /\ ~Tied(s, k, o.n)
      BY DEF Made, Absent, Known
    <3>2. ~Tied(u, k, o.n) \/ o.n \notin NeedsLong
      BY <1>7, <3>1
    <3> QED
      BY <1>7, <1>10, <3>1, <3>2
  <2>3. \A n \in NeedsLong : Tied(u, o.at, n) => u[o.at].alias \in Forms(n)
    BY <1>3, <1>10 DEF Made
  <2>4. \A k \in Held(s), n \in NeedsLong : Tied(u, k, n) => u[k].alias \in Forms(n)
    BY <1>7 DEF Table, Distinct
  <2> QED
    BY <1>3, <1>6, <2>1, <2>2, <2>3, <2>4
<1> QED
  BY <1>3, <1>6, <1>7, <1>8, <1>9, <1>10, <1>11 DEF Table

LEMMA OldTable ==
    ASSUME NEW s, Table(s), NEW o, o.at \in Held(s), s[o.at].alias = o.alias, o.n \in Names,
           NEW u, Wrote(s, u, o.at, Entry(o.alias, o.n))
    PROVE  /\ Table(u) /\ Held(u) = Held(s) /\ Alike(s, u, o.at)
           /\ ~IsPiece(u, o.at) /\ u[o.at].alias = o.alias /\ u[o.at].data = o.n
           /\ \A i \in Held(s) : /\ u[i].alias = s[i].alias
                                 /\ \A m \in NeedsLong : Tied(u, i, m) <=> Tied(s, i, m)
<1>1. o.at \in Places /\ IsEntry(s, o.at) /\ Shape(s)
  BY DEF Held, Table
<1>2. o.alias \in Aliases
  BY <1>1, ItemIs DEF Shape, IsEntry
<1>3. /\ Shape(u) /\ Alike(s, u, o.at) /\ IsEntry(u, o.at) /\ ~IsPiece(u, o.at)
      /\ u[o.at].alias = o.alias /\ u[o.at].data = o.n /\ u[o.at] # EndMark
  <2>1. o.at \in Places /\ o.alias \in Aliases /\ Shape(s)
    BY <1>1, <1>2
  <2>2. Shape(u) /\ Alike(s, u, o.at) /\ Holds(u, o.at, Entry(o.alias, o.n))
    BY <2>1, EntryAfter, Zenon
  <2> QED
    BY <2>2, HoldsEntry
<1>4. ~IsPiece(s, o.at)
  BY <1>1 DEF IsEntry, IsPiece
<1>5. Held(u) = Held(s)
  BY <1>1, <1>3 DEF Held, Alike, IsEntry
<1>6. ASSUME NEW i \in Held(s)
      PROVE  u[i].alias = s[i].alias /\ \A m \in NeedsLong : Tied(u, i, m) <=> Tied(s, i, m)
  <2>1. u[i].alias = s[i].alias /\ i \in Places
    BY <1>3 DEF Held, Alike
  <2>2. ASSUME NEW m \in NeedsLong, Tied(s, i, m) PROVE Tied(u, i, m)
    BY <1>1, <1>3, <1>4, <2>1, <2>2, TiesStay
  <2>3. Alike(u, s, o.at)
    BY <1>3 DEF Alike
  <2>4. ASSUME NEW m \in NeedsLong, Tied(u, i, m) PROVE Tied(s, i, m)
    BY <1>1, <1>3, <2>1, <2>3, <2>4, TiesStay
  <2> QED
    BY <2>1, <2>2, <2>4
<1>7. Ends(u)
  <2>1. \A i \in 1 .. o.at - 1 : i \in Places /\ i <= o.at
    BY <1>1, Constants DEF Places
  <2>2. s[o.at] # EndMark
    BY <1>1 DEF IsEntry, EndMark
  <2>3. \A i \in 1 .. o.at - 1 : s[i] # EndMark
    BY <1>1, <2>1, <2>2 DEF Table, Ends
  <2> QED
    BY <1>1, <1>3, <2>3, EndsAfter DEF Table
<1>8. Whole(u)
  BY <1>1, <1>3, WholeAfter DEF Table
<1>9. Distinct(u)
  BY <1>5, <1>6, DistinctAfter DEF Table
<1> QED
  BY <1>3, <1>5, <1>6, <1>7, <1>8, <1>9 DEF Table

(***************************************************************************)
(* One entry less of an object that is removed.                            *)
(***************************************************************************)
LEMMA DeleteTable ==
    ASSUME NEW s, Table(s), NEW o, Removing(s, o), o.at \in Places, NEW u, Wrote(s, u, o.at, Deleted)
    PROVE  /\ Table(u) /\ Held(u) = Held(s) \ {o.at} /\ Alike(s, u, o.at) /\ ~IsPiece(u, o.at)
           /\ \A i \in Held(u) : /\ u[i] = s[i]
                                 /\ \A m \in NeedsLong : Tied(u, i, m) => Tied(s, i, m)
           /\ \A i \in Held(s) \ {o.last} : i # o.at /\ \A m \in NeedsLong : Tied(s, i, m) => Tied(u, i, m)
           /\ o.at # o.last => o.last \in Held(u) /\ \A m \in NeedsLong : ~Tied(u, o.last, m)
           /\ \A m \in NeedsLong : Tied(s, o.last, m) => o.at = o.last - Len(Text[m])
<1> DEFINE at == o.at
<1>1. /\ o.last \in Held(s) /\ o.last \in Places /\ at \in Places /\ at <= o.last
      /\ at \in Int /\ o.last \in Int /\ IsEntry(s, o.last)
      /\ \A m \in at .. o.last - 1 : IsPiece(s, m)
  BY DEF Removing, Held, Places
<1>2. Shape(u) /\ Alike(s, u, at) /\ u[at] = Deleted
  <2> DEFINE w == Deleted
  <2>1. Shape(s) /\ IsItem(w) /\ Wrote(s, u, at, w)
    BY ItemsWritten DEF Table
  <2> HIDE DEF w, at
  <2>2. Shape(u) /\ Alike(s, u, at) /\ Holds(u, at, w)
    BY <1>1, <2>1, ShapeAfter, Zenon
  <2> QED
    BY <2>2 DEF w, Holds
<1>3. ~IsPiece(u, at) /\ ~IsEntry(u, at) /\ u[at] # EndMark
  BY <1>2 DEF Deleted, IsPiece, IsEntry, EndMark
<1>4. Held(u) = Held(s) \ {at}
  BY <1>2, <1>3 DEF Held, Alike, IsEntry
<1>5. at # o.last => IsPiece(s, at) /\ at < o.last /\ o.last \in Held(u)
  <2>1. at # o.last => at < o.last /\ at \in at .. o.last - 1
    BY <1>1
  <2> QED
    BY <1>1, <1>4, <2>1
<1> HIDE DEF at
<1>6. ASSUME NEW i \in Held(u)
      PROVE  u[i] = s[i] /\ \A m \in NeedsLong : Tied(u, i, m) => Tied(s, i, m)
  <2>1. i # at /\ u[i] = s[i] /\ i \in Places
    BY <1>2, <1>4 DEF Held, Alike
  <2>2. Alike(u, s, at)
    BY <1>2 DEF Alike
  <2>3. ASSUME NEW m \in NeedsLong, Tied(u, i, m) PROVE Tied(s, i, m)
    BY <1>1, <1>3, <2>1, <2>2, <2>3, TiesStay
  <2> QED
    BY <2>1, <2>3
<1>7. ASSUME NEW i \in Held(s) \ {o.last}
      PROVE  i # at /\ \A m \in NeedsLong : Tied(s, i, m) => Tied(u, i, m)
  <2>1. i # at /\ u[i] = s[i] /\ i \in Places /\ i # o.last /\ IsEntry(s, i)
    <3>1. i # at
      BY <1>5, PieceIs DEF Held
    <3> QED
      BY <1>2, <3>1 DEF Held, Alike
  <2>2. ASSUME NEW m \in NeedsLong, Tied(s, i, m) PROVE Tied(u, i, m)
    <3> DEFINE L == Len(Text[m])
    <3>1. i \in Int /\ L \in Nat
      BY <2>1, Constants DEF Places
    <3>2. \A k \in i - L .. i - 1 : k \in Places /\ IsPiece(s, k)
      BY <2>1, <2>2, TiePieces
    <3> HIDE DEF L
    <3>3. o.last \notin i - L .. i - 1
      BY <1>1, <3>2, PieceIs
    <3>4. i \notin at .. o.last - 1
      BY <1>1, <2>1, PieceIs DEF at
    <3>5. at \notin i - L .. i - 1
      BY <1>1, <2>1, <3>1, <3>3, <3>4
    <3>6. \A k \in i - L .. i - 1 : u[k] = s[k]
      BY <1>2, <3>2, <3>5 DEF Alike
    <3> QED
      BY <2>1, <2>2, <3>6, TiesKeep DEF L
  <2> QED
    BY <2>1, <2>2
<1>8. ASSUME NEW m \in NeedsLong, Tied(s, o.last, m)
      PROVE  at = o.last - Len(Text[m]) /\ at < o.last
  <2> DEFINE L == Len(Text[m])
  <2>1. L \in Nat /\ L >= 1
    BY Constants
  <2>2. \A k \in o.last - L .. o.last - 1 : IsPiece(s, k) /\ (s[k].last <=> k = o.last - L)
    BY <1>1, <1>8, TiePieces
  <2>3. at < o.last /\ s[at].last /\ \A k \in at + 1 .. o.last - 1 : ~s[k].last
    BY <1>8 DEF Removing, at
  <2> HIDE DEF L
  <2>4. o.last - L \in o.last - L .. o.last - 1
    BY <1>1, <2>1
  <2>5. s[o.last - L].last
    BY <2>2, <2>4
  <2>6. o.last - L \notin at + 1 .. o.last - 1
    BY <2>3, <2>5
  <2>7. at >= o.last - L
    BY <1>1, <2>1, <2>6
  <2>8. at \in o.last - L .. o.last - 1
    BY <1>1, <2>1, <2>3, <2>7
  <2>9. at = o.last - L
    BY <2>2, <2>3, <2>8
  <2> QED
    BY <2>3, <2>9 DEF L
<1>9. ASSUME at # o.last, NEW m \in NeedsLong, Tied(u, o.last, m) PROVE FALSE
  <2> DEFINE L == Len(Text[m])
  <2>1. L \in Nat /\ L >= 1
    BY Constants
  <2>2. o.last - L \in o.last - L .. o.last - 1
    BY <1>1, <2>1
  <2>3. IsPiece(u, o.last - L)
    BY <1>1, <1>9, <2>2, TiePieces DEF L
  <2>4. Tied(s, o.last, m)
    BY <1>5, <1>6, <1>9
  <2>5. at = o.last - L
    BY <1>8, <2>4
  <2> QED
    BY <1>3, <2>3, <2>5
<1>10. Ends(u)
  <2>1. \A i \in 1 .. at - 1 : i \in Places /\ i <= o.last
    BY <1>1, Constants DEF Places
  <2>2. s[o.last] # EndMark
    BY <1>1 DEF IsEntry, EndMark
  <2>3. \A i \in 1 .. at - 1 : s[i] # EndMark
    BY <1>1, <2>1, <2>2 DEF Table, Ends
  <2> QED
    BY <1>1, <1>2, <1>3, <2>3, EndsAfter DEF Table
<1>11. Whole(u)
  BY <1>1, <1>2, <1>3, WholeAfter DEF Table
<1>12. Distinct(u)
  BY <1>4, <1>6, DistinctAfter DEF Table
<1> QED
  BY <1>2, <1>3, <1>4, <1>5, <1>6, <1>7, <1>8, <1>9, <1>10, <1>11, <1>12 DEF Table, at

(***************************************************************************)
(* The calls, step by step.                                                *)
(***************************************************************************)
LEMMA FieldsAre ==
    ASSUME NEW o, Control(o)
    PROVE  /\ o.call \in {"none", "open", "unlink"} /\ o.at \in Places /\ o.left \in Nat /\ o.last \in Places
           /\ o.n \in Names \cup {NoName} /\ o.alias \in Aliases \cup {<<>>}
           /\ o.pc \in {"idle", "find", "alloc", "put", "set", "delete", "sync"}
           /\ o.pc # "idle" => o.n \in Names /\ o.call \in {"open", "unlink"}
  BY DEF Control, OpType

LEMMA SameKnown ==
    ASSUME NEW s, NEW u, NEW i, u[i].alias = s[i].alias,
           \A m \in NeedsLong : Tied(u, i, m) <=> Tied(s, i, m), NEW n
    PROVE  Known(u, i, n) <=> Known(s, i, n)
  BY DEF Known, Tied

LEMMA FewerKnown ==
    ASSUME NEW s, NEW u, NEW i, u[i] = s[i],
           \A m \in NeedsLong : Tied(u, i, m) => Tied(s, i, m), NEW n, Known(u, i, n)
    PROVE  Known(s, i, n)
  BY DEF Known, Tied

PutMoves(o, p) ==
    p = [o EXCEPT !.at = o.at + 1, !.left = o.left - 1, !.pc = IF o.left = 1 THEN "set" ELSE "put"]

LEMMA PutMade ==
    ASSUME NEW s, NEW o, Table(s), Made(s, o), o.n \in Names, o.at \in Places,
           o.left \in Nat, o.left # 0,
           NEW u, Wrote(s, u, o.at, PieceOf(o.n, o.alias, o.left)),
           NEW p, p.n = o.n, p.alias = o.alias, p.at = o.at + 1, p.left = o.left - 1,
           p.pc = IF o.left = 1 THEN "set" ELSE "put"
    PROVE  Making(u, p) /\ Made(u, p)
<1>1. /\ Table(u) /\ Held(u) = Held(s) /\ o.n \in NeedsLong
      /\ Alike(s, u, o.at) /\ u[o.at] = PieceOf(o.n, o.alias, o.left)
      /\ \A i \in Held(s) : i # o.at /\ u[i] = s[i]
                         /\ \A m \in NeedsLong : Tied(u, i, m) <=> Tied(s, i, m)
  BY PutTable
<1>2. /\ o.at \in Int /\ o.at >= 1 /\ o.left \in Int /\ o.left >= 1 /\ Len(Text[o.n]) \in Nat
      /\ o.left <= Len(Text[o.n]) /\ o.at + o.left <= Slots /\ Slots \in Nat
  BY <1>1, Constants DEF Made, Places
<1>3. ASSUME NEW j \in p.at .. p.at + p.left PROVE IsFree(u, j)
  <2>1. j \in o.at .. o.at + o.left /\ j # o.at /\ j \in Places
    BY <1>2 DEF Places
  <2>2. IsFree(s, j)
    BY <2>1 DEF Made
  <2> QED
    BY <1>1, <2>1, <2>2 DEF Alike, IsFree
<1>4. Making(u, p)
  <2>1. p.at \in p.at .. p.at + p.left
    BY <1>2
  <2> QED
    BY <1>3, <2>1 DEF Making
<1>5. Absent(u, p.n) /\ \A i \in Held(u) : u[i].alias # p.alias
  BY <1>1, SameKnown DEF Made, Absent
<1>6. \A i \in 1 .. p.at - 1 : u[i] # EndMark
  <2> SUFFICES ASSUME NEW i \in 1 .. p.at - 1 PROVE u[i] # EndMark
    OBVIOUS
  <2>1. i \in Places
    BY <1>2 DEF Places
  <2>2. CASE i = o.at
    BY <1>1, <2>2, LastIs DEF EndMark
  <2>3. CASE i # o.at
    <3>1. i \in 1 .. o.at - 1
      BY <1>2, <2>3
    <3> QED
      BY <1>1, <2>1, <2>3, <3>1 DEF Made, Alike
  <2> QED
    BY <2>2, <2>3
<1>7. ASSUME NEW k \in p.left + 1 .. Len(Text[p.n])
      PROVE  /\ p.at + p.left - k \in Places
             /\ u[p.at + p.left - k] = PieceOf(p.n, p.alias, k)
  <2>1. k \in Int /\ p.at + p.left - k = o.at + o.left - k
    <3>1. k \in Int
      OBVIOUS
    <3>2. /\ p.at \in Int /\ p.left \in Int /\ o.at \in Int /\ o.left \in Int
          /\ p.at = o.at + 1 /\ p.left = o.left - 1
      BY <1>2
    <3> QED
      BY <3>1, <3>2
  <2>2. CASE k = o.left
    <3>1. o.at + o.left - k = o.at
      BY <1>2, <2>2
    <3> QED
      BY <1>1, <2>1, <2>2, <3>1
  <2>3. CASE k # o.left
    <3>1. k \in o.left + 1 .. Len(Text[o.n]) /\ o.at + o.left - k # o.at
      BY <1>2, <2>3
    <3>2. o.at + o.left - k \in Places /\ s[o.at + o.left - k] = PieceOf(o.n, o.alias, k)
      BY <1>1, <3>1 DEF Made
    <3>3. u[o.at + o.left - k] = s[o.at + o.left - k]
      BY <1>1, <3>1, <3>2 DEF Alike
    <3> QED
      BY <2>1, <3>2, <3>3
  <2> QED
    BY <2>2, <2>3
<1>8. /\ p.alias \in Forms(p.n) /\ p.at + p.left <= Slots /\ (p.pc = "set" <=> p.left = 0)
      /\ p.n \in NeedsLong /\ p.left <= Len(Text[p.n])
  BY <1>1, <1>2 DEF Made
<1> QED
  BY <1>3, <1>4, <1>5, <1>6, <1>7, <1>8 DEF Made

LEMMA PutCovers ==
    ASSUME NEW s, NEW o, Table(s), Made(s, o), o.n \in Names, o.at \in Places, o.pc = "put",
           o.left \in Nat, o.left # 0,
           NEW u, Wrote(s, u, o.at, PieceOf(o.n, o.alias, o.left)),
           NEW p, p.n = o.n, p.alias = o.alias, p.at = o.at + 1, p.left = o.left - 1,
           Making(u, p), Covered(s, o)
    PROVE  Covered(u, p)
<1>1. /\ Held(u) = Held(s) /\ Alike(s, u, o.at) /\ o.n \in NeedsLong
      /\ \A i \in Held(s) : \A m \in NeedsLong : Tied(u, i, m) <=> Tied(s, i, m)
  BY PutTable
<1>2. /\ o.at \in Int /\ o.left \in Int /\ Len(Text[o.n]) \in Nat /\ o.left <= Len(Text[o.n])
  BY <1>1, Constants DEF Made, Places
<1> SUFFICES ASSUME NEW i \in Places, IsPiece(u, i)
             PROVE  Owned(u, i) \/ (p.n \in NeedsLong /\ p.at + p.left - Len(Text[p.n]) <= i /\ i < p.at)
  BY DEF Covered
<1>3. i \in Int
  BY DEF Places
<1>4. CASE i = o.at
  BY <1>1, <1>2, <1>3, <1>4
<1>5. CASE i # o.at
  <2>1. IsPiece(s, i)
    BY <1>1, <1>5 DEF Alike, IsPiece
  <2>2. CASE Owned(s, i)
    BY <1>1, <2>2 DEF Owned
  <2>3. CASE o.at + o.left - Len(Text[o.n]) <= i /\ i < o.at
    BY <1>1, <1>2, <1>3, <2>3
  <2> QED
    BY <2>1, <2>2, <2>3 DEF Covered
<1> QED
  BY <1>4, <1>5

LEMMA PutStep ==
    ASSUME NEW s, NEW o, Table(s), Control(o), CallOK(s, o), o.pc = "put",
           NEW u, Wrote(s, u, o.at, PieceOf(o.n, o.alias, o.left)),
           NEW p, PutMoves(o, p)
    PROVE  Table(u) /\ Control(p) /\ CallOK(u, p) /\ (Covered(s, o) => Covered(u, p))
<1>1. /\ o \in OpType /\ o.n \in Names /\ o.at \in Places /\ o.left \in Nat /\ o.call = "open"
      /\ o.alias # <<>>
  BY FieldsAre DEF Control
<1>2. Making(s, o) /\ Made(s, o)
  BY DEF CallOK
<1>3. o.left # 0
  BY <1>2 DEF Made
<1>4. /\ p.n = o.n /\ p.alias = o.alias /\ p.at = o.at + 1 /\ p.left = o.left - 1
      /\ p.pc = (IF o.left = 1 THEN "set" ELSE "put") /\ p.call = o.call /\ p.last = o.last
  BY <1>1 DEF OpType, PutMoves
<1>5. Table(u)
  BY <1>1, <1>2, <1>3, PutTable
<1>6. Making(u, p) /\ Made(u, p)
  BY <1>1, <1>2, <1>3, <1>4, PutMade
<1>7. Control(p)
  <2>1. o.at + 1 \in Places /\ o.left - 1 \in Nat
    BY <1>1, <1>2, <1>3, Constants DEF Made, Places
  <2>2. p \in OpType
    BY <1>1, <2>1 DEF OpType, PutMoves
  <2> QED
    BY <1>1, <1>4, <2>2 DEF Control
<1>8. CallOK(u, p)
  BY <1>1, <1>4, <1>6 DEF CallOK
<1>9. Covered(s, o) => Covered(u, p)
  BY <1>1, <1>2, <1>3, <1>4, <1>6, PutCovers
<1> QED
  BY <1>5, <1>7, <1>8, <1>9

GoMoves(o, p, pc) == p = [o EXCEPT !.pc = pc]

LEMMA GoIs ==
    ASSUME NEW o, Control(o), NEW pc \in {"alloc", "sync"}, NEW p, GoMoves(o, p, pc),
           o.call = "open" \/ pc = "sync", o.call # "none", o.alias = <<>> <=> pc = "alloc"
    PROVE  /\ Control(p) /\ p.pc = pc /\ p.call = o.call /\ p.n = o.n /\ p.alias = o.alias
           /\ p.at = o.at /\ p.last = o.last /\ p.left = o.left
<1>1. o \in OpType
  BY DEF Control
<1>2. /\ p.pc = pc /\ p.call = o.call /\ p.n = o.n /\ p.alias = o.alias
      /\ p.at = o.at /\ p.last = o.last /\ p.left = o.left /\ p \in OpType
  BY <1>1 DEF OpType, GoMoves
<1> QED
  BY <1>2 DEF Control

LEMMA SetNew ==
    ASSUME NEW s, NEW o, Table(s), Control(o), CallOK(s, o), o.pc = "set", Making(s, o),
           Alone(s, o), NEW u, Wrote(s, u, o.at, Entry(o.alias, o.n)),
           NEW p, GoMoves(o, p, "sync")
    PROVE  Table(u) /\ CallOK(u, p) /\ (Covered(s, o) => Covered(u, p))
<1>1. /\ o.n \in Names /\ o.at \in Places /\ o.call = "open" /\ o.alias # <<>> /\ o.left \in Nat
  BY FieldsAre DEF Control
<1>2. Made(s, o) /\ o.left = 0
  BY DEF CallOK, Made
<1>3. p.pc = "sync" /\ p.call = "open" /\ p.n = o.n /\ p.alias = o.alias
  BY <1>1, GoIs
<1>4. /\ Table(u) /\ Held(u) = Held(s) \cup {o.at}
      /\ Alike(s, u, o.at) /\ u[o.at].alias = o.alias /\ u[o.at].data = o.n /\ ~IsPiece(u, o.at)
      /\ \A i \in Held(s) : \A m \in NeedsLong : Tied(u, i, m) <=> Tied(s, i, m)
      /\ o.n \in NeedsLong => Tied(u, o.at, o.n)
      /\ Known(u, o.at, o.n)
  BY <1>1, <1>2, NewTable
<1>5. CallOK(u, p)
  <2>1. \E i \in Held(u) : u[i].alias = p.alias /\ u[i].data = p.n /\ Known(u, i, p.n)
    BY <1>3, <1>4
  <2> QED
    BY <1>3, <2>1 DEF CallOK, Making
<1>6. ASSUME Covered(s, o), NEW i \in Places, IsPiece(u, i)
      PROVE  Owned(u, i)
  <2>1. IsPiece(s, i) /\ i \in Int /\ o.at \in Int
    BY <1>1, <1>4, <1>6 DEF Alike, IsPiece, Places
  <2>2. CASE Owned(s, i)
    BY <1>4, <2>2 DEF Owned
  <2>3. CASE o.n \in NeedsLong /\ o.at + o.left - Len(Text[o.n]) <= i /\ i < o.at
    <3>1. o.at - Len(Text[o.n]) <= i
      BY <1>1, <1>2, <2>1, <2>3, Constants
    <3> QED
      BY <1>4, <2>3, <3>1 DEF Owned
  <2> QED
    BY <1>6, <2>1, <2>2, <2>3 DEF Covered
<1> QED
  BY <1>4, <1>5, <1>6 DEF Covered

LEMMA SetOld ==
    ASSUME NEW s, NEW o, Table(s), Control(o), CallOK(s, o), o.pc = "set", ~Making(s, o),
           NEW u, Wrote(s, u, o.at, Entry(o.alias, o.n)),
           NEW p, GoMoves(o, p, "sync")
    PROVE  Table(u) /\ CallOK(u, p) /\ (Covered(s, o) => Covered(u, p))
<1>1. /\ o.n \in Names /\ o.at \in Held(s) /\ s[o.at].alias = o.alias /\ o.call = "open" /\ o.alias # <<>>
      /\ Known(s, o.at, o.n)
  BY FieldsAre DEF Control, CallOK
<1>2. p.pc = "sync" /\ p.call = "open" /\ p.n = o.n /\ p.alias = o.alias
  BY <1>1, GoIs
<1>3. /\ Table(u) /\ Held(u) = Held(s) /\ Alike(s, u, o.at)
      /\ ~IsPiece(u, o.at) /\ u[o.at].alias = o.alias /\ u[o.at].data = o.n
      /\ \A i \in Held(s) : /\ u[i].alias = s[i].alias
                            /\ \A m \in NeedsLong : Tied(u, i, m) <=> Tied(s, i, m)
  BY <1>1, OldTable
<1>4. Known(u, o.at, o.n)
  BY <1>1, <1>3, SameKnown
<1>5. CallOK(u, p)
  <2>1. \E i \in Held(u) : u[i].alias = p.alias /\ u[i].data = p.n /\ Known(u, i, p.n)
    BY <1>1, <1>2, <1>3, <1>4
  <2> QED
    BY <1>2, <2>1 DEF CallOK, Making
<1>6. ASSUME Covered(s, o), NEW i \in Places, IsPiece(u, i)
      PROVE  Owned(u, i)
  <2>1. IsPiece(s, i)
    BY <1>3, <1>6 DEF Alike, IsPiece
  <2>2. Owned(s, i)
    BY <1>6, <2>1 DEF Covered
  <2> QED
    BY <1>3, <2>2 DEF Owned
<1> QED
  BY <1>3, <1>5, <1>6 DEF Covered

LEMMA SetStep ==
    ASSUME NEW s, NEW o, Table(s), Control(o), CallOK(s, o), o.pc = "set",
           Making(s, o) => Alone(s, o), NEW u, Wrote(s, u, o.at, Entry(o.alias, o.n)),
           NEW p, GoMoves(o, p, "sync")
    PROVE  Table(u) /\ Control(p) /\ CallOK(u, p) /\ (Covered(s, o) => Covered(u, p))
<1>1. o.call = "open" /\ o.alias # <<>>
  BY DEF Control
<1>2. Control(p)
  BY <1>1, GoIs
<1>3. Table(u) /\ CallOK(u, p) /\ (Covered(s, o) => Covered(u, p))
  BY SetNew, SetOld
<1> QED
  BY <1>2, <1>3

DeleteMoves(o, p) ==
    IF o.at < o.last THEN p = [o EXCEPT !.at = o.at + 1] ELSE GoMoves(o, p, "sync")

LEMMA DeleteMiddle ==
    ASSUME NEW s, NEW o, Table(s), Control(o), Removing(s, o), o.pc = "delete", o.at < o.last,
           NEW u, Wrote(s, u, o.at, Deleted),
           NEW p, p.pc = "delete", p.at = o.at + 1, p.last = o.last, p.n = o.n, p.alias = o.alias
    PROVE  Removing(u, p)
<1>1. o.at \in Places /\ o.last \in Places /\ o.at \in Int /\ o.last \in Int /\ o.last <= Slots /\ Slots \in Nat
      /\ o.at >= 1
  BY FieldsAre, Constants DEF Places
<1>2. /\ Held(u) = Held(s) \ {o.at} /\ Alike(s, u, o.at)
      /\ \A i \in Held(u) : u[i] = s[i] /\ \A m \in NeedsLong : Tied(u, i, m) => Tied(s, i, m)
      /\ o.last \in Held(u) /\ \A m \in NeedsLong : ~Tied(u, o.last, m)
  BY <1>1, DeleteTable
<1>3. ASSUME NEW m \in o.at + 1 .. o.last - 1 PROVE IsPiece(u, m) /\ ~u[m].last
  <2>1. m \in Places /\ m # o.at /\ m \in o.at .. o.last - 1
    BY <1>1 DEF Places
  <2>2. u[m] = s[m]
    BY <1>2, <2>1 DEF Alike
  <2> QED
    BY <2>1, <2>2 DEF Removing, IsPiece
<1>4. \A m \in p.at + 1 .. p.last - 1 : m \in o.at + 1 .. o.last - 1
  BY <1>1
<1>5. \A i \in Held(u) : Known(u, i, p.n) => i = p.last
  BY <1>2, FewerKnown DEF Removing
<1>6. p.last \in Held(u) /\ u[p.last].alias = p.alias /\ p.at <= p.last
  BY <1>1, <1>2 DEF Removing
<1>7. \A m \in p.at .. p.last - 1 : IsPiece(u, m)
  BY <1>3
<1> QED
  BY <1>2, <1>3, <1>4, <1>5, <1>6, <1>7 DEF Removing

LEMMA DeleteCovers ==
    ASSUME NEW s, NEW o, Table(s), Control(o), Removing(s, o), o.pc = "delete",
           NEW u, Wrote(s, u, o.at, Deleted), Covered(s, o), NEW i \in Places, IsPiece(u, i)
    PROVE  Owned(u, i) \/ (o.at + 1 <= i /\ i < o.last)
<1>1. o.at \in Places /\ o.last \in Places /\ o.at \in Int /\ i \in Int
  BY FieldsAre DEF Places
<1>2. /\ Alike(s, u, o.at) /\ ~IsPiece(u, o.at) /\ Held(u) = Held(s) \ {o.at}
      /\ \A j \in Held(s) \ {o.last} : j # o.at /\ \A m \in NeedsLong : Tied(s, j, m) => Tied(u, j, m)
      /\ \A m \in NeedsLong : Tied(s, o.last, m) => o.at = o.last - Len(Text[m])
  BY <1>1, DeleteTable
<1>3. i # o.at /\ IsPiece(s, i)
  BY <1>2 DEF Alike, IsPiece
<1>4. CASE Owned(s, i)
  <2>1. PICK j \in Held(s), m \in NeedsLong : Tied(s, j, m) /\ j - Len(Text[m]) <= i /\ i < j
    BY <1>4 DEF Owned
  <2>2. CASE j = o.last
    BY <1>1, <1>2, <1>3, <2>1, <2>2
  <2>3. CASE j # o.last
    <3>1. j \in Held(u) /\ Tied(u, j, m)
      BY <1>2, <2>1, <2>3
    <3> QED
      BY <2>1, <3>1 DEF Owned
  <2> QED
    BY <2>2, <2>3
<1>5. CASE o.at <= i /\ i < o.last
  BY <1>1, <1>3, <1>5
<1> QED
  BY <1>3, <1>4, <1>5 DEF Covered, Making

LEMMA DeleteStep ==
    ASSUME NEW s, NEW o, Table(s), Control(o), CallOK(s, o), o.pc = "delete",
           NEW u, Wrote(s, u, o.at, Deleted),
           NEW p, DeleteMoves(o, p)
    PROVE  Table(u) /\ Control(p) /\ CallOK(u, p) /\ (Covered(s, o) => Covered(u, p))
<1>1. /\ o \in OpType /\ o.at \in Places /\ o.last \in Places /\ o.at \in Int /\ o.last \in Int
      /\ o.last <= Slots /\ Slots \in Nat /\ o.at >= 1 /\ o.call = "unlink" /\ o.alias # <<>>
  BY FieldsAre, Constants DEF Places, Control
<1>2. Removing(s, o)
  BY DEF CallOK
<1>3. Table(u)
  BY <1>1, <1>2, DeleteTable
<1>4. CASE o.at < o.last
  <2>1. p = [o EXCEPT !.at = o.at + 1] /\ o.at + 1 \in Places
    BY <1>1, <1>4 DEF DeleteMoves, Places
  <2>2. /\ p.pc = "delete" /\ p.at = o.at + 1 /\ p.last = o.last /\ p.n = o.n /\ p.alias = o.alias
        /\ p.call = o.call /\ p \in OpType
    BY <1>1, <2>1 DEF OpType
  <2>3. Control(p)
    BY <1>1, <2>2 DEF Control
  <2>4. Removing(u, p)
    BY <1>2, <1>4, <2>2, DeleteMiddle
  <2>5. CallOK(u, p)
    BY <2>2, <2>4 DEF CallOK, Making
  <2>6. Covered(s, o) => Covered(u, p)
    BY <1>2, <2>2, DeleteCovers DEF Covered
  <2> QED
    BY <1>3, <2>3, <2>5, <2>6
<1>5. CASE ~(o.at < o.last)
  <2>1. o.at = o.last
    BY <1>1, <1>2, <1>5 DEF Removing
  <2>2. GoMoves(o, p, "sync")
    BY <1>5 DEF DeleteMoves
  <2>3. Control(p) /\ p.pc = "sync" /\ p.call = "unlink" /\ p.n = o.n
    BY <1>1, <2>2, GoIs
  <2>4. Absent(u, p.n)
    <3>1. /\ Held(u) = Held(s) \ {o.at}
          /\ \A i \in Held(u) : u[i] = s[i] /\ \A m \in NeedsLong : Tied(u, i, m) => Tied(s, i, m)
      BY <1>1, <1>2, DeleteTable
    <3>2. \A i \in Held(u) : Known(u, i, o.n) => i = o.last
      BY <1>2, <3>1, FewerKnown DEF Removing
    <3> QED
      BY <2>1, <2>3, <3>1, <3>2 DEF Absent
  <2>5. CallOK(u, p)
    BY <2>3, <2>4 DEF CallOK, Making
  <2>6. ASSUME Covered(s, o), NEW i \in Places, IsPiece(u, i) PROVE Owned(u, i)
    <3>1. ~(o.at + 1 <= i /\ i < o.last)
      BY <1>1, <2>1 DEF Places
    <3> QED
      BY <1>2, <2>6, <3>1, DeleteCovers
  <2> QED
    BY <1>3, <2>3, <2>5, <2>6 DEF Covered
<1> QED
  BY <1>4, <1>5

LEMMA CoversAny ==
    ASSUME NEW s, NEW o, Covered(s, o), o.pc \notin {"put", "set", "delete"}, NEW p
    PROVE  Covered(s, p)
  BY DEF Covered, Making

FindMoves(s, o, i, p) ==
    p = [o EXCEPT !.alias = s[i].alias, !.last = i,
                  !.pc = IF o.call = "open" THEN "set" ELSE "delete",
                  !.at = IF o.call = "open" THEN i ELSE BlkOfs(s, i)]

LEMMA BlkOfsIs ==
    ASSUME NEW s, NEW i \in Places
    PROVE  /\ BlkOfs(s, i) \in Places /\ BlkOfs(s, i) <= i
           /\ \A m \in BlkOfs(s, i) .. i - 1 : IsPiece(s, m)
           /\ \A m \in BlkOfs(s, i) + 1 .. i - 1 : ~s[m].last
           /\ (\A n \in NeedsLong : ~Tied(s, i, n)) \/ (BlkOfs(s, i) < i /\ s[BlkOfs(s, i)].last)
<1>1. i \in Int /\ 1 <= i /\ i <= Slots /\ Slots \in Nat
  BY Constants DEF Places
<1>2. CASE Starts(s, i) = {}
  <2>1. BlkOfs(s, i) = i
    BY <1>2 DEF BlkOfs
  <2>2. \A n \in NeedsLong : ~Tied(s, i, n)
    BY <1>2, TiedStarts
  <2> QED
    BY <1>1, <2>1, <2>2
<1>3. CASE Starts(s, i) # {}
  <2> DEFINE b == BlkOfs(s, i)
  <2>1. b \in Starts(s, i)
    BY <1>3 DEF BlkOfs
  <2> HIDE DEF b
  <2>2. b \in 1 .. i - 1 /\ IsPiece(s, b) /\ s[b].last
        /\ \A m \in b + 1 .. i - 1 : IsPiece(s, m) /\ ~s[m].last
    BY <2>1 DEF Starts, IsPiece
  <2>3. b \in Places /\ b < i
    BY <1>1, <2>2 DEF Places
  <2>4. \A m \in b .. i - 1 : m = b \/ m \in b + 1 .. i - 1
    BY <1>1, <2>2
  <2>5. \A m \in b .. i - 1 : IsPiece(s, m)
    BY <2>2, <2>4
  <2>6. b <= i
    BY <1>1, <2>2
  <2> QED
    BY <2>2, <2>3, <2>5, <2>6 DEF b
<1> QED
  BY <1>2, <1>3

LEMMA FindStep ==
    ASSUME NEW s, NEW o, Table(s), Control(o), CallOK(s, o), o.pc = "find",
           NEW i \in Find(s, o.n), NEW p, FindMoves(s, o, i, p)
    PROVE  Control(p) /\ CallOK(s, p) /\ (Covered(s, o) => Covered(s, p))
<1>1. o \in OpType /\ o.n \in Names /\ o.call \in {"open", "unlink"} /\ o.alias = <<>>
  BY FieldsAre DEF Control
<1>2. i \in Held(s) /\ Known(s, i, o.n) /\ i \in Places /\ IsEntry(s, i)
  BY <1>1, FindIs DEF Held
<1>3. \A j \in Held(s) : Known(s, j, o.n) => j = i
  BY <1>1, <1>2, OneKnown
<1>4. s[i].alias \in Aliases /\ s[i].alias # <<>>
  <2>1. s[i].alias \in Aliases
    BY <1>2, ItemIs DEF Table, Shape, IsEntry
  <2>2. <<>> \notin Aliases
    BY AliasAssumption DEF Aliases
  <2> QED
    BY <2>1, <2>2
<1>5. BlkOfs(s, i) \in Places
  BY <1>2, BlkOfsIs
<1> DEFINE b == BlkOfs(s, i)
           al == s[i].alias
<1> HIDE DEF b, al
<1>6. p = [o EXCEPT !.alias = al, !.last = i, !.pc = IF o.call = "open" THEN "set" ELSE "delete",
                    !.at = IF o.call = "open" THEN i ELSE b]
  BY Zenon DEF FindMoves, b, al
<1>7. /\ p \in OpType /\ p.n = o.n /\ p.call = o.call /\ p.alias = al /\ p.last = i
      /\ p.pc = (IF o.call = "open" THEN "set" ELSE "delete")
      /\ p.at = (IF o.call = "open" THEN i ELSE b)
  BY <1>1, <1>2, <1>4, <1>5, <1>6 DEF OpType, b, al
<1>8. Control(p)
  BY <1>1, <1>4, <1>7 DEF Control, al
<1>9. CASE o.call = "open"
  <2>1. ~Making(s, p)
    BY <1>2, <1>7, <1>9, FreeIs DEF Making
  <2>2. CallOK(s, p)
    BY <1>2, <1>7, <1>9, <2>1 DEF CallOK, al
  <2> QED
    BY <1>8, <2>2, CoversAny
<1>10. CASE o.call = "unlink"
  <2>1. p.pc = "delete" /\ p.at = b
    BY <1>7, <1>10
  <2>2. /\ b <= i
        /\ \A m \in b .. i - 1 : IsPiece(s, m)
        /\ \A m \in b + 1 .. i - 1 : ~s[m].last
        /\ (\A n \in NeedsLong : ~Tied(s, i, n)) \/ (b < i /\ s[b].last)
    BY <1>2, BlkOfsIs DEF b
  <2>3. Removing(s, p)
    BY <1>2, <1>3, <1>7, <2>1, <2>2 DEF Removing, al
  <2>4. CallOK(s, p)
    BY <2>1, <2>3 DEF CallOK, Making
  <2> QED
    BY <1>8, <2>4, CoversAny
<1> QED
  BY <1>1, <1>9, <1>10

AllocMoves(o, a, i, p) ==
    p = [o EXCEPT !.alias = a, !.at = i, !.left = Need(o.n) - 1,
                  !.pc = IF Need(o.n) = 1 THEN "set" ELSE "put"]

LEMMA AliasIs ==
    ASSUME NEW s, Table(s), NEW n \in Names, Absent(s, n), NEW a \in AliasFor(s, n)
    PROVE  a \in Forms(n) /\ \A i \in Held(s) : s[i].alias # a
<1>1. CASE n \in Lossy
  <2>1. PICK k \in First({k \in 1 .. MaxNumber : ~Taken(s, Numbered(n, k))}) : a = Numbered(n, k)
    BY <1>1 DEF AliasFor
  <2>2. k \in 1 .. MaxNumber /\ ~Taken(s, a)
    BY <2>1 DEF First
  <2>3. a \in Forms(n)
    BY <1>1, <2>1, <2>2 DEF Forms
  <2>4. \A i \in Held(s) : i \in Live(s) /\ IsEntry(s, i)
    BY LiveEntries DEF Table
  <2> QED
    BY <2>2, <2>3, <2>4 DEF Taken
<1>2. CASE n \notin Lossy
  <2>1. a = Short[n] /\ a \in Forms(n)
    BY <1>2 DEF AliasFor, Forms
  <2> QED
    BY <1>2, <2>1 DEF Absent, Known
<1> QED
  BY <1>1, <1>2

LEMMA RoomIs ==
    ASSUME NEW s, Table(s), NEW n \in Names, NEW i \in Room(s, n)
    PROVE  /\ i \in Places /\ Need(n) \in Nat /\ Need(n) >= 1 /\ i + Need(n) - 1 <= Slots
           /\ \A j \in i .. i + Need(n) - 1 : IsFree(s, j)
           /\ \A j \in 1 .. i - 1 : s[j] # EndMark
<1> DEFINE N == Need(n)
           R == {k \in Places : k + N - 1 <= Slots /\ \A j \in k .. k + N - 1 : IsFree(s, j)}
<1>1. N \in Nat /\ N >= 1
  BY Constants DEF Need
<1>2. i \in R /\ \A j \in R : i <= j
  BY DEF Room, First
<1>3. i \in Int /\ 1 <= i /\ i <= Slots /\ Slots \in Nat
  BY <1>2, Constants DEF Places
<1> HIDE DEF N
<1>4. ASSUME NEW j \in 1 .. i - 1, s[j] = EndMark PROVE FALSE
  <2>1. j \in Places /\ j \in Int /\ j < i /\ j + N - 1 <= Slots
    BY <1>1, <1>2, <1>3 DEF Places
  <2>2. ASSUME NEW k \in j .. j + N - 1 PROVE IsFree(s, k)
    <3>1. k \in Places /\ j <= k
      BY <1>1, <1>3, <2>1 DEF Places
    <3>2. s[k] = EndMark
      BY <1>4, <2>1, <3>1 DEF Table, Ends
    <3> QED
      BY <3>2 DEF IsFree, EndMark
  <2>3. j \in R
    BY <2>1, <2>2
  <2> QED
    BY <1>2, <1>3, <2>1, <2>3
<1> QED
  BY <1>1, <1>2, <1>4 DEF N

LEMMA AllocStep ==
    ASSUME NEW s, NEW o, Table(s), Control(o), CallOK(s, o), o.pc = "alloc",
           NEW a \in AliasFor(s, o.n), NEW i \in Room(s, o.n), NEW p, AllocMoves(o, a, i, p)
    PROVE  /\ Control(p) /\ CallOK(s, p) /\ (Covered(s, o) => Covered(s, p))
           /\ a \in Forms(o.n) /\ \A j \in Held(s) : s[j].alias # a
<1>1. /\ o \in OpType /\ o.n \in Names /\ o.call = "open" /\ o.alias = <<>>
      /\ Absent(s, o.n)
  BY FieldsAre DEF Control, CallOK
<1>2. a \in Forms(o.n) /\ \A j \in Held(s) : s[j].alias # a
  BY <1>1, AliasIs
<1>3. a \in Aliases /\ a # <<>>
  BY <1>1, <1>2, FormsAre, AliasAssumption
<1> DEFINE N == Need(o.n)
<1>4. /\ i \in Places /\ N \in Nat /\ N >= 1 /\ i + N - 1 <= Slots
      /\ \A j \in i .. i + N - 1 : IsFree(s, j)
      /\ \A j \in 1 .. i - 1 : s[j] # EndMark
  BY <1>1, RoomIs
<1>5. N = IF o.n \in NeedsLong THEN Len(Text[o.n]) + 1 ELSE 1
  BY DEF Need
<1> HIDE DEF N
<1>6. p = [o EXCEPT !.alias = a, !.at = i, !.left = N - 1, !.pc = IF N = 1 THEN "set" ELSE "put"]
  BY DEF AllocMoves, N
<1>7. /\ p \in OpType /\ p.n = o.n /\ p.call = "open" /\ p.alias = a /\ p.at = i /\ p.left = N - 1
      /\ p.pc = (IF N = 1 THEN "set" ELSE "put")
  <2> DEFINE left == N - 1
             pc == IF N = 1 THEN "set" ELSE "put"
  <2>1. left \in Nat /\ pc \in {"set", "put"}
    BY <1>4
  <2>2. p = [o EXCEPT !.alias = a, !.at = i, !.left = left, !.pc = pc]
    BY <1>6
  <2> HIDE DEF left, pc
  <2>3. /\ p \in OpType /\ p.n = o.n /\ p.call = "open" /\ p.alias = a /\ p.at = i /\ p.left = left
        /\ p.pc = pc
    BY <1>1, <1>3, <1>4, <2>1, <2>2 DEF OpType
  <2> QED
    BY <2>3 DEF left, pc
<1>8. Control(p)
  BY <1>1, <1>3, <1>7 DEF Control
<1>9. Made(s, p)
  <2>1. i \in Int /\ Slots \in Nat /\ Len(Text[o.n]) \in Nat
    BY <1>1, <1>4, Constants DEF Places
  <2>2. p.at + p.left = i + N - 1 /\ (p.pc = "set" <=> p.left = 0) /\ p.at + p.left <= Slots
    BY <1>4, <1>7, <2>1
  <2>3. \A j \in p.at .. p.at + p.left : IsFree(s, j)
    BY <1>4, <1>7, <2>2
  <2>4. p.n \notin NeedsLong => p.left = 0
    BY <1>5, <1>7
  <2>5. p.n \in NeedsLong => p.left = Len(Text[o.n])
    BY <1>5, <1>7, <2>1
  <2>6. p.n \in NeedsLong => p.left <= Len(Text[p.n]) /\ p.left + 1 .. Len(Text[p.n]) = {}
    BY <1>7, <2>1, <2>5
  <2> QED
    BY <1>1, <1>2, <1>4, <1>7, <2>2, <2>3, <2>4, <2>6 DEF Made
<1>10. Making(s, p)
  <2>1. i \in i .. i + N - 1
    BY <1>4 DEF Places
  <2> QED
    BY <1>4, <1>7, <2>1 DEF Making
<1>11. CallOK(s, p)
  BY <1>7, <1>9, <1>10 DEF CallOK
<1> QED
  BY <1>2, <1>8, <1>11, CoversAny

(***************************************************************************)
(* The steps of Next keep the invariant.                                   *)
(***************************************************************************)
LEMMA SectorIs == ASSUME NEW i \in Places PROVE SectorOf(i) # None
<1>1. i - 1 \in Nat /\ PerSector \in Nat \ {0}
  BY NameAssumption DEF Places
<1> DEFINE d == i - 1
<1>2. d \in Nat
  BY <1>1
<1> HIDE DEF d
<1>3. d \div PerSector \in Nat
  BY <1>1, <1>2, SMTT(30)
<1>4. SectorOf(i) = d \div PerSector + 1
  BY DEF SectorOf, d
<1> QED
  BY <1>3, <1>4 DEF None

LEMMA NoOpIs == ASSUME NEW s PROVE Control(NoOp) /\ CallOK(s, NoOp)
<1>1. /\ NoOp.call = "none" /\ NoOp.pc = "idle" /\ NoOp.alias = <<>> /\ NoOp.n = NoName
      /\ NoOp.at = 1 /\ NoOp.last = 1 /\ NoOp.left = 0
  BY DEF NoOp
<1>2. 1 \in Places
  BY Constants DEF Places
<1>3. NoOp \in OpType
  BY <1>2 DEF NoOp, OpType
<1>4. Control(NoOp)
  BY <1>1, <1>3 DEF Control
<1>5. CallOK(s, NoOp)
  BY <1>1 DEF CallOK, Making
<1> QED
  BY <1>4, <1>5

LEMMA InitKeeps == Init => IInv
<1> SUFFICES ASSUME Init PROVE IInv
  OBVIOUS
<1>1. \A i \in Places : slots[i] = EndMark
  BY DEF Init
<1>2. Shape(slots)
  <2>1. slots = [i \in Places |-> slots[i]]
    BY DEF Init
  <2> QED
    BY <1>1, <2>1 DEF Shape, IsItem
<1>3. Held(slots) = {} /\ \A i \in Places : ~IsPiece(slots, i)
  BY <1>1 DEF Held, IsEntry, IsPiece, EndMark
<1>4. Table(slots)
  BY <1>1, <1>2, <1>3 DEF Table, Ends, Whole, Distinct
<1>5. slots = disk /\ op = NoOp /\ mishaps = 0
  BY DEF Init
<1>6. Covered(slots, op)
  BY <1>3 DEF Covered
<1> QED
  BY <1>4, <1>5, <1>6, NoOpIs DEF IInv

LEMMA EndKeeps ==
    ASSUME IInv, slots' = slots, disk' = disk, win' = win, op' = NoOp,
           \/ mishaps' = mishaps /\ op.pc \notin {"put", "set", "delete"}
           \/ mishaps' = mishaps + 1
    PROVE  IInv'
<1>1. Table(slots') /\ Table(disk') /\ (win' = None => slots' = disk')
  BY DEF IInv
<1>2. Control(op') /\ CallOK(slots', op')
  BY NoOpIs
<1>3. mishaps' \in Nat /\ (mishaps' = 0 => mishaps = 0 /\ op.pc \notin {"put", "set", "delete"})
  BY DEF IInv
<1>4. ASSUME mishaps' = 0 PROVE Covered(slots', op')
  BY <1>3, <1>4, CoversAny DEF IInv
<1> QED
  BY <1>1, <1>2, <1>3, <1>4 DEF IInv

\* A step of a call that writes nothing, or one slot in the window.
LEMMA ReadKeeps ==
    ASSUME IInv, slots' = slots, disk' = disk, win' = win, mishaps' = mishaps,
           Control(op'), CallOK(slots, op'), Covered(slots, op) => Covered(slots, op')
    PROVE  IInv'
  BY DEF IInv

LEMMA WriteKeeps ==
    ASSUME IInv, disk' = disk, win' # None, mishaps' = mishaps,
           Table(slots'), Control(op'), CallOK(slots', op'),
           Covered(slots, op) => Covered(slots', op')
    PROVE  IInv'
  BY DEF IInv

LEMMA BeginKeeps ==
    ASSUME IInv, NEW call \in {"open", "unlink"}, NEW n \in Names, Begin(call, n)
    PROVE  IInv'
<1>1. op = NoOp /\ slots' = slots /\ disk' = disk /\ win' = win /\ mishaps' = mishaps /\ op' = Op(call, n)
  BY DEF Begin
<1> DEFINE p == Op(call, n)
<1>2. /\ p.call = call /\ p.n = n /\ p.pc = "find" /\ p.alias = <<>> /\ p \in OpType
  <2>1. 1 \in Places
    BY Constants DEF Places
  <2> QED
    BY <2>1 DEF Op, OpType
<1> HIDE DEF p
<1>3. Control(p)
  BY <1>2 DEF Control
<1>5. CallOK(slots, p)
  BY <1>2 DEF CallOK, Making
<1>6. op.pc = "idle"
  BY <1>1 DEF NoOp
<1>7. Covered(slots, op) => Covered(slots, p)
  BY <1>6, CoversAny
<1> QED
  BY <1>1, <1>3, <1>5, <1>7, ReadKeeps DEF p

LEMMA FindKeeps == ASSUME IInv, FindIt PROVE IInv'
<1>1. op.pc = "find" /\ slots' = slots /\ disk' = disk /\ win' = win /\ mishaps' = mishaps
  BY DEF FindIt, At
<1>2. Table(slots) /\ Control(op) /\ CallOK(slots, op)
  BY DEF IInv
<1>3. CASE \E i \in Find(slots, op.n) : FindMoves(slots, op, i, op')
  <2>1. PICK i \in Find(slots, op.n) : FindMoves(slots, op, i, op')
    BY <1>3
  <2>2. PICK p : p = op'
    OBVIOUS
  <2>3. Control(p) /\ CallOK(slots, p) /\ (Covered(slots, op) => Covered(slots, p))
    BY <1>1, <1>2, <2>1, <2>2, FindStep
  <2> QED
    BY <1>1, <2>2, <2>3, ReadKeeps
<1>4. CASE Find(slots, op.n) = {} /\ op.call = "open" /\ Go("alloc")
  <2>1. op.n \in Names /\ op.alias = <<>>
    BY <1>1, <1>2, FieldsAre DEF Control
  <2>2. Absent(slots, op.n)
    BY <1>2, <1>4, <2>1, FindIs DEF Absent
  <2>3. PICK p : p = op'
    OBVIOUS
  <2>4. GoMoves(op, p, "alloc")
    BY <1>4, <2>3 DEF Go, GoMoves
  <2>5. Control(p) /\ p.pc = "alloc" /\ p.n = op.n
    BY <1>2, <1>4, <2>1, <2>4, GoIs
  <2>6. CallOK(slots, p)
    BY <1>1, <1>2, <1>4, <2>2, <2>5 DEF CallOK, Making
  <2>7. Covered(slots, op) => Covered(slots, p)
    BY <1>1, CoversAny
  <2> QED
    BY <1>1, <2>3, <2>5, <2>6, <2>7, ReadKeeps
<1>5. CASE End("error")
  BY <1>1, <1>5, EndKeeps DEF End
<1> QED
  BY <1>3, <1>4, <1>5 DEF FindIt, FindMoves

LEMMA AllocKeeps == ASSUME IInv, Alloc PROVE IInv'
<1>1. op.pc = "alloc" /\ slots' = slots /\ disk' = disk /\ win' = win /\ mishaps' = mishaps
  BY DEF Alloc, At
<1>2. Table(slots) /\ Control(op) /\ CallOK(slots, op)
  BY DEF IInv
<1>3. CASE \E a \in AliasFor(slots, op.n), i \in Room(slots, op.n) : AllocMoves(op, a, i, op')
  <2>1. PICK a \in AliasFor(slots, op.n), i \in Room(slots, op.n) : AllocMoves(op, a, i, op')
    BY <1>3
  <2>2. PICK p : p = op'
    OBVIOUS
  <2>3. Control(p) /\ CallOK(slots, p) /\ (Covered(slots, op) => Covered(slots, p))
    BY <1>1, <1>2, <2>1, <2>2, AllocStep
  <2> QED
    BY <1>1, <2>2, <2>3, ReadKeeps
<1>4. CASE End("error")
  BY <1>1, <1>4, EndKeeps DEF End
<1> QED
  BY <1>3, <1>4 DEF Alloc, AllocMoves

LEMMA PutKeeps == ASSUME IInv, PutPiece PROVE IInv'
<1>1. op.pc = "put" /\ disk' = disk /\ mishaps' = mishaps /\ win' = SectorOf(op.at)
  BY DEF PutPiece, At, Edit
<1>2. Table(slots) /\ Control(op) /\ CallOK(slots, op)
  BY DEF IInv
<1>3. PICK u, p : u = slots' /\ p = op'
  OBVIOUS
<1>4. Wrote(slots, u, op.at, PieceOf(op.n, op.alias, op.left))
  BY <1>3 DEF PutPiece, Edit, Wrote, PieceOf, PieceWith
<1>5. PutMoves(op, p)
  BY <1>3 DEF PutPiece, PutMoves
<1>6. Table(u) /\ Control(p) /\ CallOK(u, p) /\ (Covered(slots, op) => Covered(u, p))
  BY <1>1, <1>2, <1>4, <1>5, PutStep
<1>7. win' # None
  BY <1>1, <1>2, FieldsAre, SectorIs
<1> QED
  BY <1>1, <1>3, <1>6, <1>7, WriteKeeps

\* A new entry that adopts nothing is alone.
LEMMA NewAlone ==
    ASSUME SetEntry, ~adopted', Making(slots, op) PROVE Alone(slots, op)
<1>1. ~IsEntry(slots, op.at)
  BY FreeIs DEF Making
<1> QED
  BY <1>1 DEF SetEntry, Adopts, Alone

LEMMA SetKeeps == ASSUME IInv, SetEntry, ~adopted' PROVE IInv'
<1>1. op.pc = "set" /\ disk' = disk /\ mishaps' = mishaps /\ win' = SectorOf(op.at)
  BY DEF SetEntry, At, Edit
<1>2. Table(slots) /\ Control(op) /\ CallOK(slots, op)
  BY DEF IInv
<1>3. PICK u, p : u = slots' /\ p = op'
  OBVIOUS
<1>4. Wrote(slots, u, op.at, Entry(op.alias, op.n))
  BY <1>3 DEF SetEntry, Edit, Wrote
<1>5. GoMoves(op, p, "sync") /\ (Making(slots, op) => Alone(slots, op))
  BY <1>3, NewAlone DEF SetEntry, Go, GoMoves
<1>6. Table(u) /\ Control(p) /\ CallOK(u, p) /\ (Covered(slots, op) => Covered(u, p))
  BY <1>1, <1>2, <1>4, <1>5, SetStep
<1>7. win' # None
  BY <1>1, <1>2, FieldsAre, SectorIs
<1> QED
  BY <1>1, <1>3, <1>6, <1>7, WriteKeeps

LEMMA DeleteKeeps == ASSUME IInv, Delete PROVE IInv'
<1>1. op.pc = "delete" /\ disk' = disk /\ mishaps' = mishaps /\ win' = SectorOf(op.at)
  BY DEF Delete, At, Edit
<1>2. Table(slots) /\ Control(op) /\ CallOK(slots, op)
  BY DEF IInv
<1>3. PICK u, p : u = slots' /\ p = op'
  OBVIOUS
<1>4. Wrote(slots, u, op.at, Deleted)
  BY <1>3 DEF Delete, Edit, Wrote
<1>5. DeleteMoves(op, p)
  BY <1>3 DEF Delete, Go, GoMoves, DeleteMoves
<1>6. Table(u) /\ Control(p) /\ CallOK(u, p) /\ (Covered(slots, op) => Covered(u, p))
  BY <1>1, <1>2, <1>4, <1>5, DeleteStep
<1>7. win' # None
  BY <1>1, <1>2, FieldsAre, SectorIs
<1> QED
  BY <1>1, <1>3, <1>6, <1>7, WriteKeeps

LEMMA OtherKeeps ==
    ASSUME IInv, Synced \/ SyncWindow \/ DiskFails \/ PowerLoss \/ UNCHANGED vars PROVE IInv'
<1>1. CASE Synced
  BY <1>1, EndKeeps DEF Synced, At, End
<1>2. CASE SyncWindow
  BY <1>2 DEF SyncWindow, IInv
<1>3. CASE DiskFails
  BY <1>3, EndKeeps DEF DiskFails, End
<1>4. CASE PowerLoss
  <2>1. slots' = disk /\ disk' = disk /\ op' = NoOp /\ mishaps' = mishaps + 1
    BY <1>4 DEF PowerLoss
  <2>2. mishaps' \in Nat /\ mishaps' # 0
    BY <2>1 DEF IInv
  <2> QED
    BY <2>1, <2>2, NoOpIs DEF IInv
<1>5. CASE UNCHANGED vars
  BY <1>5 DEF vars, IInv
<1> QED
  BY <1>1, <1>2, <1>3, <1>4, <1>5

LEMMA NextKeeps == IInv /\ ~adopted' /\ [Next]_vars => IInv'
<1> SUFFICES ASSUME IInv, ~adopted', [Next]_vars PROVE IInv'
  OBVIOUS
<1>1. CASE \E n \in Names : Open(n) \/ Unlink(n)
  BY <1>1, BeginKeeps DEF Open, Unlink
<1> QED
  BY <1>1, FindKeeps, AllocKeeps, PutKeeps, SetKeeps, DeleteKeeps, OtherKeeps DEF Next

(***************************************************************************)
(* While nothing has failed no entry adopts anything: the pieces there are *)
(* belong to the entry they are in front of.                               *)
(***************************************************************************)
LEMMA NothingInFront ==
    ASSUME NEW s, Table(s), NEW o, Made(s, o), Covered(s, o), o.at \in Places,
           o.pc = "set", o.n \in Names, o.n \notin NeedsLong, NEW i \in Places, i = o.at - 1
    PROVE  ~IsPiece(s, i)
<1> SUFFICES ASSUME IsPiece(s, i) PROVE FALSE
  OBVIOUS
<1>1. Owned(s, i)
  BY DEF Covered
<1>2. PICK j \in Held(s), n \in NeedsLong : Tied(s, j, n) /\ j - Len(Text[n]) <= i /\ i < j
  BY <1>1 DEF Owned
<1>3. j \in Int /\ o.at \in Int /\ Len(Text[n]) \in Nat
  BY <1>2, Constants DEF Held, Places
<1>4. IsFree(s, o.at)
  <2>1. o.at \in o.at .. o.at + o.left
    BY <1>3, Constants DEF Made
  <2> QED
    BY <2>1 DEF Made
<1>5. j # o.at
  BY <1>4, FreeIs DEF Held
<1>6. o.at \in j - Len(Text[n]) .. j - 1
  BY <1>2, <1>3, <1>5
<1>7. IsPiece(s, o.at)
  BY <1>2, <1>6, TiePieces DEF Held
<1> QED
  BY <1>4, <1>7, FreeIs

LEMMA NothingAdopted ==
    ASSUME IInv, mishaps = 0, SetEntry PROVE ~Adopts
<1> SUFFICES ASSUME Adopts PROVE FALSE
  OBVIOUS
<1>1. /\ Table(slots) /\ Control(op) /\ CallOK(slots, op) /\ Covered(slots, op) /\ op.pc = "set"
      /\ ~IsEntry(slots, op.at) /\ op.n \notin NeedsLong /\ Fits(slots, op.at, op.alias)
  BY DEF IInv, SetEntry, At, Adopts
<1>2. op.at \in Places /\ op.n \in Names
  BY <1>1, FieldsAre
<1>3. Made(slots, op)
  BY <1>1 DEF CallOK, Held
<1>4. PICK n \in NeedsLong : \A k \in 1 .. Len(Text[n]) :
             op.at - k \in Places /\ slots[op.at - k] = PieceOf(n, op.alias, k)
  BY <1>1 DEF Fits, PieceOf, PieceWith
<1>5. 1 \in 1 .. Len(Text[n])
  BY <1>4, Constants
<1>6. op.at - 1 \in Places /\ IsPiece(slots, op.at - 1)
  BY <1>4, <1>5, LastIs DEF IsPiece
<1> QED
  BY <1>1, <1>2, <1>3, <1>6, NothingInFront

\* The invariant: that of the tables, up to the first adoption; and that there
\* is none before the first mishap.
Guarded == (adopted \/ IInv) /\ adopted \in BOOLEAN /\ (adopted => mishaps \in Nat /\ mishaps # 0)

LEMMA AdoptedGrows ==
    ASSUME Guarded, [Next]_vars
    PROVE  /\ adopted => adopted' /\ mishaps' \in Nat /\ mishaps' # 0
           /\ adopted' \in BOOLEAN
<1>1. mishaps \in Nat
  BY DEF Guarded, IInv
<1>2. mishaps' = mishaps \/ mishaps' = mishaps + 1
  BY DEF Next, Open, Unlink, Begin, FindIt, Alloc, PutPiece, SetEntry, Delete, Synced, SyncWindow,
         DiskFails, PowerLoss, vars
<1>3. adopted' = adopted \/ (SetEntry /\ adopted' = (adopted \/ Adopts))
  BY DEF Next, Open, Unlink, Begin, FindIt, Alloc, PutPiece, SetEntry, Delete, Synced, SyncWindow,
         DiskFails, PowerLoss, vars
<1>4. adopted' \in BOOLEAN /\ (adopted => adopted')
  BY <1>3 DEF Guarded
<1>5. adopted => mishaps' \in Nat /\ mishaps' # 0
  BY <1>1, <1>2 DEF Guarded
<1> QED
  BY <1>4, <1>5

LEMMA GuardKeeps == Guarded /\ [Next]_vars => Guarded'
<1> SUFFICES ASSUME Guarded, [Next]_vars PROVE Guarded'
  OBVIOUS
<1>1. /\ adopted => adopted' /\ mishaps' \in Nat /\ mishaps' # 0
      /\ adopted' \in BOOLEAN
  BY AdoptedGrows
<1>2. CASE adopted
  BY <1>1, <1>2 DEF Guarded
<1>3. CASE ~adopted /\ ~adopted'
  BY <1>1, <1>3, NextKeeps DEF Guarded
<1>4. CASE ~adopted /\ adopted'
  <2>1. IInv /\ SetEntry /\ Adopts
    BY <1>4 DEF Guarded, Next, Open, Unlink, Begin, FindIt, Alloc, PutPiece, SetEntry, Delete, Synced,
           SyncWindow, DiskFails, PowerLoss, vars
  <2>2. mishaps # 0 /\ mishaps \in Nat /\ mishaps' = mishaps
    BY <2>1, NothingAdopted DEF IInv, SetEntry
  <2> QED
    BY <1>1, <1>4, <2>2 DEF Guarded
<1> QED
  BY <1>1, <1>2, <1>3, <1>4 DEF Guarded

LEMMA Invariant == Spec => []Guarded
<1>1. Init => Guarded
  BY InitKeeps DEF Init, Guarded
<1> QED
  BY <1>1, GuardKeeps, PTL DEF Spec

\* By the name f_readdir shows, dir_find gets to the very object it was shown
\* for, in the window and on the medium, whatever a power loss or a failure
\* has left there, as long as no entry has been put behind a rest of another's
\* name that fits it (dir_find, ff.c:2415; dir_read, ff.c:2337).
THEOREM EveryNameFound == Spec => []ListedIsFound
<1>1. ASSUME Guarded PROVE ListedIsFound
  <2> SUFFICES ASSUME ~adopted, NEW s \in {slots, disk}, NEW i \in {j \in Live(s) : IsEntry(s, j)}
               PROVE  IF LongText(s, i) = NoText
                      THEN FindBy(s, NoText, s[i].alias, FALSE) = {i}
                      ELSE \E n \in Names : Text[n] = LongText(s, i) /\ Find(s, n) = {i}
    BY DEF ListedIsFound
  <2>1. Table(s)
    BY <1>1 DEF Guarded, IInv
  <2>2. i \in Held(s)
    BY <2>1, LiveEntries DEF Table
  <2> QED
    BY <2>1, <2>2, TableListed
<1> QED
  BY <1>1, Invariant, PTL

\* As long as nothing fails, no call leaves pieces of a long name behind that
\* belong to no entry, and no entry is put behind pieces that fit it but are not
\* its own, whatever aliases share a checksum or are made by hand (dir_remove,
\* ff.c:2610-2632; dir_register, 2585).
THEOREM NothingOrphaned == Spec => []NoOrphan
<1>1. ASSUME Guarded PROVE NoOrphan
  <2>a. mishaps = 0 => ~adopted /\ IInv
    BY <1>1 DEF Guarded
  <2> SUFFICES ASSUME op = NoOp, mishaps = 0, NEW i \in Places, IsPiece(slots, i)
               PROVE  \E j \in i + 1 .. Slots :
                         IsEntry(slots, j) /\ LongText(slots, j) # NoText /\ BlkOfs(slots, j) <= i
    BY <2>a DEF NoOrphan
  <2>1. Covered(slots, op) /\ op.pc = "idle"
    BY <2>a DEF IInv, NoOp
  <2>2. PICK j \in Held(slots), n \in NeedsLong : Tied(slots, j, n) /\ j - Len(Text[n]) <= i /\ i < j
    BY <2>1 DEF Covered, Making, Owned
  <2>3. j \in Places /\ IsEntry(slots, j) /\ n \in Names
    BY Constants DEF Held
  <2>4. LongText(slots, j) = Text[n] /\ Text[n] # NoText
    BY <2>2, <2>3, TextWhenTied, TextNotEmpty
  <2>5. j - Len(Text[n]) \in Starts(slots, j)
    BY <2>2, <2>3, TiedStarts
  <2>6. BlkOfs(slots, j) = j - Len(Text[n])
    <3>1. BlkOfs(slots, j) \in Starts(slots, j)
      BY <2>5 DEF BlkOfs
    <3> QED
      BY <2>3, <2>5, <3>1, OneStart
  <2>7. j \in i + 1 .. Slots
    BY <2>2, <2>3, Constants DEF Places
  <2> QED
    BY <2>2, <2>3, <2>4, <2>6, <2>7
<1> QED
  BY <1>1, Invariant, PTL

(***************************************************************************)
(* The objects of a table, and what a step makes of them.                  *)
(***************************************************************************)
Obj(s, i) == [long |-> NameOf(LongText(s, i)), alias |-> s[i].alias, data |-> s[i].data]

LEMMA ObjectsAre == ASSUME NEW s, Table(s) PROVE Objects(s) = {Obj(s, i) : i \in Held(s)}
<1>1. {j \in Live(s) : IsEntry(s, j)} = Held(s)
  BY LiveEntries DEF Table
<1> QED
  BY <1>1, Zenon DEF Objects, Obj

LEMMA NameOfText == ASSUME NEW n \in Names PROVE NameOf(Text[n]) = n
<1> DEFINE c == CHOOSE m \in Names : Text[m] = Text[n]
<1>1. c \in Names /\ Text[c] = Text[n]
  OBVIOUS
<1> HIDE DEF c
<1>2. c = n
  BY <1>1, Constants
<1>3. NameOf(Text[n]) = c
  BY DEF NameOf, c
<1> QED
  BY <1>2, <1>3

LEMMA LongIs ==
    ASSUME NEW s, Table(s), NEW i \in Held(s)
    PROVE  /\ \A n \in NeedsLong : Tied(s, i, n) => Obj(s, i).long = n
           /\ (\A n \in NeedsLong : ~Tied(s, i, n)) => Obj(s, i).long = NoName
           /\ \A n \in Names : Obj(s, i).long = n => Tied(s, i, n)
           /\ Obj(s, i).alias = s[i].alias /\ Obj(s, i).data = s[i].data
<1>1. Obj(s, i).long = NameOf(LongText(s, i)) /\ Obj(s, i).alias = s[i].alias /\ Obj(s, i).data = s[i].data
  BY DEF Obj
<1>2. ASSUME NEW n \in NeedsLong, Tied(s, i, n) PROVE Obj(s, i).long = n
  <2>1. n \in Names /\ i \in Places
    BY Constants DEF Held
  <2> QED
    BY <1>1, <1>2, <2>1, TextWhenTied, NameOfText
<1>3. NameOf(NoText) = NoName
  BY TextNotEmpty DEF NameOf
<1>4. CASE \A n \in NeedsLong : ~Tied(s, i, n)
  <2>1. LongText(s, i) = NoText
    BY <1>4, TextIs DEF Table
  <2>2. Obj(s, i).long = NoName
    BY <1>1, <1>3, <2>1
  <2> QED
    BY <1>1, <1>4, <2>2, Constants
<1>5. CASE \E n \in NeedsLong : Tied(s, i, n)
  <2>1. PICK n \in NeedsLong : Tied(s, i, n)
    BY <1>5
  <2>2. Obj(s, i).long = n
    BY <1>2, <2>1
  <2> QED
    BY <1>1, <1>2, <2>1, <2>2
<1> QED
  BY <1>4, <1>5

LEMMA KnownIs ==
    ASSUME NEW s, Table(s), NEW i \in Held(s), NEW n \in Names
    PROVE  Promised!Known(Obj(s, i), n) <=> Known(s, i, n)
<1>1. Obj(s, i).long = n <=> Tied(s, i, n)
  BY LongIs DEF Tied
<1>2. Obj(s, i).alias = s[i].alias
  BY LongIs
<1> QED
  BY <1>1, <1>2 DEF Promised!Known, Known

LEMMA SameLong ==
    ASSUME NEW s, NEW u, Table(s), Table(u), NEW i \in Held(s), i \in Held(u),
           \A m \in NeedsLong : Tied(u, i, m) <=> Tied(s, i, m)
    PROVE  Obj(u, i).long = Obj(s, i).long
<1>1. CASE \A n \in NeedsLong : ~Tied(s, i, n)
  BY <1>1, LongIs
<1>2. CASE \E n \in NeedsLong : Tied(s, i, n)
  BY <1>2, LongIs
<1> QED
  BY <1>1, <1>2

LEMMA SameObj ==
    ASSUME NEW s, NEW u, Table(s), Table(u), NEW i \in Held(s), i \in Held(u), u[i] = s[i],
           \A m \in NeedsLong : Tied(u, i, m) <=> Tied(s, i, m)
    PROVE  Obj(u, i) = Obj(s, i)
<1>1. Obj(u, i).long = Obj(s, i).long
  BY SameLong
<1>2. NameOf(LongText(u, i)) = NameOf(LongText(s, i))
  BY <1>1 DEF Obj
<1> QED
  BY <1>2 DEF Obj

\* The one object a call is about.
LEMMA ChosenIs ==
    ASSUME NEW s, Table(s), NEW i \in Held(s), NEW a, s[i].alias = a
    PROVE  /\ {x \in Objects(s) : x.alias = a} = {Obj(s, i)}
           /\ Objects(s) \ {Obj(s, i)} = {Obj(s, j) : j \in Held(s) \ {i}}
<1>1. Objects(s) = {Obj(s, j) : j \in Held(s)}
  BY ObjectsAre
<1>2. \A j \in Held(s) : Obj(s, j).alias = s[j].alias
  BY LongIs
<1>3. \A j \in Held(s) : s[j].alias = a <=> j = i
  BY DEF Table, Distinct
<1>4. \A j \in Held(s) : Obj(s, j) = Obj(s, i) => j = i
  BY <1>2, <1>3
<1> QED
  BY <1>1, <1>2, <1>3, <1>4, Zenon

LEMMA PutObjects ==
    ASSUME NEW s, Table(s), NEW o, Made(s, o), o.n \in Names, o.at \in Places,
           o.left \in Nat, o.left # 0,
           NEW u, Wrote(s, u, o.at, PieceOf(o.n, o.alias, o.left))
    PROVE  Objects(u) = Objects(s)
<1>1. /\ Table(u) /\ Held(u) = Held(s)
      /\ \A i \in Held(s) : u[i] = s[i] /\ \A m \in NeedsLong : Tied(u, i, m) <=> Tied(s, i, m)
  BY PutTable
<1>2. \A i \in Held(s) : Obj(u, i) = Obj(s, i)
  BY <1>1, SameObj
<1>3. Objects(u) = {Obj(u, i) : i \in Held(u)} /\ Objects(s) = {Obj(s, i) : i \in Held(s)}
  BY <1>1, ObjectsAre
<1> QED
  BY <1>1, <1>2, <1>3

LEMMA NewObjects ==
    ASSUME NEW s, Table(s), NEW o, Made(s, o), o.n \in Names, o.at \in Places, o.left = 0,
           Alone(s, o), NEW u, Wrote(s, u, o.at, Entry(o.alias, o.n))
    PROVE  /\ Objects(u) = Objects(s) \cup {Promised!Object(Promised!LongOf(o.n), o.alias, o.n)}
           /\ {x \in Objects(s) : x.alias = o.alias} = {}
<1>1. /\ Table(u) /\ Held(u) = Held(s) \cup {o.at} /\ u[o.at].alias = o.alias /\ u[o.at].data = o.n
      /\ \A i \in Held(s) : u[i] = s[i] /\ \A m \in NeedsLong : Tied(u, i, m) <=> Tied(s, i, m)
      /\ o.n \in NeedsLong => Tied(u, o.at, o.n)
      /\ \A m \in NeedsLong : Tied(u, o.at, m) => m = o.n
  BY NewTable
<1>2. \A i \in Held(s) : Obj(u, i) = Obj(s, i)
  BY <1>1, SameObj
<1>3. Objects(u) = {Obj(u, i) : i \in Held(u)} /\ Objects(s) = {Obj(s, i) : i \in Held(s)}
  BY <1>1, ObjectsAre
<1>4. Obj(u, o.at).long = Promised!LongOf(o.n)
  <2>1. o.at \in Held(u)
    BY <1>1
  <2>2. CASE o.n \in NeedsLong
    BY <1>1, <2>1, <2>2, LongIs DEF Promised!LongOf
  <2>3. CASE o.n \notin NeedsLong
    <3>1. \A m \in NeedsLong : ~Tied(u, o.at, m)
      BY <1>1, <2>3
    <3>2. Obj(u, o.at).long = NoName
      BY <1>1, <2>1, <3>1, LongIs
    <3> QED
      BY <2>3, <3>2 DEF Promised!LongOf
  <2> QED
    BY <2>2, <2>3
<1>5. Obj(u, o.at) = Promised!Object(Promised!LongOf(o.n), o.alias, o.n)
  <2>1. NameOf(LongText(u, o.at)) = Promised!LongOf(o.n)
    BY <1>4 DEF Obj
  <2> QED
    BY <1>1, <2>1 DEF Obj, Promised!Object
<1>6. {x \in Objects(s) : x.alias = o.alias} = {}
  BY <1>3, LongIs DEF Made
<1>7. Objects(u) = Objects(s) \cup {Obj(u, o.at)}
  BY <1>1, <1>2, <1>3
<1> QED
  BY <1>5, <1>6, <1>7

LEMMA OldObjects ==
    ASSUME NEW s, Table(s), NEW o, o.at \in Held(s), s[o.at].alias = o.alias, o.n \in Names,
           NEW u, Wrote(s, u, o.at, Entry(o.alias, o.n))
    PROVE  Objects(u) = (Objects(s) \ {Obj(s, o.at)}) \cup {[Obj(s, o.at) EXCEPT !.data = o.n]}
<1>1. /\ Table(u) /\ Held(u) = Held(s) /\ Alike(s, u, o.at)
      /\ u[o.at].alias = o.alias /\ u[o.at].data = o.n
      /\ \A i \in Held(s) : /\ u[i].alias = s[i].alias
                            /\ \A m \in NeedsLong : Tied(u, i, m) <=> Tied(s, i, m)
  BY OldTable
<1>2. \A i \in Held(s) \ {o.at} : Obj(u, i) = Obj(s, i)
  <2>1. \A i \in Held(s) \ {o.at} : u[i] = s[i]
    BY <1>1 DEF Alike, Held
  <2> QED
    BY <1>1, <2>1, SameObj
<1>3. Obj(u, o.at) = [Obj(s, o.at) EXCEPT !.data = o.n]
  <2>1. Obj(u, o.at).long = Obj(s, o.at).long
    BY <1>1, SameLong
  <2>2. NameOf(LongText(u, o.at)) = NameOf(LongText(s, o.at))
    BY <2>1 DEF Obj
  <2> QED
    BY <1>1, <2>2 DEF Obj
<1>4. Objects(u) = {Obj(u, i) : i \in Held(u)}
  BY <1>1, ObjectsAre
<1>5. Objects(s) \ {Obj(s, o.at)} = {Obj(s, j) : j \in Held(s) \ {o.at}}
  BY ChosenIs
<1> QED
  BY <1>1, <1>2, <1>3, <1>4, <1>5

LEMMA DeleteObjects ==
    ASSUME NEW s, Table(s), NEW o, Removing(s, o), o.at \in Places, NEW u, Wrote(s, u, o.at, Deleted)
    PROVE  Objects(u) = (Objects(s) \ {Obj(s, o.last)})
                        \cup (IF o.at = o.last THEN {} ELSE {[Obj(s, o.last) EXCEPT !.long = NoName]})
<1>1. /\ Table(u) /\ Held(u) = Held(s) \ {o.at}
      /\ \A i \in Held(u) : u[i] = s[i] /\ \A m \in NeedsLong : Tied(u, i, m) => Tied(s, i, m)
      /\ \A i \in Held(s) \ {o.last} : i # o.at /\ \A m \in NeedsLong : Tied(s, i, m) => Tied(u, i, m)
      /\ o.at # o.last => o.last \in Held(u) /\ \A m \in NeedsLong : ~Tied(u, o.last, m)
  BY DeleteTable
<1>2. o.last \in Held(s) /\ s[o.last].alias = o.alias
  BY DEF Removing
<1>3. \A i \in Held(s) \ {o.last} : i \in Held(u) /\ Obj(u, i) = Obj(s, i)
  BY <1>1, SameObj
<1>4. Objects(u) = {Obj(u, i) : i \in Held(u)}
  BY <1>1, ObjectsAre
<1>5. Objects(s) \ {Obj(s, o.last)} = {Obj(s, j) : j \in Held(s) \ {o.last}}
  BY <1>2, ChosenIs
<1>6. CASE o.at = o.last
  BY <1>1, <1>3, <1>4, <1>5, <1>6
<1>7. CASE o.at # o.last
  <2>1. Obj(u, o.last).long = NoName
    BY <1>1, <1>7, LongIs
  <2>2. Obj(u, o.last) = [Obj(s, o.last) EXCEPT !.long = NoName]
    <3>1. NameOf(LongText(u, o.last)) = NoName
      BY <2>1 DEF Obj
    <3> QED
      BY <1>1, <1>7, <3>1 DEF Obj
  <2>3. Held(u) = (Held(s) \ {o.last}) \cup {o.last}
    <3>1. o.at \notin Held(s)
      BY <1>1, <1>7
    <3> QED
      BY <1>1, <1>2, <3>1
  <2> QED
    BY <1>3, <1>4, <1>5, <1>7, <2>2, <2>3
<1> QED
  BY <1>6, <1>7

(***************************************************************************)
(* Every step is a step of NameTable, or nothing there.                    *)
(***************************************************************************)
On == [what |-> op.call, name |-> op.n, on |-> op.alias]

LEMMA OnIs ==
    /\ On.what = op.call /\ On.name = op.n /\ On.on = op.alias
    /\ On' = [what |-> op'.call, name |-> op'.n, on |-> op'.alias]
  BY DEF On

LEMMA NoCallIs == op = NoOp => On = Promised!NoCall
  BY DEF On, NoOp, Promised!NoCall, Promised!Call, Promised!NoAlias

LEMMA NoCallNext == op' = NoOp => On' = Promised!NoCall
  BY DEF On, NoOp, Promised!NoCall, Promised!Call, Promised!NoAlias

LEMMA CallRuns == ASSUME op.call # "none" PROVE On # Promised!NoCall
<1>1. On.what # "none" /\ Promised!NoCall.what = "none"
  BY OnIs DEF Promised!NoCall, Promised!Call
<1> QED
  BY <1>1

LEMMA Stutters ==
    ASSUME Objects(slots') = Objects(slots), Objects(disk') = Objects(disk), On' = On, result' = result
    PROVE  UNCHANGED Promised!vars
  BY DEF Promised!vars, On

LEMMA BeginSim ==
    ASSUME NEW call \in {"open", "unlink"}, NEW n \in Names, Begin(call, n) PROVE Promised!Begin
<1>1. On = Promised!NoCall
  BY NoCallIs DEF Begin
<1>2. On' = Promised!Call(call, n, Promised!NoAlias)
  BY DEF Begin, On, Op, Promised!Call, Promised!NoAlias
<1>3. Objects(slots') = Objects(slots) /\ Objects(disk') = Objects(disk) /\ result' = "none"
  BY DEF Begin
<1> QED
  BY <1>1, <1>2, <1>3 DEF Promised!Begin, On

LEMMA FailSim ==
    ASSUME IInv, op.call # "none", slots' = slots, disk' = disk, End("error") PROVE Promised!Fail
<1>1. On # Promised!NoCall
  BY CallRuns
<1>2. On' = Promised!NoCall /\ result' = "error"
  BY NoCallNext DEF End
<1> QED
  BY <1>1, <1>2 DEF Promised!Fail, On

LEMMA FindSim == ASSUME IInv, FindIt PROVE [Promised!Next]_(Promised!vars)
<1>1. op.pc = "find" /\ slots' = slots /\ disk' = disk
  BY DEF FindIt, At
<1>2. /\ Table(slots) /\ op \in OpType /\ op.n \in Names /\ op.call \in {"open", "unlink"} /\ op.alias = <<>>
  BY <1>1, FieldsAre DEF IInv, Control
<1>3. CASE \E i \in Find(slots, op.n) : FindMoves(slots, op, i, op') /\ result' = result
  <2>1. PICK i \in Find(slots, op.n) : FindMoves(slots, op, i, op') /\ result' = result
    BY <1>3
  <2>2. i \in Held(slots) /\ Known(slots, i, op.n)
    BY <1>2, FindIs
  <2> DEFINE x == Obj(slots, i)
  <2>3. x \in Objects(slots) /\ Promised!Known(x, op.n) /\ x.alias = slots[i].alias
    BY <1>2, <2>2, ObjectsAre, KnownIs, LongIs
  <2> HIDE DEF x
  <2>4. op'.call = op.call /\ op'.n = op.n /\ op'.alias = x.alias
    BY <1>2, <2>1, <2>3 DEF FindMoves, OpType
  <2>5. On' = [On EXCEPT !.on = x.alias]
    BY <2>4 DEF On
  <2>6. On # Promised!NoCall /\ On.on = Promised!NoAlias /\ On.name = op.n
    BY <1>2, CallRuns, OnIs DEF Promised!NoAlias
  <2>7. Promised!Choose
    BY <1>1, <2>1, <2>3, <2>5, <2>6 DEF Promised!Choose, On
  <2> QED
    BY <2>7 DEF Promised!Next
<1>4. CASE Go("alloc")
  <2>1. op'.call = op.call /\ op'.n = op.n /\ op'.alias = op.alias /\ result' = result
    BY <1>2, <1>4 DEF Go, OpType
  <2>2. On' = On
    BY <2>1 DEF On
  <2> QED
    BY <1>1, <2>1, <2>2, Stutters
<1>5. CASE End("error")
  BY <1>1, <1>2, <1>5, FailSim DEF Promised!Next
<1> QED
  BY <1>3, <1>4, <1>5 DEF FindIt, FindMoves

LEMMA AllocSim == ASSUME IInv, Alloc PROVE [Promised!Next]_(Promised!vars)
<1>1. op.pc = "alloc" /\ slots' = slots /\ disk' = disk
  BY DEF Alloc, At
<1>2. /\ Table(slots) /\ op \in OpType /\ op.n \in Names /\ op.call = "open" /\ op.alias = <<>>
      /\ Absent(slots, op.n)
  BY <1>1, FieldsAre DEF IInv, Control, CallOK
<1>3. CASE \E a \in AliasFor(slots, op.n), i \in Room(slots, op.n) :
              AllocMoves(op, a, i, op') /\ result' = result
  <2>1. PICK a \in AliasFor(slots, op.n), i \in Room(slots, op.n) :
              AllocMoves(op, a, i, op') /\ result' = result
    BY <1>3
  <2>2. a \in Forms(op.n) /\ \A j \in Held(slots) : slots[j].alias # a
    BY <1>2, AliasIs
  <2>3. \A x \in Objects(slots) : x.alias # a /\ ~Promised!Known(x, op.n)
    BY <1>2, <2>2, ObjectsAre, KnownIs, LongIs DEF Absent
  <2>4. op'.call = op.call /\ op'.n = op.n /\ op'.alias = a
    BY <1>2, <2>1 DEF AllocMoves, OpType
  <2>5. On' = [On EXCEPT !.on = a]
    BY <2>4 DEF On
  <2>6. /\ On # Promised!NoCall /\ On.on = Promised!NoAlias /\ On.name = op.n /\ On.what = "open"
    BY <1>2, CallRuns, OnIs DEF Promised!NoAlias
  <2>7. Promised!Choose
    BY <1>1, <2>1, <2>2, <2>3, <2>5, <2>6 DEF Promised!Choose, On
  <2> QED
    BY <2>7 DEF Promised!Next
<1>4. CASE End("error")
  BY <1>1, <1>2, <1>4, FailSim DEF Promised!Next
<1> QED
  BY <1>3, <1>4 DEF Alloc, AllocMoves

LEMMA PutSim == ASSUME IInv, PutPiece PROVE UNCHANGED Promised!vars
<1>1. op.pc = "put" /\ disk' = disk /\ result' = result
  BY DEF PutPiece, At
<1>2. /\ Table(slots) /\ op \in OpType /\ op.n \in Names /\ op.at \in Places /\ op.left \in Nat
      /\ Made(slots, op) /\ op.left # 0
  BY <1>1, FieldsAre DEF IInv, Control, CallOK, Made
<1>3. PICK u : u = slots'
  OBVIOUS
<1>4. Wrote(slots, u, op.at, PieceOf(op.n, op.alias, op.left))
  BY <1>3 DEF PutPiece, Edit, Wrote, PieceOf, PieceWith
<1>5. Objects(u) = Objects(slots)
  BY <1>2, <1>4, PutObjects
<1>6. op'.call = op.call /\ op'.n = op.n /\ op'.alias = op.alias
  BY <1>2 DEF PutPiece, OpType
<1>7. On' = On
  BY <1>6 DEF On
<1> QED
  BY <1>1, <1>3, <1>5, <1>7, Stutters

LEMMA SetSim == ASSUME IInv, SetEntry, ~adopted' PROVE Promised!Put
<1>1. op.pc = "set" /\ disk' = disk /\ Go("sync")
  BY DEF SetEntry, At
<1>2. /\ Table(slots) /\ op \in OpType /\ op.n \in Names /\ op.at \in Places /\ op.left \in Nat
      /\ op.call = "open" /\ op.alias # <<>> /\ CallOK(slots, op)
  BY <1>1, FieldsAre DEF IInv, Control
<1>3. PICK u : u = slots'
  OBVIOUS
<1>4. Wrote(slots, u, op.at, Entry(op.alias, op.n))
  BY <1>3 DEF SetEntry, Edit, Wrote
<1>5. op'.call = op.call /\ op'.n = op.n /\ op'.alias = op.alias /\ result' = result
  BY <1>1, <1>2 DEF Go, OpType
<1>6. On' = On /\ On.what = "open" /\ On.on # Promised!NoAlias /\ On.name = op.n /\ On.on = op.alias
  BY <1>2, <1>5, OnIs DEF On, Promised!NoAlias
<1>7. Promised!Chosen = {x \in Objects(slots) : x.alias = op.alias}
  BY DEF Promised!Chosen
<1>8. CASE Making(slots, op)
  <2>1. Made(slots, op) /\ op.left = 0
    BY <1>1, <1>2, <1>8 DEF CallOK, Made
  <2>2. /\ Objects(u) = Objects(slots) \cup {Promised!Object(Promised!LongOf(op.n), op.alias, op.n)}
        /\ Promised!Chosen = {}
    BY <1>2, <1>3, <1>4, <1>7, <1>8, <2>1, NewAlone, NewObjects
  <2> QED
    BY <1>1, <1>3, <1>5, <1>6, <2>2 DEF Promised!Put, On
<1>9. CASE ~Making(slots, op)
  <2>1. op.at \in Held(slots) /\ slots[op.at].alias = op.alias
    BY <1>1, <1>2, <1>9 DEF CallOK
  <2>2. Promised!Chosen = {Obj(slots, op.at)}
    BY <1>2, <1>7, <2>1, ChosenIs
  <2>3. Objects(u) = (Objects(slots) \ {Obj(slots, op.at)}) \cup {[Obj(slots, op.at) EXCEPT !.data = op.n]}
    BY <1>2, <1>4, <2>1, OldObjects
  <2>4. Objects(u) = (Objects(slots) \ Promised!Chosen) \cup {[x EXCEPT !.data = op.n] : x \in Promised!Chosen}
    BY <2>2, <2>3
  <2> QED
    BY <1>1, <1>3, <1>5, <1>6, <2>2, <2>4 DEF Promised!Put, On
<1> QED
  BY <1>8, <1>9

LEMMA DeleteSim == ASSUME IInv, Delete PROVE Promised!Strip \/ Promised!Drop
<1>1. op.pc = "delete" /\ disk' = disk
  BY DEF Delete, At
<1>2. /\ Table(slots) /\ op \in OpType /\ op.at \in Places /\ op.last \in Places /\ op.call = "unlink"
      /\ Removing(slots, op)
  BY <1>1, FieldsAre DEF IInv, Control, CallOK
<1>3. PICK u : u = slots'
  OBVIOUS
<1>4. Wrote(slots, u, op.at, Deleted)
  BY <1>3 DEF Delete, Edit, Wrote
<1>5. op'.call = op.call /\ op'.n = op.n /\ op'.alias = op.alias /\ result' = result
  BY <1>2 DEF Delete, Go, OpType
<1>6. On' = On /\ On.what = "unlink"
  BY <1>2, <1>5, OnIs DEF On
<1>7. Promised!Chosen = {Obj(slots, op.last)}
  <2>1. Promised!Chosen = {x \in Objects(slots) : x.alias = op.alias}
    BY DEF Promised!Chosen
  <2> QED
    BY <1>2, <2>1, ChosenIs DEF Removing
<1>8. Objects(u) = (Objects(slots) \ {Obj(slots, op.last)})
                   \cup (IF op.at = op.last THEN {} ELSE {[Obj(slots, op.last) EXCEPT !.long = NoName]})
  BY <1>2, <1>4, DeleteObjects
<1>9. CASE op.at = op.last
  <2>1. Objects(u) = Objects(slots) \ Promised!Chosen
    BY <1>7, <1>8, <1>9
  <2> QED
    BY <1>1, <1>3, <1>5, <1>6, <2>1 DEF Promised!Drop, On
<1>10. CASE op.at # op.last
  <2>1. Objects(u) = (Objects(slots) \ Promised!Chosen) \cup {[x EXCEPT !.long = NoName] : x \in Promised!Chosen}
    BY <1>7, <1>8, <1>10
  <2> QED
    BY <1>1, <1>3, <1>5, <1>6, <2>1 DEF Promised!Strip, On
<1> QED
  BY <1>9, <1>10

LEMMA SyncedSim == ASSUME IInv, Synced PROVE Promised!Succeed
<1>1. op.pc = "sync" /\ Ready /\ End("FR_OK") /\ UNCHANGED <<slots, disk>>
  BY DEF Synced, At
<1>2. slots = disk
  <2>1. win = None
    BY <1>1 DEF Ready
  <2> QED
    BY <2>1 DEF IInv
<1>3. /\ Table(slots) /\ op.n \in Names /\ op.call \in {"open", "unlink"} /\ op.alias # <<>>
      /\ CallOK(slots, op)
  BY <1>1, FieldsAre DEF IInv, Control
<1>4. On # Promised!NoCall /\ On.what = op.call /\ On.name = op.n /\ On.on = op.alias
  BY <1>3, CallRuns, OnIs
<1>5. CASE op.call = "open"
  <2>1. PICK i \in Held(slots) : /\ slots[i].alias = op.alias /\ slots[i].data = op.n
                                 /\ Known(slots, i, op.n)
    BY <1>1, <1>3, <1>5 DEF CallOK
  <2>2. /\ Obj(slots, i) \in Objects(slots) /\ Obj(slots, i).alias = op.alias
        /\ Obj(slots, i).data = op.n /\ Promised!Known(Obj(slots, i), op.n)
    BY <1>3, <2>1, ObjectsAre, KnownIs, LongIs
  <2>3. Obj(slots, i) \in Promised!Chosen
    BY <2>2 DEF Promised!Chosen
  <2>4. Promised!Done
    BY <1>4, <1>5, <2>2, <2>3 DEF Promised!Done, On
  <2> QED
    BY <1>1, <1>2, <1>4, <2>4, NoCallNext DEF Promised!Succeed, On, End
<1>6. CASE op.call = "unlink"
  <2>1. Absent(slots, op.n)
    BY <1>1, <1>3, <1>6 DEF CallOK
  <2>2. \A x \in Objects(slots) : ~Promised!Known(x, op.n)
    BY <1>3, <2>1, ObjectsAre, KnownIs DEF Absent
  <2>3. Promised!Done
    BY <1>3, <1>4, <1>6, <2>2 DEF Promised!Done, Promised!NoAlias, On
  <2> QED
    BY <1>1, <1>2, <1>4, <2>3, NoCallNext DEF Promised!Succeed, On, End
<1> QED
  BY <1>3, <1>5, <1>6

LEMMA OtherSim ==
    ASSUME IInv, SyncWindow \/ DiskFails \/ PowerLoss \/ UNCHANGED vars
    PROVE  [Promised!Next]_(Promised!vars)
<1>1. CASE SyncWindow
  <2>1. Promised!Write
    BY <1>1 DEF SyncWindow, Promised!Write
  <2> QED
    BY <2>1 DEF Promised!Next
<1>2. CASE DiskFails
  <2>1. op # NoOp /\ slots' = slots /\ disk' = disk /\ End("error")
    BY <1>2 DEF DiskFails
  <2>2. op.call # "none"
    BY <2>1 DEF IInv, Control
  <2> QED
    BY <2>1, <2>2, FailSim DEF Promised!Next
<1>3. CASE PowerLoss
  <2>1. slots' = disk /\ disk' = disk /\ op' = NoOp /\ result' = "none"
    BY <1>3 DEF PowerLoss
  <2>2. Promised!PowerLoss
    BY <2>1, NoCallNext DEF Promised!PowerLoss, On
  <2> QED
    BY <2>2 DEF Promised!Next
<1>4. CASE UNCHANGED vars
  BY <1>4 DEF vars, Promised!vars
<1> QED
  BY <1>1, <1>2, <1>3, <1>4

LEMMA StepSim == IInv /\ ~adopted' /\ [Next]_vars => [Promised!Next]_(Promised!vars)
<1> SUFFICES ASSUME IInv, ~adopted', [Next]_vars PROVE [Promised!Next]_(Promised!vars)
  OBVIOUS
<1>1. CASE \E n \in Names : Open(n) \/ Unlink(n)
  <2>1. Promised!Begin
    BY <1>1, BeginSim DEF Open, Unlink
  <2> QED
    BY <2>1 DEF Promised!Next
<1>2. CASE FindIt
  BY <1>2, FindSim
<1>3. CASE Alloc
  BY <1>3, AllocSim
<1>4. CASE PutPiece
  BY <1>4, PutSim
<1>5. CASE SetEntry
  BY <1>5, SetSim DEF Promised!Next
<1>6. CASE Delete
  BY <1>6, DeleteSim DEF Promised!Next
<1>7. CASE Synced
  BY <1>7, SyncedSim DEF Promised!Next
<1> QED
  BY <1>1, <1>2, <1>3, <1>4, <1>5, <1>6, <1>7, OtherSim DEF Next

LEMMA InitSim == Init => Promised!Init
<1> SUFFICES ASSUME Init PROVE Promised!Init
  OBVIOUS
<1>1. Table(slots) /\ slots = disk /\ op = NoOp /\ result = "none"
  BY InitKeeps DEF IInv, Init
<1>2. Held(slots) = {}
  BY DEF Init, Held, IsEntry, EndMark
<1>3. Objects(slots) = {}
  BY <1>1, <1>2, ObjectsAre
<1> QED
  BY <1>1, <1>3, NoCallIs DEF Promised!Init, On

\* The directory is the table of objects NameTable promises, through failures
\* and power losses: a call makes, overwrites or removes the one object of its
\* name and leaves every other as it is, and what a power loss leaves is the
\* table of some moment since the last call that succeeded (dir_register,
\* ff.c:2497; dir_remove, ff.c:2610; dir_find, ff.c:2415).  It is so up to the
\* moment at which an entry without a long name is put right behind what a call
\* cut short has left, with a checksum that fits; names that look like aliases
\* and checksums that collide do no harm before.
THEOREM TablePromiseKept == Spec => ImplementsNameTable
<1>1. Init => Promised!Init
  BY InitSim
<1>2. Guarded /\ [Next]_vars => [adopted' \/ Promised!Next]_(Promised!vars)
  <2> SUFFICES ASSUME Guarded, [Next]_vars, ~adopted' PROVE [Promised!Next]_(Promised!vars)
    OBVIOUS
  <2>1. IInv
    BY AdoptedGrows DEF Guarded
  <2> QED
    BY <2>1, StepSim
<1> QED
  BY <1>1, <1>2, Invariant, PTL DEF Spec, ImplementsNameTable
=============================================================================
