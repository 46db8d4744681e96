---------------------------- MODULE EditorProofs ----------------------------
(***************************************************************************)
(* For every size of the grid, every alphabet and every set of files: the  *)
(* document of the editor keeps its shape, its flags are never stale,      *)
(* every key edits the one text of EditorText, a save writes exactly the   *)
(* text of the document, and opening a file reads exactly its text.        *)
(***************************************************************************)
EXTENDS EditorChecks, SequenceTheorems, FiniteSetTheorems,
        WellFoundedInduction, TLAPS

\* The grid has at least one row and one column.
LEMMA RowsType == Rows \in Nat /\ Rows > 0 /\ Columns \in Nat /\ Columns > 0
  BY EditorAssumption

\* The two parts of a line around a column.
LEMMA SplitLine ==
    ASSUME NEW S, NEW s \in Seq(S), NEW x \in 0 .. Len(s)
    PROVE  /\ Before(s, x) \in Seq(S) /\ Len(Before(s, x)) = x
           /\ After(s, x) \in Seq(S) /\ Len(After(s, x)) = Len(s) - x
<1>1. Len(s) \in Nat /\ \A i \in 1 .. Len(s) : s[i] \in S
  BY LenProperties, ElementOfSeq
<1>2. Before(s, x) \in Seq(S) /\ Len(Before(s, x)) = x
  <2>1. \A i \in 1 .. x : s[i] \in S
    BY <1>1
  <2>2. x \in Int /\ (1 <= x => x - 1 + 1 = x) /\ (~(1 <= x) => x = 0)
    BY <1>1
  <2> QED
    BY <2>1, <2>2, SubSeqProperties DEF Before
<1>3. After(s, x) \in Seq(S) /\ Len(After(s, x)) = Len(s) - x
  <2>1. \A i \in x + 1 .. Len(s) : s[i] \in S
    BY <1>1
  <2>2. x + 1 \in Int /\ Len(s) \in Int
    BY <1>1
  <2>3. /\ x + 1 <= Len(s) => Len(s) - (x + 1) + 1 = Len(s) - x
        /\ ~(x + 1 <= Len(s)) => Len(s) - x = 0
    BY <1>1
  <2> QED
    BY <2>1, <2>2, <2>3, SubSeqProperties DEF After
<1> QED
  BY <1>2, <1>3

\* The line the cursor is in.
LEMMA CursorLine ==
    ASSUME DocOK
    PROVE  /\ cursor_y \in AllRows /\ Line(cursor_y) \in Seq(Chars)
           /\ Len(Line(cursor_y)) \in Nat /\ Len(Line(cursor_y)) <= Columns
           /\ \A y \in AllRows : /\ Line(y) \in Seq(Chars)
                                 /\ Len(Line(y)) \in Nat
                                 /\ Len(Line(y)) <= Columns
<1>1. cursor_y \in AllRows
  BY RowsType DEF DocOK, AllRows
<1>2. \A y \in AllRows : Line(y) \in Seq(Chars) /\ Len(Line(y)) <= Columns
  BY DEF DocOK, Line, WellFormed
<1>3. \A y \in AllRows : Len(Line(y)) \in Nat
  BY <1>2, LenProperties
<1> QED
  BY <1>1, <1>2, <1>3

\* A blank document, and a blank load_buffer.
LEMMA BlankType ==
    /\ Blank \in [AllRows -> Seq(Chars)] /\ WellFormed(Blank, 1)
    /\ Len(Blank[0]) = 0 /\ 0 \in AllRows
    /\ BlankLoad \in [lines : [AllRows -> Seq(Chars)], row : AllRows,
                     pending : BOOLEAN, pos : Nat]
    /\ BlankLoad.lines = Blank /\ BlankLoad.row = 0
<1>1. 0 \in AllRows
  BY RowsType DEF AllRows
<1>2. <<>> \in Seq(Chars) /\ Len(<<>>) = 0
  BY EmptySeq
<1>3. Blank \in [AllRows -> Seq(Chars)] /\ Len(Blank[0]) = 0
  BY <1>1, <1>2 DEF Blank
<1>4. WellFormed(Blank, 1)
  BY <1>2, RowsType DEF Blank, WellFormed
<1> QED
  BY <1>1, <1>3, <1>4 DEF BlankLoad

\* Two lines in one.
LEMMA Concat ==
    ASSUME NEW S, NEW a \in Seq(S), NEW b \in Seq(S)
    PROVE  a \o b \in Seq(S) /\ Len(a \o b) = Len(a) + Len(b)
  BY ConcatProperties

\* A character put into a line, and one taken out.
LEMMA InsertOne ==
    ASSUME NEW S, NEW s \in Seq(S), NEW x \in 0 .. Len(s), NEW c \in S
    PROVE  LET l == Before(s, x) \o <<c>> \o After(s, x)
           IN  l \in Seq(S) /\ Len(l) = Len(s) + 1
<1> DEFINE a == Before(s, x)
           b == After(s, x)
           d == a \o <<c>>
<1>1. a \in Seq(S) /\ Len(a) = x /\ b \in Seq(S) /\ Len(b) = Len(s) - x
  BY SplitLine
<1>2. <<c>> \in Seq(S) /\ Len(<<c>>) = 1
  OBVIOUS
<1> HIDE DEF a, b
<1>3. d \in Seq(S) /\ Len(d) = x + 1
  BY <1>1, <1>2, Concat
<1> HIDE DEF d
<1>4. d \o b \in Seq(S) /\ Len(d \o b) = x + 1 + (Len(s) - x)
  BY <1>1, <1>3, Concat
<1>5. Len(s) \in Nat
  BY LenProperties
<1>6. x + 1 + (Len(s) - x) = Len(s) + 1
  BY <1>5
<1> QED
  BY <1>4, <1>6 DEF a, b, d

\* A line without one of its characters.
LEMMA DeleteOne ==
    ASSUME NEW S, NEW s \in Seq(S), NEW x \in 1 .. Len(s)
    PROVE  LET l == Before(s, x - 1) \o After(s, x)
           IN  l \in Seq(S) /\ Len(l) = Len(s) - 1
<1> DEFINE a == Before(s, x - 1)
           b == After(s, x)
<1>1. Len(s) \in Nat
  BY LenProperties
<1>2. x \in 0 .. Len(s) /\ x - 1 \in 0 .. Len(s)
  BY <1>1
<1>3. a \in Seq(S) /\ Len(a) = x - 1 /\ b \in Seq(S) /\ Len(b) = Len(s) - x
  BY <1>2, SplitLine
<1> HIDE DEF a, b
<1>4. a \o b \in Seq(S) /\ Len(a \o b) = (x - 1) + (Len(s) - x)
  BY <1>3, Concat
<1>5. (x - 1) + (Len(s) - x) = Len(s) - 1
  BY <1>1
<1> QED
  BY <1>4, <1>5 DEF a, b

(***************************************************************************)
(* Keys that change the document.                                          *)
(***************************************************************************)

\* Putting a line that fits where the cursor is, with the cursor inside it,
\* keeps the document well formed.
LEMMA CursorLineChanged ==
    ASSUME DocOK, NEW l \in Seq(Chars), Len(l) \in Nat, Len(l) <= Columns,
           text' = [text EXCEPT ![cursor_y] = l],
           cursor_x' \in 0 .. Len(l), UNCHANGED <<cursor_y, line_count>>
    PROVE  DocOK'
<1>1. /\ text \in [AllRows -> Seq(Chars)] /\ line_count \in 1 .. Rows
      /\ cursor_y \in 0 .. line_count - 1 /\ cursor_y \in AllRows
      /\ \A y \in AllRows : Len(text[y]) <= Columns
                            /\ (y >= line_count => text[y] = <<>>)
  BY CursorLine DEF DocOK, WellFormed
<1>2. text' \in [AllRows -> Seq(Chars)] /\ text'[cursor_y] = l
  BY <1>1
<1>3. \A y \in AllRows : Len(text'[y]) <= Columns
                           /\ (y >= line_count' => text'[y] = <<>>)
  BY <1>1
<1> QED
  BY <1>1, <1>2, <1>3 DEF DocOK, WellFormed

\* A character is typed.
LEMMA TypeDoc ==
    ASSUME DocOK, NEW c \in Chars, Type(c)
    PROVE  DocOK'
<1> DEFINE s == Line(cursor_y)
           l == Before(s, cursor_x) \o <<c>> \o After(s, cursor_x)
<1>1. s \in Seq(Chars) /\ Len(s) \in Nat /\ cursor_x \in 0 .. Len(s)
      /\ Len(s) < Columns
  BY CursorLine DEF DocOK, Line, Type
<1>2. /\ text' = [text EXCEPT ![cursor_y] = l]
      /\ cursor_x' = cursor_x + 1 /\ UNCHANGED <<cursor_y, line_count>>
  BY DEF Type, Edited, Line
<1> HIDE DEF s
<1>3. l \in Seq(Chars) /\ Len(l) = Len(s) + 1
  BY <1>1, InsertOne
<1> HIDE DEF l
<1>4. Len(l) \in Nat /\ Len(l) <= Columns /\ cursor_x + 1 \in 0 .. Len(l)
  BY <1>1, <1>3, RowsType
<1> QED
  BY <1>2, <1>3, <1>4, CursorLineChanged

\* Backspace within a line.
LEMMA BackspaceDoc ==
    ASSUME DocOK, Backspace
    PROVE  DocOK'
<1> DEFINE s == Line(cursor_y)
           l == Before(s, cursor_x - 1) \o After(s, cursor_x)
<1>1. s \in Seq(Chars) /\ Len(s) \in Nat /\ cursor_x \in 1 .. Len(s)
      /\ Len(s) <= Columns
  BY CursorLine DEF DocOK, Line, Backspace
<1>2. /\ text' = [text EXCEPT ![cursor_y] = l]
      /\ cursor_x' = cursor_x - 1 /\ UNCHANGED <<cursor_y, line_count>>
  BY DEF Backspace, Edited, Line
<1> HIDE DEF s
<1>3. l \in Seq(Chars) /\ Len(l) = Len(s) - 1
  BY <1>1, DeleteOne
<1> HIDE DEF l
<1>4. Len(l) \in Nat /\ Len(l) <= Columns /\ cursor_x - 1 \in 0 .. Len(l)
  BY <1>1, <1>3, RowsType
<1> QED
  BY <1>2, <1>3, <1>4, CursorLineChanged

\* Enter: the rows below are shifted down.
LEMMA EnterDoc ==
    ASSUME DocOK, Enter
    PROVE  DocOK'
<1>1. /\ text \in [AllRows -> Seq(Chars)] /\ line_count \in 1 .. Rows
      /\ line_count < Rows /\ cursor_y \in 0 .. line_count - 1
      /\ cursor_y \in AllRows
      /\ \A y \in AllRows : (y >= line_count => Line(y) = <<>>)
  BY CursorLine DEF DocOK, WellFormed, Enter, Line
<1>2. \A y \in AllRows : /\ Line(y) \in Seq(Chars) /\ Len(Line(y)) \in Nat
                         /\ Len(Line(y)) <= Columns
  BY CursorLine
<1> DEFINE a == Before(Line(cursor_y), cursor_x)
           b == After(Line(cursor_y), cursor_x)
<1>3. /\ a \in Seq(Chars) /\ Len(a) <= Columns
      /\ b \in Seq(Chars) /\ Len(b) <= Columns /\ 0 <= Len(b)
  <2>1. cursor_x \in 0 .. Len(Line(cursor_y))
    BY DEF DocOK, Line
  <2>2. /\ a \in Seq(Chars) /\ Len(a) = cursor_x
        /\ b \in Seq(Chars) /\ Len(b) = Len(Line(cursor_y)) - cursor_x
    BY <1>1, <1>2, <2>1, SplitLine
  <2> QED
    BY <1>1, <1>2, <2>1, <2>2, RowsType
<1>4. /\ text' = SplitText(cursor_y, cursor_x)
      /\ line_count' = line_count + 1
      /\ cursor_x' = 0 /\ cursor_y' = cursor_y + 1
  BY DEF Enter, Edited
<1>5. /\ DOMAIN text' = AllRows /\ text' = [i \in AllRows |-> text'[i]]
      /\ \A i \in AllRows :
           text'[i] = IF i = cursor_y THEN a
                      ELSE IF i = cursor_y + 1 THEN b
                      ELSE IF cursor_y + 1 < i /\ i <= line_count THEN Line(i - 1)
                      ELSE Line(i)
  BY <1>4 DEF SplitText
<1> HIDE DEF a, b
<1>6. \A i \in AllRows : text'[i] \in Seq(Chars) /\ Len(text'[i]) <= Columns
  <2> SUFFICES ASSUME NEW i \in AllRows
               PROVE  text'[i] \in Seq(Chars) /\ Len(text'[i]) <= Columns
    OBVIOUS
  <2>1. cursor_y + 1 < i => i - 1 \in AllRows
    BY <1>1, RowsType DEF AllRows
  <2> QED
    BY <1>2, <1>3, <1>5, <2>1
<1>7. \A i \in AllRows : i >= line_count' => text'[i] = <<>>
  <2> SUFFICES ASSUME NEW i \in AllRows, i >= line_count + 1
               PROVE  text'[i] = <<>>
    BY <1>4
  <2>1. /\ i # cursor_y /\ i # cursor_y + 1 /\ ~(i <= line_count)
        /\ i >= line_count
    BY <1>1, RowsType DEF AllRows
  <2>2. text'[i] = Line(i)
    BY <1>5, <2>1
  <2> QED
    BY <1>1, <2>1, <2>2
<1>8. /\ line_count' \in 1 .. Rows /\ cursor_y' \in 0 .. line_count' - 1
      /\ text'[cursor_y'] = b
  BY <1>1, <1>4, <1>5, RowsType DEF AllRows
<1>9. cursor_x' \in 0 .. Len(text'[cursor_y']) /\ text' \in [AllRows -> Seq(Chars)]
  <2>1. Len(b) \in Nat
    BY <1>3, LenProperties
  <2> QED
    BY <1>4, <1>5, <1>6, <1>8, <2>1
<1> QED
  BY <1>6, <1>7, <1>8, <1>9 DEF DocOK, WellFormed

\* Backspace at the start of a line: the rows below are shifted up.
LEMMA JoinDoc ==
    ASSUME DocOK, Join
    PROVE  DocOK'
<1>1. /\ text \in [AllRows -> Seq(Chars)] /\ line_count \in 1 .. Rows
      /\ cursor_y \in 1 .. line_count - 1
      /\ cursor_y \in AllRows /\ cursor_y - 1 \in AllRows
      /\ \A y \in AllRows : (y >= line_count => Line(y) = <<>>)
  BY CursorLine, RowsType DEF DocOK, WellFormed, Join, Line, AllRows
<1>2. \A y \in AllRows : /\ Line(y) \in Seq(Chars) /\ Len(Line(y)) \in Nat
                         /\ Len(Line(y)) <= Columns
  BY CursorLine
<1> DEFINE l == Line(cursor_y - 1) \o Line(cursor_y)
<1>3. /\ l \in Seq(Chars) /\ Len(l) \in Nat
      /\ Len(l) = Len(Line(cursor_y - 1)) + Len(Line(cursor_y))
  BY <1>1, <1>2, Concat, LenProperties
<1>4. /\ text' = JoinedText(cursor_y) /\ line_count' = line_count - 1
      /\ cursor_x' = Len(Line(cursor_y - 1)) + Len(Line(cursor_y))
      /\ cursor_y' = cursor_y - 1
      /\ Len(Line(cursor_y - 1)) + Len(Line(cursor_y)) <= Columns
  BY DEF Join, Edited
<1>5. /\ DOMAIN text' = AllRows /\ text' = [i \in AllRows |-> text'[i]]
      /\ \A i \in AllRows :
           text'[i] = IF i = cursor_y - 1 THEN l
                      ELSE IF cursor_y <= i /\ i < line_count - 1 THEN Line(i + 1)
                      ELSE IF i = line_count - 1 THEN <<>>
                      ELSE Line(i)
  BY <1>4 DEF JoinedText
<1>a. l \in Seq(Chars) /\ Len(l) <= Columns /\ cursor_x' \in 0 .. Len(l)
  BY <1>3, <1>4
<1>b. <<>> \in Seq(Chars) /\ Len(<<>>) = 0
  BY EmptySeq
<1> HIDE DEF l
<1>6. \A i \in AllRows : text'[i] \in Seq(Chars) /\ Len(text'[i]) <= Columns
  <2> SUFFICES ASSUME NEW i \in AllRows
               PROVE  text'[i] \in Seq(Chars) /\ Len(text'[i]) <= Columns
    OBVIOUS
  <2>1. i < line_count - 1 => i + 1 \in AllRows
    BY <1>1, RowsType DEF AllRows
  <2> QED
    <3>1. CASE i = cursor_y - 1
      BY <1>a, <1>5, <3>1
    <3>2. CASE i # cursor_y - 1 /\ cursor_y <= i /\ i < line_count - 1
      BY <1>2, <1>5, <2>1, <3>2
    <3>3. CASE /\ i # cursor_y - 1 /\ ~(cursor_y <= i /\ i < line_count - 1)
               /\ i = line_count - 1
      <4>1. text'[i] = <<>>
        BY <1>5, <3>3
      <4> QED
        BY <1>b, <4>1, RowsType
    <3>4. CASE /\ i # cursor_y - 1 /\ ~(cursor_y <= i /\ i < line_count - 1)
               /\ i # line_count - 1
      BY <1>2, <1>5, <3>4
    <3> QED
      BY <3>1, <3>2, <3>3, <3>4
<1>7. \A i \in AllRows : i >= line_count' => text'[i] = <<>>
  <2> SUFFICES ASSUME NEW i \in AllRows, i >= line_count - 1
               PROVE  text'[i] = <<>>
    BY <1>4
  <2>1. /\ i # cursor_y - 1 /\ ~(i < line_count - 1)
        /\ i = line_count - 1 \/ i >= line_count
    BY <1>1, RowsType DEF AllRows
  <2>2. text'[i] = IF i = line_count - 1 THEN <<>> ELSE Line(i)
    BY <1>5, <2>1
  <2> QED
    BY <1>1, <2>1, <2>2
<1>8. /\ line_count' \in 1 .. Rows /\ cursor_y' \in 0 .. line_count' - 1
      /\ text'[cursor_y'] = l
  BY <1>1, <1>4, <1>5, RowsType DEF AllRows
<1>9. text' \in [AllRows -> Seq(Chars)]
  BY <1>5, <1>6
<1> QED
  BY <1>a, <1>6, <1>7, <1>8, <1>9 DEF DocOK, WellFormed

(***************************************************************************)
(* The other keys, and the steps that leave the document alone.            *)
(***************************************************************************)
LEMMA SameDoc ==
    ASSUME DocOK, UNCHANGED <<document, cursor>>
    PROVE  DocOK'
  BY DEF DocOK, WellFormed, document, cursor

\* The cursor keys.
LEMMA MoveDoc ==
    ASSUME DocOK, Move
    PROVE  DocOK'
<1>1. /\ cursor_y' \in 0 .. line_count - 1
      /\ cursor_x' \in 0 .. Len(text[cursor_y'])
  <2>1. /\ line_count \in 1 .. Rows /\ cursor_y \in 0 .. line_count - 1
        /\ cursor_x \in 0 .. Len(Line(cursor_y))
    BY DEF DocOK, Line
  <2>2. \A y \in 0 .. line_count - 1 : Len(Line(y)) \in Nat
    BY <2>1, CursorLine, RowsType DEF AllRows
  <2>3. CASE ArrowUp
    BY <2>1, <2>2, <2>3 DEF ArrowUp, MoveTo, AtMost, Line
  <2>4. CASE ArrowDown
    BY <2>1, <2>2, <2>4 DEF ArrowDown, MoveTo, AtMost, Line
  <2>5. CASE ArrowLeft
    BY <2>1, <2>2, <2>5 DEF ArrowLeft, MoveTo, Line
  <2>6. CASE ArrowRight
    BY <2>1, <2>2, <2>6 DEF ArrowRight, MoveTo, Line
  <2> QED
    BY <2>3, <2>4, <2>5, <2>6 DEF Move
<1>2. UNCHANGED document
  BY DEF Move, ArrowUp, ArrowDown, ArrowLeft, ArrowRight, MoveTo
<1> QED
  BY <1>1, <1>2 DEF DocOK, WellFormed, document

\* A new document.
LEMMA BlankDoc ==
    ASSUME text' = Blank, line_count' = 1, cursor_x' = 0, cursor_y' = 0
    PROVE  DocOK'
  BY BlankType, RowsType DEF DocOK, WellFormed

\* What load_document hands over is a document.
LEMMA LoadedDoc ==
    ASSUME LoadOK, LoadEnd
    PROVE  DocOK'
<1>1. /\ load.lines \in [AllRows -> Seq(Chars)] /\ load.row \in AllRows
      /\ \A y \in AllRows : Len(load.lines[y]) <= Columns
                            /\ (y >= load.row + 1 => load.lines[y] = <<>>)
  BY DEF LoadOK, WellFormed
<1>2. /\ text' = load.lines /\ line_count' = load.row + 1
      /\ cursor_x' = 0 /\ cursor_y' = 0
  BY DEF LoadEnd
<1>3. 0 \in AllRows /\ Len(load.lines[0]) \in Nat
  BY <1>1, BlankType, LenProperties
<1>4. WellFormed(text, line_count)'
  BY <1>1, <1>2 DEF WellFormed
<1>5. text' \in [AllRows -> Seq(Chars)]
  BY <1>1, <1>2
<1>6. load.row \in 0 .. Rows - 1 /\ line_count' \in 1 .. Rows
  BY <1>1, <1>2, RowsType DEF AllRows
<1>7. cursor_y' \in 0 .. line_count' - 1
  BY <1>2, <1>6, RowsType
<1>8. cursor_x' \in 0 .. Len(text'[cursor_y'])
  BY <1>2, <1>3
<1> QED
  BY <1>4, <1>5, <1>6, <1>7, <1>8 DEF DocOK

\* Every key keeps the shape of the document.
LEMMA DocStep ==
    ASSUME DocOK, LoadOK, [Next]_vars
    PROVE  DocOK'
<1>1. CASE Move
  BY <1>1, MoveDoc
<1>2. CASE Edit
  BY <1>2, TypeDoc, BackspaceDoc, JoinDoc, EnterDoc DEF Edit
<1>3. CASE Save
  <2>1. UNCHANGED <<document, cursor>>
    BY <1>3 DEF Save, SaveKey, SaveName, SaveStat, Overwrite, SaveOpen, SaveRow,
                SaveRowFails, SaveClose, SaveCloseFails, NameTyped, Confirm,
                Cancel, Goto
  <2> QED
    BY <2>1, SameDoc
<1>4. CASE Open
  <2>1. CASE LoadEnd
    BY <2>1, LoadedDoc
  <2>2. CASE ~LoadEnd
    <3>1. UNCHANGED <<document, cursor>>
      BY <1>4, <2>2 DEF Open, OpenKey, Discard, OpenName, LoadOpen, LoadReturn,
                        LoadNewline, LoadChar, LoadOther, LoadFails, NameTyped,
                        Confirm, Refused, Cancel, Goto, LoadStep
    <3> QED
      BY <3>1, SameDoc
  <2> QED
    BY <2>1, <2>2
<1>5. CASE ExitKey \/ PowerLoss
  <2>1. UNCHANGED <<document, cursor>>
    BY <1>5 DEF ExitKey, PowerLoss, Close, Goto
  <2> QED
    BY <2>1, SameDoc
<1>6. CASE Start
  BY <1>6, BlankDoc DEF Start
<1>7. CASE UNCHANGED vars
  BY <1>7, SameDoc DEF vars
<1> QED
  BY <1>1, <1>2, <1>3, <1>4, <1>5, <1>6, <1>7 DEF Next

(***************************************************************************)
(* The buffer of load_document.                                            *)
(***************************************************************************)
LEMMA SameLoad ==
    ASSUME LoadOK, UNCHANGED load
    PROVE  LoadOK'
  BY DEF LoadOK, WellFormed

\* load_buffer is cleared.
LEMMA BlankLoadOK ==
    ASSUME load' = BlankLoad
    PROVE  LoadOK'
  BY BlankType DEF LoadOK, WellFormed

\* A step that keeps the lines and does not go back a row.
LEMMA NextLoadRow ==
    ASSUME LoadOK, NEW r \in AllRows, load.row <= r, NEW p \in BOOLEAN,
           load' = [load EXCEPT !.row = r, !.pending = p, !.pos = @ + 1]
    PROVE  LoadOK'
<1>a. /\ load \in [lines : [AllRows -> Seq(Chars)], row : AllRows,
                   pending : BOOLEAN, pos : Nat]
      /\ load.lines \in [AllRows -> Seq(Chars)] /\ load.row \in AllRows
      /\ load.pos \in Nat
  BY DEF LoadOK
<1>b. load' = [lines |-> load.lines, row |-> r, pending |-> p,
               pos |-> load.pos + 1]
  BY <1>a
<1>1. /\ load' \in [lines : [AllRows -> Seq(Chars)], row : AllRows,
                     pending : BOOLEAN, pos : Nat]
      /\ load'.lines = load.lines /\ load'.row = r /\ load.row \in AllRows
  BY <1>a, <1>b
<1>2. \A y \in AllRows : y >= r + 1 => y >= load.row + 1
  BY <1>1, RowsType DEF AllRows
<1> QED
  BY <1>1, <1>2 DEF LoadOK, WellFormed

\* A line feed of a file is read.
LEMMA LoadNewlineOK ==
    ASSUME LoadOK, LoadNewline
    PROVE  LoadOK'
<1>1. /\ load.row \in AllRows /\ load.pending \in BOOLEAN
      /\ load \in [lines : [AllRows -> Seq(Chars)], row : AllRows,
                   pending : BOOLEAN, pos : Nat]
  BY DEF LoadOK
<1>2. CASE LoadStep([load EXCEPT !.pending = TRUE])
  <2>1. load' = [load EXCEPT !.row = load.row, !.pending = TRUE, !.pos = @ + 1]
    BY <1>1, <1>2 DEF LoadStep
  <2>2. load.row <= load.row
    BY <1>1, RowsType DEF AllRows
  <2> QED
    BY <1>1, <2>1, <2>2, NextLoadRow
<1>3. CASE load.row + 1 < Rows /\ LoadStep([load EXCEPT !.row = @ + 1])
  <2> DEFINE r == load.row + 1
  <2>1. r \in AllRows /\ load.row <= r
    BY <1>1, <1>3, RowsType DEF AllRows
  <2>2. load' = [load EXCEPT !.row = r, !.pending = load.pending, !.pos = @ + 1]
    BY <1>1, <1>3 DEF LoadStep
  <2> HIDE DEF r
  <2> QED
    BY <1>1, <2>1, <2>2, NextLoadRow
<1>4. CASE Refused
  BY <1>4, BlankLoadOK DEF Refused, Cancel, Leave
<1> QED
  BY <1>2, <1>3, <1>4 DEF LoadNewline

\* A character of a file is read.
LEMMA LoadCharOK ==
    ASSUME LoadOK, Fits, NextByte \in Chars,
           LoadStep([load EXCEPT !.lines[LoadRow] = Append(@, NextByte),
                                 !.row = LoadRow, !.pending = FALSE])
    PROVE  LoadOK'
<1> DEFINE l == Append(load.lines[LoadRow], NextByte)
<1>1. /\ load \in [lines : [AllRows -> Seq(Chars)], row : AllRows,
                   pending : BOOLEAN, pos : Nat]
      /\ load.lines \in [AllRows -> Seq(Chars)] /\ load.row \in AllRows
      /\ \A y \in AllRows : Len(load.lines[y]) <= Columns
                            /\ (y >= load.row + 1 => load.lines[y] = <<>>)
  BY DEF LoadOK, WellFormed
<1>2. LoadRow \in AllRows /\ load.row <= LoadRow
  BY <1>1, RowsType DEF LoadRow, Fits, AllRows
<1>3. l \in Seq(Chars) /\ Len(l) <= Columns
  <2>1. /\ load.lines[LoadRow] \in Seq(Chars) /\ Len(load.lines[LoadRow]) \in Nat
        /\ Len(load.lines[LoadRow]) < Columns
    BY <1>1, <1>2, LenProperties DEF Fits
  <2> QED
    BY <2>1, AppendProperties, RowsType
<1>4. load' = [lines |-> [load.lines EXCEPT ![LoadRow] = l], row |-> LoadRow,
               pending |-> FALSE, pos |-> load.pos + 1]
  BY <1>1 DEF LoadStep
<1> HIDE DEF l
<1>5. load' \in [lines : [AllRows -> Seq(Chars)], row : AllRows,
                 pending : BOOLEAN, pos : Nat]
  BY <1>1, <1>2, <1>3, <1>4
<1>6. \A y \in AllRows : /\ Len(load'.lines[y]) <= Columns
                         /\ y >= LoadRow + 1 => load'.lines[y] = <<>>
  BY <1>1, <1>2, <1>3, <1>4, RowsType DEF AllRows
<1>7. load'.row = LoadRow
  BY <1>4
<1> HIDE DEF LoadRow
<1> QED
  BY <1>5, <1>6, <1>7 DEF LoadOK, WellFormed

\* Every byte of a file keeps the shape of load_buffer.
LEMMA LoadStepOK ==
    ASSUME LoadOK, [Next]_vars
    PROVE  LoadOK'
<1>1. CASE LoadReturn
  <2>1. load' = [load EXCEPT !.row = load.row, !.pending = load.pending, !.pos = @ + 1]
    BY <1>1 DEF LoadReturn, LoadStep, LoadOK
  <2>2. load.row \in AllRows /\ load.row <= load.row /\ load.pending \in BOOLEAN
    BY RowsType DEF LoadOK, AllRows
  <2> QED
    BY <2>1, <2>2, NextLoadRow
<1>2. CASE LoadNewline
  BY <1>2, LoadNewlineOK
<1>3. CASE LoadChar
  BY <1>3, LoadCharOK, BlankLoadOK DEF LoadChar, Refused, Cancel, Leave
<1>4. CASE ~LoadReturn /\ ~LoadNewline /\ ~LoadChar
  <2>1. load' = BlankLoad \/ UNCHANGED load
    <3>1. CASE Move \/ Edit
      BY <3>1 DEF Move, Edit, ArrowUp, ArrowDown, ArrowLeft, ArrowRight, MoveTo,
                  Type, Backspace, Join, Enter, Edited
    <3>2. CASE Save
      BY <3>2 DEF Save, SaveKey, SaveName, SaveStat, Overwrite, SaveOpen, SaveRow,
                  SaveRowFails, SaveClose, SaveCloseFails, NameTyped, Confirm,
                  Cancel, Leave, Goto
    <3>3. CASE Open
      BY <1>4, <3>3 DEF Open, OpenKey, Discard, OpenName, LoadOpen, LoadOther,
                        LoadFails, LoadEnd, NameTyped, Confirm, Refused, Cancel,
                        Leave, Goto
    <3>4. CASE ExitKey \/ PowerLoss \/ Start \/ UNCHANGED vars
      BY <3>4 DEF ExitKey, PowerLoss, Close, Goto, Start, Leave, vars
    <3> QED
      BY <3>1, <3>2, <3>3, <3>4 DEF Next
  <2> QED
    BY <2>1, SameLoad, BlankLoadOK
<1> QED
  BY <1>1, <1>2, <1>3, <1>4

(***************************************************************************)
(* The dialogs and the files.                                              *)
(***************************************************************************)
LEMMA DialogStep ==
    ASSUME DialogOK, DocOK, [Next]_vars
    PROVE  DialogOK'
<1>1. CASE Move \/ Edit
  BY <1>1 DEF Move, Edit, ArrowUp, ArrowDown, ArrowLeft, ArrowRight, MoveTo, Type,
              Backspace, Join, Enter, Edited, DialogOK, flags
<1>2. 0 \in 0 .. Rows /\ line_count \in 1 .. Rows
  BY RowsType DEF DocOK
<1>3. CASE SaveKey \/ SaveName \/ SaveStat \/ Overwrite
  BY <1>2, <1>3 DEF SaveKey, SaveName, SaveStat, Overwrite, NameTyped, Confirm,
                    Cancel, Leave, Goto, DialogOK, Steps, flags
<1>4. CASE SaveOpen \/ SaveRowFails \/ SaveClose \/ SaveCloseFails
  BY <1>2, <1>4 DEF SaveOpen, SaveRowFails, SaveClose, SaveCloseFails, Cancel,
                    Leave, Goto, DialogOK, Steps, flags
<1>5. CASE SaveRow
  <2>1. row + 1 \in 0 .. Rows
    BY <1>2, <1>5, RowsType DEF SaveRow, DialogOK
  <2> QED
    BY <1>5, <2>1 DEF SaveRow, DialogOK, flags
<1>6. CASE Open
  BY <1>2, <1>6 DEF Open, OpenKey, Discard, OpenName, LoadOpen, LoadReturn,
                    LoadNewline, LoadChar, LoadOther, LoadFails, LoadEnd,
                    NameTyped, Confirm, Refused, Cancel, Leave, Goto, LoadStep,
                    DialogOK, Steps, flags
<1>7. CASE ExitKey \/ PowerLoss \/ Start
  BY <1>2, <1>7 DEF ExitKey, PowerLoss, Close, Goto, Start, Leave, DialogOK,
                    Steps, flags
<1>8. CASE UNCHANGED vars
  BY <1>8 DEF vars, DialogOK, flags
<1> QED
  BY <1>1, <1>3, <1>4, <1>5, <1>6, <1>7, <1>8 DEF Next, Save

\* The bytes written for a row, whole or cut short.
LEMMA PieceType ==
    ASSUME DocOK, row \in AllRows
    PROVE  /\ Piece(row) \in Seq(Bytes)
           /\ \A n \in 0 .. Len(Piece(row)) : Before(Piece(row), n) \in Seq(Bytes)
<1>1. Line(row) \in Seq(Bytes)
  <2>1. Line(row) \in Seq(Chars)
    BY CursorLine
  <2>2. /\ Len(Line(row)) \in Nat
        /\ Line(row) \in [1 .. Len(Line(row)) -> Bytes]
    BY <2>1, LenProperties, ElementOfSeq DEF Bytes
  <2> QED
    BY <2>2, SeqDef
<1>2. <<Return, Newline>> \in Seq(Bytes) /\ <<>> \in Seq(Bytes)
  BY DEF Bytes
<1>3. Piece(row) \in Seq(Bytes)
  BY <1>1, <1>2, Concat DEF Piece
<1> HIDE DEF Piece
<1> QED
  BY <1>3, SplitLine

\* The dialogs, saves and loads keep the invariant.
LEMMA FilesStep ==
    ASSUME IInv, [Next]_vars
    PROVE  FilesOK'
<1> DEFINE File == Seq(Bytes) \cup {NoFile, Directory}
<1>1. /\ files \in [Names -> File]
      /\ pc \in {"save_row", "load"} => files[filename] \in Seq(Bytes)
      /\ pc \in {"save_row", "load", "save_open", "load_open"} => filename \in Names
      /\ row \in 0 .. Rows /\ DocOK
  BY DEF IInv, FilesOK, DialogOK
<1>2. <<>> \in Seq(Bytes)
  BY EmptySeq
<1>3. pc = "save_open" =>
        Emptied \in [Names -> File] /\ Emptied[filename] \in Seq(Bytes)
  BY <1>1, <1>2 DEF Emptied
<1>4. pc = "save_row" => Emptied \in [Names -> File]
  BY <1>1, <1>2 DEF Emptied
<1>5. ASSUME NEW b \in Seq(Bytes), pc = "save_row",
             files' = [files EXCEPT ![filename] = @ \o b]
      PROVE  files' \in [Names -> File] /\ files'[filename] \in Seq(Bytes)
  <2>1. files[filename] \o b \in Seq(Bytes)
    BY <1>1, <1>5, Concat
  <2> QED
    BY <1>1, <1>5, <2>1
<1>6. pc = "save_row" /\ row < line_count => row \in AllRows
  BY <1>1, RowsType DEF DocOK, AllRows
<1>7. CASE SaveRow
  <2>1. Piece(row) \in Seq(Bytes)
    BY <1>1, <1>6, <1>7, PieceType DEF SaveRow
  <2>2. files' \in [Names -> File] /\ files'[filename] \in Seq(Bytes)
    BY <1>5, <1>7, <2>1 DEF SaveRow
  <2>3. UNCHANGED filename
    BY <1>7 DEF SaveRow
  <2> QED
    BY <2>2, <2>3 DEF FilesOK
<1>8. CASE SaveRowFails
  <2>1. PICK n \in 0 .. Len(Piece(row)) :
          files' = [files EXCEPT ![filename] = @ \o Before(Piece(row), n)]
    BY <1>8 DEF SaveRowFails
  <2>2. Before(Piece(row), n) \in Seq(Bytes)
    BY <1>1, <1>6, <1>8, <2>1, PieceType DEF SaveRowFails
  <2>3. files' \in [Names -> File] /\ pc' = "edit"
    BY <1>5, <1>8, <2>1, <2>2 DEF SaveRowFails, Cancel, Leave
  <2> QED
    BY <2>3 DEF FilesOK
<1>9. CASE SaveOpen
  BY <1>1, <1>3, <1>9 DEF SaveOpen, Cancel, Leave, Goto, FilesOK
<1>10. CASE SaveCloseFails
  BY <1>1, <1>4, <1>10 DEF SaveCloseFails, Cancel, Leave, FilesOK
<1>11. CASE LoadOpen
  <2>1. CASE Refused
    BY <1>1, <2>1 DEF Refused, Cancel, Leave, FilesOK
  <2>2. CASE Exists(filename) /\ UNCHANGED <<filename, files>>
    <3>1. filename \in Names /\ files[filename] \in Seq(Bytes)
      BY <1>1, <1>11, <2>2 DEF LoadOpen, Exists
    <3> QED
      BY <1>1, <2>2, <3>1 DEF FilesOK
  <2> QED
    BY <1>11, <2>1, <2>2 DEF LoadOpen
<1>12. CASE LoadReturn \/ LoadNewline \/ LoadChar
  <2>1. UNCHANGED files /\ (UNCHANGED <<pc, filename>> \/ pc' = "edit")
    BY <1>12 DEF LoadReturn, LoadNewline, LoadChar, LoadStep, Refused, Cancel, Leave
  <2> QED
    BY <1>1, <2>1 DEF FilesOK
<1>13. CASE Move \/ Edit
  BY <1>1, <1>13 DEF Move, Edit, ArrowUp, ArrowDown, ArrowLeft, ArrowRight, MoveTo,
                     Type, Backspace, Join, Enter, Edited, FilesOK
<1>14. CASE SaveKey \/ SaveName \/ SaveStat \/ Overwrite \/ SaveClose
  <2>1. UNCHANGED files /\ pc' \notin {"save_row", "load"}
    BY <1>14 DEF SaveKey, SaveName, SaveStat, Overwrite, SaveClose, NameTyped,
                 Confirm, Cancel, Leave, Goto
  <2> QED
    BY <1>1, <2>1 DEF FilesOK
<1>15. CASE \/ OpenKey \/ Discard \/ OpenName \/ LoadOther \/ LoadFails \/ LoadEnd
            \/ ExitKey \/ PowerLoss \/ Start
  <2>1. UNCHANGED files /\ pc' \notin {"save_row", "load"}
    BY <1>15 DEF OpenKey, Discard, OpenName, LoadOther, LoadFails, LoadEnd,
                 NameTyped, Confirm, Refused, Cancel, Leave, Goto, ExitKey,
                 PowerLoss, Close, Start
  <2> QED
    BY <1>1, <2>1 DEF FilesOK
<1>16. CASE UNCHANGED vars
  BY <1>1, <1>16 DEF vars, FilesOK
<1> QED
  BY <1>7, <1>8, <1>9, <1>10, <1>11, <1>12, <1>13, <1>14, <1>15, <1>16
     DEF Next, Save, Open

(***************************************************************************)
(* The theorems.                                                           *)
(***************************************************************************)
LEMMA InitHolds == Init => IInv
<1> SUFFICES ASSUME Init PROVE IInv
  OBVIOUS
<1>1. DocOK
  BY BlankType, RowsType DEF Init, DocOK
<1>2. LoadOK
  BY BlankType DEF Init, LoadOK, WellFormed
<1>3. DialogOK
  <2>1. /\ pc = "edit" /\ current_filename = NoName /\ filename = NoName
        /\ has_unsaved_changes = FALSE /\ confirmed = FALSE /\ row = 0
    BY DEF Init
  <2>2. 0 \in 0 .. Rows
    BY RowsType
  <2> QED
    BY <2>1, <2>2 DEF DialogOK, Steps
<1>4. Contents \subseteq Seq(Bytes)
  BY EditorAssumption DEF Bytes
<1>5. /\ files \in [Names -> Seq(Bytes) \cup {NoFile, Directory}]
      /\ pc = "edit"
  <2>1. files \in [Names -> Contents \cup {NoFile, Directory}] /\ pc = "edit"
    BY DEF Init
  <2> QED
    BY <1>4, <2>1
<1>6. FilesOK
  BY <1>5 DEF FilesOK
<1> QED
  BY <1>1, <1>2, <1>3, <1>6 DEF IInv

\* IInv is inductive.
LEMMA StepHolds == IInv /\ [Next]_vars => IInv'
  BY DocStep, LoadStepOK, DialogStep, FilesStep DEF IInv

\* What the invariant is for.
LEMMA IInvImplies == IInv => TypeOK /\ Shape
<1> SUFFICES ASSUME IInv PROVE TypeOK /\ Shape
  OBVIOUS
<1>1. /\ cursor_y \in AllRows /\ Len(text[cursor_y]) \in Nat
      /\ Len(text[cursor_y]) <= Columns
  BY CursorLine DEF IInv, Line
<1>2. cursor_x \in 0 .. Columns /\ cursor_y \in 0 .. Rows - 1
  BY <1>1, RowsType DEF IInv, DocOK, AllRows
<1>3. TypeOK
  BY <1>2 DEF IInv, DocOK, LoadOK, DialogOK, FilesOK, TypeOK
<1>4. Shape
  BY <1>1 DEF IInv, DocOK, Shape
<1> QED
  BY <1>3, <1>4

\* For every size of the grid, every alphabet and every directory: whatever is
\* typed, saved, loaded or restarted, and whatever fails, no line of
\* myeditor.c's grid is longer than EDITOR_COLUMNS, the rows after line_count
\* are empty and the cursor is inside a line, so that no helper indexes
\* outside the grid.
THEOREM GridCorrect == Spec => [](TypeOK /\ Shape)
<1>1. Spec => []IInv
  BY InitHolds, StepHolds, PTL DEF Spec
<1> QED
  BY <1>1, IInvImplies, PTL

(***************************************************************************)
(* The questions come first.                                               *)
(***************************************************************************)
\* What the dialogs have established when a file is written or opened.
Asked ==
    /\ pc = "save_name" => current_filename = NoName
    /\ pc = "save_stat" => current_filename \in {NoName, filename}
    /\ pc = "save_open" /\ Exists(filename) =>
          filename = current_filename \/ confirmed
    /\ pc \in {"open_name", "load_open", "load"} /\ has_unsaved_changes =>
          confirmed

LEMMA AskedStep == ASSUME Asked, [Next]_vars PROVE Asked'
<1>1. CASE Move \/ Edit
  <2>1. pc = "edit" /\ pc' = pc
    BY <1>1 DEF Move, Edit, ArrowUp, ArrowDown, ArrowLeft, ArrowRight, MoveTo,
                Type, Backspace, Join, Enter, Edited
  <2> QED
    BY <2>1 DEF Asked
<1>2. CASE SaveKey \/ SaveName
  <2>1. \/ pc' = "edit"
        \/ pc' = "save_name" /\ current_filename' = NoName
        \/ pc' = "save_stat" /\ current_filename' \in {NoName, filename'}
    BY <1>2 DEF SaveKey, SaveName, NameTyped, Cancel, Leave, Goto, flags, Asked
  <2> QED
    BY <2>1 DEF Asked
<1>3. CASE SaveStat
  <2>1. \/ pc' \in {"edit", "overwrite"}
        \/ /\ pc' = "save_open" /\ UNCHANGED <<filename, current_filename, files>>
           /\ Exists(filename) => current_filename # NoName
    BY <1>3 DEF SaveStat, Cancel, Leave, Goto, flags, Exists
  <2>2. current_filename \in {NoName, filename}
    BY <1>3 DEF SaveStat, Asked
  <2> QED
    BY <2>1, <2>2 DEF Asked, Exists
<1>4. CASE Overwrite
  BY <1>4 DEF Overwrite, Confirm, Cancel, Leave, Goto, Asked
<1>5. CASE SaveOpen \/ SaveRow \/ SaveRowFails \/ SaveClose \/ SaveCloseFails
  <2>1. pc' \in {"edit", "save_row"}
    BY <1>5 DEF SaveOpen, SaveRow, SaveRowFails, SaveClose, SaveCloseFails,
                Cancel, Leave, Goto
  <2> QED
    BY <2>1 DEF Asked
<1>6. CASE OpenKey \/ Discard
  <2>1. \/ pc' \in {"edit", "discard"}
        \/ pc' = "open_name" /\ (has_unsaved_changes' => confirmed')
    BY <1>6 DEF OpenKey, Discard, Confirm, Cancel, Leave, Goto, flags
  <2> QED
    BY <2>1 DEF Asked
<1>7. CASE OpenName \/ LoadOpen
  <2>1. pc \in {"open_name", "load_open"}
    BY <1>7 DEF OpenName, LoadOpen
  <2>2. \/ pc' = "edit"
        \/ /\ pc' \in {"load_open", "load"}
           /\ UNCHANGED <<confirmed, has_unsaved_changes>>
    BY <1>7 DEF OpenName, LoadOpen, NameTyped, Refused, Cancel, Leave, Goto, flags
  <2> QED
    BY <2>1, <2>2 DEF Asked
<1>8. CASE LoadReturn \/ LoadNewline \/ LoadChar \/ LoadOther \/ LoadFails
  <2>1. Reading \/ pc = "load"
    BY <1>8 DEF LoadReturn, LoadNewline, LoadChar, LoadOther, LoadFails
  <2>2. pc = "load"
    BY <2>1 DEF Reading
  <2>3. \/ pc' = "edit"
        \/ UNCHANGED <<pc, confirmed, has_unsaved_changes>>
    <3>1. CASE LoadReturn
      BY <3>1 DEF LoadReturn, LoadStep, flags
    <3>2. CASE LoadNewline
      BY <3>2 DEF LoadNewline, LoadStep, Refused, Cancel, Leave, Goto, flags
    <3>3. CASE LoadChar
      BY <3>3 DEF LoadChar, LoadStep, Refused, Cancel, Leave, Goto, flags
    <3>4. CASE LoadOther \/ LoadFails
      BY <3>4 DEF LoadOther, LoadFails, Refused, Cancel, Leave, Goto
    <3> QED
      BY <1>8, <3>1, <3>2, <3>3, <3>4
  <2> QED
    BY <2>2, <2>3 DEF Asked
<1>9. CASE LoadEnd \/ ExitKey \/ PowerLoss \/ Start
  <2>1. pc' \in {"edit", "closed"}
    BY <1>9 DEF LoadEnd, ExitKey, PowerLoss, Start, Leave, Close, Goto
  <2> QED
    BY <2>1 DEF Asked
<1>10. CASE UNCHANGED vars
  BY <1>10 DEF vars, flags, Asked, Exists
<1> QED
  BY <1>1, <1>2, <1>3, <1>4, <1>5, <1>6, <1>7, <1>8, <1>9, <1>10
  DEF Next, Save, Open

\* Only a save writes, and only to the file it names.
LEMMA OnlyFilename ==
    ASSUME IInv, [Next]_vars, files' # files
    PROVE  /\ pc \in {"save_open", "save_row"}
           /\ \A n \in Names : n # filename => files'[n] = files[n]
<1>1. SaveOpen \/ SaveRow \/ SaveRowFails \/ SaveCloseFails
  BY DEF Next, vars, Move, Edit, ArrowUp, ArrowDown, ArrowLeft, ArrowRight,
         MoveTo, Type, Backspace, Join, Enter, Edited, Save, SaveKey, SaveName,
         SaveStat, Overwrite, SaveClose, Open, OpenKey, Discard, OpenName,
         LoadOpen, LoadReturn, LoadNewline, LoadChar, LoadOther, LoadFails,
         LoadEnd, LoadStep, NameTyped, Confirm, Refused, ExitKey, PowerLoss,
         Close, Start
<1>2. \E b : files' = [files EXCEPT ![filename] = b]
  BY <1>1 DEF SaveOpen, SaveRow, SaveRowFails, SaveCloseFails, Emptied
<1>3. \A n \in Names : n # filename => files'[n] = files[n]
  BY <1>2 DEF IInv, FilesOK
<1> QED
  BY <1>1, <1>3 DEF SaveOpen, SaveRow, SaveRowFails, SaveCloseFails

\* What the flags say of the history.
LEMMA FlagsStep == ASSUME FlagsTell, [HNext]_hvars PROVE FlagsTell'
<1>1. CASE UNCHANGED hvars
  BY <1>1 DEF hvars, vars, flags, document, FlagsTell
<1>2. CASE HNext /\ Settles
  <2>1. SaveClose \/ LoadEnd \/ Start
    BY <1>2 DEF Settles
  <2>2. kept' = document' /\ home' = (IF Start THEN NoName ELSE filename)
    BY <1>2 DEF HNext, Remember
  <2>3. CASE Start
    BY <2>2, <2>3 DEF Start, FlagsTell
  <2>4. CASE ~Start /\ SaveClose
    BY <2>2, <2>4 DEF SaveClose, FlagsTell
  <2>5. CASE ~Start /\ LoadEnd
    BY <2>2, <2>5 DEF LoadEnd, FlagsTell
  <2> QED
    BY <2>1, <2>3, <2>4, <2>5
<1>3. CASE HNext /\ ~Settles
  <2>1. Next /\ kept' = kept /\ home' = home
    BY <1>3 DEF HNext, Remember
  <2>2. ~SaveClose /\ ~LoadEnd /\ ~Start
    BY <1>3 DEF Settles
  <2>3. CASE Edit
    <3>1. has_unsaved_changes' = TRUE /\ current_filename' = current_filename
      BY <2>3 DEF Edit, Type, Backspace, Join, Enter, Edited
    <3> QED
      BY <2>1, <3>1 DEF FlagsTell
  <2>4. CASE ~Edit
    <3>1. UNCHANGED <<document, flags>>
      BY <2>1, <2>2, <2>4
      DEF Next, Move, ArrowUp, ArrowDown, ArrowLeft, ArrowRight, MoveTo, Save,
          SaveKey, SaveName, SaveStat, Overwrite, SaveOpen, SaveRow,
          SaveRowFails, SaveCloseFails, Open, OpenKey, Discard, OpenName,
          LoadOpen, LoadReturn, LoadNewline, LoadChar, LoadOther, LoadFails,
          LoadStep, NameTyped, Confirm, Refused, Cancel, Goto, ExitKey,
          PowerLoss, Close
    <3> QED
      BY <2>1, <3>1 DEF flags, FlagsTell
  <2> QED
    BY <2>3, <2>4
<1> QED
  BY <1>1, <1>2, <1>3

\* For every grid, every alphabet and every directory: has_unsaved_changes and
\* has_filename are never stale (save_file, load_document and myeditor,
\* myeditor.c).
THEOREM FlagsNeverStale == HSpec => []FlagsTell
<1>1. HInit => FlagsTell
  BY DEF HInit, Init, FlagsTell
<1>2. FlagsTell /\ [HNext]_hvars => FlagsTell'
  BY FlagsStep
<1> QED
  BY <1>1, <1>2, PTL DEF HSpec

\* For every grid and every directory: a file only changes when it is saved,
\* one that exists and is not that of the last load or save only after a yes,
\* and a document that is not as it was last loaded or saved is replaced by
\* another only after a yes (save_file and open_file, myeditor.c).
THEOREM QuestionsFirst == HSpec => AskedFirst
<1> DEFINE HInv == IInv /\ Asked /\ FlagsTell
<1>1. HInit => HInv
  BY InitHolds DEF HInit, Init, Asked, FlagsTell
<1>2. [HNext]_hvars => [Next]_vars
  BY DEF HNext, hvars
<1>3. HInv /\ [HNext]_hvars => HInv'
  BY <1>2, StepHolds, AskedStep, FlagsStep
<1>4. HInv /\ [HNext]_hvars =>
        [/\ \A n \in Names : files'[n] # files[n] =>
              n = filename /\ pc \in {"save_open", "save_row"}
         /\ pc = "save_open" /\ Exists(filename) /\ files' # files =>
              filename = home \/ confirmed
         /\ pc = "load" /\ document' # document =>
              document = kept \/ confirmed]_vars
  <2> SUFFICES ASSUME IInv, Asked, FlagsTell, [Next]_vars
               PROVE  /\ \A n \in Names : files'[n] # files[n] =>
                            n = filename /\ pc \in {"save_open", "save_row"}
                      /\ pc = "save_open" /\ Exists(filename) /\ files' # files =>
                            filename = home \/ confirmed
                      /\ pc = "load" /\ document' # document =>
                            document = kept \/ confirmed
    BY <1>2
  <2>1. ASSUME NEW n \in Names, files'[n] # files[n]
        PROVE  n = filename /\ pc \in {"save_open", "save_row"}
    BY <2>1, OnlyFilename
  <2>2. pc = "save_open" /\ Exists(filename) => filename = home \/ confirmed
    BY DEF Asked, FlagsTell
  <2>3. pc = "load" => document = kept \/ confirmed
    BY DEF Asked, FlagsTell, IInv, DialogOK
  <2> QED
    BY <2>1, <2>2, <2>3
<1> QED
  BY <1>1, <1>3, <1>4, PTL DEF HSpec, AskedFirst

(***************************************************************************)
(* The document read as one text.                                          *)
(***************************************************************************)
\* A sequence taken apart where two were put together.
LEMMA Cut ==
    ASSUME NEW S, NEW a \in Seq(S), NEW b \in Seq(S)
    PROVE  /\ SubSeq(a \o b, 1, Len(a)) = a
           /\ SubSeq(a \o b, Len(a) + 1, Len(a \o b)) = b
<1> DEFINE c == a \o b
<1>1. /\ c \in Seq(S) /\ Len(c) = Len(a) + Len(b) /\ Len(a) \in Nat /\ Len(b) \in Nat
      /\ \A i \in 1 .. Len(a) + Len(b) : c[i] = IF i <= Len(a) THEN a[i] ELSE b[i - Len(a)]
      /\ \A i \in 1 .. Len(c) : c[i] \in S
  BY ConcatProperties, LenProperties, ElementOfSeq
<1> HIDE DEF c
<1>2. SubSeq(c, 1, Len(a)) = a
  <2> DEFINE s == SubSeq(c, 1, Len(a))
  <2>1. \A i \in 1 .. Len(a) : c[i] \in S
    BY <1>1
  <2>2. /\ s \in Seq(S) /\ Len(s) = IF 1 <= Len(a) THEN Len(a) - 1 + 1 ELSE 0
        /\ \A i \in 1 .. Len(a) - 1 + 1 : s[i] = c[1 + i - 1]
    BY <1>1, <2>1, SubSeqProperties
  <2> HIDE DEF s
  <2>3. Len(s) = Len(a)
    BY <1>1, <2>2
  <2>4. \A i \in 1 .. Len(s) : s[i] = a[i]
    BY <1>1, <2>2, <2>3
  <2>5. s = a
    BY <2>2, <2>3, <2>4, SeqEqual
  <2> QED
    BY <2>5 DEF s
<1>3. SubSeq(c, Len(a) + 1, Len(c)) = b
  <2> DEFINE s == SubSeq(c, Len(a) + 1, Len(c))
             m == Len(a) + 1
             n == Len(c)
  <2>1. m \in Int /\ n \in Int /\ \A i \in m .. n : c[i] \in S
    BY <1>1
  <2>2. /\ SubSeq(c, m, n) \in Seq(S) /\ Len(SubSeq(c, m, n)) = IF m <= n THEN n - m + 1 ELSE 0
        /\ \A i \in 1 .. n - m + 1 : SubSeq(c, m, n)[i] = c[m + i - 1]
    <3> HIDE DEF m, n
    <3> QED
      BY <2>1, SubSeqProperties
  <2>3. Len(s) = Len(b) /\ n - m + 1 = Len(b) /\ s \in Seq(S)
    BY <1>1, <2>2
  <2>4. \A i \in 1 .. Len(b) : s[i] = c[m + i - 1]
    BY <2>2, <2>3
  <2> HIDE DEF s
  <2>5. \A i \in 1 .. Len(b) : s[i] = b[i]
    BY <1>1, <2>4
  <2>6. s = b
    BY <2>3, <2>5, SeqEqual
  <2> QED
    BY <2>6 DEF s
<1> QED
  BY <1>2, <1>3 DEF c

(***************************************************************************)
(* Induction over rows: a set that has 0 and, with every i - 1, i.         *)
(***************************************************************************)
LEMMA Induction ==
    ASSUME NEW n \in Nat, NEW S, 0 \in S, \A i \in 1 .. n : i - 1 \in S => i \in S
    PROVE  0 .. n \subseteq S
<1> DEFINE T == {i \in 0 .. n : i \notin S}
           R == OpToRel(<, Nat)
<1> SUFFICES ASSUME T # {} PROVE FALSE
  OBVIOUS
<1>1. T \in SUBSET Nat
  OBVIOUS
<1>2. IsWellFoundedOn(R, Nat)
  BY NatLessThanWellFounded
<1>3. \A x, y \in Nat : x < y => <<x, y>> \in R
  BY DEF OpToRel
<1> HIDE DEF R, T
<1>4. PICK i \in T : \A j \in T : ~(<<j, i>> \in R)
  BY <1>1, <1>2, WFMin
<1>5. i \in 0 .. n /\ i \notin S
  BY DEF T
<1>6. i \in 1 .. n /\ i - 1 \in 0 .. n /\ i - 1 \in Nat /\ i \in Nat /\ i - 1 < i
  BY <1>5
<1>7. i - 1 \notin T
  BY <1>3, <1>4, <1>6
<1> QED
  BY <1>5, <1>6, <1>7 DEF T

Letters == Chars \cup {Newline}
AsRows  == [AllRows -> Seq(Chars)]

JoinIs(f, t, n) == f = [y \in 0 .. n |-> IF y = 0 THEN t[0] ELSE f[y - 1] \o <<Newline>> \o t[y]]
Joining(t)      == CHOOSE f : JoinIs(f, t, Rows - 1)

\* What is ahead of a row in the text.
Ahead(t, y) == IF y = 0 THEN <<>> ELSE Joining(t)[y - 1] \o <<Newline>>

LEMMA Glued == \A a, b \in Seq(Letters) : a \o b \in Seq(Letters) /\ Len(a \o b) = Len(a) + Len(b)
  BY ConcatProperties

LEMMA Regroup == \A a, b, c \in Seq(Letters) : (a \o b) \o c = a \o (b \o c)
  BY ConcatAssociative

LEMMA Lengths == \A a \in Seq(Letters) : Len(a) \in Nat
  BY LenProperties

LEMMA Ends ==
    /\ <<>> \in Seq(Letters) /\ <<Newline>> \in Seq(Letters) /\ Len(<<Newline>>) = 1
    /\ \A a \in Seq(Letters) : a \o <<>> = a
<1>1. Newline \in Letters
  BY DEF Letters
<1>2. <<Newline>> \in Seq(Letters) /\ Len(<<Newline>>) = 1
  BY <1>1
<1>3. <<>> \in Seq(Letters)
  BY EmptySeq
<1>4. \A a \in Seq(Letters) : a \o <<>> = a
  BY ConcatEmptySeq
<1> QED
  BY <1>2, <1>3, <1>4

\* Where the elements of three sequences are when they are one.
LEMMA Joint ==
    ASSUME NEW a \in Seq(Letters), NEW b \in Seq(Letters), NEW c \in Seq(Letters)
    PROVE  /\ a \o b \o c \in Seq(Letters) /\ Len(a \o b \o c) = Len(a) + Len(b) + Len(c)
           /\ \A i \in 1 .. Len(a) : (a \o b \o c)[i] = a[i]
           /\ \A i \in 1 .. Len(b) : (a \o b \o c)[Len(a) + i] = b[i]
           /\ \A i \in 1 .. Len(c) : (a \o b \o c)[Len(a) + Len(b) + i] = c[i]
<1> DEFINE d == a \o b
<1>1. /\ d \in Seq(Letters) /\ Len(d) = Len(a) + Len(b) /\ Len(a) \in Nat /\ Len(b) \in Nat /\ Len(c) \in Nat
      /\ \A i \in 1 .. Len(a) + Len(b) : d[i] = IF i <= Len(a) THEN a[i] ELSE b[i - Len(a)]
  BY ConcatProperties, LenProperties
<1> HIDE DEF d
<1>2. /\ d \o c \in Seq(Letters) /\ Len(d \o c) = Len(d) + Len(c)
      /\ \A i \in 1 .. Len(d) + Len(c) : (d \o c)[i] = IF i <= Len(d) THEN d[i] ELSE c[i - Len(d)]
  <2>1. d \in Seq(Letters)
    BY <1>1
  <2> QED
    BY <2>1, ConcatProperties
<1> DEFINE e == d \o c
<1> HIDE DEF e
<1>3. \A i \in 1 .. Len(a) : e[i] = a[i]
  <2> SUFFICES ASSUME NEW i \in 1 .. Len(a) PROVE e[i] = a[i]
    OBVIOUS
  <2>1. i \in 1 .. Len(d) + Len(c) /\ i <= Len(d) /\ i \in 1 .. Len(a) + Len(b) /\ i <= Len(a)
    BY <1>1
  <2> QED
    BY <1>1, <1>2, <2>1 DEF e
<1>4. \A i \in 1 .. Len(b) : e[Len(a) + i] = b[i]
  <2> SUFFICES ASSUME NEW i \in 1 .. Len(b) PROVE e[Len(a) + i] = b[i]
    OBVIOUS
  <2> DEFINE j == Len(a) + i
  <2>1. j \in 1 .. Len(d) /\ j \in 1 .. Len(d) + Len(c) /\ j <= Len(d) /\ ~(j <= Len(a)) /\ j - Len(a) = i
    BY <1>1
  <2> HIDE DEF j
  <2>2. e[j] = d[j] /\ d[j] = b[i]
    BY <1>1, <1>2, <2>1 DEF e
  <2> QED
    BY <2>2 DEF j
<1>5. \A i \in 1 .. Len(c) : e[Len(a) + Len(b) + i] = c[i]
  <2> SUFFICES ASSUME NEW i \in 1 .. Len(c) PROVE e[Len(a) + Len(b) + i] = c[i]
    OBVIOUS
  <2> DEFINE j == Len(a) + Len(b) + i
  <2>1. j \in 1 .. Len(d) + Len(c) /\ ~(j <= Len(d)) /\ j - Len(d) = i
    BY <1>1
  <2> HIDE DEF j
  <2>2. e[j] = c[i]
    BY <1>2, <2>1 DEF e
  <2> QED
    BY <2>2 DEF j
<1> QED
  BY <1>1, <1>2, <1>3, <1>4, <1>5 DEF d, e

LEMMA JoinExists == ASSUME NEW t, NEW n \in Nat PROVE \E f : JoinIs(f, t, n)
<1> DEFINE S == {k \in 0 .. n : \E f : JoinIs(f, t, k)}
<1>1. 0 \in S
  <2>1. JoinIs([i \in 0 .. 0 |-> t[0]], t, 0)
    BY DEF JoinIs
  <2> QED
    BY <2>1
<1>2. ASSUME NEW k \in 1 .. n, k - 1 \in S PROVE k \in S
  <2>1. PICK f : JoinIs(f, t, k - 1)
    BY <1>2
  <2> DEFINE next == f[k - 1] \o <<Newline>> \o t[k]
             g == [i \in 0 .. k |-> IF i = k THEN next ELSE f[i]]
  <2>2. ASSUME NEW i \in 0 .. k
        PROVE  g[i] = IF i = 0 THEN t[0] ELSE g[i - 1] \o <<Newline>> \o t[i]
    <3>1. CASE i = k
      <4> HIDE DEF next
      <4>1. g[i] = next /\ g[i - 1] = f[k - 1] /\ i # 0
        BY <3>1
      <4> QED
        BY <3>1, <4>1, Zenon DEF next
    <3>2. CASE i # k /\ i = 0
      <4>1. g[i] = f[0] /\ 0 \in 0 .. k - 1
        BY <3>2
      <4>2. f[0] = t[0]
        BY <2>1, <4>1 DEF JoinIs
      <4> QED
        BY <3>2, <4>1, <4>2
    <3>3. CASE i # k /\ i # 0
      <4>1. g[i] = f[i] /\ g[i - 1] = f[i - 1] /\ i \in 0 .. k - 1
        BY <3>3
      <4>2. f[i] = f[i - 1] \o <<Newline>> \o t[i]
        <5>1. f = [j \in 0 .. k - 1 |-> IF j = 0 THEN t[0] ELSE f[j - 1] \o <<Newline>> \o t[j]]
          BY <2>1 DEF JoinIs
        <5> QED
          BY <3>3, <4>1, <5>1, Zenon
      <4> QED
        BY <3>3, <4>1, <4>2, Zenon
    <3> QED
      BY <3>1, <3>2, <3>3
  <2>3. JoinIs(g, t, k)
    <3>1. g = [i \in 0 .. k |-> g[i]]
      OBVIOUS
    <3> HIDE DEF g
    <3>2. [i \in 0 .. k |-> g[i]]
             = [i \in 0 .. k |-> IF i = 0 THEN t[0] ELSE g[i - 1] \o <<Newline>> \o t[i]]
      BY <2>2, Zenon
    <3> QED
      BY <3>1, <3>2, Zenon DEF JoinIs
  <2> QED
    BY <2>3
<1> HIDE DEF S
<1>3. n \in S
  BY <1>1, <1>2, Induction
<1> QED
  BY <1>3 DEF S

LEMMA UptoIs == Upto = Joining(text) /\ Upto' = Joining(text')
  BY Zenon DEF Upto, Joining, JoinIs, AllRows

LEMMA RowByRow ==
    ASSUME NEW t \in AsRows
    PROVE  /\ Joining(t)[0] = t[0]
           /\ \A y \in 1 .. Rows - 1 : Joining(t)[y] = Joining(t)[y - 1] \o <<Newline>> \o t[y]
           /\ \A y \in AllRows : /\ Joining(t)[y] \in Seq(Letters) /\ Ahead(t, y) \in Seq(Letters)
                                 /\ t[y] \in Seq(Letters)
                                 /\ Joining(t)[y] = Ahead(t, y) \o t[y]
<1> DEFINE f == Joining(t)
<1>1. Rows - 1 \in Nat /\ 0 \in AllRows
  BY RowsType DEF AllRows
<1>2. JoinIs(f, t, Rows - 1)
  BY <1>1, JoinExists, Zenon DEF Joining
<1> HIDE DEF f
<1>3. f[0] = t[0]
  BY <1>1, <1>2 DEF JoinIs
<1>4. \A y \in 1 .. Rows - 1 : f[y] = f[y - 1] \o <<Newline>> \o t[y]
  <2> SUFFICES ASSUME NEW y \in 1 .. Rows - 1 PROVE f[y] = f[y - 1] \o <<Newline>> \o t[y]
    OBVIOUS
  <2>1. y \in 0 .. Rows - 1 /\ y # 0
    OBVIOUS
  <2> QED
    BY <1>2, <2>1, Zenon DEF JoinIs
<1>5. \A y \in AllRows : t[y] \in Seq(Letters)
  <2> SUFFICES ASSUME NEW y \in AllRows PROVE t[y] \in Seq(Letters)
    OBVIOUS
  <2>1. t[y] \in Seq(Chars) /\ Chars \subseteq Letters
    BY DEF AsRows, Letters
  <2> QED
    BY <2>1, SeqMonotonic
<1>6. <<Newline>> \in Seq(Letters)
  BY DEF Letters
<1>7. \A y \in AllRows : f[y] \in Seq(Letters)
  <2> DEFINE S == {y \in AllRows : f[y] \in Seq(Letters)}
  <2>1. 0 \in S
    BY <1>1, <1>3, <1>5
  <2>2. ASSUME NEW y \in 1 .. Rows - 1, y - 1 \in S PROVE y \in S
    <3>1. y \in AllRows /\ f[y - 1] \in Seq(Letters) /\ t[y] \in Seq(Letters)
      BY <1>5, <2>2 DEF AllRows
    <3>2. f[y - 1] \o <<Newline>> \in Seq(Letters)
      BY <1>6, <3>1, ConcatProperties
    <3>3. f[y - 1] \o <<Newline>> \o t[y] \in Seq(Letters)
      BY <3>1, <3>2, ConcatProperties
    <3> QED
      BY <1>4, <3>1, <3>3
  <2> HIDE DEF S
  <2>3. 0 .. Rows - 1 \subseteq S
    BY <1>1, <2>1, <2>2, Induction
  <2> QED
    BY <2>3 DEF S, AllRows
<1>8. ASSUME NEW y \in AllRows PROVE Ahead(t, y) \in Seq(Letters) /\ f[y] = Ahead(t, y) \o t[y]
  <2>1. CASE y = 0
    <3>1. Ahead(t, y) = <<>> /\ t[0] \in Seq(Letters)
      BY <1>1, <1>5, <2>1 DEF Ahead
    <3> QED
      BY <1>3, <2>1, <3>1, ConcatEmptySeq, EmptySeq
  <2>2. CASE y # 0
    <3>1. y \in 1 .. Rows - 1 /\ y - 1 \in AllRows
      BY <2>2, RowsType DEF AllRows
    <3>2. Ahead(t, y) = f[y - 1] \o <<Newline>>
      BY <2>2 DEF Ahead, f
    <3> QED
      BY <1>4, <1>6, <1>7, <3>1, <3>2, ConcatProperties
  <2> QED
    BY <2>1, <2>2
<1> QED
  BY <1>3, <1>4, <1>5, <1>7, <1>8 DEF f

\* The text ahead of a row is made of the rows above it.
LEMMA SameAhead ==
    ASSUME NEW t \in AsRows, NEW u \in AsRows, NEW y \in AllRows, \A k \in 0 .. y - 1 : t[k] = u[k]
    PROVE  Ahead(t, y) = Ahead(u, y)
<1>1. CASE y = 0
  BY <1>1 DEF Ahead
<1>2. CASE y # 0
  <2> DEFINE S == {k \in 0 .. y - 1 : Joining(t)[k] = Joining(u)[k]}
  <2>1. y - 1 \in Nat /\ 0 \in 0 .. y - 1 /\ y - 1 \in 0 .. y - 1
    BY <1>2, RowsType DEF AllRows
  <2>2. 0 \in S
    BY <2>1, RowByRow
  <2>3. ASSUME NEW k \in 1 .. y - 1, k - 1 \in S PROVE k \in S
    <3>1. k \in 1 .. Rows - 1 /\ k \in 0 .. y - 1
      BY RowsType DEF AllRows
    <3>2. Joining(t)[k] = Joining(t)[k - 1] \o <<Newline>> \o t[k]
      BY <3>1, RowByRow
    <3>3. Joining(u)[k] = Joining(u)[k - 1] \o <<Newline>> \o u[k]
      BY <3>1, RowByRow
    <3> QED
      BY <2>3, <3>1, <3>2, <3>3
  <2> HIDE DEF S
  <2>4. 0 .. y - 1 \subseteq S
    BY <2>1, <2>2, <2>3, Induction
  <2> QED
    BY <1>2, <2>1, <2>4 DEF S, Ahead
<1> QED
  BY <1>1, <1>2

\* The rows below two rows, when they are the same, add the same to the text.
Behind(t, u, y, z, k, r) ==
    /\ r \in Seq(Letters)
    /\ Joining(t)[y + k] = Joining(t)[y] \o r
    /\ Joining(u)[z + k] = Joining(u)[z] \o r
    /\ k = 0 => r = <<>>
    /\ k # 0 => Len(r) > 0 /\ r[1] = Newline

LEMMA OneBehind ==
    ASSUME NEW a \in Seq(Letters), NEW r \in Seq(Letters), NEW l \in Seq(Letters)
    PROVE  /\ (a \o r) \o <<Newline>> \o l = a \o (r \o (<<Newline>> \o l))
           /\ r \o (<<Newline>> \o l) \in Seq(Letters)
           /\ Len(r \o (<<Newline>> \o l)) > 0
           /\ Len(r) = 0 \/ r[1] = Newline => (r \o (<<Newline>> \o l))[1] = Newline
<1> DEFINE m == <<Newline>> \o l
<1>1. <<Newline>> \in Seq(Letters) /\ Len(<<Newline>>) = 1 /\ Len(l) \in Nat /\ Len(r) \in Nat
  BY Ends, Lengths
<1>2. m \in Seq(Letters) /\ Len(m) = 1 + Len(l) /\ m[1] = Newline
  BY <1>1, ConcatProperties
<1>3. a \o r \in Seq(Letters)
  BY Glued
<1>4. (a \o r) \o <<Newline>> \o l = (a \o r) \o m
  BY <1>1, <1>3, Regroup
<1> HIDE DEF m
<1>5. (a \o r) \o m = a \o (r \o m)
  BY <1>2, Regroup
<1>6. r \o m \in Seq(Letters) /\ Len(r \o m) = Len(r) + Len(m)
  BY <1>2, Glued
<1>7. (r \o m)[1] = IF 1 <= Len(r) THEN r[1] ELSE m[1 - Len(r)]
  <2>1. 1 \in 1 .. Len(r) + Len(m)
    BY <1>1, <1>2
  <2> QED
    BY <1>2, <2>1, ConcatProperties
<1>8. Len(r) = 0 \/ r[1] = Newline => (r \o m)[1] = Newline
  BY <1>1, <1>2, <1>7
<1>9. Len(r \o m) > 0
  BY <1>1, <1>2, <1>6
<1> QED
  BY <1>4, <1>5, <1>6, <1>8, <1>9 DEF m

LEMMA SameBehind ==
    ASSUME NEW t \in AsRows, NEW u \in AsRows, NEW y \in AllRows, NEW z \in AllRows, NEW n \in Nat,
           y + n \in AllRows, z + n \in AllRows, \A k \in 1 .. n : t[y + k] = u[z + k]
    PROVE  \E r : Behind(t, u, y, z, n, r)
<1> DEFINE S == {k \in 0 .. n : \E r : Behind(t, u, y, z, k, r)}
<1>1. Joining(t)[y] \in Seq(Letters) /\ Joining(u)[z] \in Seq(Letters)
  BY RowByRow
<1>2. 0 \in S
  <2>1. y + 0 = y /\ z + 0 = z
    BY RowsType DEF AllRows
  <2>2. Behind(t, u, y, z, 0, <<>>)
    BY <1>1, <2>1, Ends DEF Behind
  <2> QED
    BY <2>2
<1>3. ASSUME NEW k \in 1 .. n, k - 1 \in S PROVE k \in S
  <2> PICK r : Behind(t, u, y, z, k - 1, r)
    BY <1>3
  <2>1. /\ y + k \in 1 .. Rows - 1 /\ z + k \in 1 .. Rows - 1 /\ y + k \in AllRows
        /\ (y + k) - 1 = y + (k - 1) /\ (z + k) - 1 = z + (k - 1)
    BY RowsType DEF AllRows
  <2>2. t[y + k] = u[z + k] /\ t[y + k] \in Seq(Letters)
    BY <2>1, RowByRow
  <2>3. Joining(t)[y + k] = Joining(t)[y + (k - 1)] \o <<Newline>> \o t[y + k]
    BY <2>1, RowByRow
  <2>4. Joining(u)[z + k] = Joining(u)[z + (k - 1)] \o <<Newline>> \o t[y + k]
    BY <2>1, <2>2, RowByRow
  <2> DEFINE m == r \o (<<Newline>> \o t[y + k])
  <2>5. r \in Seq(Letters) /\ (Len(r) = 0 \/ r[1] = Newline)
    BY EmptySeq DEF Behind
  <2>6. m \in Seq(Letters) /\ Len(m) > 0 /\ m[1] = Newline
    BY <1>1, <2>2, <2>5, OneBehind
  <2>7. \A g \in Seq(Letters) : (g \o r) \o <<Newline>> \o t[y + k] = g \o m
    BY <2>2, <2>5, OneBehind
  <2> HIDE DEF m
  <2>8. Joining(t)[y + k] = Joining(t)[y] \o m /\ Joining(u)[z + k] = Joining(u)[z] \o m
    BY <1>1, <2>3, <2>4, <2>7 DEF Behind
  <2>9. Behind(t, u, y, z, k, m)
    BY <2>6, <2>8 DEF Behind
  <2> QED
    BY <2>9
<1> HIDE DEF S
<1>4. n \in S
  BY <1>2, <1>3, Induction
<1> QED
  BY <1>4 DEF S

\* Where the row y is in a text of n rows: after s letters.
RowIn(b, s, t, n, y) ==
    /\ b \in Seq(Letters) /\ Len(b) \in Nat /\ s \in Nat
    /\ t[y] \in Seq(Chars) /\ Len(t[y]) \in Nat /\ s + Len(t[y]) <= Len(b)
    /\ s = Len(Joining(t)[y]) - Len(t[y])
    /\ \A i \in 1 .. Len(t[y]) : b[s + i] = t[y][i] /\ b[s + i] # Newline
    /\ y = 0 => s = 0
    /\ y # 0 => s # 0 /\ b[s] = Newline
    /\ y = n - 1 => s + Len(t[y]) = Len(b)
    /\ y # n - 1 => b[s + Len(t[y]) + 1] = Newline /\ s + Len(t[y]) < Len(b)

LEMMA RowAt ==
    \A t \in AsRows : \A n \in 1 .. Rows : \A y \in 0 .. n - 1 :
       RowIn(Joining(t)[n - 1], Len(Ahead(t, y)), t, n, y)
<1> TAKE t \in AsRows
<1> TAKE n \in 1 .. Rows
<1> TAKE y \in 0 .. n - 1
<1> DEFINE b == Joining(t)[n - 1]
           s == Len(Ahead(t, y))
<1>0. b = Joining(t)[n - 1] /\ s = Len(Ahead(t, y))
  OBVIOUS
<1> HIDE DEF b, s
<1> DEFINE a == Ahead(t, y)
           m == n - 1 - y
<1>1. n - 1 \in AllRows /\ y \in AllRows /\ m \in Nat /\ y + m = n - 1
  BY RowsType DEF AllRows
<1>2. \A k \in 1 .. m : t[y + k] = t[y + k]
  OBVIOUS
<1> HIDE DEF m
<1> PICK r : Behind(t, t, y, y, m, r)
  BY <1>1, SameBehind
<1>3. /\ r \in Seq(Letters) /\ b = Joining(t)[y] \o r
      /\ m = 0 => r = <<>>
      /\ m # 0 => Len(r) > 0 /\ r[1] = Newline
  BY <1>1, <1>0 DEF Behind
<1>4. a \in Seq(Letters) /\ t[y] \in Seq(Letters) /\ Joining(t)[y] = a \o t[y] /\ t[y] \in Seq(Chars)
  BY <1>1, RowByRow DEF AsRows
<1> HIDE DEF a
<1>5. b = a \o t[y] \o r
  BY <1>3, <1>4
<1>6. Len(a) \in Nat /\ Len(t[y]) \in Nat /\ Len(r) \in Nat /\ Len(a \o t[y]) = Len(a) + Len(t[y])
  BY <1>3, <1>4, Glued, Lengths
<1>7. /\ b \in Seq(Letters) /\ Len(b) = Len(a) + Len(t[y]) + Len(r)
      /\ \A i \in 1 .. Len(a) : b[i] = a[i]
      /\ \A i \in 1 .. Len(t[y]) : b[Len(a) + i] = t[y][i]
      /\ \A i \in 1 .. Len(r) : b[Len(a) + Len(t[y]) + i] = r[i]
  <2> DEFINE q == t[y]
  <2>1. q \in Seq(Letters) /\ b = a \o q \o r
    BY <1>4, <1>5
  <2> HIDE DEF q
  <2>2. /\ b \in Seq(Letters) /\ Len(b) = Len(a) + Len(q) + Len(r)
        /\ \A i \in 1 .. Len(a) : b[i] = a[i]
        /\ \A i \in 1 .. Len(q) : b[Len(a) + i] = q[i]
        /\ \A i \in 1 .. Len(r) : b[Len(a) + Len(q) + i] = r[i]
    <3>1. a \in Seq(Letters) /\ q \in Seq(Letters) /\ r \in Seq(Letters)
      BY <1>3, <1>4, <2>1
    <3> QED
      BY <2>1, <3>1, Joint
  <2> QED
    BY <2>2 DEF q
<1>8. \A i \in 1 .. Len(t[y]) : t[y][i] # Newline
  <2>1. \A i \in 1 .. Len(t[y]) : t[y][i] \in Chars
    BY <1>4, ElementOfSeq
  <2> QED
    BY <2>1, EditorAssumption
<1>9. /\ y = 0 => Len(a) = 0
      /\ y # 0 => Len(a) # 0 /\ a[Len(a)] = Newline
  <2>1. CASE y = 0
    BY <2>1 DEF a, Ahead
  <2>2. CASE y # 0
    <3> DEFINE j == Joining(t)[y - 1]
    <3>1. y - 1 \in AllRows
      BY <2>2, RowsType DEF AllRows
    <3>2. j \in Seq(Letters) /\ a = j \o <<Newline>> /\ Newline \in Letters
      BY <2>2, <3>1, RowByRow DEF a, Ahead, Letters
    <3> HIDE DEF j
    <3>3. <<Newline>> \in Seq(Letters) /\ Len(<<Newline>>) = 1 /\ <<Newline>>[1] = Newline /\ Len(j) \in Nat
      BY <3>2, LenProperties
    <3>4. Len(a) = Len(j) + 1 /\ a[Len(j) + 1] = Newline
      BY <3>2, <3>3, ConcatProperties
    <3> QED
      BY <2>2, <3>3, <3>4
  <2> QED
    BY <2>1, <2>2
<1>10. s = Len(a) /\ (y = n - 1 <=> m = 0)
  BY <1>1, <1>0 DEF a, m
<1>11. y # n - 1 => b[s + Len(t[y]) + 1] = Newline /\ s + Len(t[y]) < Len(b)
  <2> SUFFICES ASSUME y # n - 1 PROVE b[s + Len(t[y]) + 1] = Newline /\ s + Len(t[y]) < Len(b)
    OBVIOUS
  <2>1. Len(r) > 0 /\ r[1] = Newline /\ 1 \in 1 .. Len(r)
    BY <1>3, <1>6, <1>10
  <2> QED
    BY <1>6, <1>7, <1>10, <2>1
<1>12. y = n - 1 => s + Len(t[y]) = Len(b)
  <2>1. m = 0 => Len(r) = 0
    BY <1>3, EmptySeq
  <2> QED
    BY <1>6, <1>7, <1>10, <2>1
<1>13. y # 0 => s # 0 /\ b[s] = Newline
  BY <1>6, <1>7, <1>9, <1>10
<1>14. s = Len(Joining(t)[y]) - Len(t[y]) /\ s + Len(t[y]) <= Len(b) /\ Len(b) \in Nat
  BY <1>4, <1>6, <1>7, <1>10
<1>15. \A i \in 1 .. Len(t[y]) : b[s + i] = t[y][i] /\ b[s + i] # Newline
  BY <1>7, <1>8, <1>10
<1>16. y = 0 => s = 0
  BY <1>9, <1>10
<1>17. RowIn(b, s, t, n, y)
  BY <1>4, <1>6, <1>7, <1>10, <1>11, <1>12, <1>13, <1>14, <1>15, <1>16 DEF RowIn
<1> QED
  BY <1>17 DEF b, s

(***************************************************************************)
(* Every key, on the text.                                                 *)
(***************************************************************************)
Buffer == Joining(text)[line_count - 1]
Point  == Len(Joining(text)[cursor_y]) - Len(text[cursor_y]) + cursor_x

LEMMA TextOf ==
    /\ DocumentText = Buffer /\ DocumentText' = Buffer'
    /\ Len(Upto[cursor_y]) - Len(text[cursor_y]) + cursor_x = Point
    /\ Len(Upto'[cursor_y']) - Len(text'[cursor_y']) + cursor_x' = Point'
  BY UptoIs DEF DocumentText, Buffer, Point

LEMMA DocRows == ASSUME DocOK PROVE /\ text \in AsRows /\ line_count \in 1 .. Rows /\ cursor_y \in 0 .. line_count - 1
                                    /\ cursor_x \in 0 .. Len(text[cursor_y]) /\ cursor_y \in AllRows
                                    /\ line_count - 1 \in AllRows
  BY RowsType DEF DocOK, AsRows, AllRows

\* A letter put in.
LEMMA InsertSim ==
    ASSUME NEW a \in Seq(Letters), NEW b \in Seq(Letters), NEW c \in Letters,
           Buffer = a \o b, Point = Len(a), Buffer' = (a \o <<c>>) \o b, Point' = Len(a) + 1
    PROVE  Text!Insert
<1>1. SubSeq(Buffer, 1, Point) = a /\ SubSeq(Buffer, Point + 1, Len(Buffer)) = b
  BY Cut
<1>2. /\ Buffer' = SubSeq(Buffer, 1, Point) \o <<c>> \o SubSeq(Buffer, Point + 1, Len(Buffer))
      /\ Point' = Point + 1
  BY <1>1
<1>3. /\ DocumentText = Buffer /\ DocumentText' = Buffer'
      /\ Len(Upto[cursor_y]) - Len(text[cursor_y]) + cursor_x = Point
      /\ (Len(Upto[cursor_y]) - Len(text[cursor_y]) + cursor_x)' = Point'
  BY TextOf
<1> QED
  BY <1>2, <1>3 DEF Text!Insert, Letters

\* A letter taken out, that is no line break.
LEMMA DeleteSim ==
    ASSUME NEW a \in Seq(Letters), NEW b \in Seq(Letters), NEW c \in Letters, c # Newline,
           Buffer = (a \o <<c>>) \o b, Point = Len(a) + 1, Buffer' = a \o b, Point' = Len(a)
    PROVE  Text!Delete
<1> DEFINE d == <<c>>
<1>1. d \in Seq(Letters) /\ Len(d) = 1 /\ d[1] = c /\ 1 \in 1 .. Len(d)
  OBVIOUS
<1> HIDE DEF d
<1>2. Len(a) \in Nat /\ Len(a \o d) = Len(a) + 1 /\ a \o d \in Seq(Letters) /\ d \o b \in Seq(Letters)
  BY <1>1, Glued, Lengths
<1>3. Buffer = (a \o d) \o b
  BY DEF d
<1>4. Buffer = a \o (d \o b)
  BY <1>1, <1>3, Regroup
<1>5. SubSeq(Buffer, 1, Len(a)) = a
  BY <1>2, <1>4, Cut
<1>6. SubSeq(Buffer, Len(a) + 1 + 1, Len(Buffer)) = b
  BY <1>2, <1>3, Cut
<1>7. Buffer[Point] = c
  BY <1>1, <1>3, Joint
<1>8. Point > 0 /\ Point - 1 = Len(a) /\ Point' = Point - 1
  BY <1>2
<1>9. Buffer' = SubSeq(Buffer, 1, Point - 1) \o SubSeq(Buffer, Point + 1, Len(Buffer))
  BY <1>5, <1>6, <1>8
<1> QED
  BY <1>7, <1>8, <1>9, TextOf DEF Text!Delete

\* A line break taken out, and the point behind the line.
LEMMA JoinSim ==
    ASSUME NEW a \in Seq(Letters), NEW b \in Seq(Letters),
           Buffer = (a \o <<Newline>>) \o b, Point = Len(a) + 1, Buffer' = a \o b,
           Point' \in Nat, Point' >= Len(a),
           Point' = Len(Buffer)' \/ Buffer'[Point' + 1] = Newline,
           \A i \in Point .. Point' : Buffer'[i] # Newline
    PROVE  Text!Delete
<1> DEFINE d == <<Newline>>
<1>1. d \in Seq(Letters) /\ Len(d) = 1 /\ d[1] = Newline /\ 1 \in 1 .. Len(d)
  BY Ends
<1> HIDE DEF d
<1>2. Len(a) \in Nat /\ Len(a \o d) = Len(a) + 1 /\ a \o d \in Seq(Letters) /\ d \o b \in Seq(Letters)
  BY <1>1, Glued, Lengths
<1>3. Buffer = (a \o d) \o b
  BY DEF d
<1>4. Buffer = a \o (d \o b)
  BY <1>1, <1>3, Regroup
<1>5. SubSeq(Buffer, 1, Len(a)) = a
  BY <1>2, <1>4, Cut
<1>6. SubSeq(Buffer, Len(a) + 1 + 1, Len(Buffer)) = b
  BY <1>2, <1>3, Cut
<1>7. Buffer[Point] = Newline
  BY <1>1, <1>3, Joint
<1>8. Point > 0 /\ Point - 1 = Len(a) /\ Point' >= Point - 1
  BY <1>2
<1>9. Buffer' = SubSeq(Buffer, 1, Point - 1) \o SubSeq(Buffer, Point + 1, Len(Buffer))
  BY <1>5, <1>6, <1>8
<1> QED
  BY <1>7, <1>8, <1>9, TextOf DEF Text!Delete, Text!LineEnd

\* The line of the cursor is another one, and the text around it is the same.
LEMMA LineEdited ==
    ASSUME DocOK, NEW l \in Seq(Chars), text' = [text EXCEPT ![cursor_y] = l],
           UNCHANGED <<cursor_y, line_count>>, cursor_x' \in Nat
    PROVE  \E a, r \in Seq(Letters) :
              /\ Buffer = (a \o text[cursor_y]) \o r /\ Point = Len(a) + cursor_x
              /\ Buffer' = (a \o l) \o r /\ Point' = Len(a) + cursor_x'
<1> DEFINE y == cursor_y
           m == line_count - 1 - y
           a == Ahead(text, y)
<1>1. /\ text \in AsRows /\ line_count \in 1 .. Rows /\ y \in AllRows /\ m \in Nat
      /\ y + m = line_count - 1 /\ y + m \in AllRows /\ cursor_x \in Nat
  <2>1. Len(text[y]) \in Nat
    BY DocRows, LenProperties DEF AsRows
  <2> QED
    BY <2>1, DocRows
<1>2. text' \in AsRows /\ text'[y] = l
  BY <1>1 DEF AsRows
<1>3. \A k \in 1 .. m : text[y + k] = text'[y + k]
  <2>1. \A k \in 1 .. m : y + k # y /\ y + k \in AllRows
    <3> HIDE DEF y
    <3> QED
      BY <1>1, RowsType DEF AllRows
  <2> QED
    BY <1>1, <2>1 DEF AsRows
<1>4. \A k \in 0 .. y - 1 : text[k] = text'[k]
  <2>1. \A k \in 0 .. y - 1 : k # y /\ k \in AllRows
    <3> HIDE DEF y, m
    <3> QED
      BY <1>1, RowsType DEF AllRows
  <2> QED
    BY <1>1, <2>1 DEF AsRows
<1>5. Ahead(text', y) = a
  BY <1>1, <1>2, <1>4, SameAhead
<1> HIDE DEF m
<1> PICK r : Behind(text, text', y, y, m, r)
  BY <1>1, <1>2, <1>3, SameBehind
<1>6. a \in Seq(Letters) /\ text[y] \in Seq(Letters) /\ Joining(text)[y] = a \o text[y]
  BY <1>1, RowByRow
<1>7. l \in Seq(Letters) /\ Joining(text')[y] = a \o l
  BY <1>1, <1>2, <1>5, RowByRow
<1>8. r \in Seq(Letters) /\ Buffer = Joining(text)[y] \o r
  BY <1>1 DEF Behind, Buffer
<1>9. Buffer' = Joining(text')[y] \o r
  BY <1>1 DEF Behind, Buffer
<1>10. Point = Len(a) + cursor_x
  <2>1. Len(a \o text[y]) = Len(a) + Len(text[y]) /\ Len(a) \in Nat /\ Len(text[y]) \in Nat
    BY <1>6, Glued, Lengths
  <2> QED
    BY <1>1, <1>6, <2>1 DEF Point
<1>11. Point' = Len(a) + cursor_x'
  <2>1. Len(a \o l) = Len(a) + Len(l) /\ Len(a) \in Nat /\ Len(l) \in Nat
    BY <1>6, <1>7, Glued, Lengths
  <2>2. Point' = Len(Joining(text')[y]) - Len(text'[y]) + cursor_x'
    BY DEF Point
  <2> QED
    BY <1>2, <1>7, <2>1, <2>2
<1> HIDE DEF a
<1> QED
  BY <1>6, <1>7, <1>8, <1>9, <1>10, <1>11

\* A line where the cursor is.
LEMMA LineSplit ==
    ASSUME NEW s \in Seq(Chars), NEW x \in 0 .. Len(s)
    PROVE  /\ s = Before(s, x) \o After(s, x)
           /\ Before(s, x) \in Seq(Letters) /\ After(s, x) \in Seq(Letters)
           /\ Before(s, x) \in Seq(Chars) /\ After(s, x) \in Seq(Chars)
           /\ Len(Before(s, x)) = x /\ Len(After(s, x)) = Len(s) - x
           /\ x # 0 => /\ s[x] \in Chars /\ s[x] # Newline
                       /\ Before(s, x) = Before(s, x - 1) \o <<s[x]>>
<1>1. Len(s) \in Nat /\ \A i \in 1 .. Len(s) : s[i] \in Chars
  BY LenProperties, ElementOfSeq
<1>2. /\ Before(s, x) \in Seq(Chars) /\ Len(Before(s, x)) = x
      /\ After(s, x) \in Seq(Chars) /\ Len(After(s, x)) = Len(s) - x
  BY SplitLine
<1>3. Before(s, x) \in Seq(Letters) /\ After(s, x) \in Seq(Letters)
  <2>1. Chars \subseteq Letters
    BY DEF Letters
  <2> QED
    BY <1>2, <2>1, SeqMonotonic
<1>4. s = Before(s, x) \o After(s, x)
  <2>1. 1 \in 1 .. Len(s) + 1 /\ x \in 1 - 1 .. Len(s) /\ Len(s) \in x .. Len(s)
    BY <1>1
  <2>2. SubSeq(s, 1, x) \o SubSeq(s, x + 1, Len(s)) = SubSeq(s, 1, Len(s))
    BY <2>1, ConcatAdjacentSubSeq
  <2> QED
    BY <2>2, SubSeqFull DEF Before, After
<1>5. x # 0 => /\ s[x] \in Chars /\ s[x] # Newline
               /\ Before(s, x) = Before(s, x - 1) \o <<s[x]>>
  <2> SUFFICES ASSUME x # 0
               PROVE  /\ s[x] \in Chars /\ s[x] # Newline
                      /\ Before(s, x) = Before(s, x - 1) \o <<s[x]>>
    OBVIOUS
  <2>1. x \in 1 .. Len(s) /\ 1 \in 1 .. Len(s) /\ x \in 1 .. Len(s)
    BY <1>1
  <2>2. SubSeq(s, 1, x) = SubSeq(s, 1, x - 1) \o <<s[x]>>
    BY <2>1, SubSeqRecursiveSecond
  <2> QED
    BY <1>1, <2>1, <2>2, EditorAssumption DEF Before
<1> QED
  BY <1>2, <1>3, <1>4, <1>5

\* Putting texts together as an operation of which the provers know only that
\* it is associative.
a ++ b == a \o b

LEMMA Associative == \A a, b, c \in Seq(Letters) : a ++ b \in Seq(Letters) /\ (a ++ b) ++ c = a ++ (b ++ c)
  BY Glued, Regroup DEF ++

LEMMA RegroupFour ==
    \A a, p, q, r \in Seq(Letters) : (a ++ (p ++ q)) ++ r = (a ++ p) ++ (q ++ r)
  BY Associative

LEMMA RegroupFive ==
    \A a, p, d, q, r \in Seq(Letters) : (a ++ ((p ++ d) ++ q)) ++ r = ((a ++ p) ++ d) ++ (q ++ r)
  BY Associative

\* A printable key.
LEMMA TypeSim == ASSUME DocOK, NEW c \in Chars, Type(c) PROVE Text!Insert
<1> DEFINE s == text[cursor_y]
           p == Before(s, cursor_x)
           q == After(s, cursor_x)
           d == <<c>>
           l == (p \o d) \o q
<1>1. s \in Seq(Chars) /\ cursor_x \in 0 .. Len(s) /\ Len(s) \in Nat
  BY DocRows, LenProperties DEF AsRows
<1>2. /\ text' = [text EXCEPT ![cursor_y] = l] /\ cursor_x' = cursor_x + 1
      /\ UNCHANGED <<cursor_y, line_count>>
  BY DEF Type, Edited
<1> HIDE DEF s
<1>3. l \in Seq(Chars) /\ s = p \o q /\ p \in Seq(Letters) /\ q \in Seq(Letters) /\ Len(p) = cursor_x
  BY <1>1, InsertOne, LineSplit
<1>4. d \in Seq(Letters) /\ c \in Letters
  BY DEF Letters
<1> HIDE DEF l, p, q, d
<1>5. cursor_x' \in Nat
  BY <1>1, <1>2
<1> PICK a \in Seq(Letters), r \in Seq(Letters) :
              /\ Buffer = (a \o text[cursor_y]) \o r /\ Point = Len(a) + cursor_x
              /\ Buffer' = (a \o l) \o r /\ Point' = Len(a) + cursor_x'
  BY <1>2, <1>3, <1>5, LineEdited
<1>6. a \o p \in Seq(Letters) /\ q \o r \in Seq(Letters) /\ Len(a \o p) = Len(a) + cursor_x /\ Len(a) \in Nat
  BY <1>3, Glued, Lengths
<1>7. Buffer = (a \o p) \o (q \o r)
  <2>1. (a ++ (p ++ q)) ++ r = (a ++ p) ++ (q ++ r)
    BY <1>3, RegroupFour
  <2> QED
    BY <1>3, <2>1, Zenon DEF s, ++
<1>8. Buffer' = ((a \o p) \o d) \o (q \o r)
  <2>1. (a ++ ((p ++ d) ++ q)) ++ r = ((a ++ p) ++ d) ++ (q ++ r)
    BY <1>3, <1>4, RegroupFive
  <2> QED
    BY <2>1, Zenon DEF l, ++
<1>9. Point = Len(a \o p) /\ Point' = Len(a \o p) + 1
  BY <1>1, <1>2, <1>6
<1> QED
  BY <1>4, <1>6, <1>7, <1>8, <1>9, InsertSim DEF d

\* Backspace in a line.
LEMMA BackspaceSim == ASSUME DocOK, Backspace PROVE Text!Delete
<1> DEFINE s == text[cursor_y]
           x == cursor_x
           p == Before(s, x - 1)
           q == After(s, x)
           c == s[x]
           d == <<c>>
           l == p \o q
<1>1. s \in Seq(Chars) /\ x \in 1 .. Len(s) /\ x \in 0 .. Len(s) /\ x - 1 \in 0 .. Len(s) /\ Len(s) \in Nat /\ x # 0
  <2>1. s \in Seq(Chars) /\ x \in 0 .. Len(s) /\ Len(s) \in Nat
    BY DocRows, LenProperties DEF AsRows
  <2> QED
    BY <2>1 DEF Backspace
<1>2. /\ text' = [text EXCEPT ![cursor_y] = l] /\ cursor_x' = x - 1
      /\ UNCHANGED <<cursor_y, line_count>>
  BY DEF Backspace, Edited
<1> HIDE DEF s, x
<1>3. p \in Seq(Letters) /\ p \in Seq(Chars) /\ Len(p) = x - 1
  BY <1>1, LineSplit
<1>4. q \in Seq(Letters) /\ q \in Seq(Chars) /\ c \in Chars /\ c # Newline /\ s = Before(s, x) \o q /\ Before(s, x) = p \o d
  BY <1>1, LineSplit
<1>5. d \in Seq(Letters) /\ c \in Letters
  BY <1>4 DEF Letters
<1>6. l \in Seq(Chars)
  BY <1>3, <1>4, ConcatProperties
<1> HIDE DEF l, p, q, c, d
<1>7. cursor_x' \in Nat
  BY <1>1, <1>2
<1> PICK a \in Seq(Letters), r \in Seq(Letters) :
              /\ Buffer = (a \o text[cursor_y]) \o r /\ Point = Len(a) + cursor_x
              /\ Buffer' = (a \o l) \o r /\ Point' = Len(a) + cursor_x'
  BY <1>2, <1>6, <1>7, LineEdited
<1>8. a \o p \in Seq(Letters) /\ q \o r \in Seq(Letters) /\ Len(a \o p) = Len(a) + (x - 1) /\ Len(a) \in Nat
  BY <1>3, <1>4, Glued, Lengths
<1>9. Buffer = ((a \o p) \o d) \o (q \o r)
  <2>1. (a ++ ((p ++ d) ++ q)) ++ r = ((a ++ p) ++ d) ++ (q ++ r)
    BY <1>3, <1>4, <1>5, RegroupFive
  <2> QED
    BY <1>4, <2>1, Zenon DEF s, ++
<1>10. Buffer' = (a \o p) \o (q \o r)
  <2>1. (a ++ (p ++ q)) ++ r = (a ++ p) ++ (q ++ r)
    BY <1>3, <1>4, RegroupFour
  <2> QED
    BY <2>1, Zenon DEF l, ++
<1>11. Point = Len(a \o p) + 1 /\ Point' = Len(a \o p)
  BY <1>1, <1>2, <1>8 DEF x
<1> QED
  BY <1>4, <1>5, <1>8, <1>9, <1>10, <1>11, DeleteSim DEF d

\* Enter.
LEMMA EnterSim == ASSUME DocOK, DocOK', Enter PROVE Text!Insert
<1> DEFINE y == cursor_y
           m == line_count - 1 - y
           s == text[y]
           p == Before(s, cursor_x)
           q == After(s, cursor_x)
           a == Ahead(text, y)
           d == <<Newline>>
<1>1. /\ text \in AsRows /\ line_count \in 1 .. Rows /\ y \in AllRows /\ m \in Nat
      /\ y + m = line_count - 1 /\ y + m \in AllRows /\ cursor_x \in Nat
      /\ y + 1 \in AllRows /\ (y + 1) + m = line_count /\ (y + 1) + m \in AllRows
  <2>1. Len(text[y]) \in Nat
    BY DocRows, LenProperties DEF AsRows
  <2> QED
    BY <2>1, DocRows, RowsType DEF Enter, AllRows
<1>2. s \in Seq(Chars) /\ cursor_x \in 0 .. Len(s)
  BY DocRows DEF AsRows
<1>3. /\ text' = SplitText(y, cursor_x) /\ line_count' = line_count + 1
      /\ cursor_x' = 0 /\ cursor_y' = y + 1
  BY DEF Enter, Edited
<1> HIDE DEF y, m
<1>4. text' \in AsRows /\ text'[y] = p /\ text'[y + 1] = q
  <2>1. text' \in AsRows
    BY DEF DocOK, AsRows
  <2>2. y + 1 # y
    BY <1>1 DEF AllRows
  <2> QED
    BY <1>1, <1>3, <2>1, <2>2 DEF SplitText, Line
<1>5. ASSUME NEW k \in 1 .. m PROVE text[y + k] = text'[(y + 1) + k]
  <2> DEFINE i == (y + 1) + k
  <2>1. i \in AllRows /\ i # y /\ i # y + 1 /\ y + 1 < i /\ i <= line_count /\ i - 1 = y + k
    BY <1>1, RowsType DEF AllRows
  <2> HIDE DEF i
  <2>2. text'[i] = Line(i - 1)
    BY <1>3, <2>1 DEF SplitText
  <2> QED
    BY <2>1, <2>2 DEF i, Line
<1>6. \A k \in 0 .. y - 1 : text[k] = text'[k]
  <2> SUFFICES ASSUME NEW k \in 0 .. y - 1 PROVE text[k] = text'[k]
    OBVIOUS
  <2>1. k \in AllRows /\ k # y /\ k # y + 1 /\ ~(y + 1 < k)
    BY <1>1, RowsType DEF AllRows
  <2> QED
    BY <1>3, <2>1 DEF SplitText, Line
<1>7. Ahead(text', y) = a
  BY <1>1, <1>4, <1>6, SameAhead
<1> PICK r : Behind(text, text', y, y + 1, m, r)
  BY <1>1, <1>4, <1>5, SameBehind
<1>8. a \in Seq(Letters) /\ Joining(text)[y] = a \o s
  BY <1>1, RowByRow
<1>9. /\ s = p \o q /\ Len(p) = cursor_x /\ p \in Seq(Letters) /\ q \in Seq(Letters)
      /\ d \in Seq(Letters) /\ Len(d) = 1
  BY <1>2, LineSplit, Ends
<1>10. Joining(text')[y] = a \o p
  BY <1>1, <1>4, <1>7, RowByRow
<1>11. Joining(text')[y + 1] = ((a \o p) \o d) \o q
  <2>1. y + 1 \in 1 .. Rows - 1 /\ (y + 1) - 1 = y
    BY <1>1, RowsType DEF AllRows
  <2>2. Joining(text')[y + 1] = Joining(text')[(y + 1) - 1] \o <<Newline>> \o text'[y + 1]
    BY <1>4, <2>1, RowByRow
  <2> QED
    BY <1>4, <1>10, <2>1, <2>2
<1>12. r \in Seq(Letters) /\ Buffer = Joining(text)[y] \o r
  BY <1>1 DEF Behind, Buffer
<1>13. Buffer' = Joining(text')[y + 1] \o r
  <2>1. Buffer' = Joining(text')[(y + 1) + m]
    <3>1. line_count' - 1 = (y + 1) + m
      BY <1>1, <1>3
    <3> QED
      BY <3>1 DEF Buffer
  <2> QED
    BY <2>1 DEF Behind
<1>14. Point = Len(Joining(text)[y]) - Len(s) + cursor_x /\ Point' = Len(Joining(text')[y + 1]) - Len(q) + 0
  BY <1>3, <1>4 DEF Point, y
<1> DEFINE g == a \o p
<1> HIDE DEF a, p, q, s, d
<1>15. g \in Seq(Letters) /\ Len(g) = Len(a) + cursor_x /\ Len(a) \in Nat /\ q \o r \in Seq(Letters)
  BY <1>8, <1>9, <1>12, Glued, Lengths
<1>16. Buffer = g \o (q \o r)
  <2>1. (a ++ (p ++ q)) ++ r = (a ++ p) ++ (q ++ r)
    BY <1>8, <1>9, <1>12, RegroupFour
  <2> QED
    BY <1>8, <1>9, <1>12, <2>1, Zenon DEF ++, g
<1> HIDE DEF g
<1>17. g \o d \in Seq(Letters) /\ Len(g \o d) = Len(g) + 1 /\ Len(g) \in Nat
  <2>1. g \o d \in Seq(Letters) /\ Len(g \o d) = Len(g) + Len(d)
    BY <1>9, <1>15, Glued, Zenon
  <2> QED
    BY <1>9, <1>15, <2>1, Lengths
<1>18. Buffer' = (g \o d) \o (q \o r)
  <2> DEFINE h == g \o d
  <2> HIDE DEF h
  <2>1. h \in Seq(Letters) /\ (h \o q) \o r = h \o (q \o r)
    BY <1>9, <1>12, <1>17, Regroup DEF h
  <2> QED
    BY <1>11, <1>13, <2>1 DEF g, h
<1>19. Point = Len(g)
  <2>1. Len(a \o s) = Len(a) + Len(s) /\ Len(s) \in Nat
    <3>1. s \in Seq(Letters)
      BY <1>9, Glued
    <3> QED
      BY <1>8, <3>1, Glued, Lengths
  <2> QED
    BY <1>1, <1>8, <1>14, <1>15, <2>1
<1>20. Point' = Len(g) + 1
  <2> DEFINE h == g \o d
  <2> HIDE DEF h
  <2>1. h \in Seq(Letters) /\ Len(h) = Len(g) + 1
    BY <1>17 DEF h
  <2>2. Len(h \o q) = Len(h) + Len(q) /\ Len(q) \in Nat
    BY <1>9, <2>1, Glued, Lengths
  <2>3. Joining(text')[y + 1] = h \o q
    BY <1>11 DEF h, g
  <2> QED
    BY <1>14, <1>17, <2>1, <2>2, <2>3
<1> QED
  BY <1>15, <1>16, <1>18, <1>19, <1>20, InsertSim DEF d, Letters

\* Backspace at the start of a line.
LEMMA JoinKeySim == ASSUME DocOK, DocOK', Join PROVE Text!Delete
<1> DEFINE y == cursor_y
           z == y - 1
           m == line_count - 1 - y
           s == text[z]
           q == text[y]
           l == s \o q
           a == Ahead(text, z)
           d == <<Newline>>
<1>1. /\ text \in AsRows /\ line_count \in 1 .. Rows /\ y \in AllRows /\ m \in Nat
      /\ y + m = line_count - 1 /\ y + m \in AllRows
      /\ z \in AllRows /\ z + m = line_count - 2 /\ z + m \in AllRows /\ y \in 1 .. Rows - 1
  <2>1. text \in AsRows /\ line_count \in 1 .. Rows /\ y \in 0 .. line_count - 1
    BY DocRows
  <2>2. y > 0
    BY DEF Join
  <2> HIDE DEF y
  <2> QED
    BY <2>1, <2>2, RowsType DEF AllRows
<1>2. s \in Seq(Chars) /\ q \in Seq(Chars) /\ Len(s) \in Nat /\ Len(q) \in Nat
  BY <1>1, LenProperties DEF AsRows
<1>3. /\ text' = JoinedText(y) /\ line_count' = line_count - 1
      /\ cursor_x' = Len(s) + Len(q) /\ cursor_y' = z /\ cursor_x = 0
  BY DEF Join, Edited, Line
<1> HIDE DEF y, m
<1>4. text' \in AsRows /\ text'[z] = l
  <2>1. text' \in AsRows
    BY DEF DocOK, AsRows
  <2> QED
    BY <1>1, <1>3, <2>1 DEF JoinedText, Line
<1>5. ASSUME NEW k \in 1 .. m PROVE text[y + k] = text'[z + k]
  <2> DEFINE i == z + k
  <2>1. i \in AllRows /\ i # z /\ y <= i /\ i < line_count - 1 /\ i + 1 = y + k
    BY <1>1, RowsType DEF AllRows
  <2> HIDE DEF i, z
  <2>2. text'[i] = Line(i + 1)
    BY <1>3, <2>1 DEF JoinedText, z
  <2> QED
    BY <2>1, <2>2 DEF i, Line
<1>6. \A k \in 0 .. z - 1 : text[k] = text'[k]
  <2> SUFFICES ASSUME NEW k \in 0 .. z - 1 PROVE text[k] = text'[k]
    OBVIOUS
  <2>1. k \in AllRows /\ k # y - 1 /\ ~(y <= k) /\ k # line_count - 1
    BY <1>1, RowsType DEF AllRows
  <2> QED
    BY <1>3, <2>1 DEF JoinedText, Line
<1> HIDE DEF z
<1>7. Ahead(text', z) = a
  BY <1>1, <1>4, <1>6, SameAhead
<1> PICK r : Behind(text, text', y, z, m, r)
  BY <1>1, <1>4, <1>5, SameBehind
<1>8. a \in Seq(Letters) /\ Joining(text)[z] = a \o s /\ s \in Seq(Letters) /\ q \in Seq(Letters)
  BY <1>1, RowByRow
<1>9. d \in Seq(Letters) /\ Len(d) = 1
  BY Ends
<1>10. Joining(text')[z] = a \o l
  BY <1>1, <1>4, <1>7, RowByRow
<1>11. Joining(text)[y] = ((a \o s) \o d) \o q
  <2>1. Joining(text)[y] = Joining(text)[y - 1] \o <<Newline>> \o text[y]
    BY <1>1, RowByRow
  <2> QED
    BY <1>8, <2>1 DEF z
<1>12. r \in Seq(Letters) /\ Buffer = Joining(text)[y] \o r
  BY <1>1 DEF Behind, Buffer
<1>13. Buffer' = Joining(text')[z] \o r
  <2>1. Buffer' = Joining(text')[z + m]
    <3>1. line_count' - 1 = z + m
      BY <1>1, <1>3
    <3> QED
      BY <3>1 DEF Buffer
  <2> QED
    BY <2>1 DEF Behind
<1>14. Point = Len(Joining(text)[y]) - Len(q) + 0
  BY <1>3 DEF Point, y
<1>15. /\ Point' = Len(a) + Len(l) /\ Len(a) \in Nat /\ Len(l) = Len(s) + Len(q)
       /\ line_count' \in 1 .. Rows /\ z \in 0 .. line_count' - 1
  <2>1. Len(l) = Len(s) + Len(q) /\ Len(a) \in Nat /\ l \in Seq(Letters)
    BY <1>8, Glued, Lengths
  <2> HIDE DEF l, a
  <2>2. Len(a \o l) = Len(a) + Len(l)
    BY <1>8, <2>1, Glued, Zenon DEF a
  <2>3. Point' = Len(Joining(text')[z]) - Len(text'[z]) + cursor_x'
    BY <1>3 DEF Point
  <2>4. line_count' \in 1 .. Rows /\ z \in 0 .. line_count' - 1
    BY <1>1, <1>3, RowsType DEF z, AllRows
  <2>5. Point' = (Len(a) + Len(l)) - Len(l) + cursor_x'
    BY <1>4, <1>10, <2>2, <2>3, Zenon
  <2> QED
    BY <1>2, <1>3, <2>1, <2>4, <2>5
<1>16. /\ Buffer' \in Seq(Letters) /\ Len(Buffer)' \in Nat
       /\ \A i \in 1 .. Len(l) : Buffer'[Len(a) + i] # Newline
       /\ Point' = Len(Buffer)' \/ Buffer'[Point' + 1] = Newline
  <2> DEFINE b == Joining(text')[line_count' - 1]
             n == line_count'
             p == Len(a)
             u == text'
  <2>1. b = Buffer' /\ p = Len(Ahead(u, z)) /\ u[z] = l /\ u \in AsRows
    BY <1>4, <1>7 DEF Buffer
  <2> HIDE DEF b, n, p, l, u
  <2>2. /\ b \in Seq(Letters) /\ Len(b) \in Nat
        /\ \A i \in 1 .. Len(u[z]) : b[p + i] = u[z][i] /\ b[p + i] # Newline
        /\ z = n - 1 => p + Len(u[z]) = Len(b)
        /\ z # n - 1 => b[p + Len(u[z]) + 1] = Newline
    <3>1. n \in 1 .. Rows /\ z \in 0 .. n - 1 /\ b = Joining(u)[n - 1]
      BY <1>15 DEF n, b, u
    <3>2. RowIn(b, p, u, n, z)
      BY <2>1, <3>1, RowAt
    <3> QED
      BY <3>2 DEF RowIn
  <2> QED
    BY <1>4, <1>15, <2>1, <2>2 DEF p
<1> DEFINE g == a \o s
<1>17. g \in Seq(Letters) /\ Len(g) = Len(a) + Len(s) /\ q \o r \in Seq(Letters)
  BY <1>8, <1>12, Glued
<1> HIDE DEF a, q, s, d
<1>18. Buffer' = g \o (q \o r)
  <2>1. (a ++ (s ++ q)) ++ r = (a ++ s) ++ (q ++ r)
    BY <1>8, <1>12, RegroupFour
  <2> QED
    BY <1>10, <1>13, <2>1, Zenon DEF ++
<1> HIDE DEF g, l
<1>19. g \o d \in Seq(Letters) /\ Len(g \o d) = Len(g) + 1 /\ Len(g) \in Nat
  <2>1. g \o d \in Seq(Letters) /\ Len(g \o d) = Len(g) + Len(d)
    BY <1>9, <1>17, Glued, Zenon
  <2> QED
    BY <1>9, <1>17, <2>1, Lengths
<1> DEFINE h == g \o d
<1> HIDE DEF h
<1>20. Buffer = h \o (q \o r)
  <2>1. h \in Seq(Letters) /\ (h \o q) \o r = h \o (q \o r)
    BY <1>8, <1>12, <1>19, Regroup DEF h
  <2> QED
    BY <1>11, <1>12, <2>1 DEF g, h
<1>21. Point = Len(g) + 1
  <2>1. h \in Seq(Letters) /\ Len(h) = Len(g) + 1
    BY <1>19 DEF h
  <2>2. Len(h \o q) = Len(h) + Len(q) /\ Len(q) \in Nat
    BY <1>8, <2>1, Glued, Lengths
  <2>3. Joining(text)[y] = h \o q
    BY <1>11 DEF h, g
  <2> QED
    BY <1>14, <1>19, <2>1, <2>2, <2>3
<1>22. /\ Point' \in Nat /\ Point' >= Len(g)
       /\ \A i \in Point .. Point' : Buffer'[i] # Newline
  <2>1. Point' \in Nat /\ Point' >= Len(g)
    BY <1>2, <1>15, <1>17
  <2>2. ASSUME NEW i \in Point .. Point' PROVE Buffer'[i] # Newline
    <3> DEFINE j == i - Len(a)
    <3>1. j \in 1 .. Len(l) /\ Len(a) + j = i
      BY <1>2, <1>15, <1>17, <1>21, <2>2
    <3> HIDE DEF j
    <3> QED
      BY <1>16, <3>1
  <2> QED
    BY <2>1, <2>2
<1> QED
  BY <1>16, <1>17, <1>18, <1>20, <1>21, <1>22, JoinSim DEF h, d

(***************************************************************************)
(* Lines and columns.                                                      *)
(***************************************************************************)
Spot(t, y, x) == Len(Ahead(t, y)) + x

\* A place in the text is a line and a column.
LEMMA SpotIs ==
    ASSUME NEW t \in AsRows, NEW n \in 1 .. Rows
    PROVE  \A y \in 0 .. n - 1 : \A x \in 0 .. Len(t[y]) :
              /\ Spot(t, y, x) \in 0 .. Len(Joining(t)[n - 1]) /\ Spot(t, y, x) = Spot(t, y, 0) + x
              /\ Len(Joining(t)[y]) - Len(t[y]) + x = Spot(t, y, x)
              /\ Text!Breaks(Joining(t)[n - 1], Spot(t, y, x)) = Text!Breaks(Joining(t)[n - 1], Spot(t, y, 0))
              /\ Text!Column(Joining(t)[n - 1], Spot(t, y, x)) = x
              /\ x = Len(t[y]) => Text!LineEnd(Joining(t)[n - 1], Spot(t, y, x))
<1> TAKE y \in 0 .. n - 1
<1> TAKE x \in 0 .. Len(t[y])
<1> DEFINE s == Len(Ahead(t, y))
           p == s + x
           b == Joining(t)[n - 1]
<1>1. RowIn(b, s, t, n, y)
  BY RowAt
<1> HIDE DEF s, b
<1>2. /\ b \in Seq(Letters) /\ Len(b) \in Nat /\ s \in Nat
      /\ t[y] \in Seq(Chars) /\ Len(t[y]) \in Nat /\ s + Len(t[y]) <= Len(b)
      /\ s = Len(Joining(t)[y]) - Len(t[y])
      /\ \A i \in 1 .. Len(t[y]) : b[s + i] # Newline
      /\ y = 0 => s = 0
      /\ y # 0 => s # 0 /\ b[s] = Newline
      /\ y = n - 1 => s + Len(t[y]) = Len(b)
      /\ y # n - 1 => b[s + Len(t[y]) + 1] = Newline
  BY <1>1 DEF RowIn
<1> DEFINE m == Len(t[y])
<1>3. /\ s \in Nat /\ m \in Nat /\ x \in 0 .. m 
      /\ y # 0 => s # 0
      /\ \A i \in 1 .. m : b[s + i] # Newline
  BY <1>2
<1>4. p \in 0 .. Len(b) /\ p \in Nat
  BY <1>2
<1> HIDE DEF m
<1>5. Text!Breaks(b, p) = Text!Breaks(b, s)
  <2>1. ASSUME NEW i \in 1 .. p, b[i] = Newline PROVE i \in 1 .. s
    <3> DEFINE j == i - s
    <3>1. CASE i > s
      <4>1. j \in 1 .. m /\ s + j = i
        BY <1>3, <3>1
      <4> HIDE DEF j
      <4> QED
        BY <1>3, <2>1, <4>1
    <3> QED
      BY <1>3, <3>1
  <2>2. \A i \in 1 .. s : i \in 1 .. p
    BY <1>3
  <2> QED
    BY <2>1, <2>2 DEF Text!Breaks
<1>6. Text!Column(b, p) = x
  <2> DEFINE B == Text!Breaks(b, p)
             last == CHOOSE c \in B \cup {0} : \A i \in B : i <= c
  <2>1. /\ B \subseteq 1 .. s
        /\ s \in B \cup {0}
    <3>1. B \subseteq 1 .. s
      BY <1>5 DEF Text!Breaks
    <3>2. CASE y = 0
      BY <1>2, <3>1, <3>2
    <3>3. CASE y # 0
      <4>1. s \in 1 .. s
        BY <1>3, <3>3
      <4>2. b[s] = Newline
        BY <1>2, <3>3
      <4> QED
        BY <1>5, <3>1, <4>1, <4>2 DEF Text!Breaks
    <3> QED
      BY <3>1, <3>2, <3>3
  <2> HIDE DEF B
  <2>2. \A i \in B : i <= s
    BY <1>2, <2>1
  <2>3. last \in B \cup {0} /\ \A i \in B : i <= last
    BY <2>1, <2>2, Zenon
  <2>4. Text!Column(b, p) = p - last
    BY DEF Text!Column, B
  <2> HIDE DEF last, p
  <2>5. last = s
    <3>1. s \in Nat
      BY <1>3
    <3>2. CASE s = 0
      BY <2>1, <2>3, <3>2
    <3>3. CASE s # 0
      BY <2>1, <2>3, <3>1, <3>3
    <3> QED
      BY <3>2, <3>3
  <2> QED
    BY <1>3, <2>4, <2>5 DEF p
<1>7. x = Len(t[y]) => Text!LineEnd(b, p)
  BY <1>2 DEF Text!LineEnd
<1>8. s = s + 0 /\ p = (s + 0) + x
  BY <1>2
<1> QED
  BY <1>2, <1>4, <1>5, <1>6, <1>7, <1>8 DEF Spot, s, b

\* A line starts one line break behind the line above.
LEMMA NextSpot ==
    ASSUME NEW t \in AsRows, NEW n \in 1 .. Rows
    PROVE  \A z \in 0 .. n - 2 : Spot(t, z + 1, 0) = Spot(t, z, Len(t[z])) + 1
<1> TAKE z \in 0 .. n - 2
<1> DEFINE m == Len(t[z])
           a == Ahead(t, z)
<1>1. t \in AsRows /\ z \in AllRows /\ z + 1 # 0 /\ (z + 1) - 1 = z
  BY RowsType DEF AllRows
<1>2. a \in Seq(Letters) /\ Joining(t)[z] = a \o t[z] /\ Len(a) \in Nat /\ t[z] \in Seq(Letters) /\ m \in Nat
  BY <1>1, RowByRow, Lengths
<1>3. Ahead(t, z + 1) = Joining(t)[z] \o <<Newline>>
  BY <1>1 DEF Ahead
<1> HIDE DEF a
<1> DEFINE g == a \o t[z]
           d == <<Newline>>
<1>4. g \in Seq(Letters) /\ Len(g) = Len(a) + m
  BY <1>2, Glued
<1>5. d \in Seq(Letters) /\ Len(d) = 1
  BY Ends
<1>6. Ahead(t, z + 1) = g \o d
  BY <1>2, <1>3
<1> HIDE DEF g, d
<1>7. Len(Ahead(t, z + 1)) = Len(a) + m + 1
  BY <1>4, <1>5, <1>6, Glued
<1> QED
  BY <1>2, <1>7 DEF Spot, a

\* EditorText counts with its own instance of FiniteSets.
LEMMA SameCount == \A S : Text!Cardinality(S) = Cardinality(S)
  BY Zenon DEF Text!Cardinality, Cardinality

\* A place in a line is one line break further than a place in the line above.
LEMMA SpotsApart ==
    ASSUME NEW t \in AsRows, NEW n \in 1 .. Rows
    PROVE  \A y \in 1 .. n - 1 : \A x \in 0 .. Len(t[y]) : \A w \in 0 .. Len(t[y - 1]) :
              /\ Text!LineOf(Joining(t)[n - 1], Spot(t, y - 1, w)) \in Nat
              /\ Text!LineOf(Joining(t)[n - 1], Spot(t, y, x)) = Text!LineOf(Joining(t)[n - 1], Spot(t, y - 1, w)) + 1
<1> TAKE y \in 1 .. n - 1
<1> TAKE x \in 0 .. Len(t[y])
<1> TAKE w \in 0 .. Len(t[y - 1])
<1> DEFINE z == y - 1
           m == Len(t[z])
           s == Spot(t, z, 0)
           p == Spot(t, y, 0)
           b == Joining(t)[n - 1]
           B == Text!Breaks(b, s)
<1>1. /\ t \in AsRows /\ n \in 1 .. Rows /\ z \in 0 .. n - 1 /\ y \in 0 .. n - 1
      /\ z \in AllRows /\ y \in AllRows /\ y # 0 /\ z # n - 1
  BY RowsType DEF AllRows
<1>2. /\ 0 \in 0 .. Len(t[y]) /\ 0 \in 0 .. m /\ m \in 0 .. m /\ m \in Nat
      /\ t[z] \in Seq(Letters)
  <2>1. Len(t[y]) \in Nat /\ m \in Nat
    BY <1>1, LenProperties DEF AsRows
  <2>2. t[z] \in Seq(Letters)
    BY <1>1, RowByRow
  <2> QED
    BY <2>1, <2>2
<1>3. Text!Breaks(b, Spot(t, y, x)) = Text!Breaks(b, p) /\ Text!Breaks(b, Spot(t, z, w)) = B
  BY <1>1, <1>2, SpotIs
<1>4. s \in Nat /\ \A i \in 1 .. m : b[s + i] # Newline
  <2>1. RowIn(b, Len(Ahead(t, z)), t, n, z)
    BY <1>1, RowAt
  <2>2. /\ Len(Ahead(t, z)) \in Nat
        /\ \A i \in 1 .. m : b[Len(Ahead(t, z)) + i] # Newline
    BY <2>1 DEF RowIn
  <2>3. s = Len(Ahead(t, z))
    BY <2>2 DEF Spot
  <2> QED
    BY <2>2, <2>3
<1>5. p \in Nat /\ p # 0 /\ b[p] = Newline
  <2>1. RowIn(b, Len(Ahead(t, y)), t, n, y)
    BY <1>1, RowAt
  <2>2. /\ Len(Ahead(t, y)) \in Nat /\ Len(Ahead(t, y)) # 0
        /\ b[Len(Ahead(t, y))] = Newline
    BY <1>1, <2>1 DEF RowIn
  <2>3. p = Len(Ahead(t, y))
    BY <2>2 DEF Spot
  <2> QED
    BY <2>2, <2>3
<1>6. p = s + m + 1
  <2>1. z \in 0 .. n - 2 /\ z + 1 = y
    BY <1>1
  <2>2. Spot(t, z + 1, 0) = Spot(t, z, m) + 1
    BY <2>1, NextSpot
  <2>3. Spot(t, z, m) = s + m
    BY <1>1, <1>2, SpotIs
  <2> QED
    BY <2>1, <2>2, <2>3
<1> HIDE DEF s, p, m, z, b
<1>7. p \notin B /\ Text!Breaks(b, p) = B \cup {p}
  <2>1. ASSUME NEW i \in 1 .. p, b[i] = Newline, i # p PROVE i \in 1 .. s
    <3> DEFINE j == i - s
    <3>1. CASE i > s
      <4>1. j \in 1 .. m /\ s + j = i
        BY <1>2, <1>4, <1>6, <2>1, <3>1
      <4> HIDE DEF j
      <4> QED
        BY <1>4, <2>1, <4>1
    <3> QED
      BY <1>4, <3>1
  <2>2. \A i \in 1 .. s : i \in 1 .. p
    BY <1>2, <1>4, <1>6
  <2>3. p \notin 1 .. s /\ p \in 1 .. p
    BY <1>2, <1>4, <1>5, <1>6
  <2> QED
    BY <1>5, <2>1, <2>2, <2>3 DEF Text!Breaks
<1>8. IsFiniteSet(B) /\ Cardinality(B) \in Nat
  <2>1. B \in SUBSET (1 .. s) /\ 1 \in Int /\ s \in Int
    BY <1>4 DEF Text!Breaks
  <2>2. IsFiniteSet(1 .. s)
    BY <2>1, FS_Interval
  <2> QED
    BY <2>1, <2>2, FS_Subset, FS_CardinalityType
<1> HIDE DEF B
<1>9. Cardinality(B \cup {p}) = Cardinality(B) + 1
  BY <1>7, <1>8, FS_AddElement
<1>10. /\ Text!LineOf(b, Spot(t, y, x)) = Cardinality(Text!Breaks(b, p))
       /\ Text!LineOf(b, Spot(t, z, w)) = Cardinality(B)
  BY <1>3, SameCount DEF Text!LineOf
<1> QED
  <2>1. Text!LineOf(b, Spot(t, z, w)) \in Nat /\ Text!LineOf(b, Spot(t, y, x)) = Text!LineOf(b, Spot(t, z, w)) + 1
    BY <1>7, <1>8, <1>9, <1>10
  <2> QED
    BY <2>1, Zenon DEF b, z

(***************************************************************************)
(* The keys that move the cursor.                                          *)
(***************************************************************************)
Place(y, x) == Spot(text, y, x)

LEMMA PlaceIs ==
    ASSUME DocOK
    PROVE  \A y \in 0 .. line_count - 1 : \A x \in 0 .. Len(text[y]) :
              /\ Place(y, x) \in 0 .. Len(Buffer) /\ Place(y, x) = Place(y, 0) + x
              /\ Len(Joining(text)[y]) - Len(text[y]) + x = Place(y, x)
              /\ Text!Column(Buffer, Place(y, x)) = x
              /\ x = Len(text[y]) => Text!LineEnd(Buffer, Place(y, x))
  BY DocRows, SpotIs DEF Place, Buffer

LEMMA NextPlace ==
    ASSUME DocOK
    PROVE  \A z \in 0 .. line_count - 2 : Place(z + 1, 0) = Place(z, Len(text[z])) + 1
  BY DocRows, NextSpot DEF Place

LEMMA LinesApart ==
    ASSUME DocOK
    PROVE  \A y \in 1 .. line_count - 1 : \A x \in 0 .. Len(text[y]) : \A w \in 0 .. Len(text[y - 1]) :
              /\ Text!LineOf(Buffer, Place(y - 1, w)) \in Nat
              /\ Text!LineOf(Buffer, Place(y, x)) = Text!LineOf(Buffer, Place(y - 1, w)) + 1
  BY DocRows, SpotsApart DEF Place, Buffer

\* What a key that moves the cursor does to the text.
LEMMA Moved ==
    ASSUME DocOK, NEW y \in 0 .. line_count - 1, NEW x \in 0 .. Len(text[y]), MoveTo(x, y)
    PROVE  /\ Buffer' = Buffer
           /\ Point = Place(cursor_y, cursor_x) /\ Point' = Place(y, x)
           /\ Point' \in 0 .. Len(Buffer)
<1>1. Buffer' = Buffer /\ Point' = Len(Joining(text)[y]) - Len(text[y]) + x
  BY DEF MoveTo, document, Buffer, Point
<1>2. cursor_y \in 0 .. line_count - 1 /\ cursor_x \in 0 .. Len(text[cursor_y])
  BY DocRows
<1> QED
  BY <1>1, <1>2, PlaceIs DEF Point

LEMMA LeftSim == ASSUME DocOK, ArrowLeft PROVE Text!Step
<1>1. /\ cursor_y \in 0 .. line_count - 1 /\ cursor_x \in 0 .. Len(text[cursor_y]) /\ text \in AsRows
      /\ line_count \in 1 .. Rows /\ Len(text[cursor_y]) \in Nat
  BY DocRows, LenProperties DEF AsRows
<1>2. Place(cursor_y, cursor_x) = Place(cursor_y, 0) + cursor_x /\ Place(cursor_y, cursor_x) \in Nat
  <2> DEFINE p == Place(cursor_y, cursor_x)
  <2>1. p \in 0 .. Len(Buffer) /\ p = Place(cursor_y, 0) + cursor_x
    BY <1>1, PlaceIs
  <2> HIDE DEF p
  <2>2. p \in Nat
    BY <2>1
  <2> QED
    BY <2>1, <2>2 DEF p
<1>3. Buffer' = Buffer /\ Point' \in 0 .. Len(Buffer) /\ Point' = Point - 1
  <2>1. CASE cursor_x > 0 /\ MoveTo(cursor_x - 1, cursor_y)
    <3>1. cursor_x - 1 \in 0 .. Len(text[cursor_y])
      BY <1>1, <2>1
    <3>2. /\ Buffer' = Buffer /\ Point = Place(cursor_y, cursor_x) /\ Point' = Place(cursor_y, cursor_x - 1)
          /\ Point' \in 0 .. Len(Buffer)
      BY <1>1, <2>1, <3>1, Moved
    <3>3. Place(cursor_y, cursor_x - 1) = Place(cursor_y, 0) + (cursor_x - 1)
      BY <1>1, <3>1, PlaceIs
    <3> QED
      BY <1>1, <1>2, <3>2, <3>3 DEF Place, Spot
  <2>2. CASE cursor_x = 0 /\ cursor_y > 0 /\ MoveTo(Len(Line(cursor_y - 1)), cursor_y - 1)
    <3> DEFINE z == cursor_y - 1
               n == Len(text[z])
    <3>1. z \in 0 .. line_count - 1 /\ z \in 0 .. line_count - 2 /\ z + 1 = cursor_y /\ z \in AllRows
      BY <1>1, <2>2, RowsType DEF AllRows
    <3>2. n \in 0 .. n /\ n \in Nat
      BY <1>1, <3>1, LenProperties DEF AsRows
    <3>3. /\ Buffer' = Buffer /\ Point = Place(cursor_y, cursor_x) /\ Point' = Place(z, n)
          /\ Point' \in 0 .. Len(Buffer)
      <4>1. MoveTo(n, z)
        BY <2>2 DEF Line
      <4> HIDE DEF z
      <4> QED
        BY <1>1, <3>1, <3>2, <4>1, Moved
    <3>4. Place(cursor_y, 0) = Place(z, n) + 1
      BY <1>1, <3>1, NextPlace
    <3> QED
      BY <1>1, <1>2, <2>2, <3>3, <3>4
  <2> QED
    BY <2>1, <2>2 DEF ArrowLeft
<1> QED
  BY <1>3, TextOf DEF Text!Step

LEMMA RightSim == ASSUME DocOK, ArrowRight PROVE Text!Step
<1>1. /\ cursor_y \in 0 .. line_count - 1 /\ cursor_x \in 0 .. Len(text[cursor_y]) /\ text \in AsRows
      /\ line_count \in 1 .. Rows /\ Len(text[cursor_y]) \in Nat
  BY DocRows, LenProperties DEF AsRows
<1>2. Place(cursor_y, cursor_x) = Place(cursor_y, 0) + cursor_x /\ Place(cursor_y, cursor_x) \in Nat
  <2> DEFINE p == Place(cursor_y, cursor_x)
  <2>1. p \in 0 .. Len(Buffer) /\ p = Place(cursor_y, 0) + cursor_x
    BY <1>1, PlaceIs
  <2> HIDE DEF p
  <2>2. p \in Nat
    BY <2>1
  <2> QED
    BY <2>1, <2>2 DEF p
<1>3. Buffer' = Buffer /\ Point' \in 0 .. Len(Buffer) /\ Point' = Point + 1
  <2>1. CASE cursor_x < Len(Line(cursor_y)) /\ MoveTo(cursor_x + 1, cursor_y)
    <3>1. cursor_x + 1 \in 0 .. Len(text[cursor_y])
      BY <1>1, <2>1 DEF Line
    <3>2. /\ Buffer' = Buffer /\ Point = Place(cursor_y, cursor_x) /\ Point' = Place(cursor_y, cursor_x + 1)
          /\ Point' \in 0 .. Len(Buffer)
      BY <1>1, <2>1, <3>1, Moved
    <3>3. Place(cursor_y, cursor_x + 1) = Place(cursor_y, 0) + (cursor_x + 1)
      BY <1>1, <3>1, PlaceIs
    <3> QED
      BY <1>1, <1>2, <3>2, <3>3 DEF Place, Spot
  <2>2. CASE cursor_x >= Len(Line(cursor_y)) /\ cursor_y + 1 < line_count /\ MoveTo(0, cursor_y + 1)
    <3> DEFINE z == cursor_y + 1
    <3>1. z \in 0 .. line_count - 1 /\ cursor_y \in 0 .. line_count - 2 /\ z \in AllRows
      BY <1>1, <2>2, RowsType DEF AllRows
    <3>2. 0 \in 0 .. Len(text[z]) /\ cursor_x = Len(text[cursor_y])
      <4>1. Len(text[z]) \in Nat
        BY <1>1, <3>1, LenProperties DEF AsRows
      <4> QED
        BY <1>1, <2>2, <4>1 DEF Line
    <3>3. /\ Buffer' = Buffer /\ Point = Place(cursor_y, cursor_x) /\ Point' = Place(z, 0)
          /\ Point' \in 0 .. Len(Buffer)
      <4> HIDE DEF z
      <4> QED
        BY <1>1, <2>2, <3>1, <3>2, Moved DEF z
    <3>4. Place(z, 0) = Place(cursor_y, Len(text[cursor_y])) + 1
      BY <1>1, <3>1, NextPlace
    <3> QED
      BY <1>1, <1>2, <3>2, <3>3, <3>4
  <2> QED
    BY <2>1, <2>2 DEF ArrowRight
<1> QED
  BY <1>3, TextOf DEF Text!Step

LEMMA VerticalSim ==
    ASSUME DocOK, NEW y \in 0 .. line_count - 1, y = cursor_y + 1 \/ y = cursor_y - 1,
           MoveTo(AtMost(cursor_x, y), y)
    PROVE  Text!Vertical
<1> DEFINE x == AtMost(cursor_x, y)
           p == Place(cursor_y, cursor_x)
           q == Place(y, x)
           b == Buffer
<1>1. /\ cursor_y \in 0 .. line_count - 1 /\ cursor_x \in 0 .. Len(text[cursor_y]) /\ text \in AsRows
      /\ line_count \in 1 .. Rows /\ Len(text[cursor_y]) \in Nat
      /\ y \in AllRows /\ Len(text[y]) \in Nat
  <2>1. y \in AllRows
    BY DocRows, RowsType DEF AllRows
  <2> QED
    BY <2>1, DocRows, LenProperties DEF AsRows
<1>2. x \in 0 .. Len(text[y]) /\ x <= cursor_x /\ (x # cursor_x => x = Len(text[y]))
  BY <1>1 DEF AtMost, Line
<1>3. MoveTo(x, y)
  OBVIOUS
<1> HIDE DEF x
<1>4. b' = b /\ Point = p /\ Point' = q /\ Point' \in 0 .. Len(b)
  BY <1>2, <1>3, Moved
<1>5. /\ Text!Column(b, p) = cursor_x /\ Text!Column(b, q) = x
      /\ x = Len(text[y]) => Text!LineEnd(b, q)
  BY <1>1, <1>2, PlaceIs
<1>6. Text!LineOf(b, q) - Text!LineOf(b, p) \in {-1, 1}
  <2>1. CASE y = cursor_y + 1
    <3>1. y \in 1 .. line_count - 1 /\ y - 1 = cursor_y
      BY <1>1, <2>1
    <3>2. Text!LineOf(b, p) \in Nat /\ Text!LineOf(b, q) = Text!LineOf(b, p) + 1
      BY <1>1, <1>2, <3>1, LinesApart
    <3> HIDE DEF b, p, q
    <3> QED
      BY <3>2
  <2>2. CASE y = cursor_y - 1
    <3>1. cursor_y \in 1 .. line_count - 1 /\ cursor_y - 1 = y
      BY <1>1, <2>2
    <3>2. Text!LineOf(b, q) \in Nat /\ Text!LineOf(b, p) = Text!LineOf(b, q) + 1
      BY <1>1, <1>2, <3>1, LinesApart
    <3> HIDE DEF b, p, q
    <3> QED
      BY <3>2
  <2> QED
    BY <2>1, <2>2
<1> HIDE DEF p, q
<1>7. \/ Text!Column(b, q) = Text!Column(b, p)
      \/ Text!Column(b, q) < Text!Column(b, p) /\ Text!LineEnd(b, q)
  BY <1>1, <1>2, <1>5
<1>8. /\ Point' \in 0 .. Len(b) /\ UNCHANGED b
      /\ Text!LineOf(b, Point') - Text!LineOf(b, Point) \in {-1, 1}
      /\ \/ Text!Column(b, Point') = Text!Column(b, Point)
         \/ Text!Column(b, Point') < Text!Column(b, Point) /\ Text!LineEnd(b, Point')
  BY <1>4, <1>6, <1>7
<1> QED
  BY <1>8, TextOf DEF Text!Vertical

(***************************************************************************)
(* The editor, on the text.                                                *)
(***************************************************************************)
LEMMA BlankText ==
    /\ text = Blank /\ line_count = 1 /\ cursor_x = 0 /\ cursor_y = 0 => Buffer = <<>> /\ Point = 0
    /\ text' = Blank /\ line_count' = 1 /\ cursor_x' = 0 /\ cursor_y' = 0 => Buffer' = <<>> /\ Point' = 0
<1>1. Blank \in AsRows /\ 0 \in AllRows /\ Blank[0] = <<>>
  BY RowsType, EmptySeq DEF Blank, AsRows, AllRows
<1>2. Joining(Blank)[0] = <<>>
  BY <1>1, RowByRow
<1>3. 1 - 1 = 0 /\ Len(<<>>) - Len(<<>>) + 0 = 0
  BY EmptySeq
<1> DEFINE B == Blank
<1>4. Joining(B)[0] = <<>> /\ B[0] = <<>>
  BY <1>1, <1>2
<1> HIDE DEF B
<1>5. text = B /\ line_count = 1 /\ cursor_x = 0 /\ cursor_y = 0 => Buffer = <<>> /\ Point = 0
  BY <1>3, <1>4 DEF Buffer, Point
<1>6. text' = B /\ line_count' = 1 /\ cursor_x' = 0 /\ cursor_y' = 0 => Buffer' = <<>> /\ Point' = 0
  BY <1>3, <1>4 DEF Buffer, Point
<1> QED
  BY <1>5, <1>6 DEF B

LEMMA StartSim == ASSUME Start PROVE Text!Clear
  BY BlankText, TextOf DEF Start, Text!Clear

LEMMA SameText == UNCHANGED <<document, cursor>> => UNCHANGED <<Buffer, Point>>
  BY DEF document, cursor, Buffer, Point

LEMMA OthersSim ==
    ASSUME Save \/ Open \/ ExitKey \/ PowerLoss \/ UNCHANGED vars, ~LoadEnd
    PROVE  UNCHANGED <<document, cursor>>
<1>1. CASE Save
  BY <1>1 DEF Save, SaveKey, SaveName, SaveStat, Overwrite, SaveOpen, SaveRow,
              SaveRowFails, SaveClose, SaveCloseFails, NameTyped, Confirm,
              Cancel, Goto
<1>2. CASE Open
  BY <1>2 DEF Open, OpenKey, Discard, OpenName, LoadOpen, LoadReturn, LoadNewline, LoadChar,
              LoadOther, LoadFails, NameTyped, Confirm, Refused, Cancel, Goto, LoadStep
<1>3. CASE ExitKey \/ PowerLoss
  BY <1>3 DEF ExitKey, PowerLoss, Close, Goto
<1>4. CASE UNCHANGED vars
  BY <1>4 DEF vars
<1> QED
  BY <1>1, <1>2, <1>3, <1>4

\* What each key does to the text.
EveryKey ==
    /\ (\E c \in Chars : Type(c)) \/ Enter => Text!Insert
    /\ Backspace \/ Join => Text!Delete
    /\ ArrowLeft \/ ArrowRight => Text!Step
    /\ ArrowUp \/ ArrowDown => Text!Vertical
    /\ Start => Text!Clear
    /\ (Save \/ Open \/ ExitKey \/ PowerLoss) /\ ~LoadEnd => UNCHANGED <<Buffer, Point>>

LEMMA KeySim == ASSUME DocOK, DocOK' PROVE EveryKey
<1>1. cursor_y \in 0 .. line_count - 1 /\ line_count \in 1 .. Rows
  BY DocRows
<1>2. ArrowUp => Text!Vertical
  <2> SUFFICES ASSUME ArrowUp PROVE Text!Vertical
    OBVIOUS
  <2>1. cursor_y - 1 \in 0 .. line_count - 1 /\ MoveTo(AtMost(cursor_x, cursor_y - 1), cursor_y - 1)
    BY <1>1 DEF ArrowUp
  <2> QED
    BY <2>1, VerticalSim
<1>3. ArrowDown => Text!Vertical
  <2> SUFFICES ASSUME ArrowDown PROVE Text!Vertical
    OBVIOUS
  <2>1. cursor_y + 1 \in 0 .. line_count - 1 /\ MoveTo(AtMost(cursor_x, cursor_y + 1), cursor_y + 1)
    BY <1>1 DEF ArrowDown
  <2> QED
    BY <2>1, VerticalSim
<1>4. (\E c \in Chars : Type(c)) \/ Enter => Text!Insert
  BY TypeSim, EnterSim
<1>5. Backspace \/ Join => Text!Delete
  BY BackspaceSim, JoinKeySim
<1>6. ArrowLeft \/ ArrowRight => Text!Step
  BY LeftSim, RightSim
<1>7. (Save \/ Open \/ ExitKey \/ PowerLoss) /\ ~LoadEnd => UNCHANGED <<Buffer, Point>>
  BY OthersSim, SameText
<1> QED
  BY <1>2, <1>3, <1>4, <1>5, <1>6, <1>7, StartSim DEF EveryKey

\* For every grid, every alphabet and every directory, and whatever was typed,
\* saved, opened or restarted before: a printable key and Enter insert one
\* letter of the text at the point and Backspace takes out the one before it,
\* also when they shift the rows of the grid (split_line,
\* join_with_previous_line, myeditor.c); the arrows move to the next place or
\* to the line above or below; saving, dialogs and refused files leave the
\* text and the point alone.
THEOREM EveryKeyEdits == Spec => [][EveryKey]_vars
<1>1. Spec => []IInv
  BY InitHolds, StepHolds, PTL DEF Spec
<1>2. IInv /\ IInv' => EveryKey
  BY KeySim DEF IInv
<1> QED
  BY <1>1, <1>2, PTL DEF Spec

LEMMA TextStep ==
    ASSUME DocOK, DocOK', [Next]_vars, ~LoadEnd
    PROVE  [Text!Next]_(Text!vars)
<1>1. EveryKey
  BY KeySim
<1>2. CASE Move
  BY <1>1, <1>2 DEF EveryKey, Move, Text!Next
<1>3. CASE Edit
  BY <1>1, <1>3 DEF EveryKey, Edit, Text!Next
<1>4. CASE Start
  BY <1>1, <1>4 DEF EveryKey, Text!Next
<1>5. CASE Save \/ Open \/ ExitKey \/ PowerLoss \/ UNCHANGED vars
  <2>1. UNCHANGED <<Buffer, Point>>
    BY <1>5, OthersSim, SameText
  <2> QED
    BY <2>1, TextOf DEF Text!vars
<1> QED
  BY <1>2, <1>3, <1>4, <1>5 DEF Next

\* The editor implements EditorText as long as no file is opened: the text
\* that is in a file replaces the one being edited (load_document,
\* myeditor.c).
THEOREM EditsOneText == Spec /\ [][~LoadEnd]_vars => ImplementsText
<1>1. Init => Text!Init
  BY BlankText, TextOf DEF Init, Text!Init
<1>2. Spec => []IInv
  BY InitHolds, StepHolds, PTL DEF Spec
<1>3. IInv /\ IInv' /\ [Next]_vars /\ [~LoadEnd]_vars => [Text!Next]_(Text!vars)
  <2>1. UNCHANGED vars => UNCHANGED Text!vars
    BY SameText, TextOf DEF vars, Text!vars
  <2> QED
    BY <2>1, TextStep DEF IInv
<1> QED
  BY <1>1, <1>2, <1>3, PTL DEF Spec, ImplementsText, Text!Spec

\* Without files there is nothing to open.
THEOREM EditsOneTextWithoutFiles == ASSUME Names = {} PROVE Spec => ImplementsText
<1>1. Spec => []IInv
  BY InitHolds, StepHolds, PTL DEF Spec
<1>2. IInv => ~LoadEnd
  BY DEF IInv, DialogOK, LoadEnd
<1> QED
  BY <1>1, <1>2, EditsOneText, PTL

(***************************************************************************)
(* Texts that fit in the grid.                                             *)
(***************************************************************************)
\* Every place in the text is a line and a column.
LEMMA EveryPlace ==
    ASSUME NEW t \in AsRows, NEW n \in 1 .. Rows
    PROVE  \A p \in 0 .. Len(Joining(t)[n - 1]) :
              \E y \in 0 .. n - 1 : \E x \in 0 .. Len(t[y]) : p = Spot(t, y, x)
<1> DEFINE b == Joining(t)[n - 1]
           S == {p \in 0 .. Len(b) : \E y \in 0 .. n - 1 : \E x \in 0 .. Len(t[y]) : p = Spot(t, y, x)}
<1>1. Len(b) \in Nat /\ n - 1 \in AllRows /\ 0 \in AllRows /\ 0 \in 0 .. n - 1
  <2>1. n - 1 \in AllRows /\ 0 \in AllRows /\ 0 \in 0 .. n - 1
    BY RowsType DEF AllRows
  <2> QED
    BY <2>1, RowByRow, Lengths
<1>2. \A y \in 0 .. n - 1 : Len(t[y]) \in Nat /\ y \in AllRows
  BY RowsType, LenProperties DEF AsRows, AllRows
<1>3. 0 \in S
  <2>1. Spot(t, 0, 0) = 0
    BY EmptySeq DEF Spot, Ahead
  <2> QED
    BY <1>1, <1>2, <2>1
<1>4. ASSUME NEW p \in 1 .. Len(b), p - 1 \in S PROVE p \in S
  <2> PICK y \in 0 .. n - 1 : \E x \in 0 .. Len(t[y]) : p - 1 = Spot(t, y, x)
    BY <1>4
  <2> PICK x \in 0 .. Len(t[y]) : p - 1 = Spot(t, y, x)
    OBVIOUS
  <2>1. Len(t[y]) \in Nat /\ x \in Nat /\ p \in 0 .. Len(b)
    BY <1>2
  <2>2. CASE x # Len(t[y])
    <3>1. x + 1 \in 0 .. Len(t[y])
      BY <2>1, <2>2
    <3>2. Spot(t, y, x) = Spot(t, y, 0) + x /\ Spot(t, y, x + 1) = Spot(t, y, 0) + (x + 1)
      BY <3>1, SpotIs
    <3>3. Spot(t, y, 0) \in Nat
      <4>1. 0 \in 0 .. Len(t[y])
        BY <2>1
      <4> DEFINE q == Spot(t, y, 0)
      <4>2. q \in 0 .. Len(b)
        BY <4>1, SpotIs
      <4> HIDE DEF q
      <4> QED
        BY <1>1, <4>2 DEF q
    <3>4. p = Spot(t, y, x + 1)
      BY <2>1, <3>2, <3>3
    <3> QED
      BY <2>1, <3>1, <3>4
  <2>3. CASE x = Len(t[y]) /\ y # n - 1
    <3>1. y \in 0 .. n - 2 /\ y + 1 \in 0 .. n - 1
      BY <2>3
    <3>2. Spot(t, y + 1, 0) = p
      BY <2>3, <3>1, NextSpot
    <3>3. 0 \in 0 .. Len(t[y + 1])
      BY <1>2, <3>1
    <3> QED
      BY <2>1, <3>1, <3>2, <3>3
  <2>4. CASE x = Len(t[y]) /\ y = n - 1
    <3>1. RowIn(b, Len(Ahead(t, y)), t, n, y)
      BY RowAt
    <3>2. p - 1 = Len(b)
      BY <2>4, <3>1 DEF RowIn, Spot
    <3> QED
      BY <1>1, <3>2
  <2> QED
    BY <2>2, <2>3, <2>4
<1> HIDE DEF S
<1>5. 0 .. Len(b) \subseteq S
  BY <1>1, <1>3, <1>4, Induction
<1> QED
  BY <1>5 DEF S

\* The text of a grid fits.
LEMMA GridFits ==
    ASSUME NEW t \in AsRows, NEW n \in 1 .. Rows, WellFormed(t, n)
    PROVE  /\ Fitting(Joining(t)[n - 1])
           /\ Text!LineOf(Joining(t)[n - 1], Len(Joining(t)[n - 1])) = n - 1
           /\ Text!Column(Joining(t)[n - 1], Len(Joining(t)[n - 1])) = Len(t[n - 1])
<1> DEFINE b == Joining(t)[n - 1]
           z == n - 1
<1>1. /\ z \in Nat /\ z \in 0 .. n - 1 /\ 0 \in 0 .. n - 1
      /\ \A y \in 0 .. n - 1 : y \in AllRows /\ Len(t[y]) \in Nat /\ Len(t[y]) <= Columns
  <2>1. \A y \in 0 .. n - 1 : y \in AllRows
    BY RowsType DEF AllRows
  <2>2. \A y \in 0 .. n - 1 : Len(t[y]) \in Nat /\ Len(t[y]) <= Columns
    BY <2>1, LenProperties DEF AsRows, WellFormed
  <2> QED
    BY <2>1, <2>2
<1>2. Len(b) = Spot(t, z, Len(t[z]))
  <2>1. RowIn(b, Len(Ahead(t, z)), t, n, z)
    BY <1>1, RowAt
  <2> QED
    BY <2>1 DEF RowIn, Spot
<1>3. Text!LineOf(b, Spot(t, z, Len(t[z]))) = z
  <2> DEFINE S == {y \in 0 .. z : Text!LineOf(b, Spot(t, y, Len(t[y]))) = y}
  <2>1. 0 \in S
    <3>1. 0 \in 0 .. Len(t[0]) /\ Len(t[0]) \in 0 .. Len(t[0])
      BY <1>1
    <3>2. Text!Breaks(b, Spot(t, 0, Len(t[0]))) = Text!Breaks(b, Spot(t, 0, 0))
      BY <1>1, <3>1, SpotIs
    <3>3. Spot(t, 0, 0) = 0
      BY EmptySeq DEF Spot, Ahead
    <3>4. Text!Breaks(b, 0) = {}
      BY DEF Text!Breaks
    <3>5. Text!LineOf(b, Spot(t, 0, Len(t[0]))) = 0
      BY <3>2, <3>3, <3>4, SameCount, FS_EmptySet DEF Text!LineOf
    <3> QED
      BY <1>1, <3>5
  <2>2. ASSUME NEW y \in 1 .. z, y - 1 \in S PROVE y \in S
    <3>1. y \in 1 .. n - 1 /\ y - 1 \in 0 .. n - 1 /\ y \in 0 .. z
      BY <1>1
    <3>2. Len(t[y]) \in 0 .. Len(t[y]) /\ Len(t[y - 1]) \in 0 .. Len(t[y - 1])
      BY <1>1, <3>1
    <3>3. Text!LineOf(b, Spot(t, y, Len(t[y]))) = Text!LineOf(b, Spot(t, y - 1, Len(t[y - 1]))) + 1
      BY <3>1, <3>2, SpotsApart
    <3> QED
      BY <2>2, <3>1, <3>3
  <2> HIDE DEF S
  <2>3. 0 .. z \subseteq S
    BY <1>1, <2>1, <2>2, Induction
  <2> QED
    BY <1>1, <2>3 DEF S
<1>4. Text!Column(b, Spot(t, z, Len(t[z]))) = Len(t[z])
  <2>1. z \in 0 .. n - 1 /\ Len(t[z]) \in 0 .. Len(t[z])
    BY <1>1
  <2> HIDE DEF z
  <2> QED
    BY <2>1, SpotIs
<1>5. ASSUME NEW p \in 0 .. Len(b) PROVE Text!Column(b, p) <= Columns
  <2> PICK y \in 0 .. n - 1 : \E x \in 0 .. Len(t[y]) : p = Spot(t, y, x)
    BY EveryPlace
  <2> PICK x \in 0 .. Len(t[y]) : p = Spot(t, y, x)
    OBVIOUS
  <2>1. Text!Column(b, p) = x
    BY SpotIs
  <2> QED
    BY <1>1, <2>1, RowsType
<1>6. Fitting(b)
  BY <1>1, <1>2, <1>3, <1>5, RowsType DEF Fitting
<1> QED
  BY <1>2, <1>3, <1>4, <1>6

\* Places have a last one.
LEMMA Bounded ==
    ASSUME NEW n \in Nat, NEW A \in SUBSET (1 .. n)
    PROVE  \E k \in A \cup {0} : \A i \in A : i <= k
<1> DEFINE S == {m \in 0 .. n : \E k \in A \cup {0} : \A i \in A : i <= m => i <= k}
<1>1. 0 \in S
  <2>1. \A i \in A : i <= 0 => i <= 0
    OBVIOUS
  <2> QED
    BY <2>1
<1>2. ASSUME NEW m \in 1 .. n, m - 1 \in S PROVE m \in S
  <2>1. CASE m \in A
    <3>1. \A i \in A : i <= m => i <= m
      OBVIOUS
    <3> QED
      BY <2>1, <3>1
  <2>2. CASE m \notin A
    <3> PICK k \in A \cup {0} : \A i \in A : i <= m - 1 => i <= k
      BY <1>2
    <3>1. \A i \in A : i <= m => i <= m - 1
      BY <2>2
    <3> QED
      BY <3>1
  <2> QED
    BY <2>1, <2>2
<1> HIDE DEF S
<1>3. n \in S
  BY <1>1, <1>2, Induction
<1>4. \A i \in A : i <= n
  OBVIOUS
<1> QED
  BY <1>3, <1>4 DEF S

\* What is added at the end changes no line and no column before it.
LEMMA AddedBehind ==
    ASSUME NEW a \in Seq(Letters), NEW r \in Seq(Letters)
    PROVE  /\ \A p \in 0 .. Len(a) : /\ Text!Breaks(a \o r, p) = Text!Breaks(a, p)
                                     /\ Text!Column(a \o r, p) = Text!Column(a, p)
                                     /\ Text!LineOf(a \o r, p) = Text!LineOf(a, p)
           /\ Text!LineOf(a, Len(a)) \in Nat /\ Text!LineOf(a \o r, Len(a \o r)) \in Nat
           /\ Text!LineOf(a, Len(a)) <= Text!LineOf(a \o r, Len(a \o r))
<1> DEFINE b == a \o r
<1>1. /\ Len(a) \in Nat /\ Len(r) \in Nat /\ Len(b) = Len(a) + Len(r)
      /\ \A i \in 1 .. Len(a) + Len(r) : b[i] = IF i <= Len(a) THEN a[i] ELSE r[i - Len(a)]
  BY Lengths, ConcatProperties
<1> HIDE DEF b
<1>2. \A i \in 1 .. Len(a) : b[i] = a[i]
  BY <1>1
<1>3. ASSUME NEW p \in 0 .. Len(a) PROVE Text!Breaks(b, p) = Text!Breaks(a, p)
  <2>1. \A i \in 1 .. p : i \in 1 .. Len(a)
    BY <1>1
  <2> QED
    BY <1>2, <2>1 DEF Text!Breaks
<1>4. \A p \in 0 .. Len(a) : /\ Text!Column(b, p) = Text!Column(a, p)
                             /\ Text!LineOf(b, p) = Text!LineOf(a, p)
  BY <1>3 DEF Text!Column, Text!LineOf
<1> DEFINE A == Text!Breaks(a, Len(a))
           B == Text!Breaks(b, Len(b))
<1>5. IsFiniteSet(B)
  <2>1. B \in SUBSET (1 .. Len(b)) /\ 1 \in Int /\ Len(b) \in Int
    BY <1>1 DEF Text!Breaks
  <2> QED
    BY <2>1, FS_Interval, FS_Subset
<1>6. A \subseteq B
  <2>1. A = Text!Breaks(b, Len(a))
    BY <1>1, <1>3
  <2>2. \A i \in 1 .. Len(a) : i \in 1 .. Len(b)
    BY <1>1
  <2> QED
    BY <2>1, <2>2 DEF Text!Breaks
<1> HIDE DEF A, B
<1>7. Cardinality(A) <= Cardinality(B) /\ Cardinality(A) \in Nat /\ Cardinality(B) \in Nat
  BY <1>5, <1>6, FS_Subset, FS_CardinalityType
<1>8. Text!LineOf(a, Len(a)) = Cardinality(A) /\ Text!LineOf(b, Len(b)) = Cardinality(B)
  BY SameCount DEF Text!LineOf, A, B
<1> QED
  BY <1>3, <1>4, <1>7, <1>8 DEF b

\* A part of a text that fits, from its start.
LEMMA PartFits ==
    ASSUME NEW a \in Seq(Letters), NEW r \in Seq(Letters), Fitting(a \o r)
    PROVE  Fitting(a)
<1> DEFINE b == a \o r
<1>1. Len(a) \in Nat /\ Len(r) \in Nat /\ Len(b) = Len(a) + Len(r)
  BY Lengths, Glued
<1> HIDE DEF b
<1>2. /\ \A p \in 0 .. Len(a) : Text!Column(b, p) = Text!Column(a, p)
      /\ Text!LineOf(a, Len(a)) \in Nat /\ Text!LineOf(b, Len(b)) \in Nat
      /\ Text!LineOf(a, Len(a)) <= Text!LineOf(b, Len(b))
  BY AddedBehind DEF b
<1>3. Fitting(b)
  BY DEF b
<1>4. \A p \in 0 .. Len(a) : p \in 0 .. Len(b)
  BY <1>1
<1> QED
  BY <1>2, <1>3, <1>4, RowsType DEF Fitting

\* A letter more.
LEMMA LetterMore ==
    ASSUME NEW a \in Seq(Letters), NEW c \in Letters
    PROVE  /\ c # Newline => Text!Column(a \o <<c>>, Len(a) + 1) = Text!Column(a, Len(a)) + 1
           /\ c = Newline => /\ Text!Column(a \o <<c>>, Len(a) + 1) = 0
                             /\ Text!LineOf(a \o <<c>>, Len(a) + 1) = Text!LineOf(a, Len(a)) + 1
<1> DEFINE d == <<c>>
           b == a \o d
           A == Text!Breaks(a, Len(a))
           B == Text!Breaks(b, Len(a) + 1)
           last == CHOOSE k \in A \cup {0} : \A i \in A : i <= k
           new  == CHOOSE k \in B \cup {0} : \A i \in B : i <= k
<1>1. d \in Seq(Letters) /\ Len(d) = 1 /\ d[1] = c /\ Len(a) \in Nat
  BY Lengths
<1> HIDE DEF d
<1>2. /\ Len(b) = Len(a) + 1
      /\ \A i \in 1 .. Len(a) : b[i] = a[i]
      /\ b[Len(a) + 1] = c
  BY <1>1, ConcatProperties
<1> HIDE DEF b
<1>3. /\ A = Text!Breaks(b, Len(a))
      /\ A \subseteq 1 .. Len(a) /\ IsFiniteSet(A)
  <2>1. A = Text!Breaks(b, Len(a))
    BY <1>2 DEF Text!Breaks
  <2>2. A \in SUBSET (1 .. Len(a)) /\ 1 \in Int /\ Len(a) \in Int
    BY <1>1 DEF Text!Breaks
  <2> QED
    BY <2>1, <2>2, FS_Interval, FS_Subset
<1>4. \A i \in 1 .. Len(a) + 1 : i \in 1 .. Len(a) \/ i = Len(a) + 1
  BY <1>1
<1>5. \A i \in 1 .. Len(a) : i \in 1 .. Len(a) + 1 /\ i # Len(a) + 1
  BY <1>1
<1>6. Len(a) + 1 \in 1 .. Len(a) + 1
  BY <1>1
<1>7. c # Newline => B = A
  BY <1>2, <1>3, <1>4, <1>5 DEF Text!Breaks
<1>8. c = Newline => B = A \cup {Len(a) + 1}
  BY <1>2, <1>3, <1>4, <1>5, <1>6 DEF Text!Breaks
<1>9. Len(a) + 1 \notin A
  BY <1>3, <1>5
<1>10. /\ Text!Column(a, Len(a)) = Len(a) - last /\ Text!Column(b, Len(a) + 1) = (Len(a) + 1) - new
       /\ Text!LineOf(a, Len(a)) = Cardinality(A) /\ Text!LineOf(b, Len(a) + 1) = Cardinality(B)
  BY SameCount DEF Text!Column, Text!LineOf
<1> HIDE DEF A, B
<1>11. c # Newline => Text!Column(b, Len(a) + 1) = Text!Column(a, Len(a)) + 1
  <2> SUFFICES ASSUME c # Newline PROVE Text!Column(b, Len(a) + 1) = Text!Column(a, Len(a)) + 1
    OBVIOUS
  <2>1. new = last
    BY <1>7
  <2>2. last \in Int
    <3>1. \E k \in A \cup {0} : \A i \in A : i <= k
      BY <1>3, <1>1, Bounded
    <3>2. last \in A \cup {0}
      BY <3>1, Zenon
    <3> HIDE DEF last
    <3>3. \A i \in 1 .. Len(a) : i \in Int
      OBVIOUS
    <3> QED
      BY <1>3, <3>2, <3>3
  <2> HIDE DEF new, last
  <2> QED
    BY <1>1, <1>10, <2>1, <2>2
<1>12. c = Newline => /\ Text!Column(b, Len(a) + 1) = 0
                      /\ Text!LineOf(b, Len(a) + 1) = Text!LineOf(a, Len(a)) + 1
  <2> SUFFICES ASSUME c = Newline
               PROVE  /\ Text!Column(b, Len(a) + 1) = 0
                      /\ Text!LineOf(b, Len(a) + 1) = Text!LineOf(a, Len(a)) + 1
    OBVIOUS
  <2> DEFINE p == Len(a) + 1
  <2>1. B = A \cup {p} /\ p \in Nat
    BY <1>1, <1>8
  <2>2. \A i \in B : i <= p
    BY <1>1, <1>3, <2>1
  <2>3. p \in B \cup {0}
    BY <2>1
  <2>4. new \in B \cup {0} /\ \A i \in B : i <= new
    BY <2>2, <2>3, Zenon
  <2> HIDE DEF new
  <2>5. new = p
    <3>1. p <= new
      BY <2>1, <2>4
    <3>2. new \in Nat /\ new <= p
      BY <1>1, <1>3, <2>1, <2>4
    <3> HIDE DEF p
    <3> QED
      BY <2>1, <3>1, <3>2
  <2>6. Cardinality(B) = Cardinality(A) + 1
    BY <1>3, <1>9, <2>1, FS_AddElement
  <2> QED
    BY <1>1, <1>10, <2>5, <2>6
<1> QED
  BY <1>11, <1>12 DEF b, d

(***************************************************************************)
(* A file without its carriage returns.                                    *)
(***************************************************************************)
KeptIs(f, s, n) ==
    f = [i \in 0 .. n |-> IF i = 0 THEN <<>>
                          ELSE IF s[i] = Return THEN f[i - 1]
                          ELSE f[i - 1] \o <<s[i]>>]

\* What the first bytes of a file are without them.
Kept(s) == CHOOSE f : KeptIs(f, s, Len(s))

LEMMA KeptExists == ASSUME NEW s, NEW n \in Nat PROVE \E f : KeptIs(f, s, n)
<1> DEFINE S == {k \in 0 .. n : \E f : KeptIs(f, s, k)}
<1>1. 0 \in S
  <2>1. KeptIs([i \in 0 .. 0 |-> <<>>], s, 0)
    BY DEF KeptIs
  <2> QED
    BY <2>1
<1>2. ASSUME NEW k \in 1 .. n, k - 1 \in S PROVE k \in S
  <2>1. PICK f : KeptIs(f, s, k - 1)
    BY <1>2
  <2> DEFINE next == IF s[k] = Return THEN f[k - 1] ELSE f[k - 1] \o <<s[k]>>
             g == [i \in 0 .. k |-> IF i = k THEN next ELSE f[i]]
  <2>2. ASSUME NEW i \in 0 .. k
        PROVE  g[i] = IF i = 0 THEN <<>> ELSE IF s[i] = Return THEN g[i - 1] ELSE g[i - 1] \o <<s[i]>>
    <3>1. CASE i = k
      <4> HIDE DEF next
      <4>1. g[i] = next /\ g[i - 1] = f[k - 1] /\ i # 0
        BY <3>1
      <4> QED
        BY <3>1, <4>1, Zenon DEF next
    <3>2. CASE i # k /\ i = 0
      <4>1. g[i] = f[0] /\ 0 \in 0 .. k - 1
        BY <3>2
      <4>2. f[0] = <<>>
        BY <2>1, <4>1 DEF KeptIs
      <4> QED
        BY <3>2, <4>1, <4>2
    <3>3. CASE i # k /\ i # 0
      <4>1. g[i] = f[i] /\ g[i - 1] = f[i - 1] /\ i \in 0 .. k - 1
        BY <3>3
      <4>2. f[i] = IF s[i] = Return THEN f[i - 1] ELSE f[i - 1] \o <<s[i]>>
        <5>1. f = [j \in 0 .. k - 1 |-> IF j = 0 THEN <<>>
                                        ELSE IF s[j] = Return THEN f[j - 1]
                                        ELSE f[j - 1] \o <<s[j]>>]
          BY <2>1 DEF KeptIs
        <5> QED
          BY <3>3, <4>1, <5>1, Zenon
      <4> QED
        BY <3>3, <4>1, <4>2, Zenon
    <3> QED
      BY <3>1, <3>2, <3>3
  <2>3. KeptIs(g, s, k)
    <3>1. g = [i \in 0 .. k |-> g[i]]
      OBVIOUS
    <3> HIDE DEF g
    <3>2. [i \in 0 .. k |-> g[i]]
             = [i \in 0 .. k |-> IF i = 0 THEN <<>> ELSE IF s[i] = Return THEN g[i - 1] ELSE g[i - 1] \o <<s[i]>>]
      BY <2>2, Zenon
    <3> QED
      BY <3>1, <3>2, Zenon DEF KeptIs
  <2> QED
    BY <2>3
<1> HIDE DEF S
<1>3. n \in S
  BY <1>1, <1>2, Induction
<1> QED
  BY <1>3 DEF S

\* A byte more: a carriage return is left out, any other one is kept.
LEMMA KeptSteps ==
    ASSUME NEW s \in Seq(Bytes)
    PROVE  /\ WithoutReturns(s) = Kept(s)[Len(s)]
           /\ Kept(s)[0] = <<>>
           /\ \A i \in 1 .. Len(s) :
                 /\ s[i] = Return => Kept(s)[i] = Kept(s)[i - 1]
                 /\ s[i] # Return => Kept(s)[i] = Kept(s)[i - 1] \o <<s[i]>>
                 /\ s[i] \in Letters \cup {Return, Other}
<1> DEFINE f == Kept(s)
<1>1. Len(s) \in Nat /\ 0 \in 0 .. Len(s)
  BY LenProperties
<1>2. KeptIs(f, s, Len(s))
  BY <1>1, KeptExists, Zenon DEF Kept
<1>3. WithoutReturns(s) = f[Len(s)]
  BY Zenon DEF WithoutReturns, Kept, KeptIs
<1> HIDE DEF f
<1>4. f[0] = <<>>
  BY <1>1, <1>2 DEF KeptIs
<1>5. ASSUME NEW i \in 1 .. Len(s)
      PROVE  /\ s[i] = Return => f[i] = f[i - 1]
             /\ s[i] # Return => f[i] = f[i - 1] \o <<s[i]>>
             /\ s[i] \in Letters \cup {Return, Other}
  <2>1. i \in 0 .. Len(s) /\ i # 0
    BY <1>1
  <2>2. f[i] = IF s[i] = Return THEN f[i - 1] ELSE f[i - 1] \o <<s[i]>>
    BY <1>2, <2>1, Zenon DEF KeptIs
  <2>3. s[i] \in Bytes
    BY ElementOfSeq
  <2> QED
    BY <2>2, <2>3 DEF Bytes, Letters
<1> QED
  BY <1>3, <1>4, <1>5 DEF f

\* In a file that has no byte the editor refuses.
LEMMA KeptLetters ==
    ASSUME NEW s \in Seq(Bytes), \A i \in 1 .. Len(s) : s[i] # Other
    PROVE  /\ \A i \in 0 .. Len(s) : Kept(s)[i] \in Seq(Letters)
           /\ \A i \in 0 .. Len(s) : \E r \in Seq(Letters) : WithoutReturns(s) = Kept(s)[i] \o r
<1> DEFINE f == Kept(s)
           n == Len(s)
<1>1. /\ n \in Nat
      /\ WithoutReturns(s) = f[n] /\ f[0] = <<>>
      /\ \A i \in 1 .. n : \/ f[i] = f[i - 1]
                           \/ s[i] \in Letters /\ f[i] = f[i - 1] \o <<s[i]>>
  BY LenProperties, KeptSteps
<1> HIDE DEF f, n
<1>2. ASSUME NEW i \in 1 .. n, f[i - 1] \in Seq(Letters)
      PROVE  f[i] \in Seq(Letters) /\ \E d \in Seq(Letters) : f[i] = f[i - 1] \o d
  <2>1. CASE f[i] = f[i - 1]
    BY <1>2, <2>1, Ends
  <2>2. CASE s[i] \in Letters /\ f[i] = f[i - 1] \o <<s[i]>>
    <3> DEFINE d == <<s[i]>>
    <3>1. d \in Seq(Letters)
      BY <2>2
    <3> HIDE DEF d
    <3>2. f[i] = f[i - 1] \o d
      BY <2>2 DEF d
    <3> QED
      BY <1>2, <3>1, <3>2, Glued
  <2> QED
    BY <1>1, <2>1, <2>2
<1>3. \A i \in 0 .. n : f[i] \in Seq(Letters)
  <2> DEFINE S == {i \in 0 .. n : f[i] \in Seq(Letters)}
  <2>1. 0 \in S
    <3>1. 0 \in 0 .. n
      BY <1>1
    <3>2. f[0] \in Seq(Letters)
      BY <1>1, Ends, Zenon
    <3> QED
      BY <3>1, <3>2
  <2>2. ASSUME NEW i \in 1 .. n, i - 1 \in S PROVE i \in S
    BY <1>1, <1>2, <2>2
  <2> HIDE DEF S
  <2>3. 0 .. n \subseteq S
    BY <1>1, <2>1, <2>2, Induction
  <2> QED
    BY <2>3 DEF S
<1>4. \A i \in 0 .. n : \E r \in Seq(Letters) : f[n] = f[i] \o r
  <2> DEFINE S == {k \in 0 .. n : \E r \in Seq(Letters) : f[n] = f[n - k] \o r}
  <2>1. 0 \in S
    <3>1. n - 0 = n /\ n \in 0 .. n /\ 0 \in 0 .. n
      BY <1>1
    <3>2. f[n] = f[n] \o <<>> /\ <<>> \in Seq(Letters)
      BY <1>3, <3>1, Ends
    <3>3. \E r \in Seq(Letters) : f[n] = f[n - 0] \o r
      BY <3>1, <3>2, Zenon
    <3> QED
      BY <3>1, <3>3
  <2>2. ASSUME NEW k \in 1 .. n, k - 1 \in S PROVE k \in S
    <3> DEFINE i == n - (k - 1)
    <3>1. i \in 1 .. n /\ i - 1 \in 0 .. n /\ i - 1 = n - k
      BY <1>1
    <3> PICK r \in Seq(Letters) : f[n] = f[i] \o r
      BY <2>2
    <3> HIDE DEF i
    <3>2. f[i - 1] \in Seq(Letters)
      BY <1>3, <3>1
    <3> PICK d \in Seq(Letters) : f[i] = f[i - 1] \o d
      BY <1>2, <3>1, <3>2
    <3> DEFINE g == f[i - 1]
    <3> HIDE DEF g
    <3>3. g \in Seq(Letters) /\ d \o r \in Seq(Letters) /\ (g \o d) \o r = g \o (d \o r)
      BY <3>2, Glued, Regroup DEF g
    <3>4. f[n] = f[i - 1] \o (d \o r)
      BY <3>3, Zenon DEF g
    <3>5. \E q \in Seq(Letters) : f[n] = f[n - k] \o q
      BY <3>1, <3>3, <3>4, Zenon
    <3>6. k \in 0 .. n
      BY <1>1
    <3> QED
      BY <3>5, <3>6, Zenon
  <2> HIDE DEF S
  <2>3. 0 .. n \subseteq S
    BY <1>1, <2>1, <2>2, Induction
  <2> SUFFICES ASSUME NEW i \in 0 .. n PROVE \E r \in Seq(Letters) : f[n] = f[i] \o r
    OBVIOUS
  <2>4. n - i \in 0 .. n /\ n - (n - i) = i
    BY <1>1
  <2>5. n - i \in S
    BY <2>3, <2>4
  <2> QED
    BY <2>4, <2>5 DEF S
<1> QED
  BY <1>1, <1>3, <1>4 DEF f, n

(***************************************************************************)
(* The text of a file.                                                     *)
(***************************************************************************)
LEMMA LastLetter ==
    \A a \in Seq(Letters) : \A c \in Letters :
       /\ a \o <<c>> \in Seq(Letters) /\ a \o <<c>> # <<>>
       /\ Last(a \o <<c>>) = c /\ Front(a \o <<c>>) = a
<1> TAKE a \in Seq(Letters)
<1> TAKE c \in Letters
<1> DEFINE d == <<c>>
           b == a \o d
<1>1. d \in Seq(Letters) /\ Len(d) = 1 /\ d[1] = c /\ Len(a) \in Nat
  BY Lengths
<1> HIDE DEF d
<1>2. b \in Seq(Letters) /\ Len(b) = Len(a) + 1 /\ b[Len(a) + 1] = c
  BY <1>1, ConcatProperties
<1>3. SubSeq(b, 1, Len(a)) = a
  BY <1>1, Cut
<1> HIDE DEF b
<1>4. Len(b) - 1 = Len(a) /\ Len(b) # 0
  BY <1>1, <1>2
<1>5. b # <<>>
  BY <1>4
<1>6. Last(b) = c /\ Front(b) = a
  BY <1>2, <1>3, <1>4 DEF Last, Front
<1> QED
  BY <1>2, <1>5, <1>6 DEF b, d

LEMMA EmptyOrLetter ==
    \A t \in Seq(Letters) : t = <<>> \/ \E a \in Seq(Letters) : \E c \in Letters : t = a \o <<c>>
<1> SUFFICES ASSUME NEW t \in Seq(Letters), t # <<>>
             PROVE  \E a \in Seq(Letters) : \E c \in Letters : t = a \o <<c>>
  OBVIOUS
<1>1. \E a \in Seq(Letters) : \E c \in Letters : t = Append(a, c)
  BY SequenceEmptyOrAppend
<1>2. \A a \in Seq(Letters) : \A c \in Letters : Append(a, c) = a \o <<c>>
  BY AppendIsConcat
<1> QED
  BY <1>1, <1>2

\* Without the newline at the end, if there is one.
Trimmed(t) == IF t # <<>> /\ Last(t) = Newline THEN Front(t) ELSE t

LEMMA TrimmedIs ==
    /\ Trimmed(<<>>) = <<>>
    /\ \A a \in Seq(Letters) : Trimmed(a \o <<Newline>>) = a
    /\ \A a \in Seq(Letters) : \A c \in Letters : c # Newline => Trimmed(a \o <<c>>) = a \o <<c>>
<1>1. Newline \in Letters
  BY DEF Letters
<1>2. Trimmed(<<>>) = <<>>
  BY DEF Trimmed
<1>3. \A a \in Seq(Letters) : Trimmed(a \o <<Newline>>) = a
  BY <1>1, LastLetter DEF Trimmed
<1>4. ASSUME NEW a \in Seq(Letters), NEW c \in Letters, c # Newline PROVE Trimmed(a \o <<c>>) = a \o <<c>>
  <2> DEFINE b == a \o <<c>>
  <2>1. Last(b) = c
    BY LastLetter
  <2> HIDE DEF b
  <2>2. Trimmed(b) = b
    BY <1>4, <2>1 DEF Trimmed
  <2> QED
    BY <2>2 DEF b
<1> QED
  BY <1>2, <1>3, <1>4

LEMMA TrimmedPart ==
    ASSUME NEW t \in Seq(Letters)
    PROVE  Trimmed(t) \in Seq(Letters) /\ \E r \in Seq(Letters) : t = Trimmed(t) \o r
<1>1. t = t \o <<>> /\ <<>> \in Seq(Letters) /\ <<Newline>> \in Seq(Letters) /\ Newline \in Letters
  BY Ends DEF Letters
<1>2. CASE t = <<>>
  BY <1>1, <1>2, TrimmedIs, Zenon
<1>3. CASE t # <<>>
  <2> PICK a \in Seq(Letters) : \E c \in Letters : t = a \o <<c>>
    BY <1>3, EmptyOrLetter
  <2> PICK c \in Letters : t = a \o <<c>>
    OBVIOUS
  <2>1. CASE c = Newline
    BY <1>1, <2>1, TrimmedIs, Zenon
  <2>2. CASE c # Newline
    <3>1. Trimmed(t) = t
      BY <2>2, TrimmedIs, Zenon
    <3> QED
      BY <1>1, <3>1, Zenon
  <2> QED
    BY <2>1, <2>2
<1> QED
  BY <1>2, <1>3

\* A byte behind a part of the file keeps that part in the text, and a letter
\* keeps itself there.
LEMMA TrimmedKeeps ==
    ASSUME NEW a \in Seq(Letters), NEW c \in Letters, NEW r \in Seq(Letters)
    PROVE  /\ \E q \in Seq(Letters) : Trimmed((a \o <<c>>) \o r) = a \o q
           /\ c # Newline => \E q \in Seq(Letters) : Trimmed((a \o <<c>>) \o r) = (a \o <<c>>) \o q
<1> DEFINE d == <<c>>
           g == a \o d
<1>1. d \in Seq(Letters)
  OBVIOUS
<1> HIDE DEF d
<1>2. g \in Seq(Letters) /\ <<>> \in Seq(Letters) /\ g \o <<>> = g /\ a \o <<>> = a
  BY <1>1, Glued, Ends
<1>3. c = Newline => Trimmed(g) = a
  BY TrimmedIs, Zenon DEF d
<1>4. c # Newline => Trimmed(g) = g
  BY TrimmedIs, Zenon DEF d
<1>5. \A q \in Seq(Letters) : g \o q = a \o (d \o q) /\ d \o q \in Seq(Letters)
  BY <1>1, Regroup, Glued
<1> HIDE DEF g
<1> SUFFICES /\ \E q \in Seq(Letters) : Trimmed(g \o r) = a \o q
             /\ c # Newline => \E q \in Seq(Letters) : Trimmed(g \o r) = g \o q
  BY DEF d, g
<1>6. CASE r = <<>>
  <2>1. g \o r = g
    BY <1>2, <1>6
  <2>2. CASE c = Newline
    BY <1>2, <1>3, <2>1, <2>2, Zenon
  <2>3. CASE c # Newline
    <3>1. Trimmed(g \o r) = g \o <<>>
      BY <1>2, <1>4, <2>1, <2>3, Zenon
    <3> QED
      BY <1>2, <1>5, <3>1, Zenon
  <2> QED
    BY <2>2, <2>3
<1>7. CASE r # <<>>
  <2> PICK s \in Seq(Letters) : \E e \in Letters : r = s \o <<e>>
    BY <1>7, EmptyOrLetter
  <2> PICK e \in Letters : r = s \o <<e>>
    OBVIOUS
  <2> DEFINE f == <<e>>
             h == g \o s
  <2>1. f \in Seq(Letters)
    OBVIOUS
  <2>2. h \in Seq(Letters) /\ g \o (s \o f) = h \o f
    <3> HIDE DEF f
    <3> QED
      BY <1>2, <2>1, Glued, Regroup
  <2>3. g \o r = h \o f
    BY <2>2
  <2>4. CASE e = Newline
    <3> HIDE DEF h
    <3>1. Trimmed(g \o r) = h
      BY <2>2, <2>3, <2>4, TrimmedIs, Zenon
    <3> QED
      BY <1>5, <3>1, Zenon DEF h
  <2>5. CASE e # Newline
    <3> HIDE DEF h
    <3>1. Trimmed(g \o r) = g \o r
      BY <2>2, <2>3, <2>5, TrimmedIs, Zenon
    <3> QED
      BY <1>5, <3>1, Zenon
  <2> QED
    BY <2>4, <2>5
<1> QED
  BY <1>6, <1>7

LEMMA FileTextIs == \A s : FileText(s) = Trimmed(WithoutReturns(s))
  BY DEF FileText, Trimmed

Clean(s) == s \in Seq(Bytes) /\ \A i \in 1 .. Len(s) : s[i] # Other

\* What is written behind a file adds its own text.
LEMMA KeptMore ==
    ASSUME NEW s, NEW u, Clean(s), Clean(u)
    PROVE  Clean(s \o u) /\ WithoutReturns(s \o u) = WithoutReturns(s) \o WithoutReturns(u)
<1> DEFINE c == s \o u
           m == Len(s)
           n == Len(u)
           f == Kept(c)
           g == Kept(s)
           h == Kept(u)
<1>1. /\ s \in Seq(Bytes) /\ u \in Seq(Bytes) /\ m \in Nat /\ n \in Nat
      /\ \A i \in 1 .. m : s[i] # Other
      /\ \A i \in 1 .. n : u[i] # Other
  BY LenProperties DEF Clean
<1>2. /\ c \in Seq(Bytes) /\ Len(c) = m + n
      /\ \A i \in 1 .. m + n : c[i] = IF i <= m THEN s[i] ELSE u[i - m]
  BY <1>1, ConcatProperties
<1> HIDE DEF c
<1>3. \A i \in 1 .. m : i \in 1 .. m + n /\ c[i] = s[i]
  BY <1>1, <1>2
<1>4. ASSUME NEW i \in 1 .. n PROVE m + i \in 1 .. m + n /\ c[m + i] = u[i]
  <2> DEFINE j == m + i
  <2>1. j \in 1 .. m + n /\ ~(j <= m) /\ j - m = i
    BY <1>1
  <2> HIDE DEF j
  <2>2. c[j] = u[i]
    BY <1>2, <2>1
  <2> QED
    BY <2>1, <2>2 DEF j
<1>5. Clean(c)
  <2>1. ASSUME NEW i \in 1 .. m + n PROVE c[i] # Other
    <3>1. CASE i <= m
      BY <1>1, <1>3, <3>1
    <3>2. CASE ~(i <= m)
      <4>1. i - m \in 1 .. n
        BY <1>1, <3>2
      <4> QED
        BY <1>1, <1>2, <3>2, <4>1
    <3> QED
      BY <3>1, <3>2
  <2> QED
    BY <1>2, <2>1 DEF Clean
<1>6. /\ WithoutReturns(c) = f[m + n]
      /\ f[0] = <<>>
      /\ \A i \in 1 .. m + n : /\ c[i] = Return => f[i] = f[i - 1]
                               /\ c[i] # Return => f[i] = f[i - 1] \o <<c[i]>>
  BY <1>2, KeptSteps
<1>7. /\ WithoutReturns(s) = g[m]
      /\ g[0] = <<>>
      /\ \A i \in 1 .. m : /\ s[i] = Return => g[i] = g[i - 1]
                           /\ s[i] # Return => g[i] = g[i - 1] \o <<s[i]>>
  BY <1>1, KeptSteps
<1>8. /\ WithoutReturns(u) = h[n]
      /\ h[0] = <<>>
      /\ \A i \in 1 .. n : /\ u[i] = Return => h[i] = h[i - 1]
                           /\ u[i] # Return => h[i] = h[i - 1] \o <<u[i]>> /\ u[i] \in Letters
  BY <1>1, KeptSteps
<1>9. g[m] \in Seq(Letters) /\ \A i \in 0 .. n : h[i] \in Seq(Letters)
  <2>1. m \in 0 .. m
    BY <1>1
  <2> QED
    BY <1>1, <2>1, KeptLetters
<1> HIDE DEF f, g, h, m, n
<1>10. f[m] = g[m]
  <2> DEFINE S == {i \in 0 .. m : f[i] = g[i]}
  <2>1. 0 \in S
    BY <1>1, <1>6, <1>7
  <2>2. ASSUME NEW i \in 1 .. m, i - 1 \in S PROVE i \in S
    <3>1. c[i] = s[i] /\ i \in 1 .. m + n /\ i \in 0 .. m
      BY <1>1, <1>3
    <3>2. f[i] = g[i]
      BY <1>6, <1>7, <2>2, <3>1
    <3> QED
      BY <3>1, <3>2
  <2> HIDE DEF S
  <2>3. 0 .. m \subseteq S
    BY <1>1, <2>1, <2>2, Induction
  <2>4. m \in 0 .. m
    BY <1>1
  <2> QED
    BY <2>3, <2>4 DEF S
<1>11. f[m + n] = g[m] \o h[n]
  <2> DEFINE S == {i \in 0 .. n : f[m + i] = g[m] \o h[i]}
  <2>1. 0 \in S
    <3>1. m + 0 = m /\ 0 \in 0 .. n
      BY <1>1
    <3>2. g[m] = g[m] \o <<>>
      BY <1>9, Ends
    <3>3. f[m + 0] = g[m] \o h[0]
      BY <1>8, <1>10, <3>1, <3>2, Zenon
    <3> QED
      BY <3>1, <3>3
  <2>2. ASSUME NEW i \in 1 .. n, i - 1 \in S PROVE i \in S
    <3>1. /\ m + i \in 1 .. m + n /\ (m + i) - 1 = m + (i - 1) /\ c[m + i] = u[i] /\ i \in 0 .. n
          /\ i - 1 \in 0 .. n
      BY <1>1, <1>4
    <3>2. f[m + (i - 1)] = g[m] \o h[i - 1]
      BY <2>2
    <3>3. CASE u[i] = Return
      BY <1>6, <1>8, <3>1, <3>2, <3>3
    <3>4. CASE u[i] # Return
      <4> DEFINE d == <<u[i]>>
                 k == h[i - 1]
                 l == g[m]
      <4>1. f[m + i] = f[m + (i - 1)] \o d /\ h[i] = h[i - 1] \o d
        BY <1>6, <1>8, <3>1, <3>4
      <4>2. d \in Seq(Letters) /\ k \in Seq(Letters) /\ l \in Seq(Letters)
        <5>1. u[i] \in Letters
          BY <1>8, <3>4
        <5>2. d \in Seq(Letters)
          BY <5>1
        <5> QED
          BY <1>9, <3>1, <5>2
      <4> HIDE DEF d, k, l
      <4>3. (l \o k) \o d = l \o (k \o d)
        BY <4>2, Regroup
      <4>4. f[m + i] = g[m] \o h[i]
        BY <3>2, <4>1, <4>3, Zenon DEF k, l
      <4> QED
        BY <3>1, <4>4
    <3> QED
      BY <3>3, <3>4
  <2> HIDE DEF S
  <2>3. 0 .. n \subseteq S
    BY <1>1, <2>1, <2>2, Induction
  <2>4. n \in 0 .. n
    BY <1>1
  <2> QED
    BY <2>3, <2>4 DEF S
<1> QED
  BY <1>5, <1>6, <1>7, <1>8, <1>11 DEF c, m, n

\* A row has no carriage return, and the end of a row has one.
LEMMA RowKept ==
    /\ Clean(<<>>) /\ WithoutReturns(<<>>) = <<>>
    /\ Clean(<<Return, Newline>>) /\ WithoutReturns(<<Return, Newline>>) = <<Newline>>
    /\ \A s \in Seq(Chars) : Clean(s) /\ WithoutReturns(s) = s
<1>1. <<>> \in Seq(Bytes) /\ Len(<<>>) = 0
  BY EmptySeq
<1>2. Clean(<<>>) /\ WithoutReturns(<<>>) = <<>>
  <2> DEFINE e == <<>>
  <2>1. e \in Seq(Bytes) /\ Len(e) = 0
    BY <1>1
  <2> HIDE DEF e
  <2>2. WithoutReturns(e) = Kept(e)[Len(e)] /\ Kept(e)[0] = <<>>
    BY <2>1, KeptSteps
  <2>3. Clean(e)
    BY <2>1 DEF Clean
  <2>4. WithoutReturns(e) = <<>>
    BY <2>1, <2>2
  <2> QED
    BY <2>3, <2>4 DEF e
<1>3. Clean(<<Return, Newline>>) /\ WithoutReturns(<<Return, Newline>>) = <<Newline>>
  <2> DEFINE e == <<Return, Newline>>
             f == Kept(e)
  <2>1. e \in Seq(Bytes) /\ Len(e) = 2 /\ e[1] = Return /\ e[2] = Newline /\ 1 \in 1 .. 2 /\ 2 \in 1 .. 2
    BY DEF Bytes
  <2>2. Return # Newline /\ Return # Other /\ Newline # Other
    BY EditorAssumption
  <2> HIDE DEF e
  <2>3. /\ WithoutReturns(e) = f[2] /\ f[0] = <<>>
        /\ \A i \in 1 .. 2 : /\ e[i] = Return => f[i] = f[i - 1]
                             /\ e[i] # Return => f[i] = f[i - 1] \o <<e[i]>>
    BY <2>1, KeptSteps
  <2>4. f[1] = <<>> /\ f[2] = f[1] \o <<Newline>>
    <3>1. 1 - 1 = 0 /\ 2 - 1 = 1
      OBVIOUS
    <3> HIDE DEF f
    <3> QED
      BY <2>1, <2>2, <2>3, <3>1
  <2>5. <<>> \o <<Newline>> = <<Newline>>
    <3>1. <<Newline>> \in Seq(Letters)
      BY Ends
    <3> QED
      BY <3>1, ConcatEmptySeq
  <2>6. WithoutReturns(e) = <<Newline>>
    BY <2>3, <2>4, <2>5, Zenon
  <2>7. Clean(e)
    <3>1. \A i \in 1 .. 2 : i = 1 \/ i = 2
      OBVIOUS
    <3> QED
      BY <2>1, <2>2, <3>1 DEF Clean
  <2> QED
    BY <2>6, <2>7 DEF e
<1>4. ASSUME NEW s \in Seq(Chars) PROVE Clean(s) /\ WithoutReturns(s) = s
  <2> DEFINE n == Len(s)
             f == Kept(s)
             S == {i \in 0 .. n : f[i] = SubSeq(s, 1, i)}
  <2>1. n \in Nat /\ \A i \in 1 .. n : s[i] \in Chars
    BY LenProperties, ElementOfSeq
  <2>2. Clean(s) /\ s \in Seq(Bytes)
    <3>1. Chars \subseteq Bytes
      BY DEF Bytes
    <3>2. s \in Seq(Bytes)
      BY <3>1, SeqMonotonic
    <3> QED
      BY <2>1, <3>2, EditorAssumption DEF Clean
  <2>3. /\ WithoutReturns(s) = f[n] /\ f[0] = <<>>
        /\ \A i \in 1 .. n : f[i] = f[i - 1] \o <<s[i]>>
    <3>1. \A i \in 1 .. n : s[i] # Return
      BY <2>1, EditorAssumption
    <3> QED
      BY <2>2, <3>1, KeptSteps
  <2>4. 0 \in S
    <3>1. SubSeq(s, 1, 0) = <<>> /\ 0 \in 0 .. n
      BY <2>1, SubSeqEmpty
    <3>2. f[0] = SubSeq(s, 1, 0)
      BY <2>3, <3>1
    <3> HIDE DEF f, n
    <3> QED
      BY <3>1, <3>2
  <2>5. ASSUME NEW i \in 1 .. n, i - 1 \in S PROVE i \in S
    <3>1. 1 \in 1 .. n /\ i \in 1 .. n /\ i \in 0 .. n
      BY <2>1
    <3>2. SubSeq(s, 1, i) = SubSeq(s, 1, i - 1) \o <<s[i]>>
      BY <3>1, SubSeqRecursiveSecond
    <3> HIDE DEF f, n
    <3>3. f[i] = SubSeq(s, 1, i)
      BY <2>3, <2>5, <3>2
    <3> QED
      BY <3>1, <3>3
  <2> HIDE DEF S
  <2>6. 0 .. n \subseteq S
    BY <2>1, <2>4, <2>5, Induction
  <2>7. n \in 0 .. n
    BY <2>1
  <2>8. f[n] = SubSeq(s, 1, n)
    BY <2>6, <2>7 DEF S
  <2> QED
    BY <2>2, <2>3, <2>8, SubSeqFull
<1> QED
  BY <1>2, <1>3, <1>4

(***************************************************************************)
(* Loading: the buffer holds the text of the bytes read so far.            *)
(***************************************************************************)
LoadText(l) == IF l.pending THEN Joining(l.lines)[l.row] \o <<Newline>> ELSE Joining(l.lines)[l.row]

LEMMA LoadRows ==
    ASSUME LoadOK
    PROVE  /\ load.lines \in AsRows /\ load.row \in AllRows /\ load.pending \in BOOLEAN /\ load.pos \in Nat
           /\ load.row \in Nat /\ load.row + 1 \in 1 .. Rows /\ (load.row + 1) - 1 = load.row
           /\ Joining(load.lines)[load.row] \in Seq(Letters) /\ LoadText(load) \in Seq(Letters)
           /\ WellFormed(load.lines, load.row + 1)
<1>1. /\ load.lines \in AsRows /\ load.row \in AllRows /\ load.pending \in BOOLEAN /\ load.pos \in Nat
      /\ WellFormed(load.lines, load.row + 1)
  BY DEF LoadOK, AsRows
<1>2. load.row \in Nat /\ load.row + 1 \in 1 .. Rows /\ (load.row + 1) - 1 = load.row
  BY <1>1, RowsType DEF AllRows
<1>3. Joining(load.lines)[load.row] \in Seq(Letters)
  BY <1>1, RowByRow
<1>4. LoadText(load) \in Seq(Letters)
  BY <1>1, <1>3, Glued, Ends DEF LoadText
<1> QED
  BY <1>1, <1>2, <1>3, <1>4

\* It ends where the next character goes.
LEMMA LoadTextIs ==
    ASSUME LoadOK, LoadRow \in AllRows
    PROVE  /\ Ahead(load.lines, LoadRow) \in Seq(Letters) /\ load.lines[LoadRow] \in Seq(Letters)
           /\ LoadText(load) = Ahead(load.lines, LoadRow) \o load.lines[LoadRow]
           /\ LoadText(load) = Joining(load.lines)[LoadRow]
<1>1. /\ Ahead(load.lines, LoadRow) \in Seq(Letters) /\ load.lines[LoadRow] \in Seq(Letters)
      /\ Joining(load.lines)[LoadRow] = Ahead(load.lines, LoadRow) \o load.lines[LoadRow]
  BY LoadRows, RowByRow
<1>2. CASE load.pending
  <2>1. LoadRow = load.row + 1 /\ LoadRow - 1 = load.row /\ LoadRow # 0
    BY <1>2, LoadRows DEF LoadRow
  <2>2. load.lines[LoadRow] = <<>>
    BY <2>1, LoadRows DEF WellFormed
  <2>3. Ahead(load.lines, LoadRow) = LoadText(load)
    BY <1>2, <2>1 DEF Ahead, LoadText
  <2>4. LoadText(load) \o <<>> = LoadText(load)
    BY LoadRows, Ends
  <2> QED
    BY <1>1, <2>2, <2>3, <2>4, Zenon
<1>3. CASE ~load.pending
  BY <1>1, <1>3 DEF LoadRow, LoadText
<1> QED
  BY <1>1, <1>2, <1>3

LEMMA CharLoaded ==
    ASSUME LoadOK, LoadRow \in AllRows, NEW c \in Chars,
           load' = [load EXCEPT !.lines[LoadRow] = Append(@, c), !.row = LoadRow, !.pending = FALSE,
                                !.pos = @ + 1]
    PROVE  /\ LoadText(load') = LoadText(load) \o <<c>>
           /\ load'.pos = load.pos + 1 /\ load'.lines[load'.row] # <<>>
<1> DEFINE t == load.lines
           l == Append(t[LoadRow], c)
           u == [t EXCEPT ![LoadRow] = l]
           a == Ahead(t, LoadRow)
           d == <<c>>
<1>1. t \in AsRows /\ t[LoadRow] \in Seq(Chars) /\ LoadRow \in Nat
  <2>1. t \in AsRows
    BY LoadRows
  <2>2. t[LoadRow] \in Seq(Chars)
    BY <2>1 DEF AsRows
  <2>3. LoadRow \in Nat
    BY RowsType DEF AllRows
  <2> QED
    BY <2>1, <2>2, <2>3
<1>2. load' = [lines |-> u, row |-> LoadRow, pending |-> FALSE, pos |-> load.pos + 1]
  BY DEF LoadOK
<1>3. l \in Seq(Chars) /\ l # <<>>
  BY <1>1, AppendProperties, EmptySeq
<1>4. l = t[LoadRow] \o d
  BY <1>1, AppendIsConcat
<1> HIDE DEF l
<1>5. u \in AsRows /\ u[LoadRow] = l /\ \A k \in 0 .. LoadRow - 1 : t[k] = u[k]
  <2>1. u \in AsRows /\ u[LoadRow] = l
    BY <1>1, <1>3 DEF AsRows
  <2>2. ASSUME NEW k \in 0 .. LoadRow - 1 PROVE t[k] = u[k]
    <3>1. k # LoadRow /\ k \in AllRows
      BY <1>1, RowsType DEF AllRows
    <3> QED
      BY <1>1, <3>1 DEF AsRows
  <2> QED
    BY <2>1, <2>2
<1> HIDE DEF u, t
<1>6. Ahead(u, LoadRow) = a
  BY <1>1, <1>5, SameAhead
<1>7. Joining(u)[LoadRow] = a \o l
  BY <1>5, <1>6, RowByRow
<1>8. a \in Seq(Letters) /\ t[LoadRow] \in Seq(Letters) /\ LoadText(load) = a \o t[LoadRow]
  BY LoadTextIs DEF t
<1>9. d \in Seq(Letters)
  <2>1. c \in Letters
    BY DEF Letters
  <2> QED
    BY <2>1
<1> HIDE DEF a, d
<1>10. (a \o t[LoadRow]) \o d = a \o (t[LoadRow] \o d)
  BY <1>8, <1>9, Regroup
<1>11. load'.lines = u /\ load'.row = LoadRow /\ load'.pending = FALSE /\ load'.pos = load.pos + 1
  <2>1. \A m : m = [lines |-> u, row |-> LoadRow, pending |-> FALSE, pos |-> load.pos + 1]
               => m.lines = u /\ m.row = LoadRow /\ m.pending = FALSE /\ m.pos = load.pos + 1
    OBVIOUS
  <2> QED
    BY <1>2, <2>1, Zenon
<1>12. LoadText(load') = LoadText(load) \o d
  <2>1. LoadText(load') = Joining(u)[LoadRow]
    BY <1>11, Zenon DEF LoadText
  <2> QED
    BY <1>4, <1>7, <1>8, <1>10, <2>1, Zenon
<1>13. load'.pos = load.pos + 1 /\ load'.lines[load'.row] = l
  BY <1>5, <1>11, Zenon
<1> QED
  BY <1>3, <1>12, <1>13 DEF d

LEMMA NewlineLoaded ==
    ASSUME LoadOK, NEW r \in AllRows, IF load.pending THEN r = load.row + 1 ELSE r = load.row,
           load' = [load EXCEPT !.row = r, !.pending = TRUE, !.pos = @ + 1]
    PROVE  /\ LoadText(load') = LoadText(load) \o <<Newline>>
           /\ load'.pos = load.pos + 1 /\ load'.pending
<1>1. load' = [lines |-> load.lines, row |-> r, pending |-> TRUE, pos |-> load.pos + 1]
  BY DEF LoadOK
<1>2. LoadText(load') = Joining(load.lines)[r] \o <<Newline>>
  BY <1>1 DEF LoadText
<1>3. LoadRow = r
  BY DEF LoadRow
<1>4. LoadText(load) = Joining(load.lines)[r]
  BY <1>3, LoadTextIs
<1> QED
  BY <1>1, <1>2, <1>4

\* What a load has read, and that a line is only started for something to put
\* in it or behind it.
ReadOK ==
    /\ pc \notin {"load", "closed"} => load = BlankLoad
    /\ pc = "load" =>
          /\ load.pos \in 0 .. Len(files[filename])
          /\ \A i \in 1 .. load.pos : files[filename][i] # Other
          /\ Kept(files[filename])[load.pos] = LoadText(load)
          /\ ~load.pending /\ load.row # 0 => load.lines[load.row] # <<>>

LEMMA ByteRead ==
    ASSUME IInv, ReadOK, Reading, NextByte # Other, UNCHANGED <<pc, files, filename>>,
           load'.pos = load.pos + 1,
           NextByte = Return => LoadText(load') = LoadText(load),
           NextByte # Return => LoadText(load') = LoadText(load) \o <<NextByte>>,
           ~load'.pending /\ load'.row # 0 => load'.lines[load'.row] # <<>>
    PROVE  ReadOK'
<1> DEFINE s == files[filename]
           p == load.pos + 1
<1>1. pc = "load" /\ s \in Seq(Bytes)
  BY DEF Reading, IInv, FilesOK
<1>2. p \in 1 .. Len(s) /\ p - 1 = load.pos /\ p \in 0 .. Len(s) /\ Len(s) \in Nat
  <2>1. load.pos \in 0 .. Len(s) /\ Len(s) \in Nat /\ load.pos < Len(s)
    BY <1>1, LenProperties DEF ReadOK, Reading
  <2> QED
    BY <2>1
<1>3. /\ s[p] = Return => Kept(s)[p] = Kept(s)[p - 1]
      /\ s[p] # Return => Kept(s)[p] = Kept(s)[p - 1] \o <<s[p]>>
  BY <1>1, <1>2, KeptSteps
<1>4. s[p] = NextByte
  BY DEF NextByte
<1>5. Kept(s)[p - 1] = LoadText(load)
  BY <1>1, <1>2 DEF ReadOK
<1> HIDE DEF s
<1>6. Kept(s)[p] = LoadText(load')
  BY <1>3, <1>4, <1>5
<1>7. \A i \in 1 .. p : s[i] # Other
  <2>1. \A i \in 1 .. load.pos : s[i] # Other
    BY <1>1 DEF ReadOK, s
  <2>2. \A i \in 1 .. p : i = p \/ i \in 1 .. load.pos
    BY <1>2
  <2> QED
    BY <1>4, <2>1, <2>2
<1>8. s' = s /\ load'.pos = p /\ pc' = "load"
  BY <1>1 DEF s
<1>9. load'.pos \in 0 .. Len(s') /\ Kept(s')[load'.pos] = LoadText(load') /\ \A i \in 1 .. load'.pos : s'[i] # Other
  BY <1>2, <1>6, <1>7, <1>8
<1> QED
  BY <1>8, <1>9 DEF ReadOK, s

LEMMA ReadStep == ASSUME IInv, ReadOK, [Next]_vars PROVE ReadOK'
<1>1. Newline # Other /\ Newline # Return /\ Return # Other /\ Chars \cap {Return, Other} = {}
  BY EditorAssumption
<1>2. LoadOK
  BY DEF IInv
<1>3. CASE LoadReturn
  <2>1. load' = [load EXCEPT !.pos = @ + 1] /\ Reading /\ NextByte = Return /\ UNCHANGED <<pc, files, filename>>
    BY <1>3 DEF LoadReturn, LoadStep
  <2>2. /\ load'.lines = load.lines /\ load'.row = load.row /\ load'.pending = load.pending
        /\ load'.pos = load.pos + 1
    BY <1>2, <2>1 DEF LoadOK
  <2>3. LoadText(load') = LoadText(load)
    BY <2>2 DEF LoadText
  <2>4. ~load.pending /\ load.row # 0 => load.lines[load.row] # <<>>
    BY <2>1 DEF ReadOK, Reading
  <2> QED
    BY <1>1, <2>1, <2>2, <2>3, <2>4, ByteRead
<1>4. CASE LoadNewline /\ pc' # "edit"
  <2>1. Reading /\ NextByte = Newline
    BY <1>4 DEF LoadNewline
  <2>2. \E r \in AllRows :
           /\ IF load.pending THEN r = load.row + 1 ELSE r = load.row
           /\ load' = [load EXCEPT !.row = r, !.pending = TRUE, !.pos = @ + 1]
    <3>1. CASE ~load.pending /\ LoadStep([load EXCEPT !.pending = TRUE])
      <4>1. load' = [load EXCEPT !.row = load.row, !.pending = TRUE, !.pos = @ + 1] /\ load.row \in AllRows
        BY <1>2, <3>1 DEF LoadStep, LoadOK
      <4> QED
        BY <3>1, <4>1
    <3>2. CASE load.pending /\ load.row + 1 < Rows /\ LoadStep([load EXCEPT !.row = @ + 1])
      <4> DEFINE r == load.row + 1
      <4>1. r \in AllRows
        BY <1>2, <3>2, LoadRows, RowsType DEF AllRows
      <4>2. load' = [load EXCEPT !.row = r, !.pending = TRUE, !.pos = @ + 1]
        BY <1>2, <3>2 DEF LoadStep, LoadOK
      <4> QED
        BY <3>2, <4>1, <4>2
    <3> QED
      BY <1>4, <3>1, <3>2 DEF LoadNewline, Refused, Cancel, Leave
  <2>3. UNCHANGED <<pc, files, filename>>
    BY <1>4 DEF LoadNewline, LoadStep, Refused, Cancel, Leave
  <2>4. /\ LoadText(load') = LoadText(load) \o <<Newline>>
        /\ load'.pos = load.pos + 1 /\ load'.pending
    BY <1>2, <2>2, NewlineLoaded
  <2> QED
    BY <1>1, <2>1, <2>3, <2>4, ByteRead
<1>5. CASE LoadChar /\ pc' # "edit"
  <2> DEFINE c == NextByte
  <2>1. Reading /\ c \in Chars /\ Fits /\ LoadStep([load EXCEPT !.lines[LoadRow] = Append(@, NextByte),
                                                                !.row = LoadRow, !.pending = FALSE])
    BY <1>5 DEF LoadChar, Refused, Cancel, Leave
  <2>2. LoadRow \in AllRows
    BY <1>2, <2>1, LoadRows, RowsType DEF Fits, LoadRow, AllRows
  <2>3. /\ load' = [load EXCEPT !.lines[LoadRow] = Append(@, c), !.row = LoadRow, !.pending = FALSE,
                                !.pos = @ + 1]
        /\ UNCHANGED <<pc, files, filename>>
    BY <2>1 DEF LoadStep
  <2> HIDE DEF c
  <2>4. /\ LoadText(load') = LoadText(load) \o <<c>>
        /\ load'.pos = load.pos + 1 /\ load'.lines[load'.row] # <<>>
    BY <1>2, <2>1, <2>2, <2>3, CharLoaded
  <2>5. NextByte = c /\ c # Other /\ c # Return
    BY <1>1, <2>1 DEF c
  <2> QED
    BY <2>1, <2>3, <2>4, <2>5, ByteRead
<1>6. CASE LoadOpen /\ pc' = "load"
  <2>1. pc = "load_open" /\ Exists(filename) /\ UNCHANGED <<load, files, filename>>
    BY <1>6 DEF LoadOpen, Refused, Cancel, Leave, Goto
  <2>2. files[filename] \in Seq(Bytes)
    BY <2>1 DEF IInv, DialogOK, FilesOK, Exists
  <2>3. load' = BlankLoad
    BY <2>1 DEF ReadOK
  <2>4. Kept(files[filename])[0] = <<>> /\ 0 \in 0 .. Len(files[filename])
    BY <2>2, KeptSteps, LenProperties
  <2>5. LoadText(BlankLoad) = <<>> /\ BlankLoad.pos = 0 /\ BlankLoad.row = 0
    <3>1. Blank \in AsRows /\ Blank[0] = <<>>
      BY BlankType DEF AsRows, Blank
    <3>2. Joining(Blank)[0] = <<>>
      BY <3>1, RowByRow
    <3> QED
      BY <3>2 DEF LoadText, BlankLoad
  <2>6. load'.pos = 0 /\ load'.row = 0 /\ LoadText(load') = <<>> /\ files'[filename'] = files[filename]
    BY <2>1, <2>3, <2>5
  <2>7. \A i \in 1 .. 0 : files[filename][i] # Other
    OBVIOUS
  <2> QED
    BY <1>6, <2>4, <2>6, <2>7 DEF ReadOK
<1>7. CASE pc' \notin {"load", "closed"}
  <2>1. CASE load' = BlankLoad
    BY <1>7, <2>1 DEF ReadOK
  <2>2. CASE UNCHANGED load /\ pc \notin {"load", "closed"}
    BY <1>7, <2>2 DEF ReadOK
  <2>3. CASE Move \/ Edit
    <3>1. UNCHANGED <<pc, load>>
      BY <2>3 DEF Move, Edit, ArrowUp, ArrowDown, ArrowLeft, ArrowRight, MoveTo,
                  Type, Backspace, Join, Enter, Edited
    <3> QED
      BY <1>7, <2>2, <3>1
  <2>4. CASE Save
    BY <1>7, <2>1, <2>2, <2>4
    DEF Save, SaveKey, SaveName, SaveStat, Overwrite, SaveOpen, SaveRow, SaveRowFails, SaveClose,
        SaveCloseFails, NameTyped, Confirm, Cancel, Leave, Goto
  <2>5. CASE Open
    <3>1. CASE OpenKey \/ Discard \/ OpenName \/ LoadOpen \/ LoadFails \/ LoadOther \/ LoadEnd
      BY <1>7, <2>1, <2>2, <3>1
      DEF OpenKey, Discard, OpenName, LoadOpen, LoadFails, LoadOther, LoadEnd, NameTyped, Confirm,
          Refused, Cancel, Leave, Goto
    <3>2. CASE LoadReturn \/ LoadNewline \/ LoadChar
      BY <1>7, <2>1, <3>2
      DEF LoadReturn, LoadNewline, LoadChar, LoadStep, Reading, Refused, Cancel, Leave
    <3> QED
      BY <2>5, <3>1, <3>2 DEF Open
  <2>6. CASE ExitKey \/ PowerLoss \/ Start
    BY <1>7, <2>1, <2>6 DEF ExitKey, PowerLoss, Close, Goto, Start, Leave
  <2>7. CASE UNCHANGED vars
    BY <1>7, <2>2, <2>7 DEF vars
  <2> QED
    BY <2>3, <2>4, <2>5, <2>6, <2>7 DEF Next
<1>8. CASE pc' = "load" /\ ~LoadReturn /\ ~LoadNewline /\ ~LoadChar /\ ~LoadOpen
  <2>1. UNCHANGED vars
    BY <1>8
    DEF Next, Move, Edit, ArrowUp, ArrowDown, ArrowLeft, ArrowRight, MoveTo,
        Type, Backspace, Join, Enter, Edited,
        Save, SaveKey, SaveName, SaveStat, Overwrite, SaveOpen, SaveRow, SaveRowFails, SaveClose,
        SaveCloseFails, Open, OpenKey, Discard, OpenName, LoadFails, LoadOther, LoadEnd, NameTyped, Confirm,
        Refused, Cancel, Leave, Goto, ExitKey, PowerLoss, Close, Start
  <2> QED
    BY <2>1 DEF vars, ReadOK
<1>9. CASE pc' = "closed"
  BY <1>9 DEF ReadOK
<1> QED
  BY <1>3, <1>4, <1>5, <1>6, <1>7, <1>8, <1>9

(***************************************************************************)
(* Saving: the file holds the text of the rows written so far.             *)
(***************************************************************************)
SaveOK ==
    /\ pc \notin {"save_row", "closed"} => row = 0
    /\ pc = "save_row" =>
          /\ row \in 0 .. line_count
          /\ Clean(files[filename])
          /\ row < line_count => WithoutReturns(files[filename]) = Ahead(text, row)
          /\ row = line_count => WithoutReturns(files[filename]) = Buffer

LEMMA PieceKept ==
    ASSUME DocOK, NEW y \in 0 .. line_count - 1
    PROVE  /\ Clean(Piece(y))
           /\ y + 1 < line_count => WithoutReturns(Piece(y)) = text[y] \o <<Newline>>
           /\ y + 1 >= line_count => WithoutReturns(Piece(y)) = text[y]
<1>1. y \in AllRows /\ text[y] \in Seq(Chars)
  <2>1. y \in AllRows
    BY RowsType DEF DocOK, AllRows
  <2> QED
    BY <2>1 DEF DocOK
<1>2. Clean(text[y]) /\ WithoutReturns(text[y]) = text[y]
  BY <1>1, RowKept
<1> DEFINE e == <<Return, Newline>>
<1>3. Clean(e) /\ WithoutReturns(e) = <<Newline>>
  BY RowKept
<1>4. CASE y + 1 < line_count
  <2>1. Piece(y) = text[y] \o e
    BY <1>4 DEF Piece, Line
  <2> HIDE DEF e
  <2>2. Clean(text[y] \o e) /\ WithoutReturns(text[y] \o e) = WithoutReturns(text[y]) \o WithoutReturns(e)
    BY <1>2, <1>3, KeptMore
  <2>3. line_count \in Nat /\ y \in Nat
    BY RowsType DEF DocOK
  <2> QED
    BY <1>2, <1>3, <1>4, <2>1, <2>2, <2>3
<1>5. CASE ~(y + 1 < line_count)
  <2>1. Piece(y) = text[y] \o <<>>
    BY <1>5 DEF Piece, Line
  <2>2. text[y] \o <<>> = text[y]
    BY <1>1, ConcatEmptySeq
  <2> QED
    BY <1>2, <1>5, <2>1, <2>2
<1> QED
  BY <1>4, <1>5

LEMMA RowSaved ==
    ASSUME IInv, SaveOK, SaveRow
    PROVE  SaveOK'
<1> DEFINE s == files[filename]
           u == Piece(row)
<1>1. pc = "save_row" /\ row < line_count /\ row' = row + 1 /\ UNCHANGED <<pc, filename, text, line_count>>
  BY DEF SaveRow, document
<1>2. row \in 0 .. line_count - 1 /\ line_count \in Nat /\ row \in Nat /\ row \in AllRows
  BY <1>1, RowsType DEF SaveOK, IInv, DocOK, AllRows
<1>3. files'[filename] = s \o u
  BY <1>1 DEF SaveRow, IInv, DialogOK, FilesOK
<1>4. Clean(s) /\ WithoutReturns(s) = Ahead(text, row)
  BY <1>1 DEF SaveOK
<1>5. DocOK
  BY DEF IInv
<1>6. /\ Clean(u)
      /\ row + 1 < line_count => WithoutReturns(u) = text[row] \o <<Newline>>
      /\ row + 1 >= line_count => WithoutReturns(u) = text[row]
  BY <1>2, <1>5, PieceKept
<1>7. /\ Ahead(text, row) \in Seq(Letters) /\ text[row] \in Seq(Letters) /\ <<Newline>> \in Seq(Letters)
      /\ Joining(text)[row] = Ahead(text, row) \o text[row]
  BY <1>2, <1>5, DocRows, RowByRow, Ends
<1> HIDE DEF s, u
<1>8. Clean(s \o u) /\ WithoutReturns(s \o u) = WithoutReturns(s) \o WithoutReturns(u)
  BY <1>4, <1>6, KeptMore
<1>9. row + 1 < line_count => WithoutReturns(s \o u) = Ahead(text, row + 1)
  <2> SUFFICES ASSUME row + 1 < line_count PROVE WithoutReturns(s \o u) = Ahead(text, row + 1)
    OBVIOUS
  <2> DEFINE a == Ahead(text, row)
             b == text[row]
             d == <<Newline>>
  <2>1. Ahead(text, row + 1) = Joining(text)[row] \o d
    <3>1. row + 1 # 0 /\ (row + 1) - 1 = row
      BY <1>2
    <3> QED
      BY <3>1 DEF Ahead
  <2>2. WithoutReturns(s \o u) = a \o (b \o d)
    BY <1>4, <1>6, <1>8
  <2> HIDE DEF a, b, d
  <2>3. (a \o b) \o d = a \o (b \o d)
    BY <1>7, Regroup DEF a, b, d
  <2>4. Joining(text)[row] = a \o b
    BY <1>7 DEF a, b
  <2> QED
    BY <2>1, <2>2, <2>3, <2>4, Zenon
<1>10. row + 1 = line_count => WithoutReturns(s \o u) = Buffer
  <2> SUFFICES ASSUME row + 1 = line_count PROVE WithoutReturns(s \o u) = Buffer
    OBVIOUS
  <2>1. row + 1 >= line_count /\ line_count - 1 = row
    BY <1>2
  <2>2. WithoutReturns(s \o u) = Ahead(text, row) \o text[row]
    BY <1>4, <1>6, <1>8, <2>1, Zenon
  <2> QED
    BY <1>7, <2>1, <2>2 DEF Buffer
<1>11. /\ pc' = "save_row" /\ files'[filename'] = s \o u /\ row' = row + 1 /\ line_count' = line_count
       /\ text' = text /\ Buffer' = Buffer /\ row + 1 \in 0 .. line_count
  BY <1>1, <1>2, <1>3 DEF Buffer
<1> QED
  BY <1>8, <1>9, <1>10, <1>11 DEF SaveOK

LEMMA SaveStep == ASSUME IInv, SaveOK, [Next]_vars PROVE SaveOK'
<1>1. CASE SaveRow
  BY <1>1, RowSaved
<1>2. CASE SaveOpen /\ pc' = "save_row"
  <2>1. pc = "save_open" /\ files' = Emptied /\ UNCHANGED <<row, filename, text, line_count>>
    BY <1>2 DEF SaveOpen, Cancel, Leave, Goto, document
  <2>2. files'[filename'] = <<>>
    BY <2>1 DEF Emptied, IInv, DialogOK, FilesOK
  <2>3. row' = 0 /\ line_count' \in Nat /\ line_count' # 0 /\ 0 \in 0 .. line_count'
    BY <2>1, RowsType DEF SaveOK, IInv, DocOK
  <2>4. Ahead(text', 0) = <<>>
    BY DEF Ahead
  <2> QED
    BY <1>2, <2>2, <2>3, <2>4, RowKept DEF SaveOK
<1>3. CASE pc' \notin {"save_row", "closed"}
  <2>1. CASE row' = 0
    BY <1>3, <2>1 DEF SaveOK
  <2>2. CASE UNCHANGED row /\ pc \notin {"save_row", "closed"}
    BY <1>3, <2>2 DEF SaveOK
  <2>3. CASE Move \/ Edit
    <3>1. UNCHANGED <<pc, row>>
      BY <2>3 DEF Move, Edit, ArrowUp, ArrowDown, ArrowLeft, ArrowRight, MoveTo,
                  Type, Backspace, Join, Enter, Edited
    <3> QED
      BY <1>3, <2>2, <3>1
  <2>4. CASE Save
    BY <1>3, <2>1, <2>2, <2>4
    DEF Save, SaveKey, SaveName, SaveStat, Overwrite, SaveOpen, SaveRow, SaveRowFails, SaveClose,
        SaveCloseFails, NameTyped, Confirm, Cancel, Leave, Goto
  <2>5. CASE Open
    BY <1>3, <2>1, <2>2, <2>5
    DEF Open, OpenKey, Discard, OpenName, LoadOpen, LoadFails, LoadOther, LoadEnd, NameTyped, Confirm,
        LoadReturn, LoadNewline, LoadChar, LoadStep, Reading, Refused, Cancel, Leave, Goto
  <2>6. CASE ExitKey \/ PowerLoss \/ Start
    BY <1>3, <2>1, <2>6 DEF ExitKey, PowerLoss, Close, Goto, Start, Leave
  <2>7. CASE UNCHANGED vars
    BY <1>3, <2>2, <2>7 DEF vars
  <2> QED
    BY <2>3, <2>4, <2>5, <2>6, <2>7 DEF Next
<1>4. CASE pc' = "save_row" /\ ~SaveRow /\ ~SaveOpen
  <2>1. UNCHANGED vars
    BY <1>4
    DEF Next, Move, Edit, ArrowUp, ArrowDown, ArrowLeft, ArrowRight, MoveTo,
        Type, Backspace, Join, Enter, Edited,
        Save, SaveKey, SaveName, SaveStat, Overwrite, SaveRowFails, SaveClose,
        SaveCloseFails, Open, OpenKey, Discard, OpenName, LoadOpen, LoadReturn, LoadNewline, LoadChar, LoadFails,
        LoadOther, LoadEnd, LoadStep, Reading, NameTyped, Confirm,
        Refused, Cancel, Leave, Goto, ExitKey, PowerLoss, Close, Start
  <2>2. UNCHANGED <<pc, row, files, filename, text, line_count, Buffer>>
    BY <2>1 DEF vars, document, Buffer
  <2> QED
    BY <2>2 DEF SaveOK
<1>5. CASE pc' = "closed"
  BY <1>5 DEF SaveOK
<1> QED
  BY <1>1, <1>2, <1>3, <1>4, <1>5

LEMMA ClosedExact ==
    ASSUME IInv, SaveOK, SaveClose
    PROVE  WithoutReturns(files'[filename]) = DocumentText /\ Loadable(files'[filename])
<1> DEFINE s == files[filename]
           z == Trimmed(Buffer)
<1>1. files' = files /\ Clean(s) /\ WithoutReturns(s) = Buffer
  <2>1. pc = "save_row" /\ row = line_count /\ files' = files
    BY DEF SaveClose
  <2> QED
    BY <2>1 DEF SaveOK
<1>2. DocOK /\ text \in AsRows /\ line_count \in 1 .. Rows /\ WellFormed(text, line_count)
      /\ line_count - 1 \in AllRows
  <2>1. DocOK
    BY DEF IInv
  <2> QED
    BY <2>1, DocRows DEF DocOK
<1>3. Buffer \in Seq(Letters)
  BY <1>2, RowByRow DEF Buffer
<1>4. Fitting(Buffer)
  BY <1>2, GridFits DEF Buffer
<1> HIDE DEF s
<1>5. Fitting(z)
  <2> HIDE DEF z
  <2>1. z \in Seq(Letters) /\ \E r \in Seq(Letters) : Buffer = z \o r
    BY <1>3, TrimmedPart DEF z
  <2> PICK r \in Seq(Letters) : Buffer = z \o r
    BY <2>1
  <2>2. Fitting(z \o r)
    BY <1>4
  <2> QED
    BY <2>1, <2>2, PartFits
<1>6. FileText(s) = z
  BY <1>1, FileTextIs
<1>7. Loadable(s)
  <2>1. \A i \in 1 .. Len(s) : s[i] # Other
    BY <1>1 DEF Clean
  <2> QED
    BY <1>5, <1>6, <2>1, Zenon DEF Loadable
<1> QED
  BY <1>1, <1>7, TextOf DEF s

\* For every grid, every alphabet and every directory: when save_document
\* reports success, the file holds exactly the text of the document, line for
\* line, and load_document would accept it: its last line has no newline of
\* its own and no line is lost or doubled on the way.
THEOREM SavesExactly == Spec => SaveIsExact
<1>1. Init => IInv /\ SaveOK
  <2>1. Init => SaveOK
    BY DEF Init, SaveOK
  <2> QED
    BY <2>1, InitHolds
<1>2. IInv /\ SaveOK /\ [Next]_vars => (IInv /\ SaveOK)'
  BY StepHolds, SaveStep
<1>3. IInv /\ SaveOK /\ [Next]_vars =>
        [SaveClose => /\ WithoutReturns(files'[filename]) = DocumentText
                      /\ Loadable(files'[filename])]_vars
  BY ClosedExact
<1> QED
  BY <1>1, <1>2, <1>3, PTL DEF Spec, SaveIsExact

LEMMA WhatWasRead ==
    ASSUME IInv, ReadOK, pc = "load"
    PROVE  /\ files[filename] \in Seq(Bytes) /\ LoadOK /\ load.pos \in 0 .. Len(files[filename])
           /\ Len(files[filename]) \in Nat /\ LoadText(load) \in Seq(Letters)
           /\ Kept(files[filename])[load.pos] = LoadText(load)
<1>1. files[filename] \in Seq(Bytes) /\ LoadOK
  BY DEF IInv, FilesOK
<1> QED
  BY <1>1, LoadRows, LenProperties DEF ReadOK

\* The newline behind the last line is no part of the text.
LEMMA LoadTextTrimmed ==
    ASSUME LoadOK, ~load.pending /\ load.row # 0 => load.lines[load.row] # <<>>
    PROVE  Trimmed(LoadText(load)) = Joining(load.lines)[load.row]
<1> DEFINE t == Joining(load.lines)[load.row]
           a == Ahead(load.lines, load.row)
           l == load.lines[load.row]
<1>1. /\ load.lines \in AsRows /\ load.row \in AllRows /\ t \in Seq(Letters)
      /\ a \in Seq(Letters) /\ l \in Seq(Letters) /\ t = a \o l /\ l \in Seq(Chars)
  <2>1. load.lines \in AsRows /\ load.row \in AllRows
    BY LoadRows
  <2> QED
    BY <2>1, RowByRow DEF AsRows
<1>2. CASE load.pending
  BY <1>1, <1>2, TrimmedIs DEF LoadText
<1>3. CASE ~load.pending
  <2>1. LoadText(load) = t
    BY <1>3 DEF LoadText
  <2>2. CASE l = <<>>
    <3>1. a = <<>>
      BY <1>3, <2>2 DEF Ahead
    <3>2. t = <<>>
      <4>1. <<>> \o <<>> = <<>>
        BY Ends
      <4> QED
        BY <1>1, <2>2, <3>1, <4>1, Zenon
    <3> QED
      BY <2>1, <3>2, TrimmedIs
  <2>3. CASE l # <<>>
    <3> PICK k \in Seq(Chars) : \E c \in Chars : l = Append(k, c)
      BY <1>1, <2>3, SequenceEmptyOrAppend
    <3> PICK c \in Chars : l = Append(k, c)
      OBVIOUS
    <3> DEFINE d == <<c>>
               g == a \o k
    <3>1. c \in Letters /\ c # Newline /\ k \in Seq(Letters)
      <4>1. Chars \subseteq Letters
        BY DEF Letters
      <4> QED
        BY <4>1, SeqMonotonic, EditorAssumption
    <3>2. l = k \o d /\ d \in Seq(Letters)
      BY <3>1, AppendIsConcat
    <3> HIDE DEF d, a, l, t
    <3>3. g \in Seq(Letters) /\ a \o (k \o d) = g \o d
      <4>1. g \in Seq(Letters)
        BY <1>1, <3>1, Glued
      <4>2. (a \o k) \o d = a \o (k \o d)
        BY <1>1, <3>1, <3>2, Regroup
      <4> QED
        BY <4>1, <4>2
    <3>4. t = g \o d
      BY <1>1, <3>2, <3>3
    <3> HIDE DEF g
    <3>5. Trimmed(g \o d) = g \o d
      BY <3>1, <3>3, TrimmedIs DEF d
    <3> QED
      BY <2>1, <3>4, <3>5 DEF t
  <2> QED
    BY <2>2, <2>3
<1> QED
  BY <1>2, <1>3

LEMMA LoadedExact ==
    ASSUME IInv, ReadOK, LoadEnd
    PROVE  /\ Loadable(files[filename])
           /\ DocumentText' = FileText(files[filename])
           /\ current_filename' = filename
           /\ ~has_unsaved_changes'
           /\ cursor' = <<0, 0>>
<1> DEFINE s == files[filename]
           t == Joining(load.lines)[load.row]
<1>1. pc = "load" /\ ~(load.pos < Len(s))
  BY DEF LoadEnd, Reading
<1>2. /\ s \in Seq(Bytes) /\ LoadOK /\ load.pos \in 0 .. Len(s) /\ Len(s) \in Nat
      /\ Kept(s)[load.pos] = LoadText(load)
  BY <1>1, WhatWasRead
<1>3. load.pos = Len(s)
  BY <1>1, <1>2
<1>4. WithoutReturns(s) = LoadText(load)
  BY <1>2, <1>3, KeptSteps
<1>5. ~load.pending /\ load.row # 0 => load.lines[load.row] # <<>>
  BY <1>1 DEF ReadOK
<1>6. FileText(s) = t
  BY <1>2, <1>4, <1>5, FileTextIs, LoadTextTrimmed
<1>7. /\ load.lines \in AsRows /\ load.row + 1 \in 1 .. Rows /\ (load.row + 1) - 1 = load.row
      /\ WellFormed(load.lines, load.row + 1)
  BY <1>2, LoadRows
<1>8. Fitting(t)
  BY <1>7, GridFits
<1>9. \A i \in 1 .. Len(s) : s[i] # Other
  BY <1>1, <1>3 DEF ReadOK
<1>10. Buffer' = t
  <2>1. text' = load.lines /\ line_count' = load.row + 1
    BY DEF LoadEnd
  <2> QED
    BY <1>7, <2>1 DEF Buffer
<1> HIDE DEF s, t
<1>11. Loadable(s) /\ DocumentText' = FileText(s)
  BY <1>6, <1>8, <1>9, <1>10, TextOf DEF Loadable
<1> QED
  BY <1>11 DEF LoadEnd, cursor, s

\* A letter that the text of the file goes on with.
LEMMA GoesOn ==
    ASSUME IInv, ReadOK, Reading, NEW c \in Letters, NextByte = c, Loadable(files[filename])
    PROVE  /\ \E q \in Seq(Letters) : Fitting(LoadText(load) \o q)
           /\ c # Newline => \E q \in Seq(Letters) : Fitting((LoadText(load) \o <<c>>) \o q)
<1> DEFINE s == files[filename]
           p == load.pos + 1
           a == LoadText(load)
           d == <<c>>
<1>1. pc = "load" /\ load.pos < Len(s)
  BY DEF Reading
<1>2. /\ s \in Seq(Bytes) /\ LoadOK /\ load.pos \in 0 .. Len(s) /\ Len(s) \in Nat
      /\ Kept(s)[load.pos] = a /\ a \in Seq(Letters)
  BY <1>1, WhatWasRead
<1>3. p \in 1 .. Len(s) /\ p - 1 = load.pos /\ p \in 0 .. Len(s)
  BY <1>1, <1>2
<1>4. s[p] = c /\ c # Return
  <2>1. c # Return
    BY EditorAssumption DEF Letters
  <2> QED
    BY <2>1 DEF NextByte
<1>5. (\A i \in 1 .. Len(s) : s[i] # Other) /\ Fitting(FileText(s))
  BY DEF Loadable
<1> HIDE DEF s, a, p, d
<1>6. Kept(s)[p] = a \o d
  <2>1. s[p] # Return => Kept(s)[p] = Kept(s)[p - 1] \o <<s[p]>>
    BY <1>2, <1>3, KeptSteps
  <2> QED
    BY <1>2, <1>3, <1>4, <2>1 DEF d
<1>7. \E r \in Seq(Letters) : WithoutReturns(s) = Kept(s)[p] \o r
  BY <1>2, <1>3, <1>5, KeptLetters
<1> PICK r \in Seq(Letters) : WithoutReturns(s) = Kept(s)[p] \o r
  BY <1>7
<1>8. Fitting(Trimmed((a \o d) \o r))
  BY <1>5, <1>6, FileTextIs, Zenon
<1>9. /\ \E q \in Seq(Letters) : Trimmed((a \o d) \o r) = a \o q
      /\ c # Newline => \E q \in Seq(Letters) : Trimmed((a \o d) \o r) = (a \o d) \o q
  BY <1>2, TrimmedKeeps DEF d
<1> QED
  BY <1>8, <1>9, Zenon DEF a, d

LEMMA RefusedUnfit ==
    ASSUME IInv, ReadOK, LoadNewline \/ LoadChar \/ LoadOther, pc' = "edit"
    PROVE  ~Loadable(files[filename])
<1> DEFINE s == files[filename]
           a == LoadText(load)
           b == Joining(load.lines)[load.row]
<1>1. pc = "load" /\ Reading
  BY DEF LoadNewline, LoadChar, LoadOther, Reading
<1>2. /\ s \in Seq(Bytes) /\ LoadOK /\ load.pos \in 0 .. Len(s) /\ Len(s) \in Nat
      /\ a \in Seq(Letters) /\ Len(a) \in Nat
  BY <1>1, WhatWasRead, Lengths
<1>3. /\ load.lines \in AsRows /\ load.row \in AllRows /\ load.pending \in BOOLEAN
      /\ load.row \in Nat /\ load.row + 1 \in 1 .. Rows /\ (load.row + 1) - 1 = load.row
      /\ b \in Seq(Letters) /\ Len(b) \in Nat
      /\ WellFormed(load.lines, load.row + 1)
  BY <1>2, LoadRows, Lengths
<1>4. Text!LineOf(b, Len(b)) = load.row /\ Text!Column(b, Len(b)) = Len(load.lines[load.row])
  BY <1>3, GridFits
<1>5. load.pending => Text!LineOf(a, Len(a)) = load.row + 1
  <2> SUFFICES ASSUME load.pending PROVE Text!LineOf(a, Len(a)) = load.row + 1
    OBVIOUS
  <2> DEFINE d == <<Newline>>
  <2>1. a = b \o d
    BY DEF LoadText
  <2>2. Len(a) = Len(b) + 1
    <3>1. d \in Seq(Letters) /\ Len(d) = 1
      BY Ends
    <3> HIDE DEF a, b, d
    <3> QED
      BY <1>3, <2>1, <3>1, Glued
  <2>3. Newline \in Letters
    BY DEF Letters
  <2> HIDE DEF a, b
  <2>4. Text!LineOf(b \o d, Len(b) + 1) = Text!LineOf(b, Len(b)) + 1
    BY <1>3, <2>3, LetterMore
  <2> QED
    BY <1>4, <2>1, <2>2, <2>4
<1> HIDE DEF a, b, s
<1>6. ASSUME NEW q \in Seq(Letters), Fitting(a \o q)
      PROVE  Text!LineOf(a, Len(a)) < Rows /\ Text!Column(a, Len(a)) <= Columns
  <2>1. Fitting(a)
    BY <1>2, <1>6, PartFits
  <2> QED
    BY <1>2, <2>1 DEF Fitting
<1>7. CASE LoadOther
  <2>1. load.pos + 1 \in 1 .. Len(s) /\ s[load.pos + 1] = Other
    BY <1>2, <1>7 DEF LoadOther, Reading, NextByte, s
  <2> QED
    BY <2>1 DEF Loadable, s
<1>8. CASE LoadNewline
  <2> SUFFICES ASSUME Loadable(files[filename]) PROVE FALSE
    OBVIOUS
  <2>1. load.pending /\ load.row + 1 >= Rows /\ NextByte = Newline /\ Newline \in Letters
    BY <1>1, <1>8 DEF LoadNewline, LoadStep, Letters
  <2>2. \E q \in Seq(Letters) : Fitting(a \o q)
    BY <1>1, <2>1, GoesOn DEF a
  <2>3. Text!LineOf(a, Len(a)) < Rows
    BY <1>6, <2>2
  <2> QED
    BY <1>3, <1>5, <2>1, <2>3, RowsType
<1>9. CASE LoadChar
  <2> SUFFICES ASSUME Loadable(files[filename]) PROVE FALSE
    OBVIOUS
  <2> DEFINE c == NextByte
             d == <<c>>
  <2>1. ~Fits /\ c \in Letters /\ c # Newline
    BY <1>1, <1>9, EditorAssumption DEF LoadChar, LoadStep, Letters
  <2> HIDE DEF c
  <2>2. (\E q \in Seq(Letters) : Fitting(a \o q)) /\ \E q \in Seq(Letters) : Fitting((a \o d) \o q)
    BY <1>1, <2>1, GoesOn DEF a, c
  <2>3. CASE load.pending
    <3>1. Text!LineOf(a, Len(a)) < Rows
      BY <1>6, <2>2
    <3>2. LoadRow = load.row + 1
      BY <2>3 DEF LoadRow
    <3>3. LoadRow \in AllRows
      BY <1>3, <1>5, <2>3, <3>1, <3>2, RowsType DEF AllRows
    <3>4. load.lines[LoadRow] = <<>>
      BY <1>3, <3>2, <3>3 DEF WellFormed
    <3>5. Len(load.lines[LoadRow]) = 0
      BY <3>4, EmptySeq
    <3>6. LoadRow < Rows
      BY <1>3, <3>2, <3>3, RowsType DEF AllRows
    <3> QED
      BY <2>1, <3>5, <3>6, RowsType DEF Fits
  <2>4. CASE ~load.pending
    <3>1. a = b
      BY <2>4 DEF a, b, LoadText
    <3>2. LoadRow = load.row /\ LoadRow < Rows
      BY <1>3, <2>4, RowsType DEF LoadRow
    <3>3. Text!Column(a, Len(a)) >= Columns /\ Text!Column(a, Len(a)) \in Nat
      <4>1. Len(load.lines[load.row]) \in Nat
        BY <1>3, LenProperties DEF AsRows
      <4> QED
        BY <1>4, <2>1, <3>1, <3>2, <4>1, RowsType DEF Fits
    <3> PICK q \in Seq(Letters) : Fitting((a \o d) \o q)
      BY <2>2
    <3>4. d \in Seq(Letters) /\ Len(d) = 1
      BY <2>1, Lengths
    <3>5. a \o d \in Seq(Letters) /\ Len(a \o d) = Len(a) + 1
      <4> HIDE DEF d
      <4>1. a \o d \in Seq(Letters) /\ Len(a \o d) = Len(a) + Len(d)
        BY <1>2, <3>4, Glued
      <4> QED
        BY <3>4, <4>1
    <3>6. Text!Column(a \o d, Len(a) + 1) = Text!Column(a, Len(a)) + 1
      BY <1>2, <2>1, LetterMore
    <3> DEFINE g == a \o d
    <3> HIDE DEF g
    <3>7. Fitting(g)
      <4>1. g \in Seq(Letters) /\ Fitting(g \o q)
        BY <3>5 DEF g
      <4> QED
        BY <4>1, PartFits
    <3>8. Len(a) + 1 \in 0 .. Len(g)
      BY <1>2, <3>5 DEF g
    <3>9. Text!Column(g, Len(a) + 1) <= Columns
      BY <3>7, <3>8 DEF Fitting
    <3> QED
      BY <3>3, <3>6, <3>9, RowsType DEF g
  <2> QED
    BY <1>3, <2>3, <2>4
<1> QED
  BY <1>7, <1>8, <1>9

\* For every grid, every alphabet and every directory: opening a file installs
\* exactly the text of the file, line for line, or leaves the document, its
\* name, its flag and the cursor as they were (load_document fills load_buffer
\* first), and a file is only refused for its bytes if it does not fit.
THEOREM OpensExactly == Spec => OpenIsExact
<1>1. Init => IInv /\ ReadOK
  <2>1. Init => ReadOK
    BY DEF Init, ReadOK
  <2> QED
    BY <2>1, InitHolds
<1>2. IInv /\ ReadOK /\ [Next]_vars => (IInv /\ ReadOK)'
  BY StepHolds, ReadStep
<1>3. IInv /\ ReadOK /\ [Next]_vars =>
        [/\ pc = "load" /\ pc' = "edit" =>
              \/ /\ Loadable(files[filename])
                 /\ DocumentText' = FileText(files[filename])
                 /\ current_filename' = filename
                 /\ ~has_unsaved_changes'
                 /\ cursor' = <<0, 0>>
              \/ UNCHANGED <<document, cursor, flags>>
         /\ (LoadNewline \/ LoadChar \/ LoadOther) /\ pc' = "edit" =>
              ~Loadable(files[filename])]_vars
  <2> SUFFICES ASSUME IInv, ReadOK, [Next]_vars
               PROVE  /\ pc = "load" /\ pc' = "edit" =>
                            \/ /\ Loadable(files[filename])
                               /\ DocumentText' = FileText(files[filename])
                               /\ current_filename' = filename
                               /\ ~has_unsaved_changes'
                               /\ cursor' = <<0, 0>>
                            \/ UNCHANGED <<document, cursor, flags>>
                      /\ (LoadNewline \/ LoadChar \/ LoadOther) /\ pc' = "edit" =>
                            ~Loadable(files[filename])
    OBVIOUS
  <2>1. ASSUME pc = "load", pc' = "edit", ~LoadEnd
        PROVE  UNCHANGED <<document, cursor, flags>>
    BY <2>1
    DEF Next, vars, Move, Edit, ArrowUp, ArrowDown, ArrowLeft, ArrowRight, MoveTo,
        Type, Backspace, Join, Enter, Edited, Save, SaveKey, SaveName, SaveStat,
        Overwrite, SaveOpen, SaveRow, SaveRowFails, SaveClose, SaveCloseFails, Open, OpenKey,
        Discard, OpenName, LoadOpen, LoadReturn, LoadNewline, LoadChar, LoadOther, LoadFails,
        LoadStep, NameTyped, Confirm, Refused, Cancel, Goto, ExitKey, PowerLoss, Close, Start
  <2> QED
    BY <2>1, LoadedExact, RefusedUnfit
<1> QED
  BY <1>1, <1>2, <1>3, PTL DEF Spec, OpenIsExact
=============================================================================
