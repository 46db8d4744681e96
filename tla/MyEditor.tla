------------------------------ MODULE MyEditor ------------------------------
(***************************************************************************)
(* The full-screen editor, programs/myeditor/myeditor.c.                   *)
(*                                                                         *)
(* The document is a fixed grid of EDITOR_ROWS by EDITOR_COLUMNS with the  *)
(* length of each line.  Reads of a row never go past its length, so a row *)
(* is modelled by the sequence of its characters.  One key is handled at a *)
(* time; F1 and F2 run dialogs and then save or load byte by byte, and     *)
(* every file operation may fail.                                          *)
(***************************************************************************)
EXTENDS Integers, Sequences

CONSTANTS
    Rows,             \* EDITOR_ROWS
    Columns,          \* EDITOR_COLUMNS
    Chars,            \* printable characters (32..126)
    Return, Newline,  \* "\r" and "\n" in a file
    Other,            \* a byte the editor refuses to load
    Names,            \* file names the user may type
    NoName,           \* has_filename = 0
    NoFile,           \* no such file
    Directory,        \* the path names a directory
    Contents          \* what may be in a file before the editor starts

ASSUME EditorAssumption ==
    /\ Rows \in Nat \ {0}
    /\ Columns \in Nat \ {0}
    /\ {Return, Newline, Other} \cap Chars = {}
    /\ Return # Newline /\ Other \notin {Return, Newline}
    /\ NoName \notin Names
    /\ Contents \subseteq Seq(Chars \cup {Return, Newline, Other})
    /\ NoFile \notin Seq(Chars \cup {Return, Newline, Other})
    /\ Directory \notin Seq(Chars \cup {Return, Newline, Other})
    /\ NoFile # Directory

VARIABLES
    pc,                    \* which dialog or loop the editor is in
    text,                  \* document and line_lengths
    line_count,
    cursor_x, cursor_y,
    current_filename,      \* NoName when has_filename is 0
    has_unsaved_changes,
    filename,              \* the local of save_file and open_file
    confirmed,             \* the user answered "y" in this save or open
    row,                   \* save_document: the next row to write
    load,                  \* load_document: load_buffer and its locals
    files                  \* the directory the editor works in

document == <<text, line_count>>
cursor   == <<cursor_x, cursor_y>>
flags    == <<current_filename, has_unsaved_changes>>
vars     == <<pc, document, cursor, flags, filename, confirmed, row, load,
              files>>

AllRows   == 0 .. Rows - 1
Blank     == [y \in AllRows |-> <<>>]
BlankLoad == [lines |-> Blank, row |-> 0, pending |-> FALSE, pos |-> 0]
Exists(n) == files[n] \notin {NoFile, Directory}

Init ==
    /\ pc = "edit"
    /\ text = Blank
    /\ line_count = 1
    /\ cursor_x = 0 /\ cursor_y = 0
    /\ current_filename = NoName
    /\ has_unsaved_changes = FALSE
    /\ filename = NoName
    /\ confirmed = FALSE
    /\ row = 0
    /\ load = BlankLoad
    /\ files \in [Names -> Contents \cup {NoFile, Directory}]

(***************************************************************************)
(* Keys that move the cursor.                                              *)
(***************************************************************************)
Line(y) == text[y]
AtMost(x, y) == IF x > Len(Line(y)) THEN Len(Line(y)) ELSE x

MoveTo(x, y) ==
    /\ cursor_x' = x
    /\ cursor_y' = y
    /\ UNCHANGED <<pc, document, flags, filename, confirmed, row, load, files>>

ArrowUp ==
    /\ pc = "edit"
    /\ cursor_y > 0
    /\ MoveTo(AtMost(cursor_x, cursor_y - 1), cursor_y - 1)

ArrowDown ==
    /\ pc = "edit"
    /\ cursor_y + 1 < line_count
    /\ MoveTo(AtMost(cursor_x, cursor_y + 1), cursor_y + 1)

ArrowLeft ==
    /\ pc = "edit"
    /\ \/ cursor_x > 0 /\ MoveTo(cursor_x - 1, cursor_y)
       \/ /\ cursor_x = 0 /\ cursor_y > 0
          /\ MoveTo(Len(Line(cursor_y - 1)), cursor_y - 1)

ArrowRight ==
    /\ pc = "edit"
    /\ \/ cursor_x < Len(Line(cursor_y)) /\ MoveTo(cursor_x + 1, cursor_y)
       \/ /\ cursor_x >= Len(Line(cursor_y)) /\ cursor_y + 1 < line_count
          /\ MoveTo(0, cursor_y + 1)

(***************************************************************************)
(* Keys that change the document.                                          *)
(***************************************************************************)
Before(s, x) == SubSeq(s, 1, x)
After(s, x)  == SubSeq(s, x + 1, Len(s))

Edited(x, y) ==
    /\ cursor_x' = x
    /\ cursor_y' = y
    /\ has_unsaved_changes' = TRUE
    /\ UNCHANGED <<pc, current_filename, filename, confirmed, row, load, files>>

\* A printable key, with insert_character.
Type(c) ==
    /\ pc = "edit"
    /\ Len(Line(cursor_y)) < Columns
    /\ text' = [text EXCEPT ![cursor_y] =
                  Before(@, cursor_x) \o <<c>> \o After(@, cursor_x)]
    /\ Edited(cursor_x + 1, cursor_y)
    /\ UNCHANGED line_count

\* Backspace inside a line: delete_character.
Backspace ==
    /\ pc = "edit"
    /\ cursor_x > 0
    /\ text' = [text EXCEPT ![cursor_y] =
                  Before(@, cursor_x - 1) \o After(@, cursor_x)]
    /\ Edited(cursor_x - 1, cursor_y)
    /\ UNCHANGED line_count

\* Backspace at the start of a line: join_with_previous_line.  The cursor
\* ends up behind the joined line, not where the lines met.
JoinedText(y) ==
    [i \in AllRows |->
        IF i = y - 1 THEN Line(y - 1) \o Line(y)
        ELSE IF y <= i /\ i < line_count - 1 THEN Line(i + 1)
        ELSE IF i = line_count - 1 THEN <<>>
        ELSE Line(i)]

\* mutant: joining two lines does not set has_unsaved_changes
Join_Unmarked ==
    /\ pc = "edit"
    /\ cursor_x = 0 /\ cursor_y > 0
    /\ Len(Line(cursor_y - 1)) + Len(Line(cursor_y)) <= Columns
    /\ text' = JoinedText(cursor_y)
    /\ line_count' = line_count - 1
    /\ cursor_x' = Len(Line(cursor_y - 1)) + Len(Line(cursor_y))
    /\ cursor_y' = cursor_y - 1
    /\ UNCHANGED <<pc, flags, filename, confirmed, row, load, files>>

Join ==
    /\ pc = "edit"
    /\ cursor_x = 0 /\ cursor_y > 0
    /\ Len(Line(cursor_y - 1)) + Len(Line(cursor_y)) <= Columns
    /\ text' = JoinedText(cursor_y)
    /\ line_count' = line_count - 1
    /\ Edited(Len(Line(cursor_y - 1)) + Len(Line(cursor_y)), cursor_y - 1)

\* Enter: split_line.
\* mutant: the rows below are copied from the top down
SplitText_TopDown(y, x) ==
    [i \in AllRows |->
        IF i = y THEN Before(Line(y), x)
        ELSE IF i = y + 1 THEN After(Line(y), x)
        ELSE IF y + 1 < i /\ i <= line_count THEN Line(y + 1)
        ELSE Line(i)]

SplitText(y, x) ==
    [i \in AllRows |->
        IF i = y THEN Before(Line(y), x)
        ELSE IF i = y + 1 THEN After(Line(y), x)
        ELSE IF y + 1 < i /\ i <= line_count THEN Line(i - 1)
        ELSE Line(i)]

\* mutant: EDITOR_ROWS is not checked
Enter_NoLimit ==
    /\ pc = "edit"
    /\ text' = SplitText(cursor_y, cursor_x)
    /\ line_count' = line_count + 1
    /\ Edited(0, cursor_y + 1)

Enter ==
    /\ pc = "edit"
    /\ line_count < Rows
    /\ text' = SplitText(cursor_y, cursor_x)
    /\ line_count' = line_count + 1
    /\ Edited(0, cursor_y + 1)

(***************************************************************************)
(* F1: save_file.  Leaving a dialog forgets the locals of save_file,       *)
(* open_file, save_document and load_document.                             *)
(***************************************************************************)
Goto(p) == pc' = p /\ UNCHANGED <<document, cursor, flags, row, load>>

Leave ==
    /\ pc' = "edit"
    /\ filename' = NoName
    /\ confirmed' = FALSE
    /\ row' = 0
    /\ load' = BlankLoad

\* The operation ends without having changed the document or its flags.
Cancel == Leave /\ UNCHANGED <<document, cursor, flags>>

SaveKey ==
    /\ pc = "edit"
    /\ \/ current_filename = NoName /\ Goto("save_name") /\ UNCHANGED filename
       \/ /\ current_filename # NoName
          /\ Goto("save_stat")
          /\ filename' = current_filename
    /\ UNCHANGED <<confirmed, files>>

\* read_filename: Escape or an empty name cancels.
NameTyped(next) ==
    /\ \/ Cancel
       \/ Goto(next) /\ filename' \in Names /\ UNCHANGED confirmed
    /\ UNCHANGED files

SaveName == pc = "save_name" /\ NameTyped("save_stat")

\* mutant: an existing file is not asked about
SaveStat_NoQuestion ==
    /\ pc = "save_stat"
    /\ \/ Cancel
       \/ /\ Exists(filename) \/ files[filename] = NoFile
          /\ Goto("save_open")
          /\ UNCHANGED <<filename, confirmed>>
    /\ UNCHANGED files

\* f_stat may also fail with any other error.
SaveStat ==
    /\ pc = "save_stat"
    /\ \/ Cancel
       \/ /\ \/ Exists(filename) /\ current_filename = NoName /\ Goto("overwrite")
             \/ Exists(filename) /\ current_filename # NoName /\ Goto("save_open")
             \/ files[filename] = NoFile /\ Goto("save_open")
          /\ UNCHANGED <<filename, confirmed>>
    /\ UNCHANGED files

Confirm(next) ==
    /\ \/ Cancel
       \/ Goto(next) /\ confirmed' = TRUE /\ UNCHANGED filename
    /\ UNCHANGED files

Overwrite == pc = "overwrite" /\ Confirm("save_open")

\* f_open(FA_CREATE_ALWAYS) empties the file; when it fails it may have got
\* as far as that.
Emptied == [files EXCEPT ![filename] = <<>>]

SaveOpen ==
    /\ pc = "save_open"
    /\ \/ files' = Emptied /\ Goto("save_row") /\ UNCHANGED <<filename, confirmed>>
       \/ files' \in {files, Emptied} /\ Cancel

\* mutant: the last line ends with a line break too
Piece_LastBreak(y) == Line(y) \o <<Return, Newline>>

Piece(y) == Line(y) \o (IF y + 1 < line_count THEN <<Return, Newline>> ELSE <<>>)

\* The two f_write calls of one row.
SaveRow ==
    /\ pc = "save_row"
    /\ row < line_count
    /\ files' = [files EXCEPT ![filename] = @ \o Piece(row)]
    /\ row' = row + 1
    /\ UNCHANGED <<pc, document, cursor, flags, filename, confirmed, load>>

\* An f_write fails or is short: the file is closed with what got there.
SaveRowFails ==
    /\ pc = "save_row"
    /\ row < line_count
    /\ \E n \in 0 .. Len(Piece(row)) :
         files' = [files EXCEPT ![filename] = @ \o Before(Piece(row), n)]
    /\ Cancel

SaveClose ==
    /\ pc = "save_row"
    /\ row = line_count
    /\ Leave
    /\ current_filename' = filename
    /\ has_unsaved_changes' = FALSE
    /\ UNCHANGED <<document, cursor, files>>

\* f_close fails: the directory entry may still say that the file is empty.
SaveCloseFails ==
    /\ pc = "save_row"
    /\ row = line_count
    /\ files' \in {files, Emptied}
    /\ Cancel

(***************************************************************************)
(* F2: open_file and load_document.                                        *)
(***************************************************************************)
OpenKey ==
    /\ pc = "edit"
    /\ Goto(IF has_unsaved_changes THEN "discard" ELSE "open_name")
    /\ UNCHANGED <<filename, confirmed, files>>

Discard  == pc = "discard" /\ Confirm("open_name")
OpenName == pc = "open_name" /\ NameTyped("load_open")
Refused  == Cancel /\ UNCHANGED files

LoadOpen ==
    /\ pc = "load_open"
    /\ \/ Refused
       \/ /\ Exists(filename)
          /\ Goto("load")
          /\ UNCHANGED <<filename, confirmed, files>>

Reading  == pc = "load" /\ load.pos < Len(files[filename])
NextByte == files[filename][load.pos + 1]

LoadStep(l) ==
    /\ load' = [l EXCEPT !.pos = @ + 1]
    /\ UNCHANGED <<pc, document, cursor, flags, filename, confirmed, row, files>>

LoadReturn == Reading /\ NextByte = Return /\ LoadStep(load)

\* mutant: every newline starts a line at once
LoadNewline_Eager ==
    /\ Reading
    /\ NextByte = Newline
    /\ \/ load.row + 1 < Rows /\ LoadStep([load EXCEPT !.row = @ + 1])
       \/ load.row + 1 >= Rows /\ Refused

\* A newline is only remembered; the next one, or a character, starts the
\* line it announced.
LoadNewline ==
    /\ Reading
    /\ NextByte = Newline
    /\ \/ ~load.pending /\ LoadStep([load EXCEPT !.pending = TRUE])
       \/ load.pending /\ load.row + 1 < Rows /\ LoadStep([load EXCEPT !.row = @ + 1])
       \/ load.pending /\ load.row + 1 >= Rows /\ Refused

LoadRow == IF load.pending THEN load.row + 1 ELSE load.row
Fits    == LoadRow < Rows /\ Len(load.lines[LoadRow]) < Columns

LoadChar ==
    /\ Reading
    /\ NextByte \in Chars
    /\ \/ ~Fits /\ Refused
       \/ /\ Fits
          /\ LoadStep([load EXCEPT !.lines[LoadRow] = Append(@, NextByte),
                                   !.row = LoadRow,
                                   !.pending = FALSE])

LoadOther == Reading /\ NextByte = Other /\ Refused

\* f_read or f_close fails.
LoadFails == pc = "load" /\ Refused

LoadEnd ==
    /\ pc = "load"
    /\ ~Reading
    /\ Leave
    /\ text' = load.lines
    /\ line_count' = load.row + 1
    /\ cursor_x' = 0 /\ cursor_y' = 0
    /\ current_filename' = filename
    /\ has_unsaved_changes' = FALSE
    /\ UNCHANGED files

(***************************************************************************)
(* F3 leaves the editor; the shell may start it again.  The power may fail *)
(* at any time.                                                            *)
(***************************************************************************)
Close == Goto("closed") /\ UNCHANGED <<filename, confirmed, files>>

ExitKey   == pc = "edit" /\ Close
PowerLoss == pc # "closed" /\ Close

\* mutant: the lines of the last session are kept
Start_KeepLines ==
    /\ pc = "closed"
    /\ Leave
    /\ line_count' = 1
    /\ cursor_x' = 0 /\ cursor_y' = 0
    /\ current_filename' = NoName
    /\ has_unsaved_changes' = FALSE
    /\ UNCHANGED <<text, files>>

Start ==
    /\ pc = "closed"
    /\ Leave
    /\ text' = Blank
    /\ line_count' = 1
    /\ cursor_x' = 0 /\ cursor_y' = 0
    /\ current_filename' = NoName
    /\ has_unsaved_changes' = FALSE
    /\ UNCHANGED files

Move  == ArrowUp \/ ArrowDown \/ ArrowLeft \/ ArrowRight
Edit  == (\E c \in Chars : Type(c)) \/ Backspace \/ Join \/ Enter
Save  == \/ SaveKey \/ SaveName \/ SaveStat \/ Overwrite \/ SaveOpen
         \/ SaveRow \/ SaveRowFails \/ SaveClose \/ SaveCloseFails
Open  == \/ OpenKey \/ Discard \/ OpenName \/ LoadOpen \/ LoadReturn
         \/ LoadNewline \/ LoadChar \/ LoadOther \/ LoadFails \/ LoadEnd

Next == Move \/ Edit \/ Save \/ Open \/ ExitKey \/ PowerLoss \/ Start
Spec == Init /\ [][Next]_vars

(***************************************************************************)
(* Types, and the shape that every operation relies on.                    *)
(***************************************************************************)
Steps == {"edit", "save_name", "save_stat", "overwrite", "save_open",
          "save_row", "discard", "open_name", "load_open", "load", "closed"}
Bytes == Chars \cup {Return, Newline, Other}

\* The type of every variable of the editor.
TypeOK ==
    /\ pc \in Steps
    /\ text \in [AllRows -> Seq(Chars)]
    /\ line_count \in 1 .. Rows
    /\ cursor_y \in 0 .. Rows - 1
    /\ cursor_x \in 0 .. Columns
    /\ current_filename \in Names \cup {NoName}
    /\ has_unsaved_changes \in BOOLEAN
    /\ filename \in Names \cup {NoName}
    /\ confirmed \in BOOLEAN
    /\ row \in 0 .. Rows
    /\ load \in [lines : [AllRows -> Seq(Chars)], row : AllRows,
                 pending : BOOLEAN, pos : Nat]
    /\ files \in [Names -> Seq(Bytes) \cup {NoFile, Directory}]

\* A grid with n lines in use: no line is wider than the screen, and the rows
\* after the last line, which draw_document draws too, are empty.
WellFormed(t, n) ==
    \A y \in AllRows : /\ Len(t[y]) <= Columns
                       /\ y >= n => t[y] = <<>>

\* After any keys, loads and restarts the document is well formed and the
\* cursor is inside a line of it: insert_character, delete_character,
\* split_line and join_with_previous_line index the grid without checks.
Shape ==
    /\ WellFormed(text, line_count)
    /\ cursor_y < line_count
    /\ cursor_x <= Len(text[cursor_y])

(***************************************************************************)
(* The inductive invariant: the document, the buffer being loaded, the     *)
(* dialog and the files.                                                   *)
(***************************************************************************)
DocOK ==
    /\ text \in [AllRows -> Seq(Chars)]
    /\ line_count \in 1 .. Rows
    /\ cursor_y \in 0 .. line_count - 1
    /\ cursor_x \in 0 .. Len(text[cursor_y])
    /\ WellFormed(text, line_count)

LoadOK ==
    /\ load \in [lines : [AllRows -> Seq(Chars)], row : AllRows,
                pending : BOOLEAN, pos : Nat]
    /\ WellFormed(load.lines, load.row + 1)

DialogOK ==
    /\ pc \in Steps
    /\ current_filename \in Names \cup {NoName}
    /\ has_unsaved_changes \in BOOLEAN
    /\ confirmed \in BOOLEAN
    /\ filename \in Names \cup {NoName}
    /\ pc \in {"save_stat", "overwrite", "save_open", "save_row", "load_open",
              "load"} => filename \in Names
    /\ row \in 0 .. Rows

FilesOK ==
    /\ files \in [Names -> Seq(Bytes) \cup {NoFile, Directory}]
    /\ pc \in {"save_row", "load"} => files[filename] \in Seq(Bytes)

IInv == DocOK /\ LoadOK /\ DialogOK /\ FilesOK
=============================================================================
