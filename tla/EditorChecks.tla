---------------------------- MODULE EditorChecks ----------------------------
(***************************************************************************)
(* What MyEditor is checked against: the abstract editor EditorText, and   *)
(* the text of a file.                                                     *)
(***************************************************************************)
EXTENDS MyEditor, FiniteSets, SequencesExt

(***************************************************************************)
(* The editor edits one text.                                              *)
(***************************************************************************)
Upto[y \in AllRows] ==
    IF y = 0 THEN text[0] ELSE Upto[y - 1] \o <<Newline>> \o text[y]

DocumentText == Upto[line_count - 1]

Text == INSTANCE EditorText
          WITH buffer <- DocumentText,
               point  <- Len(Upto[cursor_y]) - Len(text[cursor_y]) + cursor_x

\* Every key does to the grid what it should do to the text: the shifting of
\* rows and columns never loses, doubles or moves a character.
ImplementsText == Text!Spec

(***************************************************************************)
(* The text of a file: carriage returns do not count, and a newline at the *)
(* end of the file ends its last line and starts no other.                 *)
(***************************************************************************)
WithoutReturns(content) ==
    LET first[i \in 0 .. Len(content)] ==
          IF i = 0 THEN <<>>
          ELSE IF content[i] = Return THEN first[i - 1]
          ELSE first[i - 1] \o <<content[i]>>
    IN  first[Len(content)]

FileText(content) ==
    LET t == WithoutReturns(content)
    IN  IF t # <<>> /\ Last(t) = Newline THEN Front(t) ELSE t

\* A text that fits in the grid.
Fitting(t) ==
    /\ Text!LineOf(t, Len(t)) < Rows
    /\ \A p \in 0 .. Len(t) : Text!Column(t, p) <= Columns

Loadable(content) ==
    /\ \A i \in 1 .. Len(content) : content[i] # Other
    /\ Fitting(FileText(content))

\* Opening a file either installs exactly the text of the file, or changes
\* nothing of the document, its name, its flag and the cursor: load_document
\* fills load_buffer first.  Only files that do not fit are refused.
OpenIsExact ==
    [][/\ pc = "load" /\ pc' = "edit" =>
            \/ /\ Loadable(files[filename])
               /\ DocumentText' = FileText(files[filename])
               /\ current_filename' = filename
               /\ ~has_unsaved_changes'
               /\ cursor' = <<0, 0>>
            \/ UNCHANGED <<document, cursor, flags>>
       /\ (LoadNewline \/ LoadChar \/ LoadOther) /\ pc' = "edit" =>
            ~Loadable(files[filename])]_vars

\* A save that reports success left a file that has exactly the text of the
\* document, and that opens again.
SaveIsExact ==
    [][SaveClose => /\ WithoutReturns(files'[filename]) = DocumentText
                    /\ Loadable(files'[filename])]_vars

(***************************************************************************)
(* What the flags stand for.  The editor keeps no copy of what it loaded   *)
(* or saved, so the history does: the document as it was after the last    *)
(* load or save that succeeded, or after the start, and the file of that   *)
(* load or save.                                                           *)
(***************************************************************************)
VARIABLES kept, home

Settles == SaveClose \/ LoadEnd \/ Start

Remember ==
    /\ kept' = IF Settles THEN document' ELSE kept
    /\ home' = IF ~Settles THEN home ELSE IF Start THEN NoName ELSE filename

HInit == Init /\ kept = document /\ home = NoName
HNext == Next /\ Remember
hvars == <<vars, kept, home>>
HSpec == HInit /\ [][HNext]_hvars

\* When has_unsaved_changes is 0 the document is, letter by letter, what was
\* last loaded or saved, and current_filename names the file of that load or
\* save, whatever operations were cancelled or failed since.
FlagsTell ==
    /\ ~has_unsaved_changes => document = kept
    /\ current_filename = home

\* A save changes only the file it names, and replaces one that exists only
\* if it is the file of the last load or save or the user said yes; an open
\* replaces a document that is not as it was last loaded or saved only after
\* a yes.  F3 leaves without a question, by design; and F2 asks none when the
\* document is as it was loaded, although a failed save may have emptied its
\* file since (save_document, myeditor.c:113).
AskedFirst ==
    [][/\ \A n \in Names : files'[n] # files[n] =>
            n = filename /\ pc \in {"save_open", "save_row"}
       /\ pc = "save_open" /\ Exists(filename) /\ files' # files =>
            filename = home \/ confirmed
       /\ pc = "load" /\ document' # document =>
            document = kept \/ confirmed]_vars
=============================================================================
