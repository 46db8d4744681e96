------------------------------ MODULE Console ------------------------------
(***************************************************************************)
(* The user, the keyboard, its driver and the command line together: the   *)
(* loop of KernelEntryPoint.  What the user means is written down beside   *)
(* it, from the keys that are really held, to compare with what arrives.   *)
(***************************************************************************)
EXTENDS Keyboard, Shell

CONSTANT MaxLost   \* bound: keys that lose a byte

VARIABLES
    shifting,   \* the last Shift key that was touched was pressed
    meant,      \* the command line as the user means it
    sure,       \* no key of it was lost or touched by a doubt
    doubt,      \* flags of the driver that a lost byte may have left wrong
    lost        \* keys that lost a byte

vars == <<keyboard, shell, shifting, meant, sure, doubt, lost>>

Init ==
    /\ KeyboardInit /\ ShellInit
    /\ shifting = FALSE /\ meant = <<>> /\ sure = TRUE /\ doubt = {} /\ lost = 0

\* The character of a key.  Shift counts from the press of either Shift key to
\* the release of either, also when the other one is still held down.
Means(k) ==
    LET alt == "altgr" \in held /\ AltGr[layout][k] # NoChar IN
    CASE k = "arrow" -> "arrow"
      [] k # "arrow" /\ alt -> AltGr[layout][k]
      [] k # "arrow" /\ ~alt /\ shifting -> Shifted[layout][k]
      [] OTHER -> Plain[layout][k]

Edited(c) ==
    CASE c = "backspace" -> SubSeq(meant, 1, Len(meant) - 1)
      [] c = "enter" -> <<>>
      [] c = NoChar -> meant
      [] OTHER -> IF Len(meant) < CmdMax THEN Append(meant, c) ELSE meant

(***************************************************************************)
(* A key is pressed or let go.  whole: the driver gets to see all of it.   *)
(* A lost byte leaves wrong what it would have changed, until the key is   *)
(* used again.                                                             *)
(***************************************************************************)
DoubtAfter(k, whole, bytes) ==
    {d \in {"shift", "altgr", "prefix"} :
        CASE d = "shift" ->
                (k \in Shifts \cup {"arrow"} /\ ~whole) \/ (k \notin Shifts /\ d \in doubt)
          [] d = "altgr" ->
                (k \in {"altgr", "alt"} /\ ~whole) \/ (k # "altgr" /\ d \in doubt)
          [] OTHER -> IF bytes = <<>> THEN d \in doubt ELSE bytes[Len(bytes)] = E0}

\* k adds c to the line; a doubtful flag may have changed which character came.
Aims(k, c, whole) ==
    /\ sure' = CASE c = "enter" -> whole
                 [] c # "enter" /\ k = "arrow" -> sure /\ whole
                 [] OTHER -> sure /\ whole /\ doubt = {}
    /\ meant' = IF sure' THEN Edited(c) ELSE <<>>

Touch(k, up) ==
    /\ port = <<>>
    /\ up /\ k \in Modifiers => k \in held
    /\ \E bytes \in Sent(k, up), kept \in SUBSET (1 .. 4) :
          LET all   == kept = 1 .. Len(bytes)
              whole == all /\ "prefix" \notin doubt
          IN  /\ kept \subseteq 1 .. Len(bytes)
              /\ lost' = IF all THEN lost ELSE lost + 1
              /\ port' = Rest(bytes, kept)
              /\ doubt' = DoubtAfter(k, whole, port')
              /\ CASE k \in Letters \cup {"arrow"} /\ ~up -> Aims(k, Means(k), whole)
                   [] k = "arrow" /\ up /\ ~whole -> sure' = FALSE /\ meant' = <<>>
                   [] OTHER -> UNCHANGED <<meant, sure>>
    /\ lost' <= MaxLost
    /\ shifting' = IF k \in Shifts THEN ~up ELSE shifting
    /\ held' = IF k \notin Modifiers THEN held ELSE IF up THEN held \ {k} ELSE held \cup {k}
    /\ UNCHANGED <<layout, flags, shell>>

(***************************************************************************)
(* One turn of the loop.  Running loadkeys also changes the layout.        *)
(***************************************************************************)
Turn ==
    /\ keyboard_getchar
    /\ LET c == Returned(Head(port)) IN
       /\ IF c = NoChar THEN UNCHANGED shell ELSE HandleKey(c)
       /\ IF c = "enter" THEN layout' \in Layouts ELSE UNCHANGED layout
    /\ UNCHANGED <<shifting, meant, sure, doubt, lost>>

Next == Turn \/ \E k \in Keys, up \in BOOLEAN : Touch(k, up)
Spec == Init /\ [][Next]_vars

----------------------------------------------------------------------------
(* Whatever was typed and whatever the commands before did to the screen,  *)
(* the row of the cursor shows the prompt and then the command as it will  *)
(* be run, the cursor is behind its last character, and all of it fits.    *)
LineIsShown ==
    /\ at.y \in Rows
    /\ Len(cmd) <= CmdMax /\ cursor_x = PROMPT_LENGTH + Len(cmd) /\ cursor_x \in Cols
    /\ \A i \in 0 .. PROMPT_LENGTH - 2 : at.screen[at.y][i] = Mark
    /\ \A i \in 1 .. Len(cmd) : at.screen[at.y][PROMPT_LENGTH + i - 1] = cmd[i]

(* The command is what the user meant by the keys, with Shift and AltGr    *)
(* pressed and let go in any order, also after bytes were lost: a flag     *)
(* that a lost byte left wrong is right again once its key has been used.  *)
(* Shift means the last touch of either Shift key: when one of two is let  *)
(* go, what follows is typed without (keyboard.c:280).                     *)
LineIsMeant == port = <<>> /\ sure => cmd = meant
=============================================================================
