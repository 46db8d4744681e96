------------------------------- MODULE Shell -------------------------------
(***************************************************************************)
(* The command line of KernelEntryPoint, kernel/kernel.c, on the text      *)
(* screen of kernel/drivers/vga.c.  A command is what it does to the       *)
(* screen and the row of the cursor.  Rows above the prompt are not kept:  *)
(* nothing reads them again.  Colours are left out, and so are shtdwn, rbt *)
(* and fault, which end the session.                                       *)
(***************************************************************************)
EXTENDS Integers, Sequences

CONSTANTS
    VGA_WIDTH, VGA_HEIGHT,
    PROMPT_LENGTH,   \* column of the first character of a command
    CmdMax,          \* 63: cmd is one longer
    LogoRows,        \* 6: rows of the logo
    FetchRows,       \* 13: rows fetch draws
    FirstRow,        \* 13: row of the cursor when the kernel has started
    LongName,        \* bound: characters of the longest name ls prints
    MostRows         \* bound: rows a command prints

ASSUME ShellAssumption ==
    /\ {VGA_WIDTH, VGA_HEIGHT, PROMPT_LENGTH, CmdMax} \subseteq Nat
    /\ {LogoRows, FetchRows, FirstRow, LongName, MostRows} \subseteq Nat
    /\ PROMPT_LENGTH + CmdMax < VGA_WIDTH /\ PROMPT_LENGTH > 1
    /\ FetchRows <= VGA_HEIGHT /\ LogoRows < FetchRows /\ LogoRows + 1 < VGA_HEIGHT
    /\ FirstRow + 2 < VGA_HEIGHT

Rows  == 0 .. VGA_HEIGHT - 1
Cols  == 0 .. VGA_WIDTH - 1
Space == " "
Ink   == "#"        \* a character of the output of a command
Mark  == "$"        \* a character of the prompt

VARIABLES
    cmd,            \* cmd up to cmd_len
    cursor_x, at    \* at: the screen, and cursor_y

shell == <<cmd, cursor_x, at>>

BlankRow    == [x \in Cols |-> Space]
BlankScreen == [y \in Rows |-> BlankRow]
Text(n, c)  == [i \in 1 .. n |-> c]

(***************************************************************************)
(* vga.c.  print runs on into the next rows and stops at the end of the    *)
(* screen; the logo knows no end, and what it writes below is not shown.   *)
(***************************************************************************)
print(t, msg, x, y) ==
    [t EXCEPT !.screen = [r \in Rows |-> [c \in Cols |->
        LET i == (r * VGA_WIDTH + c) - (y * VGA_WIDTH + x) + 1
        IN  IF i \in 1 .. Len(msg) THEN msg[i] ELSE t.screen[r][c]]]]

Drawn(t, y) ==
    [t EXCEPT !.screen = [r \in Rows |-> IF r \in y .. y + LogoRows - 1
                                         THEN [c \in Cols |-> Ink] ELSE t.screen[r]]]

scroll_screen(t) ==
    IF t.y < VGA_HEIGHT THEN t
    ELSE [y |-> VGA_HEIGHT - 1,
          screen |-> [r \in Rows |-> IF r = VGA_HEIGHT - 1 THEN BlankRow ELSE t.screen[r + 1]]]

scrl(t) == scroll_screen([t EXCEPT !.y = @ + 1])

(***************************************************************************)
(* What commands leave: most print rows, each followed by scrl; ls prints  *)
(* names that may be longer than a row; beep ends without scrl.            *)
(***************************************************************************)
Printed(t, n, len) ==
    LET upto[i \in 0 .. n] ==
            IF i = 0 THEN t ELSE scrl(print(upto[i - 1], Text(len, Ink), 0, upto[i - 1].y))
    IN  upto[n]

ShowLogo(t) == LET drawn == Drawn(t, t.y) IN scrl([drawn EXCEPT !.y = @ + LogoRows])
Fetch(t) ==
    LET up[i \in 0 .. VGA_HEIGHT] ==
            IF i = 0 THEN t
            ELSE IF up[i - 1].y + FetchRows > VGA_HEIGHT
                 THEN [scroll_screen([up[i - 1] EXCEPT !.y = VGA_HEIGHT]) EXCEPT !.y = up[i - 1].y - 1]
                 ELSE up[i - 1]
        top == up[VGA_HEIGHT]
    IN  scrl([Printed(top, FetchRows - 1, VGA_WIDTH) EXCEPT !.y = top.y + FetchRows - 1])

Cleared == [screen |-> BlankScreen, y |-> 0]
WithLogo == [Drawn(Cleared, 0) EXCEPT !.y = LogoRows + 1]

Effects(t) ==
    {Printed(t, n, VGA_WIDTH \div 2) : n \in 0 .. MostRows}
        \cup {Printed(t, 1, LongName)}                              \* ls
        \cup {print(t, Text(2, Ink), 0, t.y)}                       \* beep
        \cup {Cleared, WithLogo, ShowLogo(t), Fetch(t)}             \* clear, change-theme, myeditor

Prompted(t) == print(t, Text(PROMPT_LENGTH - 1, Mark), 0, t.y)
Kept(t)     == [t EXCEPT !.screen = [r \in Rows |-> IF r < t.y THEN BlankRow ELSE t.screen[r]]]

(***************************************************************************)
(* The keys: Backspace, Enter, any other character.                        *)
(***************************************************************************)
ShellInit ==
    /\ cmd = <<>> /\ cursor_x = PROMPT_LENGTH
    /\ \E n \in 0 .. 2 : at = Kept(Prompted(Printed([screen |-> BlankScreen, y |-> FirstRow], n, VGA_WIDTH)))

Backspace ==
    IF cursor_x > PROMPT_LENGTH /\ cmd # <<>>
    THEN /\ cmd' = SubSeq(cmd, 1, Len(cmd) - 1)
         /\ cursor_x' = cursor_x - 1
         /\ at' = print(at, <<Space>>, cursor_x - 1, at.y)
    ELSE UNCHANGED shell

Enter ==
    /\ \E t \in Effects(scrl(at)) : at' = Kept(Prompted(t))
    /\ cmd' = <<>> /\ cursor_x' = PROMPT_LENGTH

\* mutant: the last character of cmd is used too
Fits_OneMore == Len(cmd) < CmdMax + 1

Fits == Len(cmd) < CmdMax
Type(c) ==
    IF Fits
    THEN /\ cmd' = Append(cmd, c)
         /\ at' = print(at, <<c>>, cursor_x, at.y)
         /\ cursor_x' = cursor_x + 1
    ELSE UNCHANGED shell

HandleKey(c) ==
    CASE c = "backspace" -> Backspace
      [] c = "enter" -> Enter
      [] OTHER -> Type(c)
=============================================================================
