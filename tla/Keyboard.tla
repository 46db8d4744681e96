----------------------------- MODULE Keyboard ------------------------------
(***************************************************************************)
(* kernel/drivers/keyboard.c, and the keyboard it reads, scan code set 1.  *)
(* A key sends one byte or, after an E0, a second meaning of it; the       *)
(* driver keeps three flags from one byte to the next.  Codes are named by *)
(* the key they belong to, and a release is the code with bit 7 set.       *)
(*                                                                         *)
(* The bytes of a key are read before the next key is touched: they are    *)
(* read in the order they come in, so waiting changes nothing - except     *)
(* that the controller has room for few, and any byte may be lost.         *)
(***************************************************************************)
EXTENDS Integers, Sequences

CONSTANTS
    Letters,        \* keys that send one code and stand for characters
    Layouts,        \* layouts keyboard_load_layout knows
    Plain, Shifted, \* scancode_ascii, scancode_ascii_shift: by layout and key
    AltGr,          \* scancode_ascii_altgr
    NoChar          \* 0: the key has no character there

E0    == [key |-> "E0", up |-> FALSE]
Code(k, up) == [key |-> k, up |-> up]
Shifts == {"LEFT_SHIFT", "RIGHT_SHIFT"}
Modifiers == Shifts \cup {"altgr"}
Keys   == Letters \cup Modifiers \cup {"alt", "arrow"}

\* Enter is Enter with Shift and AltGr too: scan code 1C, in every table.
ASSUME KeyboardAssumption ==
    /\ "de" \in Layouts
    /\ Letters \cap ({"E0", "alt", "arrow"} \cup Modifiers) = {}
    /\ NoChar \notin {"enter", "backspace", "arrow"}
    /\ \A l \in Layouts, k \in Letters :
          /\ Plain[l][k] = "enter" <=> Shifted[l][k] = "enter"
          /\ AltGr[l][k] # "enter" /\ (Plain[l][k] = "enter" => AltGr[l][k] = NoChar)

VARIABLES
    held,               \* modifier keys that are down
    port,               \* bytes the controller still has
    layout,             \* active_layout, and with it the three tables
    shift_pressed, altgr_pressed, extended_scancode

flags == <<shift_pressed, altgr_pressed, extended_scancode>>
keyboard == <<held, port, layout, flags>>

KeyboardInit ==
    /\ held = {} /\ port = <<>>
    /\ layout = "de"
    /\ shift_pressed = FALSE /\ altgr_pressed = FALSE /\ extended_scancode = FALSE

(***************************************************************************)
(* What the keyboard sends.  Right Alt is the code of Alt after an E0; the *)
(* arrow keys come with shifts of their own, each after an E0, when Num    *)
(* Lock is on or a shift key is down.                                      *)
(***************************************************************************)
Sent(k, up) ==
    CASE k = "altgr" -> {<<E0, Code("alt", up)>>}
      [] k = "arrow" ->
            LET plain == <<E0, Code(k, up)>>
                fake  == <<E0, Code("LEFT_SHIFT", up # (held \cap Shifts # {}))>>
            IN  {plain, IF up THEN plain \o fake ELSE fake \o plain}
      [] OTHER -> {<<Code(k, up)>>}

\* The bytes at the places of kept, in their order: the others are lost.
Rest(bytes, kept) ==
    LET upto[i \in 0 .. Len(bytes)] ==
            IF i = 0 THEN <<>>
            ELSE IF i \in kept THEN Append(upto[i - 1], bytes[i]) ELSE upto[i - 1]
    IN  upto[Len(bytes)]

(***************************************************************************)
(* keyboard_getchar on one byte: what it returns, and the flags.           *)
(***************************************************************************)
Character(k) ==
    CASE altgr_pressed /\ AltGr[layout][k] # NoChar -> AltGr[layout][k]
      [] shift_pressed /\ ~(altgr_pressed /\ AltGr[layout][k] # NoChar) -> Shifted[layout][k]
      [] OTHER -> Plain[layout][k]

Returned(byte) ==
    CASE extended_scancode /\ byte = Code("arrow", FALSE) -> "arrow"
      [] ~extended_scancode /\ byte.key \in Letters /\ ~byte.up -> Character(byte.key)
      [] OTHER -> NoChar

\* mutant: the shifts that come with an arrow key count as shift keys
ShiftAfter_Fake(byte) ==
    IF byte.key \in Shifts THEN ~byte.up ELSE shift_pressed

ShiftAfter(byte) ==
    IF ~extended_scancode /\ byte.key \in Shifts THEN ~byte.up ELSE shift_pressed

keyboard_getchar ==
    LET byte == Head(port) IN
    /\ port # <<>> /\ port' = Tail(port)
    /\ extended_scancode' = (byte = E0)
    /\ shift_pressed' = ShiftAfter(byte)
    /\ altgr_pressed' = IF extended_scancode /\ byte.key = "alt" THEN ~byte.up ELSE altgr_pressed
    /\ UNCHANGED held
=============================================================================
