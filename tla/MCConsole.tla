----------------------------- MODULE MCConsole -----------------------------
(***************************************************************************)
(* Two instances in one run: the command line (Console), with three keys   *)
(* on two keyboard layouts, and the clock behind the uptime (Uptime).      *)
(* They share nothing, so their states need not be multiplied: part says   *)
(* which of them runs while the other stands still.                        *)
(***************************************************************************)
EXTENDS Console, MCUptime

\* q is @ with AltGr where the layout has it.
MCPlain   == [l \in Layouts |-> [k \in Letters |-> IF k = "q" THEN "q" ELSE k]]
MCShifted == [l \in Layouts |-> [k \in Letters |-> IF k = "q" THEN "Q" ELSE k]]
MCAltGr   == [l \in Layouts |-> [k \in Letters |-> IF k = "q" /\ l = "de" THEN "@" ELSE NoChar]]

VARIABLE part

MCInit ==
    /\ part \in {"console", "clock"}
    /\ Init /\ Clock!Init
    /\ part = "console" => time = 0
    /\ part = "clock" => cmd = <<>> /\ at.y = FirstRow

MCNext ==
    \/ part = "console" /\ Next /\ UNCHANGED <<part, clock>>
    \/ part = "clock" /\ Clock!Next /\ UNCHANGED <<part, vars>>

MCSpec == MCInit /\ [][MCNext]_<<part, vars, clock>>
=============================================================================
