------------------------------ MODULE MCUptime ------------------------------
(***************************************************************************)
(* The clock of Uptime, with short minutes, hours and days.                *)
(***************************************************************************)
EXTENDS Integers

CONSTANTS Minute, Minutes, Hours, Unsigned, Undefined, MaxTime
ASSUME ClockAssumption ==
    /\ Minute \in Nat \ {0} /\ Minutes \in Nat \ {0} /\ Hours \in Nat \ {0}
    /\ Unsigned \in Nat /\ Unsigned > Minute * Minutes * Hours
    /\ Undefined \subseteq 0 .. 255

VARIABLES time, updating, pc, asked, ticked, blurred, sec, min,
          booted, bootTicked, bootBlurred, uptime, answer

Clock == INSTANCE Uptime
clock == <<time, updating, pc, asked, ticked, blurred, sec, min,
           booted, bootTicked, bootBlurred, uptime, answer>>
ClockSpec == Clock!Spec

\* See Uptime: within a day of boot an answer is exact when no reading met an
\* update of the clock chip (elapsed_uptime_seconds, kernel.c:26).
UntornIsExact == Clock!UntornIsExact

\* See Uptime: a tick between the reads makes an answer at most an hour wrong,
\* when the reading at boot was whole or is an hour ago
\* (elapsed_uptime_seconds, kernel.c:26).
TornWithinHour == Clock!TornWithinHour

\* See Uptime: "Shows elapsed time since boot." (kernel.c:243), give or take
\* an hour.
ElapsedSinceBoot == Clock!ElapsedSinceBoot
=============================================================================
