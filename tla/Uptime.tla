------------------------------- MODULE Uptime -------------------------------
(***************************************************************************)
(* The uptime of the shell (kernel.c): seconds, minutes and hours are read *)
(* from the clock chip, at boot into uptime and again for every answer,    *)
(* one register after the other while the clock runs.                      *)
(***************************************************************************)
EXTENDS Integers

CONSTANTS
    Minute,    \* seconds of a minute: 60
    Minutes,   \* minutes of an hour: 60
    Hours,     \* hours of a day: 24
    Unsigned,  \* 2^32: numbers of an unsigned int
    Undefined, \* bytes a register may show while the chip brings it up to date
    MaxTime    \* bound: seconds the clock runs

Hour == Minute * Minutes
Day  == Hour * Hours

VARIABLES
    time,         \* seconds since some midnight
    updating,     \* the chip is at work on the next second
    pc,           \* the next register to read: see Steps
    asked,        \* when the reading began
    ticked,       \* the clock went on while it was read
    blurred,      \* a register was read during an update
    sec, min,     \* what was read so far
    booted,       \* when the reading at boot began
    bootTicked, bootBlurred,  \* ticked and blurred, for the reading at boot
    uptime,       \* the static variable: time of day at boot
    answer        \* what elapsed_uptime_seconds last returned

chip    == <<time, updating>>
reading == <<asked, ticked, blurred>>
boot    == <<booted, bootTicked, bootBlurred, uptime>>
vars == <<chip, pc, reading, sec, min, boot, answer>>

Steps  == {"idle", "sec", "min", "hour"}
NotYet == -1

(***************************************************************************)
(* The clock chip (external): two decimal digits in each register, and     *)
(* nothing to rely on in any of them during an update.  The code never     *)
(* asks for the update-in-progress bit.                                    *)
(***************************************************************************)
Bcd(n)    == ((n \div 10) * 16) + (n % 10)
Seconds   == Bcd(time % Minute)
MinuteReg == Bcd((time % Hour) \div Minute)
HourReg   == Bcd((time % Day) \div Hour)

rtc_read(register) == {register} \cup (IF updating THEN Undefined ELSE {})

Update ==
    /\ time < MaxTime /\ ~updating
    /\ updating' = TRUE
    /\ UNCHANGED <<time, pc, reading, sec, min, boot, answer>>

\* The reads take microseconds: at most one tick falls between them.  An answer
\* is on the screen by the next second, and nothing of its reading is needed.
Tick ==
    /\ updating
    /\ pc \in {"min", "hour"} => ~ticked
    /\ time' = time + 1 /\ updating' = FALSE
    /\ IF pc \in {"min", "hour"} THEN ticked' = TRUE /\ UNCHANGED <<asked, blurred, answer>>
       ELSE asked' = NotYet /\ ticked' = FALSE /\ blurred' = FALSE /\ answer' = NotYet
    /\ UNCHANGED <<pc, sec, min, boot>>

(***************************************************************************)
(* The kernel.                                                             *)
(***************************************************************************)
\* mutant: the tens of the register are dropped
bcdtb_Units(value) == value % 16

bcdtb(value) == (value % 16) + ((value \div 16) * 10)

rtcts(hour, minute, second) == (hour * Hour) + (minute * Minute) + second

Init ==
    /\ time \in 0 .. Day - 1 /\ updating = FALSE
    /\ pc = "sec"
    /\ asked = NotYet /\ booted = NotYet
    /\ ticked = FALSE /\ blurred = FALSE /\ bootTicked = FALSE /\ bootBlurred = FALSE
    /\ sec = 0 /\ min = 0
    /\ uptime = 0
    /\ answer = NotYet

\* uptime or fetch is typed.
Ask ==
    /\ pc = "idle"
    /\ pc' = "sec"
    /\ answer' = NotYet
    /\ UNCHANGED <<chip, reading, sec, min, boot>>

ReadSecond ==
    /\ pc = "sec"
    /\ \E byte \in rtc_read(Seconds) : sec' = bcdtb(byte)
    /\ asked' = time /\ ticked' = FALSE /\ blurred' = updating
    /\ pc' = "min"
    /\ UNCHANGED <<chip, min, boot, answer>>

ReadMinute ==
    /\ pc = "min"
    /\ \E byte \in rtc_read(MinuteReg) : min' = bcdtb(byte)
    /\ blurred' = (blurred \/ updating)
    /\ pc' = "hour"
    /\ UNCHANGED <<chip, asked, ticked, sec, boot, answer>>

\* mutant: midnight is forgotten
Elapsed_NoMidnight(now) == (now - uptime) % Unsigned

Elapsed(now) == ((IF now < uptime THEN now + Day ELSE now) - uptime) % Unsigned

\* The third read, at boot or for an answer.
ReadHour ==
    /\ pc = "hour"
    /\ blurred' = (blurred \/ updating)
    /\ \E byte \in rtc_read(HourReg) :
          LET now == rtcts(bcdtb(byte), min, sec)
          IN  IF booted = NotYet
              THEN /\ uptime' = now
                   /\ booted' = asked /\ bootTicked' = ticked /\ bootBlurred' = blurred'
                   /\ UNCHANGED answer
              ELSE answer' = Elapsed(now) /\ UNCHANGED boot
    /\ pc' = "idle" /\ sec' = 0 /\ min' = 0
    /\ UNCHANGED <<chip, asked, ticked>>

Next == Update \/ Tick \/ Ask \/ ReadSecond \/ ReadMinute \/ ReadHour

Spec == Init /\ [][Next]_vars

(***************************************************************************)
(* Properties.  Truth is the time since boot, whole days included.         *)
(***************************************************************************)
Answered == pc = "idle" /\ answer # NotYet
Truth    == asked - booted
Legible  == ~blurred /\ ~bootBlurred
Untorn   == ~ticked /\ ~bootTicked

\* Within a day of boot, the answer is the time since boot when neither its
\* reading nor that at boot met an update of the chip
\* (elapsed_uptime_seconds, kernel.c:26).
UntornIsExact ==
    Answered /\ Legible /\ Untorn /\ Truth < Day => answer = Truth

\* A tick between the reads makes an answer at most an hour wrong, up to an
\* hour before the first day is over - but when it fell between the reads at
\* boot, only from the first hour on: see ElapsedSinceBoot
\* (elapsed_uptime_seconds, kernel.c:26).
TornWithinHour ==
    Answered /\ Legible /\ Truth + Hour < Day /\ (bootTicked => Truth >= Hour)
        => answer \in Truth - Hour .. Truth + Hour

\* "Shows elapsed time since boot." (kernel.c:243), with an hour's grace for a
\* tick between the reads.  Not so when that tick fell between the reads at
\* boot, which made the boot seem to come after the question (kernel.c:141-145),
\* and not so a day after boot: one day at most is added (kernel.c:32).
ElapsedSinceBoot ==
    Answered /\ Legible => answer \in Truth - Hour .. Truth + Hour
=============================================================================
