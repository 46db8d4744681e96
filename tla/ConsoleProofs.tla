---------------------------- MODULE ConsoleProofs ----------------------------
(***************************************************************************)
(* The clock behind the uptime (Uptime) and the command line with its      *)
(* keyboard (Console), for every value of their constants.                 *)
(***************************************************************************)
EXTENDS MCConsole, WellFoundedInduction, SequenceTheorems, TLAPS

(***************************************************************************)
(* Arithmetic.                                                             *)
(***************************************************************************)
LEMMA Division ==
    ASSUME NEW a \in Int, NEW u \in Nat \ {0}
    PROVE  /\ a \div u \in Int /\ a % u \in 0 .. u - 1
           /\ a = u * (a \div u) + (a % u)
  BY SMTT(30)
LEMMA Quotient ==
    ASSUME NEW a \in Int, NEW q \in Int, NEW r \in Int, NEW u \in Nat \ {0},
           a = u * q + r, 0 <= r, r < u
    PROVE  q = a \div u /\ r = a % u
  BY SMTT(30)

\* bcdtb takes apart what the clock chip puts together.
LEMMA Decimal == ASSUME NEW n \in Nat PROVE Clock!bcdtb(Clock!Bcd(n)) = n
<1> DEFINE q == n \div 10
           r == n % 10
<1>1. q \in Int /\ r \in 0 .. 9 /\ n = 10 * q + r
  BY Division
<1> HIDE DEF q, r
<1>2. (q * 16) + r \in Int
  BY <1>1
<1>3. q = ((q * 16) + r) \div 16 /\ r = ((q * 16) + r) % 16
  BY <1>1, <1>2, Quotient
<1>4. Clock!Bcd(n) = (q * 16) + r
  BY DEF Clock!Bcd, q, r
<1>5. Clock!Bcd(n) % 16 = r /\ Clock!Bcd(n) \div 16 = q
  BY <1>3, <1>4, Zenon
<1>6. Clock!bcdtb(Clock!Bcd(n)) = r + (q * 10)
  BY <1>5, Zenon DEF Clock!bcdtb
<1> QED
  BY <1>1, <1>6

LEMMA Below ==
    ASSUME NEW n \in Nat \ {0}, NEW u \in Nat \ {0}, NEW m \in 0 .. n - 1, NEW s \in 0 .. u - 1
    PROVE  (m * u) + s \in 0 .. (n * u) - 1
<1>1. m * u <= (n - 1) * u /\ 0 <= m * u /\ (n - 1) * u = (n * u) - u
      /\ m * u \in Int /\ n * u \in Int
  BY SMTT(30)
<1> DEFINE x == m * u
           y == n * u
<1> HIDE DEF x, y
<1>2. 0 <= x /\ x <= y - u /\ x \in Int /\ y \in Int
  BY <1>1 DEF x, y
<1>3. x + s \in 0 .. y - 1
  BY <1>2
<1> QED
  BY <1>3 DEF x, y

(***************************************************************************)
(* A time is its second, its minute, its hour and its day.                 *)
(***************************************************************************)
IsTime(a, s, m, h, z) ==
    /\ s \in 0 .. Minute - 1 /\ m \in 0 .. Minutes - 1 /\ h \in 0 .. Hours - 1 /\ z \in Int
    /\ a = (z * Clock!Day) + (h * Clock!Hour) + (m * Minute) + s

LEMMA Spans ==
    /\ Clock!Hour \in Nat \ {0} /\ Clock!Day \in Nat \ {0}
    /\ Clock!Hour = Minute * Minutes /\ Clock!Day = Clock!Hour * Hours
    /\ Minute <= Clock!Hour
<1>1. Clock!Hour \in Nat \ {0} /\ Clock!Hour = Minute * Minutes
  BY ClockAssumption, SMTT(30) DEF Clock!Hour
<1>2. Clock!Day \in Nat \ {0} /\ Clock!Day = Clock!Hour * Hours
  BY <1>1, ClockAssumption, SMTT(30) DEF Clock!Day
<1>3. Minute <= Clock!Hour
  BY <1>1, ClockAssumption, SMTT(30)
<1> QED
  BY <1>1, <1>2, <1>3

LEMMA TimeOf ==
    ASSUME NEW a \in Nat
    PROVE  \E s, m, h, z : IsTime(a, s, m, h, z)
<1> DEFINE x == a \div Minute
           y == x \div Minutes
           s == a % Minute
           m == x % Minutes
           z == y \div Hours
           h == y % Hours
<1>1. x \in Int /\ s \in 0 .. Minute - 1 /\ a = (Minute * x) + s
  BY Division, ClockAssumption
<1>2. y \in Int /\ m \in 0 .. Minutes - 1 /\ x = (Minutes * y) + m
  BY <1>1, Division, ClockAssumption
<1>3. z \in Int /\ h \in 0 .. Hours - 1 /\ y = (Hours * z) + h
  BY <1>2, Division, ClockAssumption
<1> HIDE DEF x, y, s, m, z, h
<1>4. Minute * x = (Clock!Hour * y) + (m * Minute)
  BY <1>1, <1>2, Spans, ClockAssumption, SMTT(30)
<1>5. Clock!Hour * y = (z * Clock!Day) + (h * Clock!Hour)
  BY <1>2, <1>3, Spans, ClockAssumption, SMTT(30)
<1>6. a = (z * Clock!Day) + (h * Clock!Hour) + (m * Minute) + s
  BY <1>1, <1>4, <1>5, Spans, ClockAssumption
<1>7. IsTime(a, s, m, h, z)
  BY <1>1, <1>2, <1>3, <1>6 DEF IsTime
<1> QED
  BY <1>7, Zenon

\* The registers show it.
LEMMA Registers ==
    ASSUME NEW a \in Nat, NEW s, NEW m, NEW h, NEW z, IsTime(a, s, m, h, z)
    PROVE  /\ a % Minute = s /\ (a % Clock!Hour) \div Minute = m
           /\ (a % Clock!Day) \div Clock!Hour = h
           /\ a % Clock!Hour = (m * Minute) + s
<1> DEFINE p == (h * Clock!Hour) + (m * Minute) + s
           q == (m * Minute) + s
           y == (z * Hours) + h
           x == (y * Minutes) + m
<1>1. s \in 0 .. Minute - 1 /\ m \in 0 .. Minutes - 1 /\ h \in 0 .. Hours - 1 /\ z \in Int
  BY DEF IsTime
<1>2. y \in Int /\ x \in Int
  BY <1>1, ClockAssumption
<1>3. q \in 0 .. Clock!Hour - 1
  BY <1>1, Below, Spans, ClockAssumption
<1>4. p \in 0 .. Clock!Day - 1
  <2>1. (h * Clock!Hour) + q \in 0 .. (Hours * Clock!Hour) - 1
    BY <1>1, <1>3, Below, Spans, ClockAssumption
  <2>2. Hours * Clock!Hour = Clock!Day
    BY Spans, ClockAssumption
  <2>3. (h * Clock!Hour) + q = p
    BY <1>1, Spans, ClockAssumption
  <2> QED
    BY <2>1, <2>2, <2>3
<1>5. a = (Clock!Day * z) + p
  BY <1>1, Spans, ClockAssumption DEF IsTime
<1>6. Clock!Day * z = Clock!Hour * (Hours * z)
  BY <1>1, Spans, ClockAssumption, SMTT(30)
<1>7. a = (Clock!Hour * y) + q
  <2>1. Clock!Hour * y = (Clock!Hour * (Hours * z)) + (h * Clock!Hour)
    BY <1>1, Spans, ClockAssumption, SMTT(30)
  <2> QED
    BY <1>1, <1>5, <1>6, <2>1, Spans, ClockAssumption
<1>8. a = (Minute * x) + s
  <2>1. Clock!Hour * y = Minute * (y * Minutes)
    BY <1>2, Spans, ClockAssumption, SMTT(30)
  <2>2. Minute * x = (Minute * (y * Minutes)) + (m * Minute)
    BY <1>1, <1>2, ClockAssumption, SMTT(30)
  <2> QED
    BY <1>1, <1>2, <1>7, <2>1, <2>2, Spans, ClockAssumption
<1> HIDE DEF x, y, p, q
<1>9. s = a % Minute
  <2>1. /\ a \in Int /\ x \in Int /\ s \in Int /\ Minute \in Nat \ {0}
        /\ a = (Minute * x) + s /\ 0 <= s /\ s < Minute
    BY <1>1, <1>2, <1>8, ClockAssumption
  <2> QED
    BY <2>1, Quotient, Zenon
<1>10. q = a % Clock!Hour
  <2>1. /\ a \in Int /\ y \in Int /\ q \in Int /\ Clock!Hour \in Nat \ {0}
        /\ a = (Clock!Hour * y) + q /\ 0 <= q /\ q < Clock!Hour
    BY <1>2, <1>3, <1>7, Spans
  <2> QED
    BY <2>1, Quotient, Zenon
<1>11. p = a % Clock!Day
  <2>1. /\ a \in Int /\ z \in Int /\ p \in Int /\ Clock!Day \in Nat \ {0}
        /\ a = (Clock!Day * z) + p /\ 0 <= p /\ p < Clock!Day
    BY <1>1, <1>4, <1>5, Spans
  <2> QED
    BY <2>1, Quotient, Zenon
<1>12. m = q \div Minute
  <2>1. /\ q \in Int /\ m \in Int /\ s \in Int /\ Minute \in Nat \ {0}
        /\ q = (Minute * m) + s /\ 0 <= s /\ s < Minute
    BY <1>1, ClockAssumption DEF q
  <2> QED
    BY <2>1, Quotient, Zenon
<1>13. h = p \div Clock!Hour
  <2>1. q \in Int /\ (m * Minute) \in Int /\ (h * Clock!Hour) \in Int
    BY <1>1, <1>3, ClockAssumption, Spans
  <2>2. p = (Clock!Hour * h) + q
    BY <1>1, <2>1, ClockAssumption, Spans DEF p, q
  <2>3. /\ p \in Int /\ h \in Int /\ q \in Int /\ Clock!Hour \in Nat \ {0}
        /\ p = (Clock!Hour * h) + q /\ 0 <= q /\ q < Clock!Hour
    BY <1>1, <1>3, <1>4, <2>2, Spans
  <2> QED
    BY <2>3, Quotient, Zenon
<1>14. a % Clock!Hour = (m * Minute) + s
  BY <1>10, Zenon DEF q
<1> QED
  BY <1>9, <1>10, <1>11, <1>12, <1>13, <1>14, Zenon

LEMMA OneMore ==
    ASSUME NEW a \in Nat, NEW u \in Nat \ {0}
    PROVE  (a + 1) % u = (a % u) + 1 \/ ((a + 1) % u = 0 /\ a % u = u - 1)
<1> DEFINE q == a \div u
           r == a % u
<1>1. q \in Int /\ r \in 0 .. u - 1 /\ a = (u * q) + r
  BY Division
<1> HIDE DEF q, r
<1>2. CASE r + 1 < u
  <2>1. /\ a + 1 \in Int /\ q \in Int /\ r + 1 \in Int /\ a + 1 = (u * q) + (r + 1)
        /\ 0 <= r + 1 /\ r + 1 < u
    BY <1>1, <1>2
  <2> DEFINE x == a + 1
             y == r + 1
  <2>2. /\ x \in Int /\ q \in Int /\ y \in Int /\ u \in Nat \ {0}
        /\ x = (u * q) + y /\ 0 <= y /\ y < u
    BY <2>1
  <2> HIDE DEF x, y
  <2>3. y = x % u
    BY <2>2, Quotient, Zenon
  <2> QED
    BY <2>3 DEF r, x, y
<1>3. CASE r = u - 1
  <2>1. a + 1 \in Int /\ q + 1 \in Int /\ 0 \in Int /\ 0 <= 0 /\ 0 < u
    BY <1>1
  <2>2. u * (q + 1) = (u * q) + u
    BY <1>1, SMTT(30)
  <2>3. a + 1 = (u * (q + 1)) + 0
    BY <1>1, <1>3, <2>2, <2>1
  <2>4. 0 = (a + 1) % u
    BY <2>1, <2>3, Quotient, Zenon
  <2> QED
    BY <1>3, <2>4 DEF r
<1> QED
  BY <1>1, <1>2, <1>3

(***************************************************************************)
(* One reading of the clock: r is the time of day at a moment that is at   *)
(* most an hour after a, and at a itself when no tick fell in between.     *)
(***************************************************************************)
Reads(r, a, e) == r \in 0 .. Clock!Day - 1 /\ \E k \in Int : r = a + e - (k * Clock!Day)

LEMMA Reading ==
    ASSUME NEW a \in Nat, NEW b \in Nat, NEW c \in Nat, a <= b, b <= c, c <= a + 1
    PROVE  \E e \in 0 .. Clock!Hour :
              /\ e = 0 \/ c # a
              /\ Reads(Clock!rtcts((c % Clock!Day) \div Clock!Hour,
                                   (b % Clock!Hour) \div Minute, a % Minute), a, e)
<1>1. PICK s, m, h, z : IsTime(a, s, m, h, z)
  BY TimeOf
<1>2. PICK s1, m1, h1, z1 : IsTime(a + 1, s1, m1, h1, z1)
  BY TimeOf
<1>3. /\ s \in 0 .. Minute - 1 /\ m \in 0 .. Minutes - 1 /\ h \in 0 .. Hours - 1 /\ z \in Int
      /\ a = (z * Clock!Day) + (h * Clock!Hour) + (m * Minute) + s
  BY <1>1 DEF IsTime
<1>4. /\ s1 \in 0 .. Minute - 1 /\ m1 \in 0 .. Minutes - 1 /\ h1 \in 0 .. Hours - 1
      /\ z1 \in Int
      /\ a + 1 = (z1 * Clock!Day) + (h1 * Clock!Hour) + (m1 * Minute) + s1
  BY <1>2 DEF IsTime
<1>5. /\ a % Minute = s /\ (a % Clock!Hour) \div Minute = m
      /\ (a % Clock!Day) \div Clock!Hour = h /\ a % Clock!Hour = (m * Minute) + s
  BY <1>1, Registers, Zenon
<1>6. /\ (a + 1) % Minute = s1 /\ ((a + 1) % Clock!Hour) \div Minute = m1
      /\ ((a + 1) % Clock!Day) \div Clock!Hour = h1
      /\ (a + 1) % Clock!Hour = (m1 * Minute) + s1
  <2>1. a + 1 \in Nat
    OBVIOUS
  <2> QED
    BY <1>2, <2>1, Registers, Zenon
<1>7. ASSUME NEW x \in 0 .. Hours - 1, NEW y \in 0 .. Minutes - 1, NEW w \in 0 .. Minute - 1
      PROVE  (x * Clock!Hour) + (y * Minute) + w \in 0 .. Clock!Day - 1
  <2>1. (y * Minute) + w \in 0 .. Clock!Hour - 1
    BY Below, Spans, ClockAssumption
  <2>2. (x * Clock!Hour) + ((y * Minute) + w) \in 0 .. (Hours * Clock!Hour) - 1
    BY <2>1, Below, Spans, ClockAssumption
  <2>3. Hours * Clock!Hour = Clock!Day
    BY Spans, ClockAssumption
  <2> QED
    BY <2>2, <2>3, Spans, ClockAssumption
<1> DEFINE zD == z * Clock!Day
           zD1 == z1 * Clock!Day
           hH == h * Clock!Hour
           hH1 == h1 * Clock!Hour
           mM == m * Minute
           mM1 == m1 * Minute
<1>8. /\ zD \in Int /\ zD1 \in Int /\ hH \in Int /\ hH1 \in Int /\ mM \in Int /\ mM1 \in Int
      /\ s \in Int /\ s1 \in Int
  BY <1>3, <1>4, Spans, ClockAssumption
<1>9. CASE c = a
  <2>1. b = a
    BY <1>9
  <2>2. Clock!rtcts((c % Clock!Day) \div Clock!Hour, (b % Clock!Hour) \div Minute, a % Minute)
        = hH + mM + s
    BY <1>5, <1>9, <2>1 DEF Clock!rtcts
  <2>3. hH + mM + s \in 0 .. Clock!Day - 1
    BY <1>3, <1>7
  <2> HIDE DEF hH, mM, zD
  <2>4. hH + mM + s = a + 0 - zD
    BY <1>3, <1>8 DEF hH, mM, zD
  <2>5. Reads(hH + mM + s, a, 0)
    BY <1>3, <2>3, <2>4 DEF Reads, zD
  <2>6. 0 \in 0 .. Clock!Hour
    BY Spans
  <2> QED
    BY <2>2, <2>5, <2>6, Zenon
<1>10. CASE b = a /\ c = a + 1
  <2>1. Clock!rtcts((c % Clock!Day) \div Clock!Hour, (b % Clock!Hour) \div Minute, a % Minute)
        = hH1 + mM + s
    BY <1>5, <1>6, <1>10 DEF Clock!rtcts
  <2>2. hH1 + mM + s \in 0 .. Clock!Day - 1
    BY <1>3, <1>4, <1>7
  <2>3. mM1 + s1 = mM + s + 1 \/ (mM1 + s1 = 0 /\ mM + s = Clock!Hour - 1)
    BY <1>5, <1>6, OneMore, Spans
  <2> HIDE DEF hH1, mM, mM1, zD1
  <2>4. \E e \in {0, Clock!Hour} : hH1 + mM + s = a + e - zD1
    <3>1. a + 1 = zD1 + hH1 + mM1 + s1
      BY <1>4 DEF zD1, hH1, mM1
    <3> QED
      BY <1>8, <2>3, <3>1, Spans
  <2>5. PICK e \in {0, Clock!Hour} : Reads(hH1 + mM + s, a, e)
    BY <1>4, <2>2, <2>4 DEF Reads, zD1
  <2>6. e \in 0 .. Clock!Hour
    BY Spans
  <2>7. c # a
    BY <1>10
  <2> QED
    BY <2>1, <2>5, <2>6, <2>7, Zenon
<1>11. CASE b = a + 1 /\ c = a + 1
  <2>1. Clock!rtcts((c % Clock!Day) \div Clock!Hour, (b % Clock!Hour) \div Minute, a % Minute)
        = hH1 + mM1 + s
    BY <1>5, <1>6, <1>11 DEF Clock!rtcts
  <2>2. hH1 + mM1 + s \in 0 .. Clock!Day - 1
    BY <1>3, <1>4, <1>7
  <2>3. s1 = s + 1 \/ (s1 = 0 /\ s = Minute - 1)
    BY <1>5, <1>6, OneMore, ClockAssumption
  <2> HIDE DEF hH1, mM1, zD1
  <2>4. \E e \in {0, Minute} : hH1 + mM1 + s = a + e - zD1
    <3>1. a + 1 = zD1 + hH1 + mM1 + s1
      BY <1>4 DEF zD1, hH1, mM1
    <3> QED
      BY <1>8, <2>3, <3>1, ClockAssumption
  <2>5. PICK e \in {0, Minute} : Reads(hH1 + mM1 + s, a, e)
    BY <1>4, <2>2, <2>4 DEF Reads, zD1
  <2>6. e \in 0 .. Clock!Hour
    BY Spans, ClockAssumption
  <2>7. c # a
    BY <1>11
  <2> QED
    BY <2>1, <2>5, <2>6, <2>7, Zenon
<1> QED
  BY <1>9, <1>10, <1>11

LEMMA Difference ==
    ASSUME NEW now, NEW up, NEW a \in Nat, NEW b \in Nat, NEW e \in Int, NEW f \in Int,
           Reads(now, a, e), Reads(up, b, f)
    PROVE  /\ (IF now < up THEN now + Clock!Day ELSE now) - up
              = ((a - b) + (e - f)) % Clock!Day
           /\ (IF now < up THEN now + Clock!Day ELSE now) - up \in Nat
<1>1. PICK k \in Int : now = a + e - (k * Clock!Day)
  BY DEF Reads
<1>2. PICK l \in Int : up = b + f - (l * Clock!Day)
  BY DEF Reads
<1> DEFINE D == Clock!Day
           d == (IF now < up THEN now + D ELSE now) - up
           n == IF now < up THEN (k - l) - 1 ELSE k - l
           x == (a - b) + (e - f)
<1>3. D \in Nat \ {0} /\ now \in 0 .. D - 1 /\ up \in 0 .. D - 1
  BY Spans DEF Reads
<1>4. d \in Nat /\ d < D /\ n \in Int /\ x \in Int /\ 0 - n \in Int
  BY <1>3
<1>5. k * D \in Int /\ l * D \in Int /\ (k - l) * D = (k * D) - (l * D)
      /\ ((k - l) - 1) * D = (k * D) - (l * D) - D
  BY <1>3, SMTT(30)
<1>6. n * D = IF now < up THEN (k * D) - (l * D) - D ELSE (k * D) - (l * D)
  BY <1>5
<1>7. D * n = n * D
  BY <1>3, <1>4
<1>8. x = (D * n) + d
  BY <1>1, <1>2, <1>3, <1>5, <1>6, <1>7
<1> HIDE DEF D, d, n, x
<1>9. d = x % D
  <2>1. x \in Int /\ n \in Int /\ d \in Int /\ D \in Nat \ {0} /\ 0 <= d /\ d < D
    BY <1>3, <1>4
  <2> QED
    BY <1>8, <2>1, Quotient, Zenon
<1> QED
  BY <1>4, <1>9 DEF D, d, x

(***************************************************************************)
(* What the reads of the clock establish, one after the other.             *)
(***************************************************************************)
ClockTypes ==
    /\ time \in Nat /\ asked \in Nat \cup {Clock!NotYet} /\ booted \in Nat \cup {Clock!NotYet}
    /\ pc \in {"idle", "sec", "min", "hour"} /\ booted <= time
    /\ updating \in BOOLEAN /\ ticked \in BOOLEAN /\ blurred \in BOOLEAN
    /\ bootTicked \in BOOLEAN /\ bootBlurred \in BOOLEAN

\* The second is that of asked, the minute that of a moment since.
BeingRead ==
    /\ pc \in {"min", "hour"} =>
          /\ asked \in Nat /\ booted <= asked
          /\ blurred \/ sec = asked % Minute
          /\ time = IF ticked THEN asked + 1 ELSE asked
    /\ pc = "hour" => blurred \/
          \E b \in Nat : asked <= b /\ b <= time /\ min = (b % Clock!Hour) \div Minute

BootRead ==
    IF booted = Clock!NotYet THEN answer = Clock!NotYet
    ELSE bootBlurred \/ \E e \in 0 .. Clock!Hour : (e = 0 \/ bootTicked) /\ Reads(uptime, booted, e)

\* Whole days left out, what is answered is off by what the two readings are.
Off(e, f) ==
    /\ e \in 0 .. Clock!Hour /\ f \in 0 .. Clock!Hour
    /\ (e = 0 \/ ticked) /\ (f = 0 \/ bootTicked)
    /\ answer = ((Clock!Truth + (e - f)) % Clock!Day) % Unsigned

AnswerRead ==
    Clock!Answered =>
        /\ asked \in Nat /\ booted \in Nat /\ booted <= asked
        /\ Clock!Legible => \E e, f : Off(e, f)

ClockInv == ClockTypes /\ BeingRead /\ BootRead /\ AnswerRead

LEMMA ClockInit == Clock!Init => ClockInv
<1> SUFFICES ASSUME Clock!Init PROVE ClockInv
  OBVIOUS
<1>1. time \in Nat
  BY Spans DEF Clock!Init
<1>2. booted = Clock!NotYet /\ asked = Clock!NotYet /\ answer = Clock!NotYet /\ pc = "sec"
      /\ Clock!NotYet <= time
  BY <1>1 DEF Clock!Init, Clock!NotYet
<1>3. ClockTypes
  BY <1>1, <1>2 DEF Clock!Init, ClockTypes
<1> QED
  BY <1>2, <1>3 DEF ClockInv, BeingRead, BootRead, AnswerRead, Clock!Answered

LEMMA ClockStep == ASSUME ClockInv, [Clock!Next]_(Clock!vars) PROVE ClockInv'
<1> USE DEF ClockInv, ClockTypes, Clock!chip, Clock!reading, Clock!boot
<1>0. CASE Clock!Update
  <2>1. UNCHANGED <<time, pc, asked, ticked, blurred, sec, min, booted, bootTicked,
                    bootBlurred, uptime, answer>> /\ updating' \in BOOLEAN
    BY <1>0 DEF Clock!Update
  <2>2. BeingRead' /\ BootRead' /\ ClockTypes'
    BY <2>1 DEF BeingRead, BootRead
  <2>3. AnswerRead'
    BY <2>1 DEF AnswerRead, Clock!Answered, Clock!Truth, Clock!Legible, Off
  <2> QED
    BY <2>2, <2>3
<1>1. CASE Clock!Tick
  <2>1. ClockTypes'
    <3>1. /\ time' = time + 1 /\ updating' = FALSE /\ UNCHANGED <<pc, booted, bootTicked, bootBlurred>>
          /\ (asked' = asked \/ asked' = Clock!NotYet) /\ ticked' \in BOOLEAN
          /\ blurred' \in BOOLEAN
      BY <1>1 DEF Clock!Tick
    <3>2. booted' <= time' /\ time' \in Nat
      BY <3>1 DEF Clock!NotYet
    <3> QED
      BY <3>1, <3>2
  <2>2. BeingRead'
    <3>1. CASE pc \in {"min", "hour"}
      <4>1. time' = asked + 1 /\ ticked' = TRUE
            /\ UNCHANGED <<pc, asked, blurred, sec, min, booted>>
            /\ asked \in Nat /\ booted <= asked /\ (blurred \/ sec = asked % Minute)
            /\ time = asked
        BY <1>1, <3>1 DEF Clock!Tick, BeingRead
      <4>2. pc = "hour" => blurred \/
              \E b \in Nat : asked <= b /\ b <= time' /\ min = (b % Clock!Hour) \div Minute
        BY <4>1 DEF BeingRead
      <4> QED
        BY <4>1, <4>2 DEF BeingRead
    <3>2. CASE pc \notin {"min", "hour"}
      BY <1>1, <3>2 DEF Clock!Tick, BeingRead
    <3> QED
      BY <3>1, <3>2
  <2>3. UNCHANGED <<pc, booted, bootTicked, bootBlurred, uptime>>
        /\ (answer' = answer \/ answer' = Clock!NotYet)
        /\ (pc = "idle" => answer' = Clock!NotYet)
    BY <1>1 DEF Clock!Tick
  <2>4. BootRead'
    BY <2>3 DEF BootRead
  <2>5. AnswerRead'
    BY <2>3 DEF AnswerRead, Clock!Answered
  <2> QED
    BY <2>1, <2>2, <2>4, <2>5
<1>2. CASE Clock!Ask
  BY <1>2 DEF Clock!Ask, BeingRead, BootRead, AnswerRead, Clock!Answered, Clock!NotYet
<1>3. CASE Clock!ReadSecond
  <2>1. time % Minute \in Nat
    BY Division, ClockAssumption
  <2>2. updating \/ sec' = time % Minute
    BY <1>3, <2>1, Decimal DEF Clock!ReadSecond, Clock!Seconds, Clock!rtc_read
  <2>3. pc' = "min" /\ asked' = time /\ ticked' = FALSE /\ blurred' = updating
        /\ UNCHANGED <<time, updating, min, booted, bootTicked, bootBlurred, uptime, answer>>
    BY <1>3 DEF Clock!ReadSecond
  <2> QED
    BY <2>2, <2>3 DEF BeingRead, BootRead, AnswerRead, Clock!Answered
<1>4. CASE Clock!ReadMinute
  <2>1. (time % Clock!Hour) \div Minute \in Nat
    <3>1. time % Clock!Hour \in Nat
      <4>1. time \in Int /\ Clock!Hour \in Nat \ {0}
        BY Spans
      <4>2. time % Clock!Hour \in 0 .. Clock!Hour - 1
        BY <4>1, Division, Zenon
      <4> QED
        BY <4>1, <4>2
    <3> QED
      BY <3>1, ClockAssumption, SMTT(30)
  <2>2. updating \/ min' = (time % Clock!Hour) \div Minute
    BY <1>4, <2>1, Decimal DEF Clock!ReadMinute, Clock!MinuteReg, Clock!rtc_read
  <2>3. pc = "min" /\ pc' = "hour" /\ blurred' = (blurred \/ updating)
        /\ UNCHANGED <<time, updating, asked, ticked, sec, booted, bootTicked, bootBlurred,
                       uptime, answer>>
    BY <1>4 DEF Clock!ReadMinute
  <2>4. /\ asked \in Nat /\ booted <= asked /\ (blurred \/ sec = asked % Minute)
        /\ time = IF ticked THEN asked + 1 ELSE asked
        /\ asked <= time
    BY <2>3 DEF BeingRead
  <2>5. BeingRead'
    BY <2>2, <2>3, <2>4 DEF BeingRead
  <2> QED
    BY <2>3, <2>5 DEF BootRead, AnswerRead, Clock!Answered
<1>5. CASE Clock!ReadHour
  <2>1. /\ pc = "hour" /\ pc' = "idle" /\ UNCHANGED <<time, updating, asked, ticked>>
        /\ blurred' = (blurred \/ updating)
        /\ asked \in Nat /\ booted <= asked /\ (blurred \/ sec = asked % Minute)
        /\ time = IF ticked THEN asked + 1 ELSE asked
    BY <1>5 DEF Clock!ReadHour, BeingRead
  <2>2. PICK byte \in Clock!rtc_read(Clock!HourReg) :
          IF booted = Clock!NotYet
          THEN /\ uptime' = Clock!rtcts(Clock!bcdtb(byte), min, sec)
               /\ booted' = asked /\ bootTicked' = ticked /\ bootBlurred' = blurred'
               /\ UNCHANGED answer
          ELSE answer' = Clock!Elapsed(Clock!rtcts(Clock!bcdtb(byte), min, sec))
               /\ UNCHANGED <<booted, bootTicked, bootBlurred, uptime>>
    BY <1>5 DEF Clock!ReadHour
  <2> DEFINE now == Clock!rtcts(Clock!bcdtb(byte), min, sec)
  <2>3. updating \/ Clock!bcdtb(byte) = (time % Clock!Day) \div Clock!Hour
    <3>1. time % Clock!Day \in Nat
      <4>1. time \in Int /\ Clock!Day \in Nat \ {0}
        BY Spans
      <4>2. time % Clock!Day \in 0 .. Clock!Day - 1
        BY <4>1, Division, Zenon
      <4> QED
        BY <4>1, <4>2
    <3>2. (time % Clock!Day) \div Clock!Hour \in Nat
      BY <3>1, Spans, SMTT(30)
    <3> QED
      BY <2>2, <3>2, Decimal DEF Clock!HourReg, Clock!rtc_read
  <2>4. ~blurred' => \E e \in 0 .. Clock!Hour : (e = 0 \/ ticked) /\ Reads(now, asked, e)
    <3> SUFFICES ASSUME ~blurred, ~updating
                 PROVE  \E e \in 0 .. Clock!Hour : (e = 0 \/ ticked) /\ Reads(now, asked, e)
      BY <2>1, Zenon
    <3>1. PICK b \in Nat : asked <= b /\ b <= time /\ min = (b % Clock!Hour) \div Minute
      BY <2>1 DEF BeingRead
    <3>2. now = Clock!rtcts((time % Clock!Day) \div Clock!Hour,
                            (b % Clock!Hour) \div Minute, asked % Minute)
      BY <2>1, <2>3, <3>1
    <3>3. time <= asked + 1 /\ (ticked \/ time = asked)
      BY <2>1
    <3>4. \E x \in 0 .. Clock!Hour :
              /\ x = 0 \/ time # asked
              /\ Reads(Clock!rtcts((time % Clock!Day) \div Clock!Hour,
                                   (b % Clock!Hour) \div Minute, asked % Minute), asked, x)
      BY <2>1, <3>1, <3>3, Reading
    <3> QED
      BY <3>2, <3>3, <3>4, Zenon
  <2> HIDE DEF now
  <2>5. CASE booted = Clock!NotYet
    <3>1. /\ uptime' = now /\ booted' = asked /\ bootTicked' = ticked
          /\ bootBlurred' = blurred' /\ UNCHANGED answer
          /\ answer = Clock!NotYet
      BY <2>2, <2>5 DEF BootRead, now
    <3>2. BootRead'
      <4>1. booted' # Clock!NotYet
        BY <2>1, <3>1 DEF Clock!NotYet
      <4>2. bootBlurred' \/ \E e \in 0 .. Clock!Hour :
                              (e = 0 \/ bootTicked') /\ Reads(uptime', booted', e)
        BY <2>4, <3>1, Zenon
      <4> QED
        BY <4>1, <4>2 DEF BootRead, Reads
    <3>3. AnswerRead'
      BY <3>1 DEF AnswerRead, Clock!Answered, Clock!NotYet
    <3>4. BeingRead' /\ ClockTypes'
      BY <2>1, <3>1 DEF BeingRead
    <3> QED
      BY <3>2, <3>3, <3>4
  <2>6. CASE booted # Clock!NotYet
    <3>1. answer' = Clock!Elapsed(now) /\ UNCHANGED <<uptime, booted, bootTicked, bootBlurred>>
          /\ booted \in Nat
      BY <2>2, <2>6 DEF now
    <3>2. ASSUME Clock!Legible' PROVE (\E e, f : Off(e, f))'
      <4>1. ~blurred' /\ ~bootBlurred
        BY <3>1, <3>2 DEF Clock!Legible
      <4>2. PICK e \in 0 .. Clock!Hour : (e = 0 \/ ticked) /\ Reads(now, asked, e)
        BY <2>4, <4>1
      <4>3. PICK f \in 0 .. Clock!Hour : (f = 0 \/ bootTicked) /\ Reads(uptime, booted, f)
        BY <2>6, <4>1 DEF BootRead
      <4>4. e \in Int /\ f \in Int
        BY Spans
      <4>5. (IF now < uptime THEN now + Clock!Day ELSE now) - uptime
            = ((asked - booted) + (e - f)) % Clock!Day
        BY <2>1, <3>1, <4>2, <4>3, <4>4, Difference
      <4>6. answer' = (((asked - booted) + (e - f)) % Clock!Day) % Unsigned
        BY <3>1, <4>5, Zenon DEF Clock!Elapsed
      <4>7. Off(e, f)'
        BY <2>1, <3>1, <4>2, <4>3, <4>6 DEF Off, Clock!Truth
      <4> QED
        BY <4>7
    <3>3. AnswerRead'
      BY <2>1, <3>1, <3>2 DEF AnswerRead
    <3>4. BootRead'
      BY <2>6, <3>1 DEF BootRead, Reads, Clock!NotYet
    <3>5. BeingRead' /\ ClockTypes'
      BY <2>1, <3>1 DEF BeingRead
    <3> QED
      BY <3>3, <3>4, <3>5
  <2> QED
    BY <2>5, <2>6
<1>6. CASE UNCHANGED Clock!vars
  BY <1>6
  DEF Clock!vars, BeingRead, BootRead, AnswerRead, Clock!Answered, Clock!Truth, Clock!Legible,
      Off
<1> QED
  BY <1>0, <1>1, <1>2, <1>3, <1>4, <1>5, <1>6 DEF Clock!Next

\* A number below u is what is left of it.
LEMMA Small == ASSUME NEW u \in Nat \ {0}, NEW x \in 0 .. u - 1 PROVE x % u = x
<1>1. 0 \in Int /\ x \in Int /\ x = u * 0 + x /\ 0 <= x /\ x < u
  OBVIOUS
<1> QED
  BY <1>1, Quotient, Zenon

LEMMA ClockIs == ClockInv => UntornIsExact /\ TornWithinHour
<1> SUFFICES ASSUME ClockInv, Clock!Answered, Clock!Legible PROVE UntornIsExact /\ TornWithinHour
  BY DEF UntornIsExact, TornWithinHour, Clock!UntornIsExact, Clock!TornWithinHour
<1>1. PICK e, f : Off(e, f)
  BY DEF ClockInv, AnswerRead
<1>2. asked \in Nat /\ booted \in Nat /\ Clock!Truth \in Nat
  BY DEF ClockInv, AnswerRead, Clock!Truth
<1>3. /\ e \in 0 .. Clock!Hour /\ f \in 0 .. Clock!Hour
      /\ (e = 0 \/ ticked) /\ (f = 0 \/ bootTicked)
      /\ answer = ((Clock!Truth + (e - f)) % Clock!Day) % Unsigned
  BY <1>1 DEF Off
<1> DEFINE x == Clock!Truth + (e - f)
<1>4. Clock!Day \in Nat \ {0} /\ Clock!Hour \in Nat \ {0} /\ Unsigned \in Nat \ {0}
      /\ Clock!Day < Unsigned /\ x \in Int
  BY <1>2, <1>3, Spans, ClockAssumption DEF Clock!Day, Clock!Hour
<1>5. x \in 0 .. Clock!Day - 1 => answer = x
  <2> SUFFICES ASSUME x \in 0 .. Clock!Day - 1 PROVE answer = x
    OBVIOUS
  <2>1. x % Clock!Day = x
    BY <1>4, Small
  <2>2. x \in 0 .. Unsigned - 1
    BY <1>4
  <2>3. x % Unsigned = x
    BY <1>4, <2>2, Small
  <2> QED
    BY <1>3, <2>1, <2>3
<1>6. UntornIsExact
  <2> SUFFICES ASSUME Clock!Untorn, Clock!Truth < Clock!Day PROVE answer = Clock!Truth
    BY DEF UntornIsExact, Clock!UntornIsExact
  <2>1. e = 0 /\ f = 0
    BY <1>3 DEF Clock!Untorn
  <2>2. x = Clock!Truth /\ x \in 0 .. Clock!Day - 1
    BY <1>2, <1>4, <2>1
  <2> QED
    BY <1>5, <2>2
<1>7. TornWithinHour
  <2> SUFFICES ASSUME Clock!Truth + Clock!Hour < Clock!Day,
                      bootTicked => Clock!Truth >= Clock!Hour
               PROVE  answer \in Clock!Truth - Clock!Hour .. Clock!Truth + Clock!Hour
    BY DEF TornWithinHour, Clock!TornWithinHour
  <2>1. x \in 0 .. Clock!Day - 1 /\ x \in Clock!Truth - Clock!Hour .. Clock!Truth + Clock!Hour
    BY <1>2, <1>3, <1>4
  <2> QED
    BY <1>5, <2>1
<1> QED
  BY <1>6, <1>7

\* For every length of minutes, hours and days: within a day of boot an uptime is
\* exact when no read of the clock, at boot or for the answer, met an update of
\* it; and where a tick fell between two of those reads it is at most an hour
\* wrong, from an hour after boot if the tick fell into the reading at boot, to an
\* hour before the day is over (elapsed_uptime_seconds, kernel.c:26).
THEOREM UptimeCorrect == ClockSpec => [](UntornIsExact /\ TornWithinHour)
<1>1. Clock!Init => ClockInv
  BY ClockInit
<1>2. ClockInv /\ [Clock!Next]_(Clock!vars) => ClockInv'
  BY ClockStep
<1> QED
  BY <1>1, <1>2, ClockIs, PTL DEF ClockSpec, Clock!Spec

(***************************************************************************)
(* Induction over the places of a table, to reason about what is computed  *)
(* one place after the other: a set that has 0 and, with every i - 1, i.   *)
(***************************************************************************)
LEMMA LeastNat ==
    ASSUME NEW T \in SUBSET Nat, T # {}
    PROVE  \E n \in T : \A m \in T : n <= m
<1> DEFINE R == OpToRel(<, Nat)
<1>1. IsWellFoundedOn(R, Nat)
  BY NatLessThanWellFounded
<1>2. \A x, y \in Nat : x < y => <<x, y>> \in R
  BY DEF OpToRel
<1> HIDE DEF R
<1>3. PICK n \in T : \A m \in T : ~(<<m, n>> \in R)
  BY <1>1, WFMin
<1>4. ASSUME NEW m \in T PROVE n <= m
  <2>1. m \in Nat /\ n \in Nat /\ ~(<<m, n>> \in R)
    BY <1>3
  <2>2. ~(m < n)
    BY <1>2, <2>1
  <2> QED
    BY <2>1, <2>2
<1> QED
  BY <1>4

LEMMA Induction ==
    ASSUME NEW n \in Nat, NEW S, 0 \in S, \A i \in 1 .. n : i - 1 \in S => i \in S
    PROVE  0 .. n \subseteq S
<1> DEFINE T == {i \in 0 .. n : i \notin S}
<1> SUFFICES ASSUME T # {} PROVE FALSE
  OBVIOUS
<1>1. T \in SUBSET Nat
  OBVIOUS
<1> HIDE DEF T
<1>2. PICK i \in T : \A j \in T : i <= j
  BY <1>1, LeastNat
<1>3. i \in 0 .. n /\ i \notin S
  BY DEF T
<1>4. i \in 1 .. n /\ i - 1 \in 0 .. n /\ i - 1 \notin T
  BY <1>1, <1>2, <1>3
<1> QED
  BY <1>3, <1>4 DEF T

(***************************************************************************)
(* The screen: the row of the cursor is on it, whatever a command prints.  *)
(***************************************************************************)
IsText(t) == t = [screen |-> t.screen, y |-> t.y]
OnScreen(t) == IsText(t) /\ t.y \in Rows

LEMMA Redrawn ==
    ASSUME NEW t, IsText(t), NEW s
    PROVE  /\ [t EXCEPT !.screen = s] = [screen |-> s, y |-> t.y]
           /\ [t EXCEPT !.y = s] = [screen |-> t.screen, y |-> s]
  BY DEF IsText

PrintOf(t, msg, x, y) ==
    [r \in Rows |-> [c \in Cols |->
        LET i == (r * VGA_WIDTH + c) - (y * VGA_WIDTH + x) + 1
        IN  IF i \in 1 .. Len(msg) THEN msg[i] ELSE t.screen[r][c]]]

LEMMA PrintIs ==
    ASSUME NEW t, IsText(t), NEW msg, NEW x, NEW y
    PROVE  /\ print(t, msg, x, y) = [screen |-> PrintOf(t, msg, x, y), y |-> t.y]
           /\ IsText(print(t, msg, x, y)) /\ print(t, msg, x, y).y = t.y
<1>1. print(t, msg, x, y) = [t EXCEPT !.screen = PrintOf(t, msg, x, y)]
  BY Zenon DEF print, PrintOf
<1>2. print(t, msg, x, y) = [screen |-> PrintOf(t, msg, x, y), y |-> t.y]
  BY <1>1, Redrawn, Zenon
<1> QED
  BY <1>2 DEF IsText

LEMMA Scrolled ==
    ASSUME NEW t, IsText(t), t.y \in Nat
    PROVE  OnScreen(scrl(t)) /\ OnScreen(scroll_screen(t))
<1>1. ASSUME NEW u, IsText(u), u.y \in Nat PROVE OnScreen(scroll_screen(u))
  <2>1. CASE u.y < VGA_HEIGHT
    BY <1>1, <2>1, ShellAssumption DEF scroll_screen, OnScreen, Rows
  <2>2. CASE ~(u.y < VGA_HEIGHT)
    BY <1>1, <2>2, ShellAssumption DEF scroll_screen, OnScreen, Rows, IsText
  <2> QED
    BY <2>1, <2>2
<1> DEFINE u == [t EXCEPT !.y = @ + 1]
<1>2. IsText(u) /\ u.y = t.y + 1
  BY DEF IsText
<1>3. scrl(t) = scroll_screen(u)
  BY DEF scrl
<1> HIDE DEF u
<1>4. u.y \in Nat
  BY <1>2
<1>5. OnScreen(scroll_screen(u))
  BY <1>1, <1>2, <1>4
<1> QED
  BY <1>1, <1>3, <1>5

\* The rows of a command, one after the other.
PrintedIs(f, t, n, len) ==
    f = [i \in 0 .. n |-> IF i = 0 THEN t ELSE scrl(print(f[i - 1], Text(len, Ink), 0, f[i - 1].y))]

LEMMA PrintedExists ==
    ASSUME NEW t, NEW n \in Nat, NEW len
    PROVE  \E f : PrintedIs(f, t, n, len)
<1> DEFINE S == {k \in 0 .. n : \E f : PrintedIs(f, t, k, len)}
<1>1. 0 \in S
  <2>1. PrintedIs([i \in 0 .. 0 |-> t], t, 0, len)
    BY DEF PrintedIs
  <2> QED
    BY <2>1
<1>2. ASSUME NEW k \in 1 .. n, k - 1 \in S PROVE k \in S
  <2>1. PICK f : PrintedIs(f, t, k - 1, len)
    BY <1>2
  <2> DEFINE next == scrl(print(f[k - 1], Text(len, Ink), 0, f[k - 1].y))
             g == [i \in 0 .. k |-> IF i = k THEN next ELSE f[i]]
  <2>2. ASSUME NEW i \in 0 .. k
        PROVE  g[i] = IF i = 0 THEN t
                      ELSE scrl(print(g[i - 1], Text(len, Ink), 0, g[i - 1].y))
    <3>1. CASE i = k
      <4>1. g[i] = next /\ g[i - 1] = f[k - 1] /\ i # 0
        BY <3>1
      <4> QED
        BY <4>1, Zenon
    <3>2. CASE i # k /\ i = 0
      <4>1. g[i] = f[0] /\ 0 \in 0 .. k - 1
        BY <3>2
      <4>2. f[0] = t
        BY <2>1, <4>1 DEF PrintedIs
      <4> QED
        BY <3>2, <4>1, <4>2
    <3>3. CASE i # k /\ i # 0
      <4>1. g[i] = f[i] /\ g[i - 1] = f[i - 1] /\ i \in 0 .. k - 1
        BY <3>3
      <4>2. f[i] = scrl(print(f[i - 1], Text(len, Ink), 0, f[i - 1].y))
        <5>1. f = [j \in 0 .. k - 1 |-> IF j = 0 THEN t
                      ELSE scrl(print(f[j - 1], Text(len, Ink), 0, f[j - 1].y))]
          BY <2>1 DEF PrintedIs
        <5> QED
          BY <3>3, <4>1, <5>1, Zenon
      <4> QED
        BY <3>3, <4>1, <4>2, Zenon
    <3> QED
      BY <3>1, <3>2, <3>3
  <2>3. PrintedIs(g, t, k, len)
    <3>1. g = [i \in 0 .. k |-> g[i]]
      OBVIOUS
    <3> HIDE DEF g
    <3>2. [i \in 0 .. k |-> g[i]] = [i \in 0 .. k |-> IF i = 0 THEN t
                      ELSE scrl(print(g[i - 1], Text(len, Ink), 0, g[i - 1].y))]
      BY <2>2, Zenon
    <3> QED
      BY <3>1, <3>2, Zenon DEF PrintedIs
  <2> QED
    BY <2>3
<1> HIDE DEF S
<1>3. n \in S
  BY <1>1, <1>2, Induction
<1> QED
  BY <1>3 DEF S

LEMMA PrintedOnScreen ==
    ASSUME NEW t, OnScreen(t), NEW n \in Nat, NEW len
    PROVE  OnScreen(Printed(t, n, len))
<1> DEFINE f == CHOOSE f : PrintedIs(f, t, n, len)
<1>1. PrintedIs(f, t, n, len)
  BY PrintedExists, Zenon
<1>2. Printed(t, n, len) = f[n]
  BY Zenon DEF Printed, PrintedIs
<1> HIDE DEF f
<1> DEFINE S == {i \in 0 .. n : OnScreen(f[i])}
<1>3. 0 \in S
  BY <1>1 DEF PrintedIs
<1>4. ASSUME NEW i \in 1 .. n, i - 1 \in S PROVE i \in S
  <2>1. f[i] = scrl(print(f[i - 1], Text(len, Ink), 0, f[i - 1].y))
    <3>1. i \in 0 .. n /\ i # 0
      OBVIOUS
    <3> QED
      BY <1>1, <3>1, Zenon DEF PrintedIs
  <2>2. OnScreen(f[i - 1])
    BY <1>4
  <2> DEFINE p == print(f[i - 1], Text(len, Ink), 0, f[i - 1].y)
  <2>3. IsText(p) /\ p.y = f[i - 1].y
    BY <2>2, PrintIs DEF OnScreen
  <2>4. p.y \in Nat
    BY <2>2, <2>3 DEF OnScreen, Rows
  <2> QED
    BY <2>1, <2>3, <2>4, Scrolled
<1> HIDE DEF S
<1>5. n \in S
  BY <1>3, <1>4, Induction
<1> QED
  BY <1>2, <1>5 DEF S

(***************************************************************************)
(* fetch scrolls until its rows fit, then prints them.                     *)
(***************************************************************************)
Up(t) ==
    IF t.y + FetchRows > VGA_HEIGHT
    THEN [scroll_screen([t EXCEPT !.y = VGA_HEIGHT]) EXCEPT !.y = t.y - 1]
    ELSE t
UpIs(f, t, n) == f = [i \in 0 .. n |-> IF i = 0 THEN t ELSE Up(f[i - 1])]

LEMMA UpOnScreen == ASSUME NEW t, OnScreen(t) PROVE OnScreen(Up(t))
<1>1. CASE t.y + FetchRows > VGA_HEIGHT
  <2> DEFINE u == [t EXCEPT !.y = VGA_HEIGHT]
             v == scroll_screen(u)
  <2>1. u = [screen |-> t.screen, y |-> VGA_HEIGHT]
    BY Redrawn DEF OnScreen
  <2>2. IsText(u) /\ u.y \in Nat
    BY <2>1, ShellAssumption DEF IsText
  <2> HIDE DEF u
  <2>3. OnScreen(v)
    BY <2>2, Scrolled
  <2> HIDE DEF v
  <2>4. [v EXCEPT !.y = t.y - 1] = [screen |-> v.screen, y |-> t.y - 1]
    BY <2>3, Redrawn DEF OnScreen
  <2>5. Up(t) = [screen |-> v.screen, y |-> t.y - 1]
    BY <1>1, <2>4 DEF Up, u, v
  <2>6. t.y - 1 \in Rows
    BY <1>1, ShellAssumption DEF OnScreen, Rows
  <2> QED
    BY <2>5, <2>6 DEF OnScreen, IsText
<1>2. CASE ~(t.y + FetchRows > VGA_HEIGHT)
  BY <1>2 DEF Up
<1> QED
  BY <1>1, <1>2

LEMMA UpExists == ASSUME NEW t, NEW n \in Nat PROVE \E f : UpIs(f, t, n)
<1> DEFINE S == {k \in 0 .. n : \E f : UpIs(f, t, k)}
<1>1. 0 \in S
  <2>1. UpIs([i \in 0 .. 0 |-> t], t, 0)
    BY DEF UpIs
  <2> QED
    BY <2>1
<1>2. ASSUME NEW k \in 1 .. n, k - 1 \in S PROVE k \in S
  <2>1. PICK f : UpIs(f, t, k - 1)
    BY <1>2
  <2> DEFINE g == [i \in 0 .. k |-> IF i = k THEN Up(f[k - 1]) ELSE f[i]]
  <2>2. ASSUME NEW i \in 0 .. k PROVE g[i] = IF i = 0 THEN t ELSE Up(g[i - 1])
    <3>1. CASE i = k
      <4>1. g[i] = Up(f[k - 1]) /\ g[i - 1] = f[k - 1] /\ i # 0
        BY <3>1
      <4> QED
        BY <4>1, Zenon
    <3>2. CASE i # k
      <4>1. g[i] = f[i] /\ i \in 0 .. k - 1 /\ (i # 0 => g[i - 1] = f[i - 1])
        BY <3>2
      <4>2. f[i] = IF i = 0 THEN t ELSE Up(f[i - 1])
        <5>1. f = [j \in 0 .. k - 1 |-> IF j = 0 THEN t ELSE Up(f[j - 1])]
          BY <2>1 DEF UpIs
        <5> QED
          BY <4>1, <5>1, Zenon
      <4> QED
        BY <4>1, <4>2, Zenon
    <3> QED
      BY <3>1, <3>2
  <2>3. UpIs(g, t, k)
    <3>1. g = [i \in 0 .. k |-> g[i]]
      OBVIOUS
    <3> HIDE DEF g
    <3>2. [i \in 0 .. k |-> g[i]] = [i \in 0 .. k |-> IF i = 0 THEN t ELSE Up(g[i - 1])]
      BY <2>2, Zenon
    <3> QED
      BY <3>1, <3>2, Zenon DEF UpIs
  <2> QED
    BY <2>3
<1> HIDE DEF S
<1>3. n \in S
  BY <1>1, <1>2, Induction
<1> QED
  BY <1>3 DEF S

LEMMA FetchOnScreen == ASSUME NEW t, OnScreen(t) PROVE OnScreen(Fetch(t))
<1> DEFINE f == CHOOSE f : UpIs(f, t, VGA_HEIGHT)
           top == f[VGA_HEIGHT]
           out == Printed(top, FetchRows - 1, VGA_WIDTH)
<1>1. UpIs(f, t, VGA_HEIGHT)
  BY UpExists, ShellAssumption, Zenon
<1>2. Fetch(t) = scrl([out EXCEPT !.y = top.y + FetchRows - 1])
  BY Zenon DEF Fetch, UpIs, Up
<1> HIDE DEF f
<1>3. OnScreen(top)
  <2> DEFINE S == {i \in 0 .. VGA_HEIGHT : OnScreen(f[i])}
  <2>1. 0 \in S
    BY <1>1, ShellAssumption DEF UpIs
  <2>2. ASSUME NEW i \in 1 .. VGA_HEIGHT, i - 1 \in S PROVE i \in S
    <3>1. f[i] = Up(f[i - 1])
      <4>1. i \in 0 .. VGA_HEIGHT /\ i # 0
        OBVIOUS
      <4> QED
        BY <1>1, <4>1, Zenon DEF UpIs
    <3> QED
      BY <2>2, <3>1, UpOnScreen
  <2> HIDE DEF S
  <2>3. VGA_HEIGHT \in S
    BY <2>1, <2>2, Induction, ShellAssumption
  <2> QED
    BY <2>3 DEF S
<1> HIDE DEF top
<1>4. OnScreen(out)
  BY <1>3, PrintedOnScreen, ShellAssumption
<1> HIDE DEF out
<1> DEFINE end == [out EXCEPT !.y = top.y + FetchRows - 1]
<1>5. end = [screen |-> out.screen, y |-> top.y + FetchRows - 1]
  BY <1>4, Redrawn DEF OnScreen
<1>6. IsText(end) /\ end.y = top.y + FetchRows - 1
  BY <1>5 DEF IsText
<1> HIDE DEF end
<1>7. end.y \in Nat
  BY <1>3, <1>6, ShellAssumption DEF OnScreen, Rows
<1>8. OnScreen(scrl(end))
  BY <1>6, <1>7, Scrolled
<1> QED
  BY <1>2, <1>8 DEF end

LEMMA EffectOnScreen == ASSUME NEW t, OnScreen(t), NEW u \in Effects(t) PROVE OnScreen(u)
<1>1. ASSUME NEW n \in 0 .. MostRows PROVE OnScreen(Printed(t, n, VGA_WIDTH \div 2))
  BY PrintedOnScreen
<1>2. OnScreen(Printed(t, 1, LongName))
  BY PrintedOnScreen
<1>3. OnScreen(print(t, Text(2, Ink), 0, t.y))
  BY PrintIs DEF OnScreen
<1>4. OnScreen(Cleared)
  BY ShellAssumption DEF OnScreen, Cleared, IsText, Rows
<1>5. ASSUME NEW v, IsText(v), NEW y PROVE IsText(Drawn(v, y)) /\ Drawn(v, y).y = v.y
  BY <1>5, Redrawn DEF Drawn, IsText
<1>6. OnScreen(WithLogo)
  <2>1. WithLogo = [screen |-> Drawn(Cleared, 0).screen, y |-> LogoRows + 1]
    BY <1>4, <1>5, Redrawn DEF WithLogo, OnScreen
  <2> QED
    BY <2>1, ShellAssumption DEF OnScreen, IsText, Rows
<1>7. OnScreen(ShowLogo(t))
  <2> DEFINE d == Drawn(t, t.y)
             e == [d EXCEPT !.y = @ + LogoRows]
  <2>1. IsText(d) /\ d.y = t.y
    BY <1>5 DEF OnScreen
  <2>2. ShowLogo(t) = scrl(e)
    BY DEF ShowLogo
  <2> HIDE DEF d
  <2>3. e = [screen |-> d.screen, y |-> d.y + LogoRows]
    BY <2>1, Redrawn
  <2>4. IsText(e) /\ e.y \in Nat
    BY <2>1, <2>3, ShellAssumption DEF IsText, OnScreen, Rows
  <2> HIDE DEF e
  <2> QED
    BY <2>2, <2>4, Scrolled
<1>8. OnScreen(Fetch(t))
  BY FetchOnScreen
<1> QED
  BY <1>1, <1>2, <1>3, <1>4, <1>6, <1>7, <1>8 DEF Effects

(***************************************************************************)
(* The command line and the row it is shown in.                            *)
(***************************************************************************)
Characters ==
    {"arrow"} \cup {Plain[l][k] : l \in Layouts, k \in Letters}
        \cup {Shifted[l][k] : l \in Layouts, k \in Letters}
        \cup {AltGr[l][k] : l \in Layouts, k \in Letters}

Shown ==
    /\ OnScreen(at)
    /\ cmd \in Seq(Characters) /\ Len(cmd) <= CmdMax /\ cursor_x = PROMPT_LENGTH + Len(cmd)
    /\ \A i \in 0 .. PROMPT_LENGTH - 2 : at.screen[at.y][i] = Mark
    /\ \A i \in 1 .. Len(cmd) : at.screen[at.y][PROMPT_LENGTH + i - 1] = cmd[i]

LEMMA Sizes ==
    /\ VGA_WIDTH \in Nat /\ VGA_HEIGHT \in Nat /\ PROMPT_LENGTH \in Nat /\ CmdMax \in Nat
    /\ PROMPT_LENGTH + CmdMax < VGA_WIDTH /\ PROMPT_LENGTH > 1
  BY ShellAssumption

LEMMA ShownIs == Shown => LineIsShown
<1>1. ASSUME Shown PROVE cursor_x \in Cols
  BY <1>1, Sizes DEF Shown, Cols
<1> QED
  BY <1>1 DEF Shown, LineIsShown, OnScreen

\* In the row of the cursor, print writes its text at x and nothing else.
LEMMA PrintRow ==
    ASSUME NEW t, OnScreen(t), NEW msg, NEW x \in Int, NEW c \in Cols
    PROVE  print(t, msg, x, t.y).screen[t.y][c]
              = IF c - x + 1 \in 1 .. Len(msg) THEN msg[c - x + 1] ELSE t.screen[t.y][c]
<1> DEFINE s == PrintOf(t, msg, x, t.y)
           i == (t.y * VGA_WIDTH + c) - (t.y * VGA_WIDTH + x) + 1
<1>1. print(t, msg, x, t.y).screen = s
  BY PrintIs DEF OnScreen
<1>2. s[t.y][c] = IF i \in 1 .. Len(msg) THEN msg[i] ELSE t.screen[t.y][c]
  BY Zenon DEF OnScreen, PrintOf
<1>3. i = c - x + 1
  <2>1. t.y * VGA_WIDTH \in Int /\ c \in Int
    BY Sizes DEF OnScreen, Rows, Cols
  <2> QED
    BY <2>1
<1> HIDE DEF i, s
<1> QED
  BY <1>1, <1>2, <1>3, Zenon

\* A new prompt, whatever is on the screen.
LEMMA NewPrompt ==
    ASSUME NEW t, OnScreen(t), NEW u, u = Kept(Prompted(t))
    PROVE  OnScreen(u) /\ \A i \in 0 .. PROMPT_LENGTH - 2 : u.screen[u.y][i] = Mark
<1> DEFINE p == Prompted(t)
           msg == Text(PROMPT_LENGTH - 1, Mark)
<1>1. IsText(p) /\ p.y = t.y
  BY PrintIs DEF Prompted, OnScreen
<1>2. ASSUME NEW i \in 0 .. PROMPT_LENGTH - 2 PROVE p.screen[t.y][i] = Mark
  <2>1. i \in Cols /\ i - 0 + 1 = i + 1 /\ i + 1 \in 1 .. PROMPT_LENGTH - 1
    BY Sizes DEF Cols
  <2>2. Len(msg) = PROMPT_LENGTH - 1 /\ msg[i + 1] = Mark
    BY <2>1, Sizes DEF Text
  <2> HIDE DEF msg
  <2>3. print(t, msg, 0, t.y).screen[t.y][i]
            = IF i - 0 + 1 \in 1 .. Len(msg) THEN msg[i - 0 + 1] ELSE t.screen[t.y][i]
    <3>1. 0 \in Int /\ i \in Cols
      BY <2>1
    <3> QED
      BY <3>1, PrintRow, Zenon
  <2>4. p = print(t, msg, 0, t.y)
    BY DEF Prompted, msg
  <2> QED
    BY <2>1, <2>2, <2>3, <2>4
<1> HIDE DEF p
<1>3. u = [screen |-> [r \in Rows |-> IF r < p.y THEN BlankRow ELSE p.screen[r]], y |-> p.y]
  BY <1>1, Redrawn DEF Kept, p
<1>4. u.y = t.y /\ u.screen[t.y] = p.screen[t.y] /\ OnScreen(u)
  BY <1>1, <1>3 DEF OnScreen, IsText, Rows
<1> QED
  BY <1>2, <1>4

LEMMA ShownInit == Init => Shown
<1> SUFFICES ASSUME ShellInit PROVE Shown
  BY DEF Init
<1> DEFINE blank == [screen |-> BlankScreen, y |-> FirstRow]
<1>1. PICK n \in 0 .. 2 : at = Kept(Prompted(Printed(blank, n, VGA_WIDTH)))
  BY DEF ShellInit
<1>2. OnScreen(blank)
  BY ShellAssumption DEF OnScreen, IsText, Rows
<1> DEFINE t == Printed(blank, n, VGA_WIDTH)
<1>3. OnScreen(t)
  BY <1>2, PrintedOnScreen
<1>5. at = Kept(Prompted(t))
  BY <1>1
<1> HIDE DEF t
<1>4. OnScreen(at) /\ \A i \in 0 .. PROMPT_LENGTH - 2 : at.screen[at.y][i] = Mark
  BY <1>3, <1>5, NewPrompt
<1>6. cmd = <<>> /\ cursor_x = PROMPT_LENGTH
  BY DEF ShellInit
<1>7. cmd \in Seq(Characters) /\ Len(cmd) = 0
  BY <1>6
<1>8. Len(cmd) <= CmdMax /\ cursor_x = PROMPT_LENGTH + Len(cmd)
  BY <1>6, <1>7, Sizes
<1>9. \A i \in 1 .. Len(cmd) : at.screen[at.y][PROMPT_LENGTH + i - 1] = cmd[i]
  BY <1>7
<1> QED
  BY <1>4, <1>7, <1>8, <1>9 DEF Shown

LEMMA EnterShown == ASSUME Shown, Enter PROVE Shown'
<1>1. OnScreen(scrl(at))
  BY Scrolled DEF Shown, OnScreen, Rows
<1>2. PICK t \in Effects(scrl(at)) : at' = Kept(Prompted(t))
  BY DEF Enter
<1>3. OnScreen(t)
  BY <1>1, EffectOnScreen
<1>4. OnScreen(at') /\ \A i \in 0 .. PROMPT_LENGTH - 2 : at'.screen[at'.y][i] = Mark
  BY <1>2, <1>3, NewPrompt
<1> QED
  BY <1>4, Sizes DEF Enter, Shown

\* One character in the row of the cursor.
LEMMA Drawn1 ==
    ASSUME Shown, NEW c, NEW x \in Cols, at' = print(at, <<c>>, x, at.y)
    PROVE  /\ OnScreen(at') /\ at'.y = at.y
           /\ at'.screen[at'.y][x] = c
           /\ \A i \in Cols : i # x => at'.screen[at'.y][i] = at.screen[at.y][i]
<1>1. OnScreen(at) /\ x \in Int
  BY DEF Shown, Cols
<1>2. OnScreen(at') /\ at'.y = at.y
  BY <1>1, PrintIs DEF OnScreen
<1>3. ASSUME NEW i \in Cols
      PROVE  at'.screen[at.y][i] = IF i = x THEN c ELSE at.screen[at.y][i]
  <2>1. at'.screen[at.y][i]
          = IF i - x + 1 \in 1 .. Len(<<c>>) THEN <<c>>[i - x + 1] ELSE at.screen[at.y][i]
    BY <1>1, PrintRow
  <2>2. i \in Int /\ Len(<<c>>) = 1 /\ <<c>>[1] = c
    BY DEF Cols
  <2> QED
    BY <1>1, <2>1, <2>2
<1> QED
  BY <1>2, <1>3

LEMMA TypeShown == ASSUME Shown, NEW c \in Characters, Type(c) PROVE Shown'
<1>1. CASE ~Fits
  BY <1>1 DEF Type, shell, Shown
<1>2. CASE Fits
  <2>1. /\ cmd' = Append(cmd, c) /\ at' = print(at, <<c>>, cursor_x, at.y)
        /\ cursor_x' = cursor_x + 1 /\ Len(cmd) < CmdMax
    BY <1>2 DEF Type, Fits
  <2>2. /\ cmd' \in Seq(Characters) /\ Len(cmd') = Len(cmd) + 1
        /\ cmd'[Len(cmd) + 1] = c /\ \A i \in 1 .. Len(cmd) : cmd'[i] = cmd[i]
    BY <2>1 DEF Shown
  <2>3. cursor_x \in Cols /\ cursor_x = PROMPT_LENGTH + Len(cmd) /\ Len(cmd) \in Nat
    BY <2>1, Sizes DEF Shown, Cols
  <2>4. /\ OnScreen(at') /\ at'.screen[at'.y][cursor_x] = c
        /\ \A i \in Cols : i # cursor_x => at'.screen[at'.y][i] = at.screen[at.y][i]
    BY <2>1, <2>3, Drawn1
  <2>5. ASSUME NEW i \in 0 .. PROMPT_LENGTH - 2 PROVE at'.screen[at'.y][i] = Mark
    <3>1. i \in Cols /\ i # cursor_x
      BY <2>3, Sizes DEF Cols
    <3> QED
      BY <2>4, <3>1 DEF Shown
  <2>6. ASSUME NEW i \in 1 .. Len(cmd')
        PROVE  at'.screen[at'.y][PROMPT_LENGTH + i - 1] = cmd'[i]
    <3>1. CASE i = Len(cmd) + 1
      <4>1. PROMPT_LENGTH + i - 1 = cursor_x
        BY <2>3, <3>1, Sizes
      <4> QED
        BY <2>2, <2>4, <3>1, <4>1
    <3>2. CASE i # Len(cmd) + 1
      <4>1. i \in 1 .. Len(cmd)
        BY <2>2, <2>3, <3>2
      <4>2. PROMPT_LENGTH + i - 1 \in Cols /\ PROMPT_LENGTH + i - 1 # cursor_x
        BY <2>3, <4>1, Sizes DEF Cols
      <4> QED
        BY <2>2, <2>4, <4>1, <4>2 DEF Shown
    <3> QED
      BY <3>1, <3>2
  <2>7. Len(cmd') <= CmdMax /\ cursor_x' = PROMPT_LENGTH + Len(cmd')
    BY <2>1, <2>2, <2>3, Sizes
  <2> QED
    BY <2>2, <2>4, <2>5, <2>6, <2>7 DEF Shown
<1> QED
  BY <1>1, <1>2

LEMMA BackspaceShown == ASSUME Shown, Backspace PROVE Shown'
<1>1. CASE UNCHANGED shell
  BY <1>1 DEF shell, Shown
<1>2. CASE cursor_x > PROMPT_LENGTH /\ cmd # <<>>
  <2>1. /\ cmd' = SubSeq(cmd, 1, Len(cmd) - 1) /\ cursor_x' = cursor_x - 1
        /\ at' = print(at, <<Space>>, cursor_x - 1, at.y)
    BY <1>2 DEF Backspace
  <2>2. Len(cmd) \in Nat \ {0} /\ cursor_x = PROMPT_LENGTH + Len(cmd)
    BY <1>2 DEF Shown
  <2>3. /\ cmd' \in Seq(Characters) /\ Len(cmd') = Len(cmd) - 1
        /\ \A i \in 1 .. Len(cmd') : cmd'[i] = cmd[i]
    BY <2>1, <2>2 DEF Shown
  <2>4. cursor_x - 1 \in Cols
    BY <2>2, Sizes DEF Shown, Cols
  <2>5. /\ OnScreen(at')
        /\ \A i \in Cols : i # cursor_x - 1 => at'.screen[at'.y][i] = at.screen[at.y][i]
    BY <2>1, <2>4, Drawn1
  <2>6. ASSUME NEW i \in 0 .. PROMPT_LENGTH - 2 PROVE at'.screen[at'.y][i] = Mark
    <3>1. i \in Cols /\ i # cursor_x - 1
      BY <2>2, Sizes DEF Cols
    <3> QED
      BY <2>5, <3>1 DEF Shown
  <2>7. ASSUME NEW i \in 1 .. Len(cmd')
        PROVE  at'.screen[at'.y][PROMPT_LENGTH + i - 1] = cmd'[i]
    <3>1. i \in 1 .. Len(cmd)
      BY <2>2, <2>3
    <3>2. PROMPT_LENGTH + i - 1 \in Cols /\ PROMPT_LENGTH + i - 1 # cursor_x - 1
      BY <2>2, <2>3, Sizes DEF Shown, Cols
    <3> QED
      BY <2>3, <2>5, <3>1, <3>2 DEF Shown
  <2>8. Len(cmd') <= CmdMax /\ cursor_x' = PROMPT_LENGTH + Len(cmd')
    BY <2>1, <2>2, <2>3, Sizes DEF Shown
  <2> QED
    BY <2>3, <2>5, <2>6, <2>7, <2>8 DEF Shown
<1> QED
  BY <1>1, <1>2 DEF Backspace

LEMMA ShownStep == ASSUME Shown, layout \in Layouts, [Next]_vars PROVE Shown' /\ layout' \in Layouts
<1>1. CASE Turn
  <2>1. layout' \in Layouts
    BY <1>1 DEF Turn
  <2> DEFINE c == Returned(Head(port))
  <2>2. c \in Characters \cup {NoChar}
    <3>1. \A k \in Letters : {Plain[layout][k], Shifted[layout][k], AltGr[layout][k]} \subseteq Characters
      BY DEF Characters
    <3>2. \A k \in Letters : Character(k) \in Characters
      <4> TAKE k \in Letters
      <4>1. Character(k) \in {Plain[layout][k], Shifted[layout][k], AltGr[layout][k]}
        BY DEF Character
      <4> QED
        BY <3>1, <4>1
    <3>3. \/ c = "arrow" \/ c = NoChar
          \/ Head(port).key \in Letters /\ c = Character(Head(port).key)
      BY DEF Returned
    <3>4. "arrow" \in Characters
      BY DEF Characters
    <3> HIDE DEF c
    <3> QED
      BY <3>2, <3>3, <3>4
  <2>3. UNCHANGED shell \/ (c # NoChar /\ (Backspace \/ Enter \/ Type(c)))
    <3>1. UNCHANGED shell \/ (c # NoChar /\ HandleKey(c))
      BY <1>1 DEF Turn
    <3> HIDE DEF c
    <3> QED
      BY <3>1 DEF HandleKey
  <2> HIDE DEF c
  <2>4. CASE UNCHANGED shell
    BY <2>1, <2>4 DEF shell, Shown
  <2> QED
    BY <2>1, <2>2, <2>3, <2>4, BackspaceShown, EnterShown, TypeShown
<1>2. CASE UNCHANGED <<layout, shell>>
  BY <1>2 DEF shell, Shown
<1> QED
  BY <1>1, <1>2 DEF Next, Touch, vars, keyboard

\* For every screen, keyboard layout and length of a command: whatever was typed
\* and whatever the commands before did to the screen, the row of the cursor
\* shows the prompt and the command as it will be run, and all of it fits
\* (KernelEntryPoint, kernel.c:152-825; print and scroll_screen, vga.c).
THEOREM CommandIsShown == Spec => []LineIsShown
<1> DEFINE I == Shown /\ layout \in Layouts
<1>1. Init => I
  <2>1. Init => layout \in Layouts
    BY KeyboardAssumption DEF Init, KeyboardInit
  <2> QED
    BY <2>1, ShownInit
<1>2. I /\ [Next]_vars => I'
  BY ShownStep
<1> QED
  BY <1>1, <1>2, ShownIs, PTL DEF Spec

(***************************************************************************)
(* The bytes of a key that arrive.                                         *)
(***************************************************************************)
Bytes == [key : Keys \cup {"E0"}, up : BOOLEAN]

RestOf(f, bytes, kept, n) ==
    f = [i \in 0 .. n |->
            IF i = 0 THEN <<>>
            ELSE IF i \in kept THEN Append(f[i - 1], bytes[i]) ELSE f[i - 1]]

LEMMA RestExists ==
    ASSUME NEW bytes, NEW kept, NEW n \in Nat
    PROVE  \E f : RestOf(f, bytes, kept, n)
<1> DEFINE S == {k \in 0 .. n : \E f : RestOf(f, bytes, kept, k)}
           Next1(s, i) == IF i \in kept THEN Append(s, bytes[i]) ELSE s
<1>1. 0 \in S
  <2>1. RestOf([i \in 0 .. 0 |-> <<>>], bytes, kept, 0)
    BY DEF RestOf
  <2> QED
    BY <2>1
<1>2. ASSUME NEW k \in 1 .. n, k - 1 \in S PROVE k \in S
  <2>1. PICK f : RestOf(f, bytes, kept, k - 1)
    BY <1>2
  <2> DEFINE g == [i \in 0 .. k |-> IF i = k THEN Next1(f[k - 1], k) ELSE f[i]]
  <2>2. ASSUME NEW i \in 0 .. k PROVE g[i] = IF i = 0 THEN <<>> ELSE Next1(g[i - 1], i)
    <3>1. CASE i = k
      <4>1. g[i] = Next1(f[k - 1], i) /\ g[i - 1] = f[k - 1] /\ i # 0
        BY <3>1
      <4> HIDE DEF Next1
      <4> QED
        BY <4>1, Zenon
    <3>2. CASE i # k
      <4>1. g[i] = f[i] /\ i \in 0 .. k - 1 /\ (i # 0 => g[i - 1] = f[i - 1])
        BY <3>2
      <4>2. f[i] = IF i = 0 THEN <<>> ELSE Next1(f[i - 1], i)
        <5>1. f = [j \in 0 .. k - 1 |-> IF j = 0 THEN <<>> ELSE Next1(f[j - 1], j)]
          BY <2>1, Zenon DEF RestOf
        <5> HIDE DEF Next1
        <5> QED
          BY <4>1, <5>1, Zenon
      <4> HIDE DEF Next1
      <4> QED
        BY <4>1, <4>2, Zenon
    <3> QED
      BY <3>1, <3>2
  <2>3. RestOf(g, bytes, kept, k)
    <3>1. g = [i \in 0 .. k |-> g[i]]
      OBVIOUS
    <3> HIDE DEF g
    <3>2. [i \in 0 .. k |-> g[i]] = [i \in 0 .. k |-> IF i = 0 THEN <<>> ELSE Next1(g[i - 1], i)]
      <4> HIDE DEF Next1
      <4> QED
        BY <2>2, Zenon
    <3> QED
      BY <3>1, <3>2, Zenon DEF RestOf
  <2> QED
    BY <2>3
<1> HIDE DEF S
<1>3. n \in S
  BY <1>1, <1>2, Induction
<1> QED
  BY <1>3 DEF S

\* They are some of those that were sent, and all of them when none is lost.
LEMMA RestFacts ==
    ASSUME NEW S, NEW bytes \in Seq(S), NEW kept
    PROVE  /\ Rest(bytes, kept) \in Seq(S)
           /\ kept = 1 .. Len(bytes) => Rest(bytes, kept) = bytes
<1>1. PICK n \in Nat : n = Len(bytes)
  OBVIOUS
<1> DEFINE f == CHOOSE f : RestOf(f, bytes, kept, n)
<1>2. RestOf(f, bytes, kept, n)
  BY <1>1, RestExists, Zenon
<1>3. Rest(bytes, kept) = f[n]
  BY <1>1, Zenon DEF Rest, RestOf
<1> HIDE DEF f
<1>4. f[0] = <<>>
  BY <1>1, <1>2 DEF RestOf
<1>5. \A i \in 1 .. n : f[i] = IF i \in kept THEN Append(f[i - 1], bytes[i]) ELSE f[i - 1]
  <2> TAKE i \in 1 .. n
  <2>1. i \in 0 .. n /\ i # 0
    BY <1>1
  <2> QED
    BY <1>2, <2>1, Zenon DEF RestOf
<1>6. f[0] \in Seq(S) /\ Len(f[0]) = 0
  <2>1. <<>> \in Seq(S) /\ Len(<<>>) = 0
    OBVIOUS
  <2> QED
    BY <1>4, <2>1, Zenon
<1>7. f[n] \in Seq(S)
  <2> DEFINE T == {i \in 0 .. n : f[i] \in Seq(S)}
  <2>1. 0 \in T
    BY <1>1, <1>6
  <2>2. ASSUME NEW i \in 1 .. n, i - 1 \in T PROVE i \in T
    <3>1. bytes[i] \in S /\ f[i - 1] \in Seq(S)
      BY <1>1, <2>2
    <3>2. f[i] = Append(f[i - 1], bytes[i]) \/ f[i] = f[i - 1]
      BY <1>5
    <3>3. Append(f[i - 1], bytes[i]) \in Seq(S)
      BY <3>1, AppendProperties
    <3>4. f[i] \in Seq(S)
      BY <3>1, <3>2, <3>3
    <3> QED
      BY <3>4
  <2> HIDE DEF T
  <2>3. n \in T
    <3>1. \A i \in 1 .. n : i - 1 \in T => i \in T
      BY <2>2
    <3>2. 0 .. n \subseteq T
      BY <2>1, <3>1, Induction, Zenon
    <3> QED
      BY <3>2
  <2> QED
    BY <2>3 DEF T
<1>8. ASSUME kept = 1 .. n PROVE f[n] = bytes
  <2> DEFINE T == {i \in 0 .. n : f[i] \in Seq(S) /\ Len(f[i]) = i
                                  /\ \A j \in 1 .. i : f[i][j] = bytes[j]}
  <2>1. 0 \in T
    BY <1>1, <1>6
  <2>2. ASSUME NEW i \in 1 .. n, i - 1 \in T PROVE i \in T
    <3>1. f[i] = Append(f[i - 1], bytes[i])
      BY <1>5, <1>8
    <3>2. bytes[i] \in S /\ f[i - 1] \in Seq(S) /\ Len(f[i - 1]) = i - 1
          /\ \A j \in 1 .. i - 1 : f[i - 1][j] = bytes[j]
      BY <1>1, <2>2
    <3>3. f[i] \in Seq(S) /\ Len(f[i]) = i
      BY <3>1, <3>2
    <3>4. ASSUME NEW j \in 1 .. i PROVE f[i][j] = bytes[j]
      BY <3>1, <3>2
    <3> QED
      BY <3>3, <3>4
  <2> HIDE DEF T
  <2>3. n \in T
    <3>1. \A i \in 1 .. n : i - 1 \in T => i \in T
      BY <2>2
    <3>2. 0 .. n \subseteq T
      BY <2>1, <3>1, Induction, Zenon
    <3> QED
      BY <3>2
  <2>4. f[n] \in Seq(S) /\ Len(f[n]) = n /\ \A j \in 1 .. n : f[n][j] = bytes[j]
    BY <2>3 DEF T
  <2> QED
    BY <1>1, <2>4, SeqEqual
<1> QED
  BY <1>1, <1>3, <1>7, <1>8

(***************************************************************************)
(* What the bytes that still wait will do.  E0 in front of a byte, or as   *)
(* the last byte that was read, makes it an extended one.                  *)
(***************************************************************************)
Extended(i) == IF i = 1 THEN extended_scancode ELSE port[i - 1] = E0
IsShift(i)  == ~Extended(i) /\ port[i].key \in Shifts
IsAltGr(i)  == Extended(i) /\ port[i].key = "alt"
IsTyped(i)  == \/ Extended(i) /\ port[i] = Code("arrow", FALSE)
               \/ ~Extended(i) /\ port[i].key \in Letters /\ ~port[i].up
CharOf(byte)   == IF byte.key = "arrow" THEN "arrow" ELSE Character(byte.key)
Waiting     == 1 .. Len(port)

\* What a character does to a line.
Result(line, c) ==
    CASE c = "backspace" -> SubSeq(line, 1, Len(line) - 1)
      [] c = "enter" -> <<>>
      [] c = NoChar -> line
      [] OTHER -> IF Len(line) < CmdMax THEN Append(line, c) ELSE line

\* Each flag is right once the bytes that wait have been read, unless it is in
\* doubt, and so is the line.
ShiftRight ==
    "shift" \notin doubt =>
        \/ Len(port) = 1 /\ IsShift(1) /\ (port[1].up <=> ~shifting)
        \/ (\A i \in Waiting : ~IsShift(i)) /\ (shift_pressed <=> shifting)
AltGrRight ==
    "altgr" \notin doubt =>
        \/ /\ Len(port) > 0 /\ IsAltGr(Len(port))
           /\ (port[Len(port)].up <=> "altgr" \notin held)
        \/ (\A i \in Waiting : ~IsAltGr(i)) /\ (altgr_pressed <=> "altgr" \in held)
PrefixRight ==
    "prefix" \in doubt <=> IF Len(port) = 0 THEN extended_scancode ELSE port[Len(port)] = E0
LineRight ==
    sure =>
        \/ (\A i \in Waiting : ~IsTyped(i)) /\ cmd = meant
        \/ /\ Len(port) > 0 /\ IsTyped(Len(port))
           /\ \A i \in 1 .. Len(port) - 1 : ~IsTyped(i)
           /\ port[Len(port)].key \in Letters => Len(port) = 1
           /\ Result(cmd, CharOf(port[Len(port)])) = meant

KeysOK ==
    /\ port \in Seq(Bytes) /\ layout \in Layouts
    /\ shift_pressed \in BOOLEAN /\ altgr_pressed \in BOOLEAN /\ extended_scancode \in BOOLEAN
    /\ ShiftRight /\ AltGrRight /\ PrefixRight /\ LineRight

LEMMA KeysMeant == KeysOK => LineIsMeant
  BY DEF KeysOK, LineRight, LineIsMeant

LEMMA KeysInit == Init => KeysOK
<1> SUFFICES ASSUME Init PROVE KeysOK
  OBVIOUS
<1>1. port = <<>> /\ held = {} /\ shifting = FALSE /\ doubt = {} /\ cmd = meant /\ layout = "de"
      /\ shift_pressed = FALSE /\ altgr_pressed = FALSE /\ extended_scancode = FALSE
  BY DEF Init, KeyboardInit, ShellInit
<1>2. port \in Seq(Bytes) /\ Len(port) = 0
  BY <1>1
<1>3. Waiting = {} /\ layout \in Layouts
  BY <1>1, <1>2, KeyboardAssumption DEF Waiting
<1>4. ShiftRight /\ AltGrRight
  BY <1>1, <1>3 DEF ShiftRight, AltGrRight
<1>5. PrefixRight /\ LineRight
  BY <1>1, <1>2, <1>3 DEF PrefixRight, LineRight
<1> QED
  BY <1>1, <1>2, <1>3, <1>4, <1>5 DEF KeysOK

(***************************************************************************)
(* A byte is read.                                                         *)
(***************************************************************************)
LEMMA HandleIs == ASSUME Shown, NEW c, c # NoChar, HandleKey(c) PROVE cmd' = Result(cmd, c)
<1>1. CASE c = "backspace"
  <2>1. Backspace
    BY <1>1 DEF HandleKey
  <2>2. CASE cmd = <<>>
    <3>1. UNCHANGED cmd
      BY <2>1, <2>2 DEF Backspace, shell
    <3>2. SubSeq(<<>>, 1, Len(<<>>) - 1) = <<>>
      OBVIOUS
    <3> QED
      BY <1>1, <2>2, <3>1, <3>2 DEF Result
  <2>3. CASE cmd # <<>>
    <3>1. cursor_x > PROMPT_LENGTH
      BY <2>3, Sizes DEF Shown
    <3> QED
      BY <1>1, <2>1, <2>3, <3>1 DEF Backspace, Result
  <2> QED
    BY <2>2, <2>3
<1>2. CASE c = "enter"
  BY <1>2 DEF HandleKey, Enter, Result
<1>3. CASE c # "backspace" /\ c # "enter"
  BY <1>3 DEF HandleKey, Type, Fits, Result, shell
<1> QED
  BY <1>1, <1>2, <1>3

LEMMA ByteFacts ==
    ASSUME KeysOK, keyboard_getchar
    PROVE  /\ Len(port) \in Nat \ {0} /\ Head(port) = port[1] /\ port[1] \in Bytes
           /\ port' = Tail(port) /\ port' \in Seq(Bytes) /\ Len(port') = Len(port) - 1
           /\ \A i \in Waiting' :
                 /\ port'[i] = port[i + 1] /\ (Extended(i)' <=> Extended(i + 1))
                 /\ i + 1 \in Waiting /\ i + 1 # 1
<1>1. port \in Seq(Bytes) /\ port # <<>> /\ port' = Tail(port)
      /\ (extended_scancode' <=> Head(port) = E0)
  BY DEF KeysOK, keyboard_getchar
<1>2. Len(port) \in Nat \ {0} /\ Head(port) = port[1] /\ port[1] \in Bytes
  BY <1>1
<1>3. port' \in Seq(Bytes) /\ Len(port') = Len(port) - 1
      /\ \A i \in 1 .. Len(port) - 1 : port'[i] = port[i + 1]
  BY <1>1, <1>2
<1>4. ASSUME NEW i \in Waiting' PROVE Extended(i)' <=> Extended(i + 1)
  <2>1. i \in 1 .. Len(port) - 1 /\ i + 1 # 1 /\ (i + 1) - 1 = i
    BY <1>2, <1>3 DEF Waiting
  <2>2. CASE i = 1
    BY <1>1, <1>2, <2>1, <2>2 DEF Extended
  <2>3. CASE i # 1
    <3>1. i - 1 \in 1 .. Len(port) - 1 /\ (i - 1) + 1 = i
      BY <2>1, <2>3
    <3>2. port'[i - 1] = port[i]
      BY <1>3, <3>1
    <3> QED
      BY <2>1, <2>3, <3>2 DEF Extended
  <2> QED
    BY <2>2, <2>3
<1>5. ASSUME NEW i \in Waiting' PROVE port'[i] = port[i + 1] /\ i + 1 \in Waiting /\ i + 1 # 1
  BY <1>2, <1>3 DEF Waiting
<1> QED
  BY <1>1, <1>2, <1>3, <1>4, <1>5

LEMMA TurnKeys == ASSUME KeysOK, Shown, Turn PROVE KeysOK'
<1> DEFINE n == Len(port)
           c == Returned(Head(port))
<1>1. keyboard_getchar
  BY DEF Turn
<1>2. /\ n \in Nat \ {0} /\ Head(port) = port[1] /\ port[1] \in Bytes
      /\ port' \in Seq(Bytes) /\ Len(port') = n - 1
      /\ \A i \in Waiting' :
            /\ port'[i] = port[i + 1] /\ (Extended(i)' <=> Extended(i + 1))
            /\ i + 1 \in Waiting /\ i + 1 # 1
  BY <1>1, ByteFacts
<1>3. /\ UNCHANGED <<meant, sure, doubt, held, shifting>> /\ layout' \in Layouts
      /\ (extended_scancode' <=> port[1] = E0) /\ extended_scancode' \in BOOLEAN
      /\ shift_pressed' = ShiftAfter(port[1])
      /\ altgr_pressed' = IF extended_scancode /\ port[1].key = "alt"
                          THEN ~port[1].up ELSE altgr_pressed
      /\ (IF c = NoChar THEN UNCHANGED shell ELSE HandleKey(c))
      /\ (c = "enter" \/ UNCHANGED layout)
  BY <1>1, <1>2 DEF Turn, keyboard_getchar, KeysOK
<1>4. /\ shift_pressed' \in BOOLEAN /\ altgr_pressed' \in BOOLEAN
      /\ (shift_pressed' <=> IF IsShift(1) THEN ~port[1].up ELSE shift_pressed)
      /\ (altgr_pressed' <=> IF IsAltGr(1) THEN ~port[1].up ELSE altgr_pressed)
  BY <1>2, <1>3 DEF KeysOK, Bytes, ShiftAfter, IsShift, IsAltGr, Extended
<1>5. \A i \in Waiting' :
         /\ IsShift(i)' <=> IsShift(i + 1)
         /\ IsAltGr(i)' <=> IsAltGr(i + 1)
         /\ IsTyped(i)' <=> IsTyped(i + 1)
  BY <1>2 DEF IsShift, IsAltGr, IsTyped
<1>6. Len(port') = 0 \/ (Len(port') \in Waiting' /\ Len(port') + 1 = n)
  BY <1>2 DEF Waiting
<1>7. ShiftRight'
  <2>1. ASSUME "shift" \notin doubt, n = 1, IsShift(1), port[1].up <=> ~shifting
        PROVE  ShiftRight'
    BY <2>1, <1>2, <1>3, <1>4 DEF ShiftRight, Waiting
  <2>2. ASSUME "shift" \notin doubt, \A i \in Waiting : ~IsShift(i),
               shift_pressed <=> shifting
        PROVE  ShiftRight'
    <3>1. ~IsShift(1)
      BY <1>2, <2>2 DEF Waiting
    <3> QED
      BY <1>2, <1>3, <1>4, <1>5, <2>2, <3>1 DEF ShiftRight
  <2> QED
    BY <1>3, <2>1, <2>2 DEF KeysOK, ShiftRight
<1>8. AltGrRight'
  <2>1. ASSUME "altgr" \notin doubt, IsAltGr(n), port[n].up <=> "altgr" \notin held
        PROVE  AltGrRight'
    <3>1. CASE n = 1
      BY <1>2, <1>3, <1>4, <2>1, <3>1 DEF AltGrRight, Waiting
    <3>2. CASE n # 1
      <4>1. Len(port') \in Waiting' /\ Len(port') + 1 = n /\ Len(port') > 0
        BY <1>2, <1>6, <3>2
      <4>2. IsAltGr(Len(port))' /\ port'[Len(port')] = port[n]
        BY <1>2, <1>5, <2>1, <4>1
      <4> QED
        BY <1>3, <2>1, <4>1, <4>2 DEF AltGrRight
    <3> QED
      BY <3>1, <3>2
  <2>2. ASSUME "altgr" \notin doubt, \A i \in Waiting : ~IsAltGr(i),
               altgr_pressed <=> "altgr" \in held
        PROVE  AltGrRight'
    <3>1. ~IsAltGr(1)
      BY <1>2, <2>2 DEF Waiting
    <3> QED
      BY <1>2, <1>3, <1>4, <1>5, <2>2, <3>1 DEF AltGrRight
  <2> QED
    BY <1>3, <2>1, <2>2 DEF KeysOK, AltGrRight
<1>9. PrefixRight'
  <2>1. "prefix" \in doubt' <=> port[n] = E0
    BY <1>2, <1>3 DEF KeysOK, PrefixRight
  <2>2. CASE n = 1
    BY <1>2, <1>3, <2>1, <2>2 DEF PrefixRight
  <2>3. CASE n # 1
    <3>1. Len(port') # 0 /\ port'[Len(port')] = port[n]
      BY <1>2, <1>6, <2>3
    <3> QED
      BY <2>1, <3>1 DEF PrefixRight
  <2> QED
    BY <2>2, <2>3
<1>10. LineRight'
  <2>1. ASSUME ~IsTyped(1) PROVE UNCHANGED shell /\ c = NoChar /\ UNCHANGED layout
    <3>1. c = NoChar
      BY <1>2, <2>1 DEF Returned, IsTyped, Extended
    <3> QED
      BY <1>3, <3>1, KeyboardAssumption
  <2>2. ASSUME sure, \A i \in Waiting : ~IsTyped(i), cmd = meant PROVE LineRight'
    <3>1. ~IsTyped(1)
      BY <1>2, <2>2 DEF Waiting
    <3>2. cmd' = meant'
      BY <1>3, <2>1, <2>2, <3>1 DEF shell
    <3> QED
      BY <1>2, <1>5, <2>2, <3>2 DEF LineRight
  <2>3. ASSUME sure, IsTyped(n), \A i \in 1 .. n - 1 : ~IsTyped(i),
               port[n].key \in Letters => n = 1, Result(cmd, CharOf(port[n])) = meant
        PROVE  LineRight'
    <3>1. CASE n = 1
      <4>1. c = CharOf(port[1])
        <5>1. CASE extended_scancode /\ port[1] = Code("arrow", FALSE)
          BY <1>2, <5>1 DEF Returned, CharOf, Code
        <5>2. CASE ~extended_scancode /\ port[1].key \in Letters /\ ~port[1].up
          BY <1>2, <5>2, KeyboardAssumption DEF Returned, CharOf
        <5> QED
          BY <2>3, <3>1, <5>1, <5>2 DEF IsTyped, Extended
      <4>2. cmd' = Result(cmd, c)
        <5>1. CASE c = NoChar
          BY <1>3, <5>1, KeyboardAssumption DEF shell, Result
        <5>2. CASE c # NoChar
          <6>1. HandleKey(c)
            BY <1>3, <5>2
          <6> HIDE DEF c
          <6> QED
            BY <5>2, <6>1, HandleIs
        <5> QED
          BY <5>1, <5>2
      <4>3. cmd' = meant'
        BY <1>3, <2>3, <3>1, <4>1, <4>2
      <4>4. Waiting' = {}
        BY <1>2, <3>1 DEF Waiting
      <4> QED
        BY <4>3, <4>4 DEF LineRight
    <3>2. CASE n # 1
      <4>1. Len(port') \in Waiting' /\ Len(port') + 1 = n /\ Len(port') > 0
        BY <1>2, <1>6, <3>2
      <4>2. ~IsTyped(1)
        BY <1>2, <2>3, <3>2
      <4>3. cmd' = cmd /\ meant' = meant
        BY <1>3, <2>1, <4>2 DEF shell
      <4>4. IsTyped(Len(port))' /\ port'[Len(port')] = port[n]
        BY <1>2, <1>5, <2>3, <4>1
      <4>5. port[n].key = "arrow" /\ port[n].key \notin Letters
        BY <2>3, <3>2 DEF IsTyped, Code
      <4>6. \A i \in 1 .. Len(port') - 1 : ~IsTyped(i)'
        <5> TAKE i \in 1 .. Len(port') - 1
        <5>1. i \in Waiting' /\ i + 1 \in 1 .. n - 1
          BY <1>2, <4>1 DEF Waiting
        <5> QED
          BY <1>5, <2>3, <5>1
      <4>7. Result(cmd, "arrow") = meant
        BY <2>3, <4>5 DEF CharOf
      <4>8. Result(cmd, CharOf(port[Len(port)]))' = meant'
        <5>1. CharOf(port[Len(port)])' = "arrow"
          BY <4>4, <4>5 DEF CharOf
        <5>2. Result(cmd, CharOf(port[Len(port)]))' = Result(cmd', CharOf(port[Len(port)])')
          BY DEF Result
        <5> QED
          BY <4>3, <4>7, <5>1, <5>2
      <4> QED
        BY <4>1, <4>4, <4>5, <4>6, <4>8 DEF LineRight
    <3> QED
      BY <3>1, <3>2
  <2> QED
    BY <1>3, <2>2, <2>3 DEF KeysOK, LineRight
<1> QED
  BY <1>2, <1>3, <1>4, <1>7, <1>8, <1>9, <1>10 DEF KeysOK

(***************************************************************************)
(* A key is pressed or let go.                                             *)
(***************************************************************************)
\* What Touch does: whole is true when all of it arrives and is understood.
Touches(k, up, bytes, whole) ==
    /\ bytes \in Sent(k, up)
    /\ port' \in Seq({bytes[i] : i \in 1 .. Len(bytes)})
    /\ whole => port' = bytes /\ "prefix" \notin doubt
    /\ doubt' = DoubtAfter(k, whole, port')
    /\ CASE k \in Letters \cup {"arrow"} /\ ~up -> Aims(k, Means(k), whole)
         [] k = "arrow" /\ up /\ ~whole -> sure' = FALSE /\ meant' = <<>>
         [] OTHER -> UNCHANGED <<meant, sure>>
    /\ shifting' = IF k \in Shifts THEN ~up ELSE shifting
    /\ held' = IF k \notin Modifiers THEN held ELSE IF up THEN held \ {k} ELSE held \cup {k}
    /\ UNCHANGED <<layout, flags, shell>>

\* The bytes of every key.
LEMMA SentIs ==
    ASSUME NEW k \in Keys, NEW up \in BOOLEAN, NEW bytes \in Sent(k, up)
    PROVE  /\ bytes \in Seq(Bytes)
           /\ k \notin {"altgr", "arrow"} => bytes = <<Code(k, up)>>
           /\ k = "altgr" => bytes = <<E0, Code("alt", up)>>
           /\ k = "arrow" => \E f \in BOOLEAN :
                 \/ bytes = <<E0, Code("arrow", up)>>
                 \/ up /\ bytes = <<E0, Code("arrow", TRUE), E0, Code("LEFT_SHIFT", f)>>
                 \/ ~up /\ bytes = <<E0, Code("LEFT_SHIFT", f), E0, Code("arrow", FALSE)>>
<1>1. E0 \in Bytes /\ Code(k, up) \in Bytes /\ Code("alt", up) \in Bytes
      /\ \A f \in BOOLEAN : Code("LEFT_SHIFT", f) \in Bytes
  BY DEF E0, Code, Bytes, Keys, Modifiers, Shifts
<1>2. CASE k \notin {"altgr", "arrow"}
  <2>1. bytes = <<Code(k, up)>>
    BY <1>2 DEF Sent
  <2> QED
    BY <1>1, <1>2, <2>1
<1>3. CASE k = "altgr"
  <2>1. bytes = <<E0, Code("alt", up)>>
    BY <1>3 DEF Sent
  <2> QED
    BY <1>1, <1>3, <2>1
<1>4. CASE k = "arrow"
  <2> DEFINE f == up # (held \cap Shifts # {})
             a == Code("arrow", up)
             s == Code("LEFT_SHIFT", f)
  <2>1. bytes \in {<<E0, a>>, IF up THEN <<E0, a>> \o <<E0, s>> ELSE <<E0, s>> \o <<E0, a>>}
    BY <1>4 DEF Sent
  <2>2. f \in BOOLEAN
    OBVIOUS
  <2>3. a \in Bytes /\ s \in Bytes
    BY <1>1, <1>4, <2>2
  <2> HIDE DEF f
  <2>4. ASSUME NEW p \in Bytes, NEW q \in Bytes
        PROVE  /\ <<E0, p>> \o <<E0, q>> = <<E0, p, E0, q>>
               /\ <<E0, p, E0, q>> \in Seq(Bytes) /\ <<E0, p>> \in Seq(Bytes)
    <3>1. PICK e : e = E0 /\ e \in Bytes
      BY <1>1
    <3>2. PICK u, v, w : u = <<e, p>> /\ v = <<e, q>> /\ w = <<e, p, e, q>>
      OBVIOUS
    <3>3. /\ u \in Seq(Bytes) /\ Len(u) = 2 /\ u[1] = e /\ u[2] = p
          /\ v \in Seq(Bytes) /\ Len(v) = 2 /\ v[1] = e /\ v[2] = q
      BY <3>1, <3>2
    <3>4. w \in Seq(Bytes) /\ Len(w) = 4 /\ w[1] = e /\ w[2] = p /\ w[3] = e /\ w[4] = q
      BY <3>1, <3>2
    <3>5. u \o v \in Seq(Bytes) /\ Len(u \o v) = 4
          /\ (u \o v)[1] = e /\ (u \o v)[2] = p /\ (u \o v)[3] = e /\ (u \o v)[4] = q
      BY <3>3, ConcatProperties
    <3>6. u \o v = w
      <4>1. ASSUME NEW i \in 1 .. 4 PROVE (u \o v)[i] = w[i]
        <5>1. i = 1 \/ i = 2 \/ i = 3 \/ i = 4
          OBVIOUS
        <5> QED
          BY <3>4, <3>5, <5>1
      <4> DEFINE x == u \o v
      <4>2. x \in Seq(Bytes) /\ Len(x) = 4 /\ \A i \in 1 .. 4 : x[i] = w[i]
        BY <3>5, <4>1
      <4> HIDE DEF x
      <4>3. x = w
        BY <3>4, <4>2, SeqEqual
      <4> QED
        BY <4>3 DEF x
    <3> QED
      BY <3>1, <3>2, <3>3, <3>4, <3>6, Zenon
  <2>5. \/ bytes = <<E0, a>>
        \/ up /\ bytes = <<E0, a, E0, s>>
        \/ ~up /\ bytes = <<E0, s, E0, a>>
    BY <2>1, <2>3, <2>4
  <2>6. bytes \in Seq(Bytes)
    BY <2>3, <2>4, <2>5
  <2> QED
    BY <1>4, <2>2, <2>5, <2>6
<1> QED
  BY <1>2, <1>3, <1>4

LEMMA ArrowIs ==
    ASSUME NEW up \in BOOLEAN, NEW bytes \in Sent("arrow", up)
    PROVE  \E f \in BOOLEAN :
              \/ bytes = <<E0, Code("arrow", up)>>
              \/ up /\ bytes = <<E0, Code("arrow", TRUE), E0, Code("LEFT_SHIFT", f)>>
              \/ ~up /\ bytes = <<E0, Code("LEFT_SHIFT", f), E0, Code("arrow", FALSE)>>
<1>1. PICK k \in Keys : k = "arrow"
  BY DEF Keys
<1>2. bytes \in Sent(k, up)
  BY <1>1
<1>3. k = "arrow" => \E f \in BOOLEAN :
                 \/ bytes = <<E0, Code("arrow", up)>>
                 \/ up /\ bytes = <<E0, Code("arrow", TRUE), E0, Code("LEFT_SHIFT", f)>>
                 \/ ~up /\ bytes = <<E0, Code("LEFT_SHIFT", f), E0, Code("arrow", FALSE)>>
  BY <1>2, SentIs, Zenon
<1> QED
  BY <1>1, <1>3, Zenon

\* The same, byte by byte.
LEMMA ArrowBytes ==
    ASSUME NEW up \in BOOLEAN, NEW bytes \in Sent("arrow", up)
    PROVE  \E f \in BOOLEAN :
              \/ Len(bytes) = 2 /\ bytes[1] = E0 /\ bytes[2] = Code("arrow", up)
              \/ /\ Len(bytes) = 4 /\ bytes[1] = E0 /\ bytes[3] = E0 /\ up
                 /\ bytes[2] = Code("arrow", TRUE) /\ bytes[4] = Code("LEFT_SHIFT", f)
              \/ /\ Len(bytes) = 4 /\ bytes[1] = E0 /\ bytes[3] = E0 /\ ~up
                 /\ bytes[2] = Code("LEFT_SHIFT", f) /\ bytes[4] = Code("arrow", FALSE)
<1>1. PICK f \in BOOLEAN :
          \/ bytes = <<E0, Code("arrow", up)>>
          \/ up /\ bytes = <<E0, Code("arrow", TRUE), E0, Code("LEFT_SHIFT", f)>>
          \/ ~up /\ bytes = <<E0, Code("LEFT_SHIFT", f), E0, Code("arrow", FALSE)>>
  BY ArrowIs, Zenon
<1>2. CASE bytes = <<E0, Code("arrow", up)>>
  <2>1. Len(bytes) = 2 /\ bytes[1] = E0 /\ bytes[2] = Code("arrow", up)
    BY <1>2
  <2> QED
    BY <2>1
<1>3. CASE up /\ bytes = <<E0, Code("arrow", TRUE), E0, Code("LEFT_SHIFT", f)>>
  <2>1. /\ Len(bytes) = 4 /\ bytes[1] = E0 /\ bytes[3] = E0 /\ up
        /\ bytes[2] = Code("arrow", TRUE) /\ bytes[4] = Code("LEFT_SHIFT", f)
    BY <1>3
  <2> QED
    BY <2>1
<1>4. CASE ~up /\ bytes = <<E0, Code("LEFT_SHIFT", f), E0, Code("arrow", FALSE)>>
  <2>1. /\ Len(bytes) = 4 /\ bytes[1] = E0 /\ bytes[3] = E0 /\ ~up
        /\ bytes[2] = Code("LEFT_SHIFT", f) /\ bytes[4] = Code("arrow", FALSE)
    BY <1>4
  <2> QED
    BY <2>1
<1> QED
  BY <1>1, <1>2, <1>3, <1>4

\* What most of the proofs need of it.
LEMMA ArrowShape ==
    ASSUME NEW up \in BOOLEAN, NEW bytes \in Sent("arrow", up)
    PROVE  /\ Len(bytes) = 2 \/ Len(bytes) = 4
           /\ bytes[1] = E0 /\ (Len(bytes) = 4 => bytes[3] = E0)
           /\ bytes[2].key \in {"arrow", "LEFT_SHIFT"}
           /\ Len(bytes) = 4 => bytes[4].key \in {"arrow", "LEFT_SHIFT"}
<1> DEFINE A(f) == Len(bytes) = 2 /\ bytes[1] = E0 /\ bytes[2] = Code("arrow", up)
           B(f) == /\ Len(bytes) = 4 /\ bytes[1] = E0 /\ bytes[3] = E0 /\ up
                   /\ bytes[2] = Code("arrow", TRUE) /\ bytes[4] = Code("LEFT_SHIFT", f)
           C(f) == /\ Len(bytes) = 4 /\ bytes[1] = E0 /\ bytes[3] = E0 /\ ~up
                   /\ bytes[2] = Code("LEFT_SHIFT", f) /\ bytes[4] = Code("arrow", FALSE)
<1>1. PICK f \in BOOLEAN : A(f) \/ B(f) \/ C(f)
  BY ArrowBytes, Zenon
<1>2. CASE A(f)
  BY <1>2 DEF Code
<1>3. CASE B(f)
  BY <1>3 DEF Code
<1>4. CASE C(f)
  BY <1>4 DEF Code
<1> HIDE DEF A, B, C
<1> QED
  BY <1>1, <1>2, <1>3, <1>4

LEMMA TouchIs ==
    ASSUME NEW k \in Keys, NEW up \in BOOLEAN, Touch(k, up)
    PROVE  \E bytes, whole : whole \in BOOLEAN /\ Touches(k, up, bytes, whole)
<1>1. PICK bytes \in Sent(k, up), kept \in SUBSET (1 .. 4) :
          LET all   == kept = 1 .. Len(bytes)
              whole == all /\ "prefix" \notin doubt
          IN  /\ port' = Rest(bytes, kept)
              /\ doubt' = DoubtAfter(k, whole, port')
              /\ CASE k \in Letters \cup {"arrow"} /\ ~up -> Aims(k, Means(k), whole)
                   [] k = "arrow" /\ up /\ ~whole -> sure' = FALSE /\ meant' = <<>>
                   [] OTHER -> UNCHANGED <<meant, sure>>
  BY Zenon DEF Touch
<1> DEFINE whole == kept = 1 .. Len(bytes) /\ "prefix" \notin doubt
           S == {bytes[i] : i \in 1 .. Len(bytes)}
<1>2. bytes \in Seq(S)
  <2>1. bytes \in Seq(Bytes)
    BY SentIs
  <2> QED
    BY <2>1, SeqDef
<1>3. port' \in Seq(S) /\ (whole => port' = bytes)
  BY <1>1, <1>2, RestFacts
<1>4. whole => "prefix" \notin doubt
  OBVIOUS
<1>5. whole \in BOOLEAN
  OBVIOUS
<1>6. /\ doubt' = DoubtAfter(k, whole, port')
      /\ CASE k \in Letters \cup {"arrow"} /\ ~up -> Aims(k, Means(k), whole)
           [] k = "arrow" /\ up /\ ~whole -> sure' = FALSE /\ meant' = <<>>
           [] OTHER -> UNCHANGED <<meant, sure>>
  BY <1>1
<1> HIDE DEF whole
<1>7. /\ shifting' = IF k \in Shifts THEN ~up ELSE shifting
      /\ held' = IF k \notin Modifiers THEN held ELSE IF up THEN held \ {k} ELSE held \cup {k}
      /\ UNCHANGED <<layout, flags, shell>>
  BY DEF Touch
<1>8. Touches(k, up, bytes, whole)
  BY <1>3, <1>4, <1>6, <1>7 DEF Touches
<1> QED
  BY <1>5, <1>8

LEMMA NotTyped ==
    \A k \in Letters : k \notin Shifts /\ k \notin {"E0", "alt", "altgr", "arrow"}
  BY KeyboardAssumption DEF Modifiers

LEMMA TouchShift ==
    ASSUME KeysOK, port = <<>>, NEW k \in Keys, NEW up \in BOOLEAN,
           NEW bytes, NEW whole \in BOOLEAN, Touches(k, up, bytes, whole)
    PROVE  ShiftRight'
<1> SUFFICES ASSUME "shift" \notin doubt' PROVE ShiftRight'
  BY DEF ShiftRight
<1>1. /\ ~(k \in Shifts \cup {"arrow"} /\ ~whole)
      /\ ~(k \notin Shifts /\ "shift" \in doubt)
  BY DEF Touches, DoubtAfter
<1>2. UNCHANGED <<shift_pressed, extended_scancode>>
      /\ shifting' = IF k \in Shifts THEN ~up ELSE shifting
  BY DEF Touches, flags
<1>3. port' \in Seq({bytes[i] : i \in 1 .. Len(bytes)})
      /\ (whole => port' = bytes /\ "prefix" \notin doubt) /\ bytes \in Sent(k, up)
  BY DEF Touches
<1>4. "prefix" \notin doubt => ~extended_scancode
  BY DEF KeysOK, PrefixRight
<1>5. "shift" \notin doubt => (shift_pressed <=> shifting)
  BY DEF KeysOK, ShiftRight
<1>6. CASE k \in Shifts
  <2>1. whole /\ port' = <<Code(k, up)>> /\ ~extended_scancode
    <3>1. k \notin {"altgr", "arrow"}
      BY <1>6 DEF Shifts
    <3> QED
      BY <1>1, <1>3, <1>4, <1>6, <3>1, SentIs
  <2>2. Len(port') = 1 /\ port'[1] = Code(k, up)
    BY <2>1
  <2>3. IsShift(1)'
    BY <1>2, <1>6, <2>1, <2>2 DEF IsShift, Extended, Code
  <2>4. up <=> ~shifting'
    BY <1>2, <1>6
  <2> QED
    BY <2>2, <2>3, <2>4 DEF ShiftRight, Code
<1>7. CASE k \notin Shifts
  <2>1. shifting' = shifting
    BY <1>2, <1>7
  <2>2. \A i \in Waiting' : ~IsShift(i)'
    <3>1. CASE k = "arrow"
      <4>1. port' = bytes /\ ~extended_scancode'
        BY <1>1, <1>2, <1>3, <1>4, <3>1
      <4>2. /\ Len(bytes) = 2 \/ Len(bytes) = 4
            /\ bytes[1] = E0 /\ (Len(bytes) = 4 => bytes[3] = E0)
        <5>1. bytes \in Sent("arrow", up)
          BY <1>3, <3>1
        <5> QED
          BY <5>1, ArrowShape
      <4>3. E0.key \notin Shifts /\ \A u \in BOOLEAN : Code("arrow", u).key \notin Shifts
        BY DEF E0, Code, Shifts
      <4> TAKE i \in Waiting'
      <4>4. /\ Len(port') = 2 \/ Len(port') = 4
            /\ port'[1] = E0 /\ (Len(port') = 4 => port'[3] = E0)
        BY <4>1, <4>2, Zenon
      <4>5. i = 1 \/ i = 2 \/ (Len(port') = 4 /\ (i = 3 \/ i = 4))
        <5>1. i \in 1 .. Len(port')
          BY DEF Waiting
        <5>2. CASE Len(port') = 2
          BY <5>1, <5>2
        <5>3. CASE Len(port') = 4
          BY <5>1, <5>3
        <5> QED
          BY <4>4, <5>2, <5>3
      <4> QED
        BY <4>3, <4>4, <4>5 DEF IsShift, Extended
    <3>2. CASE k # "arrow"
      <4>1. bytes = <<Code(k, up)>> \/ bytes = <<E0, Code("alt", up)>>
        BY <1>3, <3>2, SentIs
      <4>2. E0.key \notin Shifts /\ Code(k, up).key \notin Shifts /\ Code("alt", up).key \notin Shifts
        BY <1>7 DEF E0, Code, Shifts
      <4>3. \A i \in 1 .. Len(bytes) : bytes[i].key \notin Shifts
        BY <4>1, <4>2
      <4>4. \A i \in Waiting' : port'[i].key \notin Shifts
        BY <1>3, <4>3 DEF Waiting
      <4> QED
        BY <4>4 DEF IsShift
    <3> QED
      BY <3>1, <3>2
  <2> QED
    BY <1>1, <1>2, <1>5, <1>7, <2>1, <2>2 DEF ShiftRight
<1> QED
  BY <1>6, <1>7

LEMMA TouchAltGr ==
    ASSUME KeysOK, port = <<>>, NEW k \in Keys, NEW up \in BOOLEAN,
           NEW bytes, NEW whole \in BOOLEAN, Touches(k, up, bytes, whole)
    PROVE  AltGrRight'
<1> SUFFICES ASSUME "altgr" \notin doubt' PROVE AltGrRight'
  BY DEF AltGrRight
<1>1. /\ ~(k \in {"altgr", "alt"} /\ ~whole)
      /\ ~(k # "altgr" /\ "altgr" \in doubt)
  BY DEF Touches, DoubtAfter
<1>2. UNCHANGED <<altgr_pressed, extended_scancode>>
      /\ held' = IF k \notin Modifiers THEN held ELSE IF up THEN held \ {k} ELSE held \cup {k}
  BY DEF Touches, flags
<1>3. port' \in Seq({bytes[i] : i \in 1 .. Len(bytes)})
      /\ (whole => port' = bytes /\ "prefix" \notin doubt) /\ bytes \in Sent(k, up)
  BY DEF Touches
<1>4. "prefix" \notin doubt => ~extended_scancode
  BY DEF KeysOK, PrefixRight
<1>5. "altgr" \notin doubt => (altgr_pressed <=> "altgr" \in held)
  BY DEF KeysOK, AltGrRight
<1>6. CASE k = "altgr"
  <2>1. whole /\ port' = <<E0, Code("alt", up)>>
    BY <1>1, <1>3, <1>6, SentIs
  <2>2. Len(port') = 2 /\ port'[1] = E0 /\ port'[2] = Code("alt", up)
    BY <2>1
  <2>3. IsAltGr(Len(port))' /\ (port'[Len(port')].up <=> up)
    BY <2>2 DEF IsAltGr, Extended, Code
  <2>4. up <=> "altgr" \notin held'
    BY <1>2, <1>6 DEF Modifiers
  <2> QED
    BY <2>2, <2>3, <2>4 DEF AltGrRight
<1>7. CASE k # "altgr"
  <2>1. "altgr" \in held' <=> "altgr" \in held
    BY <1>2, <1>7
  <2>2. \A i \in Waiting' : ~IsAltGr(i)'
    <3>1. CASE k = "alt"
      <4>1. port' = <<Code(k, up)>> /\ ~extended_scancode'
        BY <1>1, <1>2, <1>3, <1>4, <3>1, SentIs
      <4>2. Len(port') = 1
        BY <4>1
      <4> QED
        BY <4>1, <4>2 DEF IsAltGr, Extended, Waiting
    <3>2. CASE k # "alt"
      <4>1. \A i \in 1 .. Len(bytes) : bytes[i].key # "alt"
        <5>1. E0.key # "alt" /\ Code(k, up).key # "alt"
              /\ \A u \in BOOLEAN : Code("arrow", u).key # "alt" /\ Code("LEFT_SHIFT", u).key # "alt"
          BY <3>2 DEF E0, Code
        <5>2. CASE k = "arrow"
          <6>1. /\ Len(bytes) = 2 \/ Len(bytes) = 4
                /\ bytes[1] = E0 /\ (Len(bytes) = 4 => bytes[3] = E0)
                /\ bytes[2].key \in {"arrow", "LEFT_SHIFT"}
                /\ Len(bytes) = 4 => bytes[4].key \in {"arrow", "LEFT_SHIFT"}
            <7>1. bytes \in Sent("arrow", up)
              BY <1>3, <5>2
            <7> QED
              BY <7>1, ArrowShape
          <6> TAKE i \in 1 .. Len(bytes)
          <6>2. i = 1 \/ i = 2 \/ (Len(bytes) = 4 /\ (i = 3 \/ i = 4))
            <7>1. CASE Len(bytes) = 2
              BY <7>1
            <7>2. CASE Len(bytes) = 4
              BY <7>2
            <7> QED
              BY <6>1, <7>1, <7>2
          <6> QED
            BY <5>1, <6>1, <6>2
        <5>3. CASE k # "arrow"
          <6>1. bytes = <<Code(k, up)>>
            BY <1>3, <1>7, <5>3, SentIs
          <6> QED
            BY <5>1, <6>1
        <5> QED
          BY <5>2, <5>3
      <4>2. \A i \in Waiting' : port'[i].key # "alt"
        BY <1>3, <4>1 DEF Waiting
      <4> QED
        BY <4>2 DEF IsAltGr
    <3> QED
      BY <3>1, <3>2
  <2> QED
    BY <1>1, <1>2, <1>5, <1>7, <2>1, <2>2 DEF AltGrRight
<1> QED
  BY <1>6, <1>7

LEMMA TouchPrefix ==
    ASSUME KeysOK, port = <<>>, NEW k \in Keys, NEW up \in BOOLEAN,
           NEW bytes, NEW whole \in BOOLEAN, Touches(k, up, bytes, whole)
    PROVE  PrefixRight'
<1>1. "prefix" \in doubt' <=> IF port' = <<>> THEN "prefix" \in doubt ELSE port'[Len(port')] = E0
  BY DEF Touches, DoubtAfter
<1>2. ("prefix" \in doubt <=> extended_scancode) /\ extended_scancode' = extended_scancode
  BY DEF KeysOK, PrefixRight, Touches, flags
<1>3. port' = <<>> <=> Len(port') = 0
  BY DEF Touches
<1> QED
  BY <1>1, <1>2, <1>3 DEF PrefixRight

\* A flag that is not in doubt is right between two keys, so the driver finds
\* the character the user means, and Enter whatever the flags are.
LEMMA CharacterIsMeant ==
    ASSUME KeysOK, port = <<>>, NEW k \in Letters, doubt = {} \/ Means(k) = "enter"
    PROVE  Character(k) = Means(k)
<1>1. k # "arrow" /\ layout \in Layouts
  BY KeyboardAssumption DEF KeysOK
<1>2. CASE doubt = {}
  <2>1. Waiting = {} /\ Len(port) = 0
    BY DEF Waiting
  <2>2. shift_pressed <=> shifting
    BY <1>2, <2>1 DEF KeysOK, ShiftRight
  <2>3. altgr_pressed <=> "altgr" \in held
    BY <1>2, <2>1 DEF KeysOK, AltGrRight
  <2> QED
    BY <1>1, <2>2, <2>3 DEF Character, Means
<1>3. CASE Means(k) = "enter"
  <2>1. /\ Plain[layout][k] = "enter" <=> Shifted[layout][k] = "enter"
        /\ AltGr[layout][k] # "enter" /\ (Plain[layout][k] = "enter" => AltGr[layout][k] = NoChar)
    BY <1>1, KeyboardAssumption
  <2>2. Plain[layout][k] = "enter"
    BY <1>1, <1>3, <2>1 DEF Means
  <2> QED
    BY <1>3, <2>1, <2>2 DEF Character
<1> QED
  BY <1>2, <1>3

LEMMA TouchLine ==
    ASSUME KeysOK, port = <<>>, NEW k \in Keys, NEW up \in BOOLEAN,
           NEW bytes, NEW whole \in BOOLEAN, Touches(k, up, bytes, whole)
    PROVE  LineRight'
<1> SUFFICES ASSUME sure' PROVE LineRight'
  BY DEF LineRight
<1>1. UNCHANGED <<extended_scancode, altgr_pressed, shift_pressed, layout, cmd>>
  BY DEF Touches, flags, shell
<1>2. /\ port' \in Seq({bytes[i] : i \in 1 .. Len(bytes)})
      /\ (whole => port' = bytes /\ "prefix" \notin doubt) /\ bytes \in Sent(k, up)
  BY DEF Touches
<1>3. "prefix" \notin doubt => ~extended_scancode
  BY DEF KeysOK, PrefixRight
<1>4. sure => cmd = meant
  BY DEF KeysOK, LineRight
<1>5. "E0" \notin Letters /\ "arrow" \notin Letters /\ "LEFT_SHIFT" \notin Letters
      /\ "alt" \notin Letters /\ "altgr" \notin Letters
  BY KeyboardAssumption DEF Modifiers, Shifts
<1>6. ASSUME cmd = meant, UNCHANGED <<meant, sure>>, \A i \in Waiting' : ~IsTyped(i)'
      PROVE  LineRight'
  BY <1>1, <1>6 DEF LineRight
<1>7. CASE k \in Letters /\ ~up
  <2>1. Aims(k, Means(k), whole)
    BY <1>7 DEF Touches
  <2>2. whole /\ meant' = Edited(Means(k))
    BY <1>5, <1>7, <2>1 DEF Aims
  <2>3. Means(k) = "enter" \/ (sure /\ doubt = {})
    BY <1>5, <1>7, <2>1 DEF Aims
  <2>4. port' = <<Code(k, up)>>
    BY <1>2, <1>5, <1>7, <2>2, SentIs
  <2>5. Len(port') = 1 /\ port'[1] = Code(k, up)
    BY <2>4
  <2>6. IsTyped(1)'
    BY <1>1, <1>2, <1>3, <1>7, <2>2, <2>5 DEF IsTyped, Extended, Code
  <2>7. Character(k) = Means(k)
    BY <1>7, <2>3, CharacterIsMeant
  <2>8. CharOf(port[1])' = Means(k)
    <3>1. port'[1].key = k
      BY <2>5 DEF Code
    <3>2. Character(port[1].key)' = Character(k)
      BY <1>1, <3>1 DEF Character
    <3>3. k # "arrow"
      BY <1>5, <1>7
    <3> QED
      BY <2>7, <3>1, <3>2, <3>3 DEF CharOf
  <2>9. Result(cmd, Means(k)) = Edited(Means(k))
    <3>1. CASE Means(k) = "enter"
      <4>1. Result(cmd, "enter") = Edited("enter")
        BY KeyboardAssumption DEF Result, Edited
      <4> QED
        BY <3>1, <4>1, Zenon
    <3>2. CASE cmd = meant
      BY <3>2 DEF Result, Edited
    <3> QED
      BY <1>4, <2>3, <3>1, <3>2
  <2>10. Result(cmd, CharOf(port[1]))' = Result(cmd, Means(k))
    <3>1. Result(cmd, CharOf(port[1]))' = Result(cmd', CharOf(port[1])')
      BY DEF Result
    <3> QED
      BY <1>1, <2>8, <3>1
  <2>11. Result(cmd, CharOf(port[Len(port)]))' = meant'
    BY <2>2, <2>5, <2>9, <2>10
  <2> QED
    BY <2>5, <2>6, <2>11 DEF LineRight
<1>8. CASE k = "arrow" /\ ~up
  <2>1. Aims(k, "arrow", whole)
    BY <1>8 DEF Touches, Means
  <2>2. sure /\ whole /\ meant' = Edited("arrow")
    BY <1>8, <2>1 DEF Aims
  <2>3. port' = bytes /\ ~extended_scancode' /\ cmd = meant
    BY <1>1, <1>2, <1>3, <1>4, <2>2
  <2>4. \E f \in BOOLEAN :
           \/ Len(bytes) = 2 /\ bytes[1] = E0 /\ bytes[2] = Code("arrow", FALSE)
           \/ /\ Len(bytes) = 4 /\ bytes[1] = E0 /\ bytes[3] = E0
              /\ bytes[2] = Code("LEFT_SHIFT", f) /\ bytes[4] = Code("arrow", FALSE)
    <3>1. PICK u \in BOOLEAN : u = FALSE
      OBVIOUS
    <3>2. u = up /\ bytes \in Sent("arrow", u)
      BY <1>2, <1>8, <3>1
    <3>3. \E f \in BOOLEAN :
              \/ Len(bytes) = 2 /\ bytes[1] = E0 /\ bytes[2] = Code("arrow", u)
              \/ /\ Len(bytes) = 4 /\ bytes[1] = E0 /\ bytes[3] = E0 /\ u
                 /\ bytes[2] = Code("arrow", TRUE) /\ bytes[4] = Code("LEFT_SHIFT", f)
              \/ /\ Len(bytes) = 4 /\ bytes[1] = E0 /\ bytes[3] = E0 /\ ~u
                 /\ bytes[2] = Code("LEFT_SHIFT", f) /\ bytes[4] = Code("arrow", FALSE)
      BY <3>2, ArrowBytes, Zenon
    <3> QED
      BY <3>1, <3>3, Zenon
  <2>5. /\ Len(port') = 2 \/ Len(port') = 4
        /\ port'[1] = E0 /\ port'[Len(port') - 1] = E0
        /\ port'[Len(port')] = Code("arrow", FALSE)
        /\ Len(port') = 4 => port'[2].key = "LEFT_SHIFT"
    <3>1. CASE Len(bytes) = 2 /\ bytes[1] = E0 /\ bytes[2] = Code("arrow", FALSE)
      BY <2>3, <3>1
    <3>2. ASSUME NEW f \in BOOLEAN, Len(bytes) = 4 /\ bytes[1] = E0 /\ bytes[3] = E0,
                 bytes[2] = Code("LEFT_SHIFT", f) /\ bytes[4] = Code("arrow", FALSE)
          PROVE  <2>5!:
      BY <2>3, <3>2 DEF Code
    <3> QED
      BY <2>4, <3>1, <3>2
  <2>6. IsTyped(Len(port))'
    <3>1. Len(port') # 1
      BY <2>5
    <3>2. Extended(Len(port))'
      BY <2>5, <3>1, Zenon DEF Extended
    <3> QED
      BY <2>5, <3>2, Zenon DEF IsTyped
  <2>7. \A i \in 1 .. Len(port') - 1 : ~IsTyped(i)'
    <3> TAKE i \in 1 .. Len(port') - 1
    <3>1. E0.key = "E0" /\ E0 # Code("arrow", FALSE)
      BY DEF E0, Code
    <3>2. i = 1 \/ (Len(port') = 4 /\ (i = 2 \/ i = 3))
      <4>1. CASE Len(port') = 2
        BY <4>1
      <4>2. CASE Len(port') = 4
        BY <4>2
      <4> QED
        BY <2>5, <4>1, <4>2, Zenon
    <3>3. CASE i = 1
      BY <1>5, <2>3, <2>5, <3>1, <3>3 DEF IsTyped, Extended
    <3>4. CASE Len(port') = 4 /\ i = 2
      BY <1>5, <2>5, <3>1, <3>4 DEF IsTyped, Extended, Code
    <3>5. CASE Len(port') = 4 /\ i = 3
      BY <1>5, <2>5, <3>1, <3>5 DEF IsTyped, Extended, Code
    <3> QED
      BY <3>2, <3>3, <3>4, <3>5
  <2>8. CharOf(port[Len(port)])' = "arrow" /\ port'[Len(port')].key \notin Letters
    <3>1. port'[Len(port')].key = "arrow"
      BY <2>5 DEF Code
    <3> QED
      BY <1>5, <3>1 DEF CharOf
  <2>9. Result(cmd, CharOf(port[Len(port)]))' = meant'
    <3>1. Result(cmd, "arrow") = Edited("arrow")
      BY <2>3 DEF Result, Edited
    <3>2. Result(cmd, CharOf(port[Len(port)]))' = Result(cmd', CharOf(port[Len(port)])')
      BY DEF Result
    <3> QED
      BY <1>1, <2>2, <2>8, <3>1, <3>2
  <2>10. Len(port') > 0
    BY <2>5
  <2> QED
    BY <2>6, <2>7, <2>8, <2>9, <2>10, Zenon DEF LineRight
<1>9. CASE k = "arrow" /\ up
  <2>1. whole /\ UNCHANGED <<meant, sure>>
    <3>1. CASE ~whole
      <4>1. sure' = FALSE
        BY <1>9, <3>1 DEF Touches
      <4> QED
        BY <4>1
    <3>2. CASE whole
      BY <1>5, <1>9, <3>2 DEF Touches
    <3> QED
      BY <3>1, <3>2
  <2>2. port' = bytes /\ ~extended_scancode' /\ cmd = meant
    BY <1>1, <1>2, <1>3, <1>4, <2>1
  <2>3. \A i \in Waiting' : port'[i] # Code("arrow", FALSE) /\ port'[i].key \notin Letters
    <3>1. PICK u \in BOOLEAN : u = TRUE
      OBVIOUS
    <3>2. u = up /\ bytes \in Sent("arrow", u)
      BY <1>2, <1>9, <3>1
    <3> DEFINE A(f) == Len(bytes) = 2 /\ bytes[1] = E0 /\ bytes[2] = Code("arrow", u)
               B(f) == /\ Len(bytes) = 4 /\ bytes[1] = E0 /\ bytes[3] = E0 /\ u
                       /\ bytes[2] = Code("arrow", TRUE) /\ bytes[4] = Code("LEFT_SHIFT", f)
               C(f) == /\ Len(bytes) = 4 /\ bytes[1] = E0 /\ bytes[3] = E0 /\ ~u
                       /\ bytes[2] = Code("LEFT_SHIFT", f) /\ bytes[4] = Code("arrow", FALSE)
    <3>3. PICK f \in BOOLEAN : A(f) \/ B(f) \/ C(f)
      BY <3>2, ArrowBytes, Zenon
    <3>4. /\ Code("arrow", TRUE) # Code("arrow", FALSE) /\ Code("arrow", TRUE).key = "arrow"
          /\ E0 # Code("arrow", FALSE) /\ E0.key = "E0"
          /\ \A g \in BOOLEAN : Code("LEFT_SHIFT", g) # Code("arrow", FALSE)
                                /\ Code("LEFT_SHIFT", g).key = "LEFT_SHIFT"
      BY DEF Code, E0
    <3> TAKE i \in Waiting'
    <3>5. i \in 1 .. Len(bytes)
      BY <2>2 DEF Waiting
    <3>6. CASE A(f)
      <4>1. i = 1 \/ i = 2
        BY <3>5, <3>6
      <4> QED
        BY <1>5, <2>2, <3>1, <3>4, <3>6, <4>1
    <3>7. CASE B(f)
      <4>1. i = 1 \/ i = 2 \/ i = 3 \/ i = 4
        BY <3>5, <3>7
      <4> QED
        BY <1>5, <2>2, <3>1, <3>4, <3>7, <4>1
    <3>8. ~C(f)
      BY <3>1
    <3> HIDE DEF A, B, C
    <3> QED
      BY <3>3, <3>6, <3>7, <3>8
  <2>4. \A i \in Waiting' : ~IsTyped(i)'
    BY <2>3 DEF IsTyped
  <2> QED
    BY <1>4, <1>6, <2>1, <2>2, <2>4
<1>10. CASE k # "arrow" /\ ~(k \in Letters /\ ~up)
  <2>1. UNCHANGED <<meant, sure>>
    BY <1>10 DEF Touches
  <2>2. bytes = <<Code(k, up)>> \/ bytes = <<E0, Code("alt", up)>>
    BY <1>2, <1>10, SentIs
  <2>3. \A i \in 1 .. Len(bytes) :
           bytes[i] \in {Code(k, up), E0, Code("alt", up)}
    BY <2>2
  <2>4. \A b \in {Code(k, up), E0, Code("alt", up)} :
           b.key # "arrow" /\ (b.key \in Letters => b.up)
    BY <1>5, <1>10 DEF Code, E0
  <2>5. \A i \in Waiting' : port'[i] \in {Code(k, up), E0, Code("alt", up)}
    BY <1>2, <2>3 DEF Waiting
  <2>6. \A i \in Waiting' : ~IsTyped(i)'
    <3> TAKE i \in Waiting'
    <3>1. port'[i].key # "arrow" /\ (port'[i].key \in Letters => port'[i].up)
      BY <2>4, <2>5
    <3>2. Code("arrow", FALSE).key = "arrow"
      BY DEF Code
    <3> QED
      BY <3>1, <3>2 DEF IsTyped
  <2> QED
    BY <1>4, <1>6, <2>1, <2>6
<1> QED
  BY <1>7, <1>8, <1>9, <1>10

LEMMA KeysStep == ASSUME KeysOK, Shown, [Next]_vars PROVE KeysOK'
<1>1. CASE Turn
  BY <1>1, TurnKeys
<1>2. ASSUME NEW k \in Keys, NEW up \in BOOLEAN, Touch(k, up) PROVE KeysOK'
  <2>1. port = <<>>
    BY <1>2 DEF Touch
  <2>2. PICK bytes, whole : whole \in BOOLEAN /\ Touches(k, up, bytes, whole)
    BY <1>2, TouchIs
  <2>3. ShiftRight' /\ AltGrRight' /\ PrefixRight' /\ LineRight'
    BY <2>1, <2>2, TouchShift, TouchAltGr, TouchPrefix, TouchLine
  <2>4. UNCHANGED <<layout, shift_pressed, altgr_pressed, extended_scancode>>
    BY <2>2 DEF Touches, flags
  <2>5. port' \in Seq(Bytes)
    <3>1. bytes \in Seq(Bytes)
      BY <2>2, SentIs DEF Touches
    <3>2. {bytes[i] : i \in 1 .. Len(bytes)} \subseteq Bytes
      BY <3>1
    <3>3. port' \in Seq({bytes[i] : i \in 1 .. Len(bytes)})
      BY <2>2 DEF Touches
    <3> DEFINE S == {bytes[i] : i \in 1 .. Len(bytes)}
    <3>4. S \subseteq Bytes /\ port' \in Seq(S)
      BY <3>2, <3>3
    <3> HIDE DEF S
    <3> QED
      BY <3>4
  <2> QED
    BY <2>3, <2>4, <2>5 DEF KeysOK
<1>3. CASE UNCHANGED vars
  BY <1>3 DEF KeysOK, ShiftRight, AltGrRight, PrefixRight, LineRight, Waiting, IsShift,
              IsAltGr, IsTyped, Extended, CharOf, Character, Result, vars, keyboard, flags, shell
<1> QED
  BY <1>1, <1>2, <1>3 DEF Next

\* For every layout, set of keys, screen and number of lost bytes: once the bytes
\* that wait are read, the command is what the user meant by the keys, AltGr as it
\* is held and Shift as a Shift key was last touched, unless a key of it was lost
\* or touched by a flag that a lost byte left wrong (keyboard_getchar,
\* keyboard.c:249-297, and the loop of KernelEntryPoint, kernel.c:152-825).
THEOREM LineMeant == Spec => []LineIsMeant
<1> DEFINE I == Shown /\ KeysOK
<1>1. Init => I
  BY ShownInit, KeysInit
<1>2. I /\ [Next]_vars => I'
  <2> SUFFICES ASSUME I, [Next]_vars PROVE I'
    OBVIOUS
  <2>1. layout \in Layouts
    BY DEF KeysOK
  <2> QED
    BY <2>1, ShownStep, KeysStep
<1> QED
  BY <1>1, <1>2, KeysMeant, PTL DEF Spec

=============================================================================
