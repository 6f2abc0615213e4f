------------------------------ MODULE BootProofs -------------------------------
(***************************************************************************)
(* Boot, for every machine, every set of tasks, exceptions and vectors.    *)
(***************************************************************************)
EXTENDS Boot, FiniteSetTheorems, WellFoundedInduction, TLAPS

-----------------------------------------------------------------------------
\* First three parts that Boot composes: the calibration of the timer, the state
\* of the shift keys, and where the picture's pixels are.

(***************************************************************************)
(* The timer's period is not too short, for every ratio of the two clocks, *)
(* every width of their counters and every delay of the code.              *)
(*                                                                         *)
(* The argument counts the ticks since calibrate() set the count.  While   *)
(* usleep() waits, they are at least those of the HPET's ticks since it    *)
(* looked at the counter, also when the counter wraps, which only makes it *)
(* smaller.  When it has waited they are enough, and stay enough.          *)
(***************************************************************************)

\* The ticks since calibrate(), but for those after the count has reached 0.
Elapsed == APICWidth - 1 - count

ClockTypeOK == /\ phase \in 0 .. (Ratio - 1) /\ counter \in 0 .. (Width - 1) /\ required \in Nat
               /\ count \in 0 .. (APICWidth - 1) /\ ticks_20ms \in Nat /\ delay \in Nat

\* The HPET's ticks that usleep() has seen, in those of the timer.
Seen == Ratio * (counter - required + Sleep) + phase - (Ratio - 1)

ClockInv == /\ ClockTypeOK
            /\ step = "wait" => count = 0 \/ Elapsed >= Seen
            /\ step = "read" => count = 0 \/ Elapsed >= Ratio * (Sleep - 1)
            /\ TicksEnough

LEMMA Grows == ASSUME NEW a \in Int, NEW b \in Int, NEW r \in Nat, a >= b
               PROVE  r * a >= r * b
  <1>1. PICK k \in Nat : a = b + k
    <2>1. a - b \in Nat /\ a = b + (a - b)  OBVIOUS
    <2> QED BY <2>1
  <1>2. r * a = r * b + r * k  BY <1>1
  <1>3. r * k \in Nat  OBVIOUS
  <1> QED BY <1>2, <1>3

\* At first nothing has been counted.
LEMMA ClockStarts == ClockInit => ClockInv
  BY ClockAssumption DEF ClockInit, ClockInv, ClockTypeOK, TicksEnough

\* A tick of the timer, with which the HPET's may come.
LEMMA TimerTicks == ClockInv /\ Tick => ClockInv'
<1> SUFFICES ASSUME ClockInv, Tick PROVE ClockInv'  OBVIOUS
<1> USE ClockAssumption
<1>1. count' = IF count > 0 THEN count - 1 ELSE 0  BY DEF Tick
<1>2. ClockTypeOK'
  <2>1. phase' \in 0 .. (Ratio - 1)  BY DEF ClockInv, ClockTypeOK, Tick
  <2>2. counter' \in 0 .. (Width - 1)  BY DEF ClockInv, ClockTypeOK, Tick
  <2>3. count' \in 0 .. (APICWidth - 1)  BY <1>1 DEF ClockInv, ClockTypeOK
  <2>4. delay' \in Nat  BY DEF ClockInv, ClockTypeOK, Tick
  <2> QED BY <2>1, <2>2, <2>3, <2>4 DEF ClockInv, ClockTypeOK, Tick
<1>3. ASSUME step' = "wait", count' # 0 PROVE (Elapsed >= Seen)'
  <2>1. Elapsed >= Seen /\ Elapsed' = Elapsed + 1
    BY <1>1, <1>3 DEF ClockInv, ClockTypeOK, Tick, Elapsed
  <2>2. Seen' <= Seen + 1
    <3> DEFINE a == counter - required + Sleep
               b == counter' - required' + Sleep
    <3>1. a \in Int /\ b \in Int /\ b <= a + 1 /\ Ratio * (a + 1) = Ratio * a + Ratio
      BY DEF ClockInv, ClockTypeOK, Tick
    <3>2. CASE phase = Ratio - 1
      <4>1. phase' = 0  BY <3>2 DEF ClockInv, ClockTypeOK, Tick
      <4>2. Ratio * (a + 1) >= Ratio * b  BY <3>1, Grows
      <4>3. Ratio * a \in Int /\ Ratio * b \in Int  BY <3>1
      <4> HIDE DEF a, b
      <4>4. Ratio * b + 0 - (Ratio - 1) <= Ratio * a + (Ratio - 1) - (Ratio - 1) + 1
        BY <3>1, <4>2, <4>3
      <4> QED BY <3>2, <4>1, <4>4 DEF Seen, a, b
    <3>3. CASE phase # Ratio - 1
      <4>1. phase' = phase + 1 /\ counter' = counter /\ required' = required
        BY <3>3 DEF ClockInv, ClockTypeOK, Tick
      <4>2. Ratio * a \in Int  BY <3>1
      <4> QED BY <4>1, <4>2 DEF Seen, ClockInv, ClockTypeOK
    <3> QED BY <3>2, <3>3
  <2>3. Seen \in Int /\ Seen' \in Int /\ Elapsed \in Int
    BY <1>2 DEF ClockInv, ClockTypeOK, Seen, Elapsed
  <2> QED BY <2>1, <2>2, <2>3
<1>4. ASSUME step' = "read", count' # 0 PROVE (Elapsed >= Ratio * (Sleep - 1))'
  <2>1. Elapsed >= Ratio * (Sleep - 1) /\ Elapsed' = Elapsed + 1 /\ Elapsed \in Int
    BY <1>1, <1>4 DEF ClockInv, ClockTypeOK, Tick, Elapsed
  <2>2. Ratio * (Sleep - 1) \in Int  OBVIOUS
  <2> QED BY <2>1, <2>2
<1>5. TicksEnough'  BY DEF Tick, TicksEnough
<1> QED BY <1>2, <1>3, <1>4, <1>5 DEF ClockInv

\* What usleep() has waited for is what it has seen.
LEMMA UsleepWaits == ClockInv /\ Wait => ClockInv'
<1> SUFFICES ASSUME ClockInv, Wait PROVE ClockInv'  OBVIOUS
<1> USE ClockAssumption
<1>1. ClockTypeOK'  BY DEF ClockInv, ClockTypeOK, Wait, hpet, GoTo
<1>2. Seen >= Ratio * (Sleep - 1)
  <2>1. counter - required + Sleep >= Sleep  BY DEF ClockInv, ClockTypeOK, Wait
  <2>2. Ratio * (counter - required + Sleep) >= Ratio * Sleep
    BY <2>1, Grows DEF ClockInv, ClockTypeOK
  <2>3. Ratio * (Sleep - 1) = Ratio * Sleep - Ratio /\ Ratio * Sleep \in Int  OBVIOUS
  <2>4. Ratio * (counter - required + Sleep) \in Int  BY DEF ClockInv, ClockTypeOK
  <2> QED BY <2>2, <2>3, <2>4 DEF Seen, ClockInv, ClockTypeOK
<1>3. count = 0 \/ Elapsed >= Seen  BY DEF ClockInv, Wait
<1>4. Seen \in Int /\ Elapsed \in Int /\ Ratio * (Sleep - 1) \in Int
  BY DEF ClockInv, ClockTypeOK, Seen, Elapsed
<1>5. count' = 0 \/ Elapsed' >= Ratio * (Sleep - 1)
  BY <1>2, <1>3, <1>4 DEF Wait, Elapsed
<1> QED BY <1>1, <1>5 DEF ClockInv, TicksEnough, Wait, GoTo

\* A count that has reached 0 is more than 32 bits hold, times Slices.
LEMMA TicksRead == ClockInv /\ Read => ClockInv'
<1> SUFFICES ASSUME ClockInv, Read PROVE ClockInv'  OBVIOUS
<1> USE ClockAssumption
<1> DEFINE product == Slices * Elapsed
<1>1. Elapsed \in Nat /\ Elapsed' = Elapsed
  BY DEF ClockInv, ClockTypeOK, Elapsed, Read, hpet
<1>2. product \in Nat  BY <1>1
<1>3. ticks_20ms' = product % APICWidth  BY DEF Read, Elapsed
<1>4. ClockTypeOK'
  <2>1. ticks_20ms' \in Nat  BY <1>2, <1>3
  <2> QED BY <2>1 DEF ClockInv, ClockTypeOK, Read, hpet, GoTo
<1>5. product >= APICWidth \/ ticks_20ms' >= Slices * Ratio * (Sleep - 1)
  <2>1. CASE count = 0
    <3>1. Slices * (APICWidth - 1) >= 2 * (APICWidth - 1)
      <4>1. (APICWidth - 1) * Slices >= (APICWidth - 1) * 2  BY Grows
      <4> QED BY <4>1
    <3> QED BY <2>1, <3>1 DEF Elapsed
  <2>2. CASE count # 0 /\ product < APICWidth
    <3>1. Elapsed >= Ratio * (Sleep - 1)  BY <2>2 DEF ClockInv, Read
    <3>2. product >= Slices * (Ratio * (Sleep - 1))  BY <1>1, <3>1, Grows
    <3>3. Slices * (Ratio * (Sleep - 1)) = Slices * Ratio * (Sleep - 1)  OBVIOUS
    <3>4. ticks_20ms' = product  BY <1>2, <1>3, <2>2
    <3> QED BY <3>2, <3>3, <3>4
  <2> QED BY <1>2, <2>1, <2>2
<1>6. TicksEnough'  BY <1>1, <1>5 DEF TicksEnough, Elapsed
<1> QED BY <1>4, <1>6 DEF ClockInv, Read, GoTo

\* The other steps, of which usleep()'s first begins to count.
LEMMA ClockSetUp == ClockInv /\ (HpetInit \/ Calibrate \/ Usleep) => ClockInv'
<1> USE ClockAssumption
<1>1. ASSUME ClockInv, HpetInit PROVE ClockInv'
  BY <1>1 DEF ClockInv, ClockTypeOK, TicksEnough, HpetInit, GoTo
<1>2. ASSUME ClockInv, Calibrate PROVE ClockInv'
  BY <1>2 DEF ClockInv, ClockTypeOK, TicksEnough, Calibrate, GoTo, hpet
<1>3. ASSUME ClockInv, Usleep PROVE ClockInv'
  <2>1. counter' - required' + Sleep = 0 /\ phase' = phase
    BY <1>3 DEF ClockInv, ClockTypeOK, Usleep, hpet
  <2>2. Seen' <= 0  BY <1>3, <2>1 DEF Seen, ClockInv, ClockTypeOK
  <2>3. ClockTypeOK'  BY <1>3 DEF ClockInv, ClockTypeOK, Usleep, hpet, GoTo
  <2>4. Elapsed' >= Seen'  BY <1>3, <2>1, <2>2, <2>3 DEF Elapsed, Seen, ClockTypeOK
  <2> QED BY <1>3, <2>3, <2>4 DEF ClockInv, TicksEnough, Usleep, GoTo
<1> QED BY <1>1, <1>2, <1>3

\* The invariant that the following theorem rests on.
THEOREM ClockInvariance == ClockSpec => []ClockInv
<1>1. ClockInv /\ [ClockNext]_clockVars => ClockInv'
  <2>1. ClockInv /\ UNCHANGED clockVars => ClockInv'
    BY DEF ClockInv, ClockTypeOK, TicksEnough, Elapsed, Seen, clockVars
  <2> QED BY <2>1, TimerTicks, UsleepWaits, TicksRead, ClockSetUp DEF ClockNext, Code
<1> QED BY <1>1, ClockStarts, PTL DEF ClockSpec

\* The timer that timer::init() sets is never shorter than Slices sleeps (but for
\* the tick that had begun), however long the code is held up between two of its
\* steps, unless the 32-bit product wraps (timer.cpp:40-53, apic.cpp:100-112).
THEOREM PeriodLongEnough == ClockSpec => []TicksEnough
  BY ClockInvariance, PTL DEF ClockInv

(***************************************************************************)
(* What shift_pressed says, whenever the buffer is read or dropped.  While *)
(* a scancode waits in it, shift_pressed is behind by that scancode.       *)
(***************************************************************************)

Keys == {lshift, caps_lock}

KeyboardTypeOK == /\ buffer \in [key : Keys \cup {"other", "none"}, up : BOOLEAN]
                  /\ buffer.key \in {"other", "none"} => ~buffer.up
                  /\ shift_pressed \in BOOLEAN /\ caps \in BOOLEAN /\ astray \in BOOLEAN
                  /\ held \subseteq Keys

\* The scancode that waits is one that toggles.
Pending == \/ buffer.key = lshift
           \/ buffer.key = caps_lock /\ ~buffer.up

KeyboardInv == /\ KeyboardTypeOK
               /\ ((shift_pressed <=> Capitals) <=> (astray <=> Pending))

LEMMA KeyboardStarts == KeyboardInit => KeyboardInv
<1> SUFFICES ASSUME KeyboardInit PROVE KeyboardInv  OBVIOUS
<1> USE DEF KeyboardInit, KeyboardInv, KeyboardTypeOK, Pending, Capitals, Empty, Scancode, Keys, lshift, caps_lock
<1>1. CASE buffer = Empty  BY <1>1
<1>2. CASE buffer = Scancode("other", FALSE)  BY <1>2
<1>3. CASE held = {lshift} /\ buffer = Scancode(lshift, FALSE)  BY <1>3
<1> QED BY <1>1, <1>2, <1>3

LEMMA KeyStruck == KeyboardInv /\ Strike => KeyboardInv'
<1> SUFFICES ASSUME KeyboardInv, Strike PROVE KeyboardInv'  OBVIOUS
<1> USE DEF KeyboardInv, KeyboardTypeOK, Pending, Capitals, Strike, full, Empty, Scancode, Keys, lshift, caps_lock
<1>1. CASE OtherKey  BY <1>1 DEF OtherKey
<1>2. CASE \E key \in Keys : Press(key)
  <2>1. PICK key \in Keys : Press(key)  BY <1>2
  <2>2. KeyboardTypeOK'  BY <2>1 DEF Press
  <2>3. ~Pending /\ Pending'  BY <2>1 DEF Press
  <2>4. (Capitals' <=> Capitals) <=> FALSE
    <3>1. CASE key = lshift  BY <2>1, <3>1 DEF Press
    <3>2. CASE key = caps_lock
      <4>1. (lshift \in held' <=> lshift \in held) /\ caps' = ~caps  BY <2>1, <3>2 DEF Press
      <4> QED BY <4>1
    <3> QED BY <3>1, <3>2
  <2> QED BY <2>1, <2>2, <2>3, <2>4 DEF Press
<1>3. CASE \E key \in Keys : Repeat(key)
  <2>1. PICK key \in Keys : Repeat(key)  BY <1>3
  <2>2. KeyboardTypeOK'  BY <2>1 DEF Repeat
  <2>3. ~Pending /\ Pending'  BY <2>1 DEF Repeat
  <2>4. (Capitals' <=> Capitals) /\ astray' = ~astray  BY <2>1 DEF Repeat
  <2> QED BY <2>2, <2>3, <2>4
<1>4. CASE \E key \in Keys : Release(key)
  <2>1. PICK key \in Keys : Release(key)  BY <1>4
  <2>2. KeyboardTypeOK'  BY <2>1 DEF Release
  <2>3. ~Pending
    <3>1. buffer.key = "none"  BY DEF Strike
    <3> QED BY <3>1
  <2>4. UNCHANGED <<caps, astray, shift_pressed>>  BY <2>1 DEF Release
  <2>5. CASE key = lshift
    <3>1. Pending'  BY <2>1, <2>5 DEF Release
    <3>2. lshift \in held /\ lshift \notin held'  BY <2>1, <2>5 DEF Release
    <3> QED BY <2>2, <2>3, <2>4, <3>1, <3>2
  <2>6. CASE key = caps_lock
    <3>1. ~Pending'
      <4>1. buffer' = Scancode(caps_lock, TRUE)  BY <2>1, <2>6 DEF Release
      <4> QED BY <4>1
    <3>2. lshift \in held <=> lshift \in held'  BY <2>1, <2>6 DEF Release
    <3> QED BY <2>2, <2>3, <2>4, <3>1, <3>2
  <2> QED BY <2>5, <2>6
<1>5. CASE FakeShift
  <2>1. KeyboardTypeOK'  BY <1>5 DEF FakeShift
  <2>2. ~Pending /\ Pending'  BY <1>5 DEF FakeShift
  <2>3. (Capitals' <=> Capitals) /\ astray' = ~astray  BY <1>5 DEF FakeShift
  <2> QED BY <2>1, <2>2, <2>3
<1> QED BY <1>1, <1>2, <1>3, <1>4, <1>5

LEMMA ScancodeRead == KeyboardInv /\ TakeScancode => KeyboardInv'
<1> SUFFICES ASSUME KeyboardInv, TakeScancode PROVE KeyboardInv'  OBVIOUS
<1>1. KeyboardTypeOK
  BY DEF KeyboardInv
<1>2. ~Pending' /\ UNCHANGED <<held, caps, astray>>
  BY DEF TakeScancode, Pending, Empty, lshift, caps_lock
<1>3. shift_pressed' <=> ~(shift_pressed <=> Pending)
  <2>1. CASE Pending
    <3>1. shift_pressed' = ~shift_pressed  BY <2>1 DEF TakeScancode, handle_input, Pending
    <3> QED BY <1>1, <2>1, <3>1 DEF KeyboardTypeOK
  <2>2. CASE ~Pending
    <3>1. shift_pressed' = shift_pressed  BY <2>2 DEF TakeScancode, handle_input, Pending
    <3> QED BY <1>1, <2>2, <3>1 DEF KeyboardTypeOK
  <2> QED BY <2>1, <2>2
<1>4. KeyboardTypeOK'
  <2>1. shift_pressed' \in BOOLEAN
    BY <1>1 DEF TakeScancode, handle_input, KeyboardTypeOK
  <2>2. buffer' = Empty  BY DEF TakeScancode
  <2> QED BY <1>1, <1>2, <2>1, <2>2 DEF KeyboardTypeOK, Empty
<1>5. Capitals' <=> Capitals  BY <1>2 DEF Capitals
<1>6. astray' <=> astray  BY <1>2
<1>7. (shift_pressed <=> Capitals) <=> (astray <=> Pending)  BY DEF KeyboardInv
<1>8. (shift_pressed <=> Capitals)' <=> (astray <=> Pending)'
  BY <1>2, <1>3, <1>5, <1>6, <1>7
<1> QED BY <1>4, <1>8 DEF KeyboardInv

LEMMA ScancodeDropped == KeyboardInv /\ Drop => KeyboardInv'
<1> SUFFICES ASSUME KeyboardInv, Drop PROVE KeyboardInv'  OBVIOUS
<1> USE DEF KeyboardInv, KeyboardTypeOK, Drop, Empty, Scancode, Keys, lshift, caps_lock
<1>1. buffer \in {Scancode(lshift, FALSE), Scancode(lshift, TRUE), Scancode(caps_lock, FALSE)} <=> Pending
  <2>1. buffer = [key |-> buffer.key, up |-> buffer.up]  OBVIOUS
  <2>2. CASE buffer.key = lshift  BY <2>1, <2>2 DEF Pending
  <2>3. CASE buffer.key = caps_lock  BY <2>1, <2>3 DEF Pending
  <2>4. CASE buffer.key \notin Keys  BY <2>1, <2>4 DEF Pending
  <2> QED BY <2>2, <2>3, <2>4
<1> QED BY <1>1 DEF Pending, Capitals

\* Whatever is struck, read and dropped in any order, shift_pressed follows the
\* keys, but for the scancodes repeated, faked and dropped (ps2.cpp:37-40, 101-113, 145-148).
THEOREM ShiftFollows == KeyboardSpec => []ShiftAgrees
<1>1. KeyboardInv /\ [KeyboardNext]_keyVars => KeyboardInv'
  <2>1. KeyboardInv /\ UNCHANGED keyVars => KeyboardInv'
    BY DEF KeyboardInv, KeyboardTypeOK, Pending, Capitals, keyVars
  <2> QED BY <2>1, KeyStruck, ScancodeRead, ScancodeDropped DEF KeyboardNext
<1>2. KeyboardInv => ShiftAgrees
  BY DEF KeyboardInv, KeyboardTypeOK, Pending, Capitals, ShiftAgrees, full, Empty, Scancode, Keys, lshift, caps_lock
<1> QED BY <1>1, <1>2, KeyboardStarts, PTL DEF KeyboardSpec

(***************************************************************************)
(* The picture is read from the file where its pixels are, for every size  *)
(* of the picture, of the frame and both depths.                           *)
(*                                                                         *)
(* A line of the file is filled up to four bytes, and its pixels end       *)
(* before that: an offset that is a whole number of lines and some pixels  *)
(* of one falls into that line and on the first byte of a pixel.           *)
(***************************************************************************)

LEMMA Times == ASSUME NEW a \in Nat, NEW b \in Nat, NEW r \in Nat, a >= b + 1
               PROVE  r * a >= r * b + r
  <1>1. PICK k \in Nat : a = b + 1 + k
    <2>1. a - b - 1 \in Nat /\ a = b + 1 + (a - b - 1)  OBVIOUS
    <2> QED BY <2>1
  <1>2. r * a = r * b + r + r * k  BY <1>1
  <1>3. r * k \in Nat  OBVIOUS
  <1> QED BY <1>2, <1>3

\* A quotient and a remainder are what they are composed of.
LEMMA Divides == ASSUME NEW p \in Nat \ {0}, NEW q \in Nat, NEW r \in 0 .. (p - 1)
                 PROVE  (p * q + r) \div p = q /\ (p * q + r) % p = r
  <1> DEFINE n == p * q + r
             d == n \div p
             m == n % p
  <1>1. p * q \in Nat  OBVIOUS
  <1>2. n \in Nat  BY <1>1
  <1>3. d \in Nat /\ m \in 0 .. (p - 1) /\ n = p * d + m  BY <1>2
  <1>4. p * q + r = p * d + m  BY <1>3
  <1>5. p * d \in Nat  BY <1>3
  <1> HIDE DEF d, m
  <1>6. ~ d >= q + 1
    <2>1. ASSUME d >= q + 1 PROVE FALSE
      <3>1. p * d >= p * q + p  BY <2>1, <1>3, Times
      <3> QED BY <3>1, <1>1, <1>3, <1>4, <1>5
    <2> QED BY <2>1
  <1>7. ~ q >= d + 1
    <2>1. ASSUME q >= d + 1 PROVE FALSE
      <3>1. p * q >= p * d + p  BY <2>1, <1>3, Times
      <3> QED BY <3>1, <1>1, <1>3, <1>4, <1>5
    <2> QED BY <2>1
  <1>8. d = q  BY <1>3, <1>6, <1>7
  <1>9. m = r  BY <1>3, <1>4, <1>5, <1>8
  <1> QED BY <1>8, <1>9 DEF d, m

\* bmp_open_image() counts the bytes of a line as they are in the file, and a
\* line's pixels fit into them.
LEMMA BmpLines == ASSUME NEW picture \in BmpPictures
               PROVE  /\ Opened(picture).pitch = LineBytes(picture)
                      /\ LineBytes(picture) \in Nat \ {0}
                      /\ Opened(picture).colsize \in {3, 4}
                      /\ Opened(picture).colsize = picture.bpp \div 8
                      /\ picture.width * Opened(picture).colsize <= LineBytes(picture)
  <1> USE DEF BmpPictures, Opened, LineBytes
  <1>1. CASE picture.bpp = 24  BY <1>1
  <1>2. CASE picture.bpp = 32  BY <1>2
  <1> QED BY <1>1, <1>2

\* The file's lines are stored from the lowest up (image.c:18-50, gterm.c:137-165).
LEMMA ReadsPixel ==
  ASSUME NEW picture \in BmpPictures,
         NEW column \in 0 .. (picture.width - 1), NEW line \in 0 .. (picture.height - 1)
  PROVE  At(picture, column * Opened(picture).colsize
                     + Opened(picture).pitch * (picture.height - 1 - line)) = <<column, line>>
  <1> DEFINE img == Opened(picture)
             bytes == LineBytes(picture)
             from == picture.height - 1 - line
             at == column * img.colsize
             offset == at + img.pitch * from
  <1>1. /\ img.pitch = bytes /\ bytes \in Nat \ {0} /\ img.colsize \in {3, 4}
        /\ img.colsize = picture.bpp \div 8 /\ picture.width * img.colsize <= bytes
    BY BmpLines
  <1>2. picture.width \in Nat /\ picture.height \in Nat /\ from \in 0 .. (picture.height - 1)
    BY DEF BmpPictures
  <1> HIDE DEF img, bytes, from
  <1>3. at \in 0 .. (bytes - 1)
    <2>1. CASE img.colsize = 3  BY <1>1, <1>2, <2>1
    <2>2. CASE img.colsize = 4  BY <1>1, <1>2, <2>2
    <2> QED BY <1>1, <2>1, <2>2
  <1>4. at \div img.colsize = column /\ at % img.colsize = 0
    <2>1. CASE img.colsize = 3  BY <2>1, <1>2
    <2>2. CASE img.colsize = 4  BY <2>2, <1>2
    <2> QED BY <1>1, <2>1, <2>2
  <1> HIDE DEF at
  <1>5. bytes * from \in Nat /\ offset = bytes * from + at  BY <1>1, <1>2, <1>3
  <1>6. offset \div bytes = from /\ offset % bytes = at
    <2>1. bytes \in Nat \ {0} /\ from \in Nat /\ at \in 0 .. (bytes - 1)  BY <1>1, <1>2, <1>3
    <2>2. (bytes * from + at) \div bytes = from /\ (bytes * from + at) % bytes = at
      BY <2>1, Divides
    <2> HIDE DEF offset
    <2> QED BY <1>5, <2>2
  <1>7. offset >= 0  BY <1>3, <1>5
  <1> HIDE DEF offset
  <1>8. At(picture, offset) = <<column, picture.height - 1 - from>>
    BY <1>1, <1>2, <1>4, <1>6, <1>7 DEF At, bytes
  <1>9. picture.height - 1 - from = line  BY <1>2 DEF from
  <1> QED BY <1>8, <1>9 DEF offset, at, img, from

\* What genloop() draws at a place of the frame: the pixel of the picture that
\* belongs there when the centres fall together, and the back colour where there
\* is none, also left of and above a picture that is smaller than the frame
\* and for one that is larger.
LEMMA PictureCentered ==
  ASSUME NEW picture \in BmpPictures, frame.width \in Nat, frame.height \in Nat,
         NEW x \in 0 .. (frame.width - 1), NEW y \in 0 .. (frame.height - 1)
  PROVE  LET inPicture == (0 .. (picture.width - 1)) \X (0 .. (picture.height - 1))
         IN  /\ \A p \in inPicture : Centre(picture, p) = <<x, y>> => Centered(picture, x, y) = p
             /\ (\A p \in inPicture : Centre(picture, p) # <<x, y>>) => Centered(picture, x, y) = Back
  <1> DEFINE inPicture == (0 .. (picture.width - 1)) \X (0 .. (picture.height - 1))
             image_x == x - x_displacement(Opened(picture))
             image_y == y - y_displacement(Opened(picture))
  <1>1. /\ Opened(picture).width = picture.width /\ Opened(picture).height = picture.height
        /\ picture.width \in Nat \ {0} /\ picture.height \in Nat \ {0}
    BY DEF Opened, BmpPictures
  <1>2. /\ frame.width \div 2 \in Int /\ picture.width \div 2 \in Int
        /\ frame.height \div 2 \in Int /\ picture.height \div 2 \in Int
    BY <1>1
  <1>3. /\ image_x = x - (frame.width \div 2 - picture.width \div 2)
        /\ image_y = y - (frame.height \div 2 - picture.height \div 2)
        /\ image_x \in Int /\ image_y \in Int
    BY <1>1, <1>2 DEF x_displacement, y_displacement
  <1>4. CASE image_x \in 0 .. (picture.width - 1) /\ image_y \in 0 .. (picture.height - 1)
    <2>1. Centered(picture, x, y) = <<image_x, image_y>>
      BY <1>1, <1>4, ReadsPixel DEF Centered
    <2>2. ASSUME NEW p \in inPicture, Centre(picture, p) = <<x, y>>
          PROVE  p = <<image_x, image_y>>
      BY <1>1, <1>2, <1>3, <2>2 DEF Centre
    <2>3. <<image_x, image_y>> \in inPicture  BY <1>4
    <2>4. Centre(picture, <<image_x, image_y>>) = <<x, y>>  BY <1>1, <1>2, <1>3 DEF Centre
    <2> QED BY <2>1, <2>2, <2>3, <2>4
  <1>5. CASE ~(image_x \in 0 .. (picture.width - 1) /\ image_y \in 0 .. (picture.height - 1))
    <2>1. Centered(picture, x, y) = Back  BY <1>1, <1>5 DEF Centered
    <2>2. ASSUME NEW p \in inPicture, Centre(picture, p) = <<x, y>> PROVE FALSE
      <3>1. p[1] \in 0 .. (picture.width - 1) /\ p[2] \in 0 .. (picture.height - 1)  OBVIOUS
      <3>2. p[1] = image_x /\ p[2] = image_y
        BY <1>1, <1>2, <1>3, <2>2, <3>1 DEF Centre
      <3> QED BY <1>5, <3>1, <3>2
    <2> QED BY <2>1, <2>2
  <1> QED BY <1>4, <1>5
-----------------------------------------------------------------------------

(***************************************************************************)
(* The frame                                                               *)
(***************************************************************************)
LEMMA FrameNames ==
  /\ Len(InterruptFrame) = 22 /\ DOMAIN InterruptFrame = 1 .. 22
  /\ \A i, j \in 1 .. 22 : InterruptFrame[i] = InterruptFrame[j] => i = j
  BY DEF InterruptFrame

LEMMA PopNames ==
  /\ Len(Popped) = 22 /\ DOMAIN Popped = 1 .. 22
  /\ \A i, j \in 1 .. 22 : Popped[i] = Popped[j] => i = j
  BY DEF Popped

LEMMA OnlyMin == ASSUME NEW k \in Nat PROVE Min({k}) = k
  BY DEF Min

LEMMA RegisterNames ==
  Registers = {"rax", "rbx", "rcx", "rdx", "rsi", "rdi", "rbp", "r8", "r9", "r10", "r11",
               "r12", "r13", "r14", "r15", "ss", "rsp", "rflags", "cs", "rip"}
<1>1. ToSet(Pushed) = {"rax", "rbx", "rcx", "rdx", "rsi", "rdi", "rbp", "r8", "r9", "r10", "r11",
               "r12", "r13", "r14", "r15"}
  <2>1. DOMAIN Pushed = 1 .. 15  BY DEF Pushed
  <2> QED BY <2>1 DEF ToSet, Pushed
<1>2. ToSet(ByProcessor) = {"ss", "rsp", "rflags", "cs", "rip"}
  <2>1. DOMAIN ByProcessor = 1 .. 5  BY DEF ByProcessor
  <2> QED BY <2>1 DEF ToSet, ByProcessor
<1> QED BY <1>1, <1>2 DEF Registers

\* Where a register is popped from is where it was pushed to, by pusha64 or by
\* the processor.
LEMMA PopFacts ==
  ASSUME NEW r \in Registers
  PROVE  /\ Popping[r] \in 1 .. 22
         /\ Popped[Popping[r]] = r
         /\ \/ Popping[r] \in 1 .. 15 /\ Pushed[16 - Popping[r]] = r
            \/ Popping[r] \in 18 .. 22 /\ ByProcessor[23 - Popping[r]] = r
<1>1. PICK k \in (1 .. 15) \cup (18 .. 22) : Popped[k] = r
  BY RegisterNames DEF Popped
<1>2. Popping[r] = k
  <2> DEFINE I == { i \in 1 .. Len(Popped) : Popped[i] = r }
  <2>1. I = {k}  BY <1>1, PopNames
  <2>2. Min(I) = k  BY <2>1, OnlyMin
  <2>3. Popping[r] = IF I # {} THEN Min(I) ELSE 0  BY DEF Popping, SelectInSeq
  <2> QED BY <2>1, <2>2, <2>3
<1>3. k \in 1 .. 15 => Popped[k] = Pushed[16 - k]  BY DEF Popped, Pushed
<1>4. k \in 18 .. 22 => Popped[k] = ByProcessor[23 - k]  BY DEF Popped, ByProcessor
<1> QED BY <1>1, <1>2, <1>3, <1>4

LEMMA SlotFacts ==
  /\ \A k \in 1 .. 22 : InterruptFrame[k] \in Fields /\ Slot[InterruptFrame[k]] = k
  /\ \A f \in Fields : Slot[f] \in 1 .. 22 /\ InterruptFrame[Slot[f]] = f
<1>1. ASSUME NEW k \in 1 .. 22 PROVE InterruptFrame[k] \in Fields /\ Slot[InterruptFrame[k]] = k
  <2>1. InterruptFrame[k] \in Fields  BY FrameNames DEF Fields, ToSet
  <2> DEFINE I == { i \in 1 .. Len(InterruptFrame) : InterruptFrame[i] = InterruptFrame[k] }
  <2>2. I = {k}  BY FrameNames
  <2>3. Min(I) = k  BY <2>2, OnlyMin
  <2>4. Slot[InterruptFrame[k]] = IF I # {} THEN Min(I) ELSE 0  BY <2>1 DEF Slot, SelectInSeq
  <2> QED BY <2>1, <2>2, <2>3, <2>4
<1>2. ASSUME NEW f \in Fields PROVE Slot[f] \in 1 .. 22 /\ InterruptFrame[Slot[f]] = f
  <2>1. PICK k \in 1 .. 22 : InterruptFrame[k] = f  BY FrameNames DEF Fields, ToSet
  <2> QED BY <1>1, <2>1
<1> QED BY <1>1, <1>2

\* A frame's field and the register popped from it.
LEMMA FrameAndPop ==
  \A k \in 1 .. 15 :
    /\ Popped[k] \notin {"ss", "rsp", "rflags", "cs", "rip"}
    /\ InterruptFrame[k] = IF Popped[k] = "rsi" THEN "rbp"
                           ELSE IF Popped[k] = "rdi" THEN "rsi"
                           ELSE IF Popped[k] = "rbp" THEN "rdi" ELSE Popped[k]
  BY DEF InterruptFrame, Popped

LEMMA TailAgrees ==
  \A k \in 18 .. 22 : /\ InterruptFrame[k] = Popped[k]
                      /\ Popped[k] \in {"ss", "rsp", "rflags", "cs", "rip"}
  BY DEF InterruptFrame, Popped

\* The field that a register is read under is the one it was pushed to.
LEMMA HeldFacts ==
  ASSUME NEW r \in Registers
  PROVE  Held(r) \in Registers /\ r \in Fields /\ Slot[r] = Popping[Held(r)]
<1>1. PICK k \in (1 .. 15) \cup (18 .. 22) : InterruptFrame[k] = r
  BY RegisterNames DEF InterruptFrame
<1>2. Popped[k] = Held(r)  BY <1>1 DEF InterruptFrame, Popped, Held
<1>3. Held(r) \in Registers  BY RegisterNames DEF Held
<1>4. Popping[Held(r)] = k
  <2>1. Popping[Held(r)] \in 1 .. 22 /\ Popped[Popping[Held(r)]] = Popped[k]  BY <1>2, <1>3, PopFacts
  <2> QED BY <2>1, PopNames
<1> QED BY <1>1, <1>3, <1>4, SlotFacts

(***************************************************************************)
(* What lies where                                                         *)
(***************************************************************************)
Ahead == {"intr", "err", "irq", "interrupt_wrapper", "irq_wrapper", "interrupt_handler", "irq_handler"}
HandlerPlaces == Ahead \cup {"handler", "popa64", "trace"}
Labels == Registers \cup HandlerPlaces \cup {"run", "start", "stack", "zero"} \cup Nat
Value == (Contexts \cup {Kernel, "number"}) \X Labels

\* The k-th value from the top.
Top(s, k) == s[Len(s) + 1 - k]

\* What popa64, add rsp, 16 and iretq load.
Loaded(s) == [r \in Registers |-> Top(s, Popping[r])]

\* A task that has not run yet.
New(c) == [r \in Registers |-> IF r \in ToSet(ByProcessor) THEN Context(c)[r]
                               ELSE <<c, IF r = "rsi" THEN "stack" ELSE "zero">>]
Left(c) == {Own(c), New(c)}

LEMMA TopOfConcat ==
  ASSUME NEW V, NEW s \in Seq(V), NEW t \in Seq(V)
  PROVE  /\ s \o t \in Seq(V) /\ Len(s \o t) = Len(s) + Len(t)
         /\ \A k \in 1 .. Len(t) : Top(s \o t, k) = t[Len(t) + 1 - k]
         /\ \A k \in (Len(t) + 1) .. (Len(t) + Len(s)) : Top(s \o t, k) = Top(s, k - Len(t))
  BY DEF Top

LEMMA Contents ==
  /\ \A n \in Nat : Num(n) \in Value
  /\ \A c \in Contexts \cup {Kernel} : \A p \in Labels : <<c, p>> \in Value
  /\ \A c \in Contexts \cup {Kernel} : Own(c) \in [Registers -> Value]
  /\ \A c \in Contexts : New(c) \in [Registers -> Value]
  /\ \A c \in Contexts : Context(c) \in [Fields -> Value]
<1>1. \A n \in Nat : Num(n) \in Value  BY DEF Num, Value, Labels
<1>2. \A c \in Contexts \cup {Kernel} : \A p \in Labels : <<c, p>> \in Value  BY DEF Value
<1>3. Registers \subseteq Labels /\ {"run", "start", "stack", "zero"} \subseteq Labels  BY DEF Labels
<1>4. {"rip", "rsp", "rflags", "cs", "ss"} \subseteq Registers  BY RegisterNames
<1>5. \A c \in Contexts \cup {Kernel} : Own(c) \in [Registers -> Value]
  <2> SUFFICES ASSUME NEW c \in Contexts \cup {Kernel}, NEW r \in Registers PROVE Own(c)[r] \in Value
    BY DEF Own
  <2>1. <<c, r>> \in Value /\ <<c, "run">> \in Value  BY <1>2, <1>3
  <2> QED BY <2>1 DEF Own
<1>6. \A c \in Contexts : Context(c) \in [Fields -> Value]
  <2> SUFFICES ASSUME NEW c \in Contexts, NEW f \in Fields PROVE Context(c)[f] \in Value
    BY DEF Context
  <2>1. <<c, "start">> \in Value /\ <<c, "stack">> \in Value /\ <<c, "zero">> \in Value  BY <1>2, <1>3
  <2>2. f \in {"rsp", "rflags", "cs", "ss"} => <<c, f>> \in Value  BY <1>2, <1>3, <1>4
  <2> QED BY <2>1, <2>2 DEF Context
<1>7. ToSet(ByProcessor) \subseteq Fields
  <2>1. ToSet(ByProcessor) \subseteq Registers  BY DEF Registers
  <2> QED BY <2>1, HeldFacts
<1>8. \A c \in Contexts : New(c) \in [Registers -> Value]
  <2> SUFFICES ASSUME NEW c \in Contexts, NEW r \in Registers PROVE New(c)[r] \in Value
    BY DEF New
  <2>1. <<c, "stack">> \in Value /\ <<c, "zero">> \in Value  BY <1>2, <1>3
  <2> QED BY <1>6, <1>7, <2>1 DEF New
<1> QED BY <1>1, <1>2, <1>5, <1>6, <1>8

(***************************************************************************)
(* The invariant of a processor.  On its way to the handlers the stack has *)
(* what was interrupted, piece by piece, on top: the processor's part, its *)
(* error code or a made-up one, the vector and the other registers.  Below *)
(* is an interrupted handler's frame, if an exception interrupted one, and *)
(* nothing otherwise, so that what is loaded in the end is what a context  *)
(* left, be it the one that was interrupted or one that was saved.         *)
(***************************************************************************)
CpuTypeOK == /\ regs \in [Registers -> Value] /\ current \in Contexts
             /\ saved \in [Tasks -> [Fields -> Value]]
             /\ stack \in Seq(Value)
             /\ irr \subseteq Requests
             /\ entry \in [regs : [Registers -> Value], raised : 0 .. 255, no : 0 .. 255,
                           err : Value, ist : Nat, others : BOOLEAN]

ContextInv == IF InHandler THEN Place \in HandlerPlaces ELSE stack = <<>> /\ regs \in Left(current)

\* The processor's part lies under d other values.
Under(d) == Len(stack) >= 5 + d /\ \A k \in 1 .. 5 : Top(stack, k + d) = entry.regs[ByProcessor[6 - k]]
Kept == \A r \in ToSet(Pushed) : regs[r] = entry.regs[r]

StackInv ==
  /\ Place \in {"intr", "irq"} => Under(0) /\ Kept /\ entry.err = Num(255)
  /\ Place = "err" => Under(1) /\ Kept /\ Top(stack, 1) = entry.err
  /\ Place \in {"interrupt_wrapper", "irq_wrapper"} =>
       Under(2) /\ Kept /\ Top(stack, 2) = entry.err /\ Top(stack, 1) = Num(entry.no)
  /\ Place \in {"interrupt_handler", "irq_handler"} =>
       Len(stack) >= 22 /\ Loaded(stack) = entry.regs /\ Top(stack, 17) = entry.err
                        /\ Top(stack, 16) = Num(entry.no)

\* An interrupt is taken outside handlers only, and returned from.
IrqInv ==
  /\ Place \in {"irq", "irq_wrapper", "irq_handler"} => entry.regs \in Left(current)
  /\ Place = "irq" => Len(stack) = 5
  /\ Place = "irq_wrapper" => Len(stack) = 7
  /\ Place \in {"irq_handler", "handler", "popa64"} => Len(stack) = 22
  /\ Place \in {"handler", "popa64"} => Loaded(stack) \in Left(current)

SavedInv == \A c \in Tasks : [r \in Registers |-> saved[c][InterruptFrame[Popping[r]]]] \in Left(c)

IstInv == ((entry.ist # 0) <=> (entry.no \in {1, 2, 8, 18})) \/ entry.others

CpuInv == CpuTypeOK /\ ContextInv /\ StackInv /\ IrqInv /\ SavedInv /\ IstInv

LEMMA LeftFacts ==
  ASSUME NEW c \in Contexts, NEW x \in Left(c)
  PROVE  /\ x \in [Registers -> Value]
         /\ x["rip"][1] = c /\ c # Kernel
         /\ \/ x["rip"][2] = "run" /\ x = Own(c)
            \/ x["rip"][2] = "start" /\ x = New(c)
<1>1. x \in [Registers -> Value]  BY Contents DEF Left
<1>2. "rip" \in Registers /\ "rip" \in ToSet(ByProcessor) /\ "rip" \in Fields
  BY RegisterNames, HeldFacts DEF ToSet, ByProcessor
<1>3. Own(c)["rip"] = <<c, "run">>  BY <1>2 DEF Own
<1>4. New(c)["rip"] = <<c, "start">>  BY <1>2 DEF New, Context
<1>5. c # Kernel  BY InterruptsAssumption DEF Kernel
<1> QED BY <1>1, <1>3, <1>4, <1>5 DEF Left

\* FrameAgrees and ContextRestored are consequences.
LEMMA CpuInvImplies == CpuInv => FrameAgrees /\ ContextRestored
<1> SUFFICES ASSUME CpuInv PROVE FrameAgrees /\ ContextRestored  OBVIOUS
<1>1. FrameAgrees
  <2> SUFFICES ASSUME Place \in {"irq_handler", "interrupt_handler"}
               PROVE  LET frame_ == FrameAt(stack)
                      IN  /\ \A f \in Registers : frame_[f] = entry.regs[Held(f)]
                          /\ frame_["int_no"] = Num(entry.no) /\ frame_["err"] = entry.err
                          /\ (entry.ist # 0) = (entry.no \in {1, 2, 8, 18}) \/ entry.others
    BY DEF FrameAgrees
  <2>1. ASSUME NEW f \in Registers PROVE FrameAt(stack)[f] = entry.regs[Held(f)]
    <3>1. FrameAt(stack)[f] = Top(stack, Popping[Held(f)])  BY HeldFacts DEF FrameAt, Top
    <3>2. Loaded(stack)[Held(f)] = Top(stack, Popping[Held(f)])  BY HeldFacts DEF Loaded
    <3> QED BY <3>1, <3>2 DEF CpuInv, StackInv
  <2>2. FrameAt(stack)["int_no"] = Top(stack, 16) /\ FrameAt(stack)["err"] = Top(stack, 17)
    <3>1. InterruptFrame[16] = "int_no" /\ InterruptFrame[17] = "err"  BY DEF InterruptFrame
    <3>2. {"int_no", "err"} \subseteq Fields /\ Slot["int_no"] = 16 /\ Slot["err"] = 17
      <4>1. 16 \in 1 .. 22 /\ 17 \in 1 .. 22  OBVIOUS
      <4> QED BY <3>1, <4>1, SlotFacts
    <3> QED BY <3>2 DEF FrameAt, Top
  <2>3. (entry.ist # 0) = (entry.no \in {1, 2, 8, 18}) \/ entry.others  BY DEF CpuInv, IstInv
  <2> QED BY <2>1, <2>2, <2>3 DEF CpuInv, StackInv
<1>2. ContextRestored
  <2> SUFFICES ASSUME InterruptsOn PROVE stack = <<>> /\ (IF Place = "run" THEN regs = Own(current) ELSE regs = New(current))
    BY DEF ContextRestored, New
  <2>1. stack = <<>> /\ regs \in Left(current) /\ current \in Contexts
    BY DEF CpuInv, CpuTypeOK, ContextInv, InterruptsOn
  <2> QED BY <2>1, LeftFacts DEF Place
<1> QED BY <1>1, <1>2

LEMMA CpuStarts == InterruptsInit => CpuInv
<1> SUFFICES ASSUME InterruptsInit PROVE CpuInv  OBVIOUS
<1> USE DEF InterruptsInit
<1>1. First \in Contexts /\ regs = Own(First) /\ current = First /\ stack = <<>>
  BY InterruptsAssumption
<1>2. regs \in Left(current)  BY <1>1 DEF Left
<1>3. ~InHandler /\ Place = "run" /\ regs \in [Registers -> Value]
  <2>1. Own(First)["rip"] = <<First, "run">>  BY RegisterNames DEF Own
  <2> QED BY <1>1, <1>2, <2>1, LeftFacts DEF InHandler, Place
<1>4. CpuTypeOK
  <2>1. saved \in [Tasks -> [Fields -> Value]]  BY Contents DEF Tasks
  <2>2. entry.err \in Value  BY Contents
  <2>3. entry \in [regs : [Registers -> Value], raised : 0 .. 255, no : 0 .. 255,
                           err : Value, ist : Nat, others : BOOLEAN]  BY <1>3, <2>2
  <2> QED BY <1>1, <1>3, <2>1, <2>3 DEF CpuTypeOK
<1>5. SavedInv
  <2> SUFFICES ASSUME NEW c \in Tasks
               PROVE  [r \in Registers |-> Context(c)[InterruptFrame[Popping[r]]]] = New(c)
    BY DEF SavedInv, Left
  <2> SUFFICES ASSUME NEW r \in Registers
               PROVE  Context(c)[InterruptFrame[Popping[r]]] = New(c)[r]
    BY DEF New
  <2>1. Popping[r] \in (1 .. 15) \cup (18 .. 22) /\ Popped[Popping[r]] = r  BY PopFacts
  <2>2. InterruptFrame[Popping[r]] \in Fields
    <3>1. Popping[r] \in 1 .. 22  BY <2>1
    <3> QED BY <3>1, SlotFacts
  <2>3. ToSet(ByProcessor) = {"ss", "rsp", "rflags", "cs", "rip"}
    <3>1. DOMAIN ByProcessor = 1 .. 5  BY DEF ByProcessor
    <3> QED BY <3>1 DEF ToSet, ByProcessor
  <2>4. CASE Popping[r] \in 18 .. 22
    <3>1. InterruptFrame[Popping[r]] = r /\ r \in ToSet(ByProcessor)
      BY <2>1, <2>3, <2>4, TailAgrees
    <3> QED BY <3>1 DEF New
  <2>5. CASE Popping[r] \in 1 .. 15
    <3>1. r \notin ToSet(ByProcessor)  BY <2>1, <2>3, <2>5, FrameAndPop
    <3>2. InterruptFrame[Popping[r]] = IF r = "rsi" THEN "rbp" ELSE IF r = "rdi" THEN "rsi" ELSE IF r = "rbp" THEN "rdi" ELSE r
      BY <2>1, <2>5, FrameAndPop
    <3>3. InterruptFrame[Popping[r]] \notin {"rip", "rsp", "rflags", "cs", "ss"}  BY <2>3, <3>1, <3>2
    <3>4. InterruptFrame[Popping[r]] = "rbp" <=> r = "rsi"  BY <3>2
    <3> QED BY <2>2, <3>1, <3>3, <3>4 DEF New, Context
  <2> QED BY <2>1, <2>4, <2>5
<1>6. ContextInv  BY <1>1, <1>2, <1>3 DEF ContextInv
<1>7. IstInv  BY DEF IstInv
<1>8. StackInv /\ IrqInv  BY <1>3 DEF StackInv, IrqInv
<1> QED BY <1>4, <1>5, <1>6, <1>7, <1>8 DEF CpuInv

(***************************************************************************)
(* Delivery                                                                *)
(***************************************************************************)
LEMMA PartNames ==
  /\ ToSet(Pushed) = {"rax", "rbx", "rcx", "rdx", "rsi", "rdi", "rbp", "r8", "r9", "r10", "r11",
                      "r12", "r13", "r14", "r15"}
  /\ ToSet(ByProcessor) = {"ss", "rsp", "rflags", "cs", "rip"}
<1>1. DOMAIN Pushed = 1 .. 15 /\ DOMAIN ByProcessor = 1 .. 5  BY DEF Pushed, ByProcessor
<1>2. ToSet(Pushed) = {"rax", "rbx", "rcx", "rdx", "rsi", "rdi", "rbp", "r8", "r9", "r10", "r11",
                      "r12", "r13", "r14", "r15"}
  BY <1>1 DEF ToSet, Pushed
<1>3. ToSet(ByProcessor) = {"ss", "rsp", "rflags", "cs", "rip"}
  BY <1>1 DEF ToSet, ByProcessor
<1> QED BY <1>2, <1>3

Ready == \A v \in Vectors : /\ idt[v].code = EntryCode(v)
                            /\ idt[v].ist = Ist(v) \/ (inits.busy /\ idt[v].ist = 0)

LEMMA VectorRange == Vectors \subseteq 0 .. 255
<1>1. Exceptions \subseteq 0 .. 255
  <2> SUFFICES ASSUME NEW v \in Exceptions PROVE v \in 0 .. 255  OBVIOUS
  <2>1. v \in 0 .. 31  BY InterruptsAssumption
  <2> QED BY <2>1
<1>2. Requests \subseteq 0 .. 255
  <2> SUFFICES ASSUME NEW v \in Requests PROVE v \in 0 .. 255  OBVIOUS
  <2>1. v \in 32 .. 255  BY InterruptsAssumption
  <2> QED BY <2>1
<1> QED BY <1>1, <1>2 DEF Vectors, PageFault, DoubleFault, GeneralProtection

\* What is taken has a gate, whose entry code expects an error code exactly if
\* the processor pushes one.
LEMMA TakenFacts ==
  ASSUME Ready, NEW vector \in Vectors
  PROVE  /\ Taken(vector) \in Vectors /\ Taken(vector) \in 0 .. 255 /\ vector \in 0 .. 255
         /\ idt[Taken(vector)].code \in {"intr", "err", "irq"}
         /\ HasErrorCode(Taken(vector)) <=> idt[Taken(vector)].code = "err"
         /\ idt[Taken(vector)].code = "irq" => vector \in Requests
<1> USE InterruptsAssumption DEF Vectors, PageFault, DoubleFault, GeneralProtection
<1>1. vector \in 0 .. 255 /\ (vector \in 32 .. 255 <=> vector \in Requests)
  OBVIOUS
<1>2. idt[vector].code = EntryCode(vector)  BY DEF Ready
<1>3. Taken(vector) \in Vectors /\ Taken(vector) # PageFault
  BY <1>2 DEF Taken, EntryCode
<1>4. idt[Taken(vector)].code = EntryCode(Taken(vector))  BY <1>3 DEF Ready
<1>5. Taken(vector) \in 32 .. 255 => Taken(vector) = vector /\ vector \in 32 .. 47
  BY <1>1, <1>2 DEF Taken, EntryCode
<1>6. Taken(vector) \notin Unraised  BY <1>3 DEF Unraised
<1> HIDE InterruptsAssumption DEF Vectors, PageFault, DoubleFault, GeneralProtection
<1>7. Taken(vector) \in 0 .. 255  BY <1>3, VectorRange
<1> DEFINE t == Taken(vector)
<1> HIDE DEF t
<1>8. EntryCode(t) \in {"intr", "err", "irq"} /\ (EntryCode(t) = "irq" <=> t \in 32 .. 47)
  BY <1>3, <1>5, <1>7 DEF EntryCode, PageFault, t
<1>9. HasErrorCode(t) <=> EntryCode(t) = "err"
  BY <1>3, <1>5, <1>6, <1>7 DEF EntryCode, HasErrorCode, PageFault, t, Unraised
<1> QED BY <1>1, <1>3, <1>4, <1>5, <1>7, <1>8, <1>9 DEF t

LEMMA Delivers ==
  ASSUME CpuInv, Ready, NEW vector \in Vectors, Deliver(vector),
         InterruptsOn \/ (Place = "handler" /\ vector \notin Requests),
         UNCHANGED <<current, saved>>, irr' \subseteq Requests, inits.busy \in BOOLEAN
  PROVE  CpuInv'
<1> DEFINE t == Taken(vector)
           x == Num(IF t # vector /\ t # DoubleFault THEN vector * 8 + 3 ELSE 0)
           code == IF ~HasErrorCode(t) THEN <<>> ELSE <<x>>
           part == Values(regs, ByProcessor)
           place == idt[t].code
<1>1. /\ t \in Vectors /\ t \in 0 .. 255 /\ vector \in 0 .. 255
      /\ place \in {"intr", "err", "irq"}
      /\ HasErrorCode(t) <=> place = "err"
      /\ place = "irq" => vector \in Requests
  BY TakenFacts
<1>2. x \in Value
  <2>1. (IF t # vector /\ t # DoubleFault THEN vector * 8 + 3 ELSE 0) \in Nat  BY <1>1
  <2> QED BY <2>1, Contents
<1>3. /\ stack' = stack \o (part \o code)
      /\ regs' = [r \in Registers |->
                    CASE r = "rip" -> <<Kernel, place>>
                      [] r \in {"rsp", "rflags", "cs", "ss"} -> <<Kernel, r>>
                      [] OTHER -> regs[r]]
      /\ entry' = [regs |-> regs, raised |-> vector, no |-> t,
                   err |-> IF code = <<>> THEN Num(255) ELSE code[1],
                   ist |-> idt[t].ist, others |-> inits.busy]
  BY DEF Deliver, Push
<1> HIDE DEF t, x
<1>4. part \in Seq(Value) /\ Len(part) = 5 /\ \A k \in 1 .. 5 : part[k] = regs[ByProcessor[k]]
  <2>1. \A k \in 1 .. 5 : ByProcessor[k] \in Registers  BY RegisterNames DEF ByProcessor
  <2>2. DOMAIN ByProcessor = 1 .. 5  BY DEF ByProcessor
  <2>3. regs \in [Registers -> Value]  BY DEF CpuInv, CpuTypeOK
  <2>4. part = [k \in 1 .. 5 |-> regs[ByProcessor[k]]]  BY <2>2 DEF Values
  <2> QED BY <2>1, <2>3, <2>4
<1> HIDE DEF part
<1>5. stack \in Seq(Value)  BY DEF CpuInv, CpuTypeOK
<1>6. /\ regs'["rip"] = <<Kernel, place>> /\ regs' \in [Registers -> Value]
      /\ \A r \in ToSet(Pushed) : regs'[r] = regs[r]
  <2>1. <<Kernel, place>> \in Value  BY <1>1, Contents DEF Labels, HandlerPlaces, Ahead
  <2>2. \A r \in Registers : <<Kernel, r>> \in Value  BY Contents DEF Labels
  <2>3. regs \in [Registers -> Value]  BY DEF CpuInv, CpuTypeOK
  <2>4. "rip" \in Registers  BY RegisterNames
  <2>5. \A r \in ToSet(Pushed) : r \in Registers /\ r \notin {"rip", "rsp", "rflags", "cs", "ss"}
    BY PartNames, RegisterNames
  <2> QED BY <1>3, <2>1, <2>2, <2>3, <2>4, <2>5
<1>7. entry'.regs = regs /\ entry'.no = t /\ Place' = place /\ InHandler'
  BY <1>3, <1>6 DEF Place, InHandler
<1>8. \A k \in 1 .. 5 : 6 - k \in 1 .. 5 /\ part[6 - k] = entry'.regs[ByProcessor[6 - k]]
  BY <1>4, <1>7
<1>9. ASSUME place = "err" PROVE StackInv' /\ IrqInv' /\ entry'.err \in Value /\ stack' \in Seq(Value)
  <2>1. code = <<x>> /\ entry'.err = x  BY <1>1, <1>3, <1>9
  <2>2. <<x>> \in Seq(Value) /\ Len(<<x>>) = 1  BY <1>2
  <2>3. /\ part \o <<x>> \in Seq(Value) /\ Len(part \o <<x>>) = 6
        /\ Top(part \o <<x>>, 1) = x
        /\ \A k \in 2 .. 6 : Top(part \o <<x>>, k) = Top(part, k - 1)
    <3> DEFINE last == <<x>>
    <3>1. last \in Seq(Value) /\ Len(last) = 1 /\ last[1] = x  BY <2>2
    <3> HIDE DEF last
    <3>2. /\ part \o last \in Seq(Value) /\ Len(part \o last) = Len(part) + Len(last)
          /\ \A k \in 1 .. Len(last) : Top(part \o last, k) = last[Len(last) + 1 - k]
          /\ \A k \in (Len(last) + 1) .. (Len(last) + Len(part)) : Top(part \o last, k) = Top(part, k - Len(last))
      <4>1. part \in Seq(Value) /\ last \in Seq(Value)  BY <1>4, <3>1
      <4> QED BY ONLY <4>1, TopOfConcat
    <3>3. Top(part \o last, 1) = last[1]  BY <3>1, <3>2
    <3> QED BY <1>4, <3>1, <3>2, <3>3 DEF last
  <2>4. /\ stack' \in Seq(Value) /\ Len(stack') = Len(stack) + 6
        /\ \A k \in 1 .. 6 : Top(stack', k) = Top(part \o <<x>>, k)
    <3> DEFINE pushed == part \o <<x>>
    <3> HIDE DEF pushed
    <3>1. pushed \in Seq(Value) /\ Len(pushed) = 6  BY <2>3 DEF pushed
    <3>2. /\ stack \o pushed \in Seq(Value) /\ Len(stack \o pushed) = Len(stack) + Len(pushed)
          /\ \A k \in 1 .. Len(pushed) : Top(stack \o pushed, k) = pushed[Len(pushed) + 1 - k]
      <4>1. pushed \in Seq(Value)  BY <3>1
      <4> QED BY ONLY <1>5, <4>1, TopOfConcat
    <3>3. stack' = stack \o pushed  BY <1>3, <2>1 DEF pushed
    <3>4. \A k \in 1 .. 6 : Top(stack', k) = Top(pushed, k)  BY <3>1, <3>2, <3>3 DEF Top
    <3> QED BY <3>1, <3>2, <3>3, <3>4 DEF pushed
  <2>5. \A k \in 1 .. 5 : Top(stack', k + 1) = part[6 - k]
    <3> SUFFICES ASSUME NEW k \in 1 .. 5 PROVE Top(stack', k + 1) = part[6 - k]  OBVIOUS
    <3>1. k + 1 \in 2 .. 6 /\ k + 1 \in 1 .. 6 /\ (k + 1) - 1 = k  OBVIOUS
    <3>2. Top(stack', k + 1) = Top(part, k)  BY <3>1, <2>3, <2>4
    <3> QED BY <3>2, <1>4 DEF Top
  <2>6. StackInv'
    <3>1. Under(1)'  BY <1>5, <1>8, <2>4, <2>5 DEF Under, Top
    <3>2. Kept'  BY <1>6, <1>7 DEF Kept
    <3>3. Top(stack', 1) = x  BY <2>3, <2>4
    <3> QED BY <1>7, <1>9, <2>1, <3>1, <3>2, <3>3 DEF StackInv
  <2>7. IrqInv'  BY <1>7, <1>9 DEF IrqInv
  <2>8. entry'.err \in Value /\ stack' \in Seq(Value)  BY <1>2, <2>1, <2>4
  <2> QED BY <2>6, <2>7, <2>8
<1>10. ASSUME place # "err" PROVE StackInv' /\ IrqInv' /\ entry'.err \in Value /\ stack' \in Seq(Value)
  <2>1. code = <<>> /\ entry'.err = Num(255)  BY <1>1, <1>3, <1>10
  <2>2. stack' = stack \o part
    <3>1. part \o <<>> = part  BY <1>4
    <3> QED BY <1>3, <2>1, <3>1
  <2>3. /\ stack' \in Seq(Value) /\ Len(stack') = Len(stack) + 5
        /\ \A k \in 1 .. 5 : Top(stack', k) = part[6 - k]
    <3>0. part \in Seq(Value)  BY <1>4
    <3>1. /\ stack \o part \in Seq(Value) /\ Len(stack \o part) = Len(stack) + Len(part)
          /\ \A k \in 1 .. Len(part) : Top(stack \o part, k) = part[Len(part) + 1 - k]
      BY ONLY <1>5, <3>0, TopOfConcat
    <3> QED BY <1>4, <2>2, <3>1
  <2>4. StackInv'
    <3>1. Under(0)'  BY <1>5, <1>8, <2>3 DEF Under
    <3>2. Kept'  BY <1>6, <1>7 DEF Kept
    <3> QED BY <1>1, <1>7, <1>10, <2>1, <3>1, <3>2 DEF StackInv
  <2>5. IrqInv'
    <3>1. CASE place = "irq"
      <4>1. InterruptsOn  BY <1>1, <3>1
      <4>2. stack = <<>> /\ regs \in Left(current)
        BY <4>1 DEF CpuInv, ContextInv, InterruptsOn
      <4>3. Len(stack') = 5  BY <2>3, <4>2
      <4>4. regs \in Left(current')  BY <4>2
      <4>5. Left(current)' = Left(current')  BY DEF Left, Own, New, Context
      <4> QED BY <1>7, <3>1, <4>3, <4>4, <4>5 DEF IrqInv
    <3>2. CASE place = "intr"  BY <1>7, <3>2 DEF IrqInv
    <3> QED BY <1>1, <1>10, <3>1, <3>2
  <2>6. entry'.err \in Value /\ stack' \in Seq(Value)  BY Contents, <2>1, <2>3
  <2> QED BY <2>4, <2>5, <2>6
<1>11. ContextInv'  BY <1>1, <1>7 DEF ContextInv, HandlerPlaces, Ahead
<1>12. SavedInv'  BY DEF CpuInv, SavedInv, Left, Own, New, Context
<1>13. idt[t].ist = Ist(t) \/ (inits.busy /\ idt[t].ist = 0)  BY <1>1 DEF Ready
<1>14. Ist(t) \in Nat /\ (Ist(t) # 0 <=> t \in {1, 2, 8, 18})  BY <1>1 DEF Ist
<1>15. IstInv'  BY <1>3, <1>13, <1>14 DEF IstInv
<1>16. CpuTypeOK'
  <2>1. entry'.err \in Value /\ stack' \in Seq(Value)  BY <1>9, <1>10
  <2>2. idt[t].ist \in Nat  BY <1>13, <1>14
  <2>3. entry' \in [regs : [Registers -> Value], raised : 0 .. 255, no : 0 .. 255,
                    err : Value, ist : Nat, others : BOOLEAN]
    <3>1. regs \in [Registers -> Value]  BY DEF CpuInv, CpuTypeOK
    <3> QED BY <1>1, <1>3, <2>1, <2>2, <3>1
  <2> QED BY <1>6, <2>1, <2>3 DEF CpuInv, CpuTypeOK
<1> QED BY <1>9, <1>10, <1>11, <1>12, <1>15, <1>16 DEF CpuInv

(***************************************************************************)
(* The entry code and the dispatcher                                       *)
(***************************************************************************)
LEMMA SameLeft == \A c : Left(c)' = Left(c')
  BY DEF Left, Own, New, Context

LEMMA Unmoved ==
  ASSUME CpuInv, UNCHANGED <<current, saved, entry, irr>>,
         regs' \in [Registers -> Value], stack' \in Seq(Value)
  PROVE  CpuTypeOK' /\ SavedInv' /\ IstInv'
<1>1. CpuTypeOK'  BY DEF CpuInv, CpuTypeOK
<1>2. SavedInv'  BY DEF CpuInv, SavedInv, Left, Own, New, Context
<1>3. IstInv'  BY DEF CpuInv, IstInv
<1> QED BY <1>1, <1>2, <1>3

LEMMA Untouched ==
  ASSUME CpuInv, UNCHANGED <<regs, current, saved, stack, entry>>, irr' \subseteq Requests
  PROVE  CpuInv'
<1>1. CpuTypeOK'  BY DEF CpuInv, CpuTypeOK
<1>2. ContextInv'  BY DEF CpuInv, ContextInv, InHandler, Place, Left, Own, New, Context
<1>3. StackInv'  BY DEF CpuInv, StackInv, Under, Kept, Place, Loaded, Top
<1>4. IrqInv'
  <2>1. Place' = Place /\ Loaded(stack)' = Loaded(stack)  BY DEF Place, Loaded, Top
  <2>2. Left(current)' = Left(current)  BY SameLeft
  <2> QED BY <2>1, <2>2 DEF CpuInv, IrqInv
<1>5. SavedInv'  BY DEF CpuInv, SavedInv, Left, Own, New, Context
<1>6. IstInv'  BY DEF CpuInv, IstInv
<1> QED BY <1>1, <1>2, <1>3, <1>4, <1>5, <1>6 DEF CpuInv

LEMMA Going ==
  ASSUME CpuInv, NEW place \in HandlerPlaces, regs' = Goto(place) \/ regs' = Clobbered(place)
  PROVE  /\ regs' \in [Registers -> Value] /\ Place' = place /\ InHandler'
         /\ regs' = Goto(place) => \A r \in ToSet(Pushed) : regs'[r] = regs[r]
<1>1. regs \in [Registers -> Value]  BY DEF CpuInv, CpuTypeOK
<1>2. <<Kernel, place>> \in Value  BY Contents DEF Labels
<1>3. \A r \in Registers : <<Kernel, r>> \in Value  BY Contents DEF Labels
<1>4. "rip" \in Registers /\ "rip" \notin ToSet(Pushed)  BY RegisterNames, PartNames
<1>5. regs'["rip"] = <<Kernel, place>> /\ regs' \in [Registers -> Value]
  <2>1. CASE regs' = Goto(place)  BY <1>1, <1>2, <1>4, <2>1 DEF Goto
  <2>2. CASE regs' = Clobbered(place)  BY <1>2, <1>3, <1>4, <2>2 DEF Clobbered
  <2> QED BY <2>1, <2>2
<1>6. regs' = Goto(place) => \A r \in ToSet(Pushed) : regs'[r] = regs[r]
  <2>1. \A r \in ToSet(Pushed) : r \in Registers  BY DEF Registers
  <2> QED BY <1>1, <1>4, <2>1 DEF Goto
<1> QED BY <1>5, <1>6 DEF Place, InHandler

LEMMA SeqElement ==
  ASSUME NEW V, NEW s \in Seq(V), NEW i \in 1 .. Len(s)
  PROVE  s[i] \in V
OBVIOUS

LEMMA SeqEqual ==
  ASSUME NEW V, NEW s \in Seq(V), NEW t \in Seq(V), Len(s) = Len(t), \A i \in 1 .. Len(s) : s[i] = t[i]
  PROVE  s = t
OBVIOUS

LEMMA OneByOne ==
  ASSUME NEW V, NEW a \in V, NEW b \in V
  PROVE  <<a>> \o <<b>> = <<a, b>>
<1> DEFINE s == <<a>> \o <<b>>
<1>1. <<a>> \in Seq(V) /\ <<b>> \in Seq(V) /\ <<a, b>> \in Seq(V)  OBVIOUS
<1>2. s \in Seq(V) /\ Len(s) = 2 /\ Len(<<a, b>>) = 2  BY <1>1
<1>3. s[1] = a /\ s[2] = b  BY <1>1
<1> HIDE DEF s
<1>4. \A i \in 1 .. 2 : s[i] = <<a, b>>[i]  BY <1>3
<1>5. s = <<a, b>>  BY <1>1, <1>2, <1>4, SeqEqual
<1> QED BY <1>5 DEF s

LEMMA StubKeeps == ASSUME CpuInv, Stub PROVE CpuInv'
<1> DEFINE no == Num(entry.no)
           pushed == (IF Place = "err" THEN <<>> ELSE <<Num(255)>>) \o <<no>>
           place == IF Place = "irq" THEN "irq_wrapper" ELSE "interrupt_wrapper"
<1>1. /\ Place \in {"intr", "err", "irq"} /\ stack' = stack \o pushed /\ regs' = Goto(place)
      /\ UNCHANGED <<current, saved, entry, irr>>
  BY DEF Stub, Push, apic
<1>2. stack \in Seq(Value) /\ no \in Value /\ Num(255) \in Value
  <2>1. entry.no \in 0 .. 255  BY DEF CpuInv, CpuTypeOK
  <2>2. entry.no \in Nat  BY <2>1
  <2> QED BY <2>2, Contents DEF CpuInv, CpuTypeOK
<1>3. /\ regs' \in [Registers -> Value] /\ Place' = place /\ InHandler'
      /\ \A r \in ToSet(Pushed) : regs'[r] = regs[r]
  <2>1. place \in HandlerPlaces  BY DEF HandlerPlaces, Ahead
  <2> QED BY <1>1, <2>1, Going
<1> HIDE DEF no
<1>4. /\ stack' \in Seq(Value) /\ Len(stack') = Len(stack) + (IF Place = "err" THEN 1 ELSE 2)
      /\ Top(stack', 1) = no /\ Top(stack', 2) = entry.err /\ Under(2)'
  <2>1. CASE Place = "err"
    <3>1. pushed = <<no>>  BY <2>1
    <3> DEFINE last == <<no>>
    <3>2. last \in Seq(Value) /\ Len(last) = 1 /\ last[1] = no  BY <1>2
    <3>3. stack' = stack \o last  BY <1>1, <3>1
    <3> HIDE DEF last
    <3>4. /\ stack \o last \in Seq(Value) /\ Len(stack \o last) = Len(stack) + Len(last)
          /\ \A k \in 1 .. Len(last) : Top(stack \o last, k) = last[Len(last) + 1 - k]
          /\ \A k \in (Len(last) + 1) .. (Len(last) + Len(stack)) : Top(stack \o last, k) = Top(stack, k - Len(last))
      <4>1. stack \in Seq(Value) /\ last \in Seq(Value)  BY <1>2, <3>2
      <4> QED BY ONLY <4>1, TopOfConcat
    <3>5. Len(stack) >= 6 /\ Top(stack, 1) = entry.err
          /\ \A k \in 1 .. 5 : Top(stack, k + 1) = entry.regs[ByProcessor[6 - k]]
      BY <2>1 DEF CpuInv, StackInv, Under
    <3>6. stack' \in Seq(Value) /\ Len(stack') = Len(stack) + 1 /\ Top(stack', 1) = no
      BY <3>2, <3>3, <3>4 DEF Top
    <3>7. \A k \in 2 .. 7 : Top(stack', k) = Top(stack, k - 1)
      BY <1>2, <3>2, <3>3, <3>4, <3>5 DEF Top
    <3>8. Top(stack', 2) = entry.err  BY <3>5, <3>7
    <3>9. \A k \in 1 .. 5 : Top(stack', k + 2) = entry.regs[ByProcessor[6 - k]]
      <4> SUFFICES ASSUME NEW k \in 1 .. 5 PROVE Top(stack', k + 2) = entry.regs[ByProcessor[6 - k]]  OBVIOUS
      <4>1. k + 2 \in 2 .. 7 /\ (k + 2) - 1 = k + 1  OBVIOUS
      <4>2. Top(stack', k + 2) = Top(stack, k + 1)  BY <3>7, <4>1
      <4> QED BY <3>5, <4>2
    <3>10. Len(stack') >= 5 + 2  BY <1>2, <3>5, <3>6
    <3>11. Under(2)'
      <4>1. entry' = entry  BY <1>1
      <4> QED BY ONLY <3>9, <3>10, <4>1 DEF Under, Top
    <3> QED BY <2>1, <3>6, <3>8, <3>11
  <2>2. CASE Place # "err"
    <3> DEFINE last == <<Num(255), no>>
    <3>1. pushed = last
      <4>1. <<Num(255)>> \o <<no>> = <<Num(255), no>>  BY <1>2, OneByOne
      <4> QED BY <2>2, <4>1
    <3>2. last \in Seq(Value) /\ Len(last) = 2 /\ last[1] = Num(255) /\ last[2] = no  BY <1>2
    <3>3. stack' = stack \o last  BY <1>1, <3>1
    <3> HIDE DEF last
    <3>4. /\ stack \o last \in Seq(Value) /\ Len(stack \o last) = Len(stack) + Len(last)
          /\ \A k \in 1 .. Len(last) : Top(stack \o last, k) = last[Len(last) + 1 - k]
          /\ \A k \in (Len(last) + 1) .. (Len(last) + Len(stack)) : Top(stack \o last, k) = Top(stack, k - Len(last))
      <4>1. stack \in Seq(Value) /\ last \in Seq(Value)  BY <1>2, <3>2
      <4> QED BY ONLY <4>1, TopOfConcat
    <3>5. Len(stack) >= 5 /\ entry.err = Num(255)
          /\ \A k \in 1 .. 5 : Top(stack, k) = entry.regs[ByProcessor[6 - k]]
      BY <1>1, <2>2 DEF CpuInv, StackInv, Under
    <3>6. /\ stack' \in Seq(Value) /\ Len(stack') = Len(stack) + 2
          /\ Top(stack', 1) = no /\ Top(stack', 2) = Num(255)
      BY <3>2, <3>3, <3>4 DEF Top
    <3>7. \A k \in 3 .. 7 : Top(stack', k) = Top(stack, k - 2)
      BY <1>2, <3>2, <3>3, <3>4, <3>5 DEF Top
    <3>9. \A k \in 1 .. 5 : Top(stack', k + 2) = entry.regs[ByProcessor[6 - k]]
      <4> SUFFICES ASSUME NEW k \in 1 .. 5 PROVE Top(stack', k + 2) = entry.regs[ByProcessor[6 - k]]  OBVIOUS
      <4>1. k + 2 \in 3 .. 7 /\ (k + 2) - 2 = k  OBVIOUS
      <4>2. Top(stack', k + 2) = Top(stack, k)  BY <3>7, <4>1
      <4> QED BY <3>5, <4>2
    <3>10. Len(stack') >= 5 + 2  BY <1>2, <3>5, <3>6
    <3>11. Under(2)'
      <4>1. entry' = entry  BY <1>1
      <4> QED BY ONLY <3>9, <3>10, <4>1 DEF Under, Top
    <3> QED BY <2>2, <3>5, <3>6, <3>11
  <2> QED BY <2>1, <2>2
<1>5. CpuTypeOK' /\ SavedInv' /\ IstInv'  BY <1>1, <1>3, <1>4, Unmoved
<1>6. ContextInv'  BY <1>3 DEF ContextInv, HandlerPlaces, Ahead
<1>7. StackInv'
  <2>1. Kept  BY <1>1 DEF CpuInv, StackInv
  <2>2. Kept'  BY <1>1, <1>3, <2>1 DEF Kept
  <2>3. Num(entry.no)' = no  BY <1>1 DEF no, Num
  <2> QED BY <1>1, <1>3, <1>4, <2>2, <2>3 DEF StackInv
<1>8. IrqInv'
  <2>1. CASE Place = "irq"
    <3>1. Len(stack) = 5 /\ entry.regs \in Left(current)  BY <2>1 DEF CpuInv, IrqInv
    <3>2. Len(stack') = 7  BY <1>4, <2>1, <3>1
    <3>3. entry'.regs \in Left(current)'  BY <1>1, <3>1, SameLeft
    <3> QED BY <1>3, <2>1, <3>2, <3>3 DEF IrqInv
  <2>2. CASE Place # "irq"  BY <1>3, <2>2 DEF IrqInv
  <2> QED BY <2>1, <2>2
<1> QED BY <1>5, <1>6, <1>7, <1>8 DEF CpuInv

LEMMA WrapperKeeps == ASSUME CpuInv, Wrapper PROVE CpuInv'
<1> DEFINE pushed == Values(regs, Pushed)
           place == IF Place = "irq_wrapper" THEN "irq_handler" ELSE "interrupt_handler"
<1>1. /\ Place \in {"irq_wrapper", "interrupt_wrapper"} /\ stack' = stack \o pushed
      /\ regs' = Goto(place) /\ UNCHANGED <<current, saved, entry, irr>>
  BY DEF Wrapper, Push, apic
<1>2. stack \in Seq(Value) /\ regs \in [Registers -> Value] /\ entry.regs \in [Registers -> Value]
  BY DEF CpuInv, CpuTypeOK
<1>3. regs' \in [Registers -> Value] /\ Place' = place /\ InHandler'
  <2>1. place \in HandlerPlaces  BY DEF HandlerPlaces, Ahead
  <2> QED BY <1>1, <2>1, Going
<1>4. pushed \in Seq(Value) /\ Len(pushed) = 15 /\ \A k \in 1 .. 15 : pushed[k] = regs[Pushed[k]]
  <2>1. DOMAIN Pushed = 1 .. 15  BY DEF Pushed
  <2>2. \A k \in 1 .. 15 : Pushed[k] \in Registers  BY <2>1 DEF Registers, ToSet
  <2>3. pushed = [k \in 1 .. 15 |-> regs[Pushed[k]]]  BY <2>1 DEF Values
  <2>4. \A k \in 1 .. 15 : regs[Pushed[k]] \in Value  BY <1>2, <2>2
  <2> HIDE DEF pushed, place
  <2> QED BY ONLY <2>3, <2>4
<1>5. /\ Under(2) /\ Kept /\ Top(stack, 2) = entry.err /\ Top(stack, 1) = Num(entry.no)
      /\ Len(stack) >= 7
  BY <1>1 DEF CpuInv, StackInv, Under
<1> HIDE DEF pushed
<1>6. pushed \in Seq(Value)  BY <1>4
<1>7. /\ stack \o pushed \in Seq(Value) /\ Len(stack \o pushed) = Len(stack) + Len(pushed)
      /\ \A k \in 1 .. Len(pushed) : Top(stack \o pushed, k) = pushed[Len(pushed) + 1 - k]
      /\ \A k \in (Len(pushed) + 1) .. (Len(pushed) + Len(stack)) : Top(stack \o pushed, k) = Top(stack, k - Len(pushed))
  <2>1. stack \in Seq(Value)  BY <1>2
  <2> QED BY ONLY <1>6, <2>1, TopOfConcat
<1>8. /\ stack' \in Seq(Value) /\ Len(stack') = Len(stack) + 15
      /\ \A k \in 1 .. 15 : Top(stack', k) = pushed[16 - k]
      /\ \A k \in 16 .. 22 : Top(stack', k) = Top(stack, k - 15)
  <2>1. stack' = stack \o pushed /\ Len(pushed) = 15 /\ Len(stack) \in Nat /\ Len(stack) >= 7
    BY <1>1, <1>2, <1>4, <1>5
  <2>2. stack' \in Seq(Value) /\ Len(stack') = Len(stack) + 15  BY <1>7, <2>1
  <2>3. \A k \in 1 .. 15 : Top(stack', k) = pushed[16 - k]
    <3> SUFFICES ASSUME NEW k \in 1 .. 15 PROVE Top(stack', k) = pushed[16 - k]  OBVIOUS
    <3>1. k \in 1 .. Len(pushed) /\ Len(pushed) + 1 - k = 16 - k  BY <2>1
    <3>2. Top(stack \o pushed, k) = pushed[Len(pushed) + 1 - k]  BY <1>7, <3>1
    <3> QED BY <2>1, <3>1, <3>2
  <2>4. \A k \in 16 .. 22 : Top(stack', k) = Top(stack, k - 15)
    <3> SUFFICES ASSUME NEW k \in 16 .. 22 PROVE Top(stack', k) = Top(stack, k - 15)  OBVIOUS
    <3>1. k \in (Len(pushed) + 1) .. (Len(pushed) + Len(stack)) /\ k - Len(pushed) = k - 15  BY <2>1
    <3>2. Top(stack \o pushed, k) = Top(stack, k - Len(pushed))  BY <1>7, <3>1
    <3> QED BY <2>1, <3>1, <3>2
  <2> QED BY <2>2, <2>3, <2>4
<1>9. ASSUME NEW r \in Registers PROVE Top(stack', Popping[r]) = entry.regs[r]
  <2>1. CASE Popping[r] \in 1 .. 15
    <3>1. Pushed[16 - Popping[r]] = r  BY <2>1, PopFacts
    <3>2. 16 - Popping[r] \in 1 .. 15  BY <2>1
    <3>3. Top(stack', Popping[r]) = regs[r]  BY <1>4, <1>8, <2>1, <3>1, <3>2
    <3>4. DOMAIN Pushed = 1 .. 15  BY DEF Pushed
    <3>5. r \in ToSet(Pushed)  BY <3>1, <3>2, <3>4 DEF ToSet
    <3> QED BY <1>5, <3>3, <3>5 DEF Kept
  <2>2. CASE Popping[r] \in 18 .. 22
    <3> DEFINE k == Popping[r] - 17
    <3>1. k \in 1 .. 5 /\ k + 2 = Popping[r] - 15 /\ 6 - k = 23 - Popping[r]  BY <2>2
    <3>2. Top(stack, k + 2) = entry.regs[ByProcessor[6 - k]]  BY <1>5, <3>1 DEF Under
    <3>3. ByProcessor[23 - Popping[r]] = r  BY <2>2, PopFacts
    <3>4. Top(stack', Popping[r]) = Top(stack, Popping[r] - 15)
      <4>1. Popping[r] \in 16 .. 22  BY <2>2
      <4>2. \A q \in 16 .. 22 : Top(stack', q) = Top(stack, q - 15)  BY <1>8
      <4> HIDE DEF k, place
      <4> QED BY ONLY <4>1, <4>2
    <3> QED BY <3>1, <3>2, <3>3, <3>4
  <2> QED BY <2>1, <2>2, PopFacts
<1>10. Loaded(stack') = entry.regs
  BY <1>2, <1>9 DEF Loaded
<1>11. Top(stack', 16) = Num(entry.no) /\ Top(stack', 17) = entry.err
  BY <1>5, <1>8
<1>12. CpuTypeOK' /\ SavedInv' /\ IstInv'  BY <1>1, <1>3, <1>8, Unmoved
<1>13. ContextInv'  BY <1>3 DEF ContextInv, HandlerPlaces, Ahead
<1>14. StackInv'
  <2>1. Num(entry.no)' = Num(entry.no)  BY <1>1 DEF Num
  <2>2. Loaded(stack)' = Loaded(stack')  BY DEF Loaded, Top
  <2> QED BY <1>1, <1>3, <1>5, <1>8, <1>10, <1>11, <2>1, <2>2 DEF StackInv, Top
<1>15. IrqInv'
  <2>1. CASE Place = "irq_wrapper"
    <3>1. Len(stack) = 7 /\ entry.regs \in Left(current)  BY <2>1 DEF CpuInv, IrqInv
    <3>2. Len(stack') = 22  BY <1>8, <3>1
    <3>3. entry'.regs \in Left(current)'  BY <1>1, <3>1, SameLeft
    <3> QED BY <1>3, <2>1, <3>2, <3>3 DEF IrqInv
  <2>2. CASE Place # "irq_wrapper"  BY <1>1, <1>3, <2>2 DEF IrqInv
  <2> QED BY <2>1, <2>2
<1> QED BY <1>12, <1>13, <1>14, <1>15 DEF CpuInv

LEMMA ReportKeeps == ASSUME CpuInv, Report PROVE CpuInv'
<1>1. UNCHANGED <<current, saved, entry, irr>>  BY DEF Report, apic
<1>2. current \in Contexts  BY DEF CpuInv, CpuTypeOK
<1>3. \/ regs' = Own(current) /\ stack' = <<>>
      \/ regs' = Goto("trace") /\ stack' = stack
  BY DEF Report
<1>4. CASE regs' = Own(current) /\ stack' = <<>>
  <2>1. regs' \in Left(current')  BY <1>1, <1>4 DEF Left
  <2>2. Place' = "run" /\ ~InHandler' /\ regs' \in [Registers -> Value]
    <3>1. Own(current)["rip"] = <<current, "run">>  BY RegisterNames DEF Own
    <3>2. current # Kernel  BY <1>2, InterruptsAssumption DEF Kernel
    <3> QED BY <1>2, <1>4, <3>1, <3>2, Contents DEF Place, InHandler
  <2>3. CpuTypeOK' /\ SavedInv' /\ IstInv'  BY <1>1, <1>4, <2>2, Unmoved
  <2>4. ContextInv'  BY <1>4, <2>1, <2>2, SameLeft DEF ContextInv
  <2>5. StackInv' /\ IrqInv'  BY <2>2 DEF StackInv, IrqInv
  <2> QED BY <2>3, <2>4, <2>5 DEF CpuInv
<1>5. CASE regs' = Goto("trace") /\ stack' = stack
  <2>1. "trace" \in HandlerPlaces  BY DEF HandlerPlaces
  <2>2. regs' \in [Registers -> Value] /\ Place' = "trace" /\ InHandler'  BY <1>5, <2>1, Going
  <2>3. stack' \in Seq(Value)  BY <1>5 DEF CpuInv, CpuTypeOK
  <2>4. CpuTypeOK' /\ SavedInv' /\ IstInv'  BY <1>1, <2>2, <2>3, Unmoved
  <2>5. ContextInv'  BY <2>1, <2>2 DEF ContextInv
  <2>6. StackInv' /\ IrqInv'  BY <2>2 DEF StackInv, IrqInv
  <2> QED BY <2>4, <2>5, <2>6 DEF CpuInv
<1> QED BY <1>3, <1>4, <1>5

LEMMA DispatchKeeps == ASSUME CpuInv, Dispatch PROVE CpuInv'
<1>1. Place = "irq_handler" /\ regs' = Clobbered("handler") /\ UNCHANGED <<current, saved, entry, irr, stack>>
  BY DEF Dispatch, apic
<1>2. "handler" \in HandlerPlaces  BY DEF HandlerPlaces
<1>3. regs' \in [Registers -> Value] /\ Place' = "handler" /\ InHandler'  BY <1>1, <1>2, Going
<1>4. stack' \in Seq(Value)  BY <1>1 DEF CpuInv, CpuTypeOK
<1>5. CpuTypeOK' /\ SavedInv' /\ IstInv'  BY <1>1, <1>3, <1>4, Unmoved
<1>6. ContextInv'  BY <1>2, <1>3 DEF ContextInv
<1>7. StackInv'  BY <1>3 DEF StackInv
<1>8. IrqInv'
  <2>1. Len(stack) = 22 /\ Loaded(stack) \in Left(current)
    BY <1>1 DEF CpuInv, IrqInv, StackInv
  <2>2. Loaded(stack)' = Loaded(stack)  BY <1>1 DEF Loaded, Top
  <2>3. Left(current)' = Left(current)  BY <1>1, SameLeft
  <2> QED BY <1>1, <1>3, <2>1, <2>2, <2>3 DEF IrqInv
<1> QED BY <1>5, <1>6, <1>7, <1>8 DEF CpuInv

\* What is saved is what would be loaded, and what is loaded was saved.
LEMMA SwitchKeeps ==
  ASSUME CpuInv, Place = "handler", NEW c \in Tasks, SwitchTo(c)
  PROVE  /\ saved' \in [Tasks -> [Fields -> Value]] /\ SavedInv'
         /\ stack' \in Seq(Value) /\ Len(stack') = 22 /\ current' \in Contexts
         /\ Loaded(stack)' \in Left(current)'
<1>1. /\ stack \in Seq(Value) /\ Len(stack) = 22 /\ Loaded(stack) \in Left(current)
      /\ current \in Contexts /\ saved \in [Tasks -> [Fields -> Value]]
  BY DEF CpuInv, CpuTypeOK, IrqInv
<1>2. /\ saved' = IF current = First THEN saved ELSE [saved EXCEPT ![current] = FrameAt(stack)]
      /\ stack' = WithFrame(stack, saved'[c]) /\ current' = c
  BY DEF SwitchTo
<1>3. FrameAt(stack) \in [Fields -> Value]
  <2> SUFFICES ASSUME NEW f \in Fields PROVE stack[Len(stack) + 1 - Slot[f]] \in Value
    BY DEF FrameAt
  <2>1. Slot[f] \in 1 .. 22  BY SlotFacts
  <2>2. Len(stack) = 22 /\ stack \in Seq(Value)  BY <1>1
  <2>3. Len(stack) + 1 - Slot[f] \in 1 .. Len(stack)
    <3> DEFINE k == Slot[f]
    <3>1. k \in 1 .. 22  BY <2>1
    <3> HIDE DEF k
    <3>2. 22 + 1 - k \in 1 .. 22  BY ONLY <3>1
    <3> QED BY <2>2, <3>2 DEF k
  <2> QED BY ONLY <2>2, <2>3, SeqElement
<1>4. saved' \in [Tasks -> [Fields -> Value]]  BY <1>1, <1>2, <1>3
<1>5. \A r \in Registers : InterruptFrame[Popping[r]] \in Fields /\ Slot[InterruptFrame[Popping[r]]] = Popping[r]
  BY PopFacts, SlotFacts
<1>6. [r \in Registers |-> FrameAt(stack)[InterruptFrame[Popping[r]]]] = Loaded(stack)
  BY <1>5 DEF FrameAt, Loaded, Top
<1>7. ASSUME NEW t \in Tasks PROVE [r \in Registers |-> saved'[t][InterruptFrame[Popping[r]]]] \in Left(t)
  <2>1. CASE current # First /\ t = current
    <3>1. saved'[t] = FrameAt(stack)  BY <1>1, <1>2, <2>1
    <3> QED BY <1>1, <1>6, <2>1, <3>1
  <2>2. CASE current = First \/ t # current
    <3>1. saved'[t] = saved[t]  BY <1>1, <1>2, <2>2
    <3> QED BY <3>1 DEF CpuInv, SavedInv
  <2> QED BY <2>1, <2>2
<1>8. SavedInv'
  <2> SUFFICES ASSUME NEW t \in Tasks
               PROVE  [r \in Registers |-> saved'[t][InterruptFrame[Popping[r]]]] \in Left(t)'
    BY DEF SavedInv, Tasks
  <2> QED BY <1>7, SameLeft
<1>9. saved'[c] \in [Fields -> Value]  BY <1>4
<1> DEFINE frame_ == saved'[c]
<1> HIDE DEF frame_
<1>10. /\ stack' \in Seq(Value) /\ Len(stack') = 22
       /\ \A k \in 1 .. 22 : stack'[k] = frame_[InterruptFrame[23 - k]]
  <2>1. DOMAIN stack = 1 .. 22  BY <1>1
  <2>2. \A k \in 1 .. 22 : Len(stack) + 1 - k \in DOMAIN InterruptFrame /\ Len(stack) + 1 - k = 23 - k
    BY <1>1, FrameNames
  <2>3. stack' = [k \in 1 .. 22 |-> frame_[InterruptFrame[23 - k]]]
    <3>1. stack' = [k \in 1 .. 22 |-> IF Len(stack) + 1 - k \in DOMAIN InterruptFrame
                                       THEN frame_[InterruptFrame[Len(stack) + 1 - k]] ELSE stack[k]]
      BY <1>2, <2>1 DEF WithFrame, frame_
    <3> QED BY <2>2, <3>1
  <2>4. \A k \in 1 .. 22 : frame_[InterruptFrame[23 - k]] \in Value
    <3> SUFFICES ASSUME NEW k \in 1 .. 22 PROVE frame_[InterruptFrame[23 - k]] \in Value  OBVIOUS
    <3>1. 23 - k \in 1 .. 22  OBVIOUS
    <3>2. InterruptFrame[23 - k] \in Fields  BY <3>1, SlotFacts
    <3> QED BY <1>9, <3>2 DEF frame_
  <2> QED BY <2>3, <2>4
<1>11. Loaded(stack)' = [r \in Registers |-> frame_[InterruptFrame[Popping[r]]]]
  <2>1. ASSUME NEW r \in Registers PROVE stack'[Len(stack') + 1 - Popping[r]] = frame_[InterruptFrame[Popping[r]]]
    <3>1. Popping[r] \in 1 .. 22  BY PopFacts
    <3> DEFINE k == 23 - Popping[r]
    <3>2. Len(stack') = 22  BY <1>10
    <3>3. k \in 1 .. 22 /\ 23 - k = Popping[r]  BY <3>1
    <3>4. Len(stack') + 1 - Popping[r] = k  BY <3>1, <3>2
    <3> QED BY <1>10, <3>3, <3>4
  <2> QED BY <2>1 DEF Loaded, Top
<1>12. Loaded(stack)' \in Left(c)  BY <1>7, <1>11 DEF frame_
<1>13. Left(current)' = Left(c)  BY <1>2, SameLeft
<1> QED BY <1>2, <1>4, <1>8, <1>10, <1>12, <1>13 DEF Tasks

LEMMA HandleKeeps == ASSUME CpuInv, Handle PROVE CpuInv'
<1>1. Place = "handler" /\ regs' = Clobbered("popa64") /\ UNCHANGED <<entry, irr>>
  BY DEF Handle
<1>2. "popa64" \in HandlerPlaces  BY DEF HandlerPlaces
<1>3. regs' \in [Registers -> Value] /\ Place' = "popa64" /\ InHandler'  BY <1>1, <1>2, Going
<1>4. /\ saved' \in [Tasks -> [Fields -> Value]] /\ SavedInv'
      /\ stack' \in Seq(Value) /\ Len(stack') = 22 /\ current' \in Contexts
      /\ Loaded(stack)' \in Left(current)'
  <2>1. CASE \E c \in Tasks : SwitchTo(c)  BY <1>1, <2>1, SwitchKeeps
  <2>2. CASE UNCHANGED <<stack, saved, current>>
    <3>1. /\ stack \in Seq(Value) /\ Len(stack) = 22 /\ Loaded(stack) \in Left(current)
          /\ current \in Contexts /\ saved \in [Tasks -> [Fields -> Value]] /\ SavedInv
      BY <1>1 DEF CpuInv, CpuTypeOK, IrqInv
    <3>2. Loaded(stack)' = Loaded(stack)  BY <2>2 DEF Loaded, Top
    <3>3. Left(current)' = Left(current)  BY <2>2, SameLeft
    <3>4. SavedInv'  BY <2>2, <3>1 DEF SavedInv, Left, Own, New, Context
    <3> QED BY <2>2, <3>1, <3>2, <3>3, <3>4
  <2> QED BY <2>1, <2>2 DEF Handle
<1>5. CpuTypeOK'  BY <1>1, <1>3, <1>4 DEF CpuInv, CpuTypeOK
<1>6. ContextInv'  BY <1>2, <1>3 DEF ContextInv
<1>7. StackInv'  BY <1>3 DEF StackInv
<1>8. IrqInv'  BY <1>3, <1>4 DEF IrqInv
<1>9. IstInv'  BY <1>1 DEF CpuInv, IstInv
<1> QED BY <1>4, <1>5, <1>6, <1>7, <1>8, <1>9 DEF CpuInv

LEMMA ReturnKeeps == ASSUME CpuInv, Return PROVE CpuInv'
<1>1. /\ Place = "popa64" /\ UNCHANGED <<current, saved, entry, irr>>
      /\ regs' = Loaded(stack) /\ stack' = SubSeq(stack, 1, Len(stack) - Len(InterruptFrame))
  BY DEF Return, apic, Loaded, Top
<1>2. Len(stack) = 22 /\ Loaded(stack) \in Left(current) /\ stack \in Seq(Value) /\ current \in Contexts
  BY <1>1 DEF CpuInv, CpuTypeOK, IrqInv
<1>3. stack' = <<>>
  <2>1. stack' = SubSeq(stack, 1, 0)  BY <1>1, <1>2, FrameNames
  <2> QED BY <1>2, <2>1
<1>4. /\ regs' \in [Registers -> Value] /\ regs' \in Left(current)' /\ ~InHandler' /\ Place' \in {"run", "start"}
  BY <1>1, <1>2, LeftFacts, SameLeft DEF InHandler, Place
<1>5. CpuTypeOK' /\ SavedInv' /\ IstInv'
  <2>1. stack' \in Seq(Value)  BY <1>3
  <2> QED BY <1>1, <1>4, <2>1, Unmoved
<1>6. ContextInv'  BY <1>3, <1>4 DEF ContextInv
<1>7. StackInv' /\ IrqInv'  BY <1>4 DEF StackInv, IrqInv
<1> QED BY <1>5, <1>6, <1>7 DEF CpuInv

LEMMA BeginKeeps == ASSUME CpuInv, Begin PROVE CpuInv'
<1>1. Place = "start" /\ regs' = Own(current) /\ UNCHANGED <<current, saved, entry, irr, stack>>
  BY DEF Begin, apic
<1>2. ~InHandler /\ stack = <<>> /\ current \in Contexts
  BY <1>1 DEF CpuInv, CpuTypeOK, ContextInv, HandlerPlaces, Ahead
<1>3. regs' \in [Registers -> Value] /\ regs' \in Left(current)' /\ ~InHandler' /\ Place' = "run"
  <2>1. regs' \in Left(current)  BY <1>1 DEF Left
  <2>2. Own(current)["rip"] = <<current, "run">>  BY RegisterNames DEF Own
  <2> QED BY <1>1, <1>2, <2>1, <2>2, LeftFacts, SameLeft DEF InHandler, Place
<1>4. CpuTypeOK' /\ SavedInv' /\ IstInv'  BY <1>1, <1>2, <1>3, Unmoved
<1>5. ContextInv'  BY <1>1, <1>2, <1>3 DEF ContextInv
<1>6. StackInv' /\ IrqInv'  BY <1>3 DEF StackInv, IrqInv
<1> QED BY <1>4, <1>5, <1>6 DEF CpuInv

LEMMA StepKeeps == ASSUME CpuInv, Step PROVE CpuInv'
BY StubKeeps, WrapperKeeps, ReportKeeps, DispatchKeeps, HandleKeeps, ReturnKeeps, BeginKeeps DEF Step

\* The local APIC.
LEMMA HighestFacts ==
  ASSUME NEW S, S \subseteq 32 .. 255, S # {}
  PROVE  Highest(S) \in S
<1> DEFINE T == { 255 - v : v \in S }
<1>1. T \subseteq Nat /\ T # {}
  <2>1. T \subseteq Nat
    <3> SUFFICES ASSUME NEW v \in S PROVE 255 - v \in Nat  OBVIOUS
    <3>1. v \in 32 .. 255  OBVIOUS
    <3> QED BY <3>1
  <2>2. T # {}
    <3>1. PICK v \in S : TRUE  OBVIOUS
    <3>2. 255 - v \in T  OBVIOUS
    <3> QED BY <3>2
  <2> QED BY <2>1, <2>2
<1>2. PICK t \in T : \A u \in T : ~(<<u, t>> \in OpToRel(<, Nat))
  BY <1>1, NatLessThanWellFounded, WFMin
<1>3. PICK v \in S : t = 255 - v  BY <1>2
<1>4. ASSUME NEW w \in S PROVE v >= w
  <2>1. 255 - w \in T  OBVIOUS
  <2>2. ~(255 - w < t)  BY <1>1, <1>2, <2>1 DEF OpToRel
  <2> QED BY <1>3, <2>2
<1> QED BY <1>4 DEF Highest

LEMMA TakeRequestKeeps ==
  ASSUME CpuInv, Ready, inits.busy \in BOOLEAN, TakeRequest
  PROVE  CpuInv'
<1> DEFINE v == Highest(irr)
<1>1. irr \subseteq Requests /\ irr # {} /\ Requests \subseteq 32 .. 255
  BY InterruptsAssumption DEF CpuInv, CpuTypeOK, TakeRequest
<1>2. v \in irr  BY <1>1, HighestFacts
<1>3. InterruptsOn /\ Deliver(v) /\ irr' = irr \ {v} /\ UNCHANGED <<current, saved>>
  BY DEF TakeRequest
<1>4. v \in Vectors  BY <1>1, <1>2 DEF Vectors
<1> HIDE DEF v
<1> QED BY <1>1, <1>3, <1>4, Delivers

LEMMA RaiseKeeps ==
  ASSUME CpuInv, Ready, inits.busy \in BOOLEAN, NEW vector \in Exceptions, Raise(vector)
  PROVE  CpuInv'
<1>1. /\ Place \in {"start", "run", "handler"} /\ Deliver(vector) /\ UNCHANGED <<current, saved, irr>>
  BY DEF Raise, apic
<1>2. vector \in Vectors /\ vector \notin Requests  BY InterruptsAssumption DEF Vectors
<1>3. InterruptsOn \/ Place = "handler"
  BY <1>1 DEF CpuInv, ContextInv, HandlerPlaces, Ahead, InterruptsOn
<1>4. irr' \subseteq Requests  BY <1>1 DEF CpuInv, CpuTypeOK
<1> QED BY <1>1, <1>2, <1>3, <1>4, Delivers

-----------------------------------------------------------------------------
\* Then where the keyboard's interrupt goes, as the firmware's tables have it.

(***************************************************************************)
(* The walk over the MADT                                                  *)
(***************************************************************************)
\* The least of a set of numbers.
LEMMA LeastNumber ==
  ASSUME NEW S \in SUBSET Nat, S # {}
  PROVE  Min(S) \in S /\ \A y \in S : Min(S) <= y
<1>1. PICK x \in S : \A y \in S : ~(<<y, x>> \in OpToRel(<, Nat))
  BY NatLessThanWellFounded, WFMin
<1>2. \A y \in S : x <= y
  <2>1. ASSUME NEW y \in S PROVE x <= y
    <3>1. ~(y < x)  BY <1>1 DEF OpToRel
    <3> QED BY <3>1
  <2> QED BY <2>1
<1> QED BY <1>1, <1>2 DEF Min

\* The greatest of a set of small numbers.
LEMMA GreatestNumber ==
  ASSUME NEW N \in Nat, NEW S \in SUBSET (0 .. N), S # {}
  PROVE  Max(S) \in S /\ \A y \in S : Max(S) >= y
<1> DEFINE T == { N - s : s \in S }
<1>1. T \in SUBSET Nat /\ T # {}
  <2>1. PICK s \in S : TRUE  OBVIOUS
  <2>2. N - s \in T  BY <2>1
  <2>3. T \in SUBSET Nat  OBVIOUS
  <2> HIDE DEF T
  <2> QED BY <2>2, <2>3
<1>2. PICK t \in T : \A y \in T : t <= y
  <2> HIDE DEF T
  <2> QED BY <1>1, LeastNumber
<1>3. PICK x \in S : t = N - x  BY <1>2
<1>4. \A y \in S : x >= y
  <2>1. ASSUME NEW y \in S PROVE x >= y
    <3>1. t <= N - y  BY <1>2
    <3> QED BY <3>1, <1>3
  <2> QED BY <2>1
<1> QED BY <1>4 DEF Max

\* What holds of 0 and goes from a number to the next holds up to N.
LEMMA SetInduction ==
  ASSUME NEW N \in Nat, NEW S, 0 \in S, \A n \in 0 .. (N - 1) : n \in S => n + 1 \in S
  PROVE  \A n \in 0 .. N : n \in S
<1> SUFFICES ASSUME NEW z \in 0 .. N, z \notin S PROVE FALSE  OBVIOUS
<1>1. PICK x \in { n \in 0 .. N : n \notin S } : \A y \in { n \in 0 .. N : n \notin S } : x <= y
  <2>1. /\ { n \in 0 .. N : n \notin S } \in SUBSET Nat
        /\ z \in { n \in 0 .. N : n \notin S }
    OBVIOUS
  <2> QED BY <2>1, LeastNumber
<1>2. x # 0 /\ x - 1 \in 0 .. (N - 1) /\ (x - 1) + 1 = x  BY <1>1
<1>3. x - 1 \in S  BY <1>1, <1>2
<1> QED BY <1>1, <1>2, <1>3

\* A recursion over the numbers up to N has its values.
Steps(N, V) == [V \X (1 .. N) -> V]
Computed(f, N, V, b, go) == /\ f \in [0 .. N -> V] /\ f[0] = b
                              /\ \A t \in 1 .. N : f[t] = go[<<f[t - 1], t>>]

LEMMA Recursion ==
  ASSUME NEW N \in Nat, NEW V, NEW b \in V, NEW go \in Steps(N, V)
  PROVE  \E f : Computed(f, N, V, b, go)
<1> DEFINE Good(n, f) == /\ f \in [0 .. n -> V]
                         /\ f[0] = b
                         /\ \A t \in 1 .. n : f[t] = go[<<f[t - 1], t>>]
           S == { n \in 0 .. N : \E f \in [0 .. n -> V] : Good(n, f) }
<1>1. 0 \in S
  <2>1. Good(0, [t \in 0 .. 0 |-> b])
    OBVIOUS
  <2>2. 0 \in 0 .. N /\ [t \in 0 .. 0 |-> b] \in [0 .. 0 -> V]
    OBVIOUS
  <2> HIDE DEF Good
  <2> QED BY <2>1, <2>2
<1>2. ASSUME NEW n \in 0 .. (N - 1), n \in S PROVE n + 1 \in S
  <2>1. PICK f \in [0 .. n -> V] : Good(n, f)
    BY <1>2
  <2> DEFINE g == [t \in 0 .. (n + 1) |-> IF t = n + 1 THEN go[<<f[n], n + 1>>] ELSE f[t]]
  <2>2. f[n] \in V /\ <<f[n], n + 1>> \in V \X (1 .. N)
    BY <2>1
  <2>3. go[<<f[n], n + 1>>] \in V
    BY <2>2 DEF Steps
  <2>4. g \in [0 .. (n + 1) -> V]
    BY <2>1, <2>3
  <2>5. g[0] = b
    BY <2>1
  <2>6. ASSUME NEW t \in 1 .. (n + 1) PROVE g[t] = go[<<g[t - 1], t>>]
    <3>1. CASE t = n + 1
      <4>1. g[t] = go[<<f[n], n + 1>>] /\ g[t - 1] = f[n]
        BY <3>1
      <4> QED BY <3>1, <4>1
    <3>2. CASE t # n + 1
      <4>1. t \in 1 .. n /\ t - 1 \in 0 .. n
        BY <3>2
      <4>2. g[t] = f[t] /\ g[t - 1] = f[t - 1]
        BY <3>2, <4>1
      <4> QED BY <2>1, <4>1, <4>2
    <3> QED BY <3>1, <3>2
  <2>7. Good(n + 1, g)
    BY <2>4, <2>5, <2>6
  <2> HIDE DEF Good, g
  <2> QED BY <2>4, <2>7
<1>3. N \in S
  <2> HIDE DEF S
  <2> QED BY <1>1, <1>2, SetInduction
<1>4. PICK f \in [0 .. N -> V] : Good(N, f)
  BY <1>3
<1> QED BY <1>4 DEF Computed

LEMMA RecordLengths ==
  ASSUME NEW mem \in Seq(Records)
  PROVE  Len(mem) \in Nat /\ \A t \in 1 .. Len(mem) : mem[t].len \in Nat
<1>1. ASSUME NEW t \in 1 .. Len(mem) PROVE mem[t].len \in Nat
  <2>1. mem[t] \in Records  OBVIOUS
  <2> QED BY <2>1 DEF Records
<1> QED BY <1>1

\* The positions of records: each begins where the one before it ends.
LEMMA BytesAre ==
  ASSUME NEW mem \in Seq(Records)
  PROVE  /\ Bytes(mem) \in [0 .. Len(mem) -> Nat]
         /\ Bytes(mem)[0] = 0
         /\ \A t \in 1 .. Len(mem) : Bytes(mem)[t] = Bytes(mem)[t - 1] + mem[t].len
<1> DEFINE N == Len(mem)
           go == [x \in Nat \X (1 .. N) |-> x[1] + mem[x[2]].len]
<1>1. N \in Nat /\ \A t \in 1 .. N : mem[t].len \in Nat  BY RecordLengths
<1> HIDE DEF N
<1>2. go \in Steps(N, Nat)  BY <1>1 DEF Steps
<1>3. PICK f : Computed(f, N, Nat, 0, go)
  <2> HIDE DEF go
  <2> QED BY <1>1, <1>2, Recursion
<1>4. ASSUME NEW t \in 1 .. N PROVE f[t] = f[t - 1] + mem[t].len
  <2>1. t - 1 \in 0 .. N  BY <1>1
  <2>2. <<f[t - 1], t>> \in Nat \X (1 .. N)  BY <1>3, <2>1 DEF Computed
  <2>3. go[<<f[t - 1], t>>] = f[t - 1] + mem[t].len  BY <2>2
  <2> HIDE DEF go
  <2> QED BY <1>3, <2>3 DEF Computed
<1>5. f = [n \in 0 .. N |-> IF n = 0 THEN 0 ELSE f[n - 1] + mem[n].len]
  BY <1>1, <1>3, <1>4 DEF Computed
<1> DEFINE g == Bytes(mem)
<1>6. g = [n \in 0 .. N |-> IF n = 0 THEN 0 ELSE g[n - 1] + mem[n].len]
  <2>1. f = [n \in 0 .. Len(mem) |-> IF n = 0 THEN 0 ELSE f[n - 1] + mem[n].len]
    BY Zenon, <1>5 DEF N
  <2>2. Bytes(mem) = [n \in 0 .. Len(mem) |-> IF n = 0 THEN 0 ELSE Bytes(mem)[n - 1] + mem[n].len]
    BY Zenon, <2>1 DEF Bytes
  <2> QED BY Zenon, <2>2 DEF N
<1> HIDE DEF g
<1>7. g[0] = 0 /\ \A t \in 1 .. N : g[t] = g[t - 1] + mem[t].len
  <2>1. g[0] = 0  BY <1>1, <1>6
  <2>2. ASSUME NEW t \in 1 .. N PROVE g[t] = g[t - 1] + mem[t].len
    <3>1. t \in 0 .. N /\ t # 0  BY <1>1
    <3> QED BY <1>6, <3>1
  <2> QED BY <2>1, <2>2
<1>8. \A t \in 0 .. N : t \in { u \in 0 .. N : g[u] \in Nat }
  <2> DEFINE S == { u \in 0 .. N : g[u] \in Nat }
  <2>1. 0 \in S  BY <1>1, <1>7
  <2>2. ASSUME NEW t \in 0 .. (N - 1), t \in S PROVE t + 1 \in S
    <3>1. t + 1 \in 1 .. N /\ t + 1 \in 0 .. N /\ (t + 1) - 1 = t  BY <1>1
    <3>2. g[t + 1] = g[t] + mem[t + 1].len  BY <1>7, <3>1
    <3> QED BY <1>1, <2>2, <3>1, <3>2
  <2> HIDE DEF S
  <2> QED BY <1>1, <2>1, <2>2, SetInduction DEF S
<1>9. g \in [0 .. N -> Nat]  BY <1>6, <1>8
<1> QED BY <1>7, <1>9 DEF g, N

LEMMA BytesGrow ==
  ASSUME NEW mem \in Seq(Records), NEW k \in 0 .. Len(mem), NEW n \in 0 .. k
  PROVE  Bytes(mem)[n] <= Bytes(mem)[k]
<1> DEFINE g == Bytes(mem)
           N == k - n
           S == { i \in 0 .. N : g[n] <= g[n + i] }
<1>1. Len(mem) \in Nat /\ N \in Nat /\ n + N = k /\ \A t \in 1 .. Len(mem) : mem[t].len \in Nat
  BY RecordLengths
<1>2. /\ g \in [0 .. Len(mem) -> Nat]
      /\ \A t \in 1 .. Len(mem) : g[t] = g[t - 1] + mem[t].len
  BY BytesAre
<1> HIDE DEF g
<1>3. 0 \in S  BY <1>1, <1>2
<1>4. ASSUME NEW i \in 0 .. (N - 1), i \in S PROVE i + 1 \in S
  <2>1. n + i + 1 \in 1 .. Len(mem) /\ (n + i + 1) - 1 = n + i /\ n + i \in 0 .. Len(mem)
        /\ n \in 0 .. Len(mem) /\ n + (i + 1) = n + i + 1 /\ i + 1 \in 0 .. N
    BY <1>1
  <2>2. g[n + i + 1] = g[n + i] + mem[n + i + 1].len  BY <1>2, <2>1
  <2>3. g[n] \in Nat /\ g[n + i] \in Nat /\ mem[n + i + 1].len \in Nat  BY <1>1, <1>2, <2>1
  <2> QED BY <1>4, <2>1, <2>2, <2>3
<1>5. \A i \in 0 .. N : i \in S
  <2> HIDE DEF S, N
  <2> QED BY <1>1, <1>3, <1>4, SetInduction
<1>6. N \in 0 .. N  BY <1>1
<1> QED BY <1>1, <1>5, <1>6 DEF g

\* The table's own records are where they would be without what lies behind.
LEMMA BytesOfTable ==
  ASSUME NEW r \in Seq(Records), NEW b \in Seq(Records)
  PROVE  \A n \in 0 .. Len(r) : Bytes(r \o b)[n] = Bytes(r)[n]
<1> DEFINE g == Bytes(r \o b)
           h == Bytes(r)
           N == Len(r)
           S == { n \in 0 .. N : g[n] = h[n] }
<1>1. /\ N \in Nat /\ r \o b \in Seq(Records) /\ N <= Len(r \o b) /\ Len(r \o b) \in Nat
      /\ \A t \in 1 .. N : (r \o b)[t] = r[t]
  OBVIOUS
<1>2. /\ h[0] = 0 /\ g[0] = 0
      /\ \A t \in 1 .. N : h[t] = h[t - 1] + r[t].len
      /\ \A t \in 1 .. Len(r \o b) : g[t] = g[t - 1] + (r \o b)[t].len
  BY <1>1, BytesAre
<1> HIDE DEF g, h, N
<1>3. 0 \in S  BY <1>1, <1>2
<1>4. ASSUME NEW n \in 0 .. (N - 1), n \in S PROVE n + 1 \in S
  <2>1. n + 1 \in 1 .. N /\ n + 1 \in 1 .. Len(r \o b) /\ (n + 1) - 1 = n /\ n + 1 \in 0 .. N  BY <1>1
  <2>2. h[n + 1] = h[n] + r[n + 1].len /\ g[n + 1] = g[n] + r[n + 1].len  BY <1>1, <1>2, <2>1
  <2> QED BY <1>4, <2>1, <2>2
<1> HIDE DEF S
<1>5. \A n \in 0 .. N : n \in S  BY <1>1, <1>3, <1>4, SetInduction
<1> QED BY <1>5 DEF S, g, h, N

LEMMA MemoryJoins ==
  ASSUME NEW madt, madt.records \in Seq(Records), madt.behind \in Seq(Records)
  PROVE  /\ Len(madt.records) \in Nat /\ Memory(madt) \in Seq(Records)
         /\ Len(madt.records) <= Len(Memory(madt)) /\ Len(Memory(madt)) \in Nat
         /\ DOMAIN Memory(madt) = 1 .. Len(Memory(madt))
         /\ \A t \in 1 .. Len(madt.records) : Memory(madt)[t] = madt.records[t]
<1>1. ASSUME NEW r \in Seq(Records), NEW b \in Seq(Records)
      PROVE  /\ Len(r) \in Nat /\ r \o b \in Seq(Records) /\ Len(r) <= Len(r \o b)
             /\ Len(r \o b) \in Nat /\ DOMAIN (r \o b) = 1 .. Len(r \o b)
             /\ \A t \in 1 .. Len(r) : (r \o b)[t] = r[t]
  OBVIOUS
<1> QED BY <1>1 DEF Memory

\* A walk that ends has come to all records of the table.
LEMMA AllReached ==
  ASSUME NEW madt, madt.records \in Seq(Records), madt.behind \in Seq(Records), Terminates(madt)
  PROVE  \A n \in 1 .. Len(madt.records) : Reached(madt, n)
<1> DEFINE r == madt.records
           mem == Memory(madt)
           N == Len(r)
           S == { n \in 0 .. N : \A k \in 1 .. n : mem[k].len > 0 }
<1>1. /\ N \in Nat /\ mem \in Seq(Records) /\ N <= Len(mem) /\ Len(mem) \in Nat /\ DOMAIN mem = 1 .. Len(mem)
  BY MemoryJoins
<1>2. ASSUME NEW n \in 1 .. N PROVE Bytes(mem)[n - 1] < End(madt)
  <2>1. n - 1 \in 0 .. N /\ N \in 0 .. N  BY <1>1
  <2>2. Bytes(mem)[n - 1] = Bytes(r)[n - 1]  BY <2>1, BytesOfTable DEF Memory
  <2>3. Bytes(r)[n - 1] <= Bytes(r)[N]
    <3>1. n - 1 \in 0 .. N /\ N \in 0 .. Len(r)  BY <2>1
    <3> HIDE DEF N, r
    <3>2. r \in Seq(Records)  BY DEF r
    <3> QED BY <3>1, <3>2, BytesGrow
  <2>4. Bytes(r)[n - 1] \in Nat /\ Bytes(r)[N] \in Nat  BY <2>1, BytesAre
  <2> QED BY <2>2, <2>3, <2>4 DEF End, MadtHeader
<1> HIDE DEF mem, N, r
<1>3. 0 \in S  BY <1>1
<1>4. ASSUME NEW n \in 0 .. (N - 1), n \in S PROVE n + 1 \in S
  <2>1. n + 1 \in 1 .. N /\ (n + 1) - 1 = n /\ n + 1 \in DOMAIN mem  BY <1>1
  <2>2. Reached(madt, n + 1)
    <3>1. Bytes(mem)[(n + 1) - 1] < End(madt)  BY <1>2, <2>1
    <3> QED BY <1>4, <2>1, <3>1 DEF Reached, mem
  <2>3. mem[n + 1].len > 0  BY <2>1, <2>2 DEF Terminates, mem
  <2>4. \A k \in 1 .. (n + 1) : k \in 1 .. n \/ k = n + 1  BY <1>1
  <2> QED BY <1>1, <1>4, <2>1, <2>3, <2>4
<1>5. \A n \in 0 .. N : n \in S
  <2> HIDE DEF S
  <2> QED BY <1>1, <1>3, <1>4, SetInduction
<1>6. ASSUME NEW n \in 1 .. N PROVE Reached(madt, n)
  <2>1. n - 1 \in 0 .. N  BY <1>1
  <2>2. \A k \in 1 .. (n - 1) : mem[k].len > 0  BY <1>5, <2>1
  <2> QED BY <1>2, <2>2 DEF Reached, mem
<1> QED BY <1>6 DEF N, r

\* The records that enumerate() keeps of a type, and the indices up to n of the
\* set S, in their order.
Picked(madt, type) == { n \in 1 .. Len(Memory(madt)) : Reached(madt, n) /\ Memory(madt)[n].type = type }
InOrder(s, S, n) == /\ s \in Seq(Nat)
                    /\ \A i \in 1 .. Len(s) : s[i] \in S /\ s[i] <= n
                    /\ \A i, j \in 1 .. Len(s) : i < j => s[i] < s[j]
                    /\ \A k \in S : k <= n => \E i \in 1 .. Len(s) : s[i] = k

LEMMA OneMore ==
  ASSUME NEW S \in SUBSET Nat, NEW n \in Nat, NEW s, InOrder(s, S, n)
  PROVE  InOrder(IF n + 1 \in S THEN Append(s, n + 1) ELSE s, S, n + 1)
<1>1. /\ s \in Seq(Nat) /\ Len(s) \in Nat
      /\ \A i \in 1 .. Len(s) : s[i] \in S /\ s[i] <= n /\ s[i] \in Nat
      /\ \A i, j \in 1 .. Len(s) : i < j => s[i] < s[j]
      /\ \A k \in S : k <= n => \E i \in 1 .. Len(s) : s[i] = k
  BY DEF InOrder
<1>2. \A k \in S : k <= n + 1 => k <= n \/ k = n + 1  OBVIOUS
<1>3. CASE n + 1 \notin S
  <2>1. \A i \in 1 .. Len(s) : s[i] \in S /\ s[i] <= n + 1  BY <1>1
  <2>2. \A k \in S : k <= n + 1 => \E i \in 1 .. Len(s) : s[i] = k  BY <1>1, <1>2, <1>3
  <2> QED BY <1>1, <1>3, <2>1, <2>2 DEF InOrder
<1>4. CASE n + 1 \in S
  <2> DEFINE t == Append(s, n + 1)
  <2>1. /\ t \in Seq(Nat) /\ Len(t) = Len(s) + 1 /\ t[Len(s) + 1] = n + 1
        /\ \A i \in 1 .. Len(s) : t[i] = s[i]
    BY <1>1
  <2> HIDE DEF t
  <2>2. \A i \in 1 .. Len(t) : i \in 1 .. Len(s) \/ i = Len(s) + 1  BY <1>1, <2>1
  <2>3. ASSUME NEW i \in 1 .. Len(t) PROVE t[i] \in S /\ t[i] <= n + 1
    BY <1>1, <1>4, <2>1, <2>2
  <2>4. ASSUME NEW i \in 1 .. Len(t), NEW j \in 1 .. Len(t), i < j PROVE t[i] < t[j]
    <3>1. i \in 1 .. Len(s)  BY <1>1, <2>1, <2>4
    <3>2. CASE j \in 1 .. Len(s)  BY <1>1, <2>1, <2>4, <3>1, <3>2
    <3>3. CASE j = Len(s) + 1
      <4>1. t[i] = s[i] /\ t[j] = n + 1 /\ s[i] <= n /\ s[i] \in Nat  BY <1>1, <2>1, <3>1, <3>3
      <4> QED BY <4>1
    <3> QED BY <2>2, <3>2, <3>3
  <2>5. ASSUME NEW k \in S, k <= n + 1 PROVE \E i \in 1 .. Len(t) : t[i] = k
    <3>1. CASE k <= n
      <4>1. PICK i \in 1 .. Len(s) : s[i] = k  BY <1>1, <3>1
      <4>2. i \in 1 .. Len(t)  BY <1>1, <2>1
      <4> QED BY <2>1, <4>1, <4>2
    <3>2. CASE k = n + 1
      <4>1. Len(s) + 1 \in 1 .. Len(t)  BY <1>1, <2>1
      <4> QED BY <2>1, <3>2, <4>1
    <3> QED BY <1>2, <2>5, <3>1, <3>2
  <2>6. InOrder(t, S, n + 1)  BY <2>1, <2>3, <2>4, <2>5 DEF InOrder
  <2> QED BY <1>4, <2>6 DEF t
<1> QED BY <1>3, <1>4

LEMMA EnumerateInOrder ==
  ASSUME NEW madt, madt.records \in Seq(Records), madt.behind \in Seq(Records), NEW type
  PROVE  InOrder(Enumerate(madt, type), Picked(madt, type), Len(Memory(madt)))
<1> DEFINE N == Len(Memory(madt))
           V == Seq(Nat)
           P == Picked(madt, type)
           Q(n) == Reached(madt, n) /\ Memory(madt)[n].type = type
           go == [x \in V \X (1 .. N) |-> IF Q(x[2]) THEN Append(x[1], x[2]) ELSE x[1]]
<1>1. N \in Nat  BY MemoryJoins
<1>2. P \in SUBSET Nat /\ \A n \in 1 .. N : n \in P <=> Q(n)  BY <1>1 DEF Picked
<1>3. go \in Steps(N, V)
  <2> HIDE DEF Q
  <2>1. ASSUME NEW s \in V, NEW n \in 1 .. N PROVE (IF Q(n) THEN Append(s, n) ELSE s) \in V  BY <1>1
  <2> HIDE DEF V, N
  <2> QED BY <2>1 DEF Steps
<1>4. <<>> \in V  OBVIOUS
<1> HIDE DEF N, V
<1>5. PICK f : Computed(f, N, V, <<>>, go)
  <2> HIDE DEF go
  <2> QED BY <1>1, <1>3, <1>4, Recursion
<1> HIDE DEF Q
<1>6. ASSUME NEW n \in 1 .. N PROVE f[n] = IF Q(n) THEN Append(f[n - 1], n) ELSE f[n - 1]
  <2>1. n - 1 \in 0 .. N  BY <1>1
  <2>2. <<f[n - 1], n>> \in V \X (1 .. N)  BY <1>5, <2>1 DEF Computed
  <2>3. go[<<f[n - 1], n>>] = IF Q(n) THEN Append(f[n - 1], n) ELSE f[n - 1]  BY <2>2
  <2> HIDE DEF go
  <2> QED BY <1>5, <2>3 DEF Computed
<1>7. f = [n \in 0 .. N |-> IF n = 0 THEN <<>>
                            ELSE IF Q(n) THEN Append(f[n - 1], n) ELSE f[n - 1]]
  <2>1. f[0] = <<>> /\ DOMAIN f = 0 .. N /\ f = [n \in DOMAIN f |-> f[n]]  BY <1>5 DEF Computed
  <2>2. ASSUME NEW n \in 0 .. N, n # 0 PROVE f[n] = IF Q(n) THEN Append(f[n - 1], n) ELSE f[n - 1]
    <3>1. n \in 1 .. N  BY <1>1, <2>2
    <3> QED BY <1>6, <3>1
  <2> HIDE DEF go
  <2> QED BY <2>1, <2>2
<1>8. f[N] = Enumerate(madt, type)
  <2>1. f = [n \in 0 .. Len(Memory(madt)) |->
               IF n = 0 THEN <<>>
               ELSE IF Reached(madt, n) /\ Memory(madt)[n].type = type THEN Append(f[n - 1], n)
               ELSE f[n - 1]]
    BY Zenon, <1>7 DEF N, Q
  <2> DEFINE isPushed(p) == p = [n \in 0 .. Len(Memory(madt)) |->
               IF n = 0 THEN <<>>
               ELSE IF Reached(madt, n) /\ Memory(madt)[n].type = type THEN Append(p[n - 1], n)
               ELSE p[n - 1]]
             pushed == CHOOSE p : isPushed(p)
  <2>2. Enumerate(madt, type) = pushed[Len(Memory(madt))]  BY Zenon DEF Enumerate
  <2>3. isPushed(pushed)
    <3> HIDE DEF isPushed
    <3>1. isPushed(f)  BY <2>1 DEF isPushed
    <3> QED BY Zenon, <3>1
  <2> HIDE DEF pushed
  <2>4. /\ DOMAIN pushed = 0 .. N /\ pushed = [n \in DOMAIN pushed |-> pushed[n]]
        /\ \A n \in 0 .. N : pushed[n] = IF n = 0 THEN <<>>
                                       ELSE IF Q(n) THEN Append(pushed[n - 1], n) ELSE pushed[n - 1]
    BY <2>3 DEF N, Q
  <2> DEFINE S == { n \in 0 .. N : pushed[n] = f[n] }
  <2>5. 0 \in S  BY <1>1, <1>7, <2>4
  <2>6. ASSUME NEW n \in 0 .. (N - 1), n \in S PROVE n + 1 \in S
    <3>1. n + 1 \in 1 .. N /\ n + 1 \in 0 .. N /\ (n + 1) - 1 = n /\ n + 1 # 0  BY <1>1
    <3>2. f[n + 1] = IF Q(n + 1) THEN Append(f[n], n + 1) ELSE f[n]  BY <1>6, <3>1
    <3>3. pushed[n + 1] = IF Q(n + 1) THEN Append(pushed[n], n + 1) ELSE pushed[n]  BY <2>4, <3>1
    <3>4. pushed[n] = f[n]  BY <2>6
    <3>5. pushed[n + 1] = f[n + 1]  BY <3>2, <3>3, <3>4
    <3> QED BY <3>1, <3>5
  <2>7. N \in S
    <3> HIDE DEF S
    <3>1. \A n \in 0 .. N : n \in S  BY <1>1, <2>5, <2>6, SetInduction
    <3> QED BY <1>1, <3>1
  <2> QED BY <2>2, <2>7 DEF N
<1> HIDE DEF go
<1> DEFINE S == { n \in 0 .. N : InOrder(f[n], P, n) }
<1>9. 0 \in S
  <2>1. f[0] = <<>>  BY <1>5 DEF Computed
  <2>2. \A k \in P : ~ k <= 0  BY DEF Picked
  <2>3. InOrder(<<>>, P, 0)
    <3> HIDE DEF P
    <3> QED BY <2>2 DEF InOrder
  <2> QED BY <1>1, <2>1, <2>3
<1>10. ASSUME NEW n \in 0 .. (N - 1), n \in S PROVE n + 1 \in S
  <2>1. n + 1 \in 1 .. N /\ n + 1 \in 0 .. N /\ (n + 1) - 1 = n /\ n \in Nat  BY <1>1
  <2>2. f[n + 1] = IF n + 1 \in P THEN Append(f[n], n + 1) ELSE f[n]
    <3>1. f[n + 1] = IF Q(n + 1) THEN Append(f[n], n + 1) ELSE f[n]  BY <1>6, <2>1
    <3>2. n + 1 \in P <=> Q(n + 1)  BY <1>2, <2>1 DEF N, Q
    <3> HIDE DEF P
    <3> QED BY <3>1, <3>2
  <2> HIDE DEF P
  <2>3. InOrder(f[n], P, n)  BY <1>10
  <2>4. InOrder(IF n + 1 \in P THEN Append(f[n], n + 1) ELSE f[n], P, n + 1)
    BY <1>2, <2>1, <2>3, OneMore
  <2>5. InOrder(f[n + 1], P, n + 1)  BY <2>2, <2>4
  <2> QED BY <2>1, <2>5
<1>11. N \in S
  <2> HIDE DEF S
  <2>1. \A n \in 0 .. N : n \in S  BY <1>1, <1>9, <1>10, SetInduction
  <2> QED BY <1>1, <2>1
<1> QED BY <1>8, <1>11 DEF N

-----------------------------------------------------------------------------
(***************************************************************************)
(* The keyboard's pin                                                      *)
(***************************************************************************)
\* What getGSI() compares are the records that enumerate() keeps, in their order.
LEMMA OverridesAre ==
  ASSUME Madt.records \in Seq(Records), Madt.behind \in Seq(Records)
  PROVE  LET E == Enumerate(Madt, sourceOverride)
             M == Memory(Madt)
         IN  /\ Len(E) \in Nat /\ DOMAIN E = 1 .. Len(E)
             /\ Overrides \in Seq(Records) /\ Len(Overrides) = Len(E)
             /\ \A i \in 1 .. Len(E) : /\ Overrides[i] = M[E[i]]
                                      /\ E[i] \in Picked(Madt, sourceOverride)
             /\ \A i, j \in 1 .. Len(E) : i < j => E[i] < E[j]
             /\ \A k \in Picked(Madt, sourceOverride) : \E i \in 1 .. Len(E) : E[i] = k
<1> DEFINE E == Enumerate(Madt, sourceOverride)
           M == Memory(Madt)
           P == Picked(Madt, sourceOverride)
<1>1. M \in Seq(Records) /\ Len(M) \in Nat  BY MemoryJoins
<1>2. P \subseteq 1 .. Len(M)  BY DEF Picked
<1>3. InOrder(E, P, Len(M))  BY EnumerateInOrder
<1>4. Overrides = [k \in DOMAIN E |-> M[E[k]]]  BY DEF Overrides
<1> HIDE DEF E, M, P
<1>5. /\ E \in Seq(Nat) /\ Len(E) \in Nat /\ DOMAIN E = 1 .. Len(E)
      /\ \A i \in 1 .. Len(E) : E[i] \in P
      /\ \A i, j \in 1 .. Len(E) : i < j => E[i] < E[j]
  BY <1>3 DEF InOrder
<1>6. \A k \in P : \E i \in 1 .. Len(E) : E[i] = k
  <2>1. \A k \in P : k <= Len(M)  BY <1>1, <1>2
  <2> QED BY <1>3, <2>1 DEF InOrder
<1>7. ASSUME NEW i \in 1 .. Len(E) PROVE M[E[i]] \in Records
  <2>1. E[i] \in 1 .. Len(M)  BY <1>2, <1>5
  <2> QED BY <1>1, <2>1
<1>8. Overrides \in Seq(Records) /\ Len(Overrides) = Len(E)
  BY <1>4, <1>5, <1>7
<1>9. \A i \in 1 .. Len(E) : Overrides[i] = M[E[i]]  BY <1>4, <1>5
<1> QED BY <1>5, <1>6, <1>8, <1>9 DEF E, M, P

\* SelectInSeq() finds the first.
LEMMA FirstOverride ==
  ASSUME NEW s \in Seq(Records), NEW no
  PROVE  LET I == { i \in 1 .. Len(s) : s[i].source = no }
             own == SelectInSeq(s, LAMBDA r : r.source = no)
         IN  IF I = {} THEN own = 0 ELSE own \in I /\ \A i \in I : own <= i
<1> DEFINE I == { i \in 1 .. Len(s) : s[i].source = no }
           own == SelectInSeq(s, LAMBDA r : r.source = no)
<1>1. I \in SUBSET Nat  OBVIOUS
<1>2. own = IF I # {} THEN Min(I) ELSE 0  BY DEF SelectInSeq
<1> HIDE DEF I, own
<1>3. CASE I = {}  BY <1>2, <1>3 DEF I, own
<1>4. CASE I # {}
  <2>1. own = Min(I)  BY <1>2, <1>4
  <2>2. own \in I /\ \A i \in I : own <= i  BY <1>1, <1>4, <2>1, LeastNumber
  <2> QED BY <1>4, <2>2 DEF I, own
<1> QED BY <1>3, <1>4

\* How many of P are no more than b is the place in E of the last of them.
LEMMA Counted ==
  ASSUME NEW E, NEW P \in SUBSET Nat, NEW N \in Nat, InOrder(E, P, N), \A k \in P : k <= N, NEW b \in Nat
  PROVE  LET c == Cardinality({ k \in P : k <= b })
         IN  c \in 0 .. Len(E) /\ \A i \in 1 .. Len(E) : E[i] <= b <=> i <= c
<1> DEFINE L == Len(E)
           below == { i \in 1 .. L : E[i] <= b }
           T == { k \in P : k <= b }
<1>1. /\ L \in Nat /\ \A i \in 1 .. L : E[i] \in P /\ E[i] \in Nat
      /\ \A i, j \in 1 .. L : i < j => E[i] < E[j]
      /\ \A k \in P : \E i \in 1 .. L : E[i] = k
  BY DEF InOrder
<1> HIDE DEF L
<1>2. \E c \in 0 .. L : \A i \in 1 .. L : E[i] <= b <=> i <= c
  <2>1. CASE below = {}
    <3>1. \A i \in 1 .. L : ~ E[i] <= b /\ ~ i <= 0  BY <2>1
    <3>2. 0 \in 0 .. L  BY <1>1
    <3> QED BY <3>1, <3>2
  <2>2. CASE below # {}
    <3> DEFINE c == Max(below)
    <3>1. below \in SUBSET (0 .. L)  OBVIOUS
    <3>2. c \in below /\ \A i \in below : c >= i  BY <1>1, <2>2, <3>1, GreatestNumber
    <3> HIDE DEF c
    <3>3. ASSUME NEW i \in 1 .. L, i <= c PROVE E[i] <= b
      <4>1. i = c \/ i < c  BY <3>2, <3>3
      <4>2. CASE i < c
        <5>1. E[i] < E[c] /\ E[c] <= b /\ E[i] \in Nat /\ E[c] \in Nat  BY <1>1, <3>2, <4>2
        <5> QED BY <5>1
      <4> QED BY <3>2, <4>1, <4>2
    <3>4. \A i \in 1 .. L : E[i] <= b => i <= c  BY <3>2
    <3>5. c \in 0 .. L  BY <3>2
    <3> QED BY <3>3, <3>4, <3>5
  <2> QED BY <2>1, <2>2
<1>3. PICK c \in 0 .. L : \A i \in 1 .. L : E[i] <= b <=> i <= c  BY <1>2
<1> DEFINE f == [i \in 1 .. c |-> E[i]]
<1>4. f \in [1 .. c -> T]
  <2>1. ASSUME NEW i \in 1 .. c PROVE E[i] \in T
    <3>1. i \in 1 .. L /\ i <= c  BY <1>1, <1>3
    <3> QED BY <1>1, <1>3, <3>1
  <2> QED BY <2>1
<1>5. ASSUME NEW i \in 1 .. c, NEW j \in 1 .. c, E[i] = E[j] PROVE i = j
  <2>1. i \in 1 .. L /\ j \in 1 .. L  BY <1>1, <1>3
  <2>2. i = j \/ i < j \/ j < i  BY <2>1
  <2> QED BY <1>1, <1>5, <2>1, <2>2
<1>6. ASSUME NEW k \in T PROVE \E i \in 1 .. c : f[i] = k
  <2>1. PICK i \in 1 .. L : E[i] = k  BY <1>1
  <2>2. i \in 1 .. c  BY <1>3, <2>1
  <2> QED BY <2>1, <2>2
<1>7. f \in Bijection(1 .. c, T)
  BY <1>4, <1>5, <1>6 DEF Bijection, Injection, Surjection, IsInjective
<1>8. Cardinality(T) = c
  <2>1. ExistsBijection(1 .. c, T)  BY <1>7 DEF ExistsBijection
  <2> HIDE DEF T, f
  <2> QED BY <2>1, <1>3, FS_CountingElements
<1> QED BY <1>3, <1>8 DEF L

\* The firmware's own override is the first of its records that is one.
LEMMA OwnIsFirst ==
  ASSUME Madt.records \in Seq(Records)
  PROVE  LET J == { n \in 1 .. Len(Madt.records) : /\ Madt.records[n].type = sourceOverride
                                                 /\ Madt.records[n].source = 1 }
         IN  IF J = {} THEN OwnOverride = 0 /\ FirmwareGSI(1) = 1
             ELSE /\ OwnOverride \in J /\ \A m \in J : OwnOverride <= m
                  /\ FirmwareGSI(1) = Madt.records[OwnOverride].gsi
<1> DEFINE J == { n \in 1 .. Len(Madt.records) : /\ Madt.records[n].type = sourceOverride
                                               /\ Madt.records[n].source = 1 }
<1>1. J \in SUBSET Nat  OBVIOUS
<1>2. OwnOverride = IF J # {} THEN Min(J) ELSE 0  BY DEF SelectInSeq, OwnOverride
<1>3. FirmwareGSI(1) = IF OwnOverride = 0 THEN 1 ELSE Madt.records[OwnOverride].gsi
  BY DEF FirmwareGSI, OwnOverride
<1>4. \A n \in J : n # 0  OBVIOUS
<1> HIDE DEF J
<1>5. IF J = {} THEN OwnOverride = 0 /\ FirmwareGSI(1) = 1
      ELSE /\ OwnOverride \in J /\ \A m \in J : OwnOverride <= m
           /\ FirmwareGSI(1) = Madt.records[OwnOverride].gsi
  BY <1>1, <1>2, <1>3, <1>4, LeastNumber
<1> QED BY <1>5 DEF J

\* What getGSI() finds of the first six.
Six == SubSeq(Overrides, 1, IF Len(Overrides) < 6 THEN Len(Overrides) ELSE 6)

LEMMA SixAre ==
  ASSUME Madt.records \in Seq(Records), Madt.behind \in Seq(Records)
  PROVE  LET I == { i \in 1 .. Len(Overrides) : i <= 6 /\ Overrides[i].source = 1 }
         IN  /\ Len(Six) < 6 <=> Len(Overrides) < 6
             /\ IF I = {} THEN GetGSI(1) = IF Len(Six) < 6 /\ machine.stray \in Nat
                                           THEN machine.stray % 256 ELSE 1
                ELSE \E i \in I : (\A j \in I : i <= j) /\ GetGSI(1) = Overrides[i].gsi % 256
<1> DEFINE I == { i \in 1 .. Len(Overrides) : i <= 6 /\ Overrides[i].source = 1 }
           J == { i \in 1 .. Len(Six) : Six[i].source = 1 }
           own == SelectInSeq(Six, LAMBDA r : r.source = 1)
<1>1. Overrides \in Seq(Records) /\ Len(Overrides) \in Nat  BY OverridesAre
<1>2. /\ Six \in Seq(Records) /\ Len(Six) = (IF Len(Overrides) < 6 THEN Len(Overrides) ELSE 6)
      /\ \A i \in 1 .. Len(Six) : Six[i] = Overrides[i]
  BY <1>1 DEF Six
<1>3. IF J = {} THEN own = 0 ELSE own \in J /\ \A i \in J : own <= i  BY <1>2, FirstOverride
<1>4. GetGSI(1) = CASE own # 0 -> Six[own].gsi % 256
                    [] own = 0 /\ Len(Six) < 6 /\ machine.stray \in Nat -> machine.stray % 256
                    [] OTHER -> 1
  BY DEF GetGSI, Six
<1> HIDE DEF own
<1>5. J = I  BY <1>1, <1>2
<1>6. \A i \in J : i # 0 /\ Six[i] = Overrides[i]  BY <1>2
<1> HIDE DEF I, J
<1>7. IF I = {} THEN GetGSI(1) = IF Len(Six) < 6 /\ machine.stray \in Nat THEN machine.stray % 256 ELSE 1
      ELSE \E i \in I : (\A j \in I : i <= j) /\ GetGSI(1) = Overrides[i].gsi % 256
  BY <1>3, <1>4, <1>5, <1>6
<1> QED BY <1>1, <1>2, <1>7 DEF I

LEMMA GSIIsByte ==
  ASSUME Madt.records \in Seq(Records), Madt.behind \in Seq(Records)
  PROVE  GetGSI(1) \in 0 .. 255
<1>1. \A n \in Nat : n % 256 \in 0 .. 255  OBVIOUS
<1>2. \A i \in 1 .. Len(Overrides) : Overrides[i].gsi \in Nat
  <2>1. Overrides \in Seq(Records)  BY OverridesAre
  <2>2. \A i \in 1 .. Len(Overrides) : Overrides[i] \in Records  BY <2>1
  <2> QED BY <2>2 DEF Records
<1> DEFINE I == { i \in 1 .. Len(Overrides) : i <= 6 /\ Overrides[i].source = 1 }
<1>3. \/ GetGSI(1) = 1
      \/ machine.stray \in Nat /\ GetGSI(1) = machine.stray % 256
      \/ \E i \in I : GetGSI(1) = Overrides[i].gsi % 256
  BY SixAre
<1>4. \A i \in I : Overrides[i].gsi % 256 \in 0 .. 255  BY <1>1, <1>2
<1>5. machine.stray \in Nat => machine.stray % 256 \in 0 .. 255  BY <1>1
<1>6. 1 \in 0 .. 255  OBVIOUS
<1> HIDE DEF I
<1> QED BY ZenonT(30), <1>3, <1>4, <1>5, <1>6

\* getGSI() answers what the firmware says, but for a seventh, or misread it.
LEMMA RightOrMisread ==
  ASSUME Madt.records \in Seq(Records), Madt.behind \in Seq(Records), Terminates(Madt), ~Misread
  PROVE  /\ GetGSI(1) = IF OwnPlace > 6 THEN 1 ELSE FirmwareGSI(1)
         /\ GetGSI(1) < 120
<1> DEFINE E == Enumerate(Madt, sourceOverride)
           M == Memory(Madt)
           P == Picked(Madt, sourceOverride)
           R == Madt.records
           I == { i \in 1 .. Len(Overrides) : i <= 6 /\ Overrides[i].source = 1 }
           J == { n \in 1 .. Len(R) : R[n].type = sourceOverride /\ R[n].source = 1 }
           own == OwnOverride
           place == OwnPlace
           total == Cardinality(TableOverrides)
<1>1. /\ Len(E) \in Nat /\ Overrides \in Seq(Records) /\ Len(Overrides) = Len(E)
      /\ \A i \in 1 .. Len(E) : Overrides[i] = M[E[i]] /\ E[i] \in P
      /\ \A i, j \in 1 .. Len(E) : i < j => E[i] < E[j]
      /\ \A k \in P : \E i \in 1 .. Len(E) : E[i] = k
  BY OverridesAre
<1>2. /\ Len(R) \in Nat /\ Len(R) <= Len(M) /\ Len(M) \in Nat /\ DOMAIN R = 1 .. Len(R)
      /\ \A n \in 1 .. Len(R) : M[n] = R[n]
  BY MemoryJoins
<1>3. P \in SUBSET Nat /\ \A n \in P : n \in 1 .. Len(M) /\ M[n].type = sourceOverride
  BY <1>2 DEF Picked
<1>4. TableOverrides = { n \in P : n <= Len(R) }
  <2>1. \A n \in 1 .. Len(R) : Reached(Madt, n)  BY AllReached
  <2>2. \A n \in 1 .. Len(R) : n \in P <=> R[n].type = sourceOverride
    BY <1>2, <2>1 DEF Picked
  <2> HIDE DEF P
  <2>3. \A n \in P : n <= Len(R) <=> n \in 1 .. Len(R)  BY <1>2, <1>3
  <2> QED BY <1>2, <2>2, <2>3 DEF TableOverrides
<1>5. IF J = {} THEN own = 0 /\ FirmwareGSI(1) = 1
      ELSE own \in J /\ (\A m \in J : own <= m) /\ FirmwareGSI(1) = R[own].gsi
  BY OwnIsFirst
<1>6. /\ Len(Six) < 6 <=> Len(Overrides) < 6
      /\ IF I = {} THEN GetGSI(1) = IF Len(Six) < 6 /\ machine.stray \in Nat THEN machine.stray % 256 ELSE 1
         ELSE \E i \in I : (\A j \in I : i <= j) /\ GetGSI(1) = Overrides[i].gsi % 256
  BY SixAre
<1>7. InOrder(E, P, Len(M))  BY EnumerateInOrder
<1>8. \A n \in J : n \in P /\ n \in 1 .. Len(R) /\ n \in TableOverrides
  BY <1>2, <1>4 DEF TableOverrides
<1>9. total \in 0 .. Len(E) /\ \A i \in 1 .. Len(E) : E[i] <= Len(R) <=> i <= total
  <2>1. \A k \in P : k <= Len(M)  BY <1>2, <1>3
  <2> HIDE DEF E, P, R, M
  <2>2. LET c == Cardinality({ n \in P : n <= Len(R) })
        IN  c \in 0 .. Len(E) /\ \A i \in 1 .. Len(E) : E[i] <= Len(R) <=> i <= c
    BY <1>2, <1>3, <1>7, <2>1, Counted
  <2> QED BY <1>4, <2>2
<1>10. own \in Nat /\ own <= Len(R)  BY <1>2, <1>5
<1>11. place \in 0 .. Len(E) /\ \A i \in 1 .. Len(E) : E[i] <= own <=> i <= place
  <2>1. { n \in TableOverrides : n <= own } = { n \in P : n <= own }
    <3> HIDE DEF P, R, own
    <3>1. \A n \in P : n \in Nat  BY <1>3
    <3>2. \A n \in P : n <= own => n <= Len(R)  BY <1>2, <1>10, <3>1
    <3>3. { n \in TableOverrides : n <= own } = { n \in { k \in P : k <= Len(R) } : n <= own }
      BY <1>4
    <3> QED BY <3>2, <3>3
  <2>2. \A k \in P : k <= Len(M)  BY <1>2, <1>3
  <2>3. place = Cardinality({ n \in P : n <= own })  BY <2>1 DEF OwnPlace
  <2> HIDE DEF E, P, R, M, own, place
  <2>4. LET c == Cardinality({ n \in P : n <= own })
        IN  c \in 0 .. Len(E) /\ \A i \in 1 .. Len(E) : E[i] <= own <=> i <= c
    BY <1>2, <1>3, <1>7, <1>10, <2>2, Counted
  <2> QED BY <2>3, <2>4
<1>12. ~(own = 0 /\ total < 6) /\ ~(own # 0 /\ place <= 6 /\ FirmwareGSI(1) >= 120)
  BY DEF Misread
\* An override of the table that says IRQ 1 does not come before its own.
<1>13. ASSUME NEW i \in 1 .. Len(E), E[i] <= Len(R), Overrides[i].source = 1
       PROVE  E[i] \in J
  <2>1. E[i] \in P /\ E[i] \in Nat /\ E[i] >= 1  BY <1>1, <1>3
  <2>2. E[i] \in 1 .. Len(R)  BY <1>2, <1>13, <2>1
  <2> QED BY <1>1, <1>2, <1>3, <1>13, <2>1, <2>2
<1> HIDE DEF E, M, P, I, own, place, total
<1>14. CASE own = 0 \/ place > 6
  <2>1. Len(E) >= 6 /\ \A i \in 1 .. 6 : E[i] <= Len(R) /\ (own = 0 \/ E[i] < own)
    <3>1. CASE own = 0
      <4>1. total >= 6  BY <1>9, <1>12, <3>1
      <4> QED BY <1>9, <3>1, <4>1
    <3>2. CASE place > 6
      <4>1. place \in 1 .. Len(E) /\ E[place] <= own  BY <1>11, <3>2
      <4>2. ASSUME NEW i \in 1 .. 6 PROVE E[i] <= Len(R) /\ E[i] < own
        <5>1. i \in 1 .. Len(E) /\ i < place  BY <1>11, <3>2
        <5>2. E[i] < E[place]  BY <1>1, <4>1, <5>1
        <5>3. E[i] \in Nat /\ E[place] \in Nat  BY <1>1, <1>3, <4>1, <5>1
        <5> QED BY <1>2, <1>10, <4>1, <5>2, <5>3
      <4> QED BY <1>11, <3>2, <4>2
    <3> QED BY <1>14, <3>1, <3>2
  <2>2. I = {}
    <3>1. ASSUME NEW i \in I PROVE FALSE
      <4>1. i \in 1 .. Len(E) /\ i \in 1 .. 6 /\ Overrides[i].source = 1  BY <1>1 DEF I
      <4>2. E[i] \in J  BY <1>13, <2>1, <4>1
      <4>3. own \in J /\ own <= E[i] /\ E[i] \in Nat /\ own # 0  BY <1>3, <1>5, <1>8, <4>2
      <4> QED BY <1>10, <2>1, <4>1, <4>3
    <3> QED BY <3>1
  <2>3. GetGSI(1) = 1  BY <1>1, <1>6, <2>1, <2>2
  <2>4. own = 0 => FirmwareGSI(1) = 1  BY <1>5, <1>8
  <2>5. own = 0 => ~ place > 6
    <3>1. ASSUME own = 0, place > 6 PROVE FALSE
      <4>1. 1 \in 1 .. Len(E) /\ E[1] <= 0  BY <1>11, <3>1
      <4>2. E[1] \in 1 .. Len(M)  BY <1>1, <1>3, <4>1
      <4> QED BY <1>2, <4>1, <4>2
    <3> QED BY <3>1
  <2> QED BY <1>14, <2>3, <2>4, <2>5 DEF own, place
<1>15. CASE own # 0 /\ ~ place > 6
  <2>1. own \in J /\ (\A m \in J : own <= m) /\ FirmwareGSI(1) = R[own].gsi  BY <1>5, <1>15
  <2>2. PICK i \in 1 .. Len(E) : E[i] = own  BY <1>1, <1>8, <2>1
  <2>3. i <= place /\ i <= 6  BY <1>11, <1>15, <2>2, <1>10
  <2>4. Overrides[i] = R[own] /\ R[own].source = 1  BY <1>1, <1>2, <1>8, <2>1, <2>2
  <2>5. i \in I  BY <1>1, <2>2, <2>3, <2>4 DEF I
  <2>6. PICK k \in I : (\A j \in I : k <= j) /\ GetGSI(1) = Overrides[k].gsi % 256  BY <1>6, <2>5
  <2>7. k = i
    <3>1. k <= i /\ k \in 1 .. Len(E) /\ Overrides[k].source = 1  BY <1>1, <2>5, <2>6 DEF I
    <3>2. CASE k < i
      <4>1. E[k] < own  BY <1>1, <2>2, <3>1, <3>2
      <4>2. E[k] \in Nat  BY <1>1, <1>3, <3>1
      <4>3. E[k] <= Len(R)  BY <1>2, <1>10, <4>1, <4>2
      <4>4. E[k] \in J  BY <1>13, <3>1, <4>3
      <4>5. own <= E[k]  BY <2>1, <4>4
      <4> QED BY <1>10, <4>1, <4>2, <4>5
    <3> QED BY <2>2, <3>1, <3>2
  <2>8. GetGSI(1) = FirmwareGSI(1) % 256 /\ FirmwareGSI(1) \in Nat
    <3>1. R[own] \in Records  BY <1>2, <1>8, <2>1
    <3> QED BY <2>1, <2>4, <2>6, <2>7, <3>1 DEF Records
  <2>9. FirmwareGSI(1) < 120  BY <1>12, <1>15, <2>8, <1>11
  <2>10. FirmwareGSI(1) % 256 = FirmwareGSI(1)
    <3>1. \A n \in Nat : n < 120 => n % 256 = n  OBVIOUS
    <3> QED BY <2>8, <2>9, <3>1
  <2> QED BY <1>15, <2>8, <2>9, <2>10 DEF place
<1> QED BY <1>14, <1>15

Redirections == [0 .. (Pins - 1) -> {None} \cup Requests]

\* Which entries a GSI writes: its own pin's, or that of the pin 128 below.
LEMMA OffsetsWrap ==
  ASSUME NEW gsi \in 0 .. 255, NEW pin \in 0 .. (Pins - 1)
  PROVE  /\ Offset(gsi) % 256 = Offset(pin) <=> gsi = pin \/ gsi = pin + 128
         /\ Offset(gsi) % 256 = Offset(pin) => (LVT_BASE + gsi) % 256 = LVT_BASE + gsi
<1>1. pin \in 0 .. 95  BY BootAssumption
<1>2. Offset(gsi) = 16 + 2 * gsi /\ Offset(pin) = 16 + 2 * pin  BY DEF Offset
<1>3. Offset(gsi) % 256 = Offset(pin) <=> gsi = pin \/ gsi = pin + 128
  <2>1. CASE gsi < 120
    <3>1. (16 + 2 * gsi) % 256 = 16 + 2 * gsi  BY <2>1
    <3> QED BY <1>1, <1>2, <2>1, <3>1
  <2>2. CASE gsi >= 120 /\ gsi < 248
    <3>1. (16 + 2 * gsi) % 256 = 16 + 2 * gsi - 256  BY <2>2
    <3> QED BY <1>1, <1>2, <2>2, <3>1
  <2>3. CASE gsi >= 248
    <3>1. (16 + 2 * gsi) % 256 = 16 + 2 * gsi - 512  BY <2>3
    <3> QED BY <1>1, <1>2, <2>3, <3>1
  <2> QED BY <2>1, <2>2, <2>3
<1>4. gsi = pin \/ gsi = pin + 128 => (LVT_BASE + gsi) % 256 = LVT_BASE + gsi
  BY <1>1 DEF LVT_BASE
<1> QED BY <1>3, <1>4

LEMMA Routes ==
  ASSUME Madt.records \in Seq(Records), Madt.behind \in Seq(Records),
         redirection = Masked, UpdateIRQ(GetGSI(1))
  PROVE  /\ redirection' \in Redirections
         /\ \A p, q \in 0 .. (Pins - 1) : redirection'[p] # None /\ redirection'[q] # None => p = q
         /\ GetGSI(1) < 120 => redirection' = Only(GetGSI(1))
<1> DEFINE gsi == GetGSI(1)
<1>1. gsi \in 0 .. 255  BY GSIIsByte
<1>2. redirection' = [pin \in 0 .. (Pins - 1) |->
                        IF Offset(gsi) % 256 = Offset(pin) THEN (LVT_BASE + gsi) % 256 ELSE None]
  BY DEF UpdateIRQ, Masked
<1> HIDE DEF gsi
<1>3. redirection' = [pin \in 0 .. (Pins - 1) |->
                        IF gsi = pin \/ gsi = pin + 128 THEN LVT_BASE + gsi ELSE None]
  BY <1>1, <1>2, OffsetsWrap
<1>4. redirection' \in Redirections
  <2>1. ASSUME NEW pin \in 0 .. (Pins - 1), gsi = pin \/ gsi = pin + 128
        PROVE  LVT_BASE + gsi \in Requests
    <3>1. {LVT_BASE + pin, LVT_BASE + pin + 128} \subseteq Requests  BY BootAssumption
    <3>2. LVT_BASE + (pin + 128) = LVT_BASE + pin + 128  BY <1>1, BootAssumption DEF LVT_BASE
    <3> QED BY <2>1, <3>1, <3>2
  <2> QED BY <1>3, <2>1 DEF Redirections
<1>5. \A p, q \in 0 .. (Pins - 1) : redirection'[p] # None /\ redirection'[q] # None => p = q
  <2>1. SUFFICES ASSUME NEW p \in 0 .. (Pins - 1), NEW q \in 0 .. (Pins - 1),
                        redirection'[p] # None, redirection'[q] # None
                 PROVE  p = q
    OBVIOUS
  <2>2. (gsi = p \/ gsi = p + 128) /\ (gsi = q \/ gsi = q + 128)  BY <1>3, <2>1
  <2>3. p \in 0 .. 95 /\ q \in 0 .. 95  BY BootAssumption
  <2> QED BY <2>2, <2>3
<1>6. ASSUME gsi < 120 PROVE redirection' = Only(gsi)
  <2>1. \A pin \in 0 .. (Pins - 1) : (gsi = pin \/ gsi = pin + 128) <=> pin = gsi
    BY <1>1, <1>6, BootAssumption
  <2> QED BY <1>3, <2>1 DEF Only
<1> QED BY <1>4, <1>5, <1>6 DEF gsi

\* What Boot says of the root table in use, of given tables: as long as the
\* tables are the same, so is what is said of them.
FindIn(tables, identifier) == SelectInSeq(tables, LAMBDA t : Matches(t, identifier))
MadtIn(tables) == tables[FindIn(tables, "APIC")].body
OverridesIn(madt) == { n \in DOMAIN madt.records : madt.records[n].type = sourceOverride }
OwnIn(madt) == SelectInSeq(madt.records, LAMBDA r : r.type = sourceOverride /\ r.source = 1)
OwnPlaceIn(madt) == Cardinality({ n \in OverridesIn(madt) : n <= OwnIn(madt) })
FirmwareIn(madt) == IF OwnIn(madt) = 0 THEN 1 ELSE madt.records[OwnIn(madt)].gsi
MisreadIn(madt) == \/ OwnIn(madt) = 0 /\ Cardinality(OverridesIn(madt)) < 6
                   \/ OwnIn(madt) # 0 /\ OwnPlaceIn(madt) <= 6 /\ FirmwareIn(madt) >= 120

LEMMA OfTables ==
  /\ Find("APIC") = FindIn(root, "APIC") /\ Madt = MadtIn(root)
  /\ Misread <=> MisreadIn(MadtIn(root))
  /\ OwnPlace = OwnPlaceIn(MadtIn(root)) /\ FirmwareGSI(1) = FirmwareIn(MadtIn(root))
<1>1. Find("APIC") = FindIn(root, "APIC") /\ Madt = MadtIn(root)
  BY DEF Find, FindIn, Madt, MadtIn
<1>2. OwnOverride = OwnIn(Madt) /\ TableOverrides = OverridesIn(Madt)
  BY DEF OwnOverride, OwnIn, TableOverrides, OverridesIn
<1>3. OwnPlace = OwnPlaceIn(Madt)  BY <1>2 DEF OwnPlace, OwnPlaceIn
<1>4. FirmwareGSI(1) = FirmwareIn(Madt)  BY <1>2 DEF FirmwareGSI, FirmwareIn, OwnOverride
<1>5. Misread <=> MisreadIn(Madt)  BY <1>2, <1>3, <1>4 DEF Misread, MisreadIn
<1> QED BY <1>1, <1>3, <1>4, <1>5

\* From IOApic::initAll() on, the table has been walked to its end, and no pin
\* raises a vector before the keyboard's is routed.
Walked == {"hpet", "timer", "calibrate", "keyboard", "route", "clear", "run"}
RoutedIn(tables, entries) ==
  IF MisreadIn(MadtIn(tables))
  THEN \A p, q \in 0 .. (Pins - 1) : entries[p] # None /\ entries[q] # None => p = q
  ELSE entries = Only(IF OwnPlaceIn(MadtIn(tables)) > 6 THEN 1 ELSE FirmwareIn(MadtIn(tables)))

RouteInv ==
  /\ machine \in Machines /\ root \in {<<>>, machine.rsdt, machine.xsdt}
  /\ redirection \in Redirections
  /\ stage \in Walked => FindIn(root, "APIC") # 0 /\ Terminates(MadtIn(root))
  /\ stage \notin {"clear", "run", "stopped"} => redirection = Masked
  /\ stage \in {"clear", "run"} => RoutedIn(root, redirection)

LEMMA FoundMadt ==
  ASSUME machine \in Machines, root \in {<<>>, machine.rsdt, machine.xsdt}, Find("APIC") # 0
  PROVE  Madt.records \in Seq(Records) /\ Madt.behind \in Seq(Records)
<1> DEFINE I == { i \in 1 .. Len(root) : Matches(root[i], "APIC") }
<1>1. Find("APIC") = IF I # {} THEN Min(I) ELSE 0  BY DEF Find, SelectInSeq
<1>2. I \in SUBSET Nat  OBVIOUS
<1> HIDE DEF I
<1>3. I # {} /\ Find("APIC") \in I  BY <1>1, <1>2, LeastNumber
<1> DEFINE k == Find("APIC")
<1>4. k \in 1 .. Len(root) /\ root[k].signature = "APIC"  BY <1>3 DEF I, Matches
<1> HIDE DEF k
<1>5. root \in {machine.rsdt, machine.xsdt} /\ k \in DOMAIN root
  <2>1. root # <<>>  BY <1>4
  <2>2. DOMAIN root = 1 .. Len(root)  BY <2>1, AcpiAssumption
  <2> QED BY <1>4, <2>1, <2>2
<1>6. root[k].body.records \in Seq(Records) /\ root[k].body.behind \in Seq(Records)
  BY <1>4, <1>5, AcpiAssumption
<1> QED BY <1>6 DEF Madt, k

LEMMA RouteStarts == BootInit => RouteInv
  BY DEF BootInit, IoInit, AcpiStart, RouteInv, Walked, Masked, Redirections

\* A step that neither reads the tables nor writes an entry.
LEMMA RouteStays ==
  ASSUME RouteInv, UNCHANGED <<machine, root, redirection>>,
         \/ stage' = stage \/ stage' = "stopped"
         \/ stage \notin Walked \cup {"stopped"} /\ stage' \notin Walked
         \/ stage \in Walked \ {"clear", "run"} /\ stage' \in Walked \ {"clear", "run"}
         \/ stage = "clear" /\ stage' = "run"
  PROVE  RouteInv'
<1>1. (FindIn(root, "APIC") # 0)' = (FindIn(root, "APIC") # 0)  OBVIOUS
<1>2. Terminates(MadtIn(root))' = Terminates(MadtIn(root))  OBVIOUS
<1>3. RoutedIn(root, redirection)' = RoutedIn(root, redirection)  OBVIOUS
<1> QED BY <1>1, <1>2, <1>3 DEF RouteInv, Walked, Masked

LEMMA RouteSet == ASSUME RouteInv, RouteKeyboard PROVE RouteInv'
<1>1. /\ stage = "route" /\ halted = "no" /\ EnableIRQ(1) /\ UNCHANGED <<machine, root>>
      /\ stage' = IF halted' = "no" THEN "clear" ELSE "stopped"
  BY DEF RouteKeyboard, Boots, Then, EnableIRQ
<1>2. /\ machine \in Machines /\ root \in {<<>>, machine.rsdt, machine.xsdt}
      /\ redirection = Masked /\ redirection \in Redirections
      /\ FindIn(root, "APIC") # 0 /\ Terminates(MadtIn(root))
  BY <1>1 DEF RouteInv, Walked
<1>3. Madt.records \in Seq(Records) /\ Madt.behind \in Seq(Records) /\ Terminates(Madt)
  BY <1>2, OfTables, FoundMadt
<1>4. CASE halted' # "no"
  <2>1. stage' = "stopped" /\ redirection' = redirection
    BY <1>1, <1>4 DEF EnableIRQ, Stops
  <2> QED BY <1>1, <1>2, <2>1 DEF RouteInv, Walked, Redirections
<1>5. CASE halted' = "no"
  <2>1. UpdateIRQ(GetGSI(1))  BY <1>1, <1>5 DEF EnableIRQ, Stops
  <2>2. /\ redirection' \in Redirections
        /\ \A p, q \in 0 .. (Pins - 1) : redirection'[p] # None /\ redirection'[q] # None => p = q
        /\ GetGSI(1) < 120 => redirection' = Only(GetGSI(1))
    BY <1>2, <1>3, <2>1, Routes
  <2>3. ~Misread => redirection' = Only(IF OwnPlace > 6 THEN 1 ELSE FirmwareGSI(1))
    BY <1>3, <2>2, RightOrMisread
  <2>4. RoutedIn(root, redirection')  BY <2>2, <2>3, OfTables DEF RoutedIn
  <2>5. RoutedIn(root, redirection)'
    <3>1. root' = root  BY <1>1
    <3> QED BY <2>4, <3>1
  <2>6. (FindIn(root, "APIC") # 0)' /\ Terminates(MadtIn(root))'  BY <1>1, <1>2
  <2>7. stage' = "clear"  BY <1>1, <1>5
  <2>8. (redirection \in Redirections)'  BY <2>2 DEF Redirections
  <2> QED BY <1>1, <1>2, <2>5, <2>6, <2>7, <2>8 DEF RouteInv
<1> QED BY <1>4, <1>5

LEMMA RouteWalked == ASSUME RouteInv, InitIoApic PROVE RouteInv'
<1>1. /\ stage = "ioapic" /\ halted = "no" /\ InitAll /\ UNCHANGED <<machine, root, redirection>>
      /\ stage' = IF halted' = "no" THEN "hpet" ELSE "stopped"
  BY DEF InitIoApic, Boots, Then, InitAll, Stops
<1>2. CASE halted' # "no"
  <2>1. stage' = "stopped"  BY <1>1, <1>2
  <2> QED BY <1>1, <2>1, RouteStays
<1>3. CASE halted' = "no"
  <2>1. Find("APIC") # 0 /\ Terminates(Madt)  BY <1>1, <1>3 DEF InitAll, Stops
  <2>2. FindIn(root, "APIC") # 0 /\ Terminates(MadtIn(root))  BY <2>1, OfTables
  <2>3. (FindIn(root, "APIC") # 0)' /\ Terminates(MadtIn(root))'  BY <1>1, <2>2
  <2> QED BY <1>1, <1>3, <2>3 DEF RouteInv, Walked, Masked
<1> QED BY <1>2, <1>3

LEMMA RouteSteps == ASSUME RouteInv, BootStep PROVE RouteInv'
<1>1. CASE InitAcpi
  <2>1. /\ stage = "acpi" /\ stage' \in {"console", "stopped"} /\ UNCHANGED <<machine, redirection>>
        /\ root' \in {<<>>, machine.rsdt, machine.xsdt}
    BY <1>1 DEF InitAcpi, Boots, Then, AcpiInit, RootTable
  <2> QED BY <2>1 DEF RouteInv, Walked, Masked
<1>2. CASE InitIoApic  BY <1>2, RouteWalked
<1>3. CASE RouteKeyboard  BY <1>3, RouteSet
<1>4. CASE InitConsole \/ AssignGates \/ SetStacks \/ InitLocalApic \/ StartAllCores
  <2>1. UNCHANGED <<machine, root, redirection>> 
        /\ stage \notin Walked \cup {"stopped"} /\ stage' \notin Walked
    BY <1>4 DEF InitConsole, AssignGates, SetStacks, InitLocalApic, StartAllCores, Boots, Then,
                PanicIf, Walked
  <2> QED BY <2>1, RouteStays
<1>5. CASE InitHpet \/ RegisterTimer \/ CalibrateTimer \/ RegisterKeyboard \/ ClearBuffer
  <2>1. /\ UNCHANGED <<machine, root, redirection>>
        /\ \/ stage' = "stopped"
           \/ stage = "clear" /\ stage' = "run"
           \/ stage \in Walked \ {"clear", "run"} /\ stage' \in Walked \ {"clear", "run"}
    BY <1>5 DEF InitHpet, RegisterTimer, RegisterHandler, CalibrateTimer, RegisterKeyboard,
                ClearBuffer, Boots, Then, PanicIf, Walked, ioVars, acpiVars
  <2> QED BY <2>1, RouteStays
<1> QED BY <1>1, <1>2, <1>3, <1>4, <1>5 DEF BootStep

LEMMA RouteInductive == RouteInv /\ [Next]_bootVars => RouteInv'
<1> SUFFICES ASSUME RouteInv, [Next]_bootVars PROVE RouteInv'  OBVIOUS
<1>1. CASE BootStep  BY <1>1, RouteSteps
<1>2. CASE ~BootStep
  <2>1. UNCHANGED <<machine, root, redirection>> /\ (stage' = stage \/ stage' = "stopped")
    BY <1>2 DEF Next, OthersStart, KeyPress, TimerFires, Exception, Interrupt, Processor,
                bootVars, ioVars, acpiVars
  <2> QED BY <2>1, RouteStays
<1> QED BY <1>1, <1>2

\* On every machine the keyboard's pin raises its vector and no other pin does, if
\* the override that says so is among the first six and its GSI below 120, or if
\* there are six others; the first pin does if it is the seventh or a later one; and
\* else no two pins do (ioapic.cpp:39-81, madt.hpp:78-129).
THEOREM RoutedRight == Spec => []RoutedAsFirmwareSays
<1>1. RouteInv => RoutedAsFirmwareSays
  BY OfTables DEF RouteInv, RoutedIn, RoutedAsFirmwareSays
<1> QED BY <1>1, RouteStarts, RouteInductive, PTL DEF Spec

-----------------------------------------------------------------------------
\* Then Boot itself.

(***************************************************************************)
(* Boot.  Nothing is requested or raised before the table has its gates,   *)
(* which other processors may change while they start, but not to anything *)
(* a gate could not be.  What is reported was taken, and what is taken     *)
(* follows from what was raised.                                           *)
(***************************************************************************)
Early == {"acpi", "console", "assign", "ist"}
Late == {"lapic", "smp", "ioapic", "hpet", "timer", "calibrate", "keyboard", "route", "clear", "run"}

GateInv ==
  /\ inits.busy \in BOOLEAN
  /\ idt \in [Vectors -> [code : {"none", "intr", "err", "irq"}, ist : 0 .. 4]]
  /\ stage \in Early => irr = {} /\ ~InHandler /\ ~inits.busy
  /\ stage = "ist" => \A v \in Vectors : idt[v].code = EntryCode(v) /\ idt[v].ist = 0
  /\ stage \in Late \/ irr # {} \/ InHandler => Ready

\* The exception or interrupt that is taken for one that was raised.
Taking(raised) == CASE raised = PageFault -> DoubleFault
                    [] raised \in 48 .. 255 -> GeneralProtection
                    [] OTHER -> raised

ReportInv == /\ entry.no = Taking(entry.raised)
             /\ \E S : reports \in Seq(S)
             /\ \A k \in DOMAIN reports : reports[k].int_no = Num(Taking(reports[k].raised))

BootInv == CpuInv /\ GateInv /\ redirection \in Redirections /\ ReportInv

LEMMA CpuSame ==
  ASSUME BootInv, UNCHANGED <<idt, inits, regs, current, saved, stack, irr, entry, reports>>,
         redirection' \in Redirections,
         \/ stage' = "stopped" \/ stage' = stage
         \/ stage \in Late /\ stage' \in Late
         \/ stage \in {"acpi", "console"} /\ stage' \in {"console", "assign"}
  PROVE  BootInv'
<1>1. CpuInv'
  <2>1. irr' \subseteq Requests  BY DEF BootInv, CpuInv, CpuTypeOK
  <2> QED BY <2>1, Untouched DEF BootInv
<1>2. GateInv'
  <2>1. stage' \in Early => stage \in Early  BY DEF Early, Late
  <2>2. stage' = "ist" => stage = "ist"  BY DEF Late
  <2>3. stage' \in Late => stage \in Late  BY DEF Late
  <2>4. InHandler' = InHandler  BY DEF InHandler
  <2>5. Ready => Ready'  BY DEF Ready
  <2>6. GateInv  BY DEF BootInv
  <2> QED BY <2>1, <2>2, <2>3, <2>4, <2>5, <2>6 DEF GateInv
<1>3. ReportInv'  BY DEF BootInv, ReportInv
<1> QED BY <1>1, <1>2, <1>3 DEF BootInv

LEMMA DeliverKeeps ==
  ASSUME BootInv, Ready, NEW vector \in Vectors, Deliver(vector),
         InterruptsOn \/ (Place = "handler" /\ vector \notin Requests),
         UNCHANGED <<idt, inits, current, saved, reports>>, irr' \subseteq Requests,
         redirection' \in Redirections, stage' \notin Early
  PROVE  BootInv'
<1>1. CpuInv'
  <2>1. inits.busy \in BOOLEAN  BY DEF BootInv, GateInv
  <2> QED BY <2>1, Delivers DEF BootInv
<1>2. GateInv'
  <2>1. Ready'  BY DEF Ready
  <2> QED BY <2>1 DEF BootInv, GateInv, Early
<1>3. ReportInv'
  <2>1. entry'.raised = vector /\ entry'.no = Taken(vector)  BY DEF Deliver
  <2>2. Taken(vector) = Taking(vector)
    <3>1. vector \in 0 .. 255 /\ (vector \in 48 .. 255 => vector \in Requests)
      BY InterruptsAssumption DEF Vectors, PageFault, DoubleFault, GeneralProtection
    <3>2. idt[vector].code = EntryCode(vector)  BY DEF Ready
    <3> QED BY <3>1, <3>2 DEF Taken, Taking, EntryCode, PageFault, DoubleFault, GeneralProtection
  <2>3. /\ \E S : reports \in Seq(S)
        /\ \A k \in DOMAIN reports : reports[k].int_no = Num(Taking(reports[k].raised))
    BY DEF BootInv, ReportInv
  <2> QED BY <2>1, <2>2, <2>3 DEF ReportInv
<1> QED BY <1>1, <1>2, <1>3 DEF BootInv

LEMMA BootStarts == BootInit => BootInv
<1> SUFFICES ASSUME BootInit PROVE BootInv  OBVIOUS
<1> USE DEF BootInit
<1>1. CpuInv  BY CpuStarts
<1>2. ~InHandler
  <2>1. Own(First)["rip"] = <<First, "run">>  BY RegisterNames DEF Own
  <2> QED BY <2>1, InterruptsAssumption DEF InterruptsInit, InHandler, Kernel
<1>3. GateInv  BY <1>2 DEF GateInv, InterruptsInit, NoGate, Late
<1>4. redirection \in Redirections  BY DEF IoInit, Masked, Redirections
<1>5. ReportInv
  <2>1. entry.no = 0 /\ entry.raised = 0 /\ reports = <<>>  BY DEF InterruptsInit
  <2>2. reports \in Seq({})  BY <2>1
  <2>3. entry.no = Taking(entry.raised)  BY <2>1 DEF Taking, PageFault
  <2> QED BY <2>1, <2>2, <2>3 DEF ReportInv
<1> QED BY <1>1, <1>3, <1>4, <1>5 DEF BootInv

LEMMA Appended ==
  ASSUME NEW S, NEW s \in Seq(S), NEW r
  PROVE  /\ Append(s, r) \in Seq(S \cup {r})
         /\ \A k \in DOMAIN Append(s, r) : (k \in DOMAIN s /\ Append(s, r)[k] = s[k]) \/ Append(s, r)[k] = r
<1>1. s \in Seq(S \cup {r})  OBVIOUS
<1> QED BY <1>1

\* The two loops of interrupt::init(), on this processor and on others.
LEMMA Gates ==
  ASSUME BootInv
  PROVE  /\ Assign => /\ idt' \in [Vectors -> [code : {"none", "intr", "err", "irq"}, ist : 0 .. 4]]
                      /\ \A v \in Vectors : idt'[v].code = EntryCode(v) /\ idt'[v].ist = 0
         /\ SetIst => /\ idt' \in [Vectors -> [code : {"none", "intr", "err", "irq"}, ist : 0 .. 4]]
                      /\ \A v \in Vectors : /\ idt'[v].code = idt[v].code
                                            /\ idt'[v].ist = IF Ist(v) # 0 THEN Ist(v) ELSE idt[v].ist
<1>1. idt \in [Vectors -> [code : {"none", "intr", "err", "irq"}, ist : 0 .. 4]]
  BY DEF BootInv, GateInv
<1>2. \A v : EntryCode(v) \in {"none", "intr", "err", "irq"}  BY DEF EntryCode
<1>3. \A v : Ist(v) \in 0 .. 4  BY DEF Ist
<1>4. ASSUME Assign PROVE /\ idt' \in [Vectors -> [code : {"none", "intr", "err", "irq"}, ist : 0 .. 4]]
                          /\ \A v \in Vectors : idt'[v].code = EntryCode(v) /\ idt'[v].ist = 0
  <2>1. idt' = [v \in Vectors |-> [code |-> EntryCode(v), ist |-> 0]]  BY <1>1, <1>4 DEF Assign
  <2> QED BY <1>2, <2>1
<1>5. ASSUME SetIst
      PROVE  /\ idt' \in [Vectors -> [code : {"none", "intr", "err", "irq"}, ist : 0 .. 4]]
             /\ \A v \in Vectors : /\ idt'[v].code = idt[v].code
                                   /\ idt'[v].ist = IF Ist(v) # 0 THEN Ist(v) ELSE idt[v].ist
  <2>1. idt' = [v \in Vectors |-> [idt[v] EXCEPT !.ist = IF Ist(v) # 0 THEN Ist(v) ELSE @]]
    BY <1>1, <1>5 DEF SetIst
  <2> QED BY <1>1, <1>3, <2>1
<1> QED BY <1>4, <1>5

LEMMA OthersKeep == ASSUME BootInv, OthersStart PROVE BootInv'
<1>1. /\ UNCHANGED <<regs, current, saved, stack, irr, entry, reports, redirection, stage>>
      /\ stage = "smp"
  BY DEF OthersStart, OtherAssigns, OtherSetsIst, apic, ioVars
<1>2. Ready  BY <1>1 DEF BootInv, GateInv, Late
<1>3. /\ inits'.busy \in BOOLEAN /\ Ready'
      /\ idt' \in [Vectors -> [code : {"none", "intr", "err", "irq"}, ist : 0 .. 4]]
  <2>1. CASE OtherAssigns
    <3>1. inits' = [inits EXCEPT !.busy = TRUE] /\ Assign  BY <2>1 DEF OtherAssigns
    <3> QED BY <3>1, Gates DEF Ready
  <2>2. CASE OtherSetsIst
    <3>1. inits'.busy = FALSE /\ SetIst  BY <2>2 DEF OtherSetsIst
    <3>2. \A v \in Vectors : idt'[v].code = EntryCode(v) /\ idt'[v].ist = Ist(v)
      BY <1>2, <3>1, Gates DEF Ready
    <3> QED BY <3>1, <3>2, Gates DEF Ready
  <2> QED BY <2>1, <2>2 DEF OthersStart
<1>4. CpuInv'
  <2>1. irr' \subseteq Requests  BY <1>1 DEF BootInv, CpuInv, CpuTypeOK
  <2> QED BY <1>1, <2>1, Untouched DEF BootInv
<1>5. GateInv'  BY <1>1, <1>3 DEF GateInv, Early
<1>6. ReportInv'  BY <1>1 DEF BootInv, ReportInv
<1> QED BY <1>1, <1>4, <1>5, <1>6 DEF BootInv

LEMMA GatesKeep == ASSUME BootInv, AssignGates \/ SetStacks PROVE BootInv'
<1>1. /\ UNCHANGED <<inits, regs, current, saved, stack, irr, entry, reports, redirection>>
      /\ stage \in Early /\ halted' = "no"
  BY DEF AssignGates, SetStacks, PanicIf, Boots, Early
<1>2. CpuInv'
  <2>1. irr' \subseteq Requests  BY <1>1 DEF BootInv, CpuInv, CpuTypeOK
  <2> QED BY <1>1, <2>1, Untouched DEF BootInv
<1>3. irr' = {} /\ ~InHandler' /\ inits'.busy = FALSE
  BY <1>1 DEF BootInv, GateInv, InHandler
<1>4. GateInv'
  <2>1. CASE AssignGates
    <3>1. stage' = "ist" /\ Assign  BY <1>1, <2>1 DEF AssignGates, Then
    <3> QED BY <1>3, <3>1, Gates DEF GateInv, Late
  <2>2. CASE SetStacks
    <3>1. stage = "ist" /\ stage' = "lapic" /\ SetIst  BY <1>1, <2>2 DEF SetStacks, Then, Boots
    <3>2. \A v \in Vectors : idt[v].code = EntryCode(v) /\ idt[v].ist = 0
      BY <3>1 DEF BootInv, GateInv
    <3>3. Ready'
      <4>1. \A v \in Vectors : idt'[v].code = EntryCode(v) /\ idt'[v].ist = Ist(v)
        BY <3>1, <3>2, Gates
      <4> QED BY <4>1 DEF Ready
    <3> QED BY <1>3, <3>1, <3>3, Gates DEF GateInv, Early
  <2> QED BY <2>1, <2>2
<1>5. ReportInv'  BY <1>1 DEF BootInv, ReportInv
<1> QED BY <1>1, <1>2, <1>4, <1>5 DEF BootInv

\* The actions of booting that may fault.
LEMMA FaultsKeep ==
  ASSUME BootInv, MayFault, redirection' \in Redirections, InterruptsOn, stage \in Late,
         stage' \in Late \/ stage' = "stopped"
  PROVE  BootInv'
<1>1. CASE UNCHANGED cpuVars  BY <1>1, CpuSame DEF cpuVars
<1>2. CASE ~UNCHANGED cpuVars
  <2>1. Deliver(PageFault) /\ UNCHANGED <<idt, inits, current, saved, irr, reports>>
    BY <1>2 DEF MayFault
  <2>2. PageFault \in Vectors /\ Ready /\ stage' \notin Early
    BY DEF Vectors, BootInv, GateInv, Early, Late
  <2>3. irr' \subseteq Requests  BY <2>1 DEF BootInv, CpuInv, CpuTypeOK
  <2> QED BY <2>1, <2>2, <2>3, DeliverKeeps
<1> QED BY <1>1, <1>2

LEMMA BootStepKeeps == ASSUME BootInv, RouteInv, BootStep PROVE BootInv'
<1>1. redirection \in Redirections  BY DEF BootInv
<1>2. CASE InitAcpi
  <2>1. /\ UNCHANGED cpuVars /\ redirection' = redirection /\ stage = "acpi"
        /\ stage' \in {"console", "stopped"}
    BY <1>2 DEF InitAcpi, Boots, Then
  <2> QED BY <1>1, <2>1, CpuSame DEF cpuVars
<1>3. CASE InitConsole
  <2>1. /\ UNCHANGED cpuVars /\ redirection' = redirection /\ stage = "console"
        /\ stage' \in {"assign", "stopped"}
    BY <1>3 DEF InitConsole, Boots, Then, PanicIf
  <2> QED BY <1>1, <2>1, CpuSame DEF cpuVars
<1>4. CASE AssignGates \/ SetStacks  BY <1>4, GatesKeep
<1>5. CASE InitLocalApic \/ StartAllCores \/ InitHpet \/ ClearBuffer
  <2>1. /\ UNCHANGED cpuVars /\ redirection' = redirection /\ stage \in Late
        /\ stage' \in Late \cup {"stopped"}
    BY <1>5 DEF InitLocalApic, StartAllCores, InitHpet, ClearBuffer, Boots, Then, PanicIf, Late
  <2> QED BY <1>1, <2>1, CpuSame DEF cpuVars
<1>6. CASE InitIoApic
  <2>1. /\ MayFault /\ redirection' = redirection /\ InterruptsOn /\ stage = "ioapic"
        /\ stage' \in {"hpet", "stopped"}
    BY <1>6 DEF InitIoApic, InitAll, Stops, Boots, Then
  <2> QED BY <1>1, <2>1, FaultsKeep DEF Late
<1>7. CASE RegisterTimer \/ RegisterKeyboard
  <2>1. /\ UNCHANGED <<idt, inits, regs, current, saved, stack, irr, entry, reports, redirection>>
        /\ stage \in Late /\ stage' \in Late \cup {"stopped"}
    BY <1>7 DEF RegisterTimer, RegisterKeyboard, RegisterHandler, Boots, Then, PanicIf, Late
  <2> QED BY <1>1, <2>1, CpuSame
<1>8. CASE CalibrateTimer
  <2>1. /\ UNCHANGED cpuVars /\ redirection' = redirection /\ stage \in Late /\ stage' \in Late
    BY <1>8 DEF CalibrateTimer, ioVars, Late
  <2> QED BY <1>1, <2>1, CpuSame DEF cpuVars
<1>9. CASE RouteKeyboard
  <2>1. /\ MayFault /\ EnableIRQ(1) /\ InterruptsOn /\ stage = "route"
        /\ stage' \in {"clear", "stopped"}
    BY <1>9 DEF RouteKeyboard, Boots, Then
  <2>2. RouteInv'  BY RouteSteps
  <2>3. redirection' \in Redirections  BY <2>2 DEF RouteInv, Redirections
  <2> QED BY <2>1, <2>3, FaultsKeep DEF Late
<1> QED BY <1>2, <1>3, <1>4, <1>5, <1>6, <1>7, <1>8, <1>9 DEF BootStep

LEMMA RequestKeeps ==
  ASSUME BootInv, NEW vector \in Requests, Request(vector), UNCHANGED <<stage, redirection>>, stage \in Late
  PROVE  BootInv'
<1>1. /\ irr' = irr \cup {vector}
      /\ UNCHANGED <<idt, inits, regs, current, saved, stack, entry, reports>>
  BY DEF Request
<1>2. CpuInv'
  <2>1. irr' \subseteq Requests  BY <1>1 DEF BootInv, CpuInv, CpuTypeOK
  <2> QED BY <1>1, <2>1, Untouched DEF BootInv
<1>3. GateInv'
  <2>1. Ready /\ Ready'  BY <1>1 DEF BootInv, GateInv, Ready
  <2>2. stage' \notin Early  BY DEF Early, Late
  <2> QED BY <1>1, <2>1, <2>2 DEF BootInv, GateInv, Early
<1>4. ReportInv'  BY <1>1 DEF BootInv, ReportInv
<1> QED BY <1>2, <1>3, <1>4 DEF BootInv

LEMMA DevicesKeep == ASSUME BootInv, KeyPress \/ TimerFires PROVE BootInv'
<1>1. UNCHANGED <<stage, redirection>> /\ stage \in Late
  BY DEF KeyPress, TimerFires, ioVars, Late
<1>2. redirection \in Redirections  BY DEF BootInv
<1>3. \/ UNCHANGED cpuVars
      \/ \E pin \in DOMAIN redirection : redirection[pin] # None /\ Request(redirection[pin])
      \/ Request(LVT_BASE)
  BY DEF KeyPress, TimerFires
<1>4. CASE UNCHANGED cpuVars  BY <1>1, <1>2, <1>4, CpuSame DEF cpuVars
<1>5. ASSUME NEW pin \in DOMAIN redirection, redirection[pin] # None, Request(redirection[pin])
      PROVE  BootInv'
  <2>1. redirection[pin] \in Requests  BY <1>2, <1>5 DEF Redirections
  <2> QED BY <1>1, <1>5, <2>1, RequestKeeps
<1>6. CASE Request(LVT_BASE)
  <2>1. 0 \in 0 .. (Pins - 1) /\ LVT_BASE + 0 = LVT_BASE  BY BootAssumption DEF LVT_BASE
  <2>2. LVT_BASE \in Requests  BY <2>1, BootAssumption
  <2> QED BY <1>1, <1>6, <2>2, RequestKeeps
<1> QED BY <1>3, <1>4, <1>5, <1>6

LEMMA ExceptionKeeps == ASSUME BootInv, Exception PROVE BootInv'
<1>1. PICK v \in Exceptions : Raise(v)  BY DEF Exception
<1>2. UNCHANGED <<stage, redirection>> /\ stage \in Late  BY DEF Exception, ioVars, Late
<1>3. /\ Place \in {"start", "run", "handler"} /\ Deliver(v)
      /\ UNCHANGED <<idt, inits, current, saved, irr, reports>>
  BY <1>1 DEF Raise, apic
<1>4. v \in Vectors /\ v \notin Requests  BY InterruptsAssumption DEF Vectors
<1>5. InterruptsOn \/ Place = "handler"
  BY <1>3 DEF BootInv, CpuInv, ContextInv, HandlerPlaces, Ahead, InterruptsOn
<1>6. irr' \subseteq Requests /\ Ready /\ redirection' \in Redirections /\ stage' \notin Early
  BY <1>2, <1>3 DEF BootInv, CpuInv, CpuTypeOK, GateInv, Early, Late
<1> QED BY <1>3, <1>4, <1>5, <1>6, DeliverKeeps

LEMMA InterruptKeeps == ASSUME BootInv, Interrupt PROVE BootInv'
<1> DEFINE v == Highest(irr)
<1>1. irr \subseteq Requests /\ irr # {} /\ Requests \subseteq 32 .. 255
  BY InterruptsAssumption DEF BootInv, CpuInv, CpuTypeOK, Interrupt, TakeRequest
<1>2. v \in irr  BY <1>1, HighestFacts
<1>3. /\ InterruptsOn /\ Deliver(v) /\ irr' = irr \ {v}
      /\ UNCHANGED <<idt, inits, current, saved, reports, stage, redirection>>
  BY DEF Interrupt, TakeRequest, ioVars
<1>4. v \in Vectors  BY <1>1, <1>2 DEF Vectors
<1> HIDE DEF v
<1>5. irr' \subseteq Requests  BY <1>1, <1>3
<1>6. Ready /\ stage' \notin Early /\ redirection' \in Redirections
  BY <1>1, <1>3 DEF BootInv, GateInv
<1> QED BY <1>3, <1>4, <1>5, <1>6, DeliverKeeps

LEMMA ProcessorKeeps == ASSUME BootInv, Processor PROVE BootInv'
<1>1. /\ Step /\ UNCHANGED <<idt, inits, irr, entry, redirection>>
      /\ stage' = stage \/ stage' = "stopped"
  BY DEF Processor, Step, Stub, Wrapper, Report, Dispatch, Handle, Return, Begin, apic, ioVars
<1>2. CpuInv'  BY <1>1, StepKeeps DEF BootInv
<1>3. InHandler' => InHandler
  <2>1. ~InHandler => Place \in {"run", "start"}
    BY LeftFacts DEF BootInv, CpuInv, CpuTypeOK, ContextInv, Place
  <2>2. ~InHandler => Begin
    BY <1>1, <2>1 DEF Step, Stub, Wrapper, Report, Dispatch, Handle, Return
  <2>3. ASSUME Begin PROVE ~InHandler'
    <3>1. regs' = Own(current) /\ current \in Contexts  BY <2>3 DEF Begin, BootInv, CpuInv, CpuTypeOK
    <3>2. Own(current)["rip"] = <<current, "run">>  BY RegisterNames DEF Own
    <3> QED BY <3>1, <3>2, InterruptsAssumption DEF InHandler, Kernel
  <2> QED BY <2>2, <2>3
<1>4. GateInv'
  <2>1. Ready => Ready'  BY <1>1 DEF Ready
  <2>2. GateInv  BY DEF BootInv
  <2>3. stage' \in Early \/ stage' = "ist" \/ stage' \in Late => stage' = stage
    BY <1>1 DEF Early, Late
  <2> QED BY <1>1, <1>3, <2>1, <2>2, <2>3 DEF GateInv
<1>5. ReportInv'
  <2>1. ReportInv  BY DEF BootInv
  <2>2. CASE reports' = reports  BY <1>1, <2>1, <2>2 DEF ReportInv
  <2>3. CASE reports' # reports
    <3>1. Report
      BY <1>1, <2>3 DEF Step, Stub, Wrapper, Dispatch, Handle, Return, Begin
    <3>2. PICK chain \in Chains(Callers) :
            reports' = Append(reports, [raised |-> entry.raised,
                                        int_no |-> FrameAt(stack)["int_no"],
                                        inHandler |-> entry.regs["rip"][1] = Kernel,
                                        callers |-> Callers, lines |-> Trace(chain),
                                        endless |-> Endless(chain)])
      BY <3>1 DEF Report
    <3> DEFINE r == [raised |-> entry.raised, int_no |-> FrameAt(stack)["int_no"],
                     inHandler |-> entry.regs["rip"][1] = Kernel,
                     callers |-> Callers, lines |-> Trace(chain), endless |-> Endless(chain)]
    <3>3. FrameAt(stack)["int_no"] = Num(entry.no)
      BY <3>1, CpuInvImplies DEF BootInv, FrameAgrees, Report
    <3>4. r.int_no = Num(Taking(r.raised))  BY <2>1, <3>3 DEF ReportInv
    <3>5. PICK S : reports \in Seq(S)  BY <2>1 DEF ReportInv
    <3>6. reports' = Append(reports, r)  BY <3>2
    <3> HIDE DEF r
    <3>7. reports' \in Seq(S \cup {r})  BY <3>5, <3>6, Appended
    <3>8. \A k \in DOMAIN reports' : reports'[k].int_no = Num(Taking(reports'[k].raised))
      BY <2>1, <3>4, <3>5, <3>6, Appended DEF ReportInv
    <3>9. entry'.no = Taking(entry'.raised)  BY <1>1, <2>1 DEF ReportInv
    <3> QED BY <3>7, <3>8, <3>9 DEF ReportInv
  <2> QED BY <2>2, <2>3
<1> QED BY <1>1, <1>2, <1>4, <1>5 DEF BootInv

\* BootInv holds in every state, whatever the firmware provides, whichever
\* interrupts and exceptions come, and whatever the tasks are.
THEOREM BootInvariance == Spec => []BootInv
<1>1. BootInv /\ RouteInv /\ [Next]_bootVars => BootInv'
  <2> SUFFICES ASSUME BootInv, RouteInv, [Next]_bootVars PROVE BootInv'  OBVIOUS
  <2>1. CASE BootStep  BY <2>1, BootStepKeeps
  <2>2. CASE OthersStart  BY <2>2, OthersKeep
  <2>3. CASE KeyPress \/ TimerFires  BY <2>3, DevicesKeep
  <2>4. CASE Exception  BY <2>4, ExceptionKeeps
  <2>5. CASE Interrupt  BY <2>5, InterruptKeeps
  <2>6. CASE Processor  BY <2>6, ProcessorKeeps
  <2>7. CASE UNCHANGED bootVars
    <3>1. redirection' \in Redirections  BY <2>7 DEF BootInv, bootVars, ioVars
    <3> QED BY <2>7, <3>1, CpuSame DEF bootVars, cpuVars
  <2> QED BY <2>1, <2>2, <2>3, <2>4, <2>5, <2>6, <2>7 DEF Next
<1> QED BY <1>1, BootStarts, RouteStarts, RouteInductive, PTL DEF Spec

\* What handlers find in the frame is what was interrupted, but for three
\* registers (interrupt.asm:10-65, cpu.hpp:8-33).
THEOREM FramesAgree == Spec => []FrameAgrees
<1>1. BootInv => FrameAgrees  BY CpuInvImplies DEF BootInv
<1> QED BY <1>1, BootInvariance, PTL

\* Every context goes on with the registers it left (timer.cpp:24-34).
THEOREM ContextsRestored == Spec => []ContextRestored
<1>1. BootInv => ContextRestored  BY CpuInvImplies DEF BootInv
<1> QED BY <1>1, BootInvariance, PTL

\* What is reported is what was raised, but for what has no gate (interrupt.asm:95-133).
THEOREM ReportsFollow == Spec => []ReportedAsRaised
<1>1. BootInv => ReportedAsRaised  BY DEF BootInv, ReportInv, Taking, ReportedAsRaised
<1> QED BY <1>1, BootInvariance, PTL

\* Booting keeps to the clock's specification, and the timer's period is enough.
THEOREM BootKeepsClock == Spec => ClockSpec /\ []TicksEnough
<1>1. BootInit => ClockInit  BY DEF BootInit
<1>2. [Next]_bootVars => [ClockNext]_clockVars
  <2> SUFFICES ASSUME [Next]_bootVars PROVE [ClockNext]_clockVars  OBVIOUS
  <2>1. CASE InitHpet
    <3>1. HpetInit \/ UNCHANGED clockVars  BY <2>1 DEF InitHpet
    <3> QED BY <3>1 DEF ClockNext, Code
  <2>2. CASE CalibrateTimer  BY <2>2 DEF CalibrateTimer
  <2>3. CASE Next /\ ~InitHpet /\ ~CalibrateTimer
    BY <2>3 DEF Next, BootStep, OthersStart, KeyPress, TimerFires, Exception, Interrupt, Processor,
       InitAcpi, InitConsole, AssignGates, SetStacks, InitLocalApic, StartAllCores, InitIoApic,
       RegisterTimer, RegisterKeyboard, RegisterHandler, RouteKeyboard, ClearBuffer, others
  <2>4. CASE UNCHANGED bootVars  BY <2>4 DEF bootVars
  <2> QED BY <2>1, <2>2, <2>3, <2>4
<1> QED BY <1>1, <1>2, PeriodLongEnough, PTL DEF Spec, ClockSpec

\* So does it to the keyboard's, whatever interrupts are lost on the way.
THEOREM BootKeepsKeyboard == Spec => KeyboardSpec /\ []ShiftAgrees
<1>1. BootInit => KeyboardInit  BY DEF BootInit
<1>2. [Next]_bootVars => [KeyboardNext]_keyVars
  <2> SUFFICES ASSUME [Next]_bootVars PROVE [KeyboardNext]_keyVars  OBVIOUS
  <2>1. CASE KeyPress \/ ClearBuffer \/ Processor
    BY <2>1 DEF KeyPress, ClearBuffer, Processor, KeyboardNext
  <2>2. CASE Next /\ ~KeyPress /\ ~ClearBuffer /\ ~Processor
    BY <2>2 DEF Next, BootStep, OthersStart, TimerFires, Exception, Interrupt,
       InitAcpi, InitConsole, AssignGates, SetStacks, InitLocalApic, StartAllCores, InitIoApic,
       InitHpet, RegisterTimer, CalibrateTimer, RegisterKeyboard, RegisterHandler, RouteKeyboard
  <2>3. CASE UNCHANGED bootVars  BY <2>3 DEF bootVars
  <2> QED BY <2>1, <2>2, <2>3
<1> QED BY <1>1, <1>2, ShiftFollows, PTL DEF Spec, KeyboardSpec

-----------------------------------------------------------------------------
\* Then the picture that the firmware's tables have, and what a panic prints.

LEMMA FiveRegions ==
  ASSUME NEW a, NEW b, NEW c, NEW d, NEW i
  PROVE  LET s == <<a, b, c, d>> \o <<>> \o <<i>>
         IN  /\ DOMAIN s = 1 .. 5
             /\ s[1] = a /\ s[2] = b /\ s[3] = c /\ s[4] = d /\ s[5] = i
  OBVIOUS

LEMMA NineRegions ==
  ASSUME NEW a, NEW b, NEW c, NEW d, NEW e, NEW f, NEW g, NEW h, NEW i
  PROVE  LET s == <<a, b, c, d>> \o <<e, f, g, h>> \o <<i>>
         IN  /\ DOMAIN s = 1 .. 9
             /\ s[1] = a /\ s[2] = b /\ s[3] = c /\ s[4] = d
             /\ s[5] = e /\ s[6] = f /\ s[7] = g /\ s[8] = h /\ s[9] = i
  OBVIOUS

\* What the margin's part of a pixel is, by its distance from the nearest edge.
BlendAt(f, x, y) ==
  IF \A d \in {x, f.width - 1 - x, y, f.height - 1 - y} : d >= Margin
  THEN "internal"
  ELSE IF \A d \in {x, f.width - 1 - x, y, f.height - 1 - y} : d >= Margin - Gradient
  THEN "margin" ELSE "external"

\* The loops overlap, but the last that reaches a pixel is the one that should
\* (gterm.c:217-260).
LEMMA LastRegion ==
  ASSUME NEW f \in Frames, NEW x \in 0 .. (f.width - 1), NEW y \in 0 .. (f.height - 1)
  PROVE  LET regions == Regions(f.width, f.height)
             last == Max({ k \in DOMAIN regions : InRegion(regions[k], x, y) })
         IN  regions[last].blend = BlendAt(f, x, y)
<1> DEFINE w == f.width
           h == f.height
           p == IF Margin > Gradient THEN Margin - Gradient ELSE 0
           R == Regions(w, h)
           S == { k \in DOMAIN R : InRegion(R[k], x, y) }
           internal == \A d \in {x, w - 1 - x, y, h - 1 - y} : d >= Margin
           margin == \A d \in {x, w - 1 - x, y, h - 1 - y} : d >= p
<1>1. /\ Margin \in Nat /\ Gradient \in Nat /\ GlyphWidth \in Nat \ {0} /\ GlyphHeight \in Nat \ {0}
      /\ w \in Nat /\ h \in Nat /\ w >= 2 * Margin + GlyphWidth /\ h >= 2 * Margin + GlyphHeight
  BY CanvasAssumption
<1>2. x \in 0 .. (w - 1) /\ y \in 0 .. (h - 1)  OBVIOUS
<1>3. p \in Nat /\ p <= Margin /\ (Gradient = 0 => p = Margin) /\ w >= 2 * p + 1 /\ h >= 2 * p + 1
  BY <1>1
<1>4. (\A d \in {x, w - 1 - x, y, h - 1 - y} : d >= Margin - Gradient) <=> margin
  BY <1>1, <1>2
<1>5. BlendAt(f, x, y) = IF internal THEN "internal" ELSE IF margin THEN "margin" ELSE "external"
  BY <1>4 DEF BlendAt
<1> HIDE DEF w, h, p
<1>6. CASE Gradient = 0
  <2>1. /\ DOMAIN R = 1 .. 5
        /\ R[1] = Region(0, w, 0, p, "external")
        /\ R[2] = Region(0, w, h - p, h, "external")
        /\ R[3] = Region(0, p, p, h - p, "external")
        /\ R[4] = Region(w - p, w, p, h - p, "external")
        /\ R[5] = Region(Margin, w - Margin, Margin, h - Margin, "internal")
    <3>1. R = <<Region(0, w, 0, p, "external"), Region(0, w, h - p, h, "external"),
                Region(0, p, p, h - p, "external"), Region(w - p, w, p, h - p, "external")>>
              \o <<>> \o <<Region(Margin, w - Margin, Margin, h - Margin, "internal")>>
      BY <1>6 DEF Regions, p
    <3> HIDE DEF R
    <3> QED BY <3>1, FiveRegions
  <2> HIDE DEF R
  <2>2. S \in SUBSET (0 .. 5) /\ S # {}
    <3>1. S \in SUBSET (0 .. 5)  BY <2>1
    <3>2. \E k \in 1 .. 5 : InRegion(R[k], x, y)
      BY <2>1, <1>1, <1>2, <1>3, <1>6 DEF InRegion, Region
    <3> QED BY <3>1, <3>2, <2>1
  <2>3. Max(S) \in S /\ \A k \in S : Max(S) >= k
    <3> HIDE DEF S
    <3> QED BY <2>2, GreatestNumber
  <2> DEFINE last == Max(S)
  <2>4. last \in 1 .. 5 /\ InRegion(R[last], x, y)  BY <2>1, <2>3
  <2>5. 5 \in S <=> internal  BY <2>1, <1>1, <1>2 DEF InRegion, Region
  <2>6. 5 \in S => last = 5
    <3> HIDE DEF S
    <3> QED BY <2>3, <2>4
  <2> HIDE DEF last
  <2>7. CASE internal
    <3>1. last = 5  BY <2>5, <2>6, <2>7
    <3>2. R[last].blend = "internal"  BY <2>1, <3>1 DEF Region
    <3> QED BY <1>5, <2>7, <3>2 DEF last, R, w, h
  <2>8. CASE ~internal
    <3>1. last # 5  BY <2>3, <2>5, <2>8 DEF last
    <3>2. R[last].blend = "external"  BY <2>1, <2>4, <3>1 DEF Region
    <3>3. ~margin  BY <2>8, <1>3, <1>6
    <3> QED BY <1>5, <2>8, <3>2, <3>3 DEF last, R, w, h
  <2> QED BY <2>7, <2>8
<1>7. CASE Gradient # 0
  <2>1. /\ DOMAIN R = 1 .. 9
        /\ R[1] = Region(0, w, 0, p, "external")
        /\ R[2] = Region(0, w, h - p, h, "external")
        /\ R[3] = Region(0, p, p, h - p, "external")
        /\ R[4] = Region(w - p, w, p, h - p, "external")
        /\ R[5] = Region(p, w - p, p, Margin, "margin")
        /\ R[6] = Region(p, w - p, h - Margin, h - p, "margin")
        /\ R[7] = Region(p, Margin, Margin, h - Margin, "margin")
        /\ R[8] = Region(w - Margin, w - p, Margin, h - Margin, "margin")
        /\ R[9] = Region(Margin, w - Margin, Margin, h - Margin, "internal")
    <3>1. R = <<Region(0, w, 0, p, "external"), Region(0, w, h - p, h, "external"),
                Region(0, p, p, h - p, "external"), Region(w - p, w, p, h - p, "external")>>
              \o <<Region(p, w - p, p, Margin, "margin"), Region(p, w - p, h - Margin, h - p, "margin"),
                   Region(p, Margin, Margin, h - Margin, "margin"),
                   Region(w - Margin, w - p, Margin, h - Margin, "margin")>>
              \o <<Region(Margin, w - Margin, Margin, h - Margin, "internal")>>
      BY <1>7 DEF Regions, p
    <3> HIDE DEF R
    <3> QED BY <3>1, NineRegions
  <2> HIDE DEF R
  <2>2. S \in SUBSET (0 .. 9) /\ S # {}
    <3>1. S \in SUBSET (0 .. 9)  BY <2>1
    <3>2. \E k \in 1 .. 9 : InRegion(R[k], x, y)
      BY <2>1, <1>1, <1>2, <1>3 DEF InRegion, Region
    <3> QED BY <3>1, <3>2, <2>1
  <2>3. Max(S) \in S /\ \A k \in S : Max(S) >= k
    <3> HIDE DEF S
    <3> QED BY <2>2, GreatestNumber
  <2> DEFINE last == Max(S)
  <2>4. last \in 1 .. 9 /\ InRegion(R[last], x, y)  BY <2>1, <2>3
  <2>5. 9 \in S <=> internal  BY <2>1, <1>1, <1>2 DEF InRegion, Region
  <2>6. 9 \in S => last = 9
    <3> HIDE DEF S
    <3> QED BY <2>3, <2>4
  <2> HIDE DEF last
  <2>7. CASE internal
    <3>1. last = 9  BY <2>5, <2>6, <2>7
    <3>2. R[last].blend = "internal"  BY <2>1, <3>1 DEF Region
    <3> QED BY <1>5, <2>7, <3>2 DEF last, R, w, h
  <2>8. CASE ~internal /\ margin
    <3>1. last # 9  BY <2>3, <2>5, <2>8 DEF last
    <3>2. \E k \in 5 .. 8 : k \in S
      BY <2>1, <2>8, <1>1, <1>2, <1>3 DEF InRegion, Region
    <3>3. last \in 5 .. 8
      <4> HIDE DEF S
      <4> QED BY <2>3, <2>4, <3>1, <3>2 DEF last
    <3>4. R[last].blend = "margin"  BY <2>1, <3>3 DEF Region
    <3> QED BY <1>5, <2>8, <3>4 DEF last, R, w, h
  <2>9. CASE ~internal /\ ~margin
    <3>1. last # 9  BY <2>3, <2>5, <2>9 DEF last
    <3>2. \A k \in 5 .. 8 : ~InRegion(R[k], x, y)
      <4>1. ~InRegion(R[5], x, y) /\ ~InRegion(R[6], x, y)
        BY <2>1, <2>9, <1>1, <1>2, <1>3 DEF InRegion, Region
      <4>2. ~InRegion(R[7], x, y) /\ ~InRegion(R[8], x, y)
        BY <2>1, <2>9, <1>1, <1>2, <1>3 DEF InRegion, Region
      <4> QED BY <4>1, <4>2
    <3>3. last \in 1 .. 4  BY <2>4, <3>1, <3>2
    <3>4. R[last].blend = "external"  BY <2>1, <3>3 DEF Region
    <3> QED BY <1>5, <2>9, <3>4 DEF last, R, w, h
  <2> QED BY <2>7, <2>8, <2>9
<1> QED BY <1>6, <1>7

\* Shows() with the frame and its pixels as parameters.
CentreIn(f, picture, p) == <<f.width \div 2 - picture.width \div 2 + p[1],
                             f.height \div 2 - picture.height \div 2 + p[2]>>
PictureAt(f, picture, x, y) ==
  LET inPicture == (0 .. (picture.width - 1)) \X (0 .. (picture.height - 1))
  IN  IF picture = NoPicture THEN [colour |-> DefaultBg, blend |-> "external"]
      ELSE [colour |-> IF \E p \in inPicture : CentreIn(f, picture, p) = <<x, y>>
                       THEN CHOOSE p \in inPicture : CentreIn(f, picture, p) = <<x, y>>
                       ELSE Back,
            blend |-> BlendAt(f, x, y)]
CursorIn(f) ==
  ((Margin + ((f.width - Margin * 2) % GlyphWidth) \div 2)
   .. (Margin + ((f.width - Margin * 2) % GlyphWidth) \div 2 + GlyphWidth - 1))
  \X ((Margin + ((f.height - Margin * 2) % GlyphHeight) \div 2)
      .. (Margin + ((f.height - Margin * 2) % GlyphHeight) \div 2 + GlyphHeight - 1))
ShowsOn(f, pixels, picture) ==
  /\ \A x \in 0 .. (f.width - 1), y \in 0 .. (f.height - 1) :
       IF <<x, y>> \in CursorIn(f)
       THEN pixels[x + f.pitch * y].colour = DefaultFg
       ELSE pixels[x + f.pitch * y] = PictureAt(f, picture, x, y)
  /\ \A i \in DOMAIN pixels : i % f.pitch >= f.width => pixels[i] = Old

LEMMA ShowsAgree == ASSUME NEW picture PROVE Shows(picture) <=> ShowsOn(frame, framebuffer, picture)
<1> DEFINE inPicture == (0 .. (picture.width - 1)) \X (0 .. (picture.height - 1))
<1>1. ASSUME NEW x, NEW y
      PROVE  (x \in offset_x .. (offset_x + GlyphWidth - 1) /\ y \in offset_y .. (offset_y + GlyphHeight - 1))
             <=> <<x, y>> \in CursorIn(frame)
  BY DEF CursorIn, offset_x, offset_y
<1> DEFINE Belongs(x, y) ==
             IF picture = NoPicture THEN [colour |-> DefaultBg, blend |-> "external"]
             ELSE [colour |-> IF \E p \in inPicture : Centre(picture, p) = <<x, y>>
                              THEN CHOOSE p \in inPicture : Centre(picture, p) = <<x, y>>
                              ELSE Back,
                   blend |-> IF \A d \in {x, frame.width - 1 - x, y, frame.height - 1 - y} : d >= Margin
                             THEN "internal"
                             ELSE IF \A d \in {x, frame.width - 1 - x, y, frame.height - 1 - y} :
                                       d >= Margin - Gradient
                             THEN "margin" ELSE "external"]
<1>2. ASSUME NEW x, NEW y PROVE Belongs(x, y) = PictureAt(frame, picture, x, y)
  BY DEF PictureAt, CentreIn, Centre, BlendAt
<1> DEFINE Pixel(x, y) ==
             IF x \in offset_x .. (offset_x + GlyphWidth - 1) /\ y \in offset_y .. (offset_y + GlyphHeight - 1)
             THEN Shown(x, y).colour = DefaultFg
             ELSE Shown(x, y) = Belongs(x, y)
           Placed(x, y) == IF <<x, y>> \in CursorIn(frame)
                           THEN framebuffer[x + frame.pitch * y].colour = DefaultFg
                           ELSE framebuffer[x + frame.pitch * y] = PictureAt(frame, picture, x, y)
           Beside == \A i \in DOMAIN framebuffer : i % frame.pitch >= frame.width => framebuffer[i] = Old
<1>4. ASSUME NEW x, NEW y PROVE Pixel(x, y) <=> Placed(x, y)
  <2> HIDE DEF Belongs
  <2> QED BY <1>1, <1>2 DEF Shown
<1>5. Shows(picture) <=> /\ \A x \in 0 .. (frame.width - 1), y \in 0 .. (frame.height - 1) : Pixel(x, y)
                         /\ Beside
  BY DEF Shows
<1>6. ShowsOn(frame, framebuffer, picture) <=>
        /\ \A x \in 0 .. (frame.width - 1), y \in 0 .. (frame.height - 1) : Placed(x, y)
        /\ Beside
  BY DEF ShowsOn
<1> HIDE DEF Pixel, Placed, Beside
<1> QED BY <1>4, <1>5, <1>6

\* What the canvas gets is what belongs there.
LEMMA DrawnRight ==
  ASSUME NEW picture \in BmpPictures \cup {NoPicture}, frame \in Frames,
         NEW x \in 0 .. (frame.width - 1), NEW y \in 0 .. (frame.height - 1)
  PROVE  Drawn(picture, x, y) = PictureAt(frame, picture, x, y)
<1> DEFINE inPicture == (0 .. (picture.width - 1)) \X (0 .. (picture.height - 1))
           colour == IF \E p \in inPicture : CentreIn(frame, picture, p) = <<x, y>>
                     THEN CHOOSE p \in inPicture : CentreIn(frame, picture, p) = <<x, y>>
                     ELSE Back
<1>1. CASE picture = NoPicture  BY <1>1 DEF Drawn, PictureAt
<1>2. CASE picture # NoPicture
  <2>1. picture \in BmpPictures  BY <1>2
  <2>2. frame.width \in Nat /\ frame.height \in Nat  BY CanvasAssumption
  <2>3. /\ \A p \in inPicture : CentreIn(frame, picture, p) = <<x, y>> => Centered(picture, x, y) = p
        /\ (\A p \in inPicture : CentreIn(frame, picture, p) # <<x, y>>) => Centered(picture, x, y) = Back
    BY <2>1, <2>2, PictureCentered DEF Centre, CentreIn
  <2> HIDE DEF inPicture
  <2>4. Centered(picture, x, y) = colour  BY <2>3
  <2> USE DEF inPicture
  <2>5. Drawn(picture, x, y) = [colour |-> Centered(picture, x, y), blend |-> BlendAt(frame, x, y)]
    BY <1>2, LastRegion DEF Drawn
  <2>6. PictureAt(frame, picture, x, y) = [colour |-> colour, blend |-> BlendAt(frame, x, y)]
    BY <1>2 DEF PictureAt
  <2> QED BY <2>4, <2>5, <2>6
<1> QED BY <1>1, <1>2

\* Places of a frame's memory.
LEMMA PlaceIn ==
  ASSUME NEW p \in Nat \ {0}, NEW h \in Nat, NEW x \in 0 .. (p - 1), NEW y \in 0 .. (h - 1)
  PROVE  /\ x + p * y \in 0 .. (p * h - 1)
         /\ (x + p * y) % p = x /\ (x + p * y) \div p = y
<1>1. p * y \in Nat /\ p * h \in Nat  OBVIOUS
<1>2. x + p * y = p * y + x  BY <1>1
<1>3. (p * y + x) % p = x /\ (p * y + x) \div p = y  BY Divides
<1>4. p * h >= p * y + p  BY Times
<1> QED BY <1>1, <1>2, <1>3, <1>4

\* The frame buffer after console::init().
LEMMA CanvasShows ==
  ASSUME NEW picture \in BmpPictures \cup {NoPicture}, frame \in Frames, ConsoleInit(picture),
         framebuffer = [i \in 0 .. (frame.pitch * frame.height - 1) |-> Old]
  PROVE  ShowsOn(frame, framebuffer', picture)
<1> DEFINE w == frame.width
           h == frame.height
           p == frame.pitch
<1>1. /\ w \in Nat \ {0} /\ h \in Nat \ {0} /\ p \in Nat \ {0} /\ p >= w
      /\ Margin \in Nat /\ GlyphWidth \in Nat \ {0} /\ GlyphHeight \in Nat \ {0}
      /\ w - Margin * 2 >= GlyphWidth
  <2>1. /\ {w, h, p} \subseteq Nat /\ p >= w
        /\ w >= 2 * Margin + GlyphWidth /\ h >= 2 * Margin + GlyphHeight
    BY CanvasAssumption
  <2>2. Margin \in Nat /\ GlyphWidth \in Nat \ {0} /\ GlyphHeight \in Nat \ {0}
    BY CanvasAssumption
  <2> HIDE DEF w, h, p
  <2> QED BY <2>1, <2>2
<1>2. bg_canvas' = [i \in 0 .. (w * h - 1) |-> Drawn(picture, i % w, i \div w)]  BY DEF ConsoleInit
<1>3. DOMAIN framebuffer = 0 .. (p * h - 1) /\ DOMAIN framebuffer' = 0 .. (p * h - 1)
  BY DEF ConsoleInit
<1>4. \A i \in 0 .. (p * h - 1) :
        framebuffer'[i] = CASE i % p >= w -> Old
                            [] <<i % p, i \div p>> \in Plotted(0, 0) -> [colour |-> DefaultFg, blend |-> "external"]
                            [] OTHER -> bg_canvas'[(i % p) + w * (i \div p)]
  BY <1>3 DEF ConsoleInit
<1>5. Plotted(0, 0) = CursorIn(frame)
  <2> DEFINE cx == (w - Margin * 2) % GlyphWidth
             cy == (h - Margin * 2) % GlyphHeight
  <2>1. cx \in Int /\ cy \in Int  BY <1>1
  <2>2. cx \div 2 \in Int /\ cy \div 2 \in Int
    <3> HIDE DEF cx, cy
    <3> QED BY <2>1
  <2>3. /\ offset_x = Margin + cx \div 2 /\ offset_y = Margin + cy \div 2
        /\ CursorIn(frame) = ((Margin + cx \div 2) .. (Margin + cx \div 2 + GlyphWidth - 1))
                             \X ((Margin + cy \div 2) .. (Margin + cy \div 2 + GlyphHeight - 1))
    BY DEF offset_x, offset_y, CursorIn
  <2> HIDE DEF cx, cy
  <2>4. offset_x \in Int /\ offset_y \in Int  BY <1>1, <2>2, <2>3
  <2>5. ASSUME NEW o \in Int, NEW g \in Int
        PROVE  (o + 0 * g) .. (o + (0 + 1) * g - 1) = o .. (o + g - 1)
    OBVIOUS
  <2>6. Plotted(0, 0) = (offset_x .. (offset_x + GlyphWidth - 1))
                        \X (offset_y .. (offset_y + GlyphHeight - 1))
    BY <1>1, <2>4, <2>5 DEF Plotted
  <2> QED BY <2>3, <2>6
<1> HIDE DEF w, h, p
<1>6. \A i \in DOMAIN framebuffer' : i % p >= w => framebuffer'[i] = Old
  <2> DEFINE m == w - Margin * 2
             q == m \div GlyphWidth
             r == m % GlyphWidth
  <2>1. m \in Nat /\ m >= GlyphWidth  BY <1>1
  <2>2. q \in Nat /\ r \in 0 .. (GlyphWidth - 1) /\ m = GlyphWidth * q + r
    <3> HIDE DEF m
    <3> QED BY <1>1, <2>1
  <2>3. r + GlyphWidth <= m
    <3> HIDE DEF m, q, r
    <3>1. q >= 0 + 1  BY <1>1, <2>1, <2>2
    <3>2. GlyphWidth * q >= GlyphWidth * 0 + GlyphWidth  BY <1>1, <2>2, <3>1, Times
    <3>3. GlyphWidth * q \in Nat /\ GlyphWidth * 0 = 0  BY <1>1, <2>2
    <3> QED BY <1>1, <2>2, <3>2, <3>3
  <2>4. CursorIn(frame) = ((Margin + r \div 2) .. (Margin + r \div 2 + GlyphWidth - 1))
                           \X ((Margin + ((h - Margin * 2) % GlyphHeight) \div 2)
                               .. (Margin + ((h - Margin * 2) % GlyphHeight) \div 2 + GlyphHeight - 1))
    BY DEF CursorIn, w, h
  <2> HIDE DEF q, r
  <2>5. Margin + r \div 2 + GlyphWidth <= w
    <3>1. r \div 2 <= r /\ r \div 2 \in Nat  BY <2>2
    <3> QED BY <1>1, <2>2, <2>3, <3>1
  <2>6. r \div 2 \in Nat  BY <2>2
  <2>7. ASSUME NEW x, NEW y, <<x, y>> \in Plotted(0, 0) PROVE ~(x >= w)
    <3>1. x \in (Margin + r \div 2) .. (Margin + r \div 2 + GlyphWidth - 1)  BY <1>5, <2>4, <2>7
    <3> QED BY <3>1, <2>5, <2>6, <1>1
  <2> QED BY <1>3, <1>4, <2>7
<1>7. ASSUME NEW x \in 0 .. (w - 1), NEW y \in 0 .. (h - 1)
      PROVE  IF <<x, y>> \in CursorIn(frame)
             THEN framebuffer'[x + p * y].colour = DefaultFg
             ELSE framebuffer'[x + p * y] = PictureAt(frame, picture, x, y)
  <2>1. /\ x + p * y \in 0 .. (p * h - 1)
        /\ (x + p * y) % p = x /\ (x + p * y) \div p = y
    <3>1. x \in 0 .. (p - 1)  BY <1>1
    <3> QED BY <1>1, <3>1, PlaceIn
  <2>2. framebuffer'[x + p * y] = CASE x >= w -> Old
                            [] <<x, y>> \in Plotted(0, 0) -> [colour |-> DefaultFg, blend |-> "external"]
                            [] OTHER -> bg_canvas'[x + w * y]
    BY <1>4, <2>1
  <2>3. ~(x >= w)  BY <1>1
  <2>4. CASE <<x, y>> \in CursorIn(frame)  BY <1>5, <2>2, <2>3, <2>4
  <2>5. CASE <<x, y>> \notin CursorIn(frame)
    <3>1. framebuffer'[x + p * y] = bg_canvas'[x + w * y]  BY <1>5, <2>2, <2>3, <2>5
    <3>2. /\ x + w * y \in 0 .. (w * h - 1)
          /\ (x + w * y) % w = x /\ (x + w * y) \div w = y
      BY <1>1, PlaceIn
    <3>3. bg_canvas'[x + w * y] = Drawn(picture, x, y)  BY <1>2, <3>2
    <3>4. Drawn(picture, x, y) = PictureAt(frame, picture, x, y)  BY DrawnRight DEF w, h
    <3> QED BY <2>5, <3>1, <3>3, <3>4
  <2> QED BY <2>4, <2>5
<1> QED BY <1>6, <1>7 DEF ShowsOn, w, h, p

(***************************************************************************)
(* It is done once, with the picture in the tables that were found.        *)
(***************************************************************************)
SplashIn(tables) == LET bgrt == FindIn(tables, "BGRT")
                    IN  IF bgrt = 0 THEN NoPicture
                        ELSE IF tables[bgrt].body.valid THEN tables[bgrt].body.picture ELSE NoPicture

PictureInv ==
  /\ frame \in Frames \cup {NoFrame}
  /\ stage \in {"acpi", "console"} =>
       /\ bg_canvas = <<>>
       /\ framebuffer = [i \in 0 .. (frame.pitch * frame.height - 1) |-> Old]
  /\ bg_canvas # <<>> => ShowsOn(frame, framebuffer, SplashIn(root))

LEMMA SplashAgrees == Splash = SplashIn(root)
  BY DEF Splash, SplashIn, Find, FindIn

\* A picture that console::init() opens is one that bmp_open_image() takes.
LEMMA SplashTaken ==
  ASSUME machine \in Machines, root \in {<<>>, machine.rsdt, machine.xsdt},
         Splash = NoPicture \/ Splash.bmp
  PROVE  Splash \in BmpPictures \cup {NoPicture}
<1> DEFINE I == { i \in 1 .. Len(root) : Matches(root[i], "BGRT") }
<1>1. Find("BGRT") = IF I # {} THEN Min(I) ELSE 0  BY DEF Find, SelectInSeq
<1>2. I \in SUBSET Nat  OBVIOUS
<1>3. CASE Find("BGRT") = 0  BY <1>3 DEF Splash
<1>4. CASE Find("BGRT") # 0
  <2> DEFINE k == Find("BGRT")
  <2>1. k \in I
    <3> HIDE DEF I
    <3> QED BY <1>1, <1>2, <1>4, LeastNumber
  <2>2. k \in 1 .. Len(root) /\ root[k].signature = "BGRT"  BY <2>1 DEF Matches
  <2> HIDE DEF I
  <2>3. Splash = NoPicture \/ Splash = root[k].body.picture  BY <1>4 DEF Splash
  <2> HIDE DEF k
  <2>4. root \in {machine.rsdt, machine.xsdt} /\ k \in DOMAIN root
    <3>1. root # <<>>  BY <2>2
    <3>2. DOMAIN root = 1 .. Len(root)  BY <3>1, AcpiAssumption
    <3> QED BY <2>2, <3>1, <3>2
  <2>5. CASE Splash = root[k].body.picture /\ Splash # NoPicture
    BY <2>2, <2>4, <2>5, SplashAssumption
  <2> QED BY <2>3, <2>5
<1> QED BY <1>3, <1>4

LEMMA PictureStarts == BootInit => PictureInv
  BY DEF BootInit, CanvasInit, PictureInv

\* A step that draws nothing.
LEMMA PictureStays ==
  ASSUME PictureInv, UNCHANGED canvasVars, root' = root \/ bg_canvas = <<>>,
         stage' \in {"acpi", "console"} => stage \in {"acpi", "console"}
  PROVE  PictureInv'
<1>1. UNCHANGED <<frame, bg_canvas, framebuffer>>  BY DEF canvasVars
<1>2. ASSUME bg_canvas' # <<>> PROVE ShowsOn(frame, framebuffer, SplashIn(root))'
  <2>1. bg_canvas # <<>> /\ root' = root  BY <1>1, <1>2
  <2>2. ShowsOn(frame, framebuffer, SplashIn(root))  BY <2>1 DEF PictureInv
  <2> QED BY <1>1, <2>1, <2>2
<1> QED BY <1>1, <1>2 DEF PictureInv

LEMMA PictureDrawn == ASSUME RouteInv, PictureInv, InitConsole PROVE PictureInv'
<1>1. stage = "console" /\ stage' \in {"assign", "stopped"} /\ UNCHANGED root
  BY DEF InitConsole, Boots, Then, PanicIf
<1>2. CASE UNCHANGED canvasVars  BY <1>1, <1>2, PictureStays
<1>3. CASE frame # NoFrame /\ (Splash = NoPicture \/ Splash.bmp) /\ ConsoleInit(Splash)
  <2>1. frame \in Frames /\ framebuffer = [i \in 0 .. (frame.pitch * frame.height - 1) |-> Old]
    BY <1>1, <1>3 DEF PictureInv
  <2>2. Splash \in BmpPictures \cup {NoPicture}  BY <1>3, SplashTaken DEF RouteInv
  <2>3. frame' = frame  BY <1>3 DEF ConsoleInit
  <2>4. ASSUME NEW picture, picture = Splash PROVE ShowsOn(frame, framebuffer', picture)
    BY <1>3, <2>1, <2>2, <2>4, CanvasShows
  <2>5. ShowsOn(frame, framebuffer', SplashIn(root))  BY <2>4, SplashAgrees
  <2>6. ShowsOn(frame, framebuffer, SplashIn(root))'  BY <1>1, <2>3, <2>5
  <2> QED BY <1>1, <2>1, <2>3, <2>6 DEF PictureInv
<1> QED BY <1>2, <1>3 DEF InitConsole

LEMMA PictureInductive == RouteInv /\ PictureInv /\ [Next]_bootVars => PictureInv'
<1> SUFFICES ASSUME RouteInv, PictureInv, [Next]_bootVars PROVE PictureInv'  OBVIOUS
<1>1. CASE InitConsole  BY <1>1, PictureDrawn
<1>2. CASE InitAcpi
  <2>1. stage = "acpi" /\ UNCHANGED canvasVars  BY <1>2 DEF InitAcpi, Boots, others
  <2> QED BY <2>1, PictureStays DEF PictureInv
<1>3. CASE BootStep /\ ~InitConsole /\ ~InitAcpi
  <2>1. UNCHANGED <<canvasVars, root>> /\ stage' \notin {"acpi", "console"}
    BY <1>3 DEF BootStep, AssignGates, SetStacks, InitLocalApic, StartAllCores, InitIoApic, InitAll,
       InitHpet, RegisterTimer, RegisterHandler, CalibrateTimer, RegisterKeyboard, RouteKeyboard,
       EnableIRQ, ClearBuffer, Boots, Then, PanicIf, Stops, UpdateIRQ, others, ioVars, acpiVars
  <2> QED BY <2>1, PictureStays
<1>4. CASE ~BootStep
  <2>1. UNCHANGED <<canvasVars, root>> /\ (stage' = stage \/ stage' = "stopped")
    BY <1>4 DEF Next, OthersStart, KeyPress, TimerFires, Exception, Interrupt, Processor,
                others, bootVars, ioVars, acpiVars
  <2> QED BY <2>1, PictureStays
<1> QED BY <1>1, <1>2, <1>3, <1>4

\* The picture is shown in the middle and the cursor over it, whatever the
\* sizes of the frame, the picture and the font (console.cpp:77-95,
\* image.c:18-59, gterm.c:137-260).
THEOREM PictureIsShown == Spec => []PictureShown
<1>1. PictureInv => PictureShown  BY ShowsAgree, SplashAgrees DEF PictureInv, PictureShown
<1> QED BY <1>1, RouteStarts, RouteInductive, PictureStarts, PictureInductive, PTL DEF Spec

(***************************************************************************)
(* What a panic prints                                                     *)
(***************************************************************************)

\* The greatest and the least of the symbols' places.
LEMMA SymbolFound ==
  ASSUME NEW a \in Nat, NEW k \in DOMAIN symbol_table, symbol_table[k].addr < a,
         \A j \in DOMAIN symbol_table :
           \/ symbol_table[j].addr >= a
           \/ symbol_table[j].addr < symbol_table[k].addr
           \/ symbol_table[j].addr = symbol_table[k].addr /\ j >= k
  PROVE  Symbol({ b \in Addresses : b < a }) = symbol_table[k].name
<1> DEFINE A == { b \in Addresses : b < a }
           top == symbol_table[k].addr
           K == { j \in DOMAIN symbol_table : symbol_table[j].addr = top }
<1>1. /\ DOMAIN symbol_table \in SUBSET Nat
      /\ \A j \in DOMAIN symbol_table : symbol_table[j].addr \in Nat
  <2>1. symbol_table \in Seq(Symbols)  BY StackTraceAssumption
  <2>2. ASSUME NEW j \in DOMAIN symbol_table PROVE symbol_table[j] \in Symbols  BY <2>1
  <2>3. ASSUME NEW j \in DOMAIN symbol_table PROVE symbol_table[j].addr \in Nat
    <3>1. symbol_table[j] \in Symbols  BY <2>2
    <3> QED BY <3>1 DEF Symbols
  <2>4. DOMAIN symbol_table \in SUBSET Nat  BY <2>1
  <2> QED BY <2>3, <2>4
<1>2. top \in A /\ top \in Nat  BY <1>1 DEF Addresses
<1>3. A \in SUBSET (0 .. a)  BY <1>1 DEF Addresses
<1>4. \A b \in A : b <= top
  <2>1. ASSUME NEW b \in A PROVE b <= top
    <3>1. PICK j \in DOMAIN symbol_table : b = symbol_table[j].addr /\ b < a  BY DEF Addresses
    <3> QED BY <1>1, <3>1
  <2> QED BY <2>1
<1>5. Max(A) = top
  <2> HIDE DEF A, top
  <2>1. Max(A) \in A /\ Max(A) >= top  BY <1>2, <1>3, GreatestNumber
  <2>2. Max(A) \in Nat
    <3>1. Max(A) \in 0 .. a  BY <1>3, <2>1
    <3> QED BY <3>1
  <2>3. Max(A) <= top  BY <1>4, <2>1
  <2> QED BY <1>2, <2>1, <2>2, <2>3
<1>6. k \in K /\ K \in SUBSET Nat  BY <1>1
<1>7. \A j \in K : k <= j  BY <1>1
<1>8. Min(K) = k
  <2> HIDE DEF K
  <2>1. Min(K) \in K /\ Min(K) <= k  BY <1>6, LeastNumber
  <2>2. k <= Min(K) /\ Min(K) \in Nat /\ k \in Nat  BY <1>6, <1>7, <2>1
  <2> QED BY <2>1, <2>2
<1>9. A # {}  BY <1>2
<1>10. Symbol(A) = symbol_table[Min({ j \in DOMAIN symbol_table : symbol_table[j].addr = Max(A) })].name
  <2> HIDE DEF A
  <2> QED BY <1>9 DEF Symbol
<1> HIDE DEF A
<1>11. Symbol(A) = symbol_table[Min(K)].name  BY <1>5, <1>10
<1> HIDE DEF K
<1> QED BY <1>8, <1>11 DEF A

Named == {"panic", "interrupt_handler", "irq_handler", "kernel_init"}
Unnamed == {"interrupt_wrapper", "irq_wrapper"}

LEMMA LookupRight ==
  /\ \A f \in Named : \A a \in ReturnTo[f] : a \in Nat \ {0} /\ lookup[a] = f
  /\ \A f \in Unnamed : \A a \in ReturnTo[f] : a \in Nat \ {0} /\ lookup[a] # "kernel_init"
<1>1. Named \cup Unnamed \subseteq DOMAIN ReturnTo  BY LinkAssumption DEF Named, Unnamed
<1>2. ASSUME NEW f \in Named \cup Unnamed, NEW a \in ReturnTo[f] PROVE a \in Nat /\ a \in Returns
  BY <1>1, StackTraceAssumption DEF Returns
<1>3. ASSUME NEW f \in Named, NEW a \in ReturnTo[f] PROVE a # 0 /\ lookup[a] = f
  <2>1. PICK k \in DOMAIN symbol_table :
          /\ symbol_table[k].name = f /\ symbol_table[k].addr < a
          /\ \A j \in DOMAIN symbol_table :
               \/ symbol_table[j].addr >= a
               \/ symbol_table[j].addr < symbol_table[k].addr
               \/ symbol_table[j].addr = symbol_table[k].addr /\ j >= k
    BY LinkAssumption DEF Named
  <2>2. Symbol({ b \in Addresses : b < a }) = f  BY <1>2, <2>1, SymbolFound
  <2>3. lookup[a] = Symbol({ b \in Addresses : b < a })  BY <1>2 DEF lookup
  <2>4. symbol_table[k].addr \in Nat
    <3>1. symbol_table[k] \in Symbols  BY StackTraceAssumption
    <3> QED BY <3>1 DEF Symbols
  <2> QED BY <1>2, <2>1, <2>2, <2>3, <2>4
<1>4. ASSUME NEW f \in Unnamed, NEW a \in ReturnTo[f] PROVE a # 0 /\ lookup[a] # "kernel_init"
  BY LinkAssumption DEF Unnamed
<1> QED BY <1>2, <1>3, <1>4

\* A chain has one return address for each caller.
Following(callers, c, n) == /\ c \in Seq(Nat) /\ Len(c) = n
                            /\ \A i \in 1 .. n : c[i] \in ReturnTo[callers[i]]

LEMMA ChainsFollow ==
  ASSUME NEW callers \in Seq(DOMAIN ReturnTo), NEW chain \in Chains(callers)
  PROVE  Following(callers, chain, Len(callers))
<1> DEFINE N == Len(callers)
           V == SUBSET Seq(Nat)
           After(s, n) == Called(s, callers[n])
           go == [x \in V \X (1 .. N) |-> After(x[1], x[2])]
<1>1. N \in Nat /\ \A n \in 1 .. N : ReturnTo[callers[n]] \subseteq Nat
  <2>1. ASSUME NEW n \in 1 .. N PROVE ReturnTo[callers[n]] \subseteq Nat
    <3>1. callers[n] \in DOMAIN ReturnTo  OBVIOUS
    <3> QED BY <3>1, StackTraceAssumption
  <2> QED BY <2>1
<1>2. ASSUME NEW s \in V, NEW n \in 1 .. N PROVE After(s, n) \in V
  <2>1. ASSUME NEW c \in s, NEW a \in ReturnTo[callers[n]] PROVE Append(c, a) \in Seq(Nat)
    <3>1. c \in Seq(Nat) /\ a \in Nat  BY <1>1
    <3> QED BY <3>1
  <2> QED BY <2>1 DEF Called
<1> HIDE DEF After
<1>3. go \in Steps(N, V)
  <2> HIDE DEF V, N
  <2> QED BY <1>2 DEF Steps
<1>4. {<<>>} \in V  OBVIOUS
<1> HIDE DEF N, V
<1>5. PICK f : Computed(f, N, V, {<<>>}, go)
  <2> HIDE DEF go
  <2> QED BY <1>1, <1>3, <1>4, Recursion
<1>6. ASSUME NEW n \in 1 .. N PROVE f[n] = After(f[n - 1], n)
  <2>1. n - 1 \in 0 .. N  BY <1>1
  <2>2. <<f[n - 1], n>> \in V \X (1 .. N)  BY <1>5, <2>1 DEF Computed
  <2>3. go[<<f[n - 1], n>>] = After(f[n - 1], n)  BY <2>2
  <2> HIDE DEF go
  <2> QED BY <1>5, <2>3 DEF Computed
<1> HIDE DEF go
<1>7. f = [n \in 0 .. N |-> IF n = 0 THEN {<<>>} ELSE After(f[n - 1], n)]
  <2> HIDE DEF After
  <2>1. f[0] = {<<>>} /\ DOMAIN f = 0 .. N /\ f = [n \in DOMAIN f |-> f[n]]  BY <1>5 DEF Computed
  <2>2. ASSUME NEW n \in 0 .. N, n # 0 PROVE f[n] = After(f[n - 1], n)
    <3>1. n \in 1 .. N  BY <1>1, <2>2
    <3> QED BY <1>6, <3>1
  <2> QED BY <2>1, <2>2
<1> DEFINE isChains(p) == p = [n \in 0 .. Len(callers) |->
             IF n = 0 THEN {<<>>}
             ELSE Called(p[n - 1], callers[n])]
           chains == CHOOSE p : isChains(p)
<1>8. Chains(callers) = chains[Len(callers)]  BY Zenon DEF Chains
<1>9. isChains(chains)
  <2>1. f = [n \in 0 .. Len(callers) |->
               IF n = 0 THEN {<<>>}
               ELSE Called(f[n - 1], callers[n])]
    BY Zenon, <1>7 DEF N, After
  <2>2. isChains(f)  BY <2>1
  <2> HIDE DEF isChains
  <2> QED BY Zenon, <2>2
<1> HIDE DEF chains
<1>10. /\ chains[0] = {<<>>}
       /\ \A n \in 1 .. N : chains[n] = Called(chains[n - 1], callers[n])
  <2>1. 0 \in 0 .. N /\ \A n \in 1 .. N : n \in 0 .. N /\ n # 0  BY <1>1
  <2> QED BY <1>9, <2>1 DEF N
<1> DEFINE S == { n \in 0 .. N : \A c \in chains[n] : Following(callers, c, n) }
<1>11. 0 \in S
  <2>1. Following(callers, <<>>, 0)  BY DEF Following
  <2> QED BY <1>1, <1>10, <2>1
<1>12. ASSUME NEW n \in 0 .. (N - 1), n \in S PROVE n + 1 \in S
  <2>1. n + 1 \in 1 .. N /\ n + 1 \in 0 .. N /\ (n + 1) - 1 = n /\ n \in Nat  BY <1>1
  <2>2. ASSUME NEW d \in chains[n + 1] PROVE Following(callers, d, n + 1)
    <3>1. PICK c \in chains[n], a \in ReturnTo[callers[n + 1]] : d = Append(c, a)
      <4>1. chains[n + 1] = Called(chains[n], callers[n + 1])  BY <1>10, <2>1
      <4> QED BY <4>1 DEF Called
    <3>2. c \in Seq(Nat) /\ Len(c) = n /\ \A i \in 1 .. n : c[i] \in ReturnTo[callers[i]]
      BY <1>12 DEF Following
    <3>3. a \in Nat  BY <1>1, <2>1
    <3>4. /\ d \in Seq(Nat) /\ Len(d) = n + 1 /\ d[n + 1] = a
          /\ \A i \in 1 .. n : d[i] = c[i]
      BY <3>1, <3>2, <3>3, <2>1
    <3>5. ASSUME NEW i \in 1 .. (n + 1) PROVE d[i] \in ReturnTo[callers[i]]
      <4>1. CASE i = n + 1  BY <3>4, <4>1
      <4>2. CASE i \in 1 .. n  BY <3>2, <3>4, <4>2
      <4> QED BY <2>1, <4>1, <4>2
    <3> QED BY <3>4, <3>5 DEF Following
  <2> QED BY <2>1, <2>2
<1>13. N \in S
  <2>1. \A n \in 0 .. N : n \in S
    <3> HIDE DEF S
    <3> QED BY <1>1, <1>11, <1>12, SetInduction
  <2> HIDE DEF S
  <2> QED BY <1>1, <2>1
<1> QED BY <1>8, <1>13 DEF N

\* The calls that lead to a panic come from handlers, up to the last.
Led(callers) == /\ callers \in Seq(DOMAIN ReturnTo) /\ Len(callers) \in 4 .. 6
                /\ \A i \in 1 .. (Len(callers) - 1) : callers[i] \in (Named \cup Unnamed) \ {"kernel_init"}
                /\ callers[Len(callers)] \in {"kernel_init", "nothing"}

LEMMA CallersLed == Led(Callers)
<1> DEFINE D == DOMAIN ReturnTo
           E == (Named \cup Unnamed) \ {"kernel_init"}
           L == {"kernel_init", "nothing"}
           first == <<"panic", "interrupt_handler", "interrupt_wrapper">>
           last == IF current = First THEN <<"kernel_init">> ELSE <<"nothing">>
<1>1. /\ E \subseteq D /\ L \subseteq D
      /\ {"panic", "interrupt_handler", "interrupt_wrapper", "irq_handler", "irq_wrapper"} = E
  BY LinkAssumption DEF Named, Unnamed
<1>2. PICK l \in L : last = <<l>>  OBVIOUS
<1>3. \/ Callers = first \o <<>> \o last
      \/ Callers = first \o (<<>> \o <<"irq_wrapper">>) \o last
      \/ Callers = first \o (<<"irq_handler">> \o <<"irq_wrapper">>) \o last
  BY Zenon DEF Callers
<1>4. ASSUME NEW a \in E, NEW b \in E, NEW c \in E PROVE Led(<<a, b, c>> \o <<>> \o <<l>>)
  <2> DEFINE s == <<a, b, c>> \o <<>> \o <<l>>
  <2>1. Len(s) = 4 /\ s[1] = a /\ s[2] = b /\ s[3] = c /\ s[4] = l  OBVIOUS
  <2>2. s \in Seq(D)  BY <1>1
  <2> HIDE DEF s, D
  <2>3. \A i \in 1 .. (Len(s) - 1) : s[i] \in E
    <3> HIDE DEF E
    <3> QED BY <2>1
  <2>4. s[Len(s)] \in L  BY <2>1
  <2>5. Len(s) \in 4 .. 6  BY <2>1
  <2>6. Led(s)  BY <2>2, <2>3, <2>4, <2>5 DEF Led, D
  <2> QED BY <2>6 DEF s
<1>5. ASSUME NEW a \in E, NEW b \in E, NEW c \in E, NEW d \in E
      PROVE  Led(<<a, b, c>> \o (<<>> \o <<d>>) \o <<l>>)
  <2> DEFINE s == <<a, b, c>> \o (<<>> \o <<d>>) \o <<l>>
  <2>1. Len(s) = 5 /\ s[1] = a /\ s[2] = b /\ s[3] = c /\ s[4] = d /\ s[5] = l  OBVIOUS
  <2>2. s \in Seq(D)  BY <1>1
  <2> HIDE DEF s, D
  <2>3. \A i \in 1 .. (Len(s) - 1) : s[i] \in E
    <3> HIDE DEF E
    <3> QED BY <2>1
  <2>4. s[Len(s)] \in L  BY <2>1
  <2>5. Len(s) \in 4 .. 6  BY <2>1
  <2>6. Led(s)  BY <2>2, <2>3, <2>4, <2>5 DEF Led, D
  <2> QED BY <2>6 DEF s
<1>6. ASSUME NEW a \in E, NEW b \in E, NEW c \in E, NEW d \in E, NEW e \in E
      PROVE  Led(<<a, b, c>> \o (<<d>> \o <<e>>) \o <<l>>)
  <2> DEFINE s == <<a, b, c>> \o (<<d>> \o <<e>>) \o <<l>>
  <2>1. Len(s) = 6 /\ s[1] = a /\ s[2] = b /\ s[3] = c /\ s[4] = d /\ s[5] = e /\ s[6] = l  OBVIOUS
  <2>2. s \in Seq(D)  BY <1>1
  <2> HIDE DEF s, D
  <2>3. \A i \in 1 .. (Len(s) - 1) : s[i] \in E
    <3> HIDE DEF E
    <3> QED BY <2>1
  <2>4. s[Len(s)] \in L  BY <2>1
  <2>5. Len(s) \in 4 .. 6  BY <2>1
  <2>6. Led(s)  BY <2>2, <2>3, <2>4, <2>5 DEF Led, D
  <2> QED BY <2>6 DEF s
<1>7. /\ "panic" \in E /\ "interrupt_handler" \in E /\ "interrupt_wrapper" \in E
      /\ "irq_handler" \in E /\ "irq_wrapper" \in E
  BY <1>1
<1> HIDE DEF last, L, E
<1>8. CASE Callers = first \o <<>> \o last  BY Zenon, <1>2, <1>4, <1>7, <1>8
<1>9. CASE Callers = first \o (<<>> \o <<"irq_wrapper">>) \o last  BY Zenon, <1>2, <1>5, <1>7, <1>9
<1>10. CASE Callers = first \o (<<"irq_handler">> \o <<"irq_wrapper">>) \o last
  BY Zenon, <1>2, <1>6, <1>7, <1>10
<1> QED BY <1>3, <1>8, <1>9, <1>10

\* What is printed of a chain.
RightTrace(r) == /\ r.endless = (Last(r.callers) = "nothing")
                 /\ \A i \in DOMAIN r.lines : r.callers[i] \in {"interrupt_wrapper", "irq_wrapper", "nothing"}
                                              \/ r.lines[i] = r.callers[i]
                 /\ Len(r.lines) = Len(r.callers)

LEMMA TraceOfChain ==
  ASSUME NEW callers, Led(callers), NEW chain \in Chains(callers),
         NEW r, r.callers = callers, r.lines = Trace(chain), r.endless = Endless(chain)
  PROVE  RightTrace(r)
<1> DEFINE n == Len(callers)
           K == { k \in DOMAIN chain : lookup[chain[k]] = "kernel_init" } \cup {10}
<1>1. /\ n \in 4 .. 6 /\ Len(chain) = n /\ DOMAIN chain = 1 .. n
      /\ \A i \in 1 .. n : chain[i] \in ReturnTo[callers[i]]
      /\ \A i \in 1 .. (n - 1) : callers[i] \in (Named \cup Unnamed) \ {"kernel_init"}
      /\ callers[n] \in {"kernel_init", "nothing"} /\ Last(callers) = callers[n]
  <2>1. Following(callers, chain, n)  BY ChainsFollow DEF Led
  <2>2. DOMAIN chain = 1 .. Len(chain)  BY <2>1 DEF Following
  <2> QED BY <2>1, <2>2 DEF Following, Led, Last
<1> HIDE DEF n
<1>2. ASSUME NEW i \in 1 .. (n - 1)
      PROVE  /\ chain[i] # 0 /\ lookup[chain[i]] # "kernel_init"
             /\ callers[i] \in Unnamed \/ lookup[chain[i]] = callers[i]
  <2>1. i \in 1 .. n  BY <1>1
  <2>2. chain[i] \in ReturnTo[callers[i]] /\ callers[i] \in (Named \cup Unnamed) \ {"kernel_init"}
    BY <1>1, <2>1
  <2> QED BY <2>2, LookupRight
<1>3. K \in SUBSET {n, 10}
  <2>1. ASSUME NEW k \in DOMAIN chain, k # n PROVE lookup[chain[k]] # "kernel_init"
    <3>1. k \in 1 .. (n - 1)  BY <1>1, <2>1
    <3> QED BY <1>2, <3>1
  <2> QED BY <2>1
<1>4. Lines(chain) = Min(K)  BY DEF Lines
<1>5. Lines(chain) \in K /\ \A k \in K : Lines(chain) <= k
  <2>1. K \in SUBSET Nat /\ 10 \in K  BY <1>1, <1>3
  <2> HIDE DEF K
  <2> QED BY <1>4, <2>1, LeastNumber
<1>6. Lines(chain) \in {n, 10} /\ n <= Lines(chain)
  <2>1. Lines(chain) \in {n, 10}
    <3> HIDE DEF K
    <3> QED BY <1>3, <1>5
  <2> QED BY <1>1, <2>1
<1>7. Min({Lines(chain), Len(chain)}) = n
  <2>1. {Lines(chain), Len(chain)} \in SUBSET Nat /\ n \in {Lines(chain), Len(chain)}  BY <1>1, <1>6
  <2>2. /\ Min({Lines(chain), Len(chain)}) \in {Lines(chain), Len(chain)}
        /\ Min({Lines(chain), Len(chain)}) <= n
    BY <2>1, LeastNumber
  <2> QED BY <1>1, <1>6, <2>2
<1>8. Trace(chain) = [k \in 1 .. n |-> lookup[chain[k]]]  BY <1>7 DEF Trace
<1>9. Len(r.lines) = Len(r.callers) /\ DOMAIN r.lines = 1 .. n
  <2>1. n \in Nat  BY <1>1
  <2>2. Len([k \in 1 .. n |-> lookup[chain[k]]]) = n  BY <2>1
  <2> QED BY <1>8, <2>2 DEF n
<1>10. CASE callers[n] = "kernel_init"
  <2>1. chain[n] # 0 /\ lookup[chain[n]] = "kernel_init"
    <3>1. n \in 1 .. n  BY <1>1
    <3>2. chain[n] \in ReturnTo["kernel_init"]  BY <1>1, <1>10, <3>1
    <3> QED BY <3>2, LookupRight DEF Named
  <2>2. Lines(chain) = n
    <3>1. n \in K  BY <1>1, <2>1
    <3> HIDE DEF K
    <3> QED BY <1>1, <1>5, <1>6, <3>1
  <2>3. ~Endless(chain)
    <3>1. ASSUME NEW k \in 1 .. n PROVE k <= Len(chain) /\ chain[k] # 0
      <4>1. CASE k = n  BY <1>1, <2>1, <4>1
      <4>2. CASE k # n
        <5>1. k \in 1 .. (n - 1)  BY <1>1, <4>2
        <5> QED BY <1>1, <1>2, <5>1
      <4> QED BY <4>1, <4>2
    <3> QED BY <2>2, <3>1 DEF Endless
  <2>4. ASSUME NEW i \in 1 .. n
        PROVE  callers[i] \in Unnamed \/ r.lines[i] = callers[i]
    <3>1. r.lines[i] = lookup[chain[i]]  BY <1>8
    <3>2. CASE i = n  BY <1>10, <2>1, <3>1, <3>2
    <3>3. CASE i # n
      <4>1. i \in 1 .. (n - 1)  BY <1>1, <3>3
      <4> QED BY <1>2, <3>1, <4>1
    <3> QED BY <3>2, <3>3
  <2>5. Endless(chain) = (Last(callers) = "nothing")  BY <1>1, <1>10, <2>3 DEF Endless
  <2> QED BY <1>9, <2>4, <2>5 DEF RightTrace, Unnamed
<1>11. CASE callers[n] = "nothing"
  <2>1. chain[n] = 0
    <3>1. n \in 1 .. n  BY <1>1
    <3> QED BY <1>1, <1>11, <3>1, LinkAssumption
  <2>2. n \in 1 .. Lines(chain)  BY <1>1, <1>6
  <2>3. Endless(chain)  BY <2>1, <2>2 DEF Endless
  <2>4. ASSUME NEW i \in 1 .. n
        PROVE  callers[i] \in Unnamed \cup {"nothing"} \/ r.lines[i] = callers[i]
    <3>1. r.lines[i] = lookup[chain[i]]  BY <1>8
    <3>2. CASE i = n  BY <1>11, <3>2
    <3>3. CASE i # n
      <4>1. i \in 1 .. (n - 1)  BY <1>1, <3>3
      <4> QED BY <1>2, <3>1, <4>1
    <3> QED BY <3>2, <3>3
  <2>5. Endless(chain) = (Last(callers) = "nothing")  BY <1>1, <1>11, <2>3 DEF Endless
  <2> QED BY <1>9, <2>4, <2>5 DEF RightTrace, Unnamed
<1> QED BY <1>1, <1>10, <1>11

TraceInv == \A k \in DOMAIN reports : RightTrace(reports[k])

\* Only a panic reports.
LEMMA OnlyPanicReports == ASSUME [Next]_bootVars, ~Report PROVE UNCHANGED reports
<1>1. CASE BootStep
  <2>1. CASE InitIoApic \/ RouteKeyboard
    BY <2>1 DEF InitIoApic, RouteKeyboard, MayFault, cpuVars
  <2>2. CASE AssignGates \/ SetStacks \/ RegisterTimer \/ RegisterKeyboard
    BY <2>2 DEF AssignGates, SetStacks, RegisterTimer, RegisterKeyboard, RegisterHandler
  <2>3. CASE InitAcpi \/ InitConsole \/ InitLocalApic \/ StartAllCores \/ InitHpet \/ CalibrateTimer \/ ClearBuffer
    BY <2>3 DEF InitAcpi, InitConsole, InitLocalApic, StartAllCores, InitHpet, CalibrateTimer,
                ClearBuffer, cpuVars
  <2> QED BY <1>1, <2>1, <2>2, <2>3 DEF BootStep
<1>2. CASE OthersStart  BY <1>2 DEF OthersStart, OtherAssigns, OtherSetsIst
<1>3. CASE KeyPress \/ TimerFires  BY <1>3 DEF KeyPress, TimerFires, Request, cpuVars
<1>4. CASE Exception  BY <1>4 DEF Exception, Raise
<1>5. CASE Interrupt  BY <1>5 DEF Interrupt, TakeRequest
<1>6. CASE Processor
  BY <1>6 DEF Processor, Step, Stub, Wrapper, Dispatch, Handle, Return, Begin
<1>7. CASE UNCHANGED bootVars  BY <1>7 DEF bootVars, cpuVars
<1> QED BY <1>1, <1>2, <1>3, <1>4, <1>5, <1>6, <1>7 DEF Next

LEMMA TraceInductive == BootInv /\ TraceInv /\ [Next]_bootVars => TraceInv'
<1> SUFFICES ASSUME BootInv, TraceInv, [Next]_bootVars PROVE TraceInv'  OBVIOUS
<1>1. CASE reports' = reports  BY <1>1 DEF TraceInv
<1>2. CASE reports' # reports
  <2>1. Report  BY <1>2, OnlyPanicReports
  <2>2. PICK chain \in Chains(Callers) :
          reports' = Append(reports, [raised |-> entry.raised,
                                      int_no |-> FrameAt(stack)["int_no"],
                                      inHandler |-> entry.regs["rip"][1] = Kernel,
                                      callers |-> Callers, lines |-> Trace(chain),
                                      endless |-> Endless(chain)])
    BY <2>1 DEF Report
  <2> DEFINE r == [raised |-> entry.raised, int_no |-> FrameAt(stack)["int_no"],
                   inHandler |-> entry.regs["rip"][1] = Kernel,
                   callers |-> Callers, lines |-> Trace(chain), endless |-> Endless(chain)]
  <2>3. RightTrace(r)
    <3>1. r.callers = Callers /\ r.lines = Trace(chain) /\ r.endless = Endless(chain)  OBVIOUS
    <3> HIDE DEF r
    <3> QED BY <3>1, CallersLed, TraceOfChain
  <2>4. PICK S : reports \in Seq(S)  BY DEF BootInv, ReportInv
  <2>5. reports' = Append(reports, r)  BY <2>2
  <2> HIDE DEF r
  <2> QED BY <2>3, <2>4, <2>5, Appended DEF TraceInv
<1> QED BY <1>1, <1>2

\* A panic names the calls that led to it, and ends unless it is one of a task,
\* whatever the addresses of the functions (strace.cpp:11-25, symbols.cpp:12-33).
THEOREM TraceRight == Spec => []TraceNamesCallers
<1>1. BootInit => TraceInv  BY DEF BootInit, InterruptsInit, TraceInv
<1>2. TraceInv => TraceNamesCallers  BY DEF TraceInv, RightTrace, TraceNamesCallers
<1> QED BY <1>1, <1>2, TraceInductive, BootInvariance, PTL DEF Spec
===============================================================================
