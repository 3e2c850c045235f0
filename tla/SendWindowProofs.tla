-------------------------- MODULE SendWindowProofs --------------------------
(***************************************************************************)
(* Theorems about SendWindow, for every window that starts on the hour and *)
(* lasts for an hour at least.                                             *)
(***************************************************************************)
EXTENDS SendWindow, TLAPS

\* A mail that waits lands in the window, but for the shift of the clock: the
\* clock and the time that is left add up to a moment of it on some day.
Lands ==
    waiting => \E w \in Window :
        clock + left - shift \in {w - Day, w, w + Day, w + 2 * Day}

WindowInv == TypeOK /\ Lands

\* Every minute of the day has an hour that it lies in.
LEMMA HourBounds ==
    ASSUME NEW t \in Minutes
    PROVE  /\ HourOf(t) \in 0 .. 23
           /\ HourOf(t) * Hour <= t
           /\ t <= HourOf(t) * Hour + 59
<1>1. \E h \in 0 .. 23 : h * Hour <= t /\ t < (h + 1) * Hour
  BY DEF Minutes, Hour, Day
<1>2. /\ HourOf(t) \in 0 .. 23
      /\ HourOf(t) * Hour <= t
      /\ t < (HourOf(t) + 1) * Hour
  BY <1>1 DEF HourOf
<1> QED
  BY <1>2 DEF Hour, Minutes, Day

\* The hour of the start of the window is the start itself.
LEMMA StartHour == HourOf(SendAfter) * Hour = SendAfter /\ HourOf(SendAfter) \in 0 .. 23
<1>1. PICK h \in 0 .. 23 : SendAfter = h * Hour
  BY WindowAssumption
<1>2. /\ HourOf(SendAfter) \in 0 .. 23
      /\ HourOf(SendAfter) * Hour <= SendAfter
      /\ SendAfter <= HourOf(SendAfter) * Hour + 59
  BY HourBounds, WindowAssumption
<1> QED
  BY <1>1, <1>2 DEF Hour

\* The delay leads from every minute of the day into the window, of the same
\* day or of the next one, and is a day at most.
LEMMA DelayLands ==
    ASSUME NEW t \in Minutes
    PROVE  /\ Delay(t) \in 0 .. 24
           /\ \E w \in Window : t + Delay(t) * Hour \in {w, w + Day}
<1> DEFINE h == HourOf(t)
           s == HourOf(SendAfter)
<1>1. h \in 0 .. 23 /\ h * Hour <= t /\ t <= h * Hour + 59
  BY HourBounds
<1>2. s \in 0 .. 23 /\ s * Hour = SendAfter
  BY StartHour
<1>3. t \in Int /\ SendAfter \in Int /\ SendBefore \in Int /\ SendAfter + 59 <= SendBefore
  BY WindowAssumption DEF Minutes, Hour, Day
<1>4. CASE t < SendAfter
  <2>1. Delay(t) = s - h
    BY <1>3, <1>4 DEF Delay, Window
  <2>2. s - h \in 0 .. 24
    BY <1>1, <1>2, <1>3, <1>4 DEF Hour
  <2>3. t + (s - h) * Hour \in Window
    BY <1>1, <1>2, <1>3 DEF Hour, Window
  <2> QED
    BY <2>1, <2>2, <2>3 DEF Day, Hour
<1>5. CASE t \in Window
  <2>1. Delay(t) = 0
    BY <1>3, <1>5 DEF Delay, Window
  <2> QED
    BY <1>3, <1>5, <2>1 DEF Hour, Day
<1>6. CASE t > SendBefore
  <2>1. Delay(t) = 24 - h + s
    BY <1>3, <1>6 DEF Delay, Window, HoursOvernight
  <2>2. 24 - h + s \in 0 .. 24
    BY <1>1, <1>2, <1>3, <1>6 DEF Hour
  <2>3. t + (24 - h + s) * Hour - Day \in Window
    BY <1>1, <1>2, <1>3 DEF Hour, Day, Window
  <2> QED
    BY <2>1, <2>2, <2>3, <1>3 DEF Day, Hour, Window
<1> QED
  BY <1>3, <1>4, <1>5, <1>6 DEF Window

\* No whole number of hours that is less leads into the window.
LEMMA NoLessLands ==
    ASSUME NEW t \in Minutes, NEW d \in 0 .. 24, (t + d * Hour) % Day \in Window
    PROVE  Delay(t) <= d
<1> DEFINE h == HourOf(t)
           s == HourOf(SendAfter)
           x == t + d * 60
<1>1. h \in 0 .. 23 /\ h * 60 <= t /\ t <= h * 60 + 59
  BY HourBounds DEF Hour
<1>2. s \in 0 .. 23 /\ s * 60 = SendAfter
  BY StartHour DEF Hour
<1>3. /\ t \in 0 .. 1439 /\ SendAfter \in 0 .. 1439 /\ SendBefore \in 0 .. 1439
      /\ SendAfter + 59 <= SendBefore
  BY WindowAssumption DEF Minutes, Hour, Day
<1>4. x \in 0 .. 2879 /\ x % 1440 \in SendAfter .. SendBefore
  BY <1>3 DEF Window, Hour, Day
<1>5. x \in SendAfter .. SendBefore \/ x - 1440 \in SendAfter .. SendBefore
  <2>1. x % 1440 = x \/ x % 1440 = x - 1440
    BY <1>4
  <2> QED
    BY <2>1, <1>4
<1> HIDE DEF h, s
<1>6. CASE t < SendAfter
  <2>1. Delay(t) = s - h
    BY <1>3, <1>6 DEF Delay, Window, h, s
  <2> QED
    BY <2>1, <1>1, <1>2, <1>3, <1>5, <1>6
<1>7. CASE t \in Window
  <2>1. Delay(t) = 0
    BY <1>3, <1>7 DEF Delay, Window
  <2> QED
    BY <2>1
<1>8. CASE t > SendBefore
  <2>1. Delay(t) = 24 - h + s
    <3>1. ~(t < SendAfter) /\ t \notin Window
      BY <1>3, <1>8 DEF Window
    <3>2. Delay(t) = HoursOvernight(t)
      BY <3>1 DEF Delay
    <3> QED
      BY <3>2 DEF HoursOvernight, h, s
  <2> QED
    BY <2>1, <1>1, <1>2, <1>3, <1>5, <1>8
<1> QED
  BY <1>3, <1>6, <1>7, <1>8 DEF Window

\* The algorithm computes what the reference, a minimum over a set, defines.
LEMMA DelayIsLeast == \A t \in Minutes : LeastDelay(t) = Delay(t)
<1> SUFFICES ASSUME NEW t \in Minutes PROVE LeastDelay(t) = Delay(t)
  OBVIOUS
<1> DEFINE S == {d \in 0 .. 24 : (t + d * Hour) % Day \in Window}
<1>1. Delay(t) \in S
  <2>1. PICK w \in Window : t + Delay(t) * Hour \in {w, w + Day}
    BY DelayLands
  <2>2. w \in 0 .. 1439
    BY WindowAssumption DEF Window, Minutes, Day, Hour
  <2>3. w % 1440 = w /\ (w + 1440) % 1440 = w
    BY <2>2
  <2> QED
    BY <2>1, <2>3, DelayLands DEF Day, Hour
<1>2. \A d \in S : Delay(t) <= d
  BY NoLessLands
<1>3. \A x \in S : (\A y \in S : x <= y) => x = Delay(t)
  <2> TAKE x \in S
  <2> HAVE \A y \in S : x <= y
  <2>1. x \in Int /\ Delay(t) \in Int /\ x <= Delay(t) /\ Delay(t) <= x
    BY <1>1, <1>2
  <2> QED
    BY <2>1
<1> HIDE DEF S
<1>4. Min(S) = Delay(t)
  BY <1>1, <1>2, <1>3 DEF Min
<1> QED
  BY <1>4 DEF LeastDelay, S

\* Whatever happens while a mail waits, it still lands in the window.
THEOREM WindowInvariant == Spec => []WindowInv
<1>1. Init => WindowInv
  <2> SUFFICES ASSUME Init PROVE WindowInv
    OBVIOUS
  <2>1. clock \in Minutes /\ left \in 0 .. Day /\ shift \in -Hour .. Hour
    BY DEF Init, Day, Hour
  <2>2. waiting = FALSE
    BY DEF Init
  <2> QED
    BY <2>1, <2>2 DEF WindowInv, TypeOK, Lands
<1>2. WindowInv /\ [Next]_vars => WindowInv'
  <2> SUFFICES ASSUME WindowInv, [Next]_vars PROVE WindowInv'
    OBVIOUS
  <2> USE DEF WindowInv
  <2>t. clock \in 0 .. 1439 /\ left \in 0 .. 1440 /\ shift \in -60 .. 60
    BY DEF TypeOK, Minutes, Day, Hour
  <2>w. \A w \in Window : w \in 0 .. 1439
    BY WindowAssumption DEF Window, Minutes, Day, Hour
  <2>1. CASE Ask
    <3>1. /\ Delay(clock) \in 0 .. 24
          /\ \E w \in Window : clock + Delay(clock) * Hour \in {w, w + Day}
      BY DelayLands DEF TypeOK
    <3>2. waiting' \in BOOLEAN
      BY <2>1 DEF Ask
    <3>3. clock' = clock /\ left' = Delay(clock) * Hour /\ shift' = 0
      BY <2>1 DEF Ask
    <3>4. TypeOK'
      <4>1. clock' \in Minutes /\ left' \in 0 .. Day /\ shift' \in -Hour .. Hour
        BY <3>1, <3>3, <2>t DEF Minutes, Day, Hour
      <4> QED
        BY <3>2, <4>1 DEF TypeOK
    <3>5. \E w \in Window : clock' + left' - shift' \in {w, w + Day}
      <4>1. PICK w \in Window : clock + Delay(clock) * Hour \in {w, w + Day}
        BY <3>1
      <4>2. Delay(clock) * Hour \in Int
        BY <3>1 DEF Hour
      <4>3. clock' + left' - shift' = clock + Delay(clock) * Hour
        BY <3>3, <4>2, <2>t
      <4> QED
        BY <4>1, <4>3
    <3> QED
      BY <3>4, <3>5 DEF Lands
  <2>2. CASE Tick
    <3>1. waiting' = waiting /\ shift' = shift
      BY <2>2 DEF Tick
    <3>2. clock' = IF clock = 1439 THEN 0 ELSE clock + 1
      BY <2>2, <2>t DEF Tick, Wrapped, Day, Hour
    <3>3. CASE waiting
      <4>1. left > 0 /\ left' = left - 1
        BY <2>2, <3>3 DEF Tick
      <4>2. TypeOK'
        <5>1. clock' \in Minutes /\ left' \in 0 .. Day /\ shift' \in -Hour .. Hour
          BY <3>1, <3>2, <4>1, <2>t DEF Minutes, Day, Hour
        <5> QED
          BY <3>1, <5>1 DEF TypeOK
      <4>3. PICK w \in Window :
                clock + left - shift \in {w - Day, w, w + Day, w + 2 * Day}
        BY <3>3 DEF Lands
      <4>4. w \in 0 .. 1439
        BY <2>w
      <4>5. CASE clock = 1439
        <5>1. clock' + left' - shift' = clock + left - shift - 1440
          BY <2>t, <3>1, <3>2, <4>1, <4>5
        <5>2. clock + left - shift \in {w, w + 1440, w + 2880}
          BY <2>t, <4>3, <4>4, <4>5, <4>1 DEF Day, Hour
        <5>3. clock' + left' - shift' \in {w - 1440, w, w + 1440}
          BY <5>1, <5>2, <4>4, <2>t
        <5> QED
          BY <4>2, <5>3 DEF Lands, Day, Hour
      <4>6. CASE clock # 1439
        <5>1. clock' + left' - shift' = clock + left - shift
          BY <2>t, <3>1, <3>2, <4>1, <4>6
        <5> QED
          BY <4>2, <4>3, <5>1 DEF Lands
      <4> QED
        BY <4>5, <4>6
    <3>4. CASE ~waiting
      <4>1. left' = left
        BY <2>2, <3>4 DEF Tick
      <4>2. clock' \in Minutes /\ left' \in 0 .. Day /\ shift' \in -Hour .. Hour
        BY <3>1, <3>2, <4>1, <2>t DEF Minutes, Day, Hour
      <4> QED
        BY <3>1, <3>4, <4>2 DEF TypeOK, Lands
    <3> QED
      BY <3>3, <3>4
  <2>3. CASE Send
    <3>1. clock' = clock /\ left' = left /\ shift' = 0 /\ waiting' = FALSE
      BY <2>3 DEF Send
    <3>2. clock' \in Minutes /\ left' \in 0 .. Day /\ shift' \in -Hour .. Hour
      BY <3>1, <2>t DEF Minutes, Day, Hour
    <3> QED
      BY <3>1, <3>2 DEF TypeOK, Lands
  <2>4. ASSUME NEW s \in Shifts, ShiftClock(s) PROVE WindowInv'
    <3>1. s \in -60 .. 60 /\ shift = 0
      BY <2>4, ShiftAssumption DEF ShiftClock, Hour
    <3>2. shift' = s /\ left' = left /\ waiting' = waiting /\ waiting
      BY <2>4 DEF ShiftClock
    <3>3. clock' = Wrapped(clock + s)
      BY <2>4 DEF ShiftClock
    <3>4. clock' \in 0 .. 1439
      BY <3>1, <3>3, <2>t DEF Wrapped, Day, Hour
    <3>5. TypeOK'
      <4>1. clock' \in Minutes /\ left' \in 0 .. Day /\ shift' \in -Hour .. Hour
        BY <3>1, <3>2, <3>4, <2>t DEF Minutes, Day, Hour
      <4> QED
        BY <3>2, <4>1 DEF TypeOK
    <3>6. PICK w \in Window : clock + left \in {w - Day, w, w + Day, w + 2 * Day}
      <4>1. PICK w \in Window :
                clock + left - shift \in {w - Day, w, w + Day, w + 2 * Day}
        BY <3>2 DEF Lands
      <4>2. clock + left - shift = clock + left
        BY <3>1, <2>t
      <4> QED
        BY <4>1, <4>2
    <3>7. clock + left \in {w, w + 1440}
      <4>1. w \in 0 .. 1439
        BY <2>w
      <4>2. clock + left \in 0 .. 2879
        BY <2>t
      <4> QED
        BY <4>1, <4>2, <3>6, <2>t DEF Day, Hour
    <3>8. clock' + left' - shift' \in {clock + left - 1440, clock + left, clock + left + 1440}
      BY <3>1, <3>2, <3>3, <2>t DEF Wrapped, Day, Hour
    <3>9. clock' + left' - shift' \in {w - Day, w, w + Day, w + 2 * Day}
      <4>1. w \in 0 .. 1439
        BY <2>w
      <4> QED
        BY <3>7, <3>8, <4>1, <2>t DEF Day, Hour
    <3> QED
      BY <3>5, <3>9 DEF Lands
  <2>5. CASE UNCHANGED vars
    BY <2>5 DEF vars, TypeOK, Lands
  <2> QED
    BY <2>1, <2>2, <2>3, <2>4, <2>5 DEF Next
<1> QED
  BY <1>1, <1>2, PTL DEF Spec

\* A delayed mail goes out by day on the user's own clock, and misses the
\* window only by what that clock was moved while the mail waited.
THEOREM MailsGoOutByDay == Spec => SentByDay
<1>1. WindowInv /\ [Next]_vars => [Send => \E w \in Window : Wrapped(w + shift) = clock]_vars
  <2> SUFFICES ASSUME WindowInv, Send
               PROVE  \E w \in Window : Wrapped(w + shift) = clock
    OBVIOUS
  <2>1. clock \in 0 .. 1439 /\ shift \in -60 .. 60
    BY DEF WindowInv, TypeOK, Minutes, Day, Hour
  <2>2. PICK w \in Window : clock - shift \in {w - 1440, w, w + 1440, w + 2880}
    <3>1. waiting /\ left = 0
      BY DEF Send
    <3> QED
      BY <3>1, <2>1 DEF WindowInv, Lands, Day, Hour
  <2>3. w \in 0 .. 1439
    BY WindowAssumption DEF Window, Minutes, Day, Hour
  <2>4. Wrapped(w + shift) = clock
    BY <2>1, <2>2, <2>3 DEF Wrapped, Day, Hour
  <2> QED
    BY <2>4
<1> QED
  BY <1>1, WindowInvariant, PTL DEF Spec, SentByDay

\* The clock, the time left and the shift stay in their ranges. (utils.py:20-28)
THEOREM WaitTyped == Spec => []TypeOK
<1>1. WindowInv => TypeOK
  BY DEF WindowInv
<1> QED
  BY <1>1, WindowInvariant, PTL

\* Nobody waits longer than he must: the delay of the worker is the least that
\* leads into the window. (utils.py:20-28)
THEOREM NobodyWaitsNeedlessly == Spec => NoNeedlessWait
<1>1. WindowInv /\ [Next]_vars => [Ask => left' = LeastDelay(clock) * Hour]_vars
  BY DelayIsLeast DEF WindowInv, TypeOK, Ask
<1> QED
  BY <1>1, WindowInvariant, PTL DEF Spec, NoNeedlessWait

=============================================================================
