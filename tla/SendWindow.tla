----------------------------- MODULE SendWindow -----------------------------
(***************************************************************************)
(* When a mail of the email worker goes out                                *)
(* (service_notice/email_sender/src/utils.py): a mail of low priority is   *)
(* handed to SendGrid at once and sent at the moment that                  *)
(* get_send_datetime computes from the user's wall clock. SendGrid waits   *)
(* for that moment on its own clock, so that a change to or from summer    *)
(* time moves the user's clock under a mail that is waiting.               *)
(*                                                                         *)
(* Times of the day are minutes after midnight on the user's clock, and    *)
(* what happens in a minute happens at its start.                          *)
(***************************************************************************)
EXTENDS Integers, FiniteSetsExt

CONSTANTS
    SendAfter,      \* settings.SEND_AFTER_TIME, the start of the window
    SendBefore,     \* settings.SEND_BEFORE_TIME, its end
    Shifts          \* changes of the user's clock, in minutes

Hour == 60
Day == 24 * Hour
Minutes == 0 .. Day - 1
Window == SendAfter .. SendBefore

\* get_send_datetime adds whole hours and ignores the minutes of the start:
\* the window has to start on the hour, as that of config.py does, and to last
\* for an hour at least.
ASSUME WindowAssumption ==
    /\ SendAfter \in Minutes
    /\ SendBefore \in Minutes
    /\ \E h \in 0 .. 23 : SendAfter = h * Hour
    /\ SendAfter + 59 <= SendBefore

\* The clock is put forward or back by an hour at most.
ASSUME ShiftAssumption == Shifts \subseteq -Hour .. Hour

VARIABLES
    clock,      \* the user's wall clock
    waiting,    \* SendGrid holds a mail
    left,       \* the minutes until SendGrid sends it
    shift       \* how far the clock was moved since then

vars == <<clock, waiting, left, shift>>

TypeOK ==
    /\ clock \in Minutes
    /\ waiting \in BOOLEAN
    /\ left \in 0 .. Day
    /\ shift \in -Hour .. Hour

Init ==
    /\ clock \in Minutes
    /\ waiting = FALSE
    /\ left = 0
    /\ shift = 0

HourOf(t) == CHOOSE h \in 0 .. 23 : h * Hour <= t /\ t < (h + 1) * Hour

\* Slip: the difference of the hours the wrong way round.
HoursOvernightSwapped(t) == 24 + HourOf(t) - HourOf(SendAfter)
\* Slip: the hours until the end of the day only.
HoursOvernightShort(t) == 24 - HourOf(t)
\* From the end of the window to its start on the next day.
HoursOvernight(t) == 24 - HourOf(t) + HourOf(SendAfter)

\* Slip: the end of the window is not part of it.
DelayOpenEnd(t) ==
    CASE t < SendAfter -> HourOf(SendAfter) - HourOf(t)
      [] SendAfter <= t /\ t < SendBefore -> 0
      [] OTHER -> HoursOvernight(t)
\* The hours dt that get_send_datetime adds to the user's time.
Delay(t) ==
    CASE t < SendAfter -> HourOf(SendAfter) - HourOf(t)
      [] t \in Window -> 0
      [] OTHER -> HoursOvernight(t)

\* The worker computes the moment for a mail of low priority. (A mail of high
\* priority, or to a user with an unknown time zone, is sent at once.)
Ask ==
    /\ ~waiting
    /\ waiting' = TRUE
    /\ left' = Delay(clock) * Hour
    /\ shift' = 0
    /\ UNCHANGED clock

\* t minutes after midnight as a time of the day.
Wrapped(t) == IF t >= Day THEN t - Day ELSE IF t < 0 THEN t + Day ELSE t

\* A minute passes.
Tick ==
    /\ waiting => left > 0
    /\ clock' = Wrapped(clock + 1)
    /\ left' = IF waiting THEN left - 1 ELSE left
    /\ UNCHANGED <<waiting, shift>>

\* The user's clock is put forward or back, at most once in a day.
ShiftClock(s) ==
    /\ waiting
    /\ shift = 0
    /\ clock' = Wrapped(clock + s)
    /\ shift' = s
    /\ UNCHANGED <<waiting, left>>

\* SendGrid sends the mail.
Send ==
    /\ waiting
    /\ left = 0
    /\ waiting' = FALSE
    /\ shift' = 0
    /\ UNCHANGED <<clock, left>>

Next == Ask \/ Tick \/ Send \/ \E s \in Shifts : ShiftClock(s)

Spec == Init /\ [][Next]_vars

-----------------------------------------------------------------------------
\* A delayed mail goes out within the window of the user's own clock; if that
\* clock was moved while it waited, it misses the window by no more than that.
SentByDay == [][Send => \E w \in Window : Wrapped(w + shift) = clock]_vars

\* The reference: of all whole hours that lead into the window, the delay is
\* the least; nobody waits a day who need not.
LeastDelay(t) == Min({d \in 0 .. 24 : (t + d * Hour) % Day \in Window})
NoNeedlessWait == [][Ask => left' = LeastDelay(clock) * Hour]_vars

=============================================================================
