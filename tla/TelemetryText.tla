--------------------------- MODULE TelemetryText ---------------------------
(***************************************************************************)
(* What becomes of two readings on their way into the packet, both of      *)
(* which travel as text of a fixed width:                                  *)
(*  - the hour of a GPS fix, which Serialport::sub_routine (serialport.cpp)*)
(*    turns from UTC into local time in place, leaving the date alone;     *)
(*  - the temperature, which temperdev::sub_routine (hidtemp.cpp) prints   *)
(*    with two decimals and of which it submits the first four characters. *)
(*                                                                         *)
(* A character is a number, that of a digit for a digit; a date is a       *)
(* number of days.  The receiver's clock counts hours.                     *)
(***************************************************************************)
EXTENDS Integers, Sequences

CONSTANTS
  Values,     \* the values of ev[2]*256 + ev[3] looked at
  MaxHours    \* bound: how long the receiver's clock runs

Sample == 0 .. 65535     \* two bytes

ASSUME ValueAssumption == Values \subseteq Sample
ASSUME HourAssumption == MaxHours \in Nat

VARIABLES
  utc,       \* the receiver's clock, in hours
  garbled,   \* the hour of the last fix was not two digits of a time
  gps_time,  \* the date and hour of the last fix, converted
  value,     \* the last temperature sample, in tenths of a degree
  temper     \* its text

textVars == <<utc, garbled, gps_time, value, temper>>

Digit == 0 .. 9
Minus == 10
Plus  == 11
Blank == 12
Dot   == 13
Other == 14     \* any other
Char == 0 .. 14
-----------------------------------------------------------------------------
\* The digits of a whole number of at most four.
Digits(w) ==
  IF w < 10 THEN <<w>>
  ELSE IF w < 100 THEN <<w \div 10, w % 10>>
  ELSE IF w < 1000 THEN <<w \div 100, (w \div 10) % 10, w % 10>>
  ELSE <<w \div 1000, (w \div 100) % 10, (w \div 10) % 10, w % 10>>
-----------------------------------------------------------------------------
(* The hour of a fix.                                                      *)

\* atoi of two characters.
Atoi(a, b) ==
  CASE a \in Digit /\ b \in Digit -> 10 * a + b
    [] a \in Digit /\ b \notin Digit -> a
    [] a = Minus /\ b \in Digit -> -b
    [] a \in {Plus, Blank} /\ b \in Digit -> b
    [] OTHER -> 0

\* The remainder of C, which takes the sign of x.
CRem(x, y) == IF x >= 0 THEN x % y ELSE -((-x) % y)

LocalHour_NoWrap(h) == h + 8
\* (tmp_time+8)%24
LocalHour(h) == CRem(h + 8, 24)

\* "%02d": at least two characters, and as many as it takes.
TwoDigits(h) ==
  IF h < 0 THEN <<Minus>> \o Digits(-h)
  ELSE IF h < 10 THEN <<0, h>> ELSE Digits(h)

\* The fix with the hour replaced: the date before it and the minutes
\* behind it are copied from the packet.
Converted(day, a, b) == [day |-> day, hour |-> TwoDigits(LocalHour(Atoi(a, b)))]
-----------------------------------------------------------------------------
(* The temperature.                                                        *)

\* "%4.2f" of v*0.1: the second decimal is always 0.
Printed(v) == Digits(v \div 10) \o <<Dot, v % 10, 0>>

Submitted_Last(text) == SubSeq(text, Len(text) - 3, Len(text))
\* submit_tempature(text, 4)
Submitted(text) == SubSeq(text, 1, 4)
-----------------------------------------------------------------------------
TextInit ==
  /\ utc = 0
  /\ garbled = FALSE
  /\ gps_time = Converted(0, 0, 0)
  /\ value = 0
  /\ temper = Submitted(Printed(0))

\* A fix after up to a day.
GpsFix ==
  \E h \in utc .. utc + 24 :
    /\ h <= MaxHours
    /\ utc' = h
    /\ garbled' = FALSE
    /\ gps_time' = Converted(h \div 24, (h % 24) \div 10, (h % 24) % 10)
    /\ UNCHANGED <<value, temper>>

\* A packet is taken by its length and its tag alone: any two characters can
\* be in the place of the hour.
GarbledFix ==
  \E a, b \in Char :
    /\ ~ \E h \in 0 .. 23 : a = h \div 10 /\ b = h % 10
    /\ garbled' = TRUE
    /\ gps_time' = Converted(utc \div 24, a, b)
    /\ UNCHANGED <<utc, value, temper>>

\* A sample; three zeroes are not shown, and 0 is not written.
HidSample ==
  \E v \in Values \ {0} :
    /\ value' = v
    /\ temper' = Submitted(Printed(v))
    /\ UNCHANGED <<utc, garbled, gps_time>>

TextNext == GpsFix \/ GarbledFix \/ HidSample

TextSpec == TextInit /\ [][TextNext]_textVars
-----------------------------------------------------------------------------
(* Properties.                                                             *)

TextTypeOK ==
  /\ utc \in 0 .. MaxHours
  /\ garbled \in BOOLEAN
  /\ gps_time.day \in Nat
  /\ gps_time.hour \in Char \X Char
  /\ value \in Values \cup {0}
  /\ temper \in Char \X Char \X Char \X Char

\* Hours since the first day, as the host reads them.
Hours(t) == 24 * t.day + 10 * t.hour[1] + t.hour[2]

\* The characters in the place of the hour may be anything, and two come
\* out all the same: nothing is written over the minutes or left in their
\* way.
HourKeepsWidth == Len(gps_time.hour) = 2

\* The time of a fix is the local time, or exactly one day behind: the hour
\* wraps around and the date does not follow.  It is behind whenever it is
\* 16 o'clock or later in UTC, and never otherwise.
DayEarlyOrRight ==
  /\ TextTypeOK /\ HourKeepsWidth
  /\ ~garbled => Hours(gps_time) = utc + 8 - (IF utc % 24 >= 16 THEN 24 ELSE 0)

\* Hundredths of a degree, as the host reads the four characters.
Hundredths(t) ==
  IF t[2] = Dot THEN 100 * t[1] + 10 * t[3] + t[4]
  ELSE IF t[3] = Dot THEN 1000 * t[1] + 100 * t[2] + 10 * t[4]
  ELSE IF t[4] = Dot THEN 10000 * t[1] + 1000 * t[2] + 100 * t[3]
  ELSE 100000 * t[1] + 10000 * t[2] + 1000 * t[3] + 100 * t[4]

\* Four characters of the text are enough for any sample: below 100 degrees
\* they are exact, above, the tenths are cut off, and nothing else.
TruncatedAtMost ==
  /\ Hundredths(temper) \in 10 * value - 99 .. 10 * value
  /\ value < 1000 => Hundredths(temper) = 10 * value
=============================================================================
