------------------------------ MODULE Calendar ------------------------------
(***************************************************************************)
(* Timer_date of component/Timer/Timer.c: the calendar a Timer computes    *)
(* when it mounts with a timestamp, beside a calendar on the wall that     *)
(* goes on by one second from the first of January of some years.  A day   *)
(* may have fewer seconds than ours.                                       *)
(***************************************************************************)
EXTENDS Integers, Sequences

CONSTANTS PerMinute, PerHour, PerDay,  \* 60, 60 and 24 in the code
          IntWord,                     \* the number of values of an unsigned int
          Years                        \* the years the wall calendar shows

ASSUME CalendarAssumption ==
  /\ {PerMinute, PerHour, PerDay, IntWord} \subseteq Nat \ {0}
  /\ PerMinute <= IntWord
  /\ Years \subseteq Nat /\ 1970 \in Years /\ \A y \in Years : y >= 1970

VARIABLES wall,      \* the calendar on the wall
          timestamp, \* the seconds since 1970 on it
          calendar   \* props->calendar of the Timer

calendarVars == <<wall, timestamp, calendar>>

SecondsOf(days) == days * PerMinute * PerHour * PerDay
-----------------------------------------------------------------------------
(* The calendar on the wall.  1970 began on a Thursday.                    *)
LeapDaysBefore(y) == (y - 1) \div 4 - (y - 1) \div 100 + (y - 1) \div 400
DaysBefore(y)     == 365 * (y - 1970) + LeapDaysBefore(y) - LeapDaysBefore(1970)

MonthEnd(w) == IF w.mon = 1 THEN 28 + LeapDaysBefore(w.year + 1) - LeapDaysBefore(w.year)
               ELSE IF w.mon \in {3, 5, 8, 10} THEN 30 ELSE 31

NewYear(y) == [year |-> y, mon |-> 0, mday |-> 1, yday |-> 0, wday |-> (4 + DaysBefore(y)) % 7,
               hour |-> 0, min |-> 0, sec |-> 0]

NextDay(w) ==
  LET day == [year |-> w.year, mon |-> w.mon, mday |-> w.mday, yday |-> w.yday,
              wday |-> (w.wday + 1) % 7, hour |-> 0, min |-> 0, sec |-> 0]
  IN  IF w.mday < MonthEnd(w) THEN [day EXCEPT !.mday = @ + 1, !.yday = @ + 1]
      ELSE IF w.mon < 11 THEN [day EXCEPT !.mday = 1, !.yday = @ + 1, !.mon = @ + 1]
      ELSE [day EXCEPT !.mday = 1, !.yday = 0, !.mon = 0, !.year = @ + 1]

NextSecond(w) ==
  IF w.sec < PerMinute - 1 THEN [w EXCEPT !.sec = @ + 1]
  ELSE IF w.min < PerHour - 1 THEN [w EXCEPT !.sec = 0, !.min = @ + 1]
  ELSE IF w.hour < PerDay - 1 THEN [w EXCEPT !.sec = 0, !.min = 0, !.hour = @ + 1]
  ELSE NextDay(w)
-----------------------------------------------------------------------------
leap_year(year) == year % 4 = 0 /\ (year % 100 # 0 \/ year % 400 = 0)

(* The year, the day of the year and of the week, by taking off whole      *)
(* years from a year and the day of the week it begins with.               *)
YearsFrom == [year : Nat, days : Nat, wday : Nat]

TakeYears[from \in YearsFrom] ==
  LET length == IF leap_year(from.year) THEN 366 ELSE 365
      later  == from.wday + (IF leap_year(from.year) THEN 2 ELSE 1)
  IN  IF from.days >= length
      THEN TakeYears[[year |-> from.year + 1, days |-> from.days - length,
                      wday |-> IF later >= 7 THEN later - 7 ELSE later]]
      ELSE [year |-> from.year, yday |-> from.days, wday |-> (from.wday + from.days) % 7]

days_in_month == <<31, 28, 31, 30, 31, 30, 31, 31, 30, 31, 30, 31>>

(* Fault: the day is added after February, too.                            *)
dim_late(month, year) ==
  days_in_month[month + 1] + (IF month >= 1 /\ leap_year(year) THEN 1 ELSE 0)

dim(month, year) ==
  days_in_month[month + 1] + (IF month = 1 /\ leap_year(year) THEN 1 ELSE 0)

MonthsFrom == [mon : Nat, days : Nat, year : Nat]

TakeMonths[from \in MonthsFrom] ==
  IF from.mon < 12 /\ from.days >= dim(from.mon, from.year)
  THEN TakeMonths[[mon |-> from.mon + 1, days |-> from.days - dim(from.mon, from.year),
                   year |-> from.year]]
  ELSE [mon |-> from.mon, mday |-> from.days + 1]

(* The minutes are an unsigned int, and so is all that follows.            *)
Timer_date(seconds) ==
  LET minutes == (seconds \div PerMinute) % IntWord
      hours   == minutes \div PerHour
      y       == TakeYears[[year |-> 1970, days |-> hours \div PerDay, wday |-> 4]]
      m       == TakeMonths[[mon |-> 0, days |-> y.yday, year |-> y.year]]
  IN  [year |-> y.year, mon |-> m.mon, mday |-> m.mday, yday |-> y.yday, wday |-> y.wday,
       hour |-> hours % PerDay, min |-> minutes % PerHour,
       sec |-> (seconds - minutes * PerMinute) % IntWord]

(* didMount, of a timer that is defined with the time on the wall.         *)
Mounted(seconds) == timestamp' = seconds /\ calendar' = Timer_date(seconds)

CalendarInit == wall = NewYear(1970) /\ timestamp = 0 /\ calendar = Timer_date(0)

(* A second later ...                                                      *)
MountLater == /\ NextSecond(wall).year \in Years
              /\ wall' = NextSecond(wall) /\ Mounted(timestamp + 1)

(* ... or another year.                                                    *)
MountAgain == \E y \in Years : /\ NextSecond(wall).year \notin Years
                               /\ wall' = NewYear(y)
                               /\ Mounted(SecondsOf(DaysBefore(y)))

CalendarNext == MountLater \/ MountAgain

CalendarSpec == CalendarInit /\ [][CalendarNext]_calendarVars
-----------------------------------------------------------------------------
(* The calendar of a Timer is the one on the wall, in common and in leap   *)
(* years and at the turns of centuries, until the minutes since 1970 are   *)
(* more than an unsigned int holds (on the AVR, after 45 days).            *)
DateIsRight == timestamp \div PerMinute < IntWord => calendar = wall
=============================================================================
