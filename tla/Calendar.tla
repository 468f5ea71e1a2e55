------------------------------- MODULE Calendar -------------------------------
(***************************************************************************)
(* The dates of report times and reboot times: unix_epoch_to_utc_iso8601   *)
(* and civil_from_unix_days (src/dummycloud2/src/mqtt.rs), which computes  *)
(* year, month and day from the number of days since the epoch without a   *)
(* table of months.  They run here beside a clock that is moved on one     *)
(* second, and a calendar that is turned over one day at a time.           *)
(*                                                                         *)
(* The code divides the seconds since the epoch by the length of a day; a  *)
(* moment is a day and a second of that day here.                          *)
(***************************************************************************)
EXTENDS Integers

CONSTANTS
  MaxDay,    \* the last day; two 32 bit counters of seconds reach 99420
  Watched    \* bound: the days of which each second is shown, not only midnight

ASSUME CalendarAssumption == MaxDay \in Nat /\ Watched \subseteq Nat

-----------------------------------------------------------------------------
\* The last second of a day, counted from midnight.
LastSecond == 86399

\* Division of i64 rounds towards zero.
Quotient(a, b) == IF a >= 0 THEN a \div b ELSE -((-a) \div b)

\* Faulty: off by one.
MonthLate(index) == index + (IF index <= 10 THEN 3 ELSE -9)

\* The month of the calendar for a month counted from March.
Month(index) == index + (IF index < 10 THEN 3 ELSE -9)

\* The year, counted from March, of a day in an era of 400 years.
YearOfEra(doe) ==
  Quotient(doe - Quotient(doe, 1460) + Quotient(doe, 36524)
               - Quotient(doe, 146096), 365)

\* civil_from_unix_days.
Civil(days) ==
  LET z == days + 719468
      era == Quotient(IF z >= 0 THEN z ELSE z - 146096, 146097)
      doe == z - era * 146097
      yoe == YearOfEra(doe)
      doy == doe - (365 * yoe + Quotient(yoe, 4) - Quotient(yoe, 100))
      index == Quotient(5 * doy + 2, 153)
      month == Month(index)
  IN  [year  |-> yoe + era * 400 + (IF month <= 2 THEN 1 ELSE 0),
       month |-> month,
       day   |-> doy - Quotient(153 * index + 2, 5) + 1]

\* Faulty: the minutes of the day.
MinuteOfDay(second) == second \div 60

Minute(second) == (second % 3600) \div 60

\* unix_epoch_to_utc_iso8601, for a moment of the given day.
Shown(days, second) ==
  [date |-> Civil(days),
   time |-> [hour |-> second \div 3600, minute |-> Minute(second),
             second |-> second % 60]]

-----------------------------------------------------------------------------
\* The reference: the Gregorian calendar.
IsLeap(y) == y % 4 = 0 /\ (y % 100 # 0 \/ y % 400 = 0)

DaysIn(y, m) ==
  CASE m = 2               -> IF IsLeap(y) THEN 29 ELSE 28
    [] m \in {4, 6, 9, 11} -> 30
    [] OTHER               -> 31

Tomorrow(d) ==
  CASE d.day < DaysIn(d.year, d.month) -> [d EXCEPT !.day = @ + 1]
    [] d.day = DaysIn(d.year, d.month) /\ d.month < 12 ->
         [d EXCEPT !.day = 1, !.month = @ + 1]
    [] OTHER -> [year |-> d.year + 1, month |-> 1, day |-> 1]

\* A clock.
Later(t) ==
  CASE t.second < 59 -> [t EXCEPT !.second = @ + 1]
    [] t.second = 59 /\ t.minute < 59 ->
         [t EXCEPT !.second = 0, !.minute = @ + 1]
    [] OTHER -> [hour |-> (t.hour + 1) % 24, minute |-> 0, second |-> 0]

-----------------------------------------------------------------------------
VARIABLES
  day,      \* days since the epoch
  second,   \* and seconds since midnight
  date,     \* that day in the reference calendar
  time,     \* and that second on the reference clock
  shown     \* the timestamp that is published

vars == <<day, second, date, time, shown>>

Dates == [year : Nat, month : 1..12, day : 1..31]
Times == [hour : 0..23, minute : 0..59, second : 0..59]

TypeOK ==
  /\ day \in 0..MaxDay /\ second \in 0..LastSecond
  /\ date \in Dates /\ time \in Times
  /\ shown \in [date : Dates, time : Times]

Init ==
  /\ day = 0 /\ second = 0
  /\ date = [year |-> 1970, month |-> 1, day |-> 1]
  /\ time = [hour |-> 0, minute |-> 0, second |-> 0]
  /\ shown = Shown(0, 0)

NextSecond ==
  /\ day \in Watched
  /\ second < LastSecond
  /\ second' = second + 1
  /\ time' = Later(time)
  /\ shown' = Shown(day, second')
  /\ UNCHANGED <<day, date>>

\* Midnight: after the last second of the day, or of a day not watched.
NextDay ==
  /\ day < MaxDay
  /\ day \in Watched => second = LastSecond
  /\ day' = day + 1
  /\ second' = 0
  /\ date' = Tomorrow(date)
  /\ time' = IF day \in Watched THEN Later(time) ELSE time
  /\ shown' = Shown(day', 0)

Next == NextSecond \/ NextDay

Spec == Init /\ [][Next]_vars

\* The arithmetic agrees with calendar and clock on every day, leap years,
\* century years and the ends of months included, and on every second of the
\* days that are watched (mqtt.rs:907-932).
ShownIsDate == shown = [date |-> date, time |-> time]
=============================================================================
