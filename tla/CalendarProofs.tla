--------------------------- MODULE CalendarProofs ---------------------------
(***************************************************************************)
(* The timestamps of Calendar are right: for every day and every second of *)
(* it, whatever MaxDay and Watched.                                        *)
(*                                                                         *)
(* civil_from_unix_days divides where a calendar counts.  The proof gives  *)
(* each quotient a name and the two inequalities that determine it, and    *)
(* shows that                                                              *)
(*   - the year of an era is the one that contains the day (YearOfEraIs),  *)
(*   - so the day is day doy of year y of an era, with a number of days    *)
(*     before it that no other triple has (CivilIs, DayUnique),            *)
(*   - the next day is the next one of the year, or the first of the next  *)
(*     year or era, and its date is the next date (CivilTomorrow),         *)
(*   - the quotients of the clock are its hands, which move on by one      *)
(*     second (TimeIs, TimeLater, Midnight).                               *)
(* The inductive invariant, Turning, says that calendar and clock are at   *)
(* the day and the second the arithmetic is asked for.                     *)
(***************************************************************************)
EXTENDS Calendar, TLAPS

-----------------------------------------------------------------------------
(* The years of an era *)

\* No day before the epoch is asked for: the division is the one of TLA+.
LEMMA QuotientIs ==
  ASSUME NEW a \in Nat, NEW b \in Nat \ {0} PROVE Quotient(a, b) = a \div b
BY DEF Quotient

\* The days of an era before its year y, which begins in March.
Start(y) == 365 * y + (y \div 4) - (y \div 100)

\* The days that year has more than 365: February is in the next year of the
\* calendar.
Extra(y) == IF IsLeap(y + 1) THEN 1 ELSE 0

\* Each year begins where the one before it ends.
LEMMA StartNext ==
  ASSUME NEW y \in 0..398 PROVE Start(y + 1) = Start(y) + 365 + Extra(y)
BY SMTT(60) DEF Extra, Start, IsLeap

\* The first and the last year of an era.
LEMMA StartBounds ==
  ASSUME NEW y \in 0..399
  PROVE  /\ Start(y) \in Nat /\ Start(y) <= 145731
         /\ y = 399 => Start(y) = 145731 /\ Extra(y) = 1
         /\ y = 0 => Start(y) = 0
         /\ Extra(y) \in 0..1
BY SMTT(60) DEF Extra, Start, IsLeap

\* The last one ends with the era.
LEMMA LastStart ==
  ASSUME NEW y \in 0..399 PROVE Start(y) + Extra(y) <= 145732
BY SMTT(60) DEF Extra, Start, IsLeap

\* An earlier year ends before a later one begins.
LEMMA StartGrows ==
  ASSUME NEW y \in 0..399, NEW z \in 0..399, y < z
  PROVE  Start(y) + 365 + Extra(y) <= Start(z)
BY SMTT(60) DEF Extra, Start, IsLeap

\* A quotient and the inequalities that determine it.
LEMMA Divided ==
  ASSUME NEW n \in Int, NEW d \in {4, 100, 365, 1460, 36524, 146096}
  PROVE  \E q \in Int : q = n \div d /\ d * q <= n /\ n < d * q + d
<1>1. CASE d = 4
  BY SMTT(20), <1>1
<1>2. CASE d = 100
  BY SMTT(20), <1>2
<1>3. CASE d = 365
  BY SMTT(20), <1>3
<1>4. CASE d = 1460
  BY SMTT(20), <1>4
<1>5. CASE d = 36524
  BY SMTT(20), <1>5
<1>6. CASE d = 146096
  BY SMTT(20), <1>6
<1>7. QED
  BY SMTT(20), <1>1, <1>2, <1>3, <1>4, <1>5, <1>6

\* f and g count the leap days before the year y of an era.
LeapDays(y, f, g) ==
  /\ Start(y) = 365 * y + f - g
  /\ 4 * f <= y /\ y < 4 * f + 4
  /\ 100 * g <= y /\ y < 100 * g + 100

LEMMA StartIs ==
  ASSUME NEW y \in Int
  PROVE  \E f, g \in Int : LeapDays(y, f, g)
<1>1. PICK f \in Int : f = y \div 4 /\ 4 * f <= y /\ y < 4 * f + 4
  BY SMTT(20), Divided
<1>2. PICK g \in Int : g = y \div 100 /\ 100 * g <= y /\ y < 100 * g + 100
  BY SMTT(20), Divided
<1>3. Start(y) = 365 * y + f - g
  BY SMTT(20), <1>1, <1>2 DEF Start
<1>4. QED
  BY SMTT(20), <1>1, <1>2, <1>3 DEF LeapDays

\* The year of the era that is computed is the one that contains the day.
LEMMA YearOfEraIs ==
  ASSUME NEW doe \in Nat, doe <= 146096
  PROVE  LET y == YearOfEra(doe)
         IN  y \in 0..399 /\ doe - Start(y) \in 0..(364 + Extra(y))
<1>1. PICK a \in Int : /\ a = doe \div 1460
                       /\ 1460 * a <= doe /\ doe < 1460 * a + 1460
  BY SMTT(20), Divided
<1>2. PICK b \in Int : /\ b = doe \div 36524
                       /\ 36524 * b <= doe /\ doe < 36524 * b + 36524
  BY SMTT(20), Divided
<1>3. PICK c \in Int : /\ c = doe \div 146096
                       /\ 146096 * c <= doe /\ doe < 146096 * c + 146096
  BY SMTT(20), Divided
<1>4. PICK n \in Int : n = doe - a + b - c
  BY SMTT(20)
<1>5. 0 <= n
  BY SMTT(20), <1>1, <1>2, <1>3, <1>4
<1>6. PICK y \in Int : y = n \div 365 /\ 365 * y <= n /\ n < 365 * y + 365
  BY SMTT(20), Divided
<1>7. YearOfEra(doe) = y
  <2>1. /\ Quotient(doe, 1460) = a /\ Quotient(doe, 36524) = b
        /\ Quotient(doe, 146096) = c
    BY SMTT(20), <1>1, <1>2, <1>3, QuotientIs
  <2>2. Quotient(n, 365) = y
    BY SMTT(20), <1>5, <1>6, QuotientIs
  <2>3. QED
    BY SMTT(20), <1>4, <2>1, <2>2 DEF YearOfEra
<1>8. y \in 0..399
  BY SMTT(20), <1>1, <1>2, <1>3, <1>4, <1>6
<1>9. Start(y) <= doe
  <2>1. PICK f, g \in Int : LeapDays(y, f, g)
    BY SMTT(20), StartIs
  <2>2. QED
    BY SMTT(20), <1>1, <1>2, <1>3, <1>4, <1>6, <1>8, <2>1 DEF LeapDays
<1>10. CASE y < 399
  <2>1. PICK f, g \in Int : LeapDays(y + 1, f, g)
    BY SMTT(20), StartIs
  <2>2. doe < Start(y + 1)
    BY SMTT(20), <1>1, <1>2, <1>3, <1>4, <1>6, <1>8, <1>10, <2>1 DEF LeapDays
  <2>3. Start(y + 1) = Start(y) + 365 + Extra(y)
    BY SMTT(20), <1>8, <1>10, StartNext
  <2>4. Start(y) \in Int /\ Extra(y) \in Int
    BY SMTT(20), <1>8, StartBounds
  <2>5. QED
    BY SMTT(20), <1>7, <1>8, <1>9, <2>2, <2>3, <2>4
<1>11. CASE y = 399
  BY SMTT(20), <1>7, <1>8, <1>9, <1>11, StartBounds
<1>12. QED
  BY SMTT(20), <1>8, <1>10, <1>11

\* The year of the calendar in which a month of the year y of an era falls.
YearIn(era, y, month) == y + era * 400 + (IF month <= 2 THEN 1 ELSE 0)

\* The first day of a month, counted from March, in a year that begins there.
FirstDay(i) == (153 * i + 2) \div 5

Date(y, m, d) == [year |-> y, month |-> m, day |-> d]

\* A date by the number of its month.
DateIn(era, y, doy, i) ==
  Date(YearIn(era, y, Month(i)), Month(i), doy - FirstDay(i) + 1)

\* The month of a day of the year.
Index(doy) == (5 * doy + 2) \div 153

\* Year, month and day of the day doy of the year y of an era.
DateOf(era, y, doy) == DateIn(era, y, doy, Index(doy))

\* The days of an era, counted by years that begin in March.
IsDay(era, y, doy) ==
  era \in Nat /\ y \in 0..399 /\ doy \in 0..(364 + Extra(y))

DaysBefore(era, y, doy) == 146097 * era + Start(y) + doy

\* A day has one place in one year of one era.
LEMMA DayUnique ==
  ASSUME NEW era, NEW y, NEW doy, IsDay(era, y, doy),
         NEW era2, NEW y2, NEW doy2, IsDay(era2, y2, doy2),
         DaysBefore(era, y, doy) = DaysBefore(era2, y2, doy2)
  PROVE  era = era2 /\ y = y2 /\ doy = doy2
<1>1. /\ era \in Int /\ y \in 0..399 /\ doy \in Int
      /\ era2 \in Int /\ y2 \in 0..399 /\ doy2 \in Int
  BY SMTT(20), StartBounds DEF IsDay
<1>2. /\ Start(y) \in Nat /\ Start(y2) \in Nat
      /\ 0 <= doy /\ doy <= 364 + Extra(y)
      /\ 0 <= doy2 /\ doy2 <= 364 + Extra(y2)
      /\ Extra(y) \in 0..1 /\ Extra(y2) \in 0..1
  BY SMTT(20), StartBounds DEF IsDay
<1>3. /\ Start(y) + doy <= 146096 /\ Start(y2) + doy2 <= 146096
  <2>1. Start(y) + Extra(y) <= 145732 /\ Start(y2) + Extra(y2) <= 145732
    BY SMTT(20), <1>1, LastStart
  <2>2. QED
    BY SMTT(20), <1>1, <1>2, <2>1
<1>4. 146097 * era + Start(y) + doy = 146097 * era2 + Start(y2) + doy2
  BY SMTT(20) DEF DaysBefore
<1>5. era = era2
  BY SMTT(20), <1>1, <1>2, <1>3, <1>4
<1>6. y = y2
  <2>1. ~ (y < y2)
    <3>1. SUFFICES ASSUME y < y2 PROVE FALSE
      OBVIOUS
    <3>2. Start(y) + 365 + Extra(y) <= Start(y2)
      BY <1>1, <3>1, StartGrows, ZenonT(60)
    <3>3. QED
      BY SMTT(20), <1>1, <1>2, <1>4, <1>5, <3>2
  <2>2. ~ (y2 < y)
    <3>1. SUFFICES ASSUME y2 < y PROVE FALSE
      OBVIOUS
    <3>2. Start(y2) + 365 + Extra(y2) <= Start(y)
      BY <1>1, <3>1, StartGrows, ZenonT(60)
    <3>3. QED
      BY SMTT(20), <1>1, <1>2, <1>4, <1>5, <3>2
  <2>3. QED
    BY SMTT(20), <1>1, <2>1, <2>2
<1>7. QED
  BY SMTT(20), <1>1, <1>2, <1>4, <1>5, <1>6

\* The day of the epoch, counted from the first of March of the year 0.
SinceMarch(days) == days + 719468

\* What civil_from_unix_days computes is the date of the day with as many days
\* before it.
LEMMA CivilIs ==
  ASSUME NEW days \in Nat
  PROVE  \E era, y, doy :
           /\ IsDay(era, y, doy)
           /\ DaysBefore(era, y, doy) = SinceMarch(days)
           /\ Civil(days) = DateOf(era, y, doy)
<1>1. PICK z \in Nat : z = days + 719468
  BY SMTT(20)
<1>2. PICK era \in Nat : /\ era = z \div 146097
                         /\ 146097 * era <= z /\ z < 146097 * era + 146097
  BY SMTT(20)
<1>3. PICK doe \in Nat : doe = z - era * 146097 /\ doe <= 146096
  BY SMTT(20), <1>1, <1>2
<1>4. PICK y : y = YearOfEra(doe)
  BY SMTT(20)
<1>5. y \in 0..399 /\ doe - Start(y) \in 0..(364 + Extra(y))
  BY SMTT(20), <1>3, <1>4, YearOfEraIs
<1>6. PICK doy : doy = doe - Start(y)
  BY SMTT(20)
<1>7. Start(y) \in Nat /\ Extra(y) \in 0..1
  BY SMTT(20), <1>5, StartBounds
<1>8. doy \in Nat /\ doy <= 365
  BY SMTT(20), <1>5, <1>6, <1>7
<1>9. IsDay(era, y, doy)
  BY SMTT(20), <1>5, <1>6 DEF IsDay
<1>10. DaysBefore(era, y, doy) = SinceMarch(days)
  BY SMTT(20), <1>1, <1>3, <1>6, <1>7, <1>8 DEF DaysBefore, SinceMarch
<1>11. Quotient(IF z >= 0 THEN z ELSE z - 146096, 146097) = era
  <2>1. z >= 0
    BY SMTT(20), <1>1
  <2>2. Quotient(z, 146097) = era
    BY SMTT(20), <1>1, <1>2, QuotientIs
  <2>3. QED
    BY SMTT(20), <2>1, <2>2
<1>12. 365 * y + Quotient(y, 4) - Quotient(y, 100) = Start(y)
  <2>1. y \in Nat
    BY SMTT(20), <1>5
  <2>2. Quotient(y, 4) = y \div 4
    BY SMTT(20), <2>1, QuotientIs
  <2>3. Quotient(y, 100) = y \div 100
    BY SMTT(20), <2>1, QuotientIs
  <2>4. QED
    BY <2>2, <2>3, Zenon DEF Start
<1>13. Quotient(5 * doy + 2, 153) = (5 * doy + 2) \div 153
  BY SMTT(20), <1>8, QuotientIs
<1>14. PICK index \in Nat : index = (5 * doy + 2) \div 153
  BY SMTT(20), <1>8
<1>15. Quotient(153 * index + 2, 5) = (153 * index + 2) \div 5
  BY SMTT(20), <1>14, QuotientIs
<1>16. Civil(days) = DateOf(era, y, doy)
  BY SMTT(20), <1>1, <1>3, <1>4, <1>6, <1>11, <1>12, <1>13, <1>14, <1>15
     DEF Civil, DateOf, DateIn, Date, YearIn, FirstDay, Index
<1>17. QED
  BY SMTT(20), <1>9, <1>10, <1>16

-----------------------------------------------------------------------------
(* The months *)

\* The three cases of Tomorrow.
LEMMA TomorrowIs ==
  ASSUME NEW y \in Nat, NEW m \in 1..12, NEW d \in Nat
  PROVE  /\ d < DaysIn(y, m) => Tomorrow(Date(y, m, d)) = Date(y, m, d + 1)
         /\ d = DaysIn(y, m) /\ m < 12 =>
              Tomorrow(Date(y, m, d)) = Date(y, m + 1, 1)
         /\ d = DaysIn(y, m) /\ m = 12 =>
              Tomorrow(Date(y, m, d)) = Date(y + 1, 1, 1)
<1>1. PICK given : given = Date(y, m, d)
  BY SMTT(20)
<1>2. /\ given = [year |-> y, month |-> m, day |-> d]
      /\ given.year = y /\ given.month = m /\ given.day = d
  BY SMTT(20), <1>1 DEF Date
<1>3. [given EXCEPT !.day = @ + 1] = Date(y, m, d + 1)
  BY SMTT(20), <1>2 DEF Date
<1>4. [given EXCEPT !.day = 1, !.month = @ + 1] = Date(y, m + 1, 1)
  <2>1. PICK first : first = [given EXCEPT !.day = 1]
    BY Zenon
  <2>2. first = [year |-> y, month |-> m, day |-> 1]
    BY SMTT(20), <1>2, <2>1
  <2>3. [given EXCEPT !.day = 1, !.month = @ + 1]
          = [first EXCEPT !.month = given.month + 1]
    BY <2>1, Zenon
  <2>4. [first EXCEPT !.month = given.month + 1] = Date(y, m + 1, 1)
    BY SMTT(20), <1>2, <2>2 DEF Date
  <2>5. QED
    BY <2>3, <2>4, Zenon
<1>5. CASE d < DaysIn(y, m)
  <2>1. Tomorrow(given) = [given EXCEPT !.day = @ + 1]
    BY SMTT(20), <1>2, <1>5 DEF Tomorrow
  <2>2. d # DaysIn(y, m)
    BY SMTT(20), <1>5 DEF DaysIn
  <2>3. QED
    BY <1>1, <1>3, <2>1, <2>2
<1>6. CASE d = DaysIn(y, m) /\ m < 12
  <2>1. ~ (d < DaysIn(y, m)) /\ m # 12
    BY SMTT(20), <1>6
  <2>2. Tomorrow(given) = [given EXCEPT !.day = 1, !.month = @ + 1]
    BY SMTT(20), <1>2, <1>6, <2>1 DEF Tomorrow
  <2>3. QED
    BY <1>1, <1>4, <2>1, <2>2
<1>7. CASE d = DaysIn(y, m) /\ m = 12
  <2>1. ~ (d < DaysIn(y, m)) /\ ~ (m < 12)
    BY SMTT(20), <1>7
  <2>2. Tomorrow(given) = [year |-> given.year + 1, month |-> 1, day |-> 1]
    BY SMTT(20), <1>2, <1>7, <2>1 DEF Tomorrow
  <2>3. QED
    BY <1>1, <1>2, <2>1, <2>2 DEF Date
<1>8. QED
  BY <1>5, <1>6, <1>7

\* doy is a day of month i.
DayOfMonth(doy, i) ==
  /\ i \in 0..11
  /\ 153 * i <= 5 * doy + 2 /\ 5 * doy + 2 < 153 * i + 153

\* Every day of a year is a day of one of its months.
LEMMA DateIs ==
  ASSUME NEW doy \in Nat, doy <= 365
  PROVE  \E i : /\ DayOfMonth(doy, i)
                /\ \A era, y : DateOf(era, y, doy) = DateIn(era, y, doy, i)
<1>1. PICK i \in Int : /\ i = Index(doy)
                       /\ 153 * i <= 5 * doy + 2 /\ 5 * doy + 2 < 153 * i + 153
  BY SMTT(20) DEF Index
<1>2. DayOfMonth(doy, i)
  BY SMTT(20), <1>1 DEF DayOfMonth
<1>3. ASSUME NEW era, NEW y PROVE DateOf(era, y, doy) = DateIn(era, y, doy, i)
  BY SMTT(20), <1>1 DEF DateOf
<1>4. QED
  BY <1>2, <1>3, Zenon

LEMMA FirstDays ==
  /\ FirstDay(0) = 0 /\ FirstDay(1) = 31 /\ FirstDay(2) = 61
  /\ FirstDay(3) = 92 /\ FirstDay(4) = 122 /\ FirstDay(5) = 153
  /\ FirstDay(6) = 184
  /\ FirstDay(7) = 214 /\ FirstDay(8) = 245 /\ FirstDay(9) = 275
  /\ FirstDay(10) = 306 /\ FirstDay(11) = 337 /\ FirstDay(12) = 367
BY SMTT(20) DEF FirstDay

\* The months of the calendar, counted from March.
LEMMA Months ==
  ASSUME NEW i \in 0..11
  PROVE  /\ Month(i) \in 1..12
         /\ Month(i) <= 2 <=> i >= 10
         /\ Month(i) = 12 <=> i = 9
         /\ i # 9 /\ i # 11 => Month(i + 1) = Month(i) + 1
         /\ i = 9 => Month(i + 1) = 1
         /\ i = 11 => Month(i) = 2
         /\ i = 0 => Month(i) = 3
BY SMTT(20) DEF Month

\* Their lengths.
LEMMA MonthLengths ==
  ASSUME NEW i \in 0..11, NEW year
  PROVE  DaysIn(year, Month(i)) =
           IF i # 11 THEN FirstDay(i + 1) - FirstDay(i)
           ELSE IF IsLeap(year) THEN 29 ELSE 28
BY SMTT(60), FirstDays DEF DaysIn, Month

\* A day of a month is not before its first day, and before the next one's.
LEMMA DayInMonth ==
  ASSUME NEW doy \in Nat, doy <= 365, NEW i, DayOfMonth(doy, i)
  PROVE  FirstDay(i) \in Nat /\ FirstDay(i + 1) \in Nat
         /\ FirstDay(i) <= doy /\ doy < FirstDay(i + 1)
BY SMTT(60), FirstDays DEF DayOfMonth

\* Every era has the same leap years.
LEMMA LeapEra ==
  ASSUME NEW y \in 0..399, NEW era \in Nat
  PROVE  IsLeap(YearIn(era, y, 2)) <=> IsLeap(y + 1)
BY SMTT(60) DEF IsLeap, YearIn

\* Within a year the day after a date is the date of the day after.
LEMMA TomorrowInYear ==
  ASSUME NEW era, NEW y, NEW doy, IsDay(era, y, doy), doy < 364 + Extra(y)
  PROVE  DateOf(era, y, doy + 1) = Tomorrow(DateOf(era, y, doy))
<1>1. /\ era \in Nat /\ y \in 0..399 /\ doy \in Nat /\ doy + 1 \in Nat
      /\ Extra(y) \in 0..1 /\ doy + 1 <= 365 /\ doy <= 365
  BY SMTT(20), StartBounds DEF IsDay
<1>2. PICK e \in Nat : e = doy + 1
  BY SMTT(20), <1>1
<1>3. PICK i : /\ DayOfMonth(doy, i)
               /\ DateOf(era, y, doy) = DateIn(era, y, doy, i)
  BY SMTT(20), <1>1, DateIs
<1>4. PICK j : DayOfMonth(e, j) /\ DateOf(era, y, e) = DateIn(era, y, e, j)
  BY SMTT(20), <1>1, <1>2, DateIs
<1>5. i \in 0..11 /\ j \in 0..11 /\ (j = i \/ j = i + 1)
  BY SMTT(20), <1>1, <1>2, <1>3, <1>4 DEF DayOfMonth
<1>6. /\ FirstDay(i) \in Nat /\ FirstDay(i + 1) \in Nat
      /\ FirstDay(i) <= doy /\ doy < FirstDay(i + 1)
  BY SMTT(20), <1>1, <1>3, DayInMonth
<1>7. /\ FirstDay(j) \in Nat /\ FirstDay(j) <= doy + 1
      /\ doy + 1 < FirstDay(j + 1)
  BY SMTT(20), <1>1, <1>2, <1>4, DayInMonth
<1>8. PICK year : year = YearIn(era, y, Month(i))
  BY SMTT(20)
<1>9. PICK d : d = doy - FirstDay(i) + 1
  BY SMTT(20)
<1>10. DateOf(era, y, doy) = Date(year, Month(i), d)
  BY SMTT(20), <1>3, <1>8, <1>9 DEF DateIn
<1>11. year \in Nat /\ d \in Nat /\ Month(i) \in 1..12 /\ Month(j) \in 1..12
  BY SMTT(20), <1>1, <1>5, <1>6, <1>8, <1>9, Months DEF YearIn
<1>12. i = 11 => d < DaysIn(year, Month(i))
  <2>1. SUFFICES ASSUME i = 11 PROVE d < DaysIn(year, Month(i))
    BY SMTT(20)
  <2>2. year = YearIn(era, y, 2)
    BY SMTT(20), <1>5, <1>8, <2>1, Months
  <2>3. IsLeap(year) <=> IsLeap(y + 1)
    BY SMTT(20), <1>1, <2>2, LeapEra
  <2>4. DaysIn(year, Month(i)) = 28 + Extra(y)
    BY SMTT(20), <1>5, <2>1, <2>3, MonthLengths DEF Extra
  <2>5. FirstDay(i) = 337
    BY SMTT(20), <2>1, FirstDays
  <2>6. QED
    BY SMTT(20), <1>1, <1>9, <2>4, <2>5
<1>13. i # 11 => DaysIn(year, Month(i)) = FirstDay(i + 1) - FirstDay(i)
  BY SMTT(20), <1>5, MonthLengths
<1>14. CASE j = i
  <2>1. d < DaysIn(year, Month(i))
    BY SMTT(20), <1>1, <1>6, <1>7, <1>9, <1>12, <1>13, <1>14
  <2>2. Tomorrow(DateOf(era, y, doy)) = Date(year, Month(i), d + 1)
    BY SMTT(20), <1>10, <1>11, <2>1, TomorrowIs
  <2>3. e - FirstDay(i) + 1 = d + 1
    BY SMTT(20), <1>1, <1>2, <1>6, <1>9
  <2>4. DateIn(era, y, e, i) = Date(year, Month(i), d + 1)
    BY <1>8, <2>3, Zenon DEF DateIn
  <2>5. QED
    BY <1>2, <1>4, <1>14, <2>2, <2>4, Zenon
<1>15. CASE j = i + 1
  <2>1. i # 11 /\ FirstDay(j) = doy + 1
    BY SMTT(20), <1>1, <1>5, <1>6, <1>7, <1>15
  <2>2. d = DaysIn(year, Month(i))
    BY SMTT(20), <1>1, <1>6, <1>9, <1>13, <1>15, <2>1
  <2>3. e - FirstDay(j) + 1 = 1
    BY SMTT(20), <1>1, <1>2, <2>1
  <2>4. CASE i = 9
    <3>1. Month(i) = 12 /\ Month(j) = 1 /\ year = y + era * 400
      BY SMTT(20), <1>1, <1>5, <1>8, <1>15, <2>4, Months DEF YearIn
    <3>2. Tomorrow(DateOf(era, y, doy)) = Date(year + 1, 1, 1)
      BY SMTT(20), <1>10, <1>11, <2>2, <3>1, TomorrowIs
    <3>3. YearIn(era, y, 1) = year + 1
      BY SMTT(20), <1>1, <3>1 DEF YearIn
    <3>4. DateIn(era, y, e, j) = Date(year + 1, 1, 1)
      <4>1. Month(j) = 1
        BY <3>1
      <4>2. QED
        BY <2>3, <3>3, <4>1, Zenon DEF DateIn
    <3>5. QED
      BY <1>2, <1>4, <3>2, <3>4, Zenon
  <2>5. CASE i # 9
    <3>1. Month(i) < 12 /\ Month(j) = Month(i) + 1
      BY SMTT(20), <1>5, <1>11, <1>15, <2>1, <2>5, Months
    <3>2. Tomorrow(DateOf(era, y, doy)) = Date(year, Month(i) + 1, 1)
      BY SMTT(20), <1>10, <1>11, <2>2, <3>1, TomorrowIs
    <3>3. Month(j) <= 2 <=> Month(i) <= 2
      BY SMTT(20), <1>5, <1>15, <2>1, <2>5, Months
    <3>4. YearIn(era, y, Month(j)) = year
      BY SMTT(20), <1>1, <1>8, <3>3 DEF YearIn
    <3>5. DateIn(era, y, e, j) = Date(year, Month(i) + 1, 1)
      BY <2>3, <3>1, <3>4, Zenon DEF DateIn
    <3>6. QED
      BY <1>2, <1>4, <3>2, <3>5, Zenon
  <2>6. QED
    BY <2>4, <2>5
<1>16. QED
  BY <1>5, <1>14, <1>15

\* The day after the last day of February is the first of March.
LEMMA TomorrowInMarch ==
  ASSUME NEW era, NEW y, NEW doy, IsDay(era, y, doy), doy = 364 + Extra(y),
         NEW era2, NEW y2, IsDay(era2, y2, 0),
         YearIn(era2, y2, 3) = YearIn(era, y, 2)
  PROVE  DateOf(era2, y2, 0) = Tomorrow(DateOf(era, y, doy))
<1>1. /\ era \in Nat /\ y \in 0..399 /\ doy \in Nat /\ doy <= 365
      /\ era2 \in Nat /\ y2 \in 0..399 /\ Extra(y) \in 0..1
  BY SMTT(20), StartBounds DEF IsDay
<1>2. PICK i : /\ DayOfMonth(doy, i)
               /\ DateOf(era, y, doy) = DateIn(era, y, doy, i)
  BY SMTT(20), <1>1, DateIs
<1>3. i = 11
  BY SMTT(20), <1>1, <1>2 DEF DayOfMonth
<1>4. PICK j : /\ DayOfMonth(0, j)
               /\ DateOf(era2, y2, 0) = DateIn(era2, y2, 0, j)
  BY SMTT(20), DateIs
<1>5. j = 0
  BY SMTT(20), <1>4 DEF DayOfMonth
<1>6. PICK year \in Nat : year = YearIn(era, y, 2)
  BY SMTT(20), <1>1 DEF YearIn
<1>7. DaysIn(year, 2) = 28 + Extra(y)
  <2>1. IsLeap(YearIn(era, y, 2)) <=> IsLeap(y + 1)
    BY SMTT(20), <1>1, LeapEra
  <2>2. QED
    BY SMTT(20), <1>6, <2>1 DEF DaysIn, Extra
<1>8. DateOf(era, y, doy) = Date(year, 2, 28 + Extra(y))
  <2>1. Month(i) = 2 /\ FirstDay(i) = 337
    BY SMTT(20), <1>3, Months, FirstDays
  <2>2. doy - FirstDay(i) + 1 = 28 + Extra(y)
    BY SMTT(20), <1>1, <2>1
  <2>3. QED
    BY SMTT(20), <1>2, <1>6, <2>1, <2>2 DEF DateIn
<1>9. Tomorrow(Date(year, 2, 28 + Extra(y))) = Date(year, 3, 1)
  <2>1. 28 + Extra(y) \in Nat /\ 2 \in 1..12 /\ 2 < 12 /\ 2 + 1 = 3
    BY SMTT(20), <1>1
  <2>2. QED
    BY SMTT(20), <1>7, <2>1, TomorrowIs
<1>10. DateOf(era2, y2, 0) = Date(year, 3, 1)
  <2>1. Month(j) = 3 /\ FirstDay(j) = 0
    BY SMTT(20), <1>5, Months, FirstDays
  <2>2. 0 - FirstDay(j) + 1 = 1
    BY SMTT(20), <2>1
  <2>3. QED
    BY SMTT(20), <1>4, <1>6, <2>1, <2>2 DEF DateIn
<1>11. QED
  BY <1>8, <1>9, <1>10

-----------------------------------------------------------------------------
(* The days *)

\* The date of the next day is the next date.
LEMMA CivilTomorrow ==
  ASSUME NEW days \in Nat
  PROVE  Civil(days + 1) = Tomorrow(Civil(days))
<1>1. PICK era, y, doy : /\ IsDay(era, y, doy)
                         /\ DaysBefore(era, y, doy) = SinceMarch(days)
                         /\ Civil(days) = DateOf(era, y, doy)
  BY SMTT(20), CivilIs
<1>2. days + 1 \in Nat
  BY SMTT(20)
<1>3. PICK era2, y2, doy2 : /\ IsDay(era2, y2, doy2)
                            /\ DaysBefore(era2, y2, doy2)
                                 = SinceMarch(days + 1)
                            /\ Civil(days + 1) = DateOf(era2, y2, doy2)
  BY <1>2, CivilIs, Zenon
<1>4. /\ era \in Nat /\ y \in 0..399 /\ doy \in Nat
      /\ doy <= 364 + Extra(y) /\ Extra(y) \in 0..1 /\ Start(y) \in Nat
  BY SMTT(20), <1>1, StartBounds DEF IsDay
<1>5. CASE doy < 364 + Extra(y)
  <2>1. IsDay(era, y, doy + 1)
    BY SMTT(20), <1>4, <1>5 DEF IsDay
  <2>2. DaysBefore(era, y, doy + 1) = DaysBefore(era2, y2, doy2)
    BY SMTT(20), <1>1, <1>3, <1>4 DEF DaysBefore, SinceMarch
  <2>3. era2 = era /\ y2 = y /\ doy2 = doy + 1
    BY <1>3, <2>1, <2>2, DayUnique, Zenon
  <2>4. QED
    BY <1>1, <1>3, <1>5, <2>3, TomorrowInYear, Zenon
<1>6. CASE doy = 364 + Extra(y) /\ y < 399
  <2>1. y + 1 \in 0..399 /\ Start(y + 1) = Start(y) + 365 + Extra(y)
    BY SMTT(20), <1>4, <1>6, StartNext
  <2>2. IsDay(era, y + 1, 0)
    BY SMTT(20), <1>4, <2>1, StartBounds DEF IsDay
  <2>3. DaysBefore(era, y + 1, 0) = DaysBefore(era2, y2, doy2)
    BY SMTT(20), <1>1, <1>3, <1>4, <1>6, <2>1 DEF DaysBefore, SinceMarch
  <2>4. era2 = era /\ y2 = y + 1 /\ doy2 = 0
    BY <1>3, <2>2, <2>3, DayUnique, Zenon
  <2>5. YearIn(era, y + 1, 3) = YearIn(era, y, 2)
    BY SMTT(20), <1>4 DEF YearIn
  <2>6. QED
    BY SMTT(20), <1>1, <1>3, <1>6, <2>2, <2>4, <2>5, TomorrowInMarch
<1>7. CASE doy = 364 + Extra(y) /\ y = 399
  <2>1. Start(y) = 145731 /\ Extra(y) = 1 /\ Start(0) = 0 /\ Extra(0) \in 0..1
    BY SMTT(20), <1>4, <1>7, StartBounds
  <2>2. IsDay(era + 1, 0, 0)
    BY SMTT(20), <1>4, <2>1 DEF IsDay
  <2>3. DaysBefore(era + 1, 0, 0) = DaysBefore(era2, y2, doy2)
    BY SMTT(20), <1>1, <1>3, <1>4, <1>7, <2>1 DEF DaysBefore, SinceMarch
  <2>4. era2 = era + 1 /\ y2 = 0 /\ doy2 = 0
    BY SMTT(20), <1>3, <2>2, <2>3, DayUnique
  <2>5. YearIn(era + 1, 0, 3) = YearIn(era, y, 2)
    BY SMTT(20), <1>4, <1>7 DEF YearIn
  <2>6. QED
    BY SMTT(20), <1>1, <1>3, <1>7, <2>2, <2>4, <2>5, TomorrowInMarch
<1>8. QED
  BY SMTT(20), <1>4, <1>5, <1>6, <1>7

\* It is a date.
LEMMA CivilIsDate == ASSUME NEW days \in Nat PROVE Civil(days) \in Dates
<1>1. PICK era, y, doy : /\ IsDay(era, y, doy)
                         /\ Civil(days) = DateOf(era, y, doy)
  BY SMTT(20), CivilIs
<1>2. /\ era \in Nat /\ y \in 0..399 /\ doy \in Nat /\ doy <= 365
  BY SMTT(20), <1>1, StartBounds DEF IsDay
<1>3. PICK i : /\ DayOfMonth(doy, i)
               /\ DateOf(era, y, doy) = DateIn(era, y, doy, i)
  BY SMTT(20), <1>2, DateIs
<1>4. /\ i \in 0..11 /\ FirstDay(i) \in Nat /\ FirstDay(i) <= doy
      /\ doy < FirstDay(i + 1)
  <2>1. i \in 0..11
    BY SMTT(20), <1>3 DEF DayOfMonth
  <2>2. QED
    BY SMTT(20), <1>2, <1>3, <2>1, DayInMonth
<1>5. FirstDay(i + 1) - FirstDay(i) <= 31
  BY SMTT(20), <1>4, FirstDays
<1>6. Month(i) \in 1..12
  BY SMTT(20), <1>4, Months
<1>7. FirstDay(i + 1) \in Nat
  BY SMTT(20), <1>4, FirstDays
<1>8. QED
  BY SMTT(20), <1>1, <1>2, <1>3, <1>4, <1>5, <1>6, <1>7
     DEF DateIn, YearIn, Date, Dates

-----------------------------------------------------------------------------
(* The clock *)

\* The time of day of a second.
TimeOf(s) == [hour |-> s \div 3600, minute |-> Minute(s), second |-> s % 60]

Clock(h, m, c) == [hour |-> h, minute |-> m, second |-> c]

IsSecond(s) == s \in Nat /\ s <= LastSecond

IsTime(s, h, m, c) ==
  /\ h \in 0..23 /\ m \in 0..59 /\ c \in 0..59
  /\ s = 3600 * h + 60 * m + c

\* Hour, minute and second are the ones that make up the second.
LEMMA TimeIs ==
  ASSUME NEW s, IsSecond(s)
  PROVE  \E h, m, c : IsTime(s, h, m, c) /\ TimeOf(s) = Clock(h, m, c)
<1>1. s \in Nat /\ s <= 86399
  BY SMTT(20) DEF IsSecond, LastSecond
<1>2. PICK h \in Int : h = s \div 3600 /\ 3600 * h <= s /\ s < 3600 * h + 3600
  BY SMTT(20), <1>1
<1>3. PICK r \in Int : r = s % 3600 /\ r = s - 3600 * h
  BY SMTT(20), <1>1, <1>2
<1>4. PICK m \in Int : m = r \div 60 /\ 60 * m <= r /\ r < 60 * m + 60
  BY SMTT(20), <1>3
<1>5. PICK c \in Int : c = s % 60 /\ c = r - 60 * m
  BY SMTT(20), <1>1, <1>2, <1>3, <1>4
<1>6. h \in 0..23 /\ m \in 0..59 /\ c \in 0..59
  BY SMTT(20), <1>1, <1>2, <1>3, <1>4, <1>5
<1>7. s = 3600 * h + 60 * m + c
  BY SMTT(20), <1>1, <1>3, <1>5
<1>8. TimeOf(s) = Clock(h, m, c)
  BY SMTT(20), <1>2, <1>3, <1>4, <1>5 DEF TimeOf, Minute, Clock
<1>9. IsTime(s, h, m, c)
  BY SMTT(20), <1>6, <1>7 DEF IsTime
<1>10. QED
  BY <1>8, <1>9, Zenon

\* It is a time of day.
LEMMA TimeIsTime == ASSUME NEW s, IsSecond(s) PROVE TimeOf(s) \in Times
<1>1. PICK h, m, c : IsTime(s, h, m, c) /\ TimeOf(s) = Clock(h, m, c)
  BY TimeIs, Zenon
<1>2. QED
  BY SMTT(20), <1>1 DEF IsTime, Clock, Times

\* The four cases of Later.
LEMMA LaterIs ==
  ASSUME NEW h \in 0..23, NEW m \in 0..59, NEW c \in 0..59
  PROVE  /\ c < 59 => Later(Clock(h, m, c)) = Clock(h, m, c + 1)
         /\ c = 59 /\ m < 59 => Later(Clock(h, m, c)) = Clock(h, m + 1, 0)
         /\ c = 59 /\ m = 59 /\ h < 23 =>
              Later(Clock(h, m, c)) = Clock(h + 1, 0, 0)
         /\ c = 59 /\ m = 59 /\ h = 23 =>
              Later(Clock(h, m, c)) = Clock(0, 0, 0)
<1>1. PICK t : t = Clock(h, m, c)
  BY Zenon
<1>2. /\ t = [hour |-> h, minute |-> m, second |-> c]
      /\ t.hour = h /\ t.minute = m /\ t.second = c
  BY SMTT(20), <1>1 DEF Clock
<1>3. CASE c < 59
  <2>1. Later(t) = [t EXCEPT !.second = @ + 1]
    BY SMTT(20), <1>2, <1>3 DEF Later
  <2>2. [t EXCEPT !.second = @ + 1] = Clock(h, m, c + 1)
    BY SMTT(20), <1>2 DEF Clock
  <2>3. c # 59
    BY SMTT(20), <1>3
  <2>4. QED
    BY <1>1, <2>1, <2>2, <2>3
<1>4. CASE c = 59 /\ m < 59
  <2>1. t.second = 59 /\ t.minute < 59 /\ ~ (t.second < 59)
    BY SMTT(20), <1>2, <1>4
  <2>2. Later(t) = [t EXCEPT !.second = 0, !.minute = @ + 1]
    BY SMTT(20), <2>1 DEF Later
  <2>3. PICK whole : whole = [t EXCEPT !.second = 0]
    BY Zenon
  <2>4. whole = [hour |-> h, minute |-> m, second |-> 0]
    BY SMTT(20), <1>2, <2>3
  <2>5. [t EXCEPT !.second = 0, !.minute = @ + 1]
          = [whole EXCEPT !.minute = t.minute + 1]
    BY <2>3, Zenon
  <2>6. [whole EXCEPT !.minute = t.minute + 1] = Clock(h, m + 1, 0)
    BY SMTT(20), <1>2, <2>4 DEF Clock
  <2>7. Later(Clock(h, m, c)) = Clock(h, m + 1, 0)
    BY <1>1, <2>2, <2>5, <2>6, Zenon
  <2>8. ~ (c < 59) /\ m # 59
    BY SMTT(20), <1>4
  <2>9. QED
    BY <2>7, <2>8, Zenon
<1>5. CASE c = 59 /\ m = 59
  <2>1. Later(t) = [hour |-> (h + 1) % 24, minute |-> 0, second |-> 0]
    BY SMTT(20), <1>2, <1>5 DEF Later
  <2>2. /\ h < 23 => (h + 1) % 24 = h + 1
        /\ h = 23 => (h + 1) % 24 = 0
    BY SMTT(20)
  <2>3. ~ (c < 59) /\ ~ (m < 59)
    BY SMTT(20), <1>5
  <2>4. /\ h < 23 => Later(t) = Clock(h + 1, 0, 0)
        /\ h = 23 => Later(t) = Clock(0, 0, 0)
    BY <2>1, <2>2, Zenon DEF Clock
  <2>5. QED
    BY <1>1, <2>3, <2>4, Zenon
<1>6. QED
  BY SMTT(20), <1>3, <1>4, <1>5

\* A second later it is the time of the next second.
LEMMA TimeLater ==
  ASSUME NEW s, IsSecond(s), IsSecond(s + 1)
  PROVE  TimeOf(s + 1) = Later(TimeOf(s))
<1>1. PICK h, m, c : IsTime(s, h, m, c) /\ TimeOf(s) = Clock(h, m, c)
  BY TimeIs, Zenon
<1>2. PICK h2, m2, c2 :
        IsTime(s + 1, h2, m2, c2) /\ TimeOf(s + 1) = Clock(h2, m2, c2)
  BY TimeIs, Zenon
<1>3. h \in 0..23 /\ m \in 0..59 /\ c \in 0..59
  BY SMTT(20), <1>1 DEF IsTime
<1>4. h2 \in 0..23 /\ m2 \in 0..59 /\ c2 \in 0..59
  BY SMTT(20), <1>2 DEF IsTime
<1>5. 3600 * h2 + 60 * m2 + c2 = 3600 * h + 60 * m + c + 1
  BY SMTT(20), <1>1, <1>2 DEF IsTime
<1>6. CASE c < 59
  <2>1. h2 = h /\ m2 = m /\ c2 = c + 1
    BY SMTT(20), <1>3, <1>4, <1>5, <1>6
  <2>2. Later(Clock(h, m, c)) = Clock(h, m, c + 1)
    BY <1>3, <1>6, LaterIs, Zenon
  <2>3. QED
    BY <1>1, <1>2, <2>1, <2>2, Zenon
<1>7. CASE c = 59 /\ m < 59
  <2>1. h2 = h /\ m2 = m + 1 /\ c2 = 0
    BY SMTT(20), <1>3, <1>4, <1>5, <1>7
  <2>2. Later(Clock(h, m, c)) = Clock(h, m + 1, 0)
    BY <1>3, <1>7, LaterIs, Zenon
  <2>3. QED
    BY <1>1, <1>2, <2>1, <2>2, Zenon
<1>8. CASE c = 59 /\ m = 59
  <2>1. h2 = h + 1 /\ m2 = 0 /\ c2 = 0 /\ h < 23
    BY SMTT(20), <1>3, <1>4, <1>5, <1>8
  <2>2. Later(Clock(h, m, c)) = Clock(h + 1, 0, 0)
    BY <1>3, <1>8, <2>1, LaterIs, Zenon
  <2>3. QED
    BY <1>1, <1>2, <2>1, <2>2, Zenon
<1>9. QED
  BY SMTT(20), <1>3, <1>6, <1>7, <1>8

\* After the last second of a day it is midnight.
LEMMA Midnight ==
  TimeOf(0) = Clock(0, 0, 0) /\ Later(TimeOf(LastSecond)) = TimeOf(0)
<1>1. TimeOf(0) = Clock(0, 0, 0)
  BY SMTT(20) DEF TimeOf, Minute, Clock
<1>2. TimeOf(LastSecond) = Clock(23, 59, 59)
  BY SMTT(20) DEF TimeOf, Minute, Clock, LastSecond
<1>3. Later(Clock(23, 59, 59)) = Clock(0, 0, 0)
  <2>1. 23 \in 0..23 /\ 59 \in 0..59
    BY SMTT(20)
  <2>2. QED
    BY <2>1, LaterIs, Zenon
<1>4. QED
  BY <1>1, <1>2, <1>3, Zenon

\* The first day of all.
LEMMA Epoch == Civil(0) = Date(1970, 1, 1)
<1>1. PICK era, y, doy : /\ IsDay(era, y, doy)
                         /\ DaysBefore(era, y, doy) = SinceMarch(0)
                         /\ Civil(0) = DateOf(era, y, doy)
  BY SMTT(20), CivilIs
<1>2. IsDay(4, 369, 306)
  BY SMTT(20) DEF IsDay, Extra, IsLeap
<1>3. DaysBefore(4, 369, 306) = SinceMarch(0)
  BY SMTT(20) DEF DaysBefore, Start, SinceMarch
<1>4. era = 4 /\ y = 369 /\ doy = 306
  BY SMTT(20), <1>1, <1>2, <1>3, DayUnique
<1>5. DateOf(4, 369, 306) = Date(1970, 1, 1)
  BY SMTT(20) DEF DateOf, DateIn, YearIn, FirstDay, Index, Month, Date
<1>6. QED
  BY SMTT(20), <1>1, <1>4, <1>5

-----------------------------------------------------------------------------
(* The theorems *)

\* The inductive invariant: calendar and clock show the day and the second
\* that have been reached, and so does the timestamp.
Turning ==
  /\ day \in Nat /\ day <= MaxDay
  /\ IsSecond(second)
  /\ day \notin Watched => second = 0
  /\ date = Civil(day)
  /\ time = TimeOf(second)
  /\ shown = [date |-> date, time |-> time]

LEMMA ShownIs ==
  ASSUME NEW d, NEW s
  PROVE  Shown(d, s) = [date |-> Civil(d), time |-> TimeOf(s)]
BY SMTT(20) DEF Shown, TimeOf

LEMMA InitTurning == Init => Turning
<1>1. SUFFICES ASSUME Init PROVE Turning
  OBVIOUS
<1>2. IsSecond(0) /\ day \in Nat /\ day <= MaxDay
  BY SMTT(20), <1>1, CalendarAssumption DEF Init, IsSecond, LastSecond
<1>3. day = 0 /\ second = 0 /\ shown = Shown(0, 0)
  BY SMTT(20), <1>1 DEF Init
<1>4. date = Date(1970, 1, 1) /\ time = Clock(0, 0, 0)
  BY SMTT(20), <1>1 DEF Init, Date, Clock
<1>5. date = Civil(0) /\ time = TimeOf(0)
  BY SMTT(20), <1>4, Epoch, Midnight
<1>6. shown = [date |-> date, time |-> time]
  BY <1>3, <1>5, ShownIs, Zenon
<1>7. QED
  BY <1>2, <1>3, <1>5, <1>6, Zenon DEF Turning

LEMMA NextSecondTurning == Turning /\ NextSecond => Turning'
<1>1. SUFFICES ASSUME Turning, NextSecond PROVE Turning'
  OBVIOUS
<1>2. /\ day \in Watched
      /\ second' = second + 1 /\ time' = Later(time)
      /\ shown' = Shown(day, second')
      /\ day' = day /\ date' = date
  BY SMTT(20), <1>1 DEF NextSecond
<1>3. IsSecond(second + 1)
  BY SMTT(20), <1>1 DEF Turning, IsSecond, LastSecond, NextSecond
<1>4. PICK s : s = second
  BY Zenon
<1>5. IsSecond(s) /\ IsSecond(s + 1) /\ time = TimeOf(s) /\ second' = s + 1
  BY SMTT(20), <1>1, <1>2, <1>3, <1>4 DEF Turning
<1>6. time' = TimeOf(second')
  BY SMTT(20), <1>2, <1>5, TimeLater
<1>7. date' = Civil(day')
  BY SMTT(20), <1>1, <1>2 DEF Turning
<1>8. shown' = [date |-> date', time |-> time']
  BY SMTT(20), <1>2, <1>6, <1>7, ShownIs
<1>9. QED
  BY SMTT(20), <1>1, <1>2, <1>3, <1>6, <1>7, <1>8 DEF Turning

LEMMA NextDayTurning == Turning /\ NextDay => Turning'
<1>1. SUFFICES ASSUME Turning, NextDay PROVE Turning'
  OBVIOUS
<1>2. /\ day' = day + 1 /\ second' = 0 /\ date' = Tomorrow(date)
      /\ time' = IF day \in Watched THEN Later(time) ELSE time
      /\ shown' = Shown(day', 0)
  BY SMTT(20), <1>1 DEF NextDay
<1>3. day \in Watched => second = LastSecond
  BY SMTT(20), <1>1 DEF NextDay, LastSecond
<1>4. day \in Nat /\ day + 1 \in Nat /\ day + 1 <= MaxDay /\ IsSecond(0)
  BY SMTT(20), <1>1, CalendarAssumption
     DEF Turning, NextDay, IsSecond, LastSecond
<1>5. time' = TimeOf(0)
  <2>1. CASE day \in Watched
    BY SMTT(20), <1>1, <1>2, <1>3, <2>1, Midnight DEF Turning
  <2>2. CASE day \notin Watched
    BY SMTT(20), <1>1, <1>2, <2>2 DEF Turning
  <2>3. QED
    BY SMTT(20), <2>1, <2>2
<1>6. date' = Civil(day + 1)
  BY SMTT(20), <1>1, <1>2, <1>4, CivilTomorrow DEF Turning
<1>7. shown' = [date |-> date', time |-> time']
  BY SMTT(20), <1>2, <1>5, <1>6, ShownIs
<1>8. QED
  BY SMTT(20), <1>2, <1>4, <1>5, <1>6, <1>7 DEF Turning

LEMMA NextTurning == Turning /\ [Next]_vars => Turning'
<1>1. Turning /\ UNCHANGED vars => Turning'
  BY SMTT(20) DEF Turning, vars
<1>2. QED
  BY SMTT(20), <1>1, NextSecondTurning, NextDayTurning DEF Next

\* Calendar, clock and timestamp are at the same moment (mqtt.rs:907-932).
THEOREM ClockAndCalendar == Spec => []Turning
BY InitTurning, NextTurning, PTL DEF Spec

\* What the arithmetic computes is a month 1 to 12, a day 1 to 31 and a time of
\* day, of every moment from the epoch on (mqtt.rs:907-932).
THEOREM TypeCorrect == Spec => []TypeOK
<1>1. Turning => TypeOK
  <2>1. SUFFICES ASSUME Turning PROVE TypeOK
    OBVIOUS
  <2>2. day \in 0..MaxDay
    BY SMTT(20), <2>1, CalendarAssumption DEF Turning
  <2>3. second \in 0..LastSecond
    <3>1. LastSecond \in Nat
      BY SMTT(20) DEF LastSecond
    <3>2. QED
      BY SMTT(20), <2>1, <3>1 DEF Turning, IsSecond
  <2>4. date \in Dates /\ time \in Times
    BY SMTT(20), <2>1, CivilIsDate, TimeIsTime DEF Turning
  <2>5. shown \in [date : Dates, time : Times]
    BY SMTT(20), <2>1, <2>4 DEF Turning
  <2>6. QED
    BY SMTT(20), <2>2, <2>3, <2>4, <2>5 DEF TypeOK
<1>2. QED
  BY <1>1, ClockAndCalendar, PTL

\* The timestamp that is published is the date and the time of the reference
\* calendar, for every day and every second from the epoch on
\* (mqtt.rs:907-932).
THEOREM TimestampsCorrect == Spec => []ShownIsDate
<1>1. Turning => ShownIsDate
  BY SMTT(20) DEF Turning, ShownIsDate
<1>2. QED
  BY <1>1, ClockAndCalendar, PTL
=============================================================================
