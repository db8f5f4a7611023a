------------------------------ MODULE Calendar ------------------------------
(***************************************************************************)
(* Dates, as Python's datetime and calendar count them, and what the       *)
(* program does with them: adding months (review.py) and reading the due   *)
(* and defer dates a user types (dateparse.py).  Times of day are left     *)
(* out: a date that is typed stands for 19:00 of that day, and a review    *)
(* falls due at the time of day of the one before.                         *)
(***************************************************************************)
EXTENDS Integers

Date(y, m, d) == [y |-> y, m |-> m, d |-> d]

IsLeap(y) == y % 4 = 0 /\ (y % 100 = 0 => y % 400 = 0)

MonthLength(y, m) ==
    IF m = 2 THEN IF IsLeap(y) THEN 29 ELSE 28 ELSE IF m \in {4, 6, 9, 11} THEN 30 ELSE 31

IsDate(x) == x.m \in 1..12 /\ x.d \in 1..MonthLength(x.y, x.m)

\* The days before the first of the month, in a year that is not leap.
DaysBefore == <<0, 31, 59, 90, 120, 151, 181, 212, 243, 273, 304, 334>>

\* The first of January of the year 1 is day 1, and a Monday.
DayNumber(x) ==
    LET y == x.y - 1
    IN  365 * y + (y \div 4) - (y \div 100) + (y \div 400)
          + DaysBefore[x.m] + (IF x.m > 2 /\ IsLeap(x.y) THEN 1 ELSE 0) + x.d

Weekday(x) == (DayNumber(x) + 6) % 7     \* Monday is 0

NextDay(x) ==
    IF x.d < MonthLength(x.y, x.m) THEN [x EXCEPT !.d = @ + 1]
    ELSE IF x.m < 12 THEN Date(x.y, x.m + 1, 1)
    ELSE Date(x.y + 1, 1, 1)

AddDays(x, n) ==
    LET after[k \in 0..n] == IF k = 0 THEN x ELSE NextDay(after[k - 1])
    IN  after[n]

-----------------------------------------------------------------------------
\* Mutant: the day is bounded by the month it comes from.
AddMonthsFrom(x, n) ==
    LET index == x.m - 1 + n
        year == x.y + (index \div 12)
        month == (index % 12) + 1
        last == MonthLength(x.y, x.m)
    IN  Date(year, month, IF x.d <= last THEN x.d ELSE last)

\* Mutant: the length of the month is that of the year it is counted from.
AddMonthsInYear(x, n) ==
    LET month == ((x.m - 1 + n) % 12) + 1
        last == MonthLength(x.y, month)
    IN  Date(x.y + (x.m - 1 + n) \div 12, month, IF x.d <= last THEN x.d ELSE last)

\* The day is bounded by the length of the month it falls into.
AddMonths(x, n) ==
    LET index == x.m - 1 + n
        year == x.y + (index \div 12)
        month == (index % 12) + 1
        last == MonthLength(year, month)
    IN  Date(year, month, IF x.d <= last THEN x.d ELSE last)

-----------------------------------------------------------------------------
(* What a user may type: a word, a weekday, a date, or a month and a day.  *)

Rejected == Date(0, 0, 0)

Checked(x) == IF IsDate(x) THEN x ELSE Rejected

\* Mutant: the weekday of today is today.
ParseDueToday(today, value) ==
    CASE value.kind = "today" -> today
      [] value.kind = "tomorrow" -> AddDays(today, 1)
      [] value.kind = "weekday" -> AddDays(today, (value.weekday - Weekday(today)) % 7)
      [] value.kind = "date" -> Checked(Date(value.y, value.m, value.d))
      [] value.kind = "monthday" -> Checked(Date(today.y, value.m, value.d))
      [] OTHER -> Rejected

\* A weekday is the next one after today.
ParseDue(today, value) ==
    LET ahead == (value.weekday - Weekday(today)) % 7
    IN  CASE value.kind = "today" -> today
          [] value.kind = "tomorrow" -> AddDays(today, 1)
          [] value.kind = "weekday" -> AddDays(today, IF ahead = 0 THEN 7 ELSE ahead)
          [] value.kind = "date" -> Checked(Date(value.y, value.m, value.d))
          [] value.kind = "monthday" -> Checked(Date(today.y, value.m, value.d))
          [] OTHER -> Rejected
=============================================================================
