--------------------------- MODULE Review_proofs ----------------------------
(***************************************************************************)
(* The calendar is exact for every date and every number of days or        *)
(* months, and so are the dates of the reviews that are counted with it;   *)
(* and the review queue, however many projects there are and wherever it   *)
(* is cut off, begins with what is due.                                    *)
(***************************************************************************)
EXTENDS Review, FiniteSetTheorems, WellFoundedInduction, TLAPS

-----------------------------------------------------------------------------
(* Months. *)

\* Any pair of whole numbers has a quotient and a remainder by twelve.
LEMMA Twelfths ==
  ASSUME NEW k \in Int
  PROVE  k \div 12 \in Int /\ k % 12 \in 0..11 /\ k = 12 * (k \div 12) + (k % 12)
<1> QED OBVIOUS

\* Months have at least 28 days and at most 31.
LEMMA MonthLengths ==
  ASSUME NEW y \in Int, NEW m \in 1..12
  PROVE  MonthLength(y, m) \in 28..31
<1> QED BY DEF MonthLength

\* What _add_months (review.py:149) promises of every date and every number of
\* months: the date it returns exists, is that many months later, and is the
\* last day of its month wherever it is not the same day of the month.
THEOREM AddMonthsIsExact ==
  ASSUME NEW y \in Int, NEW m \in 1..12, NEW d \in 1..MonthLength(y, m), NEW n \in Nat
  PROVE  LET after == AddMonths(Date(y, m, d), n)
         IN  /\ IsDate(after)
             /\ 12 * after.y + after.m = 12 * y + m + n
             /\ after.d <= d
             /\ after.d = d \/ after.d = MonthLength(after.y, after.m)
<1> DEFINE index == m - 1 + n
           year == y + (index \div 12)
           month == (index % 12) + 1
           last == MonthLength(year, month)
           day == IF d <= last THEN d ELSE last
<1>1. index \in Int /\ index \div 12 \in Int /\ index % 12 \in 0..11
      /\ index = 12 * (index \div 12) + (index % 12)
  BY Twelfths
<1>2. AddMonths(Date(y, m, d), n) = Date(year, month, day)
  BY DEF AddMonths, Date
<1> HIDE DEF index
<1>3. year \in Int /\ month \in 1..12 /\ last \in 28..31
  BY <1>1, MonthLengths
<1>4. 12 * year + month = 12 * y + m + n
  BY <1>1 DEF index
<1>5. d \in Int /\ d >= 1
  BY MonthLengths
<1> HIDE DEF year, month, last
<1>6. day \in 1..last /\ day <= d /\ (day = d \/ day = last)
  BY <1>3, <1>5
<1> HIDE DEF day
<1>7. last = MonthLength(year, month)
  BY DEF last
<1> QED BY <1>2, <1>3, <1>4, <1>6, <1>7 DEF Date, IsDate

-----------------------------------------------------------------------------
(* Days. *)

\* A day of the calendar.
IsDay(x) == x = Date(x.y, x.m, x.d) /\ x.y \in Int /\ IsDate(x)

Leap(y) == IF IsLeap(y) THEN 1 ELSE 0

\* The days before a year, and in a year before a month.
Before(y) == 365 * (y - 1) + ((y - 1) \div 4) - ((y - 1) \div 100) + ((y - 1) \div 400)
Offset(y, m) == DaysBefore[m] + IF m > 2 THEN Leap(y) ELSE 0

LEMMA YearLength ==
  ASSUME NEW y \in Int
  PROVE  Before(y) \in Int /\ Before(y + 1) = Before(y) + 365 + Leap(y)
<1>1. y \div 4 = ((y - 1) \div 4) + IF y % 4 = 0 THEN 1 ELSE 0
  OBVIOUS
<1>2. y \div 100 = ((y - 1) \div 100) + IF y % 100 = 0 THEN 1 ELSE 0
  OBVIOUS
<1>3. y \div 400 = ((y - 1) \div 400) + IF y % 400 = 0 THEN 1 ELSE 0
  OBVIOUS
<1>4. (y % 100 = 0 => y % 4 = 0) /\ (y % 400 = 0 => y % 100 = 0)
  OBVIOUS
<1>5. Leap(y) = (IF y % 4 = 0 THEN 1 ELSE 0) - (IF y % 100 = 0 THEN 1 ELSE 0) + (IF y % 400 = 0 THEN 1 ELSE 0)
  BY <1>4 DEF Leap, IsLeap
<1>6. (y + 1) - 1 = y
  OBVIOUS
<1> QED BY <1>1, <1>2, <1>3, <1>5, <1>6 DEF Before

LEMMA MonthOffsets ==
  ASSUME NEW y \in Int
  PROVE  /\ Offset(y, 1) = 0 /\ Offset(y, 12) + MonthLength(y, 12) = 365 + Leap(y)
         /\ \A m \in 1..12 : Offset(y, m) \in Nat
         /\ \A m \in 1..12, k \in 1..12 : m < k => Offset(y, m) + MonthLength(y, m) <= Offset(y, k)
         /\ \A m \in 1..11 : Offset(y, m + 1) = Offset(y, m) + MonthLength(y, m)
<1>1. Leap(y) \in {0, 1} /\ Leap(y) = IF IsLeap(y) THEN 1 ELSE 0
  BY DEF Leap
<1>2. /\ DaysBefore[1] = 0 /\ DaysBefore[2] = 31 /\ DaysBefore[3] = 59 /\ DaysBefore[4] = 90
      /\ DaysBefore[5] = 120 /\ DaysBefore[6] = 151 /\ DaysBefore[7] = 181 /\ DaysBefore[8] = 212
      /\ DaysBefore[9] = 243 /\ DaysBefore[10] = 273 /\ DaysBefore[11] = 304 /\ DaysBefore[12] = 334
  BY DEF DaysBefore
<1>3. Offset(y, 1) = 0 /\ Offset(y, 12) + MonthLength(y, 12) = 365 + Leap(y)
  BY <1>1, <1>2 DEF Offset, MonthLength
<1>4. \A m \in 1..12 : Offset(y, m) \in Nat
  BY <1>1, <1>2 DEF Offset
<1>5. \A m \in 1..11 : Offset(y, m + 1) = Offset(y, m) + MonthLength(y, m)
  BY <1>1, <1>2 DEF Offset, MonthLength
<1>6. \A m \in 1..12, k \in 1..12 : m < k => Offset(y, m) + MonthLength(y, m) <= Offset(y, k)
  BY <1>1, <1>2 DEF Offset, MonthLength
<1> QED BY <1>3, <1>4, <1>5, <1>6

LEMMA DayNumberIs ==
  ASSUME NEW x, x.y \in Int, x.m \in 1..12, x.d \in Int
  PROVE  /\ DayNumber(x) = Before(x.y) + Offset(x.y, x.m) + x.d
         /\ Before(x.y) \in Int /\ Offset(x.y, x.m) \in Nat
<1>1. Before(x.y) \in Int /\ Offset(x.y, x.m) \in Nat
  BY YearLength, MonthOffsets
<1>2. DaysBefore[x.m] \in Int
  BY DEF DaysBefore
<1>3. DayNumber(x) = 365 * (x.y - 1) + ((x.y - 1) \div 4) - ((x.y - 1) \div 100) + ((x.y - 1) \div 400)
                        + DaysBefore[x.m] + (IF x.m > 2 /\ IsLeap(x.y) THEN 1 ELSE 0) + x.d
  BY DEF DayNumber
<1>4. (IF x.m > 2 /\ IsLeap(x.y) THEN 1 ELSE 0) = (IF x.m > 2 THEN Leap(x.y) ELSE 0) /\ Leap(x.y) \in Int
  BY DEF Leap
<1> HIDE DEF DaysBefore
<1>5. DayNumber(x) = Before(x.y) + Offset(x.y, x.m) + x.d
  BY <1>2, <1>3, <1>4 DEF Before, Offset
<1> QED BY <1>1, <1>5

\* Every date has the next one after it.
LEMMA NextDayIsNext ==
  ASSUME NEW x, IsDay(x)
  PROVE  IsDay(NextDay(x)) /\ DayNumber(NextDay(x)) = DayNumber(x) + 1
<1> DEFINE y == x.y
           m == x.m
           d == x.d
<1>1. y \in Int /\ m \in 1..12 /\ d \in 1..MonthLength(y, m) /\ MonthLength(y, m) \in 28..31
  BY MonthLengths DEF IsDay, IsDate
<1>2. d \in Int /\ 1 <= d /\ d <= MonthLength(y, m)
  BY <1>1
<1>3. DayNumber(x) = Before(y) + Offset(y, m) + d /\ Before(y) \in Int /\ Offset(y, m) \in Int
  BY <1>1, <1>2, DayNumberIs
<1>4. CASE d < MonthLength(y, m)
  <2>1. NextDay(x) = Date(y, m, d + 1)
    BY <1>4 DEF NextDay, IsDay, Date
  <2>2. DayNumber(NextDay(x)) = Before(y) + Offset(y, m) + (d + 1)
    BY <1>1, <1>2, <2>1, DayNumberIs DEF Date
  <2> QED BY <1>1, <1>2, <1>3, <1>4, <2>1, <2>2 DEF IsDay, IsDate, Date
<1>5. CASE ~(d < MonthLength(y, m)) /\ m < 12
  <2>1. NextDay(x) = Date(y, m + 1, 1) /\ m + 1 \in 1..12 /\ m \in 1..11
    BY <1>1, <1>5 DEF NextDay
  <2>2. MonthLength(y, m + 1) \in 28..31
    BY <1>1, <2>1, MonthLengths
  <2>3. DayNumber(NextDay(x)) = Before(y) + Offset(y, m + 1) + 1
    BY <1>1, <2>1, DayNumberIs DEF Date
  <2>4. d = MonthLength(y, m)
    BY <1>1, <1>2, <1>5
  <2>5. Offset(y, m + 1) = Offset(y, m) + MonthLength(y, m)
    BY <1>1, <2>1, MonthOffsets
  <2>6. DayNumber(NextDay(x)) = DayNumber(x) + 1
    BY <1>1, <1>2, <1>3, <2>3, <2>4, <2>5
  <2> QED BY <1>1, <2>1, <2>2, <2>6 DEF IsDay, IsDate, Date
<1>6. CASE ~(d < MonthLength(y, m)) /\ ~(m < 12)
  <2>1. NextDay(x) = Date(y + 1, 1, 1) /\ m = 12 /\ y + 1 \in Int
    BY <1>1, <1>6 DEF NextDay
  <2>2. MonthLength(y + 1, 1) \in 28..31
    BY <2>1, MonthLengths
  <2>3. DayNumber(NextDay(x)) = Before(y + 1) + Offset(y + 1, 1) + 1
    BY <1>1, <2>1, DayNumberIs DEF Date
  <2>4. Offset(y + 1, 1) = 0 /\ Before(y + 1) = Before(y) + 365 + Leap(y)
    BY <1>1, <2>1, MonthOffsets, YearLength
  <2>5. d = MonthLength(y, m)
    BY <1>1, <1>2, <1>6
  <2>6. Offset(y, m) + MonthLength(y, m) = 365 + Leap(y) /\ Leap(y) \in Int
    <3>1. Offset(y, 12) + MonthLength(y, 12) = 365 + Leap(y)
      BY <1>1, MonthOffsets
    <3> QED BY <2>1, <3>1 DEF Leap
  <2>7. DayNumber(NextDay(x)) = DayNumber(x) + 1
    BY <1>1, <1>2, <1>3, <2>3, <2>4, <2>5, <2>6
  <2> QED BY <2>1, <2>2, <2>7 DEF IsDay, IsDate, Date
<1> QED BY <1>4, <1>5, <1>6

\* A set of naturals that is not empty has a smallest element.
LEMMA Smallest ==
  ASSUME NEW T, T \subseteq Nat, T # {}
  PROVE  \E m \in T : \A n \in T : m <= n
<1> DEFINE R == OpToRel(<, Nat)
<1>1. IsWellFoundedOn(R, Nat)
  BY NatLessThanWellFounded
<1>2. \A m, n \in Nat : n < m => <<n, m>> \in R
  BY DEF OpToRel
<1> HIDE DEF R
<1>3. PICK m \in T : \A n \in T : ~(<<n, m>> \in R)
  BY <1>1, WFMin
<1>4. ASSUME NEW n \in T PROVE m <= n
  <2>1. ~(n < m)
    BY <1>2, <1>3
  <2> QED BY <2>1
<1> QED BY <1>4

\* Days are counted one by one: so many days later is so many days later, over
\* the ends of all months and years (review.py:71, dateparse.py:48).
THEOREM AddDaysIsExact ==
  ASSUME NEW x, IsDay(x), NEW n \in Nat
  PROVE  IsDay(AddDays(x, n)) /\ DayNumber(AddDays(x, n)) = DayNumber(x) + n
<1> DEFINE Counts(f, m) == f = [k \in 0..m |-> IF k = 0 THEN x ELSE NextDay(f[k - 1])]
           Bad == {m \in Nat : ~ \E f : Counts(f, m)}
<1>1. Bad = {}
  <2> SUFFICES ASSUME Bad # {} PROVE FALSE
    OBVIOUS
  <2>1. PICK m \in Bad : \A k \in Bad : m <= k
    BY Smallest
  <2>2. \E f : Counts(f, 0)
    <3>1. Counts([k \in 0..0 |-> x], 0)
      OBVIOUS
    <3> QED BY <3>1
  <2>3. m \in Nat /\ m # 0 /\ m - 1 \in Nat /\ m - 1 \notin Bad
    <3>1. m \in Nat /\ m # 0
      BY <2>1, <2>2
    <3>2. m - 1 \in Nat /\ ~(m <= m - 1)
      BY <3>1
    <3> HIDE DEF Bad
    <3> QED BY <2>1, <3>1, <3>2
  <2>4. PICK g : Counts(g, m - 1)
    BY <2>3
  <2> DEFINE f == [k \in 0..m |-> IF k = m THEN NextDay(g[m - 1]) ELSE g[k]]
  <2>5. ASSUME NEW k \in 0..m PROVE f[k] = IF k = 0 THEN x ELSE NextDay(f[k - 1])
    <3>1. CASE k = 0
      BY <2>3, <2>4, <3>1
    <3>2. CASE k = m
      BY <2>3, <3>2
    <3>3. CASE k # 0 /\ k # m
      <4>1. k \in 0..(m - 1) /\ k - 1 \in 0..(m - 1)
        BY <3>3
      <4>2. g[k] = NextDay(g[k - 1])
        BY <2>4, <3>3, <4>1
      <4> QED BY <3>3, <4>1, <4>2
    <3> QED BY <3>1, <3>2, <3>3
  <2>6. Counts(f, m)
    BY <2>5
  <2> QED BY <2>1, <2>6
<1>2. PICK f : Counts(f, n)
  BY <1>1
<1> DEFINE after == CHOOSE g : Counts(g, n)
<1>3. AddDays(x, n) = after[n]
  BY DEF AddDays
<1>4. Counts(after, n)
  BY <1>2
<1> HIDE DEF after
<1>5. \A k \in 0..n : after[k] = IF k = 0 THEN x ELSE NextDay(after[k - 1])
  BY <1>4
<1> DEFINE Exact(k) == IsDay(after[k]) /\ DayNumber(after[k]) = DayNumber(x) + k
           Wrong == {k \in 0..n : ~Exact(k)}
<1>6. DayNumber(x) \in Int
  BY DayNumberIs, MonthLengths DEF IsDay, IsDate
<1>7. Wrong = {}
  <2> SUFFICES ASSUME Wrong # {} PROVE FALSE
    OBVIOUS
  <2> Wrong \subseteq Nat
    OBVIOUS
  <2>1. PICK k \in Wrong : \A j \in Wrong : k <= j
    <3> HIDE DEF Wrong
    <3> QED BY Smallest
  <2>2. k # 0
    BY <1>5, <1>6, <2>1
  <2>3. k \in 1..n /\ k - 1 \in 0..n /\ ~(k <= k - 1)
    BY <2>1, <2>2
  <2>4. Exact(k - 1)
    BY <2>1, <2>3
  <2>5. after[k] = NextDay(after[k - 1])
    BY <1>5, <2>3
  <2>6. IsDay(after[k]) /\ DayNumber(after[k]) = (DayNumber(x) + (k - 1)) + 1
    BY <2>4, <2>5, NextDayIsNext
  <2>7. Exact(k)
    BY <1>6, <2>3, <2>6
  <2> QED BY <2>1, <2>7
<1>8. Exact(n)
  BY <1>7
<1> QED BY <1>3, <1>8

\* Of two dates, that of the later month is the later one.
LEMMA LaterMonthIsLater ==
  ASSUME NEW x, IsDay(x), NEW z, IsDay(z), 12 * x.y + x.m < 12 * z.y + z.m
  PROVE  DayNumber(x) < DayNumber(z)
<1>1. /\ x.y \in Int /\ x.m \in 1..12 /\ x.d \in Int /\ x.d >= 1 /\ x.d <= MonthLength(x.y, x.m)
      /\ z.y \in Int /\ z.m \in 1..12 /\ z.d \in Int /\ z.d >= 1
      /\ MonthLength(x.y, x.m) \in 28..31
  BY MonthLengths DEF IsDay, IsDate
<1>2. /\ DayNumber(x) = Before(x.y) + Offset(x.y, x.m) + x.d
      /\ Before(x.y) \in Int /\ Offset(x.y, x.m) \in Nat
      /\ DayNumber(z) = Before(z.y) + Offset(z.y, z.m) + z.d
      /\ Before(z.y) \in Int /\ Offset(z.y, z.m) \in Nat
  BY <1>1, DayNumberIs
<1>3. CASE x.y = z.y
  <2>1. x.m < z.m
    BY <1>1, <1>3
  <2>2. Offset(x.y, x.m) + MonthLength(x.y, x.m) <= Offset(x.y, z.m)
    BY <1>1, <2>1, MonthOffsets
  <2> QED BY <1>1, <1>2, <1>3, <2>2
<1>4. CASE x.y # z.y
  <2>1. x.y + 1 <= z.y
    BY <1>1, <1>4
  <2>2. Before(x.y + 1) <= Before(z.y)
    <3> DEFINE a == x.y
               b == z.y - 1
    <3>1. a \in Int /\ b \in Int /\ a <= b /\ (x.y + 1) - 1 = a
      BY <1>1, <2>1
    <3>2. a \div 4 <= b \div 4 /\ a \div 400 <= b \div 400 /\ (b \div 100) - (a \div 100) <= b - a
      BY <3>1
    <3>3. a \div 4 \in Int /\ b \div 4 \in Int /\ a \div 100 \in Int /\ b \div 100 \in Int
          /\ a \div 400 \in Int /\ b \div 400 \in Int
      BY <3>1
    <3>4. Before(x.y + 1) = 365 * a + (a \div 4) - (a \div 100) + (a \div 400)
      BY <3>1 DEF Before
    <3>5. Before(z.y) = 365 * b + (b \div 4) - (b \div 100) + (b \div 400)
      BY DEF Before
    <3> QED BY <3>1, <3>2, <3>3, <3>4, <3>5
  <2>3. Before(x.y + 1) = Before(x.y) + 365 + Leap(x.y) /\ Leap(x.y) \in Int
    BY <1>1, YearLength DEF Leap
  <2>4. Offset(x.y, x.m) + MonthLength(x.y, x.m) <= 365 + Leap(x.y)
    <3>1. PICK y \in Int, m \in 1..12 : y = x.y /\ m = x.m
      BY <1>1
    <3>2. /\ Offset(y, 12) + MonthLength(y, 12) = 365 + Leap(y)
          /\ m < 12 => Offset(y, m) + MonthLength(y, m) <= Offset(y, 12)
          /\ Offset(y, 12) \in Nat
      <4>1. 12 \in 1..12
        OBVIOUS
      <4> QED BY ONLY <4>1, y \in Int, m \in 1..12, MonthOffsets
    <3>3. MonthLength(y, 12) = 31
      BY DEF MonthLength
    <3>4. CASE m = 12
      BY <2>3, <3>1, <3>2, <3>3, <3>4
    <3>5. CASE m < 12
      BY <1>1, <1>2, <2>3, <3>1, <3>2, <3>3, <3>5
    <3> QED BY <3>4, <3>5
  <2> QED BY <1>1, <1>2, <2>2, <2>3, <2>4
<1> QED BY <1>3, <1>4

-----------------------------------------------------------------------------
(* Reviews. *)

Parsed(interval) == ParseReviewInterval(interval) # Unparsed

Months(interval) == IF interval.unit = "y" THEN 12 * interval.count ELSE interval.count

\* An interval leads ahead, to a day of the calendar.
LEMMA IntervalLeadsAhead ==
  ASSUME NEW base, IsDay(base), NEW interval \in Intervals,
         NEW next, next = AddReviewInterval(base, interval)
  PROVE  /\ next = Missing <=> ~Parsed(interval)
         /\ Parsed(interval) => /\ ParseReviewInterval(interval) = [count |-> interval.count, unit |-> interval.unit]
                                /\ interval.unit \in {"d", "w", "m", "y"}
                                /\ IsDay(next)
                                /\ interval.count > 0 => DayNumber(base) < DayNumber(next)
         /\ (Parsed(interval) /\ interval.unit \in {"m", "y"}) =>
                /\ next = AddMonths(base, Months(interval)) /\ Months(interval) \in Nat
                /\ 12 * next.y + next.m = 12 * base.y + base.m + Months(interval)
                /\ next.d <= base.d /\ (next.d = base.d \/ next.d = MonthLength(next.y, next.m))
<1> DEFINE count == interval.count
           unit == interval.unit
<1>1. count \in Nat
  BY IntervalsAssumption
<1>2. ~IsDay(Missing)
  BY DEF Missing, Rejected, Date, IsDay, IsDate
<1>3. CASE ~Parsed(interval)
  BY <1>3 DEF Parsed, AddReviewInterval
<1>4. CASE Parsed(interval)
  <2>1. unit \in {"d", "w", "m", "y"} /\ ParseReviewInterval(interval) = [count |-> count, unit |-> unit]
    BY <1>4 DEF Parsed, ParseReviewInterval
  <2>2. next = CASE unit = "d" -> AddDays(base, count)
                 [] unit = "w" -> AddDays(base, 7 * count)
                 [] unit = "m" -> AddMonths(base, count)
                 [] unit = "y" -> AddMonths(base, 12 * count)
    BY <1>4, <2>1 DEF Parsed, AddReviewInterval
  <2>3. DayNumber(base) \in Int
    BY DayNumberIs, MonthLengths DEF IsDay, IsDate
  <2>4. CASE unit \in {"d", "w"}
    <3>1. PICK n \in Nat : next = AddDays(base, n) /\ (count > 0 => n > 0)
      <4>1. 7 * count \in Nat /\ (count > 0 => 7 * count > 0)
        BY <1>1
      <4> QED BY <1>1, <2>2, <2>4, <4>1
    <3>2. IsDay(next) /\ DayNumber(next) = DayNumber(base) + n
      BY <3>1, AddDaysIsExact
    <3> QED BY <1>1, <1>2, <1>4, <2>1, <2>3, <2>4, <3>1, <3>2
  <2>5. CASE unit \in {"m", "y"}
    <3> DEFINE n == Months(interval)
    <3>1. n \in Nat /\ (count > 0 => n > 0)
      BY <1>1 DEF Months
    <3>2. next = AddMonths(base, n)
      BY <2>2, <2>5 DEF Months
    <3>3. base = Date(base.y, base.m, base.d) /\ base.y \in Int /\ base.m \in 1..12 /\ base.d \in 1..MonthLength(base.y, base.m)
      BY DEF IsDay, IsDate
    <3> HIDE DEF n
    <3>4. /\ IsDate(next) /\ 12 * next.y + next.m = 12 * base.y + base.m + n
          /\ next.d <= base.d /\ (next.d = base.d \/ next.d = MonthLength(next.y, next.m))
      <4>1. PICK y \in Int, m \in 1..12 : y = base.y /\ m = base.m
        BY <3>3
      <4>2. PICK d \in 1..MonthLength(y, m) : d = base.d
        BY <3>3, <4>1
      <4>3. next = AddMonths(Date(y, m, d), n)
        BY <3>2, <3>3, <4>1, <4>2
      <4>4. LET z == AddMonths(Date(y, m, d), n)
            IN  /\ IsDate(z) /\ 12 * z.y + z.m = 12 * y + m + n
                /\ z.d <= d /\ (z.d = d \/ z.d = MonthLength(z.y, z.m))
        BY ONLY <3>1, <4>1, <4>2, n \in Nat, y \in Int, m \in 1..12, AddMonthsIsExact
      <4> QED BY <4>1, <4>2, <4>3, <4>4
    <3>5. IsDay(next)
      <4>1. next = Date(next.y, next.m, next.d) /\ next.y = base.y + ((base.m - 1 + n) \div 12)
        BY <3>2 DEF AddMonths, Date
      <4>2. next.y \in Int
        BY <3>1, <3>3, <4>1
      <4> QED BY <3>4, <4>1, <4>2 DEF IsDay
    <3>6. count > 0 => DayNumber(base) < DayNumber(next)
      <4> SUFFICES ASSUME count > 0 PROVE DayNumber(base) < DayNumber(next)
        OBVIOUS
      <4>1. 12 * base.y + base.m \in Int
        BY <3>3
      <4>2. 12 * base.y + base.m < 12 * next.y + next.m
        BY <3>1, <3>4, <4>1
      <4> QED BY <3>5, <4>2, LaterMonthIsLater
    <3> QED BY <1>2, <1>4, <2>1, <2>5, <3>1, <3>2, <3>4, <3>5, <3>6 DEF n
  <2> QED BY <2>1, <2>4, <2>5
<1> QED BY <1>3, <1>4

\* The inductive invariant.
Fields == {"interval", "last", "next", "status"}

SoundProject(p) ==
    /\ p = [field \in Fields |-> p[field]]
    /\ p.interval \in Intervals
    /\ \A x \in {p.last, p.next} \ {Missing} : IsDay(x)

SoundProjects ==
    /\ today \in Days
    /\ edits \in 0..MaxEdits
    /\ project = [i \in Projects |-> project[i]]
    /\ \A i \in Projects : SoundProject(project[i])

LEMMA DaysAreDays == \A x \in Days : IsDay(x)
<1> QED BY DaysAssumption DEF IsDay

LEMMA ReviewedIsSound ==
  ASSUME NEW p, SoundProject(p), NEW stamp \in Days, NEW q, q = Reviewed(p, stamp)
  PROVE  SoundProject(q)
<1> DEFINE next == AddReviewInterval(stamp, p.interval)
<1>1. next = Missing \/ IsDay(next)
  BY IntervalLeadsAhead, DaysAreDays DEF SoundProject
<1>2. q = [p EXCEPT !.last = stamp, !.next = IF next = Missing THEN @ ELSE next]
  BY DEF Reviewed
<1> HIDE DEF next
<1>3. /\ q = [field \in Fields |-> q[field]] /\ q.interval = p.interval
      /\ q.last = stamp /\ q.next = IF next = Missing THEN p.next ELSE next
  BY <1>2 DEF SoundProject, Fields
<1> QED BY <1>1, <1>3, DaysAreDays DEF SoundProject

LEMMA SoundInit == Init => SoundProjects
<1> SUFFICES ASSUME Init PROVE SoundProjects
  OBVIOUS
<1>1. ASSUME NEW i \in Projects PROVE SoundProject(project[i])
  BY IntervalsAssumption DEF Init, SoundProject, Fields, Projects
<1> QED BY <1>1, EditsAssumption DEF Init, SoundProjects

LEMMA SoundNext == SoundProjects /\ [Next]_vars => SoundProjects'
<1> SUFFICES ASSUME SoundProjects, [Next]_vars PROVE SoundProjects'
  OBVIOUS
<1>1. CASE NextDayComes
  BY <1>1 DEF NextDayComes, SoundProjects
<1>2. ASSUME NEW i \in Projects, NEW stamp \in Days, MarkProjectReviewed(i, stamp) PROVE SoundProjects'
  <2>1. SoundProject(Reviewed(project[i], stamp))
    BY ReviewedIsSound DEF SoundProjects
  <2>2. project' = [project EXCEPT ![i] = Reviewed(project[i], stamp)] /\ UNCHANGED <<today, edits>>
    BY <1>2 DEF MarkProjectReviewed
  <2> QED BY <2>1, <2>2 DEF SoundProjects
<1>3. ASSUME NEW i \in Projects, AppSets(i) PROVE SoundProjects'
  <2>1. edits' \in 0..MaxEdits /\ today' \in Days
    BY <1>3, EditsAssumption DEF AppSets, SoundProjects
  <2>2. PICK field, val :
            /\ field \in Fields
            /\ project' = [project EXCEPT ![i] = [project[i] EXCEPT ![field] = val]]
            /\ field = "interval" => val \in Intervals
            /\ field \in {"last", "next"} => val \in Days \union {Missing}
    BY <1>3 DEF AppSets, Fields
  <2>3. PICK p, q : p = project[i] /\ q = [p EXCEPT ![field] = val]
    OBVIOUS
  <2>4. SoundProject(p)
    BY <2>3 DEF SoundProjects
  <2>5. /\ q = [f \in Fields |-> q[f]]
        /\ \A f \in Fields : q[f] = IF f = field THEN val ELSE p[f]
    BY <2>3, <2>4 DEF SoundProject
  <2>6. SoundProject(q)
    BY <2>2, <2>4, <2>5, DaysAreDays DEF SoundProject, Fields
  <2>7. project' = [project EXCEPT ![i] = q]
    BY <2>2, <2>3
  <2> QED BY <2>1, <2>6, <2>7 DEF SoundProjects
<1>4. CASE UNCHANGED vars
  BY <1>4 DEF vars, SoundProjects
<1> QED BY <1>1, <1>2, <1>3, <1>4 DEF Next

LEMMA SoundHolds == Spec => []SoundProjects
<1> QED BY SoundInit, SoundNext, PTL DEF Spec

\* The dates of all reviews are days of the calendar, whatever the intervals
\* and however far ahead (review.py:155).
THEOREM TypeCorrect == Spec => []TypeOK
<1>1. SoundProjects => TypeOK
  BY DEF SoundProjects, SoundProject, TypeOK, IsDay
<1> QED BY <1>1, SoundHolds, PTL

\* What marking a project leaves in it.
LEMMA Marking ==
  ASSUME SoundProjects, NEW i \in Projects, NEW stamp \in Days, MarkProjectReviewed(i, stamp),
         NEW p, p = project[i], NEW q, q = project'[i], Parsed(p.interval),
         NEW next, next = AddReviewInterval(stamp, p.interval)
  PROVE  /\ SoundProject(p) /\ SoundProject(q) /\ IsDay(stamp) /\ IsDay(next) /\ next # Missing
         /\ q.interval = p.interval /\ q.last = stamp /\ q.next = next
<1>1. SoundProject(p) /\ IsDay(stamp)
  BY DaysAreDays DEF SoundProjects
<1>2. IsDay(next) /\ next # Missing
  BY <1>1, IntervalLeadsAhead DEF SoundProject
<1>3. q = Reviewed(p, stamp)
  BY DEF MarkProjectReviewed, SoundProjects
<1>4. q = [p EXCEPT !.last = stamp, !.next = next]
  BY <1>2, <1>3 DEF Reviewed
<1>5. q.interval = p.interval /\ q.last = stamp /\ q.next = next
  BY <1>1, <1>4 DEF SoundProject, Fields
<1> QED BY <1>1, <1>2, <1>3, <1>5, ReviewedIsSound

\* A project that was reviewed just now is not due, whatever its interval and
\* wherever the month ends (review.py:113, review.py:76).
THEOREM MarkedGoesAway == Spec => MarkedIsNotDue
<1>1. SoundProjects =>
          \A i \in Projects :
              LET parsed == ParseReviewInterval(project[i].interval)
              IN  (MarkProjectReviewed(i, today) /\ parsed # Unparsed /\ parsed.count > 0) =>
                      Settled(project'[i])
  <2> SUFFICES ASSUME SoundProjects, NEW i \in Projects, MarkProjectReviewed(i, today),
                      Parsed(project[i].interval), ParseReviewInterval(project[i].interval).count > 0
               PROVE  Settled(project'[i])
    BY DEF Parsed
  <2>1. PICK p, q, stamp, next : /\ p = project[i] /\ q = project'[i] /\ stamp = today
                                 /\ next = AddReviewInterval(stamp, p.interval)
    OBVIOUS
  <2>2. stamp \in Days
    BY <2>1 DEF SoundProjects
  <2>3. /\ SoundProject(p) /\ SoundProject(q) /\ IsDay(stamp) /\ IsDay(next) /\ next # Missing
        /\ q.interval = p.interval /\ q.last = stamp /\ q.next = next
    BY <2>1, <2>2, Marking
  <2>4. DayNumber(stamp) < DayNumber(next)
    BY <2>1, <2>3, IntervalLeadsAhead DEF SoundProject
  <2>5. DayNumber(stamp) \in Int /\ DayNumber(next) \in Int
    BY <2>3, DayNumberIs, MonthLengths DEF IsDay, IsDate
  <2>6. ~Reached(next)
    BY <2>1, <2>4, <2>5 DEF Reached
  <2>7. ComputeReviewState(q).due = Reached(next) /\ ComputeReviewState(q).at = next
    BY <2>3 DEF ComputeReviewState, State
  <2> DEFINE r == [q EXCEPT !.next = Missing]
  <2>8. r.last = stamp /\ r.next = Missing /\ r.interval = p.interval
    BY <2>3 DEF SoundProject, Fields
  <2>9. stamp # Missing
    BY <2>3 DEF IsDay, IsDate, Missing, Rejected, Date
  <2> HIDE DEF r
  <2>10. ComputeReviewState(r).at = next
    BY <2>1, <2>3, <2>8, <2>9 DEF ComputeReviewState, State
  <2> QED BY <2>1, <2>6, <2>7, <2>10 DEF Settled, r
<1> QED BY <1>1, SoundHolds, PTL DEF MarkedIsNotDue

\* The next review months from a date is as late in its month as the date
\* allows, and in the month that was meant (review.py:149).
THEOREM MonthsAreKept == Spec => MonthsKeepTheDay
<1>1. SoundProjects =>
          \A i \in Projects, stamp \in Days :
              LET parsed == ParseReviewInterval(project[i].interval)
              IN  (MarkProjectReviewed(i, stamp) /\ parsed # Unparsed /\ parsed.unit \in {"m", "y"}) =>
                      MonthsAfter(stamp, IF parsed.unit = "y" THEN 12 * parsed.count ELSE parsed.count,
                          project'[i].next)
  <2> SUFFICES ASSUME SoundProjects, NEW i \in Projects, NEW stamp \in Days, MarkProjectReviewed(i, stamp),
                      NEW p, p = project[i], NEW parsed, parsed = ParseReviewInterval(p.interval),
                      Parsed(p.interval), parsed.unit \in {"m", "y"},
                      NEW next, next = project'[i].next
               PROVE  MonthsAfter(stamp, IF parsed.unit = "y" THEN 12 * parsed.count ELSE parsed.count, next)
    BY DEF Parsed
  <2>1. PICK q, at : q = project'[i] /\ at = AddReviewInterval(stamp, p.interval)
    OBVIOUS
  <2>2. SoundProject(p) /\ IsDay(stamp) /\ IsDay(next) /\ next = at
    BY <2>1, Marking
  <2>3. /\ parsed = [count |-> p.interval.count, unit |-> p.interval.unit]
        /\ 12 * next.y + next.m = 12 * stamp.y + stamp.m + Months(p.interval)
        /\ next.d <= stamp.d /\ (next.d = stamp.d \/ next.d = MonthLength(next.y, next.m))
    BY <2>1, <2>2, IntervalLeadsAhead DEF SoundProject
  <2>4. Months(p.interval) = IF parsed.unit = "y" THEN 12 * parsed.count ELSE parsed.count
    BY <2>3 DEF Months
  <2>5. /\ next = Date(next.y, next.m, next.d) /\ next.y \in Int /\ next.m \in 1..12 /\ next.d \in 1..31
        /\ next.d \in 1..MonthLength(next.y, next.m) /\ stamp.d \in Int /\ IsDate(next)
    BY <2>2, MonthLengths DEF IsDay, IsDate
  <2>6. ASSUME NEW d \in 1..31, NEW x, x = Date(next.y, next.m, d), IsDate(x), x.d <= stamp.d
        PROVE  DayNumber(x) <= DayNumber(next)
    <3>1. x.y = next.y /\ x.m = next.m /\ x.d = d
      BY <2>6 DEF Date
    <3>2. d <= next.d
      BY <2>3, <2>5, <2>6, <3>1 DEF IsDate
    <3>3. /\ DayNumber(x) = Before(next.y) + Offset(next.y, next.m) + d
          /\ DayNumber(next) = Before(next.y) + Offset(next.y, next.m) + next.d
          /\ Before(next.y) \in Int /\ Offset(next.y, next.m) \in Nat
      BY <2>5, <3>1, DayNumberIs
    <3> QED BY <2>5, <3>2, <3>3
  <2> QED BY <2>3, <2>4, <2>5, <2>6 DEF MonthsAfter
<1> QED BY <1>1, SoundHolds, PTL DEF MonthsKeepTheDay

-----------------------------------------------------------------------------
(* What a user types. *)

\* A word for a day is never one that is past, on whatever day it is typed
\* (dateparse.py:48).
THEOREM TypedIsAhead == Spec => []DueIsAhead
<1>1. SoundProjects => DueIsAhead
  <2> SUFFICES ASSUME SoundProjects PROVE DueIsAhead
    OBVIOUS
  <2>1. PICK x : x = today
    OBVIOUS
  <2>2. IsDay(x) /\ DayNumber(x) \in Int
    BY <2>1, DaysAreDays, DayNumberIs, MonthLengths DEF SoundProjects, IsDay, IsDate
  <2>3. ASSUME NEW n \in Nat
        PROVE  IsDate(AddDays(x, n)) /\ DayNumber(AddDays(x, n)) - DayNumber(x) = n
    <3>1. IsDay(AddDays(x, n)) /\ DayNumber(AddDays(x, n)) = DayNumber(x) + n
      BY <2>2, AddDaysIsExact
    <3> QED BY <2>2, <3>1 DEF IsDay
  <2>4. ASSUME NEW val \in Tokens
        PROVE  LET ahead == DayNumber(ParseDue(x, val)) - DayNumber(x)
               IN  /\ IsDate(ParseDue(x, val))
                   /\ ahead \in CASE val.kind = "today" -> {0} [] val.kind = "tomorrow" -> {1}
                                  [] OTHER -> 1..7
                   /\ val.kind = "weekday" => Weekday(ParseDue(x, val)) = val.weekday
    <3>1. CASE val.kind = "today"
      BY <2>2, <3>1 DEF ParseDue, IsDay
    <3>2. CASE val.kind = "tomorrow"
      <4>1. ParseDue(x, val) = AddDays(x, 1)
        BY <3>2 DEF ParseDue
      <4> QED BY <2>3, <3>2, <4>1
    <3>3. CASE val.kind = "weekday"
      <4> DEFINE w == val.weekday
                 ahead == (w - Weekday(x)) % 7
      <4>1. w \in 0..6
        BY <3>3 DEF Tokens
      <4>2. PICK n : n = IF ahead = 0 THEN 7 ELSE ahead
        OBVIOUS
      <4>3. ParseDue(x, val) = AddDays(x, n)
        BY <3>3, <4>2 DEF ParseDue
      <4>4. n \in 1..7 /\ (DayNumber(x) + n + 6) % 7 = w
        <5>1. PICK t \in Int, v \in 0..6 : t = DayNumber(x) /\ v = w
          BY <2>2, <4>1
        <5>2. PICK a : a = (v - ((t + 6) % 7)) % 7
          OBVIOUS
        <5>3. n = IF a = 0 THEN 7 ELSE a
          BY <4>2, <5>1, <5>2 DEF Weekday
        <5>4. n \in 1..7 /\ (t + n + 6) % 7 = v
          BY ONLY t \in Int, v \in 0..6, <5>2, <5>3
        <5> QED BY <5>1, <5>4
      <4>5. IsDate(AddDays(x, n)) /\ DayNumber(AddDays(x, n)) - DayNumber(x) = n
            /\ DayNumber(AddDays(x, n)) = DayNumber(x) + n
        BY <2>2, <2>3, <4>4, AddDaysIsExact
      <4>6. Weekday(AddDays(x, n)) = w
        BY <4>4, <4>5 DEF Weekday
      <4> QED BY <3>3, <4>3, <4>4, <4>5, <4>6
    <3> QED BY <3>1, <3>2, <3>3 DEF Tokens
  <2>5. ASSUME NEW m \in {2, 13}
        PROVE  ParseDue(x, [kind |-> "monthday", weekday |-> 0, m |-> m, d |-> 29]) = Rejected
                   <=> ~(m = 2 /\ IsLeap(x.y))
    <3>1. ParseDue(x, [kind |-> "monthday", weekday |-> 0, m |-> m, d |-> 29]) = Checked(Date(x.y, m, 29))
      BY DEF ParseDue
    <3>2. Date(x.y, m, 29) # Rejected
      BY DEF Date, Rejected
    <3>3. IsDate(Date(x.y, m, 29)) <=> m = 2 /\ IsLeap(x.y)
      BY DEF Date, IsDate, MonthLength
    <3> QED BY <3>1, <3>2, <3>3 DEF Checked
  <2> QED BY <2>1, <2>4, <2>5 DEF DueIsAhead
<1> QED BY <1>1, SoundHolds, PTL

-----------------------------------------------------------------------------
(* The queue. *)

\* R orders the members of S.
Orders(R, S) ==
    /\ \A x \in S : <<x, x>> \notin R
    /\ \A x, y, z \in S : <<x, y>> \in R /\ <<y, z>> \in R => <<x, z>> \in R
    /\ \A x, y \in S : x = y \/ <<x, y>> \in R \/ <<y, x>> \in R

Below(R, S, x) == {y \in S : <<y, x>> \in R}

\* Of two members of a finite set the later one has more below it.
LEMMA MoreBelow ==
  ASSUME NEW S, IsFiniteSet(S), NEW R, Orders(R, S), NEW x \in S
  PROVE  /\ IsFiniteSet(Below(R, S, x)) /\ Cardinality(Below(R, S, x)) \in 0..(Cardinality(S) - 1)
         /\ \A y \in S : <<x, y>> \in R => Cardinality(Below(R, S, x)) < Cardinality(Below(R, S, y))
<1>1. \A y \in S : IsFiniteSet(Below(R, S, y)) /\ Cardinality(Below(R, S, y)) \in Nat
  BY FS_Subset, FS_CardinalityType DEF Below
<1>2. Cardinality(Below(R, S, x)) < Cardinality(S) /\ Cardinality(S) \in Nat
  <2>1. Below(R, S, x) \in SUBSET S /\ x \notin Below(R, S, x)
    BY DEF Below, Orders
  <2> QED BY <1>1, <2>1, FS_Subset, FS_CardinalityType
<1>3. ASSUME NEW y \in S, <<x, y>> \in R PROVE Cardinality(Below(R, S, x)) < Cardinality(Below(R, S, y))
  <2>1. Below(R, S, x) \in SUBSET Below(R, S, y) /\ x \in Below(R, S, y) /\ x \notin Below(R, S, x)
    BY <1>3 DEF Below, Orders
  <2> QED BY <1>1, <2>1, FS_Subset
<1> QED BY <1>1, <1>2, <1>3

InOrder(R, q) == \A k, l \in DOMAIN q : k < l => <<q[k], q[l]>> \in R

\* A finite set can be listed in order.
LEMMA CanBeSorted ==
  ASSUME NEW S, IsFiniteSet(S), NEW R, Orders(R, S)
  PROVE  \E q \in SetToSeqs(S) : InOrder(R, q)
<1> DEFINE n == Cardinality(S)
           rank == [x \in S |-> Cardinality(Below(R, S, x)) + 1]
<1>1. n \in Nat
  BY FS_CardinalityType
<1>2. rank \in [S -> 1..n]
  BY <1>1, MoreBelow
<1>3. \A x, y \in S : <<x, y>> \in R => rank[x] < rank[y]
  BY MoreBelow
<1>5. IsFiniteSet(1..n) /\ Cardinality(1..n) = n
  BY <1>1, FS_Interval
<1> HIDE DEF rank, n
<1>4. \A x, y \in S : rank[x] = rank[y] => x = y
  <2> SUFFICES ASSUME NEW x \in S, NEW y \in S, rank[x] = rank[y] PROVE x = y
    OBVIOUS
  <2>1. rank[x] \in Int /\ ~(rank[x] < rank[y]) /\ ~(rank[y] < rank[x])
    BY <1>2
  <2>2. <<x, y>> \notin R /\ <<y, x>> \notin R
    BY <1>3, <2>1
  <2> QED BY <2>2 DEF Orders
<1>6. rank \in Injection(S, 1..n)
  BY <1>2, <1>4 DEF Injection, IsInjective
<1>7. rank \in Surjection(S, 1..n)
  BY <1>5, <1>6, FS_Injection DEF n
<1> DEFINE q == [k \in 1..n |-> CHOOSE x \in S : rank[x] = k]
<1>8. \A k \in 1..n : q[k] \in S /\ rank[q[k]] = k
  BY <1>7 DEF Surjection
<1>9. q \in SetToSeqs(S)
  BY <1>8 DEF SetToSeqs, n
<1>10. DOMAIN q = 1..n
  OBVIOUS
<1> HIDE DEF q
<1>11. ASSUME NEW k \in 1..n, NEW l \in 1..n, k < l PROVE <<q[k], q[l]>> \in R
  <2>1. PICK x \in S, y \in S : x = q[k] /\ y = q[l]
    BY <1>8
  <2>2. rank[x] = k /\ rank[y] = l /\ ~(l < k) /\ k # l
    BY <1>1, <1>8, <1>11, <2>1
  <2>3. <<y, x>> \notin R /\ x # y
    BY <1>3, <2>2
  <2> QED BY <2>1, <2>3 DEF Orders
<1> QED BY <1>9, <1>10, <1>11 DEF InOrder

\* In such a list every member is where as many members as there are before
\* it are below it.
LEMMA SortedPlaces ==
  ASSUME NEW S, IsFiniteSet(S), NEW R, Orders(R, S), NEW q \in SetToSeqs(S), InOrder(R, q)
  PROVE  /\ Cardinality(S) \in Nat /\ q \in [1..Cardinality(S) -> S]
         /\ \A x \in S : \E k \in 1..Cardinality(S) : q[k] = x
         /\ \A k \in 1..Cardinality(S) : Cardinality(Below(R, S, q[k])) = k - 1
<1> DEFINE n == Cardinality(S)
<1>1. n \in Nat /\ IsFiniteSet(1..n) /\ Cardinality(1..n) = n
  BY FS_CardinalityType, FS_Interval
<1>2. q \in [1..n -> S] /\ \A i, j \in 1..n : i # j => q[i] # q[j]
  BY DEF SetToSeqs
<1> HIDE DEF n
<1>3. q \in Injection(1..n, S)
  BY <1>2 DEF Injection, IsInjective
<1>4. q \in Surjection(1..n, S)
  BY <1>1, <1>3, FS_Injection DEF n
<1>5. \A x \in S : \E k \in 1..n : q[k] = x
  BY <1>4 DEF Surjection
<1>6. ASSUME NEW k \in 1..n PROVE Cardinality(Below(R, S, q[k])) = k - 1
  <2> DEFINE before == [i \in 1..(k - 1) |-> q[i]]
  <2>1. IsFiniteSet(1..(k - 1)) /\ Cardinality(1..(k - 1)) = k - 1
    BY <1>1, FS_Interval
  <2>2. \A i \in 1..n : <<q[i], q[k]>> \in R <=> i < k
    <3> TAKE i \in 1..n
    <3>1. i < k => <<q[i], q[k]>> \in R
      BY <1>2 DEF InOrder
    <3>2. k < i => <<q[k], q[i]>> \in R
      BY <1>2 DEF InOrder
    <3>3. i = k \/ i < k \/ k < i
      BY <1>1
    <3> QED BY <1>1, <1>2, <3>1, <3>2, <3>3 DEF Orders
  <2>3. before \in Bijection(1..(k - 1), Below(R, S, q[k]))
    <3>1. before \in [1..(k - 1) -> Below(R, S, q[k])]
      BY <1>1, <1>2, <2>2 DEF Below
    <3>2. before \in Injection(1..(k - 1), Below(R, S, q[k]))
      BY <1>1, <1>2, <3>1 DEF Injection, IsInjective
    <3>3. ASSUME NEW x \in Below(R, S, q[k]) PROVE \E i \in 1..(k - 1) : before[i] = x
      <4>1. PICK i \in 1..n : q[i] = x
        BY <1>5 DEF Below
      <4>2. i < k
        BY <2>2, <4>1 DEF Below
      <4> QED BY <1>1, <4>1, <4>2
    <3> QED BY <3>1, <3>2, <3>3 DEF Bijection, Surjection
  <2> QED BY <2>1, <2>3, FS_Bijection DEF ExistsBijection
<1> QED BY <1>1, <1>2, <1>5, <1>6 DEF n

-----------------------------------------------------------------------------
(* The queue of the projects. *)

IsDueAt(i) == ComputeReviewState(project[i]).due

StateAt(i) == ComputeReviewState(project[i])

\* What is due has a date that is reached, or none.
LEMMA StatesAreSound ==
  ASSUME SoundProjects, NEW i \in Projects
  PROVE  /\ Bucket(StateAt(i)) \in 0..2 /\ DueNumber(StateAt(i)) \in Int
         /\ Bucket(StateAt(i)) = 0 <=> IsDueAt(i)
         /\ project[i].next # Missing =>
                /\ StateAt(i).at = project[i].next /\ DueNumber(StateAt(i)) = DayNumber(project[i].next)
                /\ IsDueAt(i) => DayNumber(project[i].next) < EndOfTime
<1> DEFINE p == project[i]
           at == IF p.last = Missing THEN Missing ELSE AddReviewInterval(p.last, p.interval)
<1>1. SoundProject(p)
  BY DEF SoundProjects
<1>2. \A x : IsDay(x) => DayNumber(x) \in Int /\ x # Missing
  BY DayNumberIs, MonthLengths DEF IsDay, IsDate, Missing, Rejected, Date
<1>3. p.next = Missing \/ IsDay(p.next)
  BY <1>1 DEF SoundProject
<1>4. at = Missing \/ IsDay(at)
  BY <1>1, IntervalLeadsAhead DEF SoundProject
<1>5. IsDay(today) /\ DayNumber(today) \in Int /\ DayNumber(today) < EndOfTime
  BY <1>2, DaysAreDays, DaysAssumption DEF SoundProjects
<1>6. EndOfTime \in Int
  <2>1. EndOfTime = DayNumber(Date(9999, 12, 31)) /\ Date(9999, 12, 31).y = 9999
        /\ Date(9999, 12, 31).m = 12 /\ Date(9999, 12, 31).d = 31
    BY DEF EndOfTime, Date
  <2> QED BY <2>1, DayNumberIs
<1>7. \/ StateAt(i) = State(Reached(p.next), "next_review", p.next) /\ p.next # Missing
      \/ StateAt(i) = State(TRUE, "interval", Missing) /\ p.next = Missing
      \/ StateAt(i) = State(Reached(at), "interval", at) /\ p.next = Missing
      \/ StateAt(i) = State(FALSE, "unknown", Missing) /\ p.next = Missing
  BY DEF StateAt, ComputeReviewState
<1> HIDE DEF at
<1>8. Bucket(StateAt(i)) \in 0..2 /\ (Bucket(StateAt(i)) = 0 <=> IsDueAt(i))
  BY <1>7 DEF Bucket, State, IsDueAt, StateAt
<1>9. StateAt(i).at = Missing \/ IsDay(StateAt(i).at)
  BY <1>3, <1>4, <1>7 DEF State
<1>10. DueNumber(StateAt(i)) \in Int
  BY <1>2, <1>6, <1>9 DEF DueNumber
<1>11. ASSUME p.next # Missing
       PROVE  /\ StateAt(i).at = p.next /\ DueNumber(StateAt(i)) = DayNumber(p.next)
              /\ IsDueAt(i) => DayNumber(p.next) < EndOfTime
  <2>1. StateAt(i).at = p.next /\ (StateAt(i).due <=> Reached(p.next))
    BY <1>7, <1>11 DEF State
  <2>2. DueNumber(StateAt(i)) = DayNumber(p.next)
    BY <1>11, <2>1 DEF DueNumber
  <2>3. DayNumber(p.next) \in Int
    BY <1>2, <1>3, <1>11
  <2>4. IsDueAt(i) => DayNumber(p.next) <= DayNumber(today)
    BY <2>1 DEF IsDueAt, StateAt, Reached
  <2> QED BY <1>5, <1>6, <2>1, <2>2, <2>3, <2>4
<1> QED BY <1>8, <1>10, <1>11

Sooner == {r \in Projects \X Projects : ComesBefore(r[1], r[2])}

LEMMA ProjectsAreNumbers == Projects = 1..Len(Assigned) /\ Len(Assigned) \in Nat
<1> QED BY IntervalsAssumption DEF Projects

LEMMA SoonerOrders ==
  ASSUME SoundProjects, NEW S \in SUBSET Projects
  PROVE  IsFiniteSet(S) /\ Orders(Sooner, S)
<1>1. IsFiniteSet(S)
  <2>1. PICK n \in Nat : Projects = 1..n
    BY ProjectsAreNumbers
  <2>2. IsFiniteSet(1..n)
    BY FS_Interval
  <2> QED BY <2>1, <2>2, FS_Subset
<1> DEFINE bucket == [i \in Projects |-> Bucket(StateAt(i))]
           number == [i \in Projects |-> DueNumber(StateAt(i))]
<1>2. \A i \in Projects : bucket[i] \in Int /\ number[i] \in Int /\ i \in Int
  BY StatesAreSound, ProjectsAreNumbers
<1>3. \A i, j \in Projects :
          <<i, j>> \in Sooner <=> \/ bucket[i] < bucket[j]
                                  \/ bucket[i] = bucket[j] /\ number[i] < number[j]
                                  \/ bucket[i] = bucket[j] /\ number[i] = number[j] /\ i < j
  BY DEF Sooner, ComesBefore, StateAt
<1> HIDE DEF bucket, number
<1>4. \A x \in S : <<x, x>> \notin Sooner
  BY <1>2, <1>3
<1>5. \A x, y, z \in S : <<x, y>> \in Sooner /\ <<y, z>> \in Sooner => <<x, z>> \in Sooner
  <2> SUFFICES ASSUME NEW x \in Projects, NEW y \in Projects, NEW z \in Projects,
                      <<x, y>> \in Sooner, <<y, z>> \in Sooner
               PROVE  <<x, z>> \in Sooner
    OBVIOUS
  <2>1. PICK bx \in Int, by \in Int, bz \in Int, nx \in Int, ny \in Int, nz \in Int :
            /\ bx = bucket[x] /\ by = bucket[y] /\ bz = bucket[z]
            /\ nx = number[x] /\ ny = number[y] /\ nz = number[z]
    BY <1>2
  <2>2. x \in Int /\ y \in Int /\ z \in Int
    BY <1>2
  <2>3. bx < by \/ (bx = by /\ nx < ny) \/ (bx = by /\ nx = ny /\ x < y)
    BY <1>3, <2>1
  <2>4. by < bz \/ (by = bz /\ ny < nz) \/ (by = bz /\ ny = nz /\ y < z)
    BY <1>3, <2>1
  <2>5. bx < bz \/ (bx = bz /\ nx < nz) \/ (bx = bz /\ nx = nz /\ x < z)
    BY ONLY <2>2, <2>3, <2>4, bx \in Int, by \in Int, bz \in Int, nx \in Int, ny \in Int, nz \in Int
  <2> QED BY <1>3, <2>1, <2>5
<1>6. ASSUME NEW x \in Projects, NEW y \in Projects
      PROVE  x = y \/ <<x, y>> \in Sooner \/ <<y, x>> \in Sooner
  <2>1. x \in Int /\ y \in Int /\ bucket[x] \in Int /\ bucket[y] \in Int /\ number[x] \in Int /\ number[y] \in Int
    BY <1>2
  <2>2. \/ bucket[x] < bucket[y] \/ bucket[y] < bucket[x]
        \/ bucket[x] = bucket[y] /\ (number[x] < number[y] \/ number[y] < number[x] \/ number[x] = number[y])
    BY <2>1
  <2>3. x < y \/ y < x \/ x = y
    BY <2>1
  <2>4. \/ <<x, y>> \in Sooner \/ <<y, x>> \in Sooner \/ (bucket[x] = bucket[y] /\ number[x] = number[y])
    <3>1. CASE bucket[x] < bucket[y]
      BY <1>3, <3>1
    <3>2. CASE bucket[y] < bucket[x]
      BY <1>3, <3>2
    <3>3. CASE bucket[x] = bucket[y] /\ (number[x] < number[y] \/ number[y] < number[x])
      BY <1>3, <3>3
    <3> QED BY <2>2, <3>1, <3>2, <3>3
  <2>5. (bucket[x] = bucket[y] /\ number[x] = number[y]) => x = y \/ <<x, y>> \in Sooner \/ <<y, x>> \in Sooner
    BY <1>3, <2>3
  <2> QED BY <2>4, <2>5
<1> QED BY <1>1, <1>4, <1>5, <1>6 DEF Orders

\* The queue lists what it is to list, in order.
LEMMA QueueIsSorted ==
  ASSUME SoundProjects, NEW S \in SUBSET Projects
  PROVE  Queue(S) \in SetToSeqs(S) /\ InOrder(Sooner, Queue(S))
<1>1. PICK q \in SetToSeqs(S) : InOrder(Sooner, q)
  BY SoonerOrders, CanBeSorted
<1>2. \A k, l \in DOMAIN q : k < l => ComesBefore(q[k], q[l])
  BY <1>1 DEF InOrder, Sooner
<1>3. /\ Queue(S) \in SetToSeqs(S)
      /\ \A k, l \in DOMAIN Queue(S) : k < l => ComesBefore(Queue(S)[k], Queue(S)[l])
  BY <1>2 DEF Queue
<1>4. Queue(S) \in [1..Cardinality(S) -> S]
  BY <1>3 DEF SetToSeqs
<1> QED BY <1>3, <1>4 DEF InOrder, Sooner

Queued == {i \in Projects : project[i].status \in {"active", "inactive"}}
DueOnly == {i \in Queued : IsDueAt(i)}

\* The queue of what is due is a prefix of the queue of all: a due project
\* has the same below it in either.
LEMMA DueIsPrefix ==
  ASSUME SoundProjects,
         NEW all, all = Queue(Queued), NEW n, n = Cardinality(Queued),
         NEW due, due = Queue(DueOnly), NEW m, m = Cardinality(DueOnly)
  PROVE  /\ n \in Nat /\ m \in 0..n /\ all \in [1..n -> Queued] /\ due \in [1..m -> DueOnly]
         /\ InOrder(Sooner, all)
         /\ \A i \in DueOnly : \E k \in 1..m : due[k] = i
         /\ \A k \in 1..m : all[k] = due[k]
<1>1. Queued \in SUBSET Projects /\ DueOnly \in SUBSET Queued /\ DueOnly \in SUBSET Projects
  BY DEF Queued, DueOnly
<1>2. IsFiniteSet(Queued) /\ Orders(Sooner, Queued) /\ IsFiniteSet(DueOnly) /\ Orders(Sooner, DueOnly)
  BY <1>1, SoonerOrders
<1>3. /\ all \in SetToSeqs(Queued) /\ InOrder(Sooner, all)
      /\ due \in SetToSeqs(DueOnly) /\ InOrder(Sooner, due)
  BY <1>1, QueueIsSorted
<1>4. /\ n \in Nat /\ all \in [1..n -> Queued] /\ \A i \in Queued : \E k \in 1..n : all[k] = i
      /\ \A k \in 1..n : Cardinality(Below(Sooner, Queued, all[k])) = k - 1
  BY <1>2, <1>3, SortedPlaces
<1>5. /\ m \in Nat /\ due \in [1..m -> DueOnly] /\ \A i \in DueOnly : \E k \in 1..m : due[k] = i
      /\ \A k \in 1..m : Cardinality(Below(Sooner, DueOnly, due[k])) = k - 1
  BY <1>2, <1>3, SortedPlaces
<1>6. m <= n
  BY <1>1, <1>2, FS_Subset
<1>7. ASSUME NEW i \in DueOnly PROVE Below(Sooner, Queued, i) = Below(Sooner, DueOnly, i)
  <2>1. ASSUME NEW j \in Queued, <<j, i>> \in Sooner PROVE j \in DueOnly
    <3>1. i \in Projects /\ j \in Projects /\ IsDueAt(i)
      BY <1>1 DEF DueOnly
    <3>2. Bucket(StateAt(i)) = 0 /\ Bucket(StateAt(j)) \in 0..2 /\ (Bucket(StateAt(j)) = 0 => IsDueAt(j))
      BY <3>1, StatesAreSound
    <3>3. ComesBefore(j, i)
      BY <2>1 DEF Sooner
    <3>4. ~(Bucket(StateAt(i)) < Bucket(StateAt(j)))
      BY <3>2, <3>3 DEF ComesBefore, StateAt
    <3> QED BY <3>2, <3>3 DEF ComesBefore, StateAt, DueOnly
  <2> QED BY <1>1, <2>1 DEF Below
<1>8. ASSUME NEW k \in 1..m PROVE all[k] = due[k]
  <2>1. PICK l \in 1..n : all[l] = due[k]
    BY <1>1, <1>4, <1>5
  <2>2. l - 1 = k - 1
    BY <1>4, <1>5, <1>7, <2>1
  <2> QED BY <1>4, <1>5, <2>1, <2>2
<1> QED BY <1>3, <1>4, <1>5, <1>6, <1>8

\* s is a list of n members of S that is cut off after a.
CutOff(s, q, S, n, a) == Len(s) = a /\ s \in [1..a -> S] /\ \A k \in 1..a : s[k] = q[k]

LEMMA Cut ==
  ASSUME NEW S, NEW n \in Nat, NEW q \in [1..n -> S], NEW a \in 0..n, NEW s, s = SubSeq(q, 1, a)
  PROVE  CutOff(s, q, S, n, a)
<1>1. q \in Seq(S) /\ Len(q) = n
  OBVIOUS
<1>2. a <= n /\ a \in Nat
  OBVIOUS
<1>3. s \in Seq(S)
  BY <1>1, <1>2
<1>4. Len(s) = a
  BY <1>1, <1>2
<1>5. \A k \in 1..a : s[k] = q[k]
  BY <1>1, <1>2
<1>6. s \in [1..Len(s) -> S]
  BY ONLY <1>3
<1> QED BY <1>4, <1>5, <1>6 DEF CutOff

\* However the queue is cut off, nothing that is due is missing from it in
\* favour of something that is not, or that is due since later
\* (api_common.py:112, api_service.py:411).
THEOREM UrgentComesFirst == Spec => []UrgentFirst
<1>1. SoundProjects => UrgentFirst
  <2> SUFFICES ASSUME SoundProjects, NEW limit \in 0..Cardinality(Projects),
                      NEW wide, wide = ListProjectsForReview(FALSE, limit),
                      NEW due, due = ListProjectsForReview(TRUE, limit)
               PROVE  /\ Len(due) <= Len(wide) /\ SubSeq(wide, 1, Len(due)) = due
                      /\ (Range(wide) \ DueOnly # {}) => DueOnly \subseteq Range(wide)
                      /\ \A i \in Range(due), j \in DueOnly \ Range(due) :
                             project[j].next # Missing =>
                                 /\ project[i].next # Missing => DayNumber(project[i].next) <= DayNumber(project[j].next)
                                 /\ ComputeReviewState(project[i]).at # Missing
    BY DEF UrgentFirst, Queued, DueOnly, IsDueAt
  <2>1. PICK q, n, d, m : /\ q = Queue(Queued) /\ n = Cardinality(Queued)
                          /\ d = Queue(DueOnly) /\ m = Cardinality(DueOnly)
    OBVIOUS
  <2>2. /\ n \in Nat /\ m \in 0..n /\ q \in [1..n -> Queued] /\ d \in [1..m -> DueOnly]
        /\ InOrder(Sooner, q)
        /\ \A i \in DueOnly : \E k \in 1..m : d[k] = i
        /\ \A k \in 1..m : q[k] = d[k]
    BY <2>1, DueIsPrefix
  <2>3. limit \in Nat
    OBVIOUS
  <2>4. PICK a, b : /\ a = (IF n <= limit THEN n ELSE limit) /\ b = (IF m <= limit THEN m ELSE limit)
                    /\ a \in 0..n /\ b \in 0..m /\ b <= a /\ (a = n \/ a = limit) /\ (b = m \/ b = limit)
                    /\ (a < n => a = limit) /\ (b < m => b = limit)
    BY <2>2, <2>3
  <2>5. wide = SubSeq(q, 1, a)
    <3>1. {i \in Queued : FALSE => ComputeReviewState(project[i]).due} = Queued
      OBVIOUS
    <3>2. Len(q) = n
      BY <2>2
    <3> QED BY <2>1, <2>4, <3>1, <3>2 DEF ListProjectsForReview, Queued
  <2>6. due = SubSeq(d, 1, b)
    <3>1. {i \in Queued : TRUE => ComputeReviewState(project[i]).due} = DueOnly
      BY DEF DueOnly, IsDueAt
    <3>2. Len(d) = m
      BY <2>2
    <3> QED BY <2>1, <2>4, <3>1, <3>2 DEF ListProjectsForReview, Queued
  <2>7. Len(wide) = a /\ wide \in [1..a -> Queued] /\ \A k \in 1..a : wide[k] = q[k]
    <3>1. CutOff(wide, q, Queued, n, a)
      BY <2>2, <2>4, <2>5, Cut
    <3> QED BY <3>1 DEF CutOff
  <2>8. Len(due) = b /\ due \in [1..b -> DueOnly] /\ \A k \in 1..b : due[k] = d[k]
    <3>1. m \in Nat
      BY <2>2
    <3>2. CutOff(due, d, DueOnly, m, b)
      BY <2>2, <2>4, <2>6, <3>1, Cut
    <3> QED BY <3>2 DEF CutOff
  <2>9. a \in Nat /\ b \in 0..a /\ b \in 0..m /\ 1..b \subseteq 1..m
    BY <2>2, <2>4
  <2>10. SubSeq(wide, 1, b) = due
    <3>1. CutOff(SubSeq(wide, 1, b), wide, Queued, a, b)
      BY <2>7, <2>9, Cut
    <3>2. \A k \in 1..b : due[k] = wide[k]
      <4> TAKE k \in 1..b
      <4>1. k \in 1..m /\ k \in 1..a
        BY <2>4, <2>9
      <4> QED BY <2>2, <2>7, <2>8, <4>1
    <3>3. PICK p : p = SubSeq(wide, 1, b)
      OBVIOUS
    <3>4. p \in [1..b -> Queued] /\ \A k \in 1..b : p[k] = due[k]
      BY <3>1, <3>2, <3>3 DEF CutOff
    <3>5. p = due
      BY ONLY <2>8, <3>4
    <3> QED BY <3>3, <3>5
  <2>11. ASSUME NEW i \in Range(wide), i \notin DueOnly PROVE DueOnly \subseteq Range(wide)
    <3>1. PICK k \in 1..a : i = q[k]
      BY <2>7 DEF Range
    <3>2. m < k
      BY <2>2, <2>4, <2>11, <3>1
    <3>3. ASSUME NEW j \in DueOnly PROVE j \in Range(wide)
      <4>1. PICK l \in 1..m : d[l] = j
        BY <2>2
      <4>2. l \in 1..a /\ q[l] = j
        BY <2>2, <2>4, <3>2, <4>1
      <4> QED BY <2>7, <4>2 DEF Range
    <3> QED BY <3>3
  <2>12. ASSUME NEW i \in Range(due), NEW j \in DueOnly \ Range(due), project[j].next # Missing
         PROVE  /\ project[i].next # Missing => DayNumber(project[i].next) <= DayNumber(project[j].next)
                /\ ComputeReviewState(project[i]).at # Missing
    <3>1. PICK k \in 1..b : i = q[k]
      <4>1. PICK k \in 1..b : i = due[k]
        BY <2>8 DEF Range
      <4> QED BY <2>2, <2>8, <2>9, <4>1
    <3>2. PICK l \in 1..m : j = q[l] /\ l > b
      <4>1. PICK l \in 1..m : d[l] = j
        BY <2>2
      <4>2. l \notin 1..b
        BY <2>8, <4>1 DEF Range
      <4> QED BY <2>2, <2>4, <4>1, <4>2
    <3>3. ComesBefore(i, j)
      <4>1. k < l /\ k \in DOMAIN q /\ l \in DOMAIN q
        BY <2>2, <2>4, <3>2
      <4> QED BY <2>2, <3>1, <3>2, <4>1 DEF InOrder, Sooner
    <3>4. i \in DueOnly /\ i \in Projects /\ j \in Projects
      BY <2>2, <2>4, <3>1 DEF DueOnly, Queued
    <3>5. Bucket(StateAt(i)) = 0 /\ Bucket(StateAt(j)) = 0 /\ IsDueAt(j)
      BY <3>4, StatesAreSound DEF DueOnly
    <3>6. DueNumber(StateAt(i)) <= DueNumber(StateAt(j))
      <4>1. DueNumber(StateAt(i)) \in Int /\ DueNumber(StateAt(j)) \in Int
        BY <3>4, StatesAreSound
      <4> QED BY <3>3, <3>5, <4>1 DEF ComesBefore, StateAt
    <3>7. DueNumber(StateAt(j)) = DayNumber(project[j].next) /\ DueNumber(StateAt(j)) < EndOfTime
          /\ DueNumber(StateAt(j)) \in Int /\ DueNumber(StateAt(i)) \in Int
      BY <2>12, <3>4, <3>5, StatesAreSound
    <3>8. StateAt(i).at # Missing
      <4> SUFFICES ASSUME StateAt(i).at = Missing PROVE FALSE
        OBVIOUS
      <4>1. DueNumber(StateAt(i)) = EndOfTime
        BY DEF DueNumber
      <4> QED BY <3>6, <3>7, <4>1
    <3>9. project[i].next # Missing => DueNumber(StateAt(i)) = DayNumber(project[i].next)
      BY <3>4, StatesAreSound
    <3> QED BY <3>6, <3>7, <3>8, <3>9 DEF StateAt
  <2> QED BY <2>4, <2>7, <2>8, <2>10, <2>11, <2>12
<1> QED BY <1>1, SoundHolds, PTL
=============================================================================
