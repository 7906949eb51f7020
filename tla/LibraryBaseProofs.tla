------------------------- MODULE LibraryBaseProofs --------------------------
(***************************************************************************)
(* Theorems about the parts of LibraryBase that keep a state of their own. *)
(*                                                                         *)
(* Calendar. For every time zone and summer time, every length of an hour  *)
(* and every history of calls: the time of a date is exact, dates compare  *)
(* as the days between them say, and a conversion through time_t repairs a *)
(* date. The invariant counts days: the number of the day a date stands    *)
(* for is that of the day the history began with and the days added.       *)
(*                                                                         *)
(* Clocks. For every resolution of the two clocks, every setting of the    *)
(* system clock and any time spent inside a call: a Time comes back from a *)
(* SteadyTime within the time spent in the two conversions and two ticks   *)
(* of the system clock, and the time elapsed never decreases. The          *)
(* invariant says where the point of the SteadyTime lies: as far from the  *)
(* time it was made of, less what the clocks differed by, as making it     *)
(* took, on one side or the other by which clock was read first, and less  *)
(* than a tick of the system clock, which its reading loses.               *)
(*                                                                         *)
(* FlippableQueue. For any number of producers and pushes: the deques are  *)
(* never used by two threads at once, and the queue implements EventQueue. *)
(* The invariant says who is inside a critical section when m_lock is      *)
(* held, and that the deque the next flip will expose to the producers is  *)
(* empty by then.                                                          *)
(***************************************************************************)
EXTENDS Calendar, Clocks, FlippableQueue, WellFoundedInduction, TLAPS

-----------------------------------------------------------------------------
(***************************************************************************)
(* Calendar: years and months.                                             *)
(***************************************************************************)
LEMMA LeastOf ==
  ASSUME NEW S \in SUBSET Nat, S # {}
  PROVE  \E least \in S : \A n \in S : least <= n
<1>1. PICK least \in S : \A n \in S : ~(<< n, least >> \in OpToRel(<, Nat))
  BY WFMin, NatLessThanWellFounded, Zenon
<1>2. OpToRel(<, Nat) = {pair \in Nat \X Nat : pair[1] < pair[2]}
  BY DEF OpToRel
<1>3. \A n \in S : ~(n < least)
  BY <1>1, <1>2
<1> QED
  BY <1>3

LEMMA DivideBack ==
  ASSUME NEW n \in Int, NEW day \in Nat, NEW extra \in Nat, extra < day
  PROVE  (n * day + extra) \div day = n
<1> DEFINE x == n * day + extra
           q == x \div day
<1>1. x \in Int /\ q \in Int /\ day * q <= x /\ x < day * q + day
  OBVIOUS
<1>2. day * n <= x /\ x < day * n + day
  OBVIOUS
<1> HIDE DEF x, q
<1>3. CASE q < n
  <2>1. day * (q + 1) <= day * n
    BY <1>1, <1>3
  <2>2. day * (q + 1) = day * q + day
    BY <1>1
  <2> QED
    BY <1>1, <1>2, <2>1, <2>2
<1>4. CASE n < q
  <2>1. day * (n + 1) <= day * q
    BY <1>1, <1>4
  <2>2. day * (n + 1) = day * n + day
    OBVIOUS
  <2> QED
    BY <1>1, <1>2, <2>1, <2>2
<1> QED
  BY <1>1, <1>3, <1>4 DEF q, x

LEMMA Quarter ==
  ASSUME NEW y \in Int
  PROVE  y \div 4 - (y - 1) \div 4 = IF y % 4 = 0 THEN 1 ELSE 0
OBVIOUS

LEMMA Century ==
  ASSUME NEW y \in Int
  PROVE  y \div 100 - (y - 1) \div 100 = IF y % 100 = 0 THEN 1 ELSE 0
OBVIOUS

LEMMA FourCenturies ==
  ASSUME NEW y \in Int
  PROVE  y \div 400 - (y - 1) \div 400 = IF y % 400 = 0 THEN 1 ELSE 0
OBVIOUS

LEMMA LeapDays ==
  ASSUME NEW y \in Int
  PROVE  /\ LeapsBefore(y) \in Int
         /\ LeapsBefore(y + 1) = LeapsBefore(y) + (IF IsLeap(y) THEN 1 ELSE 0)
<1> DEFINE a == y \div 4
           b == y \div 100
           c == y \div 400
           f == (y - 1) \div 4
           g == (y - 1) \div 100
           h == (y - 1) \div 400
<1>1. a \in Int /\ b \in Int /\ c \in Int /\ f \in Int /\ g \in Int /\ h \in Int
  OBVIOUS
<1>2. /\ a - f = IF y % 4 = 0 THEN 1 ELSE 0
      /\ b - g = IF y % 100 = 0 THEN 1 ELSE 0
      /\ c - h = IF y % 400 = 0 THEN 1 ELSE 0
  BY Quarter, Century, FourCenturies
<1>3. (y % 400 = 0 => y % 100 = 0) /\ (y % 100 = 0 => y % 4 = 0)
  OBVIOUS
<1>4. LeapsBefore(y) = (f - g) + h /\ LeapsBefore(y + 1) = (a - b) + c
  <2>1. (y + 1) - 1 = y
    OBVIOUS
  <2> QED
    BY <1>1, <2>1 DEF LeapsBefore
<1> HIDE DEF a, b, c, f, g, h
<1> QED
  BY <1>1, <1>2, <1>3, <1>4 DEF IsLeap

\* More than a year apart, the leap days do not matter.
LEMMA LeapsSmall ==
  ASSUME NEW y \in Int, NEW z \in Int, y <= z
  PROVE  LeapsBefore(y) - LeapsBefore(z) <= 3
<1> DEFINE a == (y - 1) \div 4
           b == (y - 1) \div 100
           c == (y - 1) \div 400
           f == (z - 1) \div 4
           g == (z - 1) \div 100
           h == (z - 1) \div 400
<1>1. a \in Int /\ b \in Int /\ c \in Int /\ f \in Int /\ g \in Int /\ h \in Int
  OBVIOUS
<1>2. 4 * a <= y - 1 /\ y - 1 < 4 * a + 4 /\ 100 * b <= y - 1 /\ y - 1 < 100 * b + 100 /\ 400 * c <= y - 1 /\ y - 1 < 400 * c + 400
  OBVIOUS
<1>3. 4 * f <= z - 1 /\ z - 1 < 4 * f + 4 /\ 100 * g <= z - 1 /\ z - 1 < 100 * g + 100 /\ 400 * h <= z - 1 /\ z - 1 < 400 * h + 400
  OBVIOUS
<1>4. LeapsBefore(y) = (a - b) + c /\ LeapsBefore(z) = (f - g) + h
  BY <1>1 DEF LeapsBefore
<1> HIDE DEF a, b, c, f, g, h
<1> QED
  BY <1>1, <1>2, <1>3, <1>4

LEMMA Months ==
  ASSUME NEW y \in Int, NEW m \in 1 .. 12
  PROVE  /\ DaysBefore(y, m) \in Nat
         /\ DaysIn(y, m) \in 28 .. 31
         /\ m < 12 => DaysBefore(y, m + 1) = DaysBefore(y, m) + DaysIn(y, m)
         /\ m = 12 => DaysBefore(y, m) + DaysIn(y, m) = 365 + (IF IsLeap(y) THEN 1 ELSE 0)
         /\ m = 1 => DaysBefore(y, m) = 0
<1>1. m = 1 \/ m = 2 \/ m = 3 \/ m = 4 \/ m = 5 \/ m = 6 \/ m = 7 \/ m = 8 \/ m = 9 \/ m = 10 \/ m = 11 \/ m = 12
  OBVIOUS
<1> DEFINE leap == IF IsLeap(y) THEN 1 ELSE 0
<1>2. /\ DaysBefore(y, 1) = 0
      /\ DaysBefore(y, 2) = 31
      /\ DaysBefore(y, 3) = 59 + leap
      /\ DaysBefore(y, 4) = 90 + leap
      /\ DaysBefore(y, 5) = 120 + leap
      /\ DaysBefore(y, 6) = 151 + leap
      /\ DaysBefore(y, 7) = 181 + leap
      /\ DaysBefore(y, 8) = 212 + leap
      /\ DaysBefore(y, 9) = 243 + leap
      /\ DaysBefore(y, 10) = 273 + leap
      /\ DaysBefore(y, 11) = 304 + leap
      /\ DaysBefore(y, 12) = 334 + leap
  BY DEF DaysBefore
<1>3. /\ DaysIn(y, 1) = 31
      /\ DaysIn(y, 2) = 28 + leap
      /\ DaysIn(y, 3) = 31
      /\ DaysIn(y, 4) = 30
      /\ DaysIn(y, 5) = 31
      /\ DaysIn(y, 6) = 30
      /\ DaysIn(y, 7) = 31
      /\ DaysIn(y, 8) = 31
      /\ DaysIn(y, 9) = 30
      /\ DaysIn(y, 10) = 31
      /\ DaysIn(y, 11) = 30
      /\ DaysIn(y, 12) = 31
  BY DEF DaysIn
<1>4. leap \in {0, 1}
  OBVIOUS
<1> HIDE DEF leap
<1> QED
  BY <1>1, <1>2, <1>3, <1>4 DEF leap

LEMMA MonthLength == \A y \in Int : \A m \in 1 .. 12 : DaysIn(y, m) \in 28 .. 31
BY Months

LEMMA FirstMonth == \A y \in Int : DaysBefore(y, 1) = 0
<1>1. 1 \in 1 .. 12
  OBVIOUS
<1> QED
  BY <1>1, Months

LEMMA FirstOfType ==
  ASSUME NEW y \in Int, NEW m \in 1 .. 12
  PROVE  FirstOf(y, m) \in Int
<1>1. LeapsBefore(y) \in Int /\ LeapsBefore(1970) \in Int
  BY LeapDays
<1>2. DaysBefore(y, m) \in Nat
  BY Months
<1> QED
  BY <1>1, <1>2 DEF FirstOf

LEMMA FirstOfNext ==
  ASSUME NEW y \in Int, NEW m \in 1 .. 12
  PROVE  /\ m < 12 => FirstOf(y, m + 1) = FirstOf(y, m) + DaysIn(y, m)
         /\ m = 12 => FirstOf(y + 1, 1) = FirstOf(y, m) + DaysIn(y, m)
<1>1. /\ LeapsBefore(y) \in Int /\ LeapsBefore(1970) \in Int
      /\ LeapsBefore(y + 1) = LeapsBefore(y) + (IF IsLeap(y) THEN 1 ELSE 0)
  BY LeapDays
<1>2. /\ DaysBefore(y, m) \in Nat /\ DaysIn(y, m) \in 28 .. 31
      /\ m < 12 => DaysBefore(y, m + 1) = DaysBefore(y, m) + DaysIn(y, m)
      /\ m = 12 => DaysBefore(y, m) + DaysIn(y, m) = 365 + (IF IsLeap(y) THEN 1 ELSE 0)
  <2>1. DaysBefore(y, m) \in Nat
    BY Months
  <2>2. DaysIn(y, m) \in 28 .. 31
    BY Months
  <2>3. m < 12 => DaysBefore(y, m + 1) = DaysBefore(y, m) + DaysIn(y, m)
    BY Months
  <2>4. m = 12 => DaysBefore(y, m) + DaysIn(y, m) = 365 + (IF IsLeap(y) THEN 1 ELSE 0)
    BY Months
  <2> QED
    BY <2>1, <2>2, <2>3, <2>4
<1>3. y + 1 \in Int
  OBVIOUS
<1>4. DaysBefore(y + 1, 1) = 0
  BY <1>3, FirstMonth
<1> QED
  BY <1>1, <1>2, <1>4 DEF FirstOf

LEMMA MonthsGrow ==
  ASSUME NEW y \in Int, NEW m \in 1 .. 12, NEW k \in 1 .. 12, m < k
  PROVE  FirstOf(y, m) + DaysIn(y, m) <= FirstOf(y, k)
<1>1. /\ FirstOf(y, 1) \in Int /\ FirstOf(y, 2) \in Int /\ FirstOf(y, 3) \in Int /\ FirstOf(y, 4) \in Int
      /\ FirstOf(y, 5) \in Int /\ FirstOf(y, 6) \in Int /\ FirstOf(y, 7) \in Int /\ FirstOf(y, 8) \in Int
      /\ FirstOf(y, 9) \in Int /\ FirstOf(y, 10) \in Int /\ FirstOf(y, 11) \in Int /\ FirstOf(y, 12) \in Int
  BY FirstOfType
<1>2. \A j \in 1 .. 11 : FirstOf(y, j) <= FirstOf(y, j + 1)
  <2> TAKE j \in 1 .. 11
  <2>1. j \in 1 .. 12 /\ j < 12
    OBVIOUS
  <2>2. FirstOf(y, j + 1) = FirstOf(y, j) + DaysIn(y, j) /\ FirstOf(y, j) \in Int /\ DaysIn(y, j) \in 28 .. 31
    BY <2>1, FirstOfNext, FirstOfType, Months
  <2> QED
    BY <2>2
<1>3. /\ FirstOf(y, 1) <= FirstOf(y, 2) /\ FirstOf(y, 2) <= FirstOf(y, 3) /\ FirstOf(y, 3) <= FirstOf(y, 4)
      /\ FirstOf(y, 4) <= FirstOf(y, 5) /\ FirstOf(y, 5) <= FirstOf(y, 6) /\ FirstOf(y, 6) <= FirstOf(y, 7)
      /\ FirstOf(y, 7) <= FirstOf(y, 8) /\ FirstOf(y, 8) <= FirstOf(y, 9) /\ FirstOf(y, 9) <= FirstOf(y, 10)
      /\ FirstOf(y, 10) <= FirstOf(y, 11) /\ FirstOf(y, 11) <= FirstOf(y, 12)
  BY <1>2
<1>4. m + 1 \in 2 .. 12 /\ m + 1 <= k /\ FirstOf(y, m) + DaysIn(y, m) = FirstOf(y, m + 1)
  BY FirstOfNext
<1>5. FirstOf(y, m + 1) <= FirstOf(y, k)
  <2> DEFINE j == m + 1
  <2>1. j \in 2 .. 12 /\ j <= k
    BY <1>4
  <2> HIDE DEF j
  <2>2. /\ j = 2 \/ j = 3 \/ j = 4 \/ j = 5 \/ j = 6 \/ j = 7 \/ j = 8 \/ j = 9 \/ j = 10 \/ j = 11 \/ j = 12
        /\ k = 2 \/ k = 3 \/ k = 4 \/ k = 5 \/ k = 6 \/ k = 7 \/ k = 8 \/ k = 9 \/ k = 10 \/ k = 11 \/ k = 12
    BY <2>1
  <2>3. FirstOf(y, j) <= FirstOf(y, k)
    BY <1>1, <1>3, <2>1, <2>2
  <2> QED
    BY <2>3 DEF j
<1> QED
  BY <1>4, <1>5

LEMMA YearsGrow ==
  ASSUME NEW y \in Int, NEW z \in Int, y < z
  PROVE  FirstOf(y + 1, 1) <= FirstOf(z, 1)
<1>1. /\ LeapsBefore(y + 1) \in Int /\ LeapsBefore(z) \in Int /\ LeapsBefore(1970) \in Int
      /\ LeapsBefore(y + 1) - LeapsBefore(z) <= 3
  BY LeapDays, LeapsSmall
<1>2. DaysBefore(y + 1, 1) = 0 /\ DaysBefore(z, 1) = 0
  BY Months
<1>3. CASE z = y + 1
  <2>1. FirstOf(z, 1) \in Int
    BY FirstOfType
  <2> QED
    BY <1>3, <2>1
<1>4. CASE z > y + 1
  BY <1>1, <1>2, <1>4 DEF FirstOf
<1> QED
  BY <1>3, <1>4

\* A month lies within its year.
LEMMA WithinYear ==
  ASSUME NEW y \in Int, NEW m \in 1 .. 12
  PROVE  FirstOf(y, 1) <= FirstOf(y, m) /\ FirstOf(y, m) + DaysIn(y, m) <= FirstOf(y + 1, 1)
<1>1. /\ FirstOf(y, 1) \in Int /\ FirstOf(y, m) \in Int /\ FirstOf(y, 12) \in Int
      /\ DaysIn(y, 1) \in 28 .. 31 /\ DaysIn(y, m) \in 28 .. 31 /\ DaysIn(y, 12) \in 28 .. 31
      /\ FirstOf(y + 1, 1) = FirstOf(y, 12) + DaysIn(y, 12)
  <2>1. 1 \in 1 .. 12 /\ 12 \in 1 .. 12
    OBVIOUS
  <2>2. FirstOf(y, 1) \in Int /\ FirstOf(y, m) \in Int /\ FirstOf(y, 12) \in Int
    BY <2>1, FirstOfType
  <2>3. DaysIn(y, 1) \in 28 .. 31 /\ DaysIn(y, m) \in 28 .. 31 /\ DaysIn(y, 12) \in 28 .. 31
    BY <2>1, MonthLength
  <2>4. FirstOf(y + 1, 1) = FirstOf(y, 12) + DaysIn(y, 12)
    BY <2>1, FirstOfNext
  <2> QED
    BY <2>2, <2>3, <2>4
<1>2. m # 1 => FirstOf(y, 1) + DaysIn(y, 1) <= FirstOf(y, m)
  BY MonthsGrow
<1>3. m # 12 => FirstOf(y, m) + DaysIn(y, m) <= FirstOf(y, 12)
  BY MonthsGrow
<1> QED
  BY <1>1, <1>2, <1>3

\* The calendar orders dates as their numbers do.
LEMMA OrderOfDates ==
  ASSUME NEW d \in [m_year : Int, m_month : 1 .. 12, m_day : Int], IsDate(d),
         NEW e \in [m_year : Int, m_month : 1 .. 12, m_day : Int], IsDate(e)
  PROVE  before(d, e) => DayNumber(d) < DayNumber(e)
<1> SUFFICES ASSUME before(d, e)
             PROVE  DayNumber(d) < DayNumber(e)
  OBVIOUS
<1> DEFINE y == d.m_year
           m == d.m_month
           z == e.m_year
           k == e.m_month
<1>1. /\ y \in Int /\ m \in 1 .. 12 /\ z \in Int /\ k \in 1 .. 12
      /\ d.m_day \in 1 .. DaysIn(y, m) /\ e.m_day \in 1 .. DaysIn(z, k)
  BY DEF IsDate
<1>2. /\ DayNumber(d) = FirstOf(y, m) + (d.m_day - 1)
      /\ DayNumber(e) = FirstOf(z, k) + (e.m_day - 1)
  BY DEF DayNumber
<1>3. y < z \/ (y = z /\ m < k) \/ (y = z /\ m = k /\ d.m_day < e.m_day)
  BY <1>1 DEF before
<1> HIDE DEF y, m, z, k
<1>4. /\ FirstOf(y, m) \in Int /\ FirstOf(z, k) \in Int /\ FirstOf(z, 1) \in Int /\ FirstOf(y + 1, 1) \in Int
      /\ d.m_day \in Int /\ e.m_day \in Int
  <2>1. DaysIn(y, m) \in 28 .. 31 /\ DaysIn(z, k) \in 28 .. 31
    BY <1>1, MonthLength
  <2>2. FirstOf(y, m) \in Int /\ FirstOf(z, k) \in Int
    BY <1>1, FirstOfType
  <2>3. FirstOf(z, 1) \in Int /\ FirstOf(y + 1, 1) \in Int
    <3>1. y + 1 \in Int /\ 1 \in 1 .. 12
      BY <1>1
    <3> QED
      BY <1>1, <3>1, FirstOfType
  <2> QED
    BY <1>1, <2>1, <2>2, <2>3
<1>5. DaysIn(y, m) \in 28 .. 31 /\ DaysIn(z, k) \in 28 .. 31
  BY <1>1, Months
<1>6. CASE y < z
  <2>1. FirstOf(y, m) + DaysIn(y, m) <= FirstOf(y + 1, 1) /\ FirstOf(z, 1) <= FirstOf(z, k)
    BY <1>1, WithinYear
  <2>2. FirstOf(y + 1, 1) <= FirstOf(z, 1)
    BY <1>1, <1>6, YearsGrow
  <2> QED
    BY <1>1, <1>2, <1>4, <1>5, <2>1, <2>2
<1>7. CASE y = z /\ m < k
  <2>1. FirstOf(y, m) + DaysIn(y, m) <= FirstOf(y, k)
    BY <1>1, <1>7, MonthsGrow
  <2> QED
    BY <1>1, <1>2, <1>4, <1>5, <1>7, <2>1
<1>8. CASE y = z /\ m = k /\ d.m_day < e.m_day
  BY <1>1, <1>2, <1>4, <1>8
<1> QED
  BY <1>3, <1>6, <1>7, <1>8

LEMMA SameNumber ==
  ASSUME NEW d \in [m_year : Int, m_month : 1 .. 12, m_day : Int], IsDate(d),
         NEW e \in [m_year : Int, m_month : 1 .. 12, m_day : Int], IsDate(e)
  PROVE  /\ DayNumber(d) \in Int /\ DayNumber(e) \in Int
         /\ before(d, e) <=> DayNumber(d) < DayNumber(e)
         /\ d = e <=> DayNumber(d) = DayNumber(e)
<1>1. DayNumber(d) \in Int /\ DayNumber(e) \in Int
  <2>1. FirstOf(d.m_year, d.m_month) \in Int /\ FirstOf(e.m_year, e.m_month) \in Int
    BY FirstOfType
  <2> QED
    BY <2>1 DEF DayNumber
<1>2. before(d, e) => DayNumber(d) < DayNumber(e)
  BY OrderOfDates
<1>3. before(e, d) => DayNumber(e) < DayNumber(d)
  BY OrderOfDates
<1>4. before(d, e) \/ before(e, d) \/ d = e
  BY DEF before
<1>5. d = e => DayNumber(d) = DayNumber(e)
  OBVIOUS
<1> QED
  BY <1>1, <1>2, <1>3, <1>4, <1>5

-----------------------------------------------------------------------------
(***************************************************************************)
(* Day numbers and the C library.                                          *)
(***************************************************************************)
LEMMA YearOf ==
  ASSUME NEW n \in Nat, n < FirstOf(LastYear + 1, 1)
  PROVE  \E y \in 1970 .. LastYear : FirstOf(y, 1) <= n /\ n < FirstOf(y + 1, 1)
<1> DEFINE S == {k \in Nat : n < FirstOf((1970 + k) + 1, 1)}
<1>1. LastYear \in Nat
  BY CalendarAssumption
<1>2. FirstOf(1970, 1) = 0
  <2>1. DaysBefore(1970, 1) = 0
    BY Months
  <2>2. LeapsBefore(1970) \in Int
    BY LeapDays
  <2> QED
    BY <2>1, <2>2 DEF FirstOf
<1>3. LastYear >= 1970
  <2> SUFFICES ASSUME LastYear < 1970
               PROVE  FALSE
    BY <1>1
  <2>1. LastYear + 1 \in Int /\ FirstOf(LastYear + 1, 1) \in Int
    BY <1>1, FirstOfType
  <2>2. FirstOf(LastYear + 1, 1) <= FirstOf(1970, 1)
    BY <1>1, YearsGrow
  <2> QED
    BY <1>2, <2>1, <2>2
<1>4. LastYear - 1970 \in S
  <2>1. (1970 + (LastYear - 1970)) + 1 = LastYear + 1 /\ LastYear - 1970 \in Nat
    BY <1>1, <1>3
  <2> QED
    BY <2>1
<1>5. PICK k \in S : \A j \in S : k <= j
  <2>1. S \in SUBSET Nat /\ S # {}
    BY <1>4
  <2> HIDE DEF S
  <2> QED
    BY <2>1, LeastOf
<1>6. k \in Nat /\ k <= LastYear - 1970 /\ n < FirstOf((1970 + k) + 1, 1)
  BY <1>4, <1>5
<1>7. FirstOf(1970 + k, 1) <= n
  <2>1. FirstOf(1970 + k, 1) \in Int
    BY <1>6, FirstOfType
  <2>2. CASE k = 0
    BY <1>2, <2>2
  <2>3. CASE k # 0
    <3>1. k - 1 \in Nat /\ ~(k <= k - 1) /\ (1970 + (k - 1)) + 1 = 1970 + k
      BY <1>6, <2>3
    <3>2. k - 1 \notin S
      BY <1>5, <3>1
    <3> QED
      BY <2>1, <3>1, <3>2
  <2> QED
    BY <2>2, <2>3
<1> QED
  BY <1>1, <1>3, <1>6, <1>7

LEMMA MonthOf ==
  ASSUME NEW y \in Int, NEW n \in Int, FirstOf(y, 1) <= n, n < FirstOf(y + 1, 1)
  PROVE  \E m \in 1 .. 12 : FirstOf(y, m) <= n /\ n < FirstOf(y, m) + DaysIn(y, m)
<1>1. \A m \in 1 .. 12 :
        /\ FirstOf(y, m) \in Int
        /\ m < 12 => FirstOf(y, m + 1) = FirstOf(y, m) + DaysIn(y, m)
        /\ m = 12 => FirstOf(y + 1, 1) = FirstOf(y, m) + DaysIn(y, m)
  BY FirstOfType, FirstOfNext
<1>2. SUFFICES ASSUME \A m \in 1 .. 12 : FirstOf(y, m) <= n => ~(n < FirstOf(y, m) + DaysIn(y, m))
               PROVE  FALSE
  OBVIOUS
<1>3. \A m \in 1 .. 11 : FirstOf(y, m) <= n => FirstOf(y, m + 1) <= n
  <2> SUFFICES ASSUME NEW m \in 1 .. 11, FirstOf(y, m) <= n
               PROVE  FirstOf(y, m + 1) <= n
    OBVIOUS
  <2>1. m \in 1 .. 12 /\ m < 12 /\ m + 1 \in 1 .. 12
    OBVIOUS
  <2>2. FirstOf(y, m + 1) = FirstOf(y, m) + DaysIn(y, m) /\ FirstOf(y, m + 1) \in Int
    BY <1>1, <2>1
  <2>3. ~(n < FirstOf(y, m) + DaysIn(y, m))
    BY <1>2, <2>1
  <2> QED
    BY <2>2, <2>3
<1>4. FirstOf(y, 12) <= n
  BY <1>3
<1> QED
  BY <1>1, <1>2, <1>4

LEMMA TmOf ==
  ASSUME NEW n \in Nat, n < FirstOf(LastYear + 1, 1)
  PROVE  \E y \in Int : \E m \in 1 .. 12 :
           /\ 1970 <= y /\ y <= LastYear
           /\ tmOf(n) = [tm_year |-> y - 1900, tm_mon |-> m - 1, tm_mday |-> n - FirstOf(y, m) + 1]
           /\ FirstOf(y, m) <= n /\ n < FirstOf(y, m) + DaysIn(y, m)
<1> DEFINE year == CHOOSE y \in 1969 .. LastYear : FirstOf(y, 1) <= n /\ n < FirstOf(y + 1, 1)
           month == CHOOSE m \in 1 .. 12 :
                      FirstOf(year, m) <= n /\ n < FirstOf(year, m) + DaysIn(year, m)
<1>1. LastYear \in Nat
  BY CalendarAssumption
<1>2. \E y \in 1970 .. LastYear : FirstOf(y, 1) <= n /\ n < FirstOf(y + 1, 1)
  BY YearOf
<1>3. year \in 1969 .. LastYear /\ FirstOf(year, 1) <= n /\ n < FirstOf(year + 1, 1)
  <2>1. \E y \in 1969 .. LastYear : FirstOf(y, 1) <= n /\ n < FirstOf(y + 1, 1)
    BY <1>1, <1>2
  <2> QED
    BY <2>1
<1> HIDE DEF year
<1>4. month \in 1 .. 12 /\ FirstOf(year, month) <= n /\ n < FirstOf(year, month) + DaysIn(year, month)
  <2>1. \E m \in 1 .. 12 : FirstOf(year, m) <= n /\ n < FirstOf(year, m) + DaysIn(year, m)
    <3>1. year \in Int
      BY <1>1, <1>3
    <3> QED
      BY <1>3, <3>1, MonthOf
  <2> QED
    BY <2>1
<1>5. tmOf(n) = [tm_year |-> year - 1900, tm_mon |-> month - 1, tm_mday |-> n - FirstOf(year, month) + 1]
  BY DEF tmOf, year, month
<1> HIDE DEF month
<1>6. year # 1969
  <2> SUFFICES ASSUME year = 1969
               PROVE  FALSE
    OBVIOUS
  <2>1. DaysBefore(1970, 1) = 0
    BY Months
  <2>2. FirstOf(1970, 1) = 0
    <3>1. LeapsBefore(1970) \in Int
      BY LeapDays
    <3> QED
      BY <2>1, <3>1 DEF FirstOf
  <2>3. year + 1 = 1970
    OBVIOUS
  <2> QED
    BY <1>3, <2>2, <2>3
<1>7. year \in 1970 .. LastYear
  BY <1>1, <1>3, <1>6
<1> DEFINE Fits(y, m) ==
             /\ 1970 <= y /\ y <= LastYear
             /\ tmOf(n) = [tm_year |-> y - 1900, tm_mon |-> m - 1, tm_mday |-> n - FirstOf(y, m) + 1]
             /\ FirstOf(y, m) <= n /\ n < FirstOf(y, m) + DaysIn(y, m)
<1>8. year \in Int /\ month \in 1 .. 12 /\ 1970 <= year /\ year <= LastYear
  BY <1>1, <1>4, <1>7
<1>9. Fits(year, month)
  BY <1>4, <1>5, <1>8
<1> SUFFICES \E y \in Int : \E m \in 1 .. 12 : Fits(y, m)
  OBVIOUS
<1> HIDE DEF Fits
<1> QED
  BY <1>8, <1>9

\* A date that comes from a time_t is a date of the calendar, with the day number
\* that the time_t stood for.
LEMMA Exchange ==
  ASSUME NEW d \in [m_year : Int, m_month : 1 .. 12, m_day : Int],
         DayNumber(d) \in Int, DayNumber(d) < FirstOf(LastYear + 1, 1), to_time_t(d) # -1
  PROVE  /\ from_time_t(to_time_t(d)) \in [m_year : 1970 .. LastYear, m_month : 1 .. 12, m_day : 1 .. 31]
         /\ IsDate(from_time_t(to_time_t(d)))
         /\ DayNumber(from_time_t(to_time_t(d))) = DayNumber(d)
<1> DEFINE n == DayNumber(d)
           time == n * DAY - Zone * HOUR
           noon == time + Zone * HOUR
<1>1. HOUR \in Nat /\ HOUR > 0 /\ Zone \in Int /\ Zone >= -12 /\ LastYear \in Nat
  BY CalendarAssumption
<1>2. n \in Int
  OBVIOUS
<1>3. to_time_t(d) = time /\ ~(time < 0)
  BY DEF to_time_t, mktime
<1>4. DAY \in Nat /\ HOUR < DAY /\ DAY > 0
  BY <1>1 DEF DAY
<1> HIDE DEF n
<1>5. n \in Nat
  <2> SUFFICES ASSUME n <= -1
               PROVE  FALSE
    BY <1>2
  <2>1. time = (24 * n - Zone) * HOUR
    BY <1>1, <1>2 DEF DAY
  <2>2. 24 * n - Zone <= -12
    BY <1>1, <1>2
  <2> DEFINE k == 24 * n - Zone
  <2>3. k \in Int /\ k <= -12
    BY <1>1, <1>2, <2>2
  <2> HIDE DEF k
  <2>4. k * HOUR < 0
    BY <1>1, <2>3
  <2> QED
    BY <1>3, <2>1, <2>4 DEF k
<1>6. noon = n * DAY
  <2>1. n * DAY \in Int /\ Zone * HOUR \in Int
    BY <1>1, <1>2, <1>4
  <2> DEFINE a == n * DAY
             b == Zone * HOUR
  <2> HIDE DEF a, b
  <2>2. (a - b) + b = a
    BY <2>1 DEF a, b
  <2> QED
    BY <2>2 DEF a, b
<1>7. noon \div DAY = n /\ (noon + HOUR) \div DAY = n /\ (noon + 0) \div DAY = n
  <2> HIDE DEF noon
  <2>1. \A extra \in 0 .. HOUR : (noon + extra) \div DAY = n
    BY <1>1, <1>2, <1>4, <1>6, DivideBack
  <2>2. noon + 0 = noon
    BY <1>2, <1>4, <1>6
  <2> QED
    BY <1>1, <2>1, <2>2
<1>8. localtime(to_time_t(d)) = tmOf(n)
  <2>1. localtime(time) = tmOf((noon + (IF tmOf(noon \div DAY).tm_mon + 1 \in SummerMonths THEN HOUR ELSE 0)) \div DAY)
    BY DEF localtime
  <2> HIDE DEF noon
  <2> QED
    BY <1>3, <1>7, <2>1
<1>9. PICK y \in Int : \E m \in 1 .. 12 :
        /\ 1970 <= y /\ y <= LastYear
        /\ tmOf(n) = [tm_year |-> y - 1900, tm_mon |-> m - 1, tm_mday |-> n - FirstOf(y, m) + 1]
        /\ FirstOf(y, m) <= n /\ n < FirstOf(y, m) + DaysIn(y, m)
  BY <1>5, TmOf DEF n
<1>10. PICK m \in 1 .. 12 :
        /\ 1970 <= y /\ y <= LastYear
        /\ tmOf(n) = [tm_year |-> y - 1900, tm_mon |-> m - 1, tm_mday |-> n - FirstOf(y, m) + 1]
        /\ FirstOf(y, m) <= n /\ n < FirstOf(y, m) + DaysIn(y, m)
  BY <1>9
<1>11. /\ y \in Int /\ FirstOf(y, m) \in Int /\ DaysIn(y, m) \in 28 .. 31
       /\ (y - 1900) + 1900 = y /\ (m - 1) + 1 = m
  <2>1. y \in Int /\ m \in 1 .. 12
    BY <1>9, <1>10
  <2>2. FirstOf(y, m) \in Int
    BY <2>1, FirstOfType
  <2>3. DaysIn(y, m) \in 28 .. 31
    BY <2>1, Months
  <2> QED
    BY <2>1, <2>2, <2>3
<1>12. from_time_t(to_time_t(d)) = Date(y, m, n - FirstOf(y, m) + 1)
  BY <1>8, <1>10, <1>11 DEF from_time_t
<1> DEFINE e == Date(y, m, n - FirstOf(y, m) + 1)
<1>13. e.m_year = y /\ e.m_month = m /\ e.m_day = n - FirstOf(y, m) + 1 /\ e.m_day \in 1 .. DaysIn(y, m)
  BY <1>2, <1>10, <1>11 DEF Date
<1>14. e \in [m_year : 1970 .. LastYear, m_month : 1 .. 12, m_day : 1 .. 31]
  BY <1>1, <1>10, <1>11, <1>13 DEF Date
<1>15. IsDate(e)
  BY <1>13 DEF IsDate
<1>16. DayNumber(e) = n
  BY <1>2, <1>11, <1>13 DEF DayNumber
<1> QED
  BY <1>12, <1>14, <1>15, <1>16 DEF n

-----------------------------------------------------------------------------
(***************************************************************************)
(* The inductive invariant of a history: the number of a date is that of   *)
(* the date it began with and the days added since, in whatever month      *)
(* those days are kept.                                                    *)
(***************************************************************************)
StartOK ==
  /\ start \in [m_year : 1970 .. LastYear, m_month : 1 .. 12, m_day : 1 .. 31]
  /\ IsDate(start)
  /\ DayNumber(start) + MaxAdded < FirstOf(LastYear + 1, 1)

DateOK ==
  /\ date \in [m_year : 1970 .. LastYear, m_month : 1 .. 12, m_day : Int]
  /\ date.m_day - added \in (1 - MaxAdded) .. (31 + MaxAdded)

CalendarIInv ==
  /\ StartOK
  /\ DateOK
  /\ added \in -MaxAdded .. MaxAdded
  /\ DayNumber(date) = DayNumber(start) + added

LEMMA DayNumberType ==
  ASSUME NEW d \in [m_year : Int, m_month : 1 .. 12, m_day : Int]
  PROVE  DayNumber(d) \in Int
<1>1. FirstOf(d.m_year, d.m_month) \in Int
  BY FirstOfType
<1> QED
  BY <1>1 DEF DayNumber

LEMMA FreshDate ==
  ASSUME NEW d, d \in Starts \cup {Date(1970, 1, 1)}
  PROVE  /\ d \in [m_year : 1970 .. LastYear, m_month : 1 .. 12, m_day : 1 .. 31]
         /\ d \in [m_year : Int, m_month : 1 .. 12, m_day : Int]
         /\ IsDate(d)
         /\ DayNumber(d) + MaxAdded < FirstOf(LastYear + 1, 1)
         /\ DayNumber(d) \in Int
<1>1. /\ d \in [m_year : 1970 .. LastYear, m_month : 1 .. 12, m_day : 1 .. 31]
      /\ IsDate(d)
      /\ DayNumber(d) + MaxAdded < FirstOf(LastYear + 1, 1)
  BY StartsAssumption
<1>2. d \in [m_year : Int, m_month : 1 .. 12, m_day : Int]
  BY <1>1, CalendarAssumption
<1> QED
  BY <1>1, <1>2, DayNumberType

LEMMA CalendarTypes ==
  ASSUME CalendarIInv
  PROVE  /\ start \in [m_year : Int, m_month : 1 .. 12, m_day : Int]
         /\ date \in [m_year : Int, m_month : 1 .. 12, m_day : Int]
         /\ DayNumber(start) \in Int /\ DayNumber(date) \in Int
         /\ added \in Int /\ added <= MaxAdded /\ -MaxAdded <= added /\ MaxAdded \in Nat
<1>1. LastYear \in Nat /\ MaxAdded \in Nat
  BY CalendarAssumption
<1>2. /\ start \in [m_year : Int, m_month : 1 .. 12, m_day : Int]
      /\ date \in [m_year : Int, m_month : 1 .. 12, m_day : Int]
  BY <1>1 DEF CalendarIInv, StartOK, DateOK
<1>3. added \in Int /\ added <= MaxAdded /\ -MaxAdded <= added
  BY <1>1 DEF CalendarIInv
<1> QED
  BY <1>1, <1>2, <1>3, DayNumberType

LEMMA CalendarBegins == CalendarInit => CalendarIInv
<1> SUFFICES ASSUME CalendarInit
             PROVE  CalendarIInv
  OBVIOUS
<1>1. start \in Starts \cup {Date(1970, 1, 1)} /\ date = start /\ added = 0
  BY DEF CalendarInit
<1>2. MaxAdded \in Nat /\ LastYear \in Nat
  BY CalendarAssumption
<1>3. /\ start \in [m_year : 1970 .. LastYear, m_month : 1 .. 12, m_day : 1 .. 31]
      /\ IsDate(start)
      /\ DayNumber(start) + MaxAdded < FirstOf(LastYear + 1, 1)
      /\ DayNumber(start) \in Int
  BY <1>1, FreshDate
<1>4. DateOK
  BY <1>1, <1>2, <1>3 DEF DateOK
<1> QED
  BY <1>1, <1>2, <1>3, <1>4 DEF CalendarIInv, StartOK

LEMMA AddDaysStep ==
  ASSUME CalendarIInv, NEW days \in Steps, AddDays(days)
  PROVE  CalendarIInv'
<1>1. /\ start \in [m_year : Int, m_month : 1 .. 12, m_day : Int]
      /\ date \in [m_year : Int, m_month : 1 .. 12, m_day : Int]
      /\ DayNumber(start) \in Int /\ DayNumber(date) \in Int
      /\ added \in Int /\ MaxAdded \in Nat
  BY CalendarTypes
<1>2. days \in Int
  BY CalendarAssumption
<1>3. /\ date' = [date EXCEPT !.m_day = @ + days]
      /\ added' = added + days /\ added' \in -MaxAdded .. MaxAdded
      /\ start' = start
  BY DEF AddDays, daysAfter
<1>4. /\ date'.m_year = date.m_year /\ date'.m_month = date.m_month
      /\ date'.m_day = date.m_day + days
      /\ date.m_day \in Int
  BY <1>1, <1>3
<1>5. DayNumber(date') = DayNumber(date) + days
  <2>1. FirstOf(date.m_year, date.m_month) \in Int
    BY <1>1, FirstOfType
  <2> QED
    BY <1>2, <1>4, <2>1 DEF DayNumber
<1>6. DateOK'
  <2>1. date' \in [m_year : 1970 .. LastYear, m_month : 1 .. 12, m_day : Int]
    BY <1>1, <1>2, <1>3 DEF CalendarIInv, DateOK
  <2>2. date'.m_day - added' = date.m_day - added
    BY <1>1, <1>2, <1>3, <1>4
  <2> QED
    BY <2>1, <2>2 DEF CalendarIInv, DateOK
<1>7. DayNumber(date') = DayNumber(start') + added'
  <2>1. DayNumber(date) = DayNumber(start) + added
    BY DEF CalendarIInv
  <2> QED
    BY <1>1, <1>2, <1>3, <1>5, <2>1
<1>8. StartOK'
  BY <1>3 DEF CalendarIInv, StartOK
<1> QED
  BY <1>3, <1>6, <1>7, <1>8 DEF CalendarIInv

LEMMA ThroughTimeGives ==
  ASSUME CalendarIInv, ThroughTime
  PROVE  /\ date' \in [m_year : 1970 .. LastYear, m_month : 1 .. 12, m_day : 1 .. 31]
         /\ IsDate(date')
         /\ DayNumber(date') = DayNumber(date)
<1>1. /\ date \in [m_year : Int, m_month : 1 .. 12, m_day : Int]
      /\ DayNumber(start) \in Int /\ DayNumber(date) \in Int
      /\ added \in Int /\ added <= MaxAdded /\ MaxAdded \in Nat
  BY CalendarTypes
<1>2. DayNumber(date) < FirstOf(LastYear + 1, 1)
  <2>1. /\ DayNumber(date) = DayNumber(start) + added
        /\ DayNumber(start) + MaxAdded < FirstOf(LastYear + 1, 1)
    BY DEF CalendarIInv, StartOK
  <2>2. LastYear + 1 \in Int /\ 1 \in 1 .. 12
    BY CalendarAssumption
  <2>3. FirstOf(LastYear + 1, 1) \in Int
    BY <2>2, FirstOfType
  <2> QED
    BY <1>1, <2>1, <2>3
<1> QED
  BY <1>1, <1>2, Exchange DEF ThroughTime

LEMMA ThroughTimeStep ==
  ASSUME CalendarIInv, ThroughTime
  PROVE  CalendarIInv'
<1>1. /\ date' \in [m_year : 1970 .. LastYear, m_month : 1 .. 12, m_day : 1 .. 31]
      /\ DayNumber(date') = DayNumber(date)
  BY ThroughTimeGives
<1>2. start' = start /\ added' = added
  BY DEF ThroughTime
<1>3. added \in Int /\ added <= MaxAdded /\ -MaxAdded <= added /\ MaxAdded \in Nat
  BY CalendarTypes
<1>4. DateOK'
  BY <1>1, <1>2, <1>3 DEF DateOK
<1> QED
  BY <1>1, <1>2, <1>4 DEF CalendarIInv, StartOK

LEMMA TodayStep ==
  ASSUME Today
  PROVE  CalendarIInv'
<1> DEFINE d == Date(1970, 1, 1)
<1>1. d \in Starts \cup {Date(1970, 1, 1)}
  OBVIOUS
<1>2. /\ d \in [m_year : 1970 .. LastYear, m_month : 1 .. 12, m_day : 1 .. 31]
      /\ IsDate(d)
      /\ DayNumber(d) + MaxAdded < FirstOf(LastYear + 1, 1)
      /\ DayNumber(d) \in Int
  BY <1>1, FreshDate
<1>3. daysAfter(d, 0) = d
  BY DEF daysAfter, Date
<1>4. date' = d /\ start' = d /\ added' = 0
  BY <1>3 DEF Today
<1>5. MaxAdded \in Nat
  BY CalendarAssumption
<1> HIDE DEF d
<1>6. DateOK'
  BY <1>2, <1>4, <1>5 DEF DateOK
<1> QED
  BY <1>2, <1>4, <1>5, <1>6 DEF CalendarIInv, StartOK

\* In every reachable state the date stands for the day it should.
THEOREM CalendarInductive == CalendarSpec => []CalendarIInv
<1>1. CalendarIInv /\ [CalendarNext]_calendarVars => CalendarIInv'
  <2> SUFFICES ASSUME CalendarIInv, [CalendarNext]_calendarVars
               PROVE  CalendarIInv'
    OBVIOUS
  <2>1. CASE UNCHANGED calendarVars
    BY <2>1 DEF CalendarIInv, StartOK, DateOK, calendarVars
  <2> QED
    BY <2>1, AddDaysStep, ThroughTimeStep, TodayStep DEF CalendarNext
<1> QED
  BY <1>1, CalendarBegins, PTL DEF CalendarSpec

\* The time of a date is that of the date the history began with and the days
\* added since, exactly, however they were added and converted in between, across
\* months, leap years and summer time (Date.cpp:20-27).
THEOREM TimeAlwaysExact == CalendarSpec => []TimeExact
<1>1. CalendarIInv => TimeExact
  <2> SUFFICES ASSUME CalendarIInv, to_time_t(start) # -1, to_time_t(date) # -1
               PROVE  to_time_t(date) = to_time_t(start) + added * DAY
    BY DEF TimeExact
  <2> DEFINE n == DayNumber(start)
             k == DayNumber(date)
  <2>1. n \in Int /\ k \in Int /\ added \in Int /\ k = n + added
    BY CalendarTypes DEF CalendarIInv
  <2>2. DAY \in Int /\ Zone * HOUR \in Int
    BY CalendarAssumption DEF DAY
  <2>3. to_time_t(start) = n * DAY - Zone * HOUR /\ to_time_t(date) = k * DAY - Zone * HOUR
    BY DEF to_time_t, mktime
  <2> DEFINE off == Zone * HOUR
  <2> HIDE DEF n, k, off
  <2>4. k * DAY = n * DAY + added * DAY
    BY <2>1, <2>2
  <2>5. n * DAY \in Int /\ added * DAY \in Int /\ off \in Int
    BY <2>1, <2>2 DEF off
  <2>6. (n * DAY + added * DAY) - off = (n * DAY - off) + added * DAY
    BY <2>5
  <2> QED
    BY <2>3, <2>4, <2>6 DEF off
<1> QED
  BY <1>1, CalendarInductive, PTL

\* Dates compare as the days between them say (Date.h:54-71).
THEOREM OrderAlwaysAgrees == CalendarSpec => []OrderAgrees
<1>1. CalendarIInv => OrderAgrees
  <2> SUFFICES ASSUME CalendarIInv, IsDate(start), IsDate(date)
               PROVE  /\ before(start, date) <=> added > 0
                      /\ start = date <=> added = 0
    BY DEF OrderAgrees
  <2>1. /\ start \in [m_year : Int, m_month : 1 .. 12, m_day : Int]
        /\ date \in [m_year : Int, m_month : 1 .. 12, m_day : Int]
        /\ DayNumber(start) \in Int /\ DayNumber(date) \in Int /\ added \in Int
        /\ DayNumber(date) = DayNumber(start) + added
    BY CalendarTypes DEF CalendarIInv
  <2>2. /\ before(start, date) <=> DayNumber(start) < DayNumber(date)
        /\ start = date <=> DayNumber(start) = DayNumber(date)
    BY <2>1, SameNumber
  <2> QED
    BY <2>1, <2>2
<1> QED
  BY <1>1, CalendarInductive, PTL

\* A conversion through time_t makes a day of a month of what stands for the same
\* day, and leaves a date of the calendar alone, whatever the time zone and the
\* months of summer time (Date.h:29-33).
THEOREM ThroughTimeAlwaysRepairs == CalendarSpec => ThroughTimeRepairs
<1>1. CalendarIInv /\ [CalendarNext]_calendarVars
        => [ThroughTime =>
              /\ IsDate(date')
              /\ DayNumber(date') = DayNumber(date)
              /\ IsDate(date) => date' = date]_calendarVars
  <2> SUFFICES ASSUME CalendarIInv, ThroughTime
               PROVE  /\ IsDate(date')
                      /\ DayNumber(date') = DayNumber(date)
                      /\ IsDate(date) => date' = date
    OBVIOUS
  <2>1. /\ date' \in [m_year : 1970 .. LastYear, m_month : 1 .. 12, m_day : 1 .. 31]
        /\ IsDate(date')
        /\ DayNumber(date') = DayNumber(date)
    BY ThroughTimeGives
  <2>2. /\ date \in [m_year : Int, m_month : 1 .. 12, m_day : Int]
        /\ date' \in [m_year : Int, m_month : 1 .. 12, m_day : Int]
    BY <2>1, CalendarTypes, CalendarAssumption
  <2>3. IsDate(date) => (date = date' <=> DayNumber(date) = DayNumber(date'))
    BY <2>1, <2>2, SameNumber
  <2> QED
    BY <2>1, <2>3
<1> QED
  BY <1>1, CalendarInductive, PTL DEF CalendarSpec, ThroughTimeRepairs

-----------------------------------------------------------------------------
(***************************************************************************)
(* Clocks: the inductive invariant.                                        *)
(***************************************************************************)
Making ==
  [running : {"make"}, time : Int, first : {"steady", "system"}, read : Int, skew : Int, since : Int]

Showing == [running : {"to_time_t"}, diff : Int, since : Int]

\* What the call that is running has read is what a clock showed at its beginning.
CallOK ==
  \/ call = Idle
  \/ /\ call \in Making
     /\ call.since <= steady
     /\ call.read = IF call.first = "steady" THEN call.since ELSE (call.since + call.skew) \div PERIOD
  \/ /\ call \in Showing
     /\ call.since <= steady
     /\ call.diff = duration_cast(call.since - m_timepoint, PERIOD)

\* The point of the SteadyTime: what the system clock had not shown yet when it
\* was read, less than a tick of it, is in the point.
PointOK ==
  /\ made \in [time : Int, skew : Int, slack : Nat]
  /\ m_timepoint \in Int
  /\ (made.time * SECOND) * PERIOD - made.skew - made.slack <= m_timepoint
  /\ m_timepoint <= (made.time * SECOND) * PERIOD - made.skew + made.slack + (PERIOD - 1)

\* The ticks x that to_time_t cut to seconds.
ShownOK ==
  shown = Unknown \/
    \E x \in Int :
      /\ shown \in [value : {duration_cast(x, SECOND)}, skew : Int, slack : Nat]
      /\ m_timepoint + shown.skew - 2 * (PERIOD - 1) <= PERIOD * x
      /\ PERIOD * x <= m_timepoint + shown.skew + shown.slack + (PERIOD - 1)

ElapsedOK ==
  elapsed = Unknown \/
    \E x \in Int : elapsed = duration_cast(x, SECOND * PERIOD) /\ x <= steady - m_timepoint

ClocksIInv ==
  /\ steady \in Int
  /\ skew \in Int
  /\ CallOK
  /\ PointOK
  /\ ShownOK
  /\ ElapsedOK

-----------------------------------------------------------------------------
(***************************************************************************)
(* Casts.                                                                  *)
(***************************************************************************)
LEMMA Quotient ==
  ASSUME NEW n \in Nat \ {0}
  PROVE  \A k \in Nat : k \div n \in Nat /\ n * (k \div n) <= k /\ k < n * (k \div n) + n
OBVIOUS

\* Dividing keeps the order.
LEMMA DivideMonotone ==
  ASSUME NEW n \in Nat \ {0}, NEW j \in Nat, NEW k \in Nat, j <= k
  PROVE  j \div n <= k \div n
<1> DEFINE p == j \div n
           q == k \div n
<1>1. /\ p \in Nat /\ n * p <= j
      /\ q \in Nat /\ k < n * q + n
  BY Quotient
<1> HIDE DEF p, q
<1>2. n * p < n * q + n
  BY <1>1
<1>3. ASSUME q < p
      PROVE  FALSE
  <2>1. p = q + 1 + (p - q - 1) /\ p - q - 1 \in Nat
    BY <1>1, <1>3
  <2> DEFINE e == p - q - 1
  <2> HIDE DEF e
  <2>2. n * p = n * q + n + n * e /\ n * e \in Nat /\ n * q \in Nat
    BY <1>1, <2>1 DEF e
  <2> QED
    BY <1>2, <2>2
<1>4. p <= q
  BY <1>1, <1>3
<1> QED
  BY <1>4 DEF p, q

LEMMA CastMonotone ==
  ASSUME NEW n \in Nat \ {0}, NEW x \in Int, NEW y \in Int, x <= y
  PROVE  duration_cast(x, n) \in Int /\ duration_cast(y, n) \in Int /\ duration_cast(x, n) <= duration_cast(y, n)
<1>1. \A k \in Nat : k \div n \in Nat
  BY Quotient
<1>2. CASE x >= 0
  <2>1. x \in Nat /\ y \in Nat
    BY <1>2
  <2>2. x \div n <= y \div n
    BY <2>1, DivideMonotone
  <2>3. duration_cast(x, n) = x \div n /\ duration_cast(y, n) = y \div n
    BY <2>1 DEF duration_cast
  <2> QED
    BY <1>1, <2>1, <2>2, <2>3
<1>3. CASE x < 0 /\ y >= 0
  <2>1. -x \in Nat /\ y \in Nat
    BY <1>3
  <2>2. duration_cast(x, n) = -((-x) \div n) /\ duration_cast(y, n) = y \div n
    BY <1>3 DEF duration_cast
  <2>3. (-x) \div n \in Nat /\ y \div n \in Nat
    BY <1>1, <2>1
  <2> QED
    BY <2>2, <2>3
<1>4. CASE x < 0 /\ y < 0
  <2>1. -x \in Nat /\ -y \in Nat /\ -y <= -x
    BY <1>4
  <2>2. (-y) \div n <= (-x) \div n
    BY <2>1, DivideMonotone
  <2>3. duration_cast(x, n) = -((-x) \div n) /\ duration_cast(y, n) = -((-y) \div n)
    BY <1>4 DEF duration_cast
  <2>4. (-x) \div n \in Nat /\ (-y) \div n \in Nat
    BY <1>1, <2>1
  <2> QED
    BY <2>2, <2>3, <2>4
<1> QED
  BY <1>2, <1>3, <1>4

\* What a cast loses is less than a unit, on either side of zero.
LEMMA CastLoses ==
  ASSUME NEW n \in Nat \ {0}, NEW x \in Int
  PROVE  /\ duration_cast(x, n) \in Int
         /\ x - (n - 1) <= n * duration_cast(x, n)
         /\ n * duration_cast(x, n) <= x + (n - 1)
<1>1. \A k \in Nat : k \div n \in Nat /\ n * (k \div n) <= k /\ k < n * (k \div n) + n
  BY Quotient
<1>2. CASE x >= 0
  <2>1. x \in Nat /\ duration_cast(x, n) = x \div n
    BY <1>2 DEF duration_cast
  <2> DEFINE q == x \div n
  <2>2. q \in Nat /\ n * q <= x /\ x < n * q + n
    BY <1>1, <2>1
  <2> HIDE DEF q
  <2>3. n * q \in Int
    BY <2>2
  <2>4. duration_cast(x, n) = q
    BY <2>1 DEF q
  <2> QED
    BY <2>2, <2>3, <2>4
<1>3. CASE x < 0
  <2>1. -x \in Nat /\ duration_cast(x, n) = -((-x) \div n)
    BY <1>3 DEF duration_cast
  <2> DEFINE q == (-x) \div n
  <2>2. q \in Nat /\ n * q <= -x /\ -x < n * q + n
    BY <1>1, <2>1
  <2> HIDE DEF q
  <2>3. n * q \in Int /\ n * (-q) = -(n * q)
    BY <2>2
  <2>4. duration_cast(x, n) = -q
    BY <2>1 DEF q
  <2> QED
    BY <2>2, <2>3, <2>4
<1> QED
  BY <1>2, <1>3

LEMMA ScaleDivision ==
  ASSUME NEW n \in Nat \ {0}, NEW p \in Nat \ {0}, NEW k \in Nat
  PROVE  (p * k) \div (n * p) = k \div n
<1> DEFINE q == k \div n
<1>1. q \in Nat /\ n * q <= k /\ k < n * q + n
  BY Quotient
<1> HIDE DEF q
<1> DEFINE e == k - n * q
           d == n * p
<1>2. e \in Nat /\ e <= n - 1 /\ k = n * q + e
  BY <1>1
<1>3. d \in Nat /\ d # 0 /\ d = n * p
  OBVIOUS
<1> HIDE DEF e, d
<1>4. p * e \in Nat /\ p * e <= p * (n - 1)
  BY <1>2
<1>5. p * (n - 1) = d - p /\ p * (n - 1) \in Int
  BY <1>3
<1>6. p * e < d
  BY <1>3, <1>4, <1>5
<1>7. p * k = q * d + p * e
  <2>1. p * k = p * (n * q) + p * e
    BY <1>1, <1>2
  <2>2. p * (n * q) = q * d
    BY <1>1, <1>3
  <2> QED
    BY <2>1, <2>2
<1>8. (q * d + p * e) \div d = q
  <2> DEFINE f == p * e
  <2>1. f \in Nat /\ f < d
    BY <1>4, <1>6
  <2> HIDE DEF f
  <2>2. (q * d + f) \div d = q
    BY <1>1, <1>3, <2>1, DivideBack
  <2> QED
    BY <2>2 DEF f
<1> QED
  BY <1>3, <1>7, <1>8 DEF q

\* It does not matter in which of two units a duration is cut.
LEMMA CastScaled ==
  ASSUME NEW n \in Nat \ {0}, NEW p \in Nat \ {0}, NEW x \in Int
  PROVE  duration_cast(p * x, n * p) = duration_cast(x, n)
<1>1. CASE x >= 0
  <2>1. x \in Nat /\ p * x >= 0
    BY <1>1
  <2>2. (p * x) \div (n * p) = x \div n
    BY <2>1, ScaleDivision
  <2> QED
    BY <1>1, <2>1, <2>2 DEF duration_cast
<1>2. CASE x < 0
  <2>1. -x \in Nat /\ p * (-x) = -(p * x) /\ p * (-x) > 0 /\ p * x \in Int
    BY <1>2
  <2>2. (p * (-x)) \div (n * p) = (-x) \div n
    BY <2>1, ScaleDivision
  <2>3. ~(p * x >= 0)
    BY <2>1
  <2> QED
    BY <1>2, <2>1, <2>2, <2>3 DEF duration_cast
<1> QED
  BY <1>1, <1>2

LEMMA ClockUnits ==
  /\ SECOND \in Nat \ {0} /\ PERIOD \in Nat \ {0}
  /\ SECOND * PERIOD \in Nat \ {0}
BY ClocksAssumption

\* The system clock has not shown the last part of a tick yet.
LEMMA SystemShows ==
  ASSUME NEW moment \in Int
  PROVE  /\ moment \div PERIOD \in Int
         /\ moment - (PERIOD - 1) <= (moment \div PERIOD) * PERIOD
         /\ (moment \div PERIOD) * PERIOD <= moment
BY ClocksAssumption

LEMMA TimeType ==
  ASSUME NEW t \in Int
  PROVE  Time(t) \in Int
BY DEF Time

LEMMA Products ==
  ASSUME NEW t \in Int
  PROVE  t * SECOND \in Int /\ (t * SECOND) * PERIOD \in Int
BY ClocksAssumption

-----------------------------------------------------------------------------
(***************************************************************************)
(* The invariant is inductive.                                             *)
(***************************************************************************)
LEMMA ClocksBegin == ClocksInit => ClocksIInv
<1> SUFFICES ASSUME ClocksInit
             PROVE  ClocksIInv
  OBVIOUS
<1>1. /\ steady = 0 /\ skew \in Int /\ m_timepoint = 0 /\ call = Idle
      /\ made = [time |-> 0, skew |-> 0, slack |-> 0] /\ shown = Unknown /\ elapsed = Unknown
  BY ClocksAssumption DEF ClocksInit
<1>2. (0 * SECOND) * PERIOD = 0 /\ PERIOD \in Nat /\ PERIOD >= 1
  BY ClocksAssumption
<1>3. PointOK
  <2>1. /\ (made.time * SECOND) * PERIOD = 0 /\ made.skew = 0 /\ made.slack = 0
        /\ made \in [time : Int, skew : Int, slack : Nat]
    BY <1>1, <1>2
  <2> QED
    BY <1>1, <1>2, <2>1 DEF PointOK
<1> QED
  BY <1>1, <1>3 DEF ClocksIInv, CallOK, ShownOK, ElapsedOK

LEMMA TickStep ==
  ASSUME ClocksIInv, Tick
  PROVE  ClocksIInv'
<1>1. steady' = steady + 1 /\ UNCHANGED << skew, m_timepoint, call, made, shown, elapsed >>
  BY DEF Tick
<1>2. steady \in Int /\ m_timepoint \in Int
  BY DEF ClocksIInv, PointOK
<1>3. CallOK'
  BY <1>1, <1>2 DEF ClocksIInv, CallOK, Making, Showing
<1>4. PointOK' /\ ShownOK'
  BY <1>1 DEF ClocksIInv, PointOK, ShownOK, duration_cast
<1>5. ElapsedOK'
  <2>1. CASE elapsed = Unknown
    BY <1>1, <2>1 DEF ElapsedOK
  <2>2. ASSUME NEW x \in Int, elapsed = duration_cast(x, SECOND * PERIOD), x <= steady - m_timepoint
        PROVE  ElapsedOK'
    <3>1. elapsed' = duration_cast(x, SECOND * PERIOD) /\ x <= steady' - m_timepoint'
      BY <1>1, <1>2, <2>2
    <3> QED
      BY <3>1 DEF ElapsedOK, duration_cast
  <2> QED
    BY <2>1, <2>2 DEF ClocksIInv, ElapsedOK
<1> QED
  BY <1>1, <1>2, <1>3, <1>4, <1>5 DEF ClocksIInv

LEMMA SetClockStep ==
  ASSUME ClocksIInv, NEW ticks \in Settings, SetClock(ticks)
  PROVE  ClocksIInv'
BY ClocksAssumption DEF ClocksIInv, SetClock, CallOK, PointOK, ShownOK, ElapsedOK, duration_cast

LEMMA StartMakeStep ==
  ASSUME ClocksIInv, NEW t \in Times, NEW first \in {"steady", "system"}, StartMake(t, first)
  PROVE  ClocksIInv'
<1>1. /\ call' = [running |-> "make", time |-> Time(t), first |-> first,
                  read |-> IF first = "steady" THEN steady ELSE (steady + skew) \div PERIOD,
                  skew |-> skew, since |-> steady]
      /\ UNCHANGED << steady, skew, m_timepoint, made, shown, elapsed >>
  BY DEF StartMake, system
<1>2. steady \in Int /\ skew \in Int /\ Time(t) \in Int /\ (steady + skew) \div PERIOD \in Int
  <2>1. steady \in Int /\ skew \in Int /\ Time(t) \in Int
    BY TimeType, ClocksAssumption DEF ClocksIInv
  <2> QED
    BY <2>1, ClockUnits
<1>3. call' \in Making
  BY <1>1, <1>2 DEF Making
<1>4. CallOK'
  BY <1>1, <1>2, <1>3 DEF CallOK
<1> QED
  BY <1>1, <1>4 DEF ClocksIInv, PointOK, ShownOK, ElapsedOK, duration_cast

LEMMA FinishMakeStep ==
  ASSUME ClocksIInv, FinishMake
  PROVE  ClocksIInv'
<1> DEFINE product == (call.time * SECOND) * PERIOD
           slack == steady - call.since
           now == IF call.first = "steady" THEN call.since ELSE steady
           moment == IF call.first = "steady" THEN steady + skew ELSE call.since + call.skew
           shows == moment \div PERIOD
<1>1. /\ made' = [time |-> call.time, slack |-> slack,
                  skew |-> IF call.first = "steady" THEN skew ELSE call.skew]
      /\ call' = Idle /\ shown' = Unknown /\ elapsed' = Unknown
      /\ UNCHANGED << steady, skew >>
      /\ call.running = "make"
  BY DEF FinishMake
<1>2. /\ call \in Making /\ call.since <= steady
      /\ call.read = IF call.first = "steady" THEN call.since ELSE (call.since + call.skew) \div PERIOD
  BY <1>1 DEF ClocksIInv, CallOK, Idle, Showing
<1>3. /\ steady \in Int /\ skew \in Int /\ call.since \in Int /\ call.skew \in Int /\ call.time \in Int
      /\ call.first \in {"steady", "system"}
  BY <1>2 DEF ClocksIInv, Making
<1>4. product \in Int /\ slack \in Nat /\ call.time * SECOND \in Int
  BY <1>2, <1>3, Products
<1>5. m_timepoint' = now - (shows - call.time * SECOND) * PERIOD
  <2>1. m_timepoint' = IF call.first = "steady" THEN FromTime(call.read, system, call.time)
                       ELSE FromTime(steady, call.read, call.time)
    BY DEF FinishMake
  <2>2. CASE call.first = "steady"
    BY <1>2, <2>1, <2>2 DEF FromTime, system
  <2>3. CASE call.first # "steady"
    BY <1>2, <2>1, <2>3 DEF FromTime
  <2> QED
    BY <2>2, <2>3
<1>6. now \in Int /\ moment \in Int /\ PERIOD \in Nat /\ PERIOD >= 1
  BY <1>3, ClockUnits
<1>7. /\ shows \in Int /\ shows * PERIOD \in Int
      /\ moment - (PERIOD - 1) <= shows * PERIOD
      /\ shows * PERIOD <= moment
  <2> HIDE DEF moment
  <2> QED
    BY <1>6, SystemShows
<1>8. /\ made'.time * SECOND = call.time * SECOND /\ (made'.time * SECOND) * PERIOD = product
      /\ made'.slack = slack /\ made'.skew \in Int
      /\ made' \in [time : Int, skew : Int, slack : Nat]
  BY <1>1, <1>3, <1>4
<1>9. moment - made'.skew - now \in {slack, -slack}
  <2>1. CASE call.first = "steady"
    BY <1>1, <1>3, <2>1
  <2>2. CASE call.first # "steady"
    BY <1>1, <1>3, <2>2
  <2> QED
    BY <2>1, <2>2
<1>10. m_timepoint' = now - shows * PERIOD + product
  <2> DEFINE u == call.time * SECOND
  <2>1. u \in Int /\ m_timepoint' = now - (shows - u) * PERIOD /\ product = u * PERIOD
    BY <1>4, <1>5
  <2> HIDE DEF u, shows, now, product
  <2>2. (shows - u) * PERIOD = shows * PERIOD - u * PERIOD
    BY <1>6, <1>7, <2>1
  <2>3. u * PERIOD \in Int
    BY <1>4, <2>1
  <2> QED
    BY <1>6, <1>7, <2>1, <2>2, <2>3
<1> DEFINE n == shows * PERIOD
<1> HIDE DEF product, slack, now, moment, shows
<1>11. n \in Int /\ moment - (PERIOD - 1) <= n /\ n <= moment /\ m_timepoint' = now - n + product
  BY <1>7, <1>10
<1> HIDE DEF n
<1>12. /\ m_timepoint' \in Int
       /\ product - made'.skew - slack <= m_timepoint'
       /\ m_timepoint' <= product - made'.skew + slack + (PERIOD - 1)
  BY <1>4, <1>6, <1>8, <1>9, <1>11
<1>13. PointOK'
  BY <1>8, <1>12 DEF PointOK
<1> QED
  BY <1>1, <1>3, <1>13 DEF ClocksIInv, CallOK, ShownOK, ElapsedOK

LEMMA StartToTimeStep ==
  ASSUME ClocksIInv, StartToTime
  PROVE  ClocksIInv'
<1> DEFINE diff == duration_cast(steady - m_timepoint, PERIOD)
<1>1. /\ call' = [running |-> "to_time_t", since |-> steady, diff |-> diff]
      /\ UNCHANGED << steady, skew, m_timepoint, made, shown, elapsed >>
  BY DEF StartToTime, difference
<1>2. steady \in Int /\ m_timepoint \in Int
  BY DEF ClocksIInv, PointOK
<1>3. diff \in Int
  <2>1. steady - m_timepoint \in Int
    BY <1>2
  <2> QED
    BY <2>1, ClockUnits, CastLoses
<1>4. call'.diff = duration_cast(call'.since - m_timepoint', PERIOD)
  BY <1>1
<1> HIDE DEF diff
<1>5. call' \in Showing /\ call'.since <= steady'
  BY <1>1, <1>2, <1>3 DEF Showing
<1>6. CallOK'
  BY <1>4, <1>5 DEF CallOK, duration_cast
<1> QED
  BY <1>1, <1>6 DEF ClocksIInv, PointOK, ShownOK, ElapsedOK, duration_cast

LEMMA FinishToTimeStep ==
  ASSUME ClocksIInv, FinishToTime
  PROVE  ClocksIInv'
<1> DEFINE x == ((steady + skew) \div PERIOD) - call.diff
           slack == steady - call.since
<1>1. /\ shown' = [value |-> duration_cast(x, SECOND), skew |-> skew, slack |-> slack]
      /\ call' = Idle
      /\ UNCHANGED << steady, skew, m_timepoint, made, elapsed >>
      /\ call.running = "to_time_t"
  <2>1. shown' = [value |-> duration_cast(x, SECOND), skew |-> skew, slack |-> slack]
    BY DEF FinishToTime, system
  <2>2. /\ call' = Idle
        /\ UNCHANGED << steady, skew, m_timepoint, made, elapsed >>
        /\ call.running = "to_time_t"
    BY DEF FinishToTime
  <2> QED
    BY <2>1, <2>2
<1>2. /\ call \in Showing /\ call.since <= steady
      /\ call.diff = duration_cast(call.since - m_timepoint, PERIOD)
  BY <1>1 DEF ClocksIInv, CallOK, Idle, Making
<1>3. /\ steady \in Int /\ skew \in Int /\ m_timepoint \in Int /\ call.since \in Int /\ call.diff \in Int
      /\ PERIOD \in Nat /\ PERIOD >= 1
  BY <1>2, ClockUnits DEF ClocksIInv, PointOK, Showing
<1> DEFINE n == ((steady + skew) \div PERIOD) * PERIOD
           d == PERIOD * call.diff
<1>4. n \in Int /\ (steady + skew) - (PERIOD - 1) <= n /\ n <= steady + skew
  <2>1. steady + skew \in Int
    BY <1>3
  <2> QED
    BY <1>3, <2>1, SystemShows
<1>5. /\ d \in Int
      /\ (call.since - m_timepoint) - (PERIOD - 1) <= d
      /\ d <= (call.since - m_timepoint) + (PERIOD - 1)
  <2> DEFINE y == call.since - m_timepoint
             e == duration_cast(y, PERIOD)
  <2>1. y \in Int /\ call.diff = e
    BY <1>2, <1>3
  <2> HIDE DEF y
  <2>2. e \in Int /\ y - (PERIOD - 1) <= PERIOD * e /\ PERIOD * e <= y + (PERIOD - 1)
    BY <2>1, ClockUnits, CastLoses
  <2>3. PERIOD * e \in Int
    BY <1>3, <2>2
  <2> QED
    BY <2>1, <2>2, <2>3 DEF y
<1>6. x \in Int /\ PERIOD * x = n - d
  <2> DEFINE q == (steady + skew) \div PERIOD
  <2>1. q \in Int /\ n = q * PERIOD /\ x = q - call.diff
    BY <1>3, ClockUnits
  <2> HIDE DEF q, x
  <2> QED
    BY <1>3, <2>1
<1>7. slack \in Nat
  BY <1>2, <1>3
<1> HIDE DEF n, d, x
<1>8. /\ m_timepoint + skew - 2 * (PERIOD - 1) <= PERIOD * x
      /\ PERIOD * x <= m_timepoint + skew + slack + (PERIOD - 1)
  BY <1>2, <1>3, <1>4, <1>5, <1>6
<1> HIDE DEF slack
<1>9. ShownOK'
  <2>1. /\ shown' \in [value : {duration_cast(x, SECOND)}, skew : Int, slack : Nat]
        /\ m_timepoint' + shown'.skew - 2 * (PERIOD - 1) <= PERIOD * x
        /\ PERIOD * x <= m_timepoint' + shown'.skew + shown'.slack + (PERIOD - 1)
    BY <1>1, <1>3, <1>7, <1>8
  <2> QED
    BY <1>6, <2>1 DEF ShownOK, duration_cast
<1> QED
  BY <1>1, <1>9 DEF ClocksIInv, CallOK, PointOK, ElapsedOK, duration_cast

LEMMA TimeElapsedStep ==
  ASSUME ClocksIInv, TimeElapsed
  PROVE  ClocksIInv'
<1>1. /\ elapsed' = duration_cast(steady - m_timepoint, SECOND * PERIOD)
      /\ UNCHANGED << steady, skew, m_timepoint, call, made, shown >>
  BY DEF TimeElapsed, difference
<1>2. steady - m_timepoint \in Int
  BY DEF ClocksIInv, PointOK
<1>3. ElapsedOK'
  BY <1>1, <1>2 DEF ElapsedOK, duration_cast
<1> QED
  BY <1>1, <1>3 DEF ClocksIInv, CallOK, PointOK, ShownOK, duration_cast

LEMMA ClocksStep == ClocksIInv /\ [ClocksNext]_clockVars => ClocksIInv'
<1> SUFFICES ASSUME ClocksIInv, [ClocksNext]_clockVars
             PROVE  ClocksIInv'
  OBVIOUS
<1>1. CASE UNCHANGED clockVars
  BY <1>1 DEF ClocksIInv, clockVars, CallOK, PointOK, ShownOK, ElapsedOK, duration_cast
<1>2. CASE ClocksNext
  BY <1>2, TickStep, SetClockStep, StartMakeStep, FinishMakeStep, StartToTimeStep,
     FinishToTimeStep, TimeElapsedStep DEF ClocksNext
<1> QED
  BY <1>1, <1>2

\* The point of the SteadyTime stays where it was made, whenever the clocks are
\* read and the system clock is set (SteadyTime.h, SteadyTime.cpp).
THEOREM ClocksInductive == ClocksSpec => []ClocksIInv
BY ClocksBegin, ClocksStep, PTL DEF ClocksSpec

LEMMA ClocksComeBack == ClocksIInv => ComesBack
<1> DEFINE product == (made.time * SECOND) * PERIOD
           exact == product + (shown.skew - made.skew)
           slack == made.slack + shown.slack + 2 * (PERIOD - 1)
           second == SECOND * PERIOD
<1> SUFFICES ASSUME ClocksIInv, shown # Unknown
             PROVE  shown.value \in duration_cast(exact - slack, second) .. duration_cast(exact + slack, second)
  BY DEF ComesBack
<1>1. PICK x \in Int :
        /\ shown \in [value : {duration_cast(x, SECOND)}, skew : Int, slack : Nat]
        /\ m_timepoint + shown.skew - 2 * (PERIOD - 1) <= PERIOD * x
        /\ PERIOD * x <= m_timepoint + shown.skew + shown.slack + (PERIOD - 1)
  BY DEF ClocksIInv, ShownOK
<1>2. /\ made \in [time : Int, skew : Int, slack : Nat]
      /\ m_timepoint \in Int
      /\ product - made.skew - made.slack <= m_timepoint
      /\ m_timepoint <= product - made.skew + made.slack + (PERIOD - 1)
  BY DEF ClocksIInv, PointOK
<1>3. product \in Int
  BY <1>2, Products
<1>4. /\ made.skew \in Int /\ made.slack \in Nat /\ shown.skew \in Int /\ shown.slack \in Nat
      /\ PERIOD \in Nat /\ PERIOD >= 1
  BY <1>1, <1>2, ClockUnits
<1>5. shown.value = duration_cast(PERIOD * x, second)
  <2>1. shown.value = duration_cast(x, SECOND)
    BY <1>1
  <2>2. duration_cast(PERIOD * x, SECOND * PERIOD) = duration_cast(x, SECOND)
    BY ClockUnits, CastScaled
  <2> QED
    BY <2>1, <2>2
<1> HIDE DEF product
<1> DEFINE y == PERIOD * x
<1>6. y \in Int
  BY <1>4
<1>7. /\ m_timepoint + shown.skew - 2 * (PERIOD - 1) <= y
      /\ y <= m_timepoint + shown.skew + shown.slack + (PERIOD - 1)
      /\ shown.value = duration_cast(y, second)
  BY <1>1, <1>5
<1> HIDE DEF y
<1>8. /\ exact - slack \in Int /\ exact + slack \in Int
      /\ exact - slack <= y /\ y <= exact + slack
  BY <1>2, <1>3, <1>4, <1>6, <1>7
<1>9. second \in Nat \ {0}
  BY ClockUnits
<1> HIDE DEF exact, slack, second
<1>10. /\ duration_cast(exact - slack, second) \in Int /\ duration_cast(y, second) \in Int
       /\ duration_cast(exact - slack, second) <= duration_cast(y, second)
  BY <1>6, <1>8, <1>9, CastMonotone
<1>11. /\ duration_cast(exact + slack, second) \in Int
       /\ duration_cast(y, second) <= duration_cast(exact + slack, second)
  BY <1>6, <1>8, <1>9, CastMonotone
<1> QED
  BY <1>7, <1>10, <1>11

\* A Time comes back from a SteadyTime changed by what the system clock was set
\* by, give or take the time spent inside the two conversions and less than two
\* ticks of the system clock, however fine the clocks are (SteadyTime.cpp:15, 26-27).
THEOREM ComesBackAlways == ClocksSpec => []ComesBack
BY ClocksInductive, ClocksComeBack, PTL

LEMMA StepGrows ==
  ASSUME ClocksIInv, [ClocksNext]_clockVars, elapsed # Unknown, elapsed' # Unknown
  PROVE  elapsed <= elapsed'
<1>1. PICK x \in Int : elapsed = duration_cast(x, SECOND * PERIOD) /\ x <= steady - m_timepoint
  BY DEF ClocksIInv, ElapsedOK
<1>2. x <= x
  OBVIOUS
<1>3. duration_cast(x, SECOND * PERIOD) \in Int
  BY <1>2, ClockUnits, CastMonotone
<1>4. CASE elapsed' = elapsed
  BY <1>1, <1>3, <1>4
<1>5. CASE TimeElapsed
  <2>1. elapsed' = duration_cast(steady - m_timepoint, SECOND * PERIOD)
    BY <1>5 DEF TimeElapsed, difference
  <2>2. steady - m_timepoint \in Int
    BY DEF ClocksIInv, PointOK
  <2> QED
    BY <1>1, <2>1, <2>2, ClockUnits, CastMonotone
<1>6. elapsed' = elapsed \/ TimeElapsed
  BY DEF ClocksNext, clockVars, Tick, SetClock, StartMake, FinishMake, StartToTime, FinishToTime
<1> QED
  BY <1>4, <1>5, <1>6

\* timeElapsed never returns less than it did before for the same SteadyTime,
\* whatever is done to the system clock (SteadyTime.h:21-28).
THEOREM ElapsedAlwaysGrows == ClocksSpec => ElapsedGrows
<1>1. ClocksIInv /\ [ClocksNext]_clockVars =>
        [elapsed # Unknown /\ elapsed' # Unknown => elapsed <= elapsed']_clockVars
  BY StepGrows
<1> QED
  BY <1>1, ClocksInductive, PTL DEF ClocksSpec, ElapsedGrows

-----------------------------------------------------------------------------
(***************************************************************************)
(* FlippableQueue: the inductive invariant.                                *)
(***************************************************************************)
Holders ==
  /\ \A p \in Producers : pc[p] # "idle" <=> m_lock = p
  /\ dispatcher \in {"flipping", "flipped"} <=> m_lock = Dispatcher

Writers ==
  \A p \in Producers : pc[p] = "writing" => target[p] = m_pos /\ pushed[p] < MaxPushes

OldDeque ==
  /\ flipped = Other(m_pos)
  /\ dispatcher \notin {"flipped", "draining"} => m_queues[Other(m_pos)] = << >>

FlippableIInv == TypeOK /\ Holders /\ Writers /\ OldDeque

-----------------------------------------------------------------------------
LEMMA OtherIndex == \A i \in {0, 1} : Other(i) \in {0, 1} /\ Other(i) # i /\ Other(Other(i)) = i
BY DEF Other

LEMMA FlippableBegins == Init => FlippableIInv
BY MaxPushesAssumption, ProducersAssumption
DEF Init, FlippableIInv, TypeOK, Holders, Writers, OldDeque, Other, Free, Dispatcher,
    ProducerStates, DispatcherStates

LEMMA PushLockIInv ==
  ASSUME FlippableIInv, NEW p \in Producers, PushLock(p)
  PROVE  FlippableIInv'
BY ProducersAssumption
DEF PushLock, FlippableIInv, TypeOK, Holders, Writers, OldDeque, Other, Free, Dispatcher,
    ProducerStates, DispatcherStates

LEMMA PushStoreIInv ==
  ASSUME FlippableIInv, NEW p \in Producers, PushStore(p)
  PROVE  FlippableIInv'
<1>1. << p, pushed[p] + 1 >> \in Event
  BY MaxPushesAssumption DEF FlippableIInv, TypeOK, Writers, PushStore, Event
<1>2. TypeOK'
  BY <1>1 DEF PushStore, FlippableIInv, TypeOK, ProducerStates
<1>3. Holders'
  BY DEF PushStore, FlippableIInv, TypeOK, Holders
<1>4. Writers'
  BY DEF PushStore, FlippableIInv, TypeOK, Holders, Writers
<1>5. OldDeque'
  BY OtherIndex DEF PushStore, FlippableIInv, TypeOK, Writers, OldDeque
<1> QED
  BY <1>2, <1>3, <1>4, <1>5 DEF FlippableIInv

LEMMA PushUnlockIInv ==
  ASSUME FlippableIInv, NEW p \in Producers, PushUnlock(p)
  PROVE  FlippableIInv'
BY ProducersAssumption
DEF PushUnlock, FlippableIInv, TypeOK, Holders, Writers, OldDeque, Other, Free, Dispatcher,
    ProducerStates, DispatcherStates

LEMMA DispatchIInv ==
  ASSUME FlippableIInv, Dispatch
  PROVE  FlippableIInv'
<1>1. CASE Look
  BY <1>1 DEF Look, FlippableIInv, TypeOK, Holders, Writers, OldDeque, producerVars, DispatcherStates
<1>2. CASE Wake
  BY <1>2 DEF Wake, FlippableIInv, TypeOK, Holders, Writers, OldDeque, producerVars, DispatcherStates
<1>3. CASE FlipLock
  BY <1>3, ProducersAssumption
  DEF FlipLock, FlippableIInv, TypeOK, Holders, Writers, OldDeque, producerVars, DispatcherStates,
      Free, Dispatcher
<1>4. CASE FlipStore
  <2>1. \A p \in Producers : pc[p] # "writing"
    BY <1>4, ProducersAssumption DEF FlipStore, FlippableIInv, TypeOK, Holders, Dispatcher
  <2> QED
    BY <1>4, <2>1, OtherIndex
    DEF FlipStore, FlippableIInv, TypeOK, Holders, Writers, OldDeque, producerVars, DispatcherStates
<1>5. CASE FlipUnlock
  BY <1>5, ProducersAssumption
  DEF FlipUnlock, FlippableIInv, TypeOK, Holders, Writers, OldDeque, producerVars, DispatcherStates,
      Free, Dispatcher
<1>6. CASE Handle
  <2>1. /\ Head(m_queues[flipped]) \in Event
        /\ Tail(m_queues[flipped]) \in Seq(Event)
    BY <1>6 DEF Handle, FlippableIInv, TypeOK
  <2> QED
    BY <1>6, <2>1, OtherIndex
    DEF Handle, FlippableIInv, TypeOK, Holders, Writers, OldDeque, producerVars
<1>7. CASE Drained
  BY <1>7 DEF Drained, FlippableIInv, TypeOK, Holders, Writers, OldDeque, producerVars, DispatcherStates
<1> QED
  BY <1>1, <1>2, <1>3, <1>4, <1>5, <1>6, <1>7 DEF Dispatch

LEMMA FlippableStep == FlippableIInv /\ [Next]_vars => FlippableIInv'
<1> SUFFICES ASSUME FlippableIInv, [Next]_vars
             PROVE  FlippableIInv'
  OBVIOUS
<1>1. CASE \E p \in Producers : Push(p)
  BY <1>1, PushLockIInv, PushStoreIInv, PushUnlockIInv DEF Push
<1>2. CASE Dispatch
  BY <1>2, DispatchIInv
<1>3. CASE UNCHANGED vars
  BY <1>3 DEF vars, FlippableIInv, TypeOK, Holders, Writers, OldDeque
<1> QED
  BY <1>1, <1>2, <1>3 DEF Next

\* The inductive invariant holds in every reachable state.
THEOREM FlippableInductive == Spec => []FlippableIInv
BY FlippableBegins, FlippableStep, PTL DEF Spec

\* Types: every index is that of a deque, every element an event of a producer.
THEOREM DequesTypeCorrect == Spec => []TypeOK
<1>1. FlippableIInv => TypeOK
  BY DEF FlippableIInv
<1> QED
  BY <1>1, FlippableInductive, PTL

\* m_lock and the exchange of the index keep the threads apart: the deque the
\* dispatcher works on without the lock is not one a producer writes to.
THEOREM DequesNotShared == Spec => []RaceFree
<1>1. FlippableIInv => RaceFree
  <2> SUFFICES ASSUME FlippableIInv
               PROVE  RaceFree
    OBVIOUS
  <2>1. ASSUME NEW p \in Producers, pc[p] = "writing"
        PROVE  target[p] # flipped
    BY <2>1, OtherIndex DEF FlippableIInv, TypeOK, Writers, OldDeque
  <2>2. ASSUME NEW p \in Producers, NEW q \in Producers, pc[p] = "writing", pc[q] = "writing"
        PROVE  p = q
    BY <2>2 DEF FlippableIInv, Holders
  <2> QED
    BY <2>1, <2>2 DEF RaceFree
<1> QED
  BY <1>1, FlippableInductive, PTL

-----------------------------------------------------------------------------
LEMMA QueueBegins == Init => Queue!QueueInit
BY DEF Init, Queue!QueueInit, Other

LEMMA QueueStep == FlippableIInv /\ [Next]_vars => [Queue!QueueNext]_Queue!queueVars
<1> SUFFICES ASSUME FlippableIInv, [Next]_vars
             PROVE  [Queue!QueueNext]_Queue!queueVars
  OBVIOUS
<1>1. ASSUME NEW p \in Producers, PushStore(p)
      PROVE  Queue!QueueNext
  <2>1. << p, pushed[p] + 1 >> \in Event
    BY <1>1, MaxPushesAssumption DEF FlippableIInv, TypeOK, Writers, PushStore, Event
  <2>2. Queue!Add(<< p, pushed[p] + 1 >>)
    BY <1>1, OtherIndex DEF PushStore, FlippableIInv, TypeOK, Writers, Queue!Add
  <2> QED
    BY <2>1, <2>2 DEF Queue!QueueNext
<1>2. CASE FlipStore
  <2>1. Queue!TakeBatch
    BY <1>2, OtherIndex DEF FlipStore, FlippableIInv, TypeOK, OldDeque, Queue!TakeBatch
  <2> QED
    BY <2>1 DEF Queue!QueueNext
<1>3. CASE Handle
  <2>1. Queue!HandleNext
    BY <1>3, OtherIndex DEF Handle, FlippableIInv, TypeOK, OldDeque, Queue!HandleNext
  <2> QED
    BY <2>1 DEF Queue!QueueNext
<1>4. CASE UNCHANGED << m_pos, m_queues, handled >>
  BY <1>4 DEF Queue!queueVars, Other
<1>5. ASSUME NEW p \in Producers, PushLock(p) \/ PushUnlock(p)
      PROVE  UNCHANGED << m_pos, m_queues, handled >>
  BY <1>5 DEF PushLock, PushUnlock
<1>6. CASE Look \/ Wake \/ FlipLock \/ FlipUnlock \/ Drained \/ UNCHANGED vars
  BY <1>4, <1>6 DEF Look, Wake, FlipLock, FlipUnlock, Drained, vars
<1> QED
  BY <1>1, <1>2, <1>3, <1>4, <1>5, <1>6 DEF Next, Push, Dispatch

\* The two deques and their index behave as one queue of events: every event is
\* handled once, in the order it was pushed.
THEOREM QueueImplemented == Spec => ImplementsQueue
BY QueueBegins, QueueStep, FlippableInductive, PTL DEF Spec, ImplementsQueue, Queue!QueueSpec
=============================================================================
