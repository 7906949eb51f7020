------------------------------ MODULE Calendar ------------------------------
(***************************************************************************)
(* dk::Date (LibraryBase/Date.h, Date.cpp): a date is                      *)
(* [m_year, m_month, m_day], and nothing keeps m_day within its month. A   *)
(* history of calls on one date, with the date it began with and the days  *)
(* added since. mktime and localtime_s are the C library's: mktime carries *)
(* a day that is too large into the next month and takes the date for      *)
(* standard time, as tm_isdst is 0; localtime_s knows of summer time.      *)
(***************************************************************************)
EXTENDS Integers

CONSTANTS
  HOUR,           \* seconds in an hour
  Zone,           \* what the local standard time is ahead, in hours
  SummerMonths,   \* the months with summer time
  LastYear,       \* a bound on the years
  MaxAdded,       \* a bound on the days added in a history
  Starts,         \* the dates a history begins with
  Steps           \* the numbers of days added at once

ASSUME CalendarAssumption ==
  /\ HOUR \in Nat \ {0}
  /\ Zone \in -12 .. 14
  /\ SummerMonths \subseteq 1 .. 12
  /\ LastYear \in Nat
  /\ MaxAdded \in Nat
  /\ Steps \subseteq Int

DAY == 24 * HOUR

Date(year, month, day) == [m_year |-> year, m_month |-> month, m_day |-> day]

-----------------------------------------------------------------------------
(***************************************************************************)
(* The calendar.                                                           *)
(***************************************************************************)
IsLeap(year) == (year % 4 = 0 /\ year % 100 # 0) \/ year % 400 = 0

DaysIn(year, month) ==
  IF month = 2 THEN (IF IsLeap(year) THEN 29 ELSE 28)
  ELSE IF month \in {4, 6, 9, 11} THEN 30 ELSE 31

IsDate(d) == d.m_month \in 1 .. 12 /\ d.m_day \in 1 .. DaysIn(d.m_year, d.m_month)

LeapsBefore(year) == (year - 1) \div 4 - (year - 1) \div 100 + (year - 1) \div 400

DaysBefore(year, month) ==
  << 0, 31, 59, 90, 120, 151, 181, 212, 243, 273, 304, 334 >>[month]
    + (IF month > 2 /\ IsLeap(year) THEN 1 ELSE 0)

\* The number of the first day of a month; 1970-01-01 is day 0.
FirstOf(year, month) ==
  365 * (year - 1970) + (LeapsBefore(year) - LeapsBefore(1970)) + DaysBefore(year, month)

DayNumber(d) == FirstOf(d.m_year, d.m_month) + (d.m_day - 1)

\* The history stays within the years for which there is a tm.
ASSUME StartsAssumption ==
  \A d \in Starts \cup {Date(1970, 1, 1)} :
    /\ d \in [m_year : 1970 .. LastYear, m_month : 1 .. 12, m_day : 1 .. 31]
    /\ IsDate(d)
    /\ DayNumber(d) + MaxAdded < FirstOf(LastYear + 1, 1)

\* std::mktime of a date at midnight; -1 for what is before 1970.
mktime(d) ==
  LET time == DayNumber(d) * DAY - Zone * HOUR
  IN  IF time < 0 THEN -1 ELSE time

\* The date of a day number, as tm_year, tm_mon and tm_mday.
tmOf(number) ==
  LET year == CHOOSE y \in 1969 .. LastYear :
                FirstOf(y, 1) <= number /\ number < FirstOf(y + 1, 1)
      month == CHOOSE m \in 1 .. 12 :
                 FirstOf(year, m) <= number /\ number < FirstOf(year, m) + DaysIn(year, m)
  IN  [tm_year |-> year - 1900, tm_mon |-> month - 1, tm_mday |-> number - FirstOf(year, month) + 1]

\* localtime_s
localtime(time) ==
  LET standard == time + Zone * HOUR
      summer == tmOf(standard \div DAY).tm_mon + 1 \in SummerMonths
  IN  tmOf((standard + (IF summer THEN HOUR ELSE 0)) \div DAY)

-----------------------------------------------------------------------------
(***************************************************************************)
(* The methods of Date.                                                    *)
(***************************************************************************)
to_time_t(d) == mktime(d)

\* A mutant of from_time_t: tm_mon is taken for the month.
from_time_tZeroBased(time) ==
  LET tm == localtime(time) IN Date(tm.tm_year + 1900, tm.tm_mon, tm.tm_mday)

from_time_t(time) ==
  LET tm == localtime(time) IN Date(tm.tm_year + 1900, tm.tm_mon + 1, tm.tm_mday)

\* A mutant of daysAfter: months of 30 days.
daysAfterThirty(d, days) ==
  LET day == d.m_day - 1 + days
  IN  IF day < 30 THEN [d EXCEPT !.m_day = day + 1]
      ELSE IF d.m_month < 12 THEN [d EXCEPT !.m_month = @ + 1, !.m_day = day - 29]
      ELSE [d EXCEPT !.m_year = @ + 1, !.m_month = 1, !.m_day = day - 29]

daysAfter(d, days) == [d EXCEPT !.m_day = @ + days]

\* A mutant of before: years and months only count when the days are equal.
beforeByDay(d, e) ==
  IF d.m_day # e.m_day THEN d.m_day < e.m_day
  ELSE IF d.m_month # e.m_month THEN d.m_month < e.m_month
  ELSE d.m_year < e.m_year

\* operator<
before(d, e) ==
  IF d.m_year # e.m_year THEN d.m_year < e.m_year
  ELSE IF d.m_month # e.m_month THEN d.m_month < e.m_month
  ELSE d.m_day < e.m_day

-----------------------------------------------------------------------------
VARIABLES
  start,    \* the date the history began with
  date,     \* the date now
  added     \* the days added since

calendarVars == << start, date, added >>

CalendarInit ==
  /\ start \in Starts
  /\ date = start
  /\ added = 0

\* daysAfter(date, days)
AddDays(days) ==
  /\ added + days \in -MaxAdded .. MaxAdded
  /\ date' = daysAfter(date, days)
  /\ added' = added + days
  /\ UNCHANGED start

\* from_time_t(date.to_time_t())
ThroughTime ==
  /\ to_time_t(date) # -1
  /\ date' = from_time_t(to_time_t(date))
  /\ UNCHANGED << start, added >>

\* today() is the first date there is, and no other.
Today ==
  /\ date' = daysAfter(Date(1970, 1, 1), 0)
  /\ start' = date'
  /\ added' = 0

CalendarNext == (\E days \in Steps : AddDays(days)) \/ ThroughTime \/ Today

CalendarSpec == CalendarInit /\ [][CalendarNext]_calendarVars

-----------------------------------------------------------------------------
\* The time of a date is exact however the days were added and whether or not it
\* went through a time_t in between: a day that is too large is carried by
\* mktime (Date.cpp:25-26), across months, leap years and summer time.
TimeExact ==
  to_time_t(start) # -1 /\ to_time_t(date) # -1 =>
    to_time_t(date) = to_time_t(start) + added * DAY

\* A date of the calendar compares to the date the history began with as the
\* number of days between them says (Date.h:54-71).
OrderAgrees ==
  IsDate(start) /\ IsDate(date) =>
    /\ before(start, date) <=> added > 0
    /\ start = date <=> added = 0

\* Going through a time_t repairs a date: it makes a day of a month of what stands
\* for the same day, and leaves a date of the calendar as it is (Date.h:29-33), summer
\* time included.
ThroughTimeRepairs ==
  [][ThroughTime =>
       /\ IsDate(date')
       /\ DayNumber(date') = DayNumber(date)
       /\ IsDate(date) => date' = date]_calendarVars

\* The comment of Date.h:42 says that daysAfter adds the days given to a date: the
\* result then is a date, as the one it was given is.
DaysAfterIsDate ==
  [][\A days \in Steps : AddDays(days) /\ IsDate(date) => IsDate(date')]_calendarVars
=============================================================================
