------------------------------- MODULE Clocks -------------------------------
(***************************************************************************)
(* dk::Time and dk::SteadyTime (LibraryBase/KTime.h, SteadyTime.h and      *)
(* .cpp). A SteadyTime keeps a moment as a point of the steady clock, so   *)
(* that the system clock may be set without any effect on elapsed times.   *)
(* To convert a Time, and back, it reads both clocks one after the other,  *)
(* and time passes between the two readings.                               *)
(*                                                                         *)
(* The unit here is a tick of the steady clock. The system clock advances  *)
(* once every PERIOD of them, and setting it changes skew.                 *)
(***************************************************************************)
EXTENDS Integers

CONSTANTS
  SECOND,       \* ticks of the system clock in a second
  PERIOD,       \* ticks of the steady clock in one of the system clock
  Times,        \* the time_t values a Time is made of
  Settings,     \* by how much the system clock is set at once
  Skews,        \* a bound on the skew
  MaxSteady,    \* a bound on the steady clock
  Unknown       \* nothing has been returned yet

\* The steady clock is as fine as the system clock, or finer: otherwise the
\* difference of system times did not convert to its duration (SteadyTime.cpp:15).
ASSUME ClocksAssumption ==
  /\ SECOND \in Nat \ {0}
  /\ PERIOD \in Nat \ {0}
  /\ Times \subseteq Int
  /\ Settings \subseteq Int
  /\ Skews \subseteq Int
  /\ MaxSteady \in Nat

VARIABLES
  steady,         \* steady_clock::now()
  skew,
  m_timepoint,    \* of one SteadyTime
  call,           \* the call that has read one clock and not the other
  made,           \* what the SteadyTime was made of, the skew then, and how long it took
  shown,          \* what to_time_t returned last, the skew then, and how long it took
  elapsed         \* what timeElapsed returned last

clockVars == << steady, skew, m_timepoint, call, made, shown, elapsed >>

Idle == [running |-> "none"]

\* system_clock::now(), in ticks of its own.
system == (steady + skew) \div PERIOD

\* duration_cast to a unit of n ticks rounds towards zero.
duration_cast(ticks, n) == IF ticks >= 0 THEN ticks \div n ELSE -((-ticks) \div n)

\* Time(time_t)
Time(t) == IF t > 0 THEN t ELSE 0

\* A mutant of difference: the system clock is asked.
differenceOfSystem(now, timepoint) == now + skew - timepoint

\* difference(), now being what the steady clock shows.
difference(now, timepoint) == now - timepoint

\* A mutant of FromTime: the steady clock's distance is added to the time.
FromTimeReversed(now, systemNow, time) == now + (systemNow - time * SECOND) * PERIOD

\* SteadyTime(const Time&): the difference of system times becomes one of the
\* steady clock, which loses nothing.
FromTime(now, systemNow, time) == now - (systemNow - time * SECOND) * PERIOD

ClocksInit ==
  /\ steady = 0
  /\ skew \in Skews
  /\ m_timepoint = 0
  /\ call = Idle
  /\ made = [time |-> 0, skew |-> 0, slack |-> 0]
  /\ shown = Unknown
  /\ elapsed = Unknown

Tick ==
  /\ steady < MaxSteady
  /\ steady' = steady + 1
  /\ UNCHANGED << skew, m_timepoint, call, made, shown, elapsed >>

\* The system clock is set.
SetClock(ticks) ==
  /\ skew + ticks \in Skews
  /\ skew' = skew + ticks
  /\ UNCHANGED << steady, m_timepoint, call, made, shown, elapsed >>

\* SteadyTime(Time(t)) has read one clock. The order of the two is the compiler's.
StartMake(t, first) ==
  /\ call = Idle
  /\ call' = [running |-> "make", time |-> Time(t), first |-> first,
              read |-> IF first = "steady" THEN steady ELSE system, skew |-> skew, since |-> steady]
  /\ UNCHANGED << steady, skew, m_timepoint, made, shown, elapsed >>

FinishMake ==
  /\ call.running = "make"
  /\ m_timepoint' = IF call.first = "steady" THEN FromTime(call.read, system, call.time)
                    ELSE FromTime(steady, call.read, call.time)
  /\ made' = [time |-> call.time, slack |-> steady - call.since,
              skew |-> IF call.first = "steady" THEN skew ELSE call.skew]
  /\ call' = Idle
  /\ shown' = Unknown
  /\ elapsed' = Unknown
  /\ UNCHANGED << steady, skew >>

\* A mutant of StartToTime: the steady clock's ticks are taken for the system clock's.
StartToTimeUncast ==
  /\ call = Idle
  /\ call' = [running |-> "to_time_t", since |-> steady, diff |-> difference(steady, m_timepoint)]
  /\ UNCHANGED << steady, skew, m_timepoint, made, shown, elapsed >>

\* to_time_t() has cast difference() to the system clock's duration.
StartToTime ==
  /\ call = Idle
  /\ call' = [running |-> "to_time_t", since |-> steady,
              diff |-> duration_cast(difference(steady, m_timepoint), PERIOD)]
  /\ UNCHANGED << steady, skew, m_timepoint, made, shown, elapsed >>

FinishToTime ==
  /\ call.running = "to_time_t"
  /\ shown' = [value |-> duration_cast(system - call.diff, SECOND), skew |-> skew, slack |-> steady - call.since]
  /\ call' = Idle
  /\ UNCHANGED << steady, skew, m_timepoint, made, elapsed >>

TimeElapsed ==
  /\ call = Idle
  /\ elapsed' = duration_cast(difference(steady, m_timepoint), SECOND * PERIOD)
  /\ UNCHANGED << steady, skew, m_timepoint, call, made, shown >>

ClocksNext ==
  \/ Tick
  \/ \E ticks \in Settings : SetClock(ticks)
  \/ \E t \in Times, first \in {"steady", "system"} : StartMake(t, first)
  \/ FinishMake \/ StartToTime \/ FinishToTime \/ TimeElapsed

ClocksSpec == ClocksInit /\ [][ClocksNext]_clockVars

-----------------------------------------------------------------------------
\* A Time that went through a SteadyTime comes back changed by what the system
\* clock was set by since, by no more than the time spent inside the two
\* conversions and less than two ticks of the system clock, one lost when the
\* system clock is read and one when difference() is cast. So it may be one second
\* off although nobody set a clock and no time was spent: a time to come comes back
\* early when the steady clock stands between two ticks (SteadyTime.cpp:15, 26-27).
ComesBack ==
  shown # Unknown =>
    LET exact == (made.time * SECOND) * PERIOD + (shown.skew - made.skew)
        slack == made.slack + shown.slack + 2 * (PERIOD - 1)
    IN  shown.value \in duration_cast(exact - slack, SECOND * PERIOD)
                          .. duration_cast(exact + slack, SECOND * PERIOD)

\* The time elapsed never decreases, whatever is done to the system clock
\* (SteadyTime.h:21-28).
ElapsedGrows ==
  [][elapsed # Unknown /\ elapsed' # Unknown => elapsed <= elapsed']_clockVars
=============================================================================
