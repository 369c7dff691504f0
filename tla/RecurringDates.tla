---------------------------- MODULE RecurringDates ----------------------------
(***************************************************************************)
(* The dates a recurring billing schedule runs on: nextRecurringDate of    *)
(* src/src/modules/billing/billing.routes.ts, applied over and over as     *)
(* each run, "Use Now" and skip advance next_run_date.  Dates are UTC      *)
(* calendar dates and months count from 0, as in the code.                 *)
(***************************************************************************)
EXTENDS Integers, FiniteSetsExt

CONSTANTS
  FirstYear, LastYear,  \* BOUND: schedules start in FirstYear and are followed
                        \* until a date falls in LastYear
  Intervals,            \* values of interval_count (0: the column was never set)
  RepeatDays            \* values of repeat_on_day (0: not set)

\* Both are INTEGER columns, and the route checks neither.
ASSUME IntervalsAssumption == Intervals \subseteq Int
ASSUME RepeatDaysAssumption == RepeatDays \subseteq Int
ASSUME YearsAssumption == FirstYear \in Nat /\ LastYear \in Nat

VARIABLES
  date,      \* next_run_date, as [year, month, day]
  schedule,  \* frequency, interval_count and repeat_on_day of the schedule
  started    \* the first date, as it was entered

dateVars == <<date, schedule, started>>

Frequencies == {"weekly", "monthly", "quarterly", "annual"}
Schedule == [frequency: Frequencies, interval: Intervals, repeatOn: RepeatDays]

IsLeap(y) == (y % 4 = 0 /\ y % 100 # 0) \/ y % 400 = 0
MonthLength(y, m) ==
  CASE m \in {3, 5, 8, 10} -> 30
    [] m = 1 -> IF IsLeap(y) THEN 29 ELSE 28
    [] OTHER -> 31
CalendarDates(y) ==
  {c \in [year: {y}, month: 0..11, day: 1..31] : c.day <= MonthLength(y, c.month)}

-----------------------------------------------------------------------------
\* A Date takes a month or a day past the end for the date that many months and
\* days later: the 31st of a 30-day month is the 1st of the next.
Overflow(y, m, d) ==
  LET year == y + m \div 12
      month == m % 12
      length == MonthLength(year, month)
  IN  IF d <= length THEN [year |-> year, month |-> month, day |-> d]
      ELSE [year |-> year + (month + 1) \div 12, month |-> (month + 1) % 12,
            day |-> d - length]

Step(n) == IF n > 1 THEN n ELSE 1

MonthsPerHalfYear(frequency) ==      \* mutation: a quarter of two months
  CASE frequency = "quarterly" -> 2 [] frequency = "annual" -> 12 [] OTHER -> 1
MonthsPer(frequency) ==
  CASE frequency = "quarterly" -> 3 [] frequency = "annual" -> 12 [] OTHER -> 1

PinnedUnclamped(c, repeatOn) ==      \* mutation: no clamp to the last day
  IF repeatOn = 0 THEN c ELSE [c EXCEPT !.day = repeatOn]
PinnedIgnored(c, repeatOn) == c      \* mutation: the pin never applied
\* repeat_on_day pins the day, clamped to the first and the last of the month.
Pinned(c, repeatOn) ==
  LET last == MonthLength(c.year, c.month) IN
  IF repeatOn = 0 THEN c
  ELSE [c EXCEPT !.day = IF repeatOn < 1 THEN 1
                         ELSE IF repeatOn < last THEN repeatOn ELSE last]

\* Seven days n times over, each of which passes the end of one month at most.
WeekLater(c) == Overflow(c.year, c.month, c.day + 7)
WeeksLater(c, n) ==
  LET after[k \in 0..n] == IF k = 0 THEN c ELSE WeekLater(after[k - 1])
  IN  after[n]

NextRecurringDate(c, s) ==
  LET n == Step(s.interval) IN
  IF s.frequency = "weekly" THEN WeeksLater(c, n)
  ELSE Pinned(Overflow(c.year, c.month + n * MonthsPer(s.frequency), c.day),
              s.repeatOn)

DatesInit ==
  /\ date \in CalendarDates(FirstYear)
  /\ schedule \in Schedule
  /\ started = date

AdvanceDate ==
  /\ date.year < LastYear
  /\ date' = NextRecurringDate(date, schedule)
  /\ UNCHANGED <<schedule, started>>

DatesNext == AdvanceDate
DatesSpec == DatesInit /\ [][DatesNext]_dateVars

-----------------------------------------------------------------------------
(***************************************************************************)
(* What the dates of a schedule promise                                    *)
(***************************************************************************)
\* Days since the first of January of FirstYear, counted month by month.
MonthsBefore(c) == {ym \in (FirstYear..c.year) \X (0..11) : ym[1] < c.year \/ ym[2] < c.month}
DayNumber(c) ==
  SumFunctionOnSet([ym \in MonthsBefore(c) |-> MonthLength(ym[1], ym[2])], MonthsBefore(c)) + c.day
MonthNumber(c) == 12 * c.year + c.month
IntervalOf(s) == IF s.interval <= 0 THEN 1 ELSE s.interval
PinOf(s) == IF s.repeatOn <= 0 THEN 1 ELSE s.repeatOn
MonthsOf(s) ==
  IntervalOf(s) * (CASE s.frequency = "monthly" -> 1
                     [] s.frequency = "quarterly" -> 3
                     [] s.frequency = "annual" -> 12)
OnACalendar(c) == c.month \in 0..11 /\ c.day \in 1..MonthLength(c.year, c.month)

DatesTypeOK ==
  /\ OnACalendar(date) /\ date.year \in Nat
  /\ schedule \in Schedule
  /\ OnACalendar(started)

\* Whatever was entered, every run moves next_run_date on, and by its period: a
\* weekly schedule keeps its weekday across month and year ends, one counted in
\* months never runs twice within its interval and loses at most one month to a
\* short one.  A schedule that stood still would be billed for one date forever.
OnSchedule ==
  [][IF schedule.frequency = "weekly"
     THEN DayNumber(date') = DayNumber(date) + 7 * IntervalOf(schedule)
     ELSE MonthNumber(date') - MonthNumber(date) - MonthsOf(schedule) \in {0, 1}]_dateVars

\* Days that every month has are kept: a schedule entered for the 28th or
\* before runs in the months its frequency says, on its day, for good.
CommonDaysNeverDrift ==
  schedule.frequency # "weekly" /\ started.day <= 28 /\ schedule.repeatOn <= 28
    => /\ (MonthNumber(date) - MonthNumber(started)) % MonthsOf(schedule) = 0
       /\ date.day = IF schedule.repeatOn = 0 \/ date = started
                     THEN started.day ELSE PinOf(schedule)

\* What the comment on nextRecurringDate says of a pinned day: the 31st becomes
\* the 28th or 29th in February, so February has its run.
EveryPeriodHasItsRun ==
  [][schedule.frequency # "weekly" /\ schedule.repeatOn # 0
       => MonthNumber(date') - MonthNumber(date) = MonthsOf(schedule)]_dateVars
=============================================================================
