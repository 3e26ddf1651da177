----------------------------- MODULE CivilTime -----------------------------
(***************************************************************************)
(* The calendar arithmetic every reader of text timestamps shares:         *)
(* civil_to_epoch of core/src/setupapi.rs, the days_from_civil algorithm   *)
(* behind a range check of each field.                                     *)
(*                                                                         *)
(* Beside it, a calendar that knows nothing of the algorithm: it starts at *)
(* the Unix epoch and turns its pages one day at a time, in both           *)
(* directions, by the Gregorian rules.                                     *)
(***************************************************************************)
EXTENDS Integers

CONSTANTS MinYear,   \* the calendar's first year
          MaxYear,   \* and its last
          None       \* Rust's Option::None

ASSUME YearsAccepted ==
    /\ MinYear \in 1..1970
    /\ MaxYear \in 1970..9999

-----------------------------------------------------------------------------
(* The code *)

YEARS == 1..9999

date_in_range(y, m, d) == y \in YEARS /\ m \in 1..12 /\ d \in 1..31

time_in_range(hh, mm, ss) == hh \in 0..23 /\ mm \in 0..59 /\ ss \in 0..60

EraDays == 146097     \* in 400 years
EpochDay == 719468    \* from the first of March of year 0 to 1970-01-01

\* Days before year yoe of an era of 400 years.
doe_start(yoe) == yoe * 365 + yoe \div 4 - yoe \div 100

\* Days from the first of March of year 0 to the first of March of year y.
year_start(y) == (y \div 400) * EraDays + doe_start(y - (y \div 400) * 400)

\* Mutant: the quotient is rounded down without the two.
month_startUnrounded(m) == (153 * ((m + 9) % 12)) \div 5

\* Days from the first of March to the first of month m.
month_start(m) == (153 * ((m + 9) % 12) + 2) \div 5

\* Mutant: January and February are counted in their own year.
days_from_civilUnshifted(y, m, d) ==
    year_start(y) + month_start(m) + d - 1 - EpochDay

\* Years begin in March, so that the leap day is the last of its year.  The
\* year is at least 1 here, so the branch for negative eras is not taken.
days_from_civil(y, m, d) ==
    year_start(IF m <= 2 THEN y - 1 ELSE y) + month_start(m) + d - 1 - EpochDay

seconds_of_day(hh, mm, ss) == hh * 3600 + mm * 60 + ss

civil_to_epoch(y, m, d, hh, mm, ss) ==
    IF date_in_range(y, m, d) /\ time_in_range(hh, mm, ss)
    THEN days_from_civil(y, m, d) * 86400 + seconds_of_day(hh, mm, ss)
    ELSE None

-----------------------------------------------------------------------------
(* The calendar *)

VARIABLES date,   \* the page the calendar shows
          days    \* days since the Unix epoch

vars == <<date, days>>

IsLeap(y) == y % 4 = 0 /\ (y % 100 # 0 \/ y % 400 = 0)

MonthLength(y, m) ==
    CASE m = 2 -> IF IsLeap(y) THEN 29 ELSE 28
      [] m \in {4, 6, 9, 11} -> 30
      [] OTHER -> 31

Dates == [y : MinYear..MaxYear, m : 1..12, d : 1..31]
RealDate(dt) == dt.d <= MonthLength(dt.y, dt.m)

DayAfter(dt) ==
    CASE dt.d < MonthLength(dt.y, dt.m) -> [dt EXCEPT !.d = @ + 1]
      [] dt.d >= MonthLength(dt.y, dt.m) /\ dt.m < 12 -> [y |-> dt.y, m |-> dt.m + 1, d |-> 1]
      [] OTHER -> [y |-> dt.y + 1, m |-> 1, d |-> 1]

DayBefore(dt) ==
    CASE dt.d > 1 -> [dt EXCEPT !.d = @ - 1]
      [] dt.d = 1 /\ dt.m > 1 ->
            [y |-> dt.y, m |-> dt.m - 1, d |-> MonthLength(dt.y, dt.m - 1)]
      [] OTHER -> [y |-> dt.y - 1, m |-> 12, d |-> 31]

Init == date = [y |-> 1970, m |-> 1, d |-> 1] /\ days = 0

Tomorrow ==
    /\ DayAfter(date) \in Dates
    /\ date' = DayAfter(date)
    /\ days' = days + 1

Yesterday ==
    /\ DayBefore(date) \in Dates
    /\ date' = DayBefore(date)
    /\ days' = days - 1

Next == Tomorrow \/ Yesterday
Spec == Init /\ [][Next]_vars

\* Any date a log line may carry, real or not.
LineDates == [y : {MinYear - 1, MinYear, MaxYear}, m : 0..13, d : 0..32]
LineSpec == date \in LineDates /\ days = 0 /\ [][FALSE]_vars

-----------------------------------------------------------------------------
(* Properties *)

\* The calendar shows real dates.
TypeOK == date \in Dates /\ RealDate(date) /\ days \in Int

\* The algorithm counts the days the calendar counts, leap days and century
\* years included, on both sides of the epoch (civil_to_epoch).
DaysAreCalendar ==
    /\ date_in_range(date.y, date.m, date.d)
    /\ days_from_civil(date.y, date.m, date.d) = days

\* "Returns None for an out-of-range field": no date outside the calendar is
\* given an epoch.
OnlyRealDates ==
    date_in_range(date.y, date.m, date.d) => RealDate(date)

CalendarInv == TypeOK /\ DaysAreCalendar
=============================================================================
