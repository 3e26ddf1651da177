------------------------------ MODULE BsdTime ------------------------------
(***************************************************************************)
(* The timestamps of a kernel log: bsd_epoch of core/src/linux_syslog.rs.  *)
(* A syslog stamp has no year, so the caller supplies one reference year   *)
(* for the whole log.                                                      *)
(*                                                                         *)
(* The calendar of CivilTime turns underneath.  On some page the kernel    *)
(* logs a first line, and somebody decides on a reference year for the     *)
(* log; from then on the calendar turns forward only, and any later page   *)
(* may be that of a second line.                                           *)
(***************************************************************************)
EXTENDS CivilTime, SequencesExt

CONSTANTS LogYears,   \* years logs begin in; TLC counts epochs of 1902 to 2037
          MaxSpan     \* bound: days from the first line to the second

ASSUME LogYearsAccepted == LogYears \subseteq 2..9998   \* and the years beside them
ASSUME NoneIsNoNumber == None \notin Int

-----------------------------------------------------------------------------
(* The code *)

MONTHS == <<"Jan", "Feb", "Mar", "Apr", "May", "Jun",
            "Jul", "Aug", "Sep", "Oct", "Nov", "Dec">>

\* Mutant: months are numbered by their index.
month_numberFromZero(name) ==
    IF Contains(MONTHS, name) THEN (CHOOSE i \in DOMAIN MONTHS : MONTHS[i] = name) - 1 ELSE None

month_number(name) ==
    IF Contains(MONTHS, name) THEN CHOOSE i \in DOMAIN MONTHS : MONTHS[i] = name ELSE None

\* day, hh, mm and ss are None where the line has no number.
bsd_epoch(line, year) ==
    IF None \in {month_number(line.month), line.day, line.hh, line.mm, line.ss}
    THEN None
    ELSE civil_to_epoch(year, month_number(line.month), line.day, line.hh, line.mm, line.ss)

-----------------------------------------------------------------------------
(* A log of two lines *)

VARIABLES first,   \* the first line: its date, days and clock, or None
          year     \* the reference year of the log

bvars == <<vars, first, year>>

\* The first and the last second of a day; the last is a leap second.
Clocks == {[hh |-> 0, mm |-> 0, ss |-> 0], [hh |-> 23, mm |-> 59, ss |-> 60]}

\* Pages around which dates are hard: the ends of February and of the year.
Edges == {[m |-> 2, d |-> 28], [m |-> 2, d |-> 29], [m |-> 3, d |-> 1],
          [m |-> 12, d |-> 31], [m |-> 1, d |-> 1], [m |-> 6, d |-> 30]}

\* The kernel's stamp: the page without its year.
LineOf(dt, clock) ==
    [month |-> MONTHS[dt.m], day |-> dt.d, hh |-> clock.hh, mm |-> clock.mm, ss |-> clock.ss]

LogFirst(clock, reference) ==
    /\ first = None
    /\ date.y \in LogYears
    /\ [m |-> date.m, d |-> date.d] \in Edges
    /\ first' = [date |-> date, days |-> days, clock |-> clock]
    /\ year' = reference
    /\ UNCHANGED vars

TurnForward ==
    /\ first # None => days < first.days + MaxSpan
    /\ Tomorrow
    /\ UNCHANGED <<first, year>>

TurnBack ==
    /\ first = None
    /\ Yesterday
    /\ UNCHANGED <<first, year>>

BInit == Init /\ first = None /\ year = 0

BNext ==
    \/ TurnForward
    \/ TurnBack
    \/ \E clock \in Clocks, reference \in (date.y - 1)..(date.y + 1) :
           LogFirst(clock, reference)

BSpec == BInit /\ [][BNext]_bvars

-----------------------------------------------------------------------------
(* Properties *)

Seconds(clock) == seconds_of_day(clock.hh, clock.mm, clock.ss)

\* The true distance from the first line to a second one on the present page.
Elapsed(clock) == (days - first.days) * 86400 + Seconds(clock) - Seconds(first.clock)

\* Second lines that follow the first.
LaterClocks == {clock \in Clocks : first # None /\ Elapsed(clock) >= 0}

FirstEpoch == bsd_epoch(LineOf(first.date, first.clock), year)
EpochAt(clock) == bsd_epoch(LineOf(date, clock), year)

\* A line of the reference year is given its own second, whatever the year and
\* wherever in it (bsd_epoch, month_number): nothing is lost with the year.
StampsInReferenceYear ==
    date.y \in LogYears =>
        \A clock \in Clocks :
            bsd_epoch(LineOf(date, clock), date.y) = days * 86400 + Seconds(clock)

\* Two lines of one year keep their distance under a wrong reference year too,
\* if it is a leap year when theirs is and not when it is not.
IntervalsKept ==
    \A clock \in LaterClocks :
        /\ date.y = first.date.y
        /\ IsLeap(year) = IsLeap(date.y)
        =>
            EpochAt(clock) - FirstEpoch = Elapsed(clock)

\* The one day that a common reference year does not have.
OnLeapDay(dt) == dt.m = 2 /\ dt.d = 29

\* A line is dated before an earlier one only when a New Year lies between them,
\* which the year-less stamp cannot show, or when the earlier one is of a leap
\* day that the reference year does not have and counts as the first of March.
BackwardsOnlyOverNewYear ==
    \A clock \in LaterClocks :
        EpochAt(clock) < FirstEpoch =>
            \/ date.y > first.date.y
            \/ OnLeapDay(first.date) /\ ~IsLeap(year) /\ date.m = 3 /\ date.d = 1

-----------------------------------------------------------------------------
(* The inductive invariant. *)

\* The first line is of an earlier page, or of this one.
FirstInv ==
    /\ first \in [date : Dates, days : Int, clock : Clocks]
    /\ RealDate(first.date)
    /\ first.days = days_from_civil(first.date.y, first.date.m, first.date.d)
    /\ first.days <= days /\ first.date.y <= date.y
    /\ year \in YEARS

BsdInv == CalendarInv /\ (first # None => FirstInv)
=============================================================================
