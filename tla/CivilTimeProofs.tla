-------------------------- MODULE CivilTimeProofs --------------------------
(***************************************************************************)
(* Proofs about CivilTime and BsdTime, for every range of years the code   *)
(* accepts and every year a log may begin in.                              *)
(* Steps that do arithmetic are given to SMT alone.                        *)
(***************************************************************************)
EXTENDS BsdTime, TLAPS

(***************************************************************************)
(* Years: the algorithm's are as long as the calendar's.                   *)
(***************************************************************************)

\* A year y is a place r in an era e of 400 years.
IsPlace(y, e, r) ==
    /\ y \in Int /\ e \in Int /\ r \in 0..399
    /\ y = 400 * e + r

LEMMA EraSplit ==
    ASSUME NEW y \in YEARS
    PROVE  \E e, r : IsPlace(y, e, r)
  <1> DEFINE e == y \div 400
             r == y % 400
  <1>1. y = 400 * e + r
    BY SMT DEF YEARS
  <1>2. e \in Int /\ r \in 0..399 /\ y \in Int
    BY SMT DEF YEARS
  <1>3. IsPlace(y, e, r)
    BY <1>1, <1>2, Zenon DEF IsPlace
  <1> HIDE DEF e, r
  <1> QED
    BY <1>3, Zenon

\* The era contributes whole eras, the place the rest.
LEMMA YearStart ==
    ASSUME NEW y, NEW e, NEW r, IsPlace(y, e, r)
    PROVE  year_start(y) = e * EraDays + doe_start(r)
  <1> DEFINE era == y \div 400
             yoe == y - era * 400
  <1>1. era = e
    BY SMT DEF IsPlace
  <1>2. year_start(y) = era * EraDays + doe_start(yoe)
    BY Zenon DEF year_start
  <1> HIDE DEF era
  <1>3. yoe = r
    BY <1>1, SMT DEF IsPlace
  <1> HIDE DEF yoe
  <1> QED
    BY <1>1, <1>2, <1>3, Zenon

\* Whether a year is leap depends on its place alone.
LEMMA LeapPlace ==
    ASSUME NEW y, NEW e, NEW r, IsPlace(y, e, r)
    PROVE  IsLeap(y) <=> r % 4 = 0 /\ (r % 100 # 0 \/ r = 0)
  <1> DEFINE y4 == y % 4
             y100 == y % 100
             y400 == y % 400
             r4 == r % 4
             r100 == r % 100
  <1>1. y4 = r4
    BY SMT DEF IsPlace
  <1>2. y100 = r100
    BY SMT DEF IsPlace
  <1>3. y400 = r
    BY SMT DEF IsPlace
  <1>4. IsLeap(y) <=> y4 = 0 /\ (y100 # 0 \/ y400 = 0)
    BY Zenon DEF IsLeap
  <1> SUFFICES IsLeap(y) <=> r4 = 0 /\ (r100 # 0 \/ r = 0)
    BY Zenon
  <1> HIDE DEF y4, y100, y400, r4, r100
  <1> QED
    BY <1>1, <1>2, <1>3, <1>4, Zenon

\* Within an era the days before place r are those before the place before it
\* and that year's own.
LEMMA PlaceLength ==
    ASSUME NEW r \in 1..399
    PROVE  /\ doe_start(r - 1) \in Int
           /\ doe_start(r) = doe_start(r - 1)
                + (IF r % 4 = 0 /\ r % 100 # 0 THEN 366 ELSE 365)
  <1> DEFINE a4 == r \div 4
             a100 == r \div 100
             b4 == (r - 1) \div 4
             b100 == (r - 1) \div 100
             m4 == r % 4
             m100 == r % 100
  <1>1. b4 = IF m4 = 0 THEN a4 - 1 ELSE a4
    BY SMT
  <1>2. b100 = IF m100 = 0 THEN a100 - 1 ELSE a100
    BY SMT
  <1>3. a4 \in Int /\ a100 \in Int
    BY SMT
  <1>4. m100 = 0 => m4 = 0
    BY SMT
  <1>5. doe_start(r) = r * 365 + a4 - a100
    BY Zenon DEF doe_start
  <1>6. doe_start(r - 1) = (r - 1) * 365 + b4 - b100
    BY Zenon DEF doe_start
  <1> SUFFICES /\ doe_start(r - 1) \in Int
               /\ doe_start(r) = doe_start(r - 1)
                    + (IF m4 = 0 /\ m100 # 0 THEN 366 ELSE 365)
    BY Zenon
  <1> HIDE DEF a4, a100, b4, b100, m4, m100
  <1> QED
    BY <1>1, <1>2, <1>3, <1>4, <1>5, <1>6, SMT

\* The first and the last year of an era.
LEMMA EraEnds ==
    /\ doe_start(0) = 0
    /\ doe_start(399) + 366 = EraDays
    /\ 0 % 4 = 0
  BY SMT DEF doe_start, EraDays

\* The algorithm's year ends with the February of year y, and is as long as
\* that year of the calendar.
LEMMA YearLength ==
    ASSUME NEW y \in YEARS
    PROVE  /\ year_start(y - 1) \in Int
           /\ year_start(y) = year_start(y - 1) + (IF IsLeap(y) THEN 366 ELSE 365)
  <1>1. PICK e, r : IsPlace(y, e, r)
    BY EraSplit
  <1> DEFINE leap == r % 4 = 0 /\ (r % 100 # 0 \/ r = 0)
  <1>2. year_start(y) = e * EraDays + doe_start(r) /\ (IsLeap(y) <=> leap)
    BY <1>1, YearStart, LeapPlace
  <1>3. EraDays \in Int /\ e \in Int /\ r \in 0..399
    BY <1>1 DEF EraDays, IsPlace
  <1>4. CASE r = 0
    <2>1. IsPlace(y - 1, e - 1, 399)
      BY <1>1, <1>4, SMT DEF IsPlace
    <2>2. year_start(y - 1) = (e - 1) * EraDays + doe_start(399)
      BY <2>1, YearStart
    <2>3. leap
      BY <1>4, EraEnds
    <2>4. doe_start(399) \in Int
      BY SMT DEF doe_start
    <2>5. (e - 1) * EraDays = e * EraDays - EraDays /\ e * EraDays \in Int
      BY <1>3, SMT DEF EraDays
    <2> HIDE DEF leap
    <2> QED
      BY <1>2, <1>3, <1>4, <2>2, <2>3, <2>4, <2>5, EraEnds, SMT
  <1>5. CASE r # 0
    <2>1. IsPlace(y - 1, e, r - 1)
      BY <1>1, <1>5, SMT DEF IsPlace
    <2>2. year_start(y - 1) = e * EraDays + doe_start(r - 1)
      BY <2>1, YearStart
    <2>3. r \in 1..399
      BY <1>3, <1>5, SMT
    <2> DEFINE p4 == r % 4
               p100 == r % 100
    <2>4. /\ doe_start(r - 1) \in Int
          /\ doe_start(r) = doe_start(r - 1)
               + (IF p4 = 0 /\ p100 # 0 THEN 366 ELSE 365)
      BY <2>3, PlaceLength
    <2>5. IsLeap(y) <=> p4 = 0 /\ (p100 # 0 \/ r = 0)
      BY <1>2
    <2>6. e * EraDays \in Int
      BY <1>3, SMT DEF EraDays
    <2> HIDE DEF leap, p4, p100
    <2> QED
      BY <1>2, <1>3, <1>5, <2>2, <2>4, <2>5, <2>6, SMT
  <1> QED
    BY <1>4, <1>5

(***************************************************************************)
(* Days: the algorithm counts the pages the calendar turns.                *)
(***************************************************************************)

LEMMA MonthStarts ==
    /\ month_start(1) = 306 /\ month_start(2) = 337 /\ month_start(3) = 0
    /\ month_start(4) = 31 /\ month_start(5) = 61 /\ month_start(6) = 92
    /\ month_start(7) = 122 /\ month_start(8) = 153 /\ month_start(9) = 184
    /\ month_start(10) = 214 /\ month_start(11) = 245 /\ month_start(12) = 275
  BY SMT DEF month_start

LEMMA YearStartIsInt ==
    ASSUME NEW y \in YEARS
    PROVE  y \in Int /\ year_start(y) \in Int /\ year_start(y - 1) \in Int
  <1>1. y \in Int
    BY DEF YEARS
  <1> QED
    BY <1>1, YearLength

LEMMA NextDay ==
    ASSUME NEW y \in YEARS, NEW m \in 1..12, NEW d \in Int
    PROVE  /\ days_from_civil(y, m, d) \in Int
           /\ days_from_civil(y, m, d + 1) = days_from_civil(y, m, d) + 1
  <1>1. month_start(m) \in Int
    BY MonthStarts, SMT
  <1>2. EpochDay \in Int
    BY DEF EpochDay
  <1> QED
    BY <1>1, <1>2, YearStartIsInt, SMT DEF days_from_civil

\* The last day of a month is followed by the first of the next one; after
\* February the algorithm's next year begins.
LEMMA NextMonth ==
    ASSUME NEW y \in YEARS, NEW m \in 1..11
    PROVE  days_from_civil(y, m + 1, 1) = days_from_civil(y, m, MonthLength(y, m)) + 1
  <1>1. EpochDay \in Int
    BY DEF EpochDay
  <1>2. CASE m = 1
    BY <1>1, <1>2, MonthStarts, YearStartIsInt, SMT DEF days_from_civil, MonthLength
  <1>3. CASE m = 2
    <2>1. MonthLength(y, m) = IF IsLeap(y) THEN 29 ELSE 28
      BY <1>3 DEF MonthLength
    <2>2. days_from_civil(y, m + 1, 1) = year_start(y) + 0 + 1 - 1 - EpochDay
      BY <1>3, MonthStarts, SMT DEF days_from_civil
    <2>3. days_from_civil(y, m, MonthLength(y, m))
            = year_start(y - 1) + 337 + MonthLength(y, m) - 1 - EpochDay
      BY <1>3, MonthStarts, SMT DEF days_from_civil
    <2> QED
      BY <1>1, <2>1, <2>2, <2>3, YearLength, YearStartIsInt, SMT
  <1>4. CASE m \in 3..11
    <2>1. month_start(m + 1) = month_start(m) + MonthLength(y, m) /\ month_start(m) \in Int
      BY <1>4, MonthStarts, SMT DEF MonthLength
    <2>2. MonthLength(y, m) \in Int
      BY <1>4, SMT DEF MonthLength
    <2> QED
      BY <1>1, <1>4, <2>1, <2>2, YearStartIsInt, SMT DEF days_from_civil
  <1> QED
    BY <1>2, <1>3, <1>4, SMT

LEMMA NextYear ==
    ASSUME NEW y \in YEARS
    PROVE  days_from_civil(y + 1, 1, 1) = days_from_civil(y, 12, 31) + 1
  <1>1. EpochDay \in Int
    BY DEF EpochDay
  <1>2. y + 1 - 1 = y
    BY YearStartIsInt, SMT
  <1> QED
    BY <1>1, <1>2, MonthStarts, YearStartIsInt, SMT DEF days_from_civil

LEMMA MonthLengths ==
    ASSUME NEW y, NEW m
    PROVE  MonthLength(y, m) \in 28..31
  BY SMT DEF MonthLength

LEMMA DateFields ==
    ASSUME NEW dt \in Dates
    PROVE  /\ dt.y \in YEARS /\ dt.y \in Int /\ dt.m \in 1..12 /\ dt.d \in 1..31
           /\ date_in_range(dt.y, dt.m, dt.d)
           /\ dt = [y |-> dt.y, m |-> dt.m, d |-> dt.d]
  <1>1. ASSUME NEW y \in MinYear..MaxYear
        PROVE  y \in YEARS
    <2>1. MinYear \in Int /\ MaxYear \in Int /\ 1 <= MinYear /\ MaxYear <= 9999
      BY YearsAccepted, SMT
    <2> QED
      BY <2>1, SMT DEF YEARS
  <1>2. /\ dt.y \in MinYear..MaxYear /\ dt.m \in 1..12 /\ dt.d \in 1..31
        /\ dt = [y |-> dt.y, m |-> dt.m, d |-> dt.d]
    BY SMT DEF Dates
  <1>3. dt.y \in YEARS /\ dt.y \in Int
    BY <1>1, <1>2, YearStartIsInt
  <1> QED
    BY <1>2, <1>3 DEF date_in_range

\* Turning a page forward gives a real date, one day later for the algorithm.
LEMMA PageAfter ==
    ASSUME NEW dt \in Dates, RealDate(dt), DayAfter(dt) \in Dates
    PROVE  LET nx == DayAfter(dt) IN
           /\ RealDate(nx)
           /\ days_from_civil(nx.y, nx.m, nx.d) = days_from_civil(dt.y, dt.m, dt.d) + 1
  <1> DEFINE nx == DayAfter(dt)
             last == MonthLength(dt.y, dt.m)
  <1>1. /\ dt.y \in YEARS /\ dt.y \in Int /\ dt.m \in 1..12 /\ dt.d \in 1..31
        /\ dt = [y |-> dt.y, m |-> dt.m, d |-> dt.d]
    BY DateFields
  <1>2. last \in 28..31 /\ dt.d <= last
    BY MonthLengths DEF RealDate
  <1> SUFFICES RealDate(nx) /\ days_from_civil(nx.y, nx.m, nx.d)
                                 = days_from_civil(dt.y, dt.m, dt.d) + 1
    OBVIOUS
  <1>3. CASE dt.d < last
    <2>1. nx.y = dt.y /\ nx.m = dt.m /\ nx.d = dt.d + 1
      BY <1>1, <1>2, <1>3, SMT DEF DayAfter
    <2>2. RealDate(nx)
      BY <1>1, <1>2, <1>3, <2>1 DEF RealDate
    <2> QED
      BY <1>1, <2>1, <2>2, NextDay
  <1>4. CASE dt.d = last /\ dt.m < 12
    <2>1. nx.y = dt.y /\ nx.m = dt.m + 1 /\ nx.d = 1
      BY <1>1, <1>2, <1>4, SMT DEF DayAfter
    <2>2. RealDate(nx)
      BY <2>1, MonthLengths, SMT DEF RealDate
    <2>3. dt.m \in 1..11
      BY <1>1, <1>4
    <2> QED
      BY <1>1, <1>4, <2>1, <2>2, <2>3, NextMonth
  <1>5. CASE dt.d = last /\ dt.m = 12
    <2>1. last = 31
      BY <1>5 DEF MonthLength
    <2>2. nx.y = dt.y + 1 /\ nx.m = 1 /\ nx.d = 1
      BY <1>1, <1>2, <1>5, SMT DEF DayAfter
    <2>3. RealDate(nx)
      BY <2>2, MonthLengths, SMT DEF RealDate
    <2> QED
      BY <1>1, <1>5, <2>1, <2>2, <2>3, NextYear
  <1> QED
    BY <1>1, <1>2, <1>3, <1>4, <1>5, SMT

\* Turning a page back gives the real date whose next page it was.
LEMMA PageBefore ==
    ASSUME NEW dt \in Dates, RealDate(dt), DayBefore(dt) \in Dates
    PROVE  RealDate(DayBefore(dt)) /\ DayAfter(DayBefore(dt)) = dt
  <1> DEFINE pv == DayBefore(dt)
  <1>1. /\ dt.y \in Int /\ dt.m \in 1..12 /\ dt.d \in 1..31
        /\ dt = [y |-> dt.y, m |-> dt.m, d |-> dt.d]
    BY DateFields
  <1>2. MonthLength(dt.y, dt.m) \in 28..31 /\ dt.d <= MonthLength(dt.y, dt.m)
    BY MonthLengths DEF RealDate
  <1> SUFFICES RealDate(pv) /\ DayAfter(pv) = dt
    OBVIOUS
  <1>3. CASE dt.d > 1
    <2>1. pv = [y |-> dt.y, m |-> dt.m, d |-> dt.d - 1]
      BY <1>1, <1>3, SMT DEF DayBefore
    <2>2. RealDate(pv)
      BY <1>1, <1>2, <2>1, SMT DEF RealDate
    <2>3. DayAfter(pv) = [pv EXCEPT !.d = @ + 1]
      BY <1>1, <1>2, <2>1, SMT DEF DayAfter
    <2>4. DayAfter(pv) = [y |-> dt.y, m |-> dt.m, d |-> dt.d]
      BY <1>1, <2>1, <2>3, SMT
    <2> QED
      BY <1>1, <2>2, <2>4
  <1>4. CASE dt.d = 1 /\ dt.m > 1
    <2> DEFINE len == MonthLength(dt.y, dt.m - 1)
    <2>1. len \in 28..31
      BY MonthLengths
    <2>2. ~(dt.d > 1) /\ dt.d = 1 /\ dt.m > 1
      BY <1>4
    <2>3. pv = [y |-> dt.y, m |-> dt.m - 1, d |-> len]
      BY <2>2 DEF DayBefore
    <2>4. MonthLength(pv.y, pv.m) = len /\ pv.d = len
      BY <2>3
    <2> HIDE DEF len, pv
    <2>5. RealDate(pv)
      BY <2>1, <2>4, SMT DEF RealDate
    <2>6. DayAfter(pv) = [y |-> pv.y, m |-> pv.m + 1, d |-> 1]
      BY <1>1, <1>4, <2>1, <2>3, <2>4, SMT DEF DayAfter
    <2>7. DayAfter(pv) = [y |-> dt.y, m |-> dt.m, d |-> dt.d]
      BY <1>1, <1>4, <2>3, <2>6, SMT
    <2> QED
      BY <1>1, <2>5, <2>7
  <1>5. CASE dt.d = 1 /\ dt.m = 1
    <2>1. pv = [y |-> dt.y - 1, m |-> 12, d |-> 31]
      BY <1>5, SMT DEF DayBefore
    <2>2. MonthLength(pv.y, pv.m) = 31
      BY <2>1, SMT DEF MonthLength
    <2>3. RealDate(pv)
      BY <2>1, <2>2, SMT DEF RealDate
    <2>4. DayAfter(pv) = [y |-> dt.y - 1 + 1, m |-> 1, d |-> 1]
      BY <2>1, <2>2, SMT DEF DayAfter
    <2> QED
      BY <1>1, <1>5, <2>3, <2>4, SMT
  <1> QED
    BY <1>1, <1>3, <1>4, <1>5, SMT

(***************************************************************************)
(* The theorems.                                                           *)
(***************************************************************************)

LEMMA CalendarStarts == Init => CalendarInv
  <1> SUFFICES ASSUME Init PROVE CalendarInv
    OBVIOUS
  <1>1. date.y = 1970 /\ date.m = 1 /\ date.d = 1 /\ days = 0
    BY DEF Init
  <1>2. date \in Dates
    BY YearsAccepted, SMT DEF Init, Dates
  <1>3. RealDate(date)
    BY <1>1, MonthLengths, SMT DEF RealDate
  <1>4. days_from_civil(1970, 1, 1) = 0
    BY MonthStarts, SMT DEF days_from_civil, year_start, doe_start, EraDays, EpochDay
  <1> QED
    BY <1>1, <1>2, <1>3, <1>4, DateFields DEF CalendarInv, TypeOK, DaysAreCalendar

LEMMA CalendarTurns == CalendarInv /\ [Next]_vars => CalendarInv'
  <1> SUFFICES ASSUME CalendarInv, [Next]_vars PROVE CalendarInv'
    OBVIOUS
  <1> DEFINE DaysOf(dt) == days_from_civil(dt.y, dt.m, dt.d)
  <1>1. date \in Dates /\ RealDate(date) /\ days \in Int /\ DaysOf(date) = days
    BY DEF CalendarInv, TypeOK, DaysAreCalendar
  <1>2. ASSUME date' \in Dates, RealDate(date'), days' \in Int, DaysOf(date') = days'
        PROVE  CalendarInv'
    BY <1>2, DateFields DEF CalendarInv, TypeOK, DaysAreCalendar
  <1> HIDE DEF DaysOf
  <1>3. CASE Tomorrow
    <2>1. /\ date' = DayAfter(date) /\ date' \in Dates /\ days' = days + 1
      BY <1>3 DEF Tomorrow
    <2>2. RealDate(date') /\ DaysOf(date') = DaysOf(date) + 1
      BY <1>1, <2>1, PageAfter DEF DaysOf
    <2> QED
      BY <1>1, <1>2, <2>1, <2>2
  <1>4. CASE Yesterday
    <2>1. /\ date' = DayBefore(date) /\ date' \in Dates /\ days' = days - 1
      BY <1>4 DEF Yesterday
    <2>2. RealDate(date') /\ DayAfter(date') = date
      BY <1>1, <2>1, PageBefore
    <2>3. DaysOf(date) = DaysOf(date') + 1
      BY <1>1, <2>1, <2>2, PageAfter DEF DaysOf
    <2>4. DaysOf(date') \in Int
      BY <2>1, DateFields, NextDay DEF DaysOf
    <2> QED
      BY <1>1, <1>2, <2>1, <2>2, <2>3, <2>4
  <1>5. CASE UNCHANGED vars
    BY <1>1, <1>2, <1>5 DEF vars
  <1> QED
    BY <1>3, <1>4, <1>5 DEF Next

\* In every year the code accepts, the algorithm gives each date of the calendar
\* its number of days from the epoch: civil_to_epoch is never a day off.
THEOREM DaysCorrect == Spec => []DaysAreCalendar
  <1>1. CalendarInv => DaysAreCalendar
    BY DEF CalendarInv
  <1> QED
    BY <1>1, CalendarStarts, CalendarTurns, PTL DEF Spec

\* The years of the code start between day 0 and day four million.
LEMMA YearStartBounds ==
    ASSUME NEW y \in Int, 0 <= y, y <= 9999
    PROVE  /\ year_start(y) \in Int
           /\ 0 <= year_start(y)
           /\ year_start(y) <= 4000000
  <1> DEFINE e == y \div 400
             r == y - e * 400
             q4 == r \div 4
             q100 == r \div 100
  <1>1. e \in Int /\ 0 <= e /\ e <= 24 /\ r \in Int /\ 0 <= r /\ r <= 399
    BY SMT
  <1>2. year_start(y) = e * EraDays + doe_start(r)
    BY SMT DEF year_start
  <1> HIDE DEF e, r
  <1>3. q4 \in Int /\ 0 <= q4 /\ q4 <= 99 /\ q100 \in Int /\ 0 <= q100 /\ q100 <= r
    BY <1>1, SMT
  <1>4. doe_start(r) = r * 365 + q4 - q100
    BY SMT DEF doe_start
  <1> HIDE DEF q4, q100
  <1>5. 0 <= r * 365 + q4 - q100 /\ r * 365 + q4 - q100 <= 146000
    BY <1>1, <1>3, SMT
  <1>6. e * EraDays \in Int /\ 0 <= e * EraDays /\ e * EraDays <= 3506328
    BY <1>1, SMT DEF EraDays
  <1> QED
    BY <1>1, <1>2, <1>3, <1>4, <1>5, <1>6, SMT

\* A bound on the seconds: four hundred thousand million, far inside 64 bits.
EpochLimit == 400000 * 1000000

\* Whatever a log line holds, the epoch is absent or within EpochLimit of 1970:
\* the range checks come before the multiplications of civil_to_epoch, which
\* overflowed on an unchecked year.
THEOREM EpochFits ==
    ASSUME NEW y \in Int, NEW m \in Int, NEW d \in Int,
           NEW hh \in Int, NEW mm \in Int, NEW ss \in Int
    PROVE  LET t == civil_to_epoch(y, m, d, hh, mm, ss)
           IN  t = None \/ (t \in Int /\ 0 - EpochLimit <= t /\ t <= EpochLimit)
  <1> DEFINE t == civil_to_epoch(y, m, d, hh, mm, ss)
             yy == IF m <= 2 THEN y - 1 ELSE y
             month == month_start(m)
             dd == days_from_civil(y, m, d)
             sod == seconds_of_day(hh, mm, ss)
  <1>1. CASE date_in_range(y, m, d) /\ time_in_range(hh, mm, ss)
    <2>1. /\ 1 <= y /\ y <= 9999 /\ 1 <= m /\ m <= 12 /\ 1 <= d /\ d <= 31
          /\ 0 <= hh /\ hh <= 23 /\ 0 <= mm /\ mm <= 59 /\ 0 <= ss /\ ss <= 60
      BY <1>1, SMT DEF date_in_range, time_in_range, YEARS
    <2>2. yy \in Int /\ 0 <= yy /\ yy <= 9999
      BY <2>1, SMT
    <2>3. month \in Int /\ 0 <= month /\ month <= 337
      BY <2>1, MonthStarts, SMT
    <2>4. sod \in Int /\ 0 <= sod /\ sod <= 86400
      BY <2>1, SMT DEF seconds_of_day
    <2>5. dd = year_start(yy) + month + d - 1 - EpochDay
      BY SMT DEF days_from_civil
    <2>6. t = dd * 86400 + sod
      BY <1>1, SMT DEF civil_to_epoch
    <2> HIDE DEF t, yy, month, dd, sod
    <2>7. /\ year_start(yy) \in Int
          /\ 0 <= year_start(yy)
          /\ year_start(yy) <= 4000000
      BY <2>2, YearStartBounds, SMT
    <2>8. dd \in Int /\ 0 - 800000 <= dd /\ dd <= 4000000
      BY <2>1, <2>3, <2>5, <2>7, SMT DEF EpochDay
    <2>9. t \in Int /\ 0 - EpochLimit <= t /\ t <= EpochLimit
      BY <2>4, <2>6, <2>8, SMT DEF EpochLimit
    <2> QED
      BY <2>9 DEF t
  <1>2. CASE ~(date_in_range(y, m, d) /\ time_in_range(hh, mm, ss))
    BY <1>2 DEF civil_to_epoch
  <1> QED
    BY <1>1, <1>2

-----------------------------------------------------------------------------
(***************************************************************************)
(* The timestamps of a kernel log (BsdTime).                               *)
(***************************************************************************)

\* A month's name gives its number back.
LEMMA MonthNumber ==
    ASSUME NEW m \in 1..12
    PROVE  month_number(MONTHS[m]) = m
  <1>1. DOMAIN MONTHS = 1..12 /\ Len(MONTHS) = 12
    BY DEF MONTHS
  <1>2. \A i, j \in 1..12 : MONTHS[i] = MONTHS[j] => i = j
    BY DEF MONTHS
  <1>3. Contains(MONTHS, MONTHS[m])
    BY <1>1 DEF Contains
  <1> QED
    BY <1>1, <1>2, <1>3 DEF month_number

\* Whatever the reference year, a line counts the days to its date in that year.
LEMMA EpochOfLine ==
    ASSUME NEW dt \in Dates, NEW clock \in Clocks, NEW y \in YEARS
    PROVE  /\ days_from_civil(y, dt.m, dt.d) \in Int
           /\ Seconds(clock) \in {0, 86400}
           /\ bsd_epoch(LineOf(dt, clock), y) =
                 days_from_civil(y, dt.m, dt.d) * 86400 + Seconds(clock)
  <1> DEFINE line == LineOf(dt, clock)
  <1>1. dt.m \in 1..12 /\ dt.d \in 1..31 /\ dt.d \in Int
    BY DateFields
  <1>2. month_number(line.month) = dt.m
    BY <1>1, MonthNumber DEF LineOf
  <1>3. clock.hh \in 0..23 /\ clock.mm \in 0..59 /\ clock.ss \in 0..60
        /\ Seconds(clock) \in {0, 86400}
    <2>1. CASE clock = [hh |-> 0, mm |-> 0, ss |-> 0]
      BY <2>1, SMT DEF Seconds, seconds_of_day
    <2>2. CASE clock = [hh |-> 23, mm |-> 59, ss |-> 60]
      BY <2>2, SMT DEF Seconds, seconds_of_day
    <2> QED
      BY <2>1, <2>2 DEF Clocks
  <1>4. line.day = dt.d /\ line.hh = clock.hh /\ line.mm = clock.mm /\ line.ss = clock.ss
    BY DEF LineOf
  <1> HIDE DEF line
  <1>5. None \notin {month_number(line.month), line.day, line.hh, line.mm, line.ss}
    BY <1>1, <1>2, <1>3, <1>4, NoneIsNoNumber
  <1>6. bsd_epoch(line, y) = civil_to_epoch(y, dt.m, dt.d, clock.hh, clock.mm, clock.ss)
    BY <1>2, <1>4, <1>5 DEF bsd_epoch
  <1>7. date_in_range(y, dt.m, dt.d) /\ time_in_range(clock.hh, clock.mm, clock.ss)
    BY <1>1, <1>3 DEF date_in_range, time_in_range
  <1>8. bsd_epoch(line, y) = days_from_civil(y, dt.m, dt.d) * 86400 + Seconds(clock)
    BY <1>6, <1>7 DEF civil_to_epoch, Seconds
  <1>9. days_from_civil(y, dt.m, dt.d) \in Int
    BY <1>1, NextDay
  <1> QED
    BY <1>3, <1>8, <1>9 DEF line

\* The place of a date in its year, counted from the January of that year.
LEMMA PlaceInYear ==
    ASSUME NEW y \in YEARS, NEW m \in 1..12, NEW d \in 1..31
    PROVE  /\ year_start(y - 1) \in Int /\ month_start(m) \in Int
           /\ days_from_civil(y, m, d) =
                 year_start(y - 1) + month_start(m) + d - 1 - EpochDay
                 + (IF m <= 2 THEN 0 ELSE IF IsLeap(y) THEN 366 ELSE 365)
  <1>1. year_start(y - 1) \in Int
        /\ year_start(y) = year_start(y - 1) + (IF IsLeap(y) THEN 366 ELSE 365)
    BY YearLength
  <1>2. month_start(m) \in Int
    BY MonthStarts, SMT
  <1>3. EpochDay \in Int
    BY DEF EpochDay
  <1>4. CASE m <= 2
    <2>1. days_from_civil(y, m, d) = year_start(y - 1) + month_start(m) + d - 1 - EpochDay
      BY <1>4 DEF days_from_civil
    <2> QED
      BY <1>1, <1>2, <1>3, <1>4, <2>1, SMT
  <1>5. CASE ~(m <= 2)
    <2>1. days_from_civil(y, m, d) = year_start(y) + month_start(m) + d - 1 - EpochDay
      BY <1>5 DEF days_from_civil
    <2> QED
      BY <1>1, <1>2, <1>3, <1>5, <2>1, SMT
  <1> QED
    BY <1>4, <1>5

LEMMA YearAfter ==
    ASSUME NEW dt \in Dates
    PROVE  DayAfter(dt).y = dt.y \/ DayAfter(dt).y = dt.y + 1
  <1>1. /\ dt.d \in 1..31 /\ dt.m \in 1..12
        /\ dt = [y |-> dt.y, m |-> dt.m, d |-> dt.d]
    BY DateFields
  <1>2. MonthLength(dt.y, dt.m) \in 28..31
    BY MonthLengths
  <1>3. CASE dt.d < MonthLength(dt.y, dt.m)
    BY <1>1, <1>2, <1>3, SMT DEF DayAfter
  <1>4. CASE dt.d >= MonthLength(dt.y, dt.m) /\ dt.m < 12
    BY <1>1, <1>2, <1>4, SMT DEF DayAfter
  <1>5. CASE dt.d >= MonthLength(dt.y, dt.m) /\ ~(dt.m < 12)
    BY <1>1, <1>2, <1>5, SMT DEF DayAfter
  <1> QED
    BY <1>1, <1>2, <1>3, <1>4, <1>5, SMT

LEMMA ReferenceAccepted ==
    ASSUME NEW y \in LogYears, NEW r \in (y - 1)..(y + 1)
    PROVE  r \in YEARS
  <1>1. y \in 2..9998
    BY LogYearsAccepted
  <1> QED
    BY <1>1, SMT DEF YEARS

\* The calendar turns under the log.
LEMMA LogStep == BsdInv /\ [BNext]_bvars => BsdInv'
  <1> SUFFICES ASSUME BsdInv, [BNext]_bvars
               PROVE  BsdInv'
    OBVIOUS
  <1>1. CalendarInv'
    <2>1. [Next]_vars
      BY DEF BNext, TurnForward, TurnBack, LogFirst, Next, bvars, vars
    <2> QED
      BY <2>1, CalendarTurns DEF BsdInv
  <1>2. ASSUME first' # None
        PROVE  FirstInv'
    <2>1. CASE TurnForward
      <3>1. /\ first' = first /\ year' = year /\ first # None /\ FirstInv
            /\ date' = DayAfter(date) /\ days' = days + 1 /\ date \in Dates /\ days \in Int
        BY <1>2, <2>1 DEF TurnForward, Tomorrow, BsdInv, CalendarInv, TypeOK
      <3>2. date.y \in Int /\ date'.y \in Int /\ date.y <= date'.y
        <4>1. date.y \in Int
          BY <3>1, DateFields
        <4>2. date'.y = date.y \/ date'.y = date.y + 1
          BY <3>1, YearAfter
        <4> QED
          BY <4>1, <4>2, SMT
      <3>3. first.days \in Int /\ first.date.y \in Int
        BY <3>1, DateFields DEF FirstInv
      <3>4. first.days <= days /\ first.date.y <= date.y
        BY <3>1 DEF FirstInv
      <3>5. first.days <= days' /\ first.date.y <= date'.y
        BY <3>1, <3>2, <3>3, <3>4, SMT
      <3> QED
        BY <3>1, <3>5 DEF FirstInv
    <2>2. CASE TurnBack
      BY <1>2, <2>2 DEF TurnBack
    <2>3. ASSUME NEW clock \in Clocks, NEW reference \in (date.y - 1)..(date.y + 1),
                 LogFirst(clock, reference)
          PROVE  FirstInv'
      <3>1. /\ first' = [date |-> date, days |-> days, clock |-> clock]
            /\ year' = reference /\ date' = date /\ days' = days /\ date.y \in LogYears
            /\ date \in Dates /\ RealDate(date) /\ days \in Int
            /\ days_from_civil(date.y, date.m, date.d) = days
        BY <2>3 DEF LogFirst, vars, BsdInv, CalendarInv, TypeOK, DaysAreCalendar
      <3>2. date.y \in LogYears /\ days \in Int /\ date \in Dates
        BY <3>1
      <3>3. reference \in YEARS
        BY <3>2, ReferenceAccepted
      <3>4. days <= days /\ date.y <= date.y
        BY <3>2, DateFields
      <3> QED
        BY <3>1, <3>3, <3>4 DEF FirstInv
    <2>4. CASE UNCHANGED bvars
      BY <1>2, <2>4 DEF bvars, vars, BsdInv, FirstInv
    <2> QED
      BY <2>1, <2>2, <2>3, <2>4 DEF BNext
  <1> QED
    BY <1>1, <1>2 DEF BsdInv

\* The inductive invariant: the calendar is the algorithm's, and the first line
\* of the log lies behind the present page.
THEOREM LogCorrect == BSpec => []BsdInv
  <1>1. BInit => BsdInv
    BY CalendarStarts DEF BInit, BsdInv
  <1> QED
    BY <1>1, LogStep, PTL DEF BSpec

-----------------------------------------------------------------------------
LEMMA StampsInv == BsdInv => StampsInReferenceYear
  <1> SUFFICES ASSUME BsdInv, date.y \in LogYears, NEW clock \in Clocks
               PROVE  bsd_epoch(LineOf(date, clock), date.y) = days * 86400 + Seconds(clock)
    BY DEF StampsInReferenceYear
  <1>1. date \in Dates /\ date.y \in YEARS /\ days_from_civil(date.y, date.m, date.d) = days
    BY DateFields DEF BsdInv, CalendarInv, TypeOK, DaysAreCalendar
  <1> QED
    BY <1>1, EpochOfLine

\* A line of the reference year is given its own second, wherever in the year
\* (bsd_epoch, month_number).
THEOREM StampsCorrect == BSpec => []StampsInReferenceYear
  BY LogCorrect, StampsInv, PTL

\* Two lines of one year, in numbers: their distance in their year, and under
\* the reference year.
LEMMA TwoLines ==
    ASSUME BsdInv, NEW clock \in LaterClocks, date.y = first.date.y
    PROVE  LET m == date.m
               d == date.d
               n == first.date.m
               e == first.date.d
               YearDays(y) == IF IsLeap(y) THEN 366 ELSE 365
               Apart(y) == (month_start(m) + d + IF m <= 2 THEN 0 ELSE YearDays(y))
                           - (month_start(n) + e + IF n <= 2 THEN 0 ELSE YearDays(y)) IN
           /\ first # None /\ FirstInv /\ clock \in Clocks
           /\ Seconds(clock) \in {0, 86400} /\ Seconds(first.clock) \in {0, 86400}
           /\ m \in 1..12 /\ d \in 1..31 /\ n \in 1..12 /\ e \in 1..31
           /\ d <= MonthLength(date.y, m) /\ e <= MonthLength(date.y, n)
           /\ Apart(date.y) >= 0
           /\ Elapsed(clock) = Apart(date.y) * 86400 + Seconds(clock) - Seconds(first.clock)
           /\ Elapsed(clock) >= 0
           /\ EpochAt(clock) \in Int /\ FirstEpoch \in Int
           /\ EpochAt(clock) - FirstEpoch =
                 Apart(year) * 86400 + Seconds(clock) - Seconds(first.clock)
  <1>1. first # None /\ FirstInv /\ clock \in Clocks /\ Elapsed(clock) >= 0
    BY DEF LaterClocks, BsdInv
  <1>2. /\ date \in Dates /\ RealDate(date) /\ days \in Int
        /\ days_from_civil(date.y, date.m, date.d) = days
    BY DEF BsdInv, CalendarInv, TypeOK, DaysAreCalendar
  <1>3. /\ first.date \in Dates /\ RealDate(first.date) /\ first.days \in Int
        /\ first.clock \in Clocks /\ year \in YEARS /\ first.days <= days
        /\ days_from_civil(date.y, first.date.m, first.date.d) = first.days
    BY <1>1 DEF FirstInv
  <1> DEFINE m == date.m
             d == date.d
             n == first.date.m
             e == first.date.d
             YearDays(y) == IF IsLeap(y) THEN 366 ELSE 365
             Apart(y) == (month_start(m) + d + IF m <= 2 THEN 0 ELSE YearDays(y))
                         - (month_start(n) + e + IF n <= 2 THEN 0 ELSE YearDays(y))
  <1>4. /\ m \in 1..12 /\ d \in 1..31 /\ n \in 1..12 /\ e \in 1..31 /\ date.y \in YEARS
        /\ d <= MonthLength(date.y, m) /\ e <= MonthLength(date.y, n)
    BY <1>2, <1>3, DateFields DEF RealDate
  <1> HIDE DEF m, n, d, e
  <1>5. ASSUME NEW y \in YEARS
        PROVE  /\ days_from_civil(y, m, d) \in Int /\ days_from_civil(y, n, e) \in Int
               /\ days_from_civil(y, m, d) - days_from_civil(y, n, e) = Apart(y)
               /\ Apart(y) \in Int
    <2>1. /\ year_start(y - 1) \in Int /\ month_start(m) \in Int
          /\ days_from_civil(y, m, d) =
                year_start(y - 1) + month_start(m) + d - 1 - EpochDay
                + (IF m <= 2 THEN 0 ELSE IF IsLeap(y) THEN 366 ELSE 365)
      BY <1>4, PlaceInYear
    <2>2. /\ month_start(n) \in Int
          /\ days_from_civil(y, n, e) =
                year_start(y - 1) + month_start(n) + e - 1 - EpochDay
                + (IF n <= 2 THEN 0 ELSE IF IsLeap(y) THEN 366 ELSE 365)
      BY <1>4, PlaceInYear
    <2>3. EpochDay \in Int
      BY DEF EpochDay
    <2> QED
      BY <1>4, <2>1, <2>2, <2>3, SMT
  <1>6. Apart(date.y) = days - first.days /\ Apart(date.y) >= 0
    BY <1>2, <1>3, <1>4, <1>5, SMT DEF m, n, d, e
  <1>7. Apart(year) = days_from_civil(year, m, d) - days_from_civil(year, n, e)
        /\ days_from_civil(year, m, d) \in Int /\ days_from_civil(year, n, e) \in Int
    BY <1>3, <1>5, SMT
  <1> HIDE DEF Apart
  <1>8. /\ Seconds(clock) \in {0, 86400}
        /\ EpochAt(clock) = days_from_civil(year, m, d) * 86400 + Seconds(clock)
    BY <1>1, <1>2, <1>3, EpochOfLine DEF EpochAt, m, d
  <1>9. /\ Seconds(first.clock) \in {0, 86400}
        /\ FirstEpoch = days_from_civil(year, n, e) * 86400 + Seconds(first.clock)
    BY <1>3, EpochOfLine DEF FirstEpoch, n, e
  <1>10. Elapsed(clock) = Apart(date.y) * 86400 + Seconds(clock) - Seconds(first.clock)
    BY <1>6 DEF Elapsed
  <1>11. EpochAt(clock) \in Int /\ FirstEpoch \in Int
    BY <1>7, <1>8, <1>9, SMT
  <1>12. EpochAt(clock) - FirstEpoch =
            Apart(year) * 86400 + Seconds(clock) - Seconds(first.clock)
    BY <1>7, <1>8, <1>9, SMT
  <1> QED
    BY <1>1, <1>4, <1>6, <1>8, <1>9, <1>10, <1>11, <1>12 DEF m, n, d, e, Apart

LEMMA IntervalsInv == BsdInv => IntervalsKept
  <1> SUFFICES ASSUME BsdInv, NEW clock \in LaterClocks, date.y = first.date.y,
                      IsLeap(year) = IsLeap(date.y)
               PROVE  EpochAt(clock) - FirstEpoch = Elapsed(clock)
    BY DEF IntervalsKept
  <1> QED
    BY TwoLines

\* Two lines of one year keep their distance under a wrong reference year that
\* is a leap year when theirs is (bsd_epoch).
THEOREM IntervalsCorrect == BSpec => []IntervalsKept
  BY LogCorrect, IntervalsInv, PTL

\* Two days of one year that are x days apart there and y days apart in a year
\* of another length: a and b are the starts of their months, m and n.
Gap(m, n, d, e, a, b, s, t, lived, used, x, y) ==
    /\ m \in 1..12 /\ n \in 1..12 /\ d \in 1..31 /\ e \in 1..31
    /\ a \in 0..337 /\ b \in 0..337 /\ s \in {0, 86400} /\ t \in {0, 86400}
    /\ lived \in {365, 366} /\ used \in {365, 366} /\ x \in Int /\ y \in Int
    /\ (m <= 2 => a >= 306 /\ a + d <= 366)
    /\ (m <= 2 /\ lived = 365 => a + d <= 365)
    /\ (m > 2 => a <= 275) /\ (n > 2 => b <= 275)
    /\ (m = 3 <=> a = 0) /\ (n = 1 <=> b = 306) /\ (n = 2 <=> b = 337)
    /\ (n = 2 => e <= 29)
    /\ (m <= 2 /\ n <= 2 => x = a + d - b - e /\ y = a + d - b - e)
    /\ (m > 2 /\ n > 2 => x = a + d - b - e /\ y = a + d - b - e)
    /\ (m <= 2 /\ n > 2 => x = a + d - b - e - lived)
    /\ (m > 2 /\ n <= 2 => x = a + d - b - e + lived /\ y = a + d - b - e + used)
    /\ x >= 0 /\ x * 86400 + s - t >= 0 /\ y * 86400 + s - t < 0

LEMMA OverLeapDay ==
    ASSUME NEW m, NEW n, NEW d, NEW e, NEW a, NEW b, NEW s, NEW t, NEW lived, NEW used,
           NEW x, NEW y, Gap(m, n, d, e, a, b, s, t, lived, used, x, y)
    PROVE  n = 2 /\ e = 29 /\ m = 3 /\ d = 1 /\ used = 365
  <1> USE DEF Gap
  <1>1. y <= 0 /\ x > y
    <2>1. s - t \in {-86400, 0, 86400}
      BY SMT
    <2>2. PICK z \in {-86400, 0, 86400} : z = s - t
      BY <2>1
    <2>3. x * 86400 + z >= 0 /\ y * 86400 + z < 0
      BY <2>2, SMT
    <2> QED
      BY <2>3, SMT
  <1>2. m > 2 /\ n <= 2
    <2>1. ~(m <= 2 /\ n > 2)
      BY SMT
    <2> QED
      BY <1>1, <2>1, SMT
  <1>3. lived = 366 /\ used = 365 /\ x <= 1
    BY <1>1, <1>2, SMT
  <1>4. n = 2 /\ e = 29 /\ a + d = 1
    BY <1>2, <1>3, SMT
  <1> QED
    BY <1>3, <1>4, SMT

LEMMA BackwardsInv == BsdInv => BackwardsOnlyOverNewYear
  <1> SUFFICES ASSUME BsdInv, NEW clock \in LaterClocks, EpochAt(clock) < FirstEpoch,
                      ~(date.y > first.date.y)
               PROVE  OnLeapDay(first.date) /\ ~IsLeap(year) /\ date.m = 3 /\ date.d = 1
    BY DEF BackwardsOnlyOverNewYear
  <1>1. date.y = first.date.y
    <2>1. FirstInv /\ date \in Dates
      BY DEF BsdInv, CalendarInv, TypeOK, LaterClocks
    <2>2. date.y \in Int /\ first.date.y \in Int /\ first.date.y <= date.y
      BY <2>1, DateFields DEF FirstInv
    <2> QED
      BY <2>2, SMT
  <1> DEFINE m == date.m
             d == date.d
             n == first.date.m
             e == first.date.d
             a == month_start(m)
             b == month_start(n)
             s == Seconds(clock)
             t == Seconds(first.clock)
             lived == IF IsLeap(date.y) THEN 366 ELSE 365
             used == IF IsLeap(year) THEN 366 ELSE 365
             Apart(k) == (a + d + IF m <= 2 THEN 0 ELSE k)
                         - (b + e + IF n <= 2 THEN 0 ELSE k)
             x == Apart(lived)
             y == Apart(used)
  <1>2. /\ s \in {0, 86400} /\ t \in {0, 86400}
        /\ m \in 1..12 /\ d \in 1..31 /\ n \in 1..12 /\ e \in 1..31
        /\ d <= MonthLength(date.y, m) /\ e <= MonthLength(date.y, n)
        /\ x >= 0
        /\ Elapsed(clock) = x * 86400 + s - t
        /\ Elapsed(clock) >= 0
        /\ EpochAt(clock) \in Int /\ FirstEpoch \in Int
        /\ EpochAt(clock) - FirstEpoch = y * 86400 + s - t
    BY <1>1, TwoLines
  <1>3. used \in {365, 366} /\ lived \in {365, 366} /\ (used = 365 => ~IsLeap(year))
        /\ (lived = 365 => ~IsLeap(date.y))
    OBVIOUS
  <1>4. /\ a \in 0..337 /\ b \in 0..337
        /\ (m = 1 => a = 306) /\ (m = 2 => a = 337)
        /\ (n = 1 <=> b = 306) /\ (n = 2 <=> b = 337)
        /\ (m = 3 <=> a = 0)
        /\ (m > 2 => a <= 275) /\ (n > 2 => b <= 275)
    BY <1>2, MonthStarts, SMT
  <1>5. (n = 2 => e <= 29) /\ (m = 2 /\ lived = 365 => d <= 28) /\ (m = 2 => d <= 29)
    BY <1>2, <1>3, SMT DEF MonthLength
  <1> HIDE DEF s, t, m, d, n, e, a, b, lived, used
  <1>6. /\ m <= 2 => a >= 306 /\ a + d <= 366
        /\ m <= 2 /\ lived = 365 => a + d <= 365
    BY <1>2, <1>3, <1>4, <1>5, SMT
  <1>7. /\ m <= 2 /\ n <= 2 => x = a + d - b - e /\ y = a + d - b - e
        /\ m > 2 /\ n > 2 => x = a + d - b - e /\ y = a + d - b - e
        /\ m <= 2 /\ n > 2 => x = a + d - b - e - lived
        /\ m > 2 /\ n <= 2 => x = a + d - b - e + lived /\ y = a + d - b - e + used
    <2>1. \A k \in {365, 366} :
             /\ m <= 2 /\ n <= 2 => Apart(k) = a + d - b - e
             /\ m > 2 /\ n > 2 => Apart(k) = a + d - b - e
             /\ m <= 2 /\ n > 2 => Apart(k) = a + d - b - e - k
             /\ m > 2 /\ n <= 2 => Apart(k) = a + d - b - e + k
      BY <1>2, <1>4, SMT
    <2> HIDE DEF Apart
    <2> QED
      BY <1>3, <2>1
  <1>8. x \in Int /\ y \in Int
    <2>1. \A k \in {365, 366} : Apart(k) \in Int
      BY <1>2, <1>4, SMT
    <2> HIDE DEF Apart
    <2> QED
      BY <1>3, <2>1
  <1> HIDE DEF x, y
  <1>9. x * 86400 + s - t >= 0 /\ y * 86400 + s - t < 0
    BY <1>2, <1>8, SMT
  <1>10. Gap(m, n, d, e, a, b, s, t, lived, used, x, y)
    BY <1>2, <1>3, <1>4, <1>5, <1>6, <1>7, <1>8, <1>9, SMTT(60) DEF Gap
  <1>11. n = 2 /\ e = 29 /\ m = 3 /\ d = 1 /\ used = 365
    BY <1>10, OverLeapDay
  <1> QED
    BY <1>3, <1>11 DEF m, d, n, e, OnLeapDay

\* A line is dated before an earlier one only over a New Year, or when the
\* earlier one is of a leap day the reference year does not have (bsd_epoch).
THEOREM BackwardsCorrect == BSpec => []BackwardsOnlyOverNewYear
  BY LogCorrect, BackwardsInv, PTL
=============================================================================
