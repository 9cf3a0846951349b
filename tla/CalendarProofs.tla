--------------------------- MODULE CalendarProofs ---------------------------
(* Proofs for Calendar.  They hold for every date, every number of reports   *)
(* and without the bound on the clock's run.                                 *)
EXTENDS Calendar, TLAPS

\* Types, and that `today` is the ordinal of `date`, a day that exists.
TypeOK ==
    /\ date \in Date
    /\ date.year > 1
    /\ date.day <= DaysInMonth(date.year, date.month)
    /\ today = Ordinal(date.year, date.month, date.day)
    /\ days \in Nat
    /\ pc \in [Report -> {"idle", "current", "failed"}]
    /\ readOn \in [Report -> Int]
    /\ former \in [Report -> [from : Int, to : Int] \cup {None}]
    /\ current \in [Report -> [from : Int, to : Int] \cup {None}]

\* How a former period read on day `read` lies to a current period.
Adjoin(read, old, new) ==
    /\ old.from <= old.to /\ new.from <= new.to
    /\ read > old.to
    /\ IF read >= new.from THEN new.from = old.to + 1 ELSE read = new.from - 1

\* The periods of a report adjoin from the first read on.
Reads ==
    \A r \in Report :
        /\ pc[r] = "current" => Adjoin(readOn[r], former[r], Period(r, 0))
        /\ pc[r] = "failed" => Adjoin(readOn[r], former[r], current[r])

IInv == TypeOK /\ Reads

\* The number of a date's month and the first day of a month by its number.
Index(d) == d.year * 12 + (d.month - 1)
First(i) == Ordinal(i \div 12, (i % 12) + 1, 1)

-----------------------------------------------------------------------------
(* The calendar.                                                           *)

\* A month has 28 to 31 days.
LEMMA MonthDays ==
    ASSUME NEW y, NEW m PROVE DaysInMonth(y, m) \in 28 .. 31
BY DEF DaysInMonth

\* The days before a year are a number.
LEMMA YearIsInt ==
    ASSUME NEW y \in Int PROVE DaysBeforeYear(y) \in Int
BY DEF DaysBeforeYear

\* So are the days before a month of it.
LEMMA MonthIsInt ==
    ASSUME NEW y, NEW m \in 1 .. 12 PROVE DaysBeforeMonth(y, m) \in Int
<1>1. <<0, 31, 59, 90, 120, 151, 181, 212, 243, 273, 304, 334>>[m] \in Int
  BY m \in {1, 2, 3, 4, 5, 6, 7, 8, 9, 10, 11, 12}
<1>. QED  BY <1>1 DEF DaysBeforeMonth

\* A year has 365 days, or 366 if it is a leap year.
LEMMA YearLength ==
    ASSUME NEW y \in Nat \ {0}
    PROVE  DaysBeforeYear(y + 1) =
               DaysBeforeYear(y) + (IF Leap(y) THEN 366 ELSE 365)
<1>1. y \div 4 = (y - 1) \div 4 + (IF y % 4 = 0 THEN 1 ELSE 0)  OBVIOUS
<1>2. y \div 100 = (y - 1) \div 100 + (IF y % 100 = 0 THEN 1 ELSE 0)  OBVIOUS
<1>3. y \div 400 = (y - 1) \div 400 + (IF y % 400 = 0 THEN 1 ELSE 0)  OBVIOUS
<1>4. y % 100 = 0 => y % 4 = 0  OBVIOUS
<1>5. y % 400 = 0 => y % 100 = 0  OBVIOUS
<1>6. (y + 1) - 1 = y  OBVIOUS
<1>. QED  BY <1>1, <1>2, <1>3, <1>4, <1>5, <1>6 DEF DaysBeforeYear, Leap

\* The month after a month begins when its days are over.
LEMMA MonthLength ==
    ASSUME NEW y \in Nat \ {0}, NEW m \in 1 .. 12
    PROVE  LET ny == IF m < 12 THEN y ELSE y + 1
               nm == IF m < 12 THEN m + 1 ELSE 1
           IN  Ordinal(ny, nm, 1) = Ordinal(y, m, 1) + DaysInMonth(y, m)
<1>0. m \in {1, 2, 3, 4, 5, 6, 7, 8, 9, 10, 11, 12}  OBVIOUS
<1>1. CASE m < 12
  <2>1. DaysBeforeMonth(y, m + 1) = DaysBeforeMonth(y, m) + DaysInMonth(y, m)
    BY <1>0, <1>1 DEF DaysBeforeMonth, DaysInMonth
  <2>. QED  BY <1>1, <2>1, MonthDays, YearIsInt, MonthIsInt, m + 1 \in 1 .. 12 DEF Ordinal
<1>2. CASE m = 12
  <2>1. DaysBeforeMonth(y, 12) + DaysInMonth(y, 12) = IF Leap(y) THEN 366 ELSE 365
    BY DEF DaysBeforeMonth, DaysInMonth
  <2>2. DaysBeforeMonth(y + 1, 1) = 0  BY DEF DaysBeforeMonth
  <2>3. /\ DaysBeforeYear(y) \in Int /\ DaysBeforeYear(y + 1) \in Int
        /\ DaysBeforeMonth(y, 12) \in Int /\ DaysInMonth(y, 12) \in Int
    <3>1. y \in Int /\ y + 1 \in Int /\ 12 \in 1 .. 12  OBVIOUS
    <3>2. DaysInMonth(y, 12) \in 28 .. 31  BY MonthDays
    <3>. QED  BY <3>1, <3>2, YearIsInt, MonthIsInt
  <2>4. Ordinal(y + 1, 1, 1) = Ordinal(y, 12, 1) + DaysInMonth(y, 12)
    BY <2>1, <2>2, <2>3, YearLength DEF Ordinal
  <2>. QED  BY <1>2, <2>4
<1>. QED  BY <1>0, <1>1, <1>2

\* Numbering the months through the years loses nothing.
LEMMA FirstOfMonth ==
    ASSUME NEW y \in Nat \ {0}, NEW m \in 1 .. 12
    PROVE  First(y * 12 + (m - 1)) = Ordinal(y, m, 1)
<1>1. (y * 12 + (m - 1)) \div 12 = y  OBVIOUS
<1>2. (y * 12 + (m - 1)) % 12 = m - 1  OBVIOUS
<1>. QED  BY <1>1, <1>2 DEF First

\* The month of a date by its number.
LEMMA MonthOf ==
    ASSUME NEW d \in Date
    PROVE  /\ Index(d) \in Int
           /\ First(Index(d)) = Ordinal(d.year, d.month, 1)
           /\ First(Index(d) + 1) = First(Index(d)) + DaysInMonth(d.year, d.month)
           /\ First(Index(d)) \in Int /\ First(Index(d) - 1) \in Int
<1>. DEFINE y == d.year  m == d.month
<1>0. y \in Nat \ {0} /\ m \in 1 .. 12  BY DEF Date
<1>1. First(Index(d)) = Ordinal(y, m, 1)  BY <1>0, FirstOfMonth DEF Index
<1>2. First(Index(d) + 1) = First(Index(d)) + DaysInMonth(y, m)
  <2>1. CASE m < 12
    <3>1. Index(d) + 1 = y * 12 + ((m + 1) - 1)  BY <1>0 DEF Index
    <3>2. m + 1 \in 1 .. 12  BY <1>0, <2>1
    <3>3. First(Index(d) + 1) = Ordinal(y, m + 1, 1)
      BY <1>0, <3>1, <3>2, FirstOfMonth
    <3>. QED  BY <1>0, <1>1, <2>1, <3>3, MonthLength
  <2>2. CASE m = 12
    <3>1. Index(d) + 1 = (y + 1) * 12 + (1 - 1)  BY <1>0, <2>2 DEF Index
    <3>2. y + 1 \in Nat \ {0} /\ 1 \in 1 .. 12  BY <1>0
    <3>3. First(Index(d) + 1) = Ordinal(y + 1, 1, 1)
      BY <3>1, <3>2, FirstOfMonth
    <3>. QED  BY <1>0, <1>1, <2>2, <3>3, MonthLength
  <2>. QED  BY <1>0, <2>1, <2>2
<1>3. Index(d) \in Int  BY <1>0 DEF Index
<1>4. ASSUME NEW i \in Int  PROVE First(i) \in Int
  <2>1. i \div 12 \in Int /\ (i % 12) + 1 \in 1 .. 12  OBVIOUS
  <2>2. /\ DaysBeforeYear(i \div 12) \in Int
        /\ DaysBeforeMonth(i \div 12, (i % 12) + 1) \in Int
    BY <2>1, YearIsInt, MonthIsInt
  <2>. QED  BY <2>2 DEF First, Ordinal
<1>. QED  BY <1>1, <1>2, <1>3, <1>4

\* MonthRange in terms of the number of the month.
LEMMA MonthRangeByIndex ==
    ASSUME NEW d \in Date, NEW o \in Int
    PROVE  MonthRange(d, o) = [from |-> First(Index(d) + o),
                               to |-> First(Index(d) + o + 1) - 1]
BY DEF MonthRange, Index, First

\* The date after a date exists, and its month is the same or the next one.
LEMMA NextDateFacts ==
    ASSUME NEW d \in Date, d.day <= DaysInMonth(d.year, d.month), d.year > 1
    PROVE  LET e == NextDate(d) IN
           /\ e \in Date /\ e.year > 1
           /\ e.day <= DaysInMonth(e.year, e.month)
           /\ IF d.day < DaysInMonth(d.year, d.month)
              THEN Index(e) = Index(d) /\ e.year = d.year /\ e.month = d.month
                   /\ e.day = d.day + 1
              ELSE Index(e) = Index(d) + 1 /\ e.day = 1
<1>. DEFINE e == NextDate(d)
<1>0. /\ d.year \in Nat \ {0} /\ d.month \in 1 .. 12 /\ d.day \in 1 .. 31
      /\ d = [year |-> d.year, month |-> d.month, day |-> d.day]
  BY DEF Date
<1>1. DaysInMonth(d.year, d.month) \in 28 .. 31  BY <1>0, MonthDays, YearIsInt, MonthIsInt, 1 \in Int
<1>2. CASE d.day < DaysInMonth(d.year, d.month)
  <2>1. e = [year |-> d.year, month |-> d.month, day |-> d.day + 1]
    BY <1>0, <1>2 DEF NextDate
  <2>. QED  BY <1>0, <1>1, <1>2, <2>1 DEF Date, Index
<1>3. CASE ~(d.day < DaysInMonth(d.year, d.month)) /\ d.month < 12
  <2>1. e = [year |-> d.year, month |-> d.month + 1, day |-> 1]
    BY <1>0, <1>3 DEF NextDate
  <2>2. DaysInMonth(d.year, d.month + 1) \in 28 .. 31
    BY <1>0, <1>3, MonthDays, YearIsInt, MonthIsInt, 1 \in Int, d.month + 1 \in 1 .. 12
  <2>. QED  BY <1>0, <1>3, <2>1, <2>2 DEF Date, Index
<1>4. CASE ~(d.day < DaysInMonth(d.year, d.month)) /\ d.month = 12
  <2>1. e = [year |-> d.year + 1, month |-> 1, day |-> 1]
    BY <1>0, <1>4 DEF NextDate
  <2>2. DaysInMonth(d.year + 1, 1) \in 28 .. 31
    BY <1>0, MonthDays, YearIsInt, MonthIsInt, 1 \in Int, 1 \in 1 .. 12, d.year + 1 \in Int
  <2>. QED  BY <1>0, <1>4, <2>1, <2>2 DEF Date, Index
<1>. QED  BY <1>0, <1>2, <1>3, <1>4

-----------------------------------------------------------------------------
(* Periods.                                                                *)

\* What TypeOK says about today and its month.
IsDay(n, d) ==
    /\ d \in Date /\ d.year > 1 /\ d.day <= DaysInMonth(d.year, d.month)
    /\ n = Ordinal(d.year, d.month, d.day)

\* A day is counted from the first of its month.
LEMMA TodayInMonth ==
    ASSUME NEW n, NEW d, IsDay(n, d)
    PROVE  /\ n \in Int /\ d \in Date
           /\ n = First(Index(d)) + d.day - 1
           /\ d.day \in 1 .. DaysInMonth(d.year, d.month)
           /\ DaysInMonth(d.year, d.month) \in 28 .. 31
<1>0. d \in Date  BY DEF IsDay
<1>1. d.year \in Int /\ d.month \in 1 .. 12 /\ d.day \in 1 .. 31  BY <1>0 DEF Date
<1>2. First(Index(d)) = Ordinal(d.year, d.month, 1)  BY <1>0, MonthOf
<1>3. /\ DaysBeforeYear(d.year) \in Int
      /\ DaysBeforeMonth(d.year, d.month) \in Int
      /\ DaysInMonth(d.year, d.month) \in 28 .. 31
  BY <1>1, MonthDays, YearIsInt, MonthIsInt
<1>. QED  BY <1>0, <1>1, <1>2, <1>3 DEF IsDay, Ordinal

\* The month before a date's month exists and is not empty.
LEMMA FormerMonth ==
    ASSUME NEW d \in Date, d.year > 1
    PROVE  First(Index(d) - 1) < First(Index(d))
<1>. DEFINE y == d.year  m == d.month
<1>0. y \in Nat \ {0} /\ y > 1 /\ m \in 1 .. 12  BY DEF Date
<1>1. First(Index(d)) = Ordinal(y, m, 1)  BY <1>0, FirstOfMonth DEF Index
<1>2. First(Index(d) - 1) \in Int  BY MonthOf
<1>3. CASE m > 1
  <2>1. m - 1 \in 1 .. 12 /\ m - 1 < 12 /\ (m - 1) + 1 = m  BY <1>0, <1>3
  <2>2. Index(d) - 1 = y * 12 + ((m - 1) - 1)  BY <1>0 DEF Index
  <2>3. First(Index(d) - 1) = Ordinal(y, m - 1, 1)  BY <1>0, <2>1, <2>2, FirstOfMonth
  <2>4. Ordinal(y, m, 1) = Ordinal(y, m - 1, 1) + DaysInMonth(y, m - 1)
    BY <1>0, <2>1, MonthLength
  <2>5. DaysInMonth(y, m - 1) \in 28 .. 31  BY MonthDays
  <2>. QED  BY <1>1, <1>2, <2>3, <2>4, <2>5
<1>4. CASE m = 1
  <2>1. y - 1 \in Nat \ {0} /\ (y - 1) + 1 = y /\ 12 \in 1 .. 12  BY <1>0
  <2>2. Index(d) - 1 = (y - 1) * 12 + (12 - 1)  BY <1>0, <1>4 DEF Index
  <2>3. First(Index(d) - 1) = Ordinal(y - 1, 12, 1)  BY <2>1, <2>2, FirstOfMonth
  <2>4. Ordinal(y, 1, 1) = Ordinal(y - 1, 12, 1) + DaysInMonth(y - 1, 12)
    BY <2>1, MonthLength
  <2>5. DaysInMonth(y - 1, 12) \in 28 .. 31  BY MonthDays
  <2>. QED  BY <1>1, <1>2, <1>4, <2>3, <2>4, <2>5
<1>. QED  BY <1>0, <1>3, <1>4

\* The weekday runs through 0 .. 6.
LEMMA WeekdayFacts ==
    ASSUME NEW n \in Int
    PROVE  /\ Weekday(n) \in 0 .. 6
           /\ Weekday(n + 1) = IF Weekday(n) = 6 THEN 0 ELSE Weekday(n) + 1
           /\ Weekday(n - Weekday(n)) = 0
BY DEF Weekday

\* A current period holds today and the former one, which is not empty, ends
\* right before it.
LEMMA PeriodFacts ==
    ASSUME NEW n, NEW d, IsDay(n, d), NEW kind \in {"weekly", "monthly"}
    PROVE  LET now == Range(kind, n, d, 0)
               old == Range(kind, n, d, -1)
           IN  /\ now \in [from : Int, to : Int] /\ old \in [from : Int, to : Int]
               /\ n \in now.from .. now.to
               /\ now.from = old.to + 1
               /\ old.from <= old.to /\ now.from <= now.to
<1>1. CASE kind = "weekly"
  BY <1>1, TodayInMonth, WeekdayFacts DEF Range, WeekRange
<1>2. CASE kind = "monthly"
  <2>1. d \in Date /\ d.year > 1  BY DEF IsDay
  <2>2. /\ Range(kind, n, d, 0) = [from |-> First(Index(d)),
                                   to |-> First(Index(d) + 1) - 1]
        /\ Range(kind, n, d, -1) = [from |-> First(Index(d) - 1),
                                    to |-> First(Index(d)) - 1]
    <3>1. /\ Index(d) + 0 = Index(d) /\ Index(d) + 0 + 1 = Index(d) + 1
          /\ Index(d) + (-1) = Index(d) - 1
          /\ Index(d) + (-1) + 1 = Index(d)
      BY <2>1, MonthOf
    <3>. QED  BY <1>2, <2>1, <3>1, MonthRangeByIndex, 0 \in Int, -1 \in Int DEF Range
  <2>. QED  BY <2>1, <2>2, TodayInMonth, MonthOf, FormerMonth
<1>. QED  BY <1>1, <1>2

\* What a midnight does to the periods of both kinds.
LEMMA MidnightPasses ==
    ASSUME TypeOK, date' = NextDate(date), today' = today + 1,
           NEW kind \in {"weekly", "monthly"}
    PROVE  Passed(kind)
<1>1. CASE kind = "weekly"
  <2>0. IsDay(today, date)  BY DEF TypeOK, IsDay
  <2>1. today \in Int  BY <2>0, TodayInMonth
  <2>2. /\ Range(kind, today, date, 0) = WeekRange(today, 0)
        /\ Range(kind, today, date, -1) = WeekRange(today, -1)
        /\ Range(kind, today', date', 0) = WeekRange(today + 1, 0)
        /\ Range(kind, today', date', -1) = WeekRange(today + 1, -1)
    BY <1>1 DEF Range
  <2>3. CASE Weekday(today) = 6
    <3>1. Weekday(today + 1) = 0  BY <2>1, <2>3, WeekdayFacts
    <3>2. today = WeekRange(today, 0).to
      BY <2>1, <2>3 DEF WeekRange
    <3>3. /\ WeekRange(today + 1, -1) = WeekRange(today, 0)
          /\ WeekRange(today + 1, 0).from = today + 1
      BY <2>1, <2>3, <3>1 DEF WeekRange
    <3>. QED  BY <2>2, <3>2, <3>3 DEF Passed
  <2>4. CASE Weekday(today) # 6
    <3>0. Weekday(today) \in 0 .. 6  BY <2>1, WeekdayFacts
    <3>1. Weekday(today + 1) = Weekday(today) + 1  BY <2>1, <2>4, WeekdayFacts
    <3>2. today # WeekRange(today, 0).to
      BY <2>1, <2>4, <3>0 DEF WeekRange
    <3>3. /\ WeekRange(today + 1, 0) = WeekRange(today, 0)
          /\ WeekRange(today + 1, -1) = WeekRange(today, -1)
      BY <2>1, <3>0, <3>1 DEF WeekRange
    <3>. QED  BY <2>2, <3>2, <3>3 DEF Passed
  <2>. QED  BY <2>3, <2>4
<1>2. CASE kind = "monthly"
  <2>. DEFINE i == Index(date)
  <2>0. IsDay(today, date)  BY DEF TypeOK, IsDay
  <2>1. /\ date \in Date /\ date' \in Date
        /\ IF date.day < DaysInMonth(date.year, date.month)
           THEN Index(date') = i ELSE Index(date') = i + 1
    BY NextDateFacts DEF TypeOK
  <2>2. /\ i \in Int /\ First(i) \in Int
        /\ First(i + 1) = First(i) + DaysInMonth(date.year, date.month)
    BY <2>1, MonthOf
  <2>3. /\ Range(kind, today, date, 0) = [from |-> First(i), to |-> First(i + 1) - 1]
        /\ Range(kind, today, date, -1) = [from |-> First(i - 1), to |-> First(i) - 1]
    <3>1. i + 0 = i /\ i + 0 + 1 = i + 1 /\ i + (-1) = i - 1 /\ i + (-1) + 1 = i
      BY <2>2
    <3>. QED  BY <1>2, <2>1, <3>1, MonthRangeByIndex, 0 \in Int, -1 \in Int DEF Range
  <2>4. CASE date.day < DaysInMonth(date.year, date.month)
    <3>1. today # First(i + 1) - 1  BY <2>0, <2>2, <2>4, TodayInMonth
    <3>2. /\ Range(kind, today', date', 0) = Range(kind, today, date, 0)
          /\ Range(kind, today', date', -1) = Range(kind, today, date, -1)
      BY <1>2, <2>1, <2>4, MonthRangeByIndex, 0 \in Int, -1 \in Int DEF Range
    <3>. QED  BY <2>3, <3>1, <3>2 DEF Passed
  <2>5. CASE ~(date.day < DaysInMonth(date.year, date.month))
    <3>1. today = First(i + 1) - 1  BY <2>0, <2>2, <2>5, TodayInMonth
    <3>2. Index(date') = i + 1  BY <2>1, <2>5
    <3>3. /\ Range(kind, today', date', 0).from = First(i + 1)
          /\ Range(kind, today', date', -1) = [from |-> First(i), to |-> First(i + 1) - 1]
      <4>1. i + 1 + 0 = i + 1 /\ i + 1 + (-1) = i /\ i + 1 + (-1) + 1 = i + 1  BY <2>2
      <4>. QED  BY <1>2, <2>1, <3>2, <4>1, MonthRangeByIndex, 0 \in Int, -1 \in Int DEF Range
    <3>4. today \in Int /\ First(i + 1) = today + 1
      BY <2>0, <2>2, <3>1, TodayInMonth
    <3>. QED  BY <2>3, <3>1, <3>3, <3>4 DEF Passed
  <2>. QED  BY <2>4, <2>5
<1>. QED  BY <1>1, <1>2

-----------------------------------------------------------------------------
(* The inductive invariant.                                                *)

\* The first state.
LEMMA InitIInv == Init => IInv
<1>. SUFFICES ASSUME Init PROVE IInv  OBVIOUS
<1>1. TypeOK  BY StartAssumption DEF Init, TypeOK
<1>. QED  BY <1>1 DEF Init, IInv, Reads

\* Every step keeps the types.
LEMMA NextTypeOK == TypeOK /\ [Next]_vars => TypeOK'
<1>. SUFFICES ASSUME TypeOK, [Next]_vars PROVE TypeOK'  OBVIOUS
<1>0. IsDay(today, date)  BY DEF TypeOK, IsDay
<1>1. ASSUME NEW r \in Report, ReadFormer(r) PROVE TypeOK'
  <2>1. Period(r, -1) \in [from : Int, to : Int] /\ today \in Int
    BY <1>0, PeriodFacts, TodayInMonth, KindAssumption DEF Period
  <2>. QED  BY <1>1, <2>1 DEF TypeOK, ReadFormer
<1>2. ASSUME NEW r \in Report, ReadCurrent(r) PROVE TypeOK'
  BY <1>0, <1>2, PeriodFacts, KindAssumption DEF TypeOK, ReadCurrent, Period
<1>3. ASSUME NEW r \in Report, Leave(r) PROVE TypeOK'
  BY <1>3 DEF TypeOK, Leave
<1>4. ASSUME Midnight PROVE TypeOK'
  <2>1. /\ date' \in Date /\ date'.year > 1
        /\ date'.day <= DaysInMonth(date'.year, date'.month)
        /\ IF date.day < DaysInMonth(date.year, date.month)
           THEN Index(date') = Index(date) /\ date'.day = date.day + 1
           ELSE Index(date') = Index(date) + 1 /\ date'.day = 1
    BY <1>4, NextDateFacts DEF TypeOK, Midnight
  <2>2. First(Index(date)) \in Int
        /\ First(Index(date) + 1) = First(Index(date)) + DaysInMonth(date.year, date.month)
    BY MonthOf DEF TypeOK
  <2>3. today' = First(Index(date')) + date'.day - 1
    BY <1>0, <1>4, <2>1, <2>2, TodayInMonth DEF Midnight
  <2>4. date'.year \in Int /\ date'.month \in 1 .. 12 /\ date'.day \in Int
    BY <2>1 DEF Date
  <2>5. Ordinal(date'.year, date'.month, date'.day)
            = Ordinal(date'.year, date'.month, 1) + date'.day - 1
    BY <2>4, MonthDays, YearIsInt, MonthIsInt DEF Ordinal
  <2>6. First(Index(date')) = Ordinal(date'.year, date'.month, 1)  BY <2>1, MonthOf
  <2>7. today' = Ordinal(date'.year, date'.month, date'.day)  BY <2>3, <2>5, <2>6
  <2>. QED  BY <1>4, <2>1, <2>7 DEF TypeOK, Midnight
<1>5. CASE UNCHANGED vars  BY <1>5 DEF TypeOK, vars
<1>. QED  BY <1>1, <1>2, <1>3, <1>4, <1>5 DEF Next

\* Every step keeps Reads.
LEMMA NextReads == IInv /\ [Next]_vars => Reads'
<1>. SUFFICES ASSUME IInv, [Next]_vars, NEW s \in Report
              PROVE  /\ pc'[s] = "current" => Adjoin(readOn'[s], former'[s], Period(s, 0)')
                     /\ pc'[s] = "failed" => Adjoin(readOn'[s], former'[s], current'[s])
  BY DEF Reads
<1>. USE DEF IInv
<1>0. /\ Kind[s] \in {"weekly", "monthly"}
      /\ IsDay(today, date)
      /\ pc[s] = "current" => Adjoin(readOn[s], former[s], Period(s, 0))
      /\ pc[s] = "failed" => Adjoin(readOn[s], former[s], current[s])
  BY KindAssumption DEF Reads, TypeOK, IsDay
<1>1. ASSUME NEW r \in Report, ReadFormer(r), r = s
      PROVE  pc'[s] = "current" /\ Adjoin(readOn'[s], former'[s], Period(s, 0)')
  <2>1. /\ pc'[s] = "current" /\ readOn'[s] = today /\ former'[s] = Period(s, -1)
        /\ Period(s, 0)' = Period(s, 0)
    BY <1>1 DEF ReadFormer, TypeOK, Period
  <2>2. Adjoin(today, Period(s, -1), Period(s, 0))
    BY <1>0, PeriodFacts DEF Adjoin, Period
  <2>. QED  BY <2>1, <2>2
<1>2. ASSUME NEW r \in Report, ReadCurrent(r), r = s
      PROVE  pc'[s] = "failed" /\ Adjoin(readOn'[s], former'[s], current'[s])
  BY <1>0, <1>2 DEF ReadCurrent, TypeOK
<1>3. ASSUME NEW r \in Report, Leave(r), r = s
      PROVE  pc'[s] = "idle"
  BY <1>3 DEF Leave, TypeOK
<1>4. ASSUME NEW r \in Report, ReadFormer(r) \/ ReadCurrent(r) \/ Leave(r), r # s
      PROVE  /\ pc'[s] = pc[s] /\ readOn'[s] = readOn[s] /\ former'[s] = former[s]
             /\ current'[s] = current[s] /\ Period(s, 0)' = Period(s, 0)
  BY <1>4 DEF ReadFormer, ReadCurrent, Leave, TypeOK, Period
<1>5. CASE Midnight
  <2>1. /\ pc'[s] = pc[s] /\ readOn'[s] = readOn[s] /\ former'[s] = former[s]
        /\ current'[s] = current[s]
        /\ date' = NextDate(date) /\ today' = today + 1
        /\ pc[s] # "idle" => readOn[s] = today
    BY <1>5 DEF Midnight
  <2>2. ASSUME pc[s] = "current"
        PROVE  Adjoin(today, former[s], Period(s, 0)')
    <3>. DEFINE now == Period(s, 0)  new == Range(Kind[s], today', date', 0)
    <3>1. /\ Adjoin(today, former[s], now)
          /\ now \in [from : Int, to : Int] /\ today \in now.from .. now.to
      BY <1>0, <2>1, <2>2, PeriodFacts DEF Period
    <3>2. IF today = now.to THEN new.from = today + 1 ELSE new = now
      BY <1>0, <2>1, MidnightPasses DEF Passed, Period
    <3>3. new \in [from : Int, to : Int] /\ new.from <= new.to
      <4>1. IsDay(today', date')  BY NextTypeOK DEF TypeOK, IsDay
      <4>. QED  BY <1>0, <4>1, PeriodFacts
    <3>4. today \in Int  BY <1>0, TodayInMonth
    <3>5. CASE today = now.to
      <4>1. new.from = today + 1  BY <3>2, <3>5
      <4>. QED  BY <3>1, <3>3, <3>4, <4>1 DEF Adjoin, Period
    <3>6. CASE today # now.to
      BY <3>1, <3>2, <3>6 DEF Period
    <3>. QED  BY <3>5, <3>6
  <2>. QED  BY <1>0, <2>1, <2>2
<1>6. CASE UNCHANGED vars
  BY <1>0, <1>6 DEF vars, Period
<1>. QED  BY <1>0, <1>1, <1>2, <1>3, <1>4, <1>5, <1>6 DEF Next

-----------------------------------------------------------------------------
(* The theorems.                                                           *)

\* The invariant holds of every behaviour.
THEOREM Invariant == Spec => []IInv
<1>1. Init => IInv  BY InitIInv
<1>2. IInv /\ [Next]_vars => IInv'  BY NextTypeOK, NextReads DEF IInv
<1>. QED  BY <1>1, <1>2, PTL DEF Spec

\* Whatever the date: this week and this month are the ones that hold today
\* (date_utils.py:32-69).
THEOREM TodayIsCovered == Spec => []TodayCovered
<1>1. IInv => TodayCovered
  <2>. SUFFICES ASSUME TypeOK PROVE TodayCovered  BY DEF IInv
  <2>0. IsDay(today, date)  BY DEF TypeOK, IsDay
  <2>1. /\ today \in Int /\ date \in Date
        /\ today = First(Index(date)) + date.day - 1
        /\ date.day \in 1 .. DaysInMonth(date.year, date.month)
        /\ DaysInMonth(date.year, date.month) \in 28 .. 31
    BY <2>0, TodayInMonth
  <2>2. /\ today \in WeekRange(today, 0).from .. WeekRange(today, 0).to
        /\ Weekday(WeekRange(today, 0).from) = 0
        /\ WeekRange(today, 0).to = WeekRange(today, 0).from + 6
    BY <2>1, WeekdayFacts DEF WeekRange
  <2>3. MonthRange(date, 0) = [from |-> First(Index(date)),
                               to |-> First(Index(date) + 1) - 1]
    <3>1. Index(date) + 0 = Index(date) /\ Index(date) + 0 + 1 = Index(date) + 1
      BY <2>1, MonthOf
    <3>. QED  BY <2>1, <3>1, MonthRangeByIndex, 0 \in Int
  <2>4. /\ today \in MonthRange(date, 0).from .. MonthRange(date, 0).to
        /\ MonthRange(date, 0).from = today - date.day + 1
    BY <2>1, <2>3, MonthOf
  <2>. QED  BY <2>2, <2>4 DEF TodayCovered
<1>. QED  BY <1>1, Invariant, PTL

\* As the days pass weeks and months follow one another without a gap and
\* without an overlap (date_utils.py:32-69).
THEOREM PeriodsDoTile == Spec => PeriodsTile
<1>1. IInv /\ [Next]_vars =>
          [today' = today + 1 => \A kind \in {"weekly", "monthly"} : Passed(kind)]_vars
  <2>. SUFFICES ASSUME IInv, [Next]_vars, today' = today + 1,
                       NEW kind \in {"weekly", "monthly"}
                PROVE  Passed(kind)
    OBVIOUS
  <2>1. today \in Int  BY TodayInMonth DEF IInv, TypeOK, IsDay
  <2>2. Midnight
    BY <2>1 DEF Next, ReadFormer, ReadCurrent, Leave, vars
  <2>. QED  BY <2>2, MidnightPasses DEF IInv, Midnight
<1>. QED  BY <1>1, Invariant, PTL DEF Spec, PeriodsTile

\* The two periods of a report adjoin, and what a midnight between the reads
\* of the clock leaves out is exactly the period that ended with it
\* (mail_report_service.py:108-109, 141-142).
THEOREM ReportsAdjoin == Spec => []ReportPeriodsAdjoin
<1>1. IInv => ReportPeriodsAdjoin  BY DEF IInv, Reads, Adjoin, ReportPeriodsAdjoin
<1>. QED  BY <1>1, Invariant, PTL

=============================================================================
