------------------------------ MODULE Calendar ------------------------------
(***************************************************************************)
(* The periods of the mail reports:                                        *)
(*   app/utils/date_utils.py            weeks and months around today      *)
(*   app/service/mail_report_service.py the two periods of a report        *)
(*                                                                         *)
(* A report asks for the former and the current period one after the other, *)
(* and each of them asks the clock for today.  Then it calls a method that  *)
(* MailService does not have, so no mail is ever fetched.                  *)
(*                                                                         *)
(* A day is its ordinal, counted from 1 January of the year 1, as          *)
(* date.toordinal() counts.                                                *)
(***************************************************************************)
EXTENDS Integers

CONSTANTS
    Report,         \* the calls of the report tools
    Kind,           \* "weekly" or "monthly", of each of them
    Start,          \* dates on which the clock may start
    MaxDays,        \* bound: days the clock runs
    None            \* absent

Date == [year : Nat \ {0}, month : 1 .. 12, day : 1 .. 31]

-----------------------------------------------------------------------------
(* The calendar of Python's datetime.                                      *)

Leap(y) == y % 4 = 0 /\ (y % 100 # 0 \/ y % 400 = 0)

DaysInMonth(y, m) ==
    CASE m = 2 -> IF Leap(y) THEN 29 ELSE 28
      [] m \in {4, 6, 9, 11} -> 30
      [] OTHER -> 31

DaysBeforeYear(y) ==
    365 * (y - 1) + (y - 1) \div 4 - (y - 1) \div 100 + (y - 1) \div 400

DaysBeforeMonth(y, m) ==
    <<0, 31, 59, 90, 120, 151, 181, 212, 243, 273, 304, 334>>[m]
        + (IF m > 2 /\ Leap(y) THEN 1 ELSE 0)

Ordinal(y, m, d) == DaysBeforeYear(y) + DaysBeforeMonth(y, m) + d

\* 0 is a Monday.
Weekday(n) == (n + 6) % 7

NextDate(d) ==
    IF d.day < DaysInMonth(d.year, d.month) THEN [d EXCEPT !.day = @ + 1]
    ELSE IF d.month < 12 THEN [d EXCEPT !.day = 1, !.month = @ + 1]
    ELSE [year |-> d.year + 1, month |-> 1, day |-> 1]

ASSUME StartAssumption ==
    \A d \in Start : d \in Date /\ d.day <= DaysInMonth(d.year, d.month)
                     \* the year before must exist for Python, too
                     /\ d.year > 1
ASSUME KindAssumption == Kind \in [Report -> {"weekly", "monthly"}]
ASSUME BoundAssumption == MaxDays \in Nat
ASSUME NoneAssumption == None \notin [from : Int, to : Int]

VARIABLES
    date,       \* today in Korea, year, month and day
    today,      \* the same day as an ordinal
    days,       \* how long the clock has run
    pc,         \* of a report: "idle", "current" (is read next), "failed"
    readOn,     \* the day on which its former period was read
    former,     \* its former period
    current     \* its current period

vars == <<date, today, days, pc, readOn, former, current>>

-----------------------------------------------------------------------------
(* date_utils.py.                                                          *)

\* Faulty variant: isoweekday() for weekday(): weeks from Sunday to Saturday.
WeekRangeIso(n, offset) ==
    LET monday == n - (Weekday(n) + 1) + 7 * offset
    IN  [from |-> monday, to |-> monday + 6]

\* get_week_date_range
WeekRange(n, offset) ==
    LET monday == n - Weekday(n) + 7 * offset
    IN  [from |-> monday, to |-> monday + 6]

\* Faulty variant: the year of the next month is that of the month.
MonthRangeNoCarry(d, offset) ==
    LET index == d.year * 12 + (d.month - 1) + offset
        First(i) == Ordinal(index \div 12, (i % 12) + 1, 1)
    IN  [from |-> First(index), to |-> First(index + 1) - 1]

\* get_month_date_range: months are numbered through all years.
MonthRange(d, offset) ==
    LET index == d.year * 12 + (d.month - 1) + offset
        First(i) == Ordinal(i \div 12, (i % 12) + 1, 1)
    IN  [from |-> First(index), to |-> First(index + 1) - 1]

Range(kind, n, d, offset) ==
    IF kind = "weekly" THEN WeekRange(n, offset) ELSE MonthRange(d, offset)

Period(r, offset) == Range(Kind[r], today, date, offset)

-----------------------------------------------------------------------------
Init ==
    /\ date \in Start
    /\ today = Ordinal(date.year, date.month, date.day)
    /\ days = 0
    /\ pc = [r \in Report |-> "idle"]
    /\ readOn = [r \in Report |-> 0]
    /\ former = [r \in Report |-> None]
    /\ current = [r \in Report |-> None]

\* The report starts: it reads the former period.
ReadFormer(r) ==
    /\ pc[r] = "idle"
    /\ former' = [former EXCEPT ![r] = Period(r, -1)]
    /\ readOn' = [readOn EXCEPT ![r] = today]
    /\ pc' = [pc EXCEPT ![r] = "current"]
    /\ UNCHANGED <<date, today, days, current>>

\* Faulty variant: the current period ends a period too early.
ReadCurrentTwice(r) ==
    /\ pc[r] = "current"
    /\ current' = [current EXCEPT ![r] = Period(r, -1)]
    /\ pc' = [pc EXCEPT ![r] = "failed"]
    /\ UNCHANGED <<date, today, days, readOn, former>>

\* It reads the current period; calling fetch_my_mails is an AttributeError.
ReadCurrent(r) ==
    /\ pc[r] = "current"
    /\ current' = [current EXCEPT ![r] = Period(r, 0)]
    /\ pc' = [pc EXCEPT ![r] = "failed"]
    /\ UNCHANGED <<date, today, days, readOn, former>>

\* The exception leaves the service; ToolCall models how it is answered.
Leave(r) ==
    /\ pc[r] = "failed"
    /\ pc' = [pc EXCEPT ![r] = "idle"]
    /\ readOn' = [readOn EXCEPT ![r] = 0]
    /\ former' = [former EXCEPT ![r] = None]
    /\ current' = [current EXCEPT ![r] = None]
    /\ UNCHANGED <<date, today, days>>

\* Midnight in Korea.  Two reads of the clock without an await between them
\* are not a day apart: at most one midnight lies between them.
Midnight ==
    /\ days < MaxDays
    /\ \A r \in Report : pc[r] # "idle" => readOn[r] = today
    /\ date' = NextDate(date)
    /\ today' = today + 1
    /\ days' = days + 1
    /\ UNCHANGED <<pc, readOn, former, current>>

Next ==
    \/ Midnight
    \/ \E r \in Report : ReadFormer(r) \/ ReadCurrent(r) \/ Leave(r)

Spec == Init /\ [][Next]_vars

-----------------------------------------------------------------------------
(* Properties.                                                             *)

\* Today lies in this week, which begins on a Monday and has seven days, and
\* in this month, which ends on or after it, whatever the month, the leap year
\* and the turn of the year (date_utils.py:32-69).
TodayCovered ==
    LET week  == WeekRange(today, 0)
        month == MonthRange(date, 0)
    IN  /\ today \in week.from .. week.to
        /\ Weekday(week.from) = 0 /\ week.to = week.from + 6
        /\ today \in month.from .. month.to
        /\ month.from = today - date.day + 1

\* As days pass every day belongs to one week and one month: a period stays the
\* current one until its last day is over; then the next one begins and it has
\* become the former one, to the day.
Passed(kind) ==
    LET now == Range(kind, today, date, 0) IN
    IF today = now.to
    THEN /\ Range(kind, today', date', -1) = now
         /\ Range(kind, today', date', 0).from = today'
    ELSE /\ Range(kind, today', date', 0) = now
         /\ Range(kind, today', date', -1) = Range(kind, today, date, -1)

PeriodsTile == [][today' = today + 1 => \A kind \in {"weekly", "monthly"} : Passed(kind)]_vars

\* The two periods of a report adjoin; if a period began between the two reads
\* of the clock, the one that ended then is in neither of them
\* (mail_report_service.py:108-109, 141-142).
ReportPeriodsAdjoin ==
    \A r \in Report : pc[r] = "failed" =>
        /\ former[r].from <= former[r].to /\ current[r].from <= current[r].to
        /\ readOn[r] > former[r].to
        /\ IF readOn[r] >= current[r].from
           THEN current[r].from = former[r].to + 1
           ELSE readOn[r] = current[r].from - 1

=============================================================================
