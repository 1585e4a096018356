--------------------------- MODULE SummaryCalendar ---------------------------
(***************************************************************************)
(* Which summary takes which: the days of a week, the weeks of a month,    *)
(* the months of a quarter and the quarters that become themes, as the     *)
(* scheduled run of summarizer.py (22:30, every day) decides it for one    *)
(* project that has episodes every day.  What the model makes of the       *)
(* records is left out: a summary is the set of what it was made from.     *)
(*                                                                         *)
(* A day is its ordinal in the proleptic Gregorian calendar, as in         *)
(* Python's date.toordinal; weekday 0 is Monday.                           *)
(***************************************************************************)
EXTENDS Integers, FiniteSets

CONSTANTS
  FirstDay, LastDay   \* ordinals of the days the behaviours span: bounds

VARIABLES
  today,       \* the next day to run
  weekly,      \* summaries/weekly: an ISO week and the days it was made from
  monthly,     \* summaries/monthly: a month and the weeks
  quarterly,   \* summaries/quarterly: a quarter and the months
  themes       \* themes/active: the quarters they were made from

vars == <<today, weekly, monthly, quarterly, themes>>

-----------------------------------------------------------------------------
(***************************************************************************)
(* datetime, as far as the summarizer uses it.                             *)
(***************************************************************************)
IsLeap(y) == y % 4 = 0 /\ (y % 100 # 0 \/ y % 400 = 0)

MonthDays(y, m) ==
  CASE m = 2 -> IF IsLeap(y) THEN 29 ELSE 28
    [] m \in {4, 6, 9, 11} -> 30
    [] OTHER -> 31

NewYear(y) ==
  LET p == y - 1 IN p * 365 + p \div 4 - p \div 100 + p \div 400 + 1

First(y, m) ==
  LET before[k \in 1 .. 12] ==
        IF k = 1 THEN 0 ELSE before[k - 1] + MonthDays(y, k - 1)
  IN NewYear(y) + before[m]

\* A year has 365 or 366 days: one of three guesses is right.
Year(d) ==
  LET guess == d \div 365
  IN CHOOSE y \in guess - 6 .. guess + 1 : NewYear(y) <= d /\ d < NewYear(y + 1)

Month(d) ==
  CHOOSE m \in 1 .. 12 :
    First(Year(d), m) <= d /\ d < First(Year(d), m) + MonthDays(Year(d), m)

Weekday(d) == (d + 6) % 7

\* isocalendar: the week belongs to the year of its Thursday.
IsoWeek(d) ==
  LET thursday == d - Weekday(d) + 3
  IN [year |-> Year(thursday),
      week |-> (thursday - NewYear(Year(thursday))) \div 7 + 1]

\* strptime with %Y-W%W-%w and day 1: week 1 begins on the year's first Monday.
MondayOf(y, w) ==
  LET firstMonday == NewYear(y) + ((7 - Weekday(NewYear(y))) % 7)
  IN firstMonday + 7 * (w - 1)

-----------------------------------------------------------------------------
Quarter(m) == (m - 1) \div 3 + 1

Replaces(files, key, made) ==
  {f \in files : f.key # key} \cup {[key |-> key, made |-> made]}

\* run_weekly: the seven days that end today, under the ISO week of today.
RunWeekly(d) == Replaces(weekly, IsoWeek(d), d - 6 .. d)

\* _weekly_files_for_month
WeeksOfMonth(files, y, m) ==
  {f.key : f \in {g \in files : /\ g.key.year = y
                                /\ Month(MondayOf(y, g.key.week)) = m}}

\* run_monthly: the weeks of the month before the 1st of this one.
RunMonthly(files, d) ==
  LET last == First(Year(d), Month(d)) - 1
      weeks == WeeksOfMonth(files, Year(last), Month(last))
  IN IF weeks = {} THEN monthly
     ELSE Replaces(monthly, [year |-> Year(last), month |-> Month(last)], weeks)

\* _prev_quarter
PrevQuarter(d) ==
  IF Quarter(Month(d)) = 1 THEN [year |-> Year(d) - 1, quarter |-> 4]
  ELSE [year |-> Year(d), quarter |-> Quarter(Month(d)) - 1]

\* run_quarterly: the months of the quarter before; ...
RunQuarterly(files, d) ==
  LET q == PrevQuarter(d)
      months == {f.key : f \in {g \in files : /\ g.key.year = q.year
                                              /\ Quarter(g.key.month) = q.quarter}}
  IN IF months = {} THEN quarterly ELSE Replaces(quarterly, q, months)

\* ... _promote_themes: what a quarter's run makes of all quarterly summaries.
PromoteThemes(files) ==
  IF files = quarterly THEN themes ELSE {f.key : f \in files}

\* run_scheduled
RunScheduled ==
  LET first == today = First(Year(today), Month(today))
      newQuarter == first /\ Month(today) \in {1, 4, 7, 10}
      weeks == IF Weekday(today) = 6 THEN RunWeekly(today) ELSE weekly
      months == IF first THEN RunMonthly(weeks, today) ELSE monthly
      quarters == IF newQuarter THEN RunQuarterly(months, today) ELSE quarterly
  IN /\ today <= LastDay
     /\ today' = today + 1
     /\ weekly' = weeks
     /\ monthly' = months
     /\ quarterly' = quarters
     /\ themes' = PromoteThemes(quarters)

Init ==
  /\ today = FirstDay
  /\ weekly = {}
  /\ monthly = {}
  /\ quarterly = {}
  /\ themes = {}

Next == RunScheduled

Spec == Init /\ [][Next]_vars

-----------------------------------------------------------------------------
NextMonth(d) == First(Year(d), Month(d)) + MonthDays(Year(d), Month(d))

(***************************************************************************)
(* A week whose last day lies two monthly runs back is in a monthly        *)
(* summary, whichever of its months counts it.  ("Compress weekly summaries*)
(* for the prior month into project monthly summaries.")                   *)
(***************************************************************************)
EveryWeekCounted ==
  \A w \in weekly :
    LET sunday == CHOOSE d \in w.made : \A e \in w.made : e <= d
    IN today > NextMonth(NextMonth(sunday)) => \E m \in monthly : w.key \in m.made
=============================================================================
