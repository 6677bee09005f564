----------------------------- MODULE Recurrence -----------------------------
(***************************************************************************)
(* Recurring tasks: the calendar and the expansion of a rule (expand.ts),  *)
(* which rules are legal (rrule.ts), and the occurrence a task is shown at *)
(* and marked at (occurrence.ts).                                          *)
(*                                                                         *)
(* A date is a day number (0 is 1970-01-01) and weekdays count from Monday *)
(* = 0.  A rule is a record of its parts; an absent list is the empty set  *)
(* and an absent COUNT or UNTIL is 0.  A BYDAY entry is <<ordinal, day>>   *)
(* with ordinal 0 for none.  The text of a rule and its parsing are left   *)
(* out: legalRule says which records parseRrule can return.                *)
(***************************************************************************)
EXTENDS Integers, Sequences, SequencesExt, FiniteSetsExt

CONSTANTS
  FirstYear, LastYear,  \* the years whose days the calendar knows
  Horizon,              \* HORIZON_DAYS
  Lookahead             \* LOOKAHEAD

----------------------------------------------------------------------------
(* The calendar.                                                           *)

isLeap(y) == y % 4 = 0 /\ (y % 100 # 0 \/ y % 400 = 0)

daysInMonth(y, m) ==
  CASE m = 2 -> IF isLeap(y) THEN 29 ELSE 28
    [] m \in {4, 6, 9, 11} -> 30
    [] OTHER -> 31

daysBefore(y) == 365 * y + (y - 1) \div 4 - (y - 1) \div 100 + (y - 1) \div 400

dayOf(y, m, d) ==
  daysBefore(y) - daysBefore(1970)
    + <<0, 31, 59, 90, 120, 151, 181, 212, 243, 273, 304, 334>>[m]
    + (IF m > 2 /\ isLeap(y) THEN 1 ELSE 0) + d - 1

\* Year, month and day of the month of each day the calendar knows.
parts ==
  [day \in dayOf(FirstYear, 1, 1) .. dayOf(LastYear, 12, 31) |->
     LET y == CHOOSE y \in FirstYear .. LastYear :
                dayOf(y, 1, 1) <= day /\ day < dayOf(y + 1, 1, 1)
         m == CHOOSE m \in 1 .. 12 :
                /\ dayOf(y, m, 1) <= day
                /\ day < dayOf(y, m, 1) + daysInMonth(y, m)
     IN  [y |-> y, m |-> m, d |-> day - dayOf(y, m, 1) + 1]]

weekday(day) == (day + 3) % 7

\* Month day n of a month with dim days: negative counts from the end.
monthDay(n, dim) == IF n > 0 THEN n ELSE dim + n + 1

----------------------------------------------------------------------------
(* Rules.                                                                  *)

Freqs == {"DAILY", "WEEKLY", "MONTHLY", "YEARLY"}

\* What parseRrule returns for some text, up to the size of its numbers.
legalRule(rule) ==
  /\ rule.freq \in Freqs
  /\ rule.interval > 0 /\ rule.count >= 0
  /\ rule.wkst \in 0 .. 6
  /\ \A b \in rule.byDay :
       /\ b[2] \in 0 .. 6
       /\ b[1] \in -53 .. 53
       /\ b[1] # 0 => rule.freq \in {"MONTHLY", "YEARLY"}
  /\ rule.byMonthDay \subseteq (-31 .. 31) \ {0}
  /\ rule.byMonth \subseteq 1 .. 12
  /\ rule.bySetPos \subseteq (-366 .. 366) \ {0}
  /\ ~(rule.count # 0 /\ rule.until # 0)
  /\ rule.byMonthDay # {} => rule.freq # "WEEKLY"
  /\ rule.bySetPos # {} =>
       rule.byDay # {} \/ rule.byMonthDay # {} \/ rule.byMonth # {}

\* An ordinal counts within the scope [first, last].
matchesByDay(day, byDay, first, last) ==
  \E b \in byDay :
    /\ b[2] = weekday(day)
    /\ \/ b[1] = 0
       \/ b[1] > 0 /\ (day - first) \div 7 + 1 = b[1]
       \/ b[1] < 0 /\ -((last - day) \div 7 + 1) = b[1]

\* A month's candidate days, for MONTHLY and YEARLY.
monthCandidates(y, m, rule, startDom) ==
  LET dim == daysInMonth(y, m)
      doms == IF rule.byMonthDay # {}
              THEN {monthDay(n, dim) : n \in rule.byMonthDay}
              ELSE IF rule.byDay # {} THEN 1 .. dim ELSE {startDom}
      wholeYear == rule.freq = "YEARLY" /\ rule.byMonth = {}
      first == IF wholeYear THEN dayOf(y, 1, 1) ELSE dayOf(y, m, 1)
      last == IF wholeYear THEN dayOf(y, 12, 31) ELSE dayOf(y, m, dim)
  IN  {day \in {dayOf(y, m, d) : d \in doms \cap (1 .. dim)} :
         rule.byDay = {} \/ matchesByDay(day, rule.byDay, first, last)}

\* The month, counted from year 0, and the year period k of a rule is about;
\* `begin' are the parts of dtstart.
monthIndex(rule, begin, k) == begin.y * 12 + begin.m - 1 + k * rule.interval
firstOfMonth(i) == dayOf(i \div 12, (i % 12) + 1, 1)
yearOf(rule, begin, k) == begin.y + k * rule.interval

\* Mutated: a week starts on Monday whatever the rule says.
weekFirstMonday(rule, start, k) == start - weekday(start) + 7 * rule.interval * k

weekFirst(rule, start, k) ==
  start - ((weekday(start) - rule.wkst + 7) % 7) + 7 * rule.interval * k

\* The first day of period k.
periodFirst(rule, start, begin, k) ==
  CASE rule.freq = "DAILY" -> start + k * rule.interval
    [] rule.freq = "WEEKLY" -> weekFirst(rule, start, k)
    [] rule.freq = "MONTHLY" -> firstOfMonth(monthIndex(rule, begin, k))
    [] OTHER -> dayOf(yearOf(rule, begin, k), 1, 1)

inMonths(rule, p) == rule.byMonth = {} \/ p.m \in rule.byMonth
onDays(rule, day) == \E b \in rule.byDay : b[2] = weekday(day)

\* The candidate days of a period, by its first day and that day's parts.
dailyDays(rule, day, p) ==
  {e \in {day} :
     /\ inMonths(rule, p)
     /\ \/ rule.byMonthDay = {}
        \/ \E n \in rule.byMonthDay : monthDay(n, daysInMonth(p.y, p.m)) = p.d
     /\ rule.byDay = {} \/ onDays(rule, day)}

\* WEEKLY leaves out the days before dtstart here, so BYSETPOS never counts
\* them; the others drop them afterwards.
weeklyDays(rule, start, first) ==
  {day \in first .. first + 6 :
     /\ day >= start
     /\ IF rule.byDay = {} THEN weekday(day) = weekday(start) ELSE onDays(rule, day)
     /\ inMonths(rule, parts[day])}

monthlyDays(rule, p, startDom) ==
  IF inMonths(rule, p) THEN monthCandidates(p.y, p.m, rule, startDom) ELSE {}

yearlyDays(rule, y, begin) ==
  UNION {monthCandidates(y, m, rule, begin.d) :
           m \in IF rule.byMonth # {} THEN rule.byMonth
                 ELSE IF rule.byMonthDay # {} \/ rule.byDay # {}
                 THEN 1 .. 12 ELSE {begin.m}}

periodDays(rule, start, begin, first) ==
  CASE rule.freq = "DAILY" -> dailyDays(rule, first, parts[first])
    [] rule.freq = "WEEKLY" -> weeklyDays(rule, start, first)
    [] rule.freq = "MONTHLY" -> monthlyDays(rule, parts[first], begin.d)
    [] OTHER -> yearlyDays(rule, parts[first].y, begin)

\* BYSETPOS: positions in the sorted period, from the end when negative.
atPositions(days, positions) ==
  {day \in days :
     \E p \in positions :
       Cardinality({e \in days : IF p > 0 THEN e <= day ELSE e >= day})
         = IF p > 0 THEN p ELSE -p}

Shortest(freq) == CASE freq = "DAILY" -> 1 [] freq = "WEEKLY" -> 7
                    [] freq = "MONTHLY" -> 28 [] OTHER -> 365

\* The first days of the periods walked: those that start by hi.
periodsTo(rule, start, begin, hi) ==
  {first \in {periodFirst(rule, start, begin, k) :
                k \in 0 .. (IF hi < start THEN 0
                            ELSE (hi - start)
                                   \div (Shortest(rule.freq) * rule.interval)) + 2} :
     first <= hi}

positioned(rule, days) ==
  IF rule.bySetPos = {} THEN days ELSE atPositions(days, rule.bySetPos)

\* The occurrences from dtstart to hi, before COUNT.
occurrencesTo(rule, start, begin, hi) ==
  {day \in UNION {positioned(rule, periodDays(rule, start, begin, first)) :
                    first \in periodsTo(rule, start, begin, hi)} :
     start <= day /\ day <= hi}

\* Those in the window that COUNT, which counts from dtstart, lets through.
counted(all, count, from) ==
  {day \in all :
     /\ day >= from
     /\ count = 0 \/ Cardinality({e \in all : e <= day}) <= count}

\* The occurrences in [from, to]; a dtstart the rule does not produce is none.
expand(rule, start, from, to) ==
  counted(occurrencesTo(rule, start, parts[start],
                        IF rule.until = 0 THEN to ELSE Min({to, rule.until})),
          rule.count, from)

firstOf(days, n) ==
  {day \in days : Cardinality({e \in days : e <= day}) <= n}

----------------------------------------------------------------------------
(* Occurrences.  A recurrence is [rule, dtstart]; `closed' is the set of   *)
(* occurrences of the task that are done or skipped.                       *)

isOccurrence(recurrence, date) ==
  expand(recurrence.rule, recurrence.dtstart, date, date) # {}

\* The latest occurrence on or before today while it is open, otherwise the
\* first open one after today; none when the set is empty.
firstOpen(latest, ahead, closed) ==
  IF latest # {} /\ latest \cap closed = {} THEN latest
  ELSE {day \in ahead \ closed : \A e \in ahead \ closed : day <= e}
lastOf(days) == {day \in days : \A e \in days : e <= day}
currentOccurrence(recurrence, closed, today) ==
  firstOpen(lastOf(expand(recurrence.rule, recurrence.dtstart,
                          recurrence.dtstart, today)),
            firstOf(expand(recurrence.rule, recurrence.dtstart, today + 1,
                           today + Horizon), Lookahead),
            closed)

\* The rule parses and produces a date within the horizon.
ruleAccepted(rule, dtstart) ==
  legalRule(rule) /\ expand(rule, dtstart, dtstart, dtstart + Horizon) # {}

\* The dates a form previews.
upcoming(rule, dtstart, from, n) ==
  IF ~ruleAccepted(rule, dtstart) THEN {}
  ELSE firstOf(expand(rule, dtstart, Max({from, dtstart}), from + Horizon), n)
=============================================================================
