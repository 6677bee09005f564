---------------------------- MODULE RuleMeaning ----------------------------
(***************************************************************************)
(* What a recurrence rule means, day by day (RFC 5545 section 3.3.10, in   *)
(* the subset rrule.ts accepts): the reference definition expand.ts, which *)
(* walks from period to period, is compared with.                          *)
(***************************************************************************)
EXTENDS Recurrence

period(rule, day) ==
  CASE rule.freq = "DAILY" -> day
    [] rule.freq = "WEEKLY" -> (day + 3 - rule.wkst) \div 7
    [] rule.freq = "MONTHLY" -> 12 * parts[day].y + parts[day].m
    [] rule.freq = "YEARLY" -> parts[day].y
\* The days a period of this day can hold.
around(rule, day) ==
  LET reach == CASE rule.freq = "DAILY" -> 0 [] rule.freq = "WEEKLY" -> 6
                 [] rule.freq = "MONTHLY" -> 30 [] rule.freq = "YEARLY" -> 365
  IN  ((day - reach) .. (day + reach)) \cap DOMAIN parts

\* The days among which BYDAY counts, and which of them a weekday it is.
scope(rule, day) ==
  LET whole == rule.freq = "YEARLY" /\ rule.byMonth = {}
  IN  {e \in ((day - 365) .. (day + 365)) \cap DOMAIN parts :
         /\ parts[e].y = parts[day].y /\ (whole \/ parts[e].m = parts[day].m)
         /\ weekday(e) = weekday(day)}
ordinal(days, day, n) ==
  IF n > 0 THEN Cardinality({e \in days : e <= day}) = n
           ELSE Cardinality({e \in days : e >= day}) = -n

\* A day the rule's lists name; dtstart names what they leave open.
Named(rule, start, day) ==
  LET p == parts[day]
      b == parts[start]
      open == rule.byDay = {} /\ rule.byMonthDay = {}
  IN  /\ rule.byMonth # {} => p.m \in rule.byMonth
      /\ rule.byMonthDay # {} =>
           {p.d, p.d - daysInMonth(p.y, p.m) - 1} \cap rule.byMonthDay # {}
      /\ rule.byDay # {} =>
           \E by \in rule.byDay :
             /\ by[2] = weekday(day)
             /\ by[1] = 0 \/ ordinal(scope(rule, day), day, by[1])
      /\ rule.freq = "WEEKLY" /\ rule.byDay = {} => weekday(day) = weekday(start)
      /\ rule.freq \in {"MONTHLY", "YEARLY"} /\ open => p.d = b.d
      /\ rule.freq = "YEARLY" /\ open /\ rule.byMonth = {} => p.m = b.m

\* In a week BYSETPOS does not count the days before dtstart.
Members(rule, start, day) ==
  {e \in around(rule, day) :
     /\ period(rule, e) = period(rule, day)
     /\ rule.freq = "WEEKLY" => e >= start
     /\ Named(rule, start, e)}

Recurs(rule, start, day) ==
  /\ (period(rule, day) - period(rule, start)) % rule.interval = 0
  /\ rule.until # 0 => day <= rule.until
  /\ Named(rule, start, day)
  /\ rule.bySetPos # {} =>
       \E n \in rule.bySetPos : ordinal(Members(rule, start, day), day, n)

\* The occurrences of a window; COUNT counts from dtstart.
Meant(rule, start, from, to) ==
  LET all == {day \in start .. to : Recurs(rule, start, day)}
  IN  {day \in IF rule.count = 0 THEN all ELSE firstOf(all, rule.count) : day >= from}
=============================================================================
