------------------------------ MODULE DateWindows ------------------------------
(***************************************************************************)
(* translate_date_range_intent: what "last month" or "on Friday" mean as   *)
(* an interval of received_date_time, for a user in some time zone.        *)
(*                                                                         *)
(* Every hour h of day d has two moments here: the first, 48d + 2h, and    *)
(* the last (59:59.999999), 48d + 2h + 1.                                  *)
(* The next moment after one hour's last is the next hour's first, as one  *)
(* microsecond is in the code.  Day 0 is Saturday, 1 January 2022. A zone   *)
(* is a fixed number of hours: clock changes within a window are left out. *)
(* Every fourth year is a leap year, as it is until February 2100.         *)
(***************************************************************************)
EXTENDS Integers, FiniteSets

FirstYear == 2022
Months    == 60
Year(i)   == FirstYear + i \div 12
IsLeap(y) == y % 4 = 0

\* The first day of month i, counted from January 2022: of the year, then of the month in it.
FirstDay(i) ==
  LET m == i % 12
  IN  365 * (i \div 12) + (Year(i) - 1) \div 4 - (FirstYear - 1) \div 4
      + <<0, 31, 59, 90, 120, 151, 181, 212, 243, 273, 304, 334>>[m + 1]
      + IF m >= 2 /\ IsLeap(Year(i)) THEN 1 ELSE 0

Days       == 0 .. FirstDay(Months) - 1
MonthOf(d) == CHOOSE i \in d \div 31 .. d \div 28 : FirstDay(i) <= d /\ d < FirstDay(i + 1)

Weekday(d) == (d + 5) % 7      \* Monday is 0

Hour == 2
Day  == 48
DayOf(t)       == t \div Day
First(d, h)    == Day * d + Hour * h
Last(d, h)     == First(d, h) + 1
StartOf(d)     == First(d, 0)
EndOf(d)       == Last(d, 23)

-----------------------------------------------------------------------------
Kinds == {"today", "yesterday", "this_week", "last_week", "this_month", "last_month",
          "this_year", "last_year", "past_days", "weekday"}
Periods == {"full_day", "morning", "afternoon", "evening"}

\* What a DateRangeIntent may be: days only for past_days, weekday only for weekday.
Intents(maxDays) ==
  {r \in [kind : Kinds, days : 0 .. maxDays, weekday : 0 .. 6, period : Periods] :
     /\ IF r.kind = "past_days" THEN r.days > 0 ELSE r.days = 0
     /\ r.kind # "weekday" => r.weekday = 0}

Span(from, to) == [from |-> from, to |-> to]

\* The first weekday of the week, of the month and of the year of a day.
Monday(d)   == d - Weekday(d)
MonthDay(d) == FirstDay(MonthOf(d))
YearDay(d)  == FirstDay(12 * (MonthOf(d) \div 12))

\* A plausible mistake: the days until that weekday.
DaysBackSwapped(today, weekday) == (weekday - Weekday(today)) % 7

\* How many days ago the wanted weekday was.
DaysBack(today, weekday) == (Weekday(today) - weekday) % 7

\* The local interval, before a period of the day narrows it.
Whole(r, now) ==
  LET today == DayOf(now)
      year  == MonthOf(today) \div 12
  IN  CASE r.kind = "today"      -> Span(StartOf(today), EndOf(today))
        [] r.kind = "yesterday"  -> Span(StartOf(today) - Day, EndOf(today) - Day)
        [] r.kind = "this_week"  -> Span(StartOf(Monday(today)), EndOf(Monday(today) + 6))
        [] r.kind = "last_week"  -> Span(StartOf(Monday(today) - 7), EndOf(Monday(today) - 1))
        [] r.kind = "this_month" ->
             Span(StartOf(MonthDay(today)), StartOf(FirstDay(MonthOf(today) + 1)) - 1)
        [] r.kind = "last_month" ->
             LET end == StartOf(MonthDay(today)) - 1
             IN  Span(StartOf(MonthDay(DayOf(end))), end)
        [] r.kind = "this_year"  ->
             Span(StartOf(YearDay(today)), EndOf(FirstDay(12 * year + 11) + 30))
        [] r.kind = "last_year"  ->
             Span(StartOf(FirstDay(12 * (year - 1))), EndOf(FirstDay(12 * (year - 1) + 11) + 30))
        [] r.kind = "past_days"  -> Span(StartOf(today) - Day * r.days, now)
        [] r.kind = "weekday"    -> Span(StartOf(today - DaysBack(today, r.weekday)),
                                         EndOf(today - DaysBack(today, r.weekday)))

\* A period replaces the hours of both ends.
Narrowed(period, span) ==
  LET between(h, k) == Span(First(DayOf(span.from), h), Last(DayOf(span.to), k))
  IN  CASE period = "morning"   -> between(6, 11)
        [] period = "afternoon" -> between(12, 17)
        [] period = "evening"   -> between(18, 23)
        [] period = "full_day"  -> span

\* The interval in UTC, for a user whose clock is zone hours ahead of it.
Window(r, now, zone) ==
  LET local == Narrowed(r.period, Whole(r, now + Hour * zone))
  IN  Span(local.from - Hour * zone, local.to - Hour * zone)

-----------------------------------------------------------------------------
(* The reference: which days a phrase means. *)

Means(r, d, today) ==
  CASE r.kind = "today"      -> d = today
    [] r.kind = "yesterday"  -> d = today - 1
    [] r.kind = "this_week"  -> Monday(d) = Monday(today)
    [] r.kind = "last_week"  -> Monday(d) = Monday(today) - 7
    [] r.kind = "this_month" -> MonthOf(d) = MonthOf(today)
    [] r.kind = "last_month" -> MonthOf(d) = MonthOf(today) - 1
    [] r.kind = "this_year"  -> Year(MonthOf(d)) = Year(MonthOf(today))
    [] r.kind = "last_year"  -> Year(MonthOf(d)) = Year(MonthOf(today)) - 1
    [] r.kind = "past_days"  -> today - r.days <= d /\ d <= today
    [] r.kind = "weekday"    -> Weekday(d) = r.weekday /\ today - 7 < d /\ d <= today

Hours(period) ==
  CASE period = "morning"   -> 6 .. 11
    [] period = "afternoon" -> 12 .. 17
    [] period = "evening"   -> 18 .. 23
    [] period = "full_day"  -> 0 .. 23

\* Whether a window is the one its phrase means: the days at its ends are the first and the
\* last that are meant (the days a phrase means are consecutive), and its ends are the first and
\* the last moment of the period's hours in those days, or, for the days past without a period,
\* the present.
IsRight(r, now, zone) ==
  LET local == now + Hour * zone
      today == DayOf(local)
      span  == Window(r, now, zone)
      from  == span.from + Hour * zone
      to    == span.to + Hour * zone
      near  == {DayOf(from) - 1, DayOf(from), DayOf(to), DayOf(to) + 1}
  IN  /\ from <= to
      /\ \A d \in near : Means(r, d, today) <=> DayOf(from) <= d /\ d <= DayOf(to)
      /\ \E h \in Hours(r.period) :
           from = First(DayOf(from), h) /\ \A k \in Hours(r.period) : h <= k
      /\ IF r.kind = "past_days" /\ r.period = "full_day"
           THEN to = local
           ELSE \E h \in Hours(r.period) :
                  to = Last(DayOf(to), h) /\ \A k \in Hours(r.period) : k <= h
=============================================================================
