------------------------------ MODULE MCMailSearch ------------------------------
(* Four messages, two of them of one moment, on days where months, years and weeks end. *)
EXTENDS MailSearch

CONSTANTS m1, m2, m3, m4

MCAge  == [m \in Message |-> CASE m = m3 -> 0 [] m \in {m1, m2} -> 1 [] m = m4 -> 2]
MCId   == [m \in Message |-> CASE m = m1 -> 1 [] m = m2 -> 2 [] m = m3 -> 4 [] m = m4 -> 3]
MCNear == [m \in Message |-> CASE m = m1 -> 3 [] m = m2 -> 2 [] m = m3 -> 1 [] m = m4 -> 1]

\* Five in the morning UTC of 29 February 2024, 1 January 2025 and a Sunday, and the last
\* moment of 31 December 2024 and of 28 February 2025; the day after each of them follows.
MCStarts ==
  {First(d, 5) : d \in {789, 1096, 1107}} \cup {Last(d, 23) : d \in {1095, 1154}}

MCZones == {-7, 9}

Phrase(kind) == {[kind |-> kind, days |-> 0, weekday |-> 0, period |-> "full_day"]}
Meant(query, retrieval, dates) ==
  [query |-> query, retrieval |-> retrieval, dates |-> dates, filtered |-> FALSE,
   recipients |-> FALSE, hint |-> "none"]

MCPlans ==
  {Meant("none", "keyword", Phrase("today")), Meant("text", "keyword", Phrase("this_week")),
   Meant("text", "mixed", {}), Meant("none", "keyword", {})}
=============================================================================
