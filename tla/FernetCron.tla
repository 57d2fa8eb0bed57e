------------------------------ MODULE FernetCron ------------------------------
(***************************************************************************)
(* The cron table of each Keystone host, from the number of hosts and the  *)
(* interval between rotations in minutes.  Every marks a field with no     *)
(* restriction.                                                            *)
(***************************************************************************)
EXTENDS Naturals, FiniteSets

HOUR_SPAN == 60
DAY_SPAN == 24 * HOUR_SPAN
WEEK_SPAN == 7 * DAY_SPAN

Every == 99

StartsPastEnd(host, hosts, mins, span) ==
    {t \in {mins * host + mins * hosts * i : i \in 0..(span \div (mins * hosts))} : t < span}

\* The starts of the while loop: from the offset of the host, in steps of a whole
\* round, as long as an interval still fits into the span.
Starts(host, hosts, mins, span) ==
    {t \in {mins * host + mins * hosts * i : i \in 0..(span \div (mins * hosts))} : t + mins <= span}

Span(hosts, mins) ==
    CASE mins * hosts > DAY_SPAN -> WEEK_SPAN
      [] mins * hosts > HOUR_SPAN -> DAY_SPAN
      [] OTHER -> HOUR_SPAN

\* The fields of one entry.  The table for a week takes the hour from the minutes.
Entry(t, span) ==
    CASE span = WEEK_SPAN -> [min |-> t % HOUR_SPAN, hour |-> t % HOUR_SPAN, day |-> t \div DAY_SPAN]
      [] span = DAY_SPAN -> [min |-> t % HOUR_SPAN, hour |-> t \div HOUR_SPAN, day |-> Every]
      [] span = HOUR_SPAN -> [min |-> t, hour |-> Every, day |-> Every]

\* An interval of more than a week is refused.
generate(host, hosts, mins) ==
    IF host >= hosts \/ mins > WEEK_SPAN THEN {}
    ELSE {Entry(t, Span(hosts, mins)) : t \in Starts(host, hosts, mins, Span(hosts, mins))}

\* When cron runs an entry, in minutes of its cycle.
RunsAt(c) == c.min + (IF c.hour = Every THEN 0 ELSE c.hour * HOUR_SPAN)
                   + (IF c.day = Every THEN 0 ELSE c.day * DAY_SPAN)
=============================================================================
