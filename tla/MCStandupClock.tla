---------------------------- MODULE MCStandupClock ----------------------------
(* A day of five slots, and two of its nights.  The timeout is over half a  *)
(* day here, so that it, the reminders and the ticks can meet.              *)
EXTENDS StandupClock, Sequences

CONSTANTS ann, bob, west, home, east

\* east is more than a day ahead of west; bob has no zone of his own.
SmallOffset == [z \in Zone |-> CASE z = west -> 0 [] z = home -> 2 [] z = east -> 6]
SmallHome   == [m \in Member |-> IF m = ann THEN east ELSE NoZone]

\* Every day at slot 3, written as a range; only Mondays, at midnight.
Daily   == [dow |-> {<<0, 6>>}, slot |-> 3, tz |-> home, every |-> 2]
Mondays == [dow |-> {<<1, 1>>}, slot |-> 0, tz |-> west, every |-> 1]

\* Every day, in a zone that is a day ahead of the one an edit moves it to.
Eastern == [dow |-> {<<0, 6>>}, slot |-> 1, tz |-> east, every |-> 2]

SmallWeekly == {[weekdays |-> {1, 2}, slot |-> 4, tz |-> west, every |-> 0]}

Budget(es) == [e \in Event |-> Cardinality({k \in DOMAIN es : es[k] = e})]
Start(p, es) == [plan |-> p, budget |-> Budget(es)]

SmallStarts ==
    {Start(Daily,   <<"outage", "edit">>),
     Start(Daily,   <<"outage", "reply">>),
     Start(Daily,   <<"outage", "keyword">>),
     Start(Daily,   <<"reply", "keyword">>),
     Start(Daily,   <<"reply", "reply">>),
     Start(Mondays, <<"trigger", "keyword">>),
     Start(Mondays, <<"outage">>),
     Start(Eastern, <<"edit">>)}
=============================================================================
