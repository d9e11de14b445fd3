----------------------------- MODULE ScheduleMath -----------------------------
(***************************************************************************)
(* The arithmetic of schedules: when a standup is due, on which calendar   *)
(* date, and when its reminders are.  Instants count the slots since       *)
(* midnight of date 0, a Sunday, in the westmost zone; a zone is a fixed   *)
(* number of slots ahead of it, since no zone changes its offset in the    *)
(* days a run of the model spans.                                          *)
(***************************************************************************)
EXTENDS Integers, FiniteSetsExt

CONSTANTS
    Day,       \* slots in a day
    TickSlot,  \* the slot of 00:05, at which the ticks fire
    Zone,      \* time zones
    Offset,    \* Offset[z]: how far z is ahead of the westmost zone
    NoInstant  \* null, where the code looks for an instant and there is none

ASSUME DayAssumption == Day \in Nat /\ TickSlot \in 0..(Day - 1)
\* The zones of the earth are at most 26 hours apart.
ASSUME OffsetAssumption == Offset \in [Zone -> 0..(2 * Day)] /\ NoInstant \notin Int

(* A schedule row: the day-of-week field of its cron as ranges (a single   *)
(* day is a range of one), the slot of its hour and minute, its zone.      *)
DowRange == (0..6) \X (0..6)

(* cronFromWeekly writes the days one by one, parseWeeklyCron also reads   *)
(* ranges, of which one that runs backwards is empty.                      *)
CronFromWeekly(days) == {<<d, d>> : d \in days}
ParseWeekdays(dow)   == UNION {w[1]..w[2] : w \in dow}

Local(z, t)      == t + Offset[z]
AnchorDate(z, t) == Local(z, t) \div Day
CronDow(date)    == date % 7

IsActiveWeekday(p, t) == CronDow(AnchorDate(p.tz, t)) \in ParseWeekdays(p.dow)

\* Faulty variant: the clock of the schedule's zone, not the member's.
SendByScheduleZone(p, z, date) == date * Day + p.slot - Offset[p.tz]

(* computeSendInstant: the wall clock of a zone shows the schedule's time. *)
SendInstant(p, z, date) == date * Day + p.slot - Offset[z]

\* Faulty variant: the loop ends a day early.
NextWithinTheWeek(p, t) ==
    LET slots == {i \in 0..6 :
                    LET date == AnchorDate(p.tz, t) + i
                    IN  SendInstant(p, p.tz, date) > t /\ CronDow(date) \in ParseWeekdays(p.dow)}
    IN  IF slots = {} THEN NoInstant
        ELSE SendInstant(p, p.tz, AnchorDate(p.tz, t) + Min(slots))

(* nextRunInstant: today's slot, or that of one of the next seven days.    *)
NextRunInstant(p, t) ==
    LET slots == {i \in 0..7 :
                    LET date == AnchorDate(p.tz, t) + i
                    IN  SendInstant(p, p.tz, date) > t /\ CronDow(date) \in ParseWeekdays(p.dow)}
    IN  IF slots = {} THEN NoInstant
        ELSE SendInstant(p, p.tz, AnchorDate(p.tz, t) + Min(slots))

(* deriveTickCron: the days of the schedule, five minutes past midnight.   *)
DeriveTickCron(p) == [days |-> ParseWeekdays(p.dow), tz |-> p.tz]

(* The next match of a tick pattern after t. *)
NextTick(pattern, t) ==
    LET ticks == {u \in (t + 1)..(t + 8 * Day) :
                    /\ Local(pattern.tz, u) % Day = TickSlot
                    /\ CronDow(AnchorDate(pattern.tz, u)) \in pattern.days}
    IN  IF ticks = {} THEN NoInstant ELSE Min(ticks)

(* reminderDelays: every interval strictly before the timeout, 0 is off.   *)
ReminderDelays(interval, timeout) ==
    IF interval <= 0 THEN {} ELSE {t \in 1..(timeout - 1) : t % interval = 0}
=============================================================================
