----------------------------- MODULE StandupClock -----------------------------
(***************************************************************************)
(* A standup over a few days of clock time: the schedule row, the ticks it *)
(* leads to, the dates they open, the delayed sends, reminders and         *)
(* timeouts, and what the health page makes of it.  Time passes in slots,  *)
(* a job takes less than one and is one step here (StandupDay has the      *)
(* interleavings within a job); while the worker is up no job that is due  *)
(* is left waiting, and while it is down all of them are.                  *)
(***************************************************************************)
EXTENDS ScheduleMath

CONSTANTS
    Member,    \* the reporting members
    Home,      \* Home[m]: the zone of m's team_members row, NoZone if it has none
    NoZone,
    Starts,    \* the schedule rows to begin with, and how often each unforced
               \* event may happen then
    Weekly,    \* what the settings form may be saved with
    Timeout,   \* STANDUP_TIMEOUT_MS
    Horizon    \* the instant at which a run of the model ends

Event == {"outage", "edit", "trigger", "reply", "keyword"}

ASSUME MemberAssumption == IsFiniteSet(Member)
ASSUME HomeAssumption == NoZone \notin Zone /\ Home \in [Member -> Zone \cup {NoZone}]
ASSUME TimeAssumption == Timeout \in Nat \ {0} /\ Horizon \in Nat

Instant == 0..Horizon
Date == 0..((Horizon + 2 * Day) \div Day)

\* The settings form takes no schedule without a day.
Plan == [dow : {w \in SUBSET DowRange : ParseWeekdays(w) # {}},
         slot : 0..(Day - 1), tz : Zone, every : Nat]

ASSUME StartsAssumption == \A s \in Starts : s.plan \in Plan /\ s.budget \in [Event -> Nat]
ASSUME WeeklyAssumption ==
    Weekly \subseteq [weekdays : (SUBSET (0..6)) \ {{}}, slot : 0..(Day - 1), tz : Zone, every : Nat]

NoTick   == [at |-> NoInstant]
NoRun    == [status |-> "none"]
NoReport == [status |-> "none", due |-> 0, asks |-> {}, nudged |-> {}, expired |-> {}]

VARIABLES
    now,
    up,         \* the worker runs
    dark,       \* the instants that passed while it did not
    plan,       \* the standups row: its cron, zone and reminder interval
    active,     \* standups.is_active
    changed,    \* the last instant at which plan or active was written
    scheduler,  \* the job scheduler in Redis: its pattern and when its next tick is due
    jobs,       \* the delayed and waiting jobs
    run,        \* run[d]: the standup_runs row of date d, its schedule when it was opened
    report,     \* report[d][m]: the standup_reports row, when it was asked and nudged
    pokes,      \* instants of manual triggers and re-trigger keywords
    left        \* what remains of the start's budget of events

webVars    == <<plan, active, changed>>
clockVars  == <<now, up, dark>>
reportVars == <<run, report>>
vars       == <<clockVars, webVars, scheduler, jobs, reportVars, pokes, left>>

Init ==
    /\ now = 0 /\ up = FALSE /\ dark = {}
    /\ \E s \in Starts : plan = s.plan /\ left = s.budget
    /\ active = TRUE /\ changed = 0
    /\ scheduler = NoTick
    /\ jobs = {}
    /\ run = [d \in Date |-> NoRun]
    /\ report = [d \in Date |-> [m \in Member |-> NoReport]]
    /\ pokes = {}

Spend(e) == left[e] > 0 /\ left' = [left EXCEPT ![e] = @ - 1]

TeamJob(kind)         == [kind |-> kind, at |-> now]
MemberJob(kind, m)    == [kind |-> kind, who |-> m, at |-> now]
DayJob(kind, d, m, t) == [kind |-> kind, date |-> d, who |-> m, at |-> t]

-----------------------------------------------------------------------------
(* Time, and the worker's container. *)

TickDue == scheduler.at # NoInstant /\ scheduler.at <= now
DueJobs == {j \in jobs : j.at <= now}

Advance ==
    /\ now < Horizon
    /\ up => ~TickDue /\ DueJobs = {}
    /\ now' = now + 1
    /\ dark' = IF up THEN dark ELSE dark \cup {now}
    /\ UNCHANGED <<up, webVars, scheduler, jobs, reportVars, pokes, left>>

(* reconcileSchedules: no scheduler for a paused standup, the one at hand  *)
(* if its pattern is right, and otherwise a new one.                       *)
Reconciled ==
    LET pattern == DeriveTickCron(plan)
    IN  IF ~active THEN NoTick
        ELSE IF scheduler # NoTick /\ scheduler.pattern = pattern THEN scheduler
        ELSE [pattern |-> pattern, at |-> NextTick(pattern, now)]

(* A booting worker reconciles before it takes a job. *)
Boot ==
    /\ ~up
    /\ up' = TRUE
    /\ scheduler' = Reconciled
    /\ UNCHANGED <<now, dark, webVars, jobs, reportVars, pokes, left>>

Stop ==
    /\ up
    /\ Spend("outage")
    /\ up' = FALSE
    /\ UNCHANGED <<now, dark, webVars, scheduler, jobs, reportVars, pokes>>

-----------------------------------------------------------------------------
(* The web process. *)

SaveStandup(w, sendNow) ==
    /\ Spend("edit")
    /\ plan' = [dow |-> CronFromWeekly(w.weekdays), slot |-> w.slot, tz |-> w.tz, every |-> w.every]
    /\ changed' = now
    /\ IF sendNow /\ active
       THEN /\ jobs' = jobs \cup {TeamJob("reconcile"), TeamJob("force")}
            /\ pokes' = pokes \cup {now}
       ELSE jobs' = jobs \cup {TeamJob("reconcile")} /\ UNCHANGED pokes
    /\ UNCHANGED <<clockVars, active, scheduler, reportVars>>

ToggleActive ==
    /\ Spend("edit")
    /\ active' = ~active
    /\ changed' = now
    /\ jobs' = jobs \cup {TeamJob("reconcile")}
    /\ UNCHANGED <<clockVars, plan, scheduler, reportVars, pokes>>

TriggerNow ==
    /\ active
    /\ Spend("trigger")
    /\ jobs' = jobs \cup {TeamJob("force")}
    /\ pokes' = pokes \cup {now}
    /\ UNCHANGED <<clockVars, webVars, scheduler, reportVars>>

-----------------------------------------------------------------------------
(* The jobs of the worker. *)

(* BullMQ moves the delayed jobs that are due to the list that workers take *)
(* from in the order of their instants; others are in that list at once.    *)
Delayed == {"send", "timeout", "remind"}
Serve(j) == /\ up /\ j \in DueJobs
            /\ j.kind \in Delayed => \A k \in DueJobs : k.kind \in Delayed => j.at <= k.at

ReconcileJob(j) ==
    /\ Serve(j) /\ j.kind = "reconcile"
    /\ jobs' = jobs \ {j}
    /\ scheduler' = Reconciled
    /\ UNCHANGED <<clockVars, webVars, reportVars, pokes, left>>

Today == AnchorDate(plan.tz, now)

Larger(s, t) == IF s > t THEN s ELSE t

\* Faulty variant: an instant that has passed gives a negative delay.
FanOutAt(d, people, immediate) ==
    {DayJob("send", d, m,
        IF immediate THEN now
        ELSE SendInstant(plan, IF Home[m] = NoZone THEN plan.tz ELSE Home[m], d)) : m \in people}

(* fanOutSends: to everyone at the send instant of their own zone. *)
FanOutSends(d, people, immediate) ==
    {DayJob("send", d, m,
        IF immediate THEN now
        ELSE Larger(now, SendInstant(plan, IF Home[m] = NoZone THEN plan.tz ELSE Home[m], d)))
        : m \in people}

(* ensureRunOpen *)
OpenedRun ==
    IF run[Today] # NoRun THEN run
    ELSE [run EXCEPT ![Today] = [status |-> "running", at |-> now, plan |-> plan]]

(* openRun, for the job set that remains when its own job is taken out. *)
OpenRun(force, others) ==
    IF /\ active
       /\ force \/ IsActiveWeekday(plan, now)
       /\ force \/ run[Today] = NoRun
    THEN /\ run' = OpenedRun
         /\ jobs' = others \cup FanOutSends(Today, Member, force)
    ELSE run' = run /\ jobs' = others

(* The scheduler produces the next tick when this one is taken. *)
TickJob ==
    /\ up /\ TickDue
    /\ scheduler' = [scheduler EXCEPT !.at = NextTick(scheduler.pattern, now)]
    /\ OpenRun(FALSE, jobs)
    /\ UNCHANGED <<clockVars, webVars, report, pokes, left>>

ForceJob(j) ==
    /\ Serve(j) /\ j.kind = "force"
    /\ OpenRun(TRUE, jobs \ {j})
    /\ UNCHANGED <<clockVars, webVars, scheduler, report, pokes, left>>

(* What sendDm and retrigger write and enqueue for a report they ask. *)
Asked(r) == [r EXCEPT !.status = "in_progress", !.due = now + Timeout,
                      !.asks = @ \cup {[at |-> now, every |-> plan.every]}]

ReportJobs(d, m) ==
    {DayJob("timeout", d, m, now + Timeout)} \cup
    {DayJob("remind", d, m, now + t) : t \in ReminderDelays(plan.every, Timeout)}

SendDmJob(j) ==
    /\ Serve(j) /\ j.kind = "send"
    /\ IF report[j.date][j.who].status # "none"
       THEN jobs' = jobs \ {j} /\ UNCHANGED report
       ELSE /\ report' = [report EXCEPT ![j.date][j.who] = Asked(@)]
            /\ jobs' = (jobs \ {j}) \cup ReportJobs(j.date, j.who)
    /\ UNCHANGED <<clockVars, webVars, scheduler, run, pokes, left>>

RetriggerJob(j) ==
    /\ Serve(j) /\ j.kind = "retrigger"
    /\ LET created == run[Today] = NoRun
           team == IF created THEN FanOutSends(Today, Member \ {j.who}, FALSE) ELSE {}
       IN  IF ~active \/ report[Today][j.who].status \notin {"none", "timed_out"}
           THEN jobs' = jobs \ {j} /\ UNCHANGED reportVars
           ELSE /\ run' = [OpenedRun EXCEPT ![Today].status = "running"]
                /\ report' = [report EXCEPT ![Today][j.who] = Asked(@)]
                /\ jobs' = (jobs \ {j}) \cup ReportJobs(Today, j.who) \cup team
    /\ UNCHANGED <<clockVars, webVars, scheduler, pokes, left>>

(* finalizeRunIfDone, given the reports of date d. *)
Finalized(d, reports) ==
    IF \A m \in Member : reports[m].status # "in_progress"
    THEN [run EXCEPT ![d].status = "completed"] ELSE run

(* A report that is closed because its deadline has passed. *)
Expired(r) == [r EXCEPT !.status = "timed_out", !.expired = @ \cup {<<r.due, now>>}]

\* Faulty variant: the deadline that a reply moved is not looked at.
TimeoutAtOnce(j) ==
    LET r == report[j.date][j.who]
    IN  /\ Serve(j) /\ j.kind = "timeout"
        /\ IF r.status # "in_progress" THEN jobs' = jobs \ {j} /\ UNCHANGED reportVars
           ELSE /\ jobs' = jobs \ {j}
                /\ report' = [report EXCEPT ![j.date][j.who] = Expired(@)]
                /\ run' = Finalized(j.date, report'[j.date])
        /\ UNCHANGED <<clockVars, webVars, scheduler, pokes, left>>

TimeoutJob(j) ==
    LET r == report[j.date][j.who]
    IN  /\ Serve(j) /\ j.kind = "timeout"
        /\ IF r.status # "in_progress" THEN jobs' = jobs \ {j} /\ UNCHANGED reportVars
           ELSE IF r.due > now
           THEN /\ jobs' = (jobs \ {j}) \cup {[j EXCEPT !.at = r.due]}
                /\ UNCHANGED reportVars
           ELSE /\ jobs' = jobs \ {j}
                /\ report' = [report EXCEPT ![j.date][j.who] = Expired(@)]
                /\ run' = Finalized(j.date, report'[j.date])
        /\ UNCHANGED <<clockVars, webVars, scheduler, pokes, left>>

RemindJob(j) ==
    /\ Serve(j) /\ j.kind = "remind"
    /\ jobs' = jobs \ {j}
    /\ IF report[j.date][j.who].status # "in_progress" THEN UNCHANGED report
       ELSE report' = [report EXCEPT ![j.date][j.who].nudged = @ \cup {<<j.at, now>>}]
    /\ UNCHANGED <<clockVars, webVars, scheduler, run, pokes, left>>

-----------------------------------------------------------------------------
(* The members: handleMessage answers to the report asked last. *)

Open(m) == {d \in Date : report[d][m].status = "in_progress"}
Created(d, m) == Min({a.at : a \in report[d][m].asks})
Newest(m) == {d \in Open(m) : \A e \in Open(m) : Created(e, m) <= Created(d, m)}

Reply(m, d) ==
    /\ d \in Newest(m)
    /\ Spend("reply")
    /\ report' = [report EXCEPT ![d][m].due = now + Timeout]
    /\ UNCHANGED <<clockVars, webVars, scheduler, jobs, run, pokes>>

(* The last answer, or an abort. *)
Close(m, d, status) ==
    /\ d \in Newest(m)
    /\ Spend("reply")
    /\ report' = [report EXCEPT ![d][m].status = status]
    /\ run' = Finalized(d, report'[d])
    /\ UNCHANGED <<clockVars, webVars, scheduler, jobs, pokes>>

(* maybeRetrigger: unless today is paused or completed. *)
Keyword(m) ==
    /\ Open(m) = {} /\ active
    /\ run[Today] # NoRun => report[Today][m].status # "completed"
    /\ Spend("keyword")
    /\ jobs' = jobs \cup {MemberJob("retrigger", m)}
    /\ pokes' = pokes \cup {now}
    /\ UNCHANGED <<clockVars, webVars, scheduler, reportVars>>

Job(j) == \/ ReconcileJob(j) \/ ForceJob(j) \/ SendDmJob(j) \/ RetriggerJob(j)
          \/ TimeoutJob(j) \/ RemindJob(j)

Next ==
    \/ Advance \/ Boot \/ Stop
    \/ \E w \in Weekly, sendNow \in BOOLEAN : SaveStandup(w, sendNow)
    \/ ToggleActive \/ TriggerNow \/ TickJob
    \/ \E j \in jobs : Job(j)
    \/ \E m \in Member, d \in Date :
          \/ Reply(m, d) \/ \E s \in {"completed", "timed_out"} : Close(m, d, s)
    \/ \E m \in Member : Keyword(m)

Spec == Init /\ [][Next]_vars

-----------------------------------------------------------------------------
(* The health page: getStandupHealth, of the run with the latest date. *)

Runs == {d \in Date : run[d] # NoRun}

NextRunAt == NextRunInstant(plan, now)

(* The latest run with its reports by status. *)
LastRun ==
    LET date  == Max(Runs)
        In(s) == Cardinality({m \in Member : report[date][m].status = s})
    IN  [date |-> date, dmSent |-> Cardinality(Member) - In("none"), completed |-> In("completed"),
         inProgress |-> In("in_progress"), timedOut |-> In("timed_out")]

Health ==
    CASE ~active -> "paused"
      [] active /\ Runs # {} /\ LastRun.date = Today ->
            IF run[Today].status = "completed" THEN "completed" ELSE "running"
      [] active /\ (Runs = {} \/ LastRun.date # Today) ->
            IF IsActiveWeekday(plan, now) /\ now >= SendInstant(plan, plan.tz, Today)
            THEN "missed" ELSE "waiting"

-----------------------------------------------------------------------------
(* Every variable has its type; no delay is negative enough to predate the clock. *)
Report == [status : {"none", "in_progress", "completed", "timed_out"},
           due : 0..(Horizon + Timeout),
           asks : SUBSET [at : Instant, every : Nat],
           nudged : SUBSET (Instant \X Instant),
           expired : SUBSET (Instant \X Instant)]

Jobs == [kind : {"reconcile", "force"}, at : Nat] \cup
        [kind : {"retrigger"}, who : Member, at : Nat] \cup
        [kind : Delayed, date : Date, who : Member, at : Nat]

TypeOK ==
    /\ now \in Instant /\ up \in BOOLEAN /\ dark \subseteq Instant
    /\ plan \in Plan /\ active \in BOOLEAN /\ changed \in Instant
    /\ scheduler \in {NoTick} \cup [pattern : [days : (SUBSET (0..6)) \ {{}}, tz : Zone], at : Nat]
    /\ jobs \subseteq Jobs
    /\ run \in [Date -> {NoRun} \cup [status : {"running", "completed"}, at : Instant, plan : Plan]]
    /\ report \in [Date -> [Member -> Report]]
    /\ pokes \subseteq Instant
    /\ left \in [Event -> Nat]

(* e is t, or the worker was down from t until e. *)
Prompt(t, e) == t <= e /\ t..(e - 1) \subseteq dark

(* From t on, the worker has not been there to do it. *)
Unserved(t) == Prompt(t, now)

(* When m is to be asked for the run of date d: once the run is open, as   *)
(* soon as the clock in m's zone has reached the time of the schedule on   *)
(* that date.                                                              *)
WakeUp(m, d) ==
    LET zone == IF Home[m] = NoZone THEN run[d].plan.tz ELSE Home[m]
    IN  Min({t \in run[d].at..(Horizon + 3 * Day) : Local(zone, t) >= d * Day + run[d].plan.slot})

(* Every member of a run is asked at the time of their own zone, or when   *)
(* somebody asked for it by hand, and never otherwise; a run that nobody   *)
(* asked for is opened on a day of the schedule.  An edit of the schedule, *)
(* a pause or an outage in between does not lose or move a send           *)
(* (openRun.ts:102-107, sendInstants.ts:25-36).                            *)
AskedAtTheirTime ==
    \A d \in Runs :
        /\ \/ CronDow(d) \in ParseWeekdays(run[d].plan.dow)
           \/ \E t \in pokes : Prompt(t, run[d].at)
        /\ \A m \in Member :
              /\ \A a \in report[d][m].asks :
                    \E t \in pokes \cup {WakeUp(m, d)} : Prompt(t, a.at)
              /\ report[d][m].asks = {} => now <= WakeUp(m, d) \/ Unserved(WakeUp(m, d))

(* The instants at which report r is due a reminder. *)
Reminders(r) ==
    UNION {{a.at + k : k \in {k \in 1..(Timeout - 1) : k % a.every = 0}}
             : a \in {a \in r.asks : a.every > 0}}

(* The clock of a report starts when its member is asked.  It is closed    *)
(* for silence exactly at the deadline the last reply left, however often  *)
(* that moved; until then every reminder comes at its time, and none comes *)
(* at any other (timeoutReport.ts:9-14, reminders.ts:1-4).                 *)
ReportClockKept ==
    \A d \in Date, m \in Member :
        LET r == report[d][m]
        IN  /\ r.status = "in_progress" => Unserved(r.due) \/ now <= r.due
            /\ \A p \in r.expired : Prompt(p[1], p[2])
            /\ \A p \in r.nudged : p[1] \in Reminders(r) /\ Prompt(p[1], p[2])
            /\ r.status = "in_progress" =>
                  \A t \in Reminders(r) :
                      t > Max({a.at : a \in r.asks}) /\ t < now /\ ~Unserved(t)
                          => \E p \in r.nudged : p[1] = t

(* The instant of the tick that opens date d. *)
TickInstant(p, d) == d * Day + TickSlot - Offset[p.tz]

(* Why a run that the health page misses, or promises for later today, may *)
(* not be there: its tick is still to come, was lost to an outage, or fell *)
(* before the row became what it is.                                       *)
Excused ==
    LET t == TickInstant(plan, Today)
    IN  now <= t \/ changed >= t \/ ((t - 1)..now) \cap dark # {}

(* The health page misses no run, and promises none for later today, while *)
(* the scheduler works, unless the zone was changed to one whose today is  *)
(* before the latest run's; a run that it calls running has not been asked *)
(* about yet or waits for somebody; and the next run it announces is the   *)
(* first instant to come at which the schedule's clock shows an active day *)
(* and the time (health.ts:8-11, 38-42; sendInstants.ts:46-50).            *)
HealthIsHonest ==
    /\ \/ Health = "missed"
       \/ Health = "waiting" /\ NextRunAt # NoInstant /\ AnchorDate(plan.tz, NextRunAt) = Today
       => Excused \/ \E d \in Runs : d > Today
    /\ Health = "running" => LastRun.dmSent = 0 \/ LastRun.inProgress > 0
    /\ NextRunAt = Min({t \in (now + 1)..(now + 8 * Day) :
                           /\ Local(plan.tz, t) % Day = plan.slot
                           /\ IsActiveWeekday(plan, t)})
=============================================================================
