-------------------------- MODULE StandupClockProofs --------------------------
(* What holds of StandupClock for every set of members, every set of zones, *)
(* any length of the day, of the timeout and of the run, and every start.   *)
EXTENDS StandupClock, FiniteSetTheorems, WellFoundedInduction, TLAPS

-----------------------------------------------------------------------------
(* Sets of numbers: the least one, and the greatest of those that have a    *)
(* bound.                                                                   *)

LEMMA Least ==
    ASSUME NEW T \in SUBSET Nat, T # {}
    PROVE  Min(T) \in T /\ \A y \in T : Min(T) <= y
  <1> DEFINE R == OpToRel(<, Nat)
  <1>1. \A x, y \in Nat : <<x, y>> \in R <=> x < y
    BY DEF OpToRel
  <1>2. IsWellFoundedOn(R, Nat)
    BY NatLessThanWellFounded
  <1> HIDE DEF R
  <1>3. PICK x \in T : \A y \in T : ~(<<y, x>> \in R)
    BY <1>2, WFMin, Zenon
  <1>4. \A y \in T : ~(y < x)
    BY <1>1, <1>3
  <1>5. \A y \in T : x <= y
    BY <1>4
  <1> QED
    BY <1>5 DEF Min

LEMMA LeastIs ==
    ASSUME NEW T \in SUBSET Nat, NEW x \in T, \A y \in T : x <= y
    PROVE  Min(T) = x
  <1>1. T # {}
    OBVIOUS
  <1>2. Min(T) \in T /\ Min(T) <= x
    BY <1>1, Least
  <1>3. Min(T) \in Nat /\ x \in Nat /\ x <= Min(T)
    BY <1>2
  <1> QED
    BY <1>2, <1>3

LEMMA Greatest ==
    ASSUME NEW S \in SUBSET Nat, S # {}, NEW b \in Nat, \A s \in S : s <= b
    PROVE  Max(S) \in S /\ \A s \in S : s <= Max(S)
  <1> DEFINE T == {t \in Nat : \A s \in S : s <= t}
  <1>1. T # {} /\ T \in SUBSET Nat
    OBVIOUS
  <1>2. PICK t \in T : \A u \in T : t <= u
    BY <1>1, Least
  <1>3. t \in S
    <2> SUFFICES ASSUME t \notin S PROVE FALSE
      OBVIOUS
    <2>1. t \in Nat /\ \A s \in S : s \in Nat /\ s <= t /\ s # t
      OBVIOUS
    <2>2. PICK u \in S : TRUE
      OBVIOUS
    <2>3. t > 0
      BY <2>1, <2>2
    <2>4. t - 1 \in Nat /\ \A s \in S : s <= t - 1
      BY <2>1, <2>3
    <2>5. t - 1 \in T /\ ~(t <= t - 1)
      BY <2>1, <2>4
    <2> QED
      BY <1>2, <2>5
  <1>4. Max(S) \in S /\ \A y \in S : Max(S) >= y
    BY <1>3 DEF Max
  <1> QED
    BY <1>4

-----------------------------------------------------------------------------
(* Days and their slots. *)

LEMMA DayLength == Day \in Nat /\ Day > 0
  BY DayAssumption

LEMMA Division ==
    ASSUME NEW n \in Int
    PROVE  /\ n \div Day \in Int
           /\ (n \div Day) * Day <= n /\ n < (n \div Day) * Day + Day
           /\ n % Day = n - (n \div Day) * Day
           /\ n \in Nat => n \div Day \in Nat
  BY DayLength

LEMMA Dating ==
    ASSUME NEW d \in Int, NEW s \in 0..(Day - 1)
    PROVE  (d * Day + s) \div Day = d /\ (d * Day + s) % Day = s
  BY DayLength

LEMMA DaysInOrder ==
    ASSUME NEW d \in Int, NEW e \in Int
    PROVE  /\ d * Day \in Int
           /\ d <= e => d * Day <= e * Day
           /\ d < e => d * Day + Day <= e * Day
  BY DayLength

LEMMA SomeDays ==
    ASSUME NEW d \in Int
    PROVE  \A i \in 0..8 : (d + i) * Day = d * Day + i * Day /\ 0 <= i * Day /\ i * Day <= 8 * Day
                           /\ (i <= 7 => i * Day <= 7 * Day) /\ (1 <= i => Day <= i * Day)
  BY DayLength

LEMMA EarlierDate ==
    ASSUME NEW n \in Int, NEW m \in Int, n <= m
    PROVE  n \div Day <= m \div Day
  BY DayLength

(* Every day of the week comes within seven days, and again after seven.    *)
LEMMA Weekdays ==
    ASSUME NEW d \in Int
    PROVE  /\ CronDow(d) \in 0..6 /\ CronDow(d + 8) = CronDow(d + 1)
           /\ \A w \in 0..6 : \E i \in 1..7 : CronDow(d + i) = w
  <1>1. d % 7 \in 0..6 /\ (d + 8) % 7 = (d + 1) % 7
    OBVIOUS
  <1>2. ASSUME NEW w \in 0..6
        PROVE  \/ (d + 1) % 7 = w \/ (d + 2) % 7 = w \/ (d + 3) % 7 = w \/ (d + 4) % 7 = w
               \/ (d + 5) % 7 = w \/ (d + 6) % 7 = w \/ (d + 7) % 7 = w
    OBVIOUS
  <1> QED
    BY <1>1, <1>2 DEF CronDow

LEMMA Parsing ==
    ASSUME NEW p \in Plan
    PROVE  /\ p.dow \in SUBSET DowRange /\ p.slot \in 0..(Day - 1) /\ p.tz \in Zone /\ p.every \in Nat
           /\ ParseWeekdays(p.dow) \in SUBSET (0..6) /\ ParseWeekdays(p.dow) # {}
  <1>1. p.dow \in SUBSET DowRange /\ ParseWeekdays(p.dow) # {}
    BY DEF Plan
  <1>2. ASSUME NEW w \in DowRange
        PROVE  w[1]..w[2] \subseteq 0..6
    BY DEF DowRange
  <1>3. ParseWeekdays(p.dow) \subseteq 0..6
    BY <1>1, <1>2 DEF ParseWeekdays
  <1> QED
    BY <1>1, <1>3 DEF Plan

LEMMA Zones ==
    ASSUME NEW z \in Zone
    PROVE  /\ Offset[z] \in Nat /\ Offset[z] <= 2 * Day
           /\ \A t \in Nat : Local(z, t) \in Nat /\ AnchorDate(z, t) \in Nat
           /\ \A t \in Int : Local(z, t) \in Int /\ AnchorDate(z, t) \in Int
  <1>1. Offset[z] \in 0..(2 * Day)
    BY OffsetAssumption
  <1>2. Offset[z] \in Nat /\ Offset[z] <= 2 * Day
    BY <1>1, DayLength
  <1> QED
    BY <1>2, Division DEF Local, AnchorDate

-----------------------------------------------------------------------------
(* The tick that comes next: a match of the pattern, and no other before.   *)

Matches(pattern, t) ==
    /\ Local(pattern.tz, t) % Day = TickSlot
    /\ CronDow(AnchorDate(pattern.tz, t)) \in pattern.days

Pattern == [days : (SUBSET (0..6)) \ {{}}, tz : Zone]

LEMMA NextTickMatches ==
    ASSUME NEW pattern \in Pattern, NEW t \in Nat
    PROVE  /\ NextTick(pattern, t) \in Nat /\ NextTick(pattern, t) > t
           /\ Matches(pattern, NextTick(pattern, t))
           /\ \A u \in Nat : t < u /\ u < NextTick(pattern, t) => ~Matches(pattern, u)
  <1> DEFINE z == pattern.tz
             ticks == {u \in (t + 1)..(t + 8 * Day) : Matches(pattern, u)}
             d == AnchorDate(z, t)
             at(i) == (d + i) * Day + TickSlot - Offset[z]
  <1>1. z \in Zone /\ pattern.days \subseteq 0..6 /\ pattern.days # {}
    BY DEF Pattern
  <1>2. Offset[z] \in Nat /\ d \in Nat
    BY <1>1, Zones
  <1>3. TickSlot \in 0..(Day - 1) /\ TickSlot \in Nat /\ TickSlot < Day
    BY DayAssumption
  <1>4. d * Day <= t + Offset[z] /\ t + Offset[z] < d * Day + Day /\ d * Day \in Int
    BY <1>2, Division, DaysInOrder DEF AnchorDate, Local
  <1>5. PICK w \in 0..6 : w \in pattern.days
    BY <1>1
  <1>6. PICK i \in 1..7 : CronDow(d + i) = w
    BY <1>2, Weekdays
  <1>7. i \in 0..8 /\ d + i \in Int
    BY <1>2
  <1>8. (d + i) * Day = d * Day + i * Day /\ i * Day <= 7 * Day /\ Day <= i * Day /\ i * Day \in Int
    <2>1. d \in Int /\ i \in Int /\ 1 <= i /\ i <= 7
      BY <1>2
    <2>2. i * Day \in Int
      BY <2>1, DaysInOrder
    <2> HIDE DEF d
    <2> QED
      BY <1>7, <2>1, <2>2, SomeDays
  <1>9. at(i) \in (t + 1)..(t + 8 * Day)
    BY <1>2, <1>3, <1>4, <1>8, DayLength
  <1>10. Local(z, at(i)) = (d + i) * Day + TickSlot
    BY <1>2, <1>3, <1>4, <1>8, DayLength DEF Local
  <1>11. Matches(pattern, at(i))
    BY <1>3, <1>5, <1>6, <1>7, <1>10, Dating DEF Matches, AnchorDate
  <1>12. ticks # {} /\ ticks \in SUBSET Nat
    BY <1>9, <1>11, DayLength
  <1>13. NextTick(pattern, t) = Min(ticks)
    BY <1>12 DEF NextTick, Matches
  <1>14. Min(ticks) \in ticks /\ \A u \in ticks : Min(ticks) <= u
    BY <1>12, Least
  <1> HIDE DEF d, z, at
  <1> QED
    BY <1>13, <1>14, DayLength

(* An instant is a tick of date d exactly if it is the first tick slot of   *)
(* the date in the pattern's zone.                                          *)
LEMMA TickMatches ==
    ASSUME NEW p \in Plan, NEW d \in Int
    PROVE  /\ TickInstant(p, d) \in Int
           /\ AnchorDate(p.tz, TickInstant(p, d)) = d
           /\ CronDow(d) \in ParseWeekdays(p.dow) => Matches(DeriveTickCron(p), TickInstant(p, d))
  <1>1. p.tz \in Zone /\ Offset[p.tz] \in Nat /\ TickSlot \in 0..(Day - 1) /\ d * Day \in Int
    BY Parsing, Zones, DayAssumption, DaysInOrder
  <1>2. TickInstant(p, d) \in Int /\ Local(p.tz, TickInstant(p, d)) = d * Day + TickSlot
    BY <1>1 DEF TickInstant, Local
  <1> QED
    BY <1>2, <1>1, Dating DEF Matches, DeriveTickCron, AnchorDate

-----------------------------------------------------------------------------
(* Every variable keeps its type.  A run that is finalized has to exist for *)
(* that: a report is asked only under a run, and so is a send enqueued.     *)

RunState == [status : {"running", "completed"}, at : Instant, plan : Plan]
DayJobs  == [kind : Delayed, date : Date, who : Member, at : Nat]

RunsFirst ==
    /\ \A d \in Date, m \in Member : report[d][m].status # "none" => run[d] # NoRun
    /\ \A j \in jobs : j.kind = "send" => run[j.date] # NoRun

Typed == TypeOK /\ RunsFirst

LEMMA JobTypes ==
    ASSUME jobs \subseteq Jobs, NEW j \in jobs
    PROVE  /\ j.at \in Nat
           /\ j.kind \in {"send", "timeout", "remind"} =>
                 j \in DayJobs /\ j.date \in Date /\ j.who \in Member
           /\ j.kind = "retrigger" => j.who \in Member
  BY DEF Jobs, DayJobs, Delayed

LEMMA NoRunIsNone == NoRun \notin RunState
  BY DEF NoRun, RunState

LEMMA Dates ==
    ASSUME NEW z \in Zone, NEW t \in Instant
    PROVE  AnchorDate(z, t) \in Date
  <1>1. t \in Nat /\ t <= Horizon /\ Horizon \in Nat
    BY TimeAssumption DEF Instant
  <1>2. /\ Local(z, t) \in Nat /\ Horizon + 2 * Day \in Nat /\ Local(z, t) <= Horizon + 2 * Day
        /\ AnchorDate(z, t) = Local(z, t) \div Day
    BY <1>1, Zones, DayLength DEF Local, AnchorDate
  <1> QED
    BY <1>2, Division, EarlierDate DEF Date

LEMMA TodayIsADate ==
    ASSUME TypeOK
    PROVE  Today \in Date /\ plan.tz \in Zone /\ now \in Nat /\ plan.every \in Nat
  BY Dates, Parsing, TimeAssumption DEF TypeOK, Today, Instant

LEMMA Reconciling ==
    ASSUME TypeOK
    PROVE  Reconciled \in {NoTick} \cup [pattern : Pattern, at : Nat]
  <1> DEFINE pattern == DeriveTickCron(plan)
  <1>1. pattern \in Pattern
    BY Parsing DEF TypeOK, DeriveTickCron, Pattern
  <1>2. now \in Nat
    BY TodayIsADate
  <1>3. NextTick(pattern, now) \in Nat
    BY <1>1, <1>2, NextTickMatches
  <1> HIDE DEF pattern
  <1> QED
    BY <1>1, <1>3 DEF Reconciled, Pattern, TypeOK, pattern

LEMMA FanningOut ==
    ASSUME TypeOK, NEW people \in SUBSET Member, NEW immediate \in BOOLEAN
    PROVE  FanOutSends(Today, people, immediate) \subseteq
              {j \in DayJobs : j.kind = "send" /\ j.date = Today /\ now <= j.at}
  <1>1. Today \in Date /\ Today \in Int /\ plan.tz \in Zone /\ now \in Nat /\ plan.slot \in Int
    <2>1. Today \in Date /\ plan.tz \in Zone /\ now \in Nat /\ plan.slot \in 0..(Day - 1)
      BY TodayIsADate, Parsing DEF TypeOK
    <2> QED
      BY <2>1, DayLength DEF Date
  <1>2. ASSUME NEW m \in Member
        PROVE  SendInstant(plan, IF Home[m] = NoZone THEN plan.tz ELSE Home[m], Today) \in Int
    <2> DEFINE z == IF Home[m] = NoZone THEN plan.tz ELSE Home[m]
    <2>1. z \in Zone
      BY <1>1, HomeAssumption
    <2>2. Offset[z] \in Nat /\ Today * Day \in Int
      BY <1>1, <2>1, Zones, DaysInOrder
    <2> HIDE DEF z
    <2>3. SendInstant(plan, z, Today) \in Int
      BY <1>1, <2>2 DEF SendInstant
    <2> QED
      BY <2>3 DEF z
  <1>3. \A s \in Int : Larger(now, s) \in Nat /\ now <= Larger(now, s) /\ s <= Larger(now, s)
    BY <1>1 DEF Larger
  <1>4. ASSUME NEW m \in people, NEW t \in Nat, now <= t
        PROVE  DayJob("send", Today, m, t) \in
                  {j \in DayJobs : j.kind = "send" /\ j.date = Today /\ now <= j.at}
    BY <1>1, <1>4 DEF DayJob, DayJobs, Delayed
  <1> QED
    BY <1>1, <1>2, <1>3, <1>4 DEF FanOutSends

LEMMA Opening ==
    ASSUME TypeOK
    PROVE  /\ OpenedRun \in [Date -> {NoRun} \cup RunState]
           /\ OpenedRun[Today] \in RunState
           /\ \A d \in Date : d # Today => OpenedRun[d] = run[d]
           /\ run[Today] # NoRun => OpenedRun = run
           /\ run[Today] = NoRun => OpenedRun[Today] = [status |-> "running", at |-> now, plan |-> plan]
  <1>1. Today \in Date
    BY TodayIsADate
  <1>2. run \in [Date -> {NoRun} \cup RunState] /\ now \in Instant /\ plan \in Plan
    BY DEF TypeOK, RunState
  <1>3. [status |-> "running", at |-> now, plan |-> plan] \in RunState
    BY <1>2 DEF RunState
  <1> QED
    BY <1>1, <1>2, <1>3 DEF OpenedRun

LEMMA AskingJobs ==
    ASSUME TypeOK, NEW d \in Date, NEW m \in Member
    PROVE  ReportJobs(d, m) \subseteq {j \in DayJobs : j.kind \in {"timeout", "remind"} /\ now < j.at}
  <1>1. now \in Nat /\ plan.every \in Nat /\ Timeout \in Nat /\ Timeout > 0
    BY TodayIsADate, TimeAssumption
  <1>2. ReminderDelays(plan.every, Timeout) \subseteq 1..(Timeout - 1)
    BY DEF ReminderDelays
  <1>3. ASSUME NEW t \in 1..Timeout, NEW kind \in {"timeout", "remind"}
        PROVE  DayJob(kind, d, m, now + t) \in
                  {j \in DayJobs : j.kind \in {"timeout", "remind"} /\ now < j.at}
    BY <1>1 DEF DayJob, DayJobs, Delayed
  <1> QED
    BY <1>1, <1>2, <1>3 DEF ReportJobs

LEMMA AskingReports ==
    ASSUME TypeOK, NEW r \in Report
    PROVE  Asked(r) \in Report /\ Asked(r).status = "in_progress"
  <1>1. now \in Instant /\ plan.every \in Nat /\ now + Timeout \in 0..(Horizon + Timeout)
    BY TodayIsADate, TimeAssumption DEF TypeOK, Instant
  <1>2. r.asks \cup {[at |-> now, every |-> plan.every]} \in SUBSET [at : Instant, every : Nat]
    BY <1>1 DEF Report
  <1>3. Asked(r) = [r EXCEPT !.status = "in_progress", !.due = now + Timeout,
                             !.asks = r.asks \cup {[at |-> now, every |-> plan.every]}]
    BY DEF Asked
  <1> QED
    BY <1>1, <1>2, <1>3 DEF Report

LEMMA Finalizing ==
    ASSUME TypeOK, NEW d \in Date, run[d] # NoRun, NEW reports
    PROVE  /\ Finalized(d, reports) \in [Date -> {NoRun} \cup RunState]
           /\ \A e \in Date : Finalized(d, reports)[e] # NoRun <=> run[e] # NoRun
  <1>1. run \in [Date -> {NoRun} \cup RunState] /\ run[d] \in RunState
    BY DEF TypeOK, RunState
  <1>2. [run[d] EXCEPT !.status = "completed"] \in RunState
    BY <1>1 DEF RunState
  <1> QED
    BY <1>1, <1>2, NoRunIsNone DEF Finalized

LEMMA InitTyped == Init => Typed
  <1> SUFFICES ASSUME Init PROVE Typed
    OBVIOUS
  <1>1. now \in Instant /\ changed \in Instant /\ dark \subseteq Instant /\ pokes \subseteq Instant
    BY TimeAssumption DEF Init, Instant
  <1>2. plan \in Plan /\ left \in [Event -> Nat]
    BY StartsAssumption DEF Init
  <1>3. NoReport \in Report
    BY TimeAssumption DEF NoReport, Report
  <1>4. /\ report \in [Date -> [Member -> Report]] /\ \A d \in Date, m \in Member : report[d][m].status = "none"
        /\ run \in [Date -> {NoRun} \cup [status : {"running", "completed"}, at : Instant, plan : Plan]]
    BY <1>3 DEF Init, NoReport
  <1> QED
    BY <1>1, <1>2, <1>4 DEF Init, Typed, TypeOK, RunsFirst

(* What a step of each kind leaves of the type to check. *)
LEMMA WebSteps ==
    ASSUME Typed,
           \/ \E w \in Weekly, sendNow \in BOOLEAN : SaveStandup(w, sendNow)
           \/ ToggleActive \/ TriggerNow \/ \E m \in Member : Keyword(m)
    PROVE  Typed'
  <1> USE DEF clockVars, webVars, reportVars
  <1>0. now \in Nat /\ now \in Instant
    BY TodayIsADate DEF Typed, TypeOK
  <1>1. ASSUME NEW kind \in {"reconcile", "force"}
        PROVE  TeamJob(kind) \in Jobs /\ TeamJob(kind).kind # "send"
    BY <1>0 DEF TeamJob, Jobs
  <1>2. ASSUME NEW m \in Member
        PROVE  MemberJob("retrigger", m) \in Jobs /\ MemberJob("retrigger", m).kind # "send"
    BY <1>0 DEF MemberJob, Jobs
  <1>3. ASSUME NEW e \in Event, Spend(e)
        PROVE  left' \in [Event -> Nat]
    BY <1>3 DEF Spend, Typed, TypeOK
  <1>4. ASSUME NEW w \in Weekly
        PROVE  [dow |-> CronFromWeekly(w.weekdays), slot |-> w.slot, tz |-> w.tz, every |-> w.every] \in Plan
    <2>0. w \in [weekdays : (SUBSET (0..6)) \ {{}}, slot : 0..(Day - 1), tz : Zone, every : Nat]
      BY WeeklyAssumption
    <2>1. /\ w.weekdays \in SUBSET (0..6) /\ w.weekdays # {}
          /\ w.slot \in 0..(Day - 1) /\ w.tz \in Zone /\ w.every \in Nat
      BY <2>0
    <2>2. CronFromWeekly(w.weekdays) \in SUBSET DowRange
      BY <2>1 DEF CronFromWeekly, DowRange
    <2>3. PICK d \in w.weekdays : d \in 0..6
      BY <2>1
    <2>4. <<d, d>> \in CronFromWeekly(w.weekdays) /\ d \in <<d, d>>[1]..<<d, d>>[2]
      BY <2>3 DEF CronFromWeekly
    <2>5. d \in ParseWeekdays(CronFromWeekly(w.weekdays))
      BY <2>4 DEF ParseWeekdays
    <2> QED
      BY <2>1, <2>2, <2>5 DEF Plan
  <1>5. "edit" \in Event /\ "trigger" \in Event /\ "keyword" \in Event
    BY DEF Event
  <1>6. ASSUME NEW w \in Weekly, NEW sendNow \in BOOLEAN, SaveStandup(w, sendNow)
        PROVE  Typed'
    <2>1. plan' \in Plan /\ left' \in [Event -> Nat] /\ changed' \in Instant
      BY <1>0, <1>3, <1>4, <1>5, <1>6 DEF SaveStandup
    <2>2. /\ jobs' \subseteq Jobs /\ pokes' \subseteq Instant
          /\ \A j \in jobs' : j.kind = "send" => j \in jobs
      BY <1>0, <1>1, <1>6 DEF SaveStandup, Typed, TypeOK
    <2> QED
      BY <1>6, <2>1, <2>2 DEF SaveStandup, Typed, TypeOK, RunsFirst
  <1>7. ASSUME ToggleActive
        PROVE  Typed'
    <2>1. /\ jobs' \subseteq Jobs /\ left' \in [Event -> Nat] /\ changed' \in Instant /\ active' \in BOOLEAN
          /\ \A j \in jobs' : j.kind = "send" => j \in jobs
      BY <1>0, <1>1, <1>3, <1>5, <1>7 DEF ToggleActive, Typed, TypeOK
    <2> QED
      BY <1>7, <2>1 DEF ToggleActive, Typed, TypeOK, RunsFirst
  <1>8. ASSUME \/ TriggerNow \/ \E m \in Member : Keyword(m)
        PROVE  Typed'
    <2>1. /\ jobs' \subseteq Jobs /\ left' \in [Event -> Nat] /\ pokes' \subseteq Instant
          /\ \A j \in jobs' : j.kind = "send" => j \in jobs
      BY <1>0, <1>1, <1>2, <1>3, <1>5, <1>8 DEF TriggerNow, Keyword, Typed, TypeOK
    <2> QED
      BY <1>8, <2>1 DEF TriggerNow, Keyword, Typed, TypeOK, RunsFirst
  <1> QED
    BY <1>6, <1>7, <1>8

LEMMA ClockSteps ==
    ASSUME Typed, Advance \/ Boot \/ Stop
    PROVE  Typed'
  <1> USE DEF clockVars, webVars, reportVars
  <1>1. CASE Advance
    <2>1. now' \in Instant /\ dark' \subseteq Instant
      BY <1>1, TimeAssumption DEF Advance, Instant, Typed, TypeOK
    <2> QED
      BY <1>1, <2>1 DEF Advance, Typed, TypeOK, RunsFirst
  <1>2. CASE Boot
    BY <1>2, Reconciling DEF Boot, Typed, TypeOK, RunsFirst, Pattern
  <1>3. CASE Stop
    <2>1. left' \in [Event -> Nat]
      BY <1>3 DEF Stop, Spend, Event, Typed, TypeOK
    <2> QED
      BY <1>3, <2>1 DEF Stop, Typed, TypeOK, RunsFirst
  <1> QED
    BY <1>1, <1>2, <1>3

(* openRun, whether it opens or not. *)
LEMMA OpenRunTyped ==
    ASSUME Typed, NEW force \in BOOLEAN, NEW others \in SUBSET jobs, OpenRun(force, others)
    PROVE  /\ run' \in [Date -> {NoRun} \cup RunState]
           /\ \A d \in Date : run[d] # NoRun => run'[d] # NoRun
           /\ jobs' \subseteq Jobs
           /\ \A j \in jobs' : j.kind = "send" => run'[j.date] # NoRun
  <1>1. TypeOK /\ Today \in Date
    BY TodayIsADate DEF Typed
  <1>2. others \subseteq Jobs /\ \A j \in others : j.kind = "send" => j.date \in Date /\ run[j.date] # NoRun
    BY <1>1, JobTypes DEF Typed, TypeOK, RunsFirst
  <1>3. CASE run' = run /\ jobs' = others
    BY <1>2, <1>3 DEF Typed, TypeOK, RunState
  <1>4. CASE run' = OpenedRun /\ jobs' = others \cup FanOutSends(Today, Member, force)
    <2>1. /\ OpenedRun \in [Date -> {NoRun} \cup RunState] /\ OpenedRun[Today] # NoRun
          /\ \A d \in Date : run[d] # NoRun => OpenedRun[d] # NoRun
      BY <1>1, Opening, NoRunIsNone
    <2>2. \A j \in FanOutSends(Today, Member, force) : j \in Jobs /\ j.date = Today
      BY <1>1, FanningOut DEF DayJobs, Jobs
    <2> QED
      BY <1>1, <1>2, <1>4, <2>1, <2>2
  <1> QED
    BY <1>3, <1>4 DEF OpenRun

LEMMA OpeningSteps ==
    ASSUME Typed, TickJob \/ \E j \in jobs : ForceJob(j)
    PROVE  Typed'
  <1> USE DEF clockVars, webVars, reportVars
  <1>1. CASE TickJob
    <2>1. /\ run' \in [Date -> {NoRun} \cup RunState] /\ \A d \in Date : run[d] # NoRun => run'[d] # NoRun
          /\ jobs' \subseteq Jobs /\ \A j \in jobs' : j.kind = "send" => run'[j.date] # NoRun
      BY <1>1, OpenRunTyped DEF TickJob
    <2>2. scheduler' \in [pattern : Pattern, at : Nat]
      <3>1. scheduler \in [pattern : Pattern, at : Nat] /\ now \in Nat
        BY <1>1, TodayIsADate DEF TickJob, TickDue, NoTick, Pattern, Typed, TypeOK
      <3>2. NextTick(scheduler.pattern, now) \in Nat
        BY <3>1, NextTickMatches
      <3> QED
        BY <1>1, <3>1, <3>2 DEF TickJob
    <2> QED
      BY <1>1, <2>1, <2>2 DEF TickJob, Typed, TypeOK, RunsFirst, RunState, Pattern
  <1>2. ASSUME NEW j \in jobs, ForceJob(j)
        PROVE  Typed'
    <2>1. /\ run' \in [Date -> {NoRun} \cup RunState] /\ \A d \in Date : run[d] # NoRun => run'[d] # NoRun
          /\ jobs' \subseteq Jobs /\ \A k \in jobs' : k.kind = "send" => run'[k.date] # NoRun
      BY <1>2, OpenRunTyped DEF ForceJob
    <2> QED
      BY <1>2, <2>1 DEF ForceJob, Typed, TypeOK, RunsFirst, RunState
  <1> QED
    BY <1>1, <1>2

LEMMA ReportSteps ==
    ASSUME Typed,
           \E j \in jobs : ReconcileJob(j) \/ SendDmJob(j) \/ RetriggerJob(j) \/ TimeoutJob(j) \/ RemindJob(j)
    PROVE  Typed'
  <1> USE DEF clockVars, webVars, reportVars
  <1>0. /\ TypeOK /\ Today \in Date /\ now \in Nat /\ now \in Instant
        /\ report \in [Date -> [Member -> Report]] /\ jobs \subseteq Jobs
        /\ run \in [Date -> {NoRun} \cup RunState]
    BY TodayIsADate DEF Typed, TypeOK, RunState
  <1>1. ASSUME NEW d \in Date, NEW m \in Member, NEW r \in Report, report' = [report EXCEPT ![d][m] = r]
        PROVE  /\ report' \in [Date -> [Member -> Report]] /\ report'[d][m] = r
               /\ \A e \in Date, n \in Member : e # d \/ n # m => report'[e][n] = report[e][n]
    BY <1>0, <1>1
  <1>2. \A d \in Date, m \in Member : ReportJobs(d, m) \subseteq {j \in Jobs : j.kind # "send"}
    BY <1>0, AskingJobs DEF DayJobs, Jobs
  <1>3. ASSUME NEW j \in jobs, ReconcileJob(j)
        PROVE  Typed'
    BY <1>0, <1>3, Reconciling DEF ReconcileJob, Typed, TypeOK, RunsFirst, Pattern
  <1>4. ASSUME NEW j \in jobs, SendDmJob(j)
        PROVE  Typed'
    <2>1. j.date \in Date /\ j.who \in Member /\ run[j.date] # NoRun
      BY <1>0, <1>4, JobTypes DEF SendDmJob, Typed, RunsFirst
    <2>2. CASE report[j.date][j.who].status # "none"
      BY <1>4, <2>2 DEF SendDmJob, Typed, TypeOK, RunsFirst
    <2>3. CASE report[j.date][j.who].status = "none"
      <3> DEFINE r == Asked(report[j.date][j.who])
      <3>1. r \in Report
        BY <1>0, <2>1, AskingReports
      <3>2. report' = [report EXCEPT ![j.date][j.who] = r] /\ run' = run
        BY <1>4, <2>3 DEF SendDmJob
      <3>3. jobs' \subseteq Jobs /\ \A k \in jobs' : k.kind = "send" => k \in jobs
        BY <1>0, <1>2, <1>4, <2>1, <2>3 DEF SendDmJob
      <3> HIDE DEF r
      <3>4. /\ report' \in [Date -> [Member -> Report]]
            /\ \A e \in Date, n \in Member : e # j.date \/ n # j.who => report'[e][n] = report[e][n]
        BY <1>0, <2>1, <3>1, <3>2
      <3>5. RunsFirst'
        BY <2>1, <3>2, <3>3, <3>4 DEF Typed, RunsFirst
      <3> QED
        BY <1>4, <3>2, <3>3, <3>4, <3>5 DEF SendDmJob, Typed, TypeOK
    <2> QED
      BY <2>2, <2>3
  <1>5. ASSUME NEW j \in jobs, RetriggerJob(j)
        PROVE  Typed'
    <2> DEFINE ok == active /\ report[Today][j.who].status \in {"none", "timed_out"}
               team == IF run[Today] = NoRun THEN FanOutSends(Today, Member \ {j.who}, FALSE) ELSE {}
               r == Asked(report[Today][j.who])
    <2>1. j.who \in Member
      BY <1>0, <1>5, JobTypes DEF RetriggerJob
    <2>2. CASE ~ok
      BY <1>5, <2>2 DEF RetriggerJob, Typed, TypeOK, RunsFirst
    <2>3. CASE ok
      <3>1. /\ run' = [OpenedRun EXCEPT ![Today].status = "running"]
            /\ report' = [report EXCEPT ![Today][j.who] = r]
            /\ jobs' = (jobs \ {j}) \cup ReportJobs(Today, j.who) \cup team
        BY <1>5, <2>3 DEF RetriggerJob
      <3>2. r \in Report
        BY <1>0, <2>1, AskingReports
      <3>3. team \subseteq Jobs /\ \A k \in team : k.date = Today
        BY <1>0, FanningOut DEF DayJobs, Jobs
      <3> HIDE DEF r, team
      <3>4. /\ report' \in [Date -> [Member -> Report]]
            /\ \A e \in Date, n \in Member : e # Today \/ n # j.who => report'[e][n] = report[e][n]
        BY <1>0, <1>1, <2>1, <3>1, <3>2
      <3>5. jobs' \subseteq Jobs /\ \A k \in jobs' : k.kind = "send" => k \in jobs \/ k.date = Today
        BY <1>0, <1>2, <2>1, <3>1, <3>3
      <3>6. /\ OpenedRun \in [Date -> {NoRun} \cup RunState] /\ OpenedRun[Today] \in RunState
            /\ \A d \in Date : d # Today => OpenedRun[d] = run[d]
        BY <1>0, Opening
      <3>7. [OpenedRun[Today] EXCEPT !.status = "running"] \in RunState
        BY <3>6 DEF RunState
      <3>8. /\ run' \in [Date -> {NoRun} \cup RunState] /\ run'[Today] # NoRun
            /\ \A d \in Date : run[d] # NoRun => run'[d] # NoRun
        BY <1>0, <3>1, <3>6, <3>7, NoRunIsNone
      <3>9. RunsFirst'
        <4>1. ASSUME NEW d \in Date, NEW m \in Member, report'[d][m].status # "none"
              PROVE  run'[d] # NoRun
          BY <3>4, <3>8, <4>1 DEF Typed, RunsFirst
        <4>2. ASSUME NEW k \in jobs', k.kind = "send"
              PROVE  run'[k.date] # NoRun
          <5>1. k \in jobs => k.date \in Date
            BY <1>0, <4>2, JobTypes
          <5> QED
            BY <3>5, <3>8, <4>2, <5>1 DEF Typed, RunsFirst
        <4> QED
          BY <4>1, <4>2 DEF RunsFirst
      <3> QED
        BY <1>5, <3>4, <3>5, <3>8, <3>9 DEF RetriggerJob, Typed, TypeOK, RunState
    <2> QED
      BY <2>2, <2>3
  <1>6. ASSUME NEW j \in jobs, TimeoutJob(j)
        PROVE  Typed'
    <2> DEFINE r == report[j.date][j.who]
    <2>1. j \in DayJobs /\ j.date \in Date /\ j.who \in Member /\ r \in Report
      BY <1>0, <1>6, JobTypes DEF TimeoutJob
    <2>2. CASE r.status # "in_progress"
      BY <1>6, <2>2 DEF TimeoutJob, Typed, TypeOK, RunsFirst
    <2>3. CASE r.status = "in_progress" /\ r.due > now
      <3>1. [j EXCEPT !.at = r.due] \in Jobs /\ [j EXCEPT !.at = r.due].kind = "timeout"
        BY <1>6, <2>1, TimeAssumption DEF TimeoutJob, DayJobs, Jobs, Delayed, Report
      <3>2. jobs' \subseteq Jobs /\ \A k \in jobs' : k.kind = "send" => k \in jobs
        BY <1>0, <1>6, <2>3, <3>1 DEF TimeoutJob
      <3> QED
        BY <1>6, <2>3, <3>2 DEF TimeoutJob, Typed, TypeOK, RunsFirst
    <2>4. CASE r.status = "in_progress" /\ ~(r.due > now)
      <3> DEFINE s == Expired(r)
      <3>1. r.due \in Instant
        BY <1>0, <2>1, <2>4, TimeAssumption DEF Report, Instant
      <3>2. r.expired \cup {<<r.due, now>>} \in SUBSET (Instant \X Instant)
        BY <1>0, <2>1, <3>1 DEF Report
      <3>3. s \in Report
        BY <2>1, <3>2 DEF Expired, Report
      <3>4. /\ report' = [report EXCEPT ![j.date][j.who] = s] /\ jobs' = jobs \ {j}
            /\ run' = Finalized(j.date, report'[j.date])
        BY <1>6, <2>4 DEF TimeoutJob
      <3>5. run[j.date] # NoRun
        BY <2>1, <2>4 DEF Typed, RunsFirst
      <3> HIDE DEF s
      <3>6. /\ report' \in [Date -> [Member -> Report]]
            /\ \A e \in Date, n \in Member : e # j.date \/ n # j.who => report'[e][n] = report[e][n]
        BY <1>0, <2>1, <3>3, <3>4
      <3>7. run' \in [Date -> {NoRun} \cup RunState] /\ \A e \in Date : run'[e] # NoRun <=> run[e] # NoRun
        BY <1>0, <2>1, <3>4, <3>5, Finalizing
      <3>8. RunsFirst'
        <4>1. \A d \in Date, m \in Member : report'[d][m].status # "none" => run'[d] # NoRun
          BY <3>5, <3>6, <3>7 DEF Typed, RunsFirst
        <4>2. \A k \in jobs' : k.kind = "send" => run'[k.date] # NoRun
          BY <1>0, <3>4, <3>7, JobTypes DEF Typed, RunsFirst
        <4> QED
          BY <4>1, <4>2 DEF RunsFirst
      <3> QED
        BY <1>6, <3>4, <3>6, <3>7, <3>8 DEF TimeoutJob, Typed, TypeOK, RunState
    <2> QED
      BY <2>2, <2>3, <2>4
  <1>7. ASSUME NEW j \in jobs, RemindJob(j)
        PROVE  Typed'
    <2> DEFINE r == report[j.date][j.who]
               s == [r EXCEPT !.nudged = r.nudged \cup {<<j.at, now>>}]
    <2>1. j.date \in Date /\ j.who \in Member /\ r \in Report /\ j.at \in Nat /\ j.at <= now
      BY <1>0, <1>7, JobTypes DEF RemindJob, Serve, DueJobs
    <2>2. CASE r.status # "in_progress"
      BY <1>7, <2>2 DEF RemindJob, Typed, TypeOK, RunsFirst
    <2>3. CASE r.status = "in_progress"
      <3>1. j.at \in Instant
        BY <1>0, <2>1, TimeAssumption DEF Instant
      <3>2. r.nudged \cup {<<j.at, now>>} \in SUBSET (Instant \X Instant)
        BY <1>0, <2>1, <3>1 DEF Report
      <3>3. s \in Report /\ s.status = r.status
        BY <2>1, <3>2 DEF Report
      <3>4. report' = [report EXCEPT ![j.date][j.who].nudged = @ \cup {<<j.at, now>>}]
        BY <1>7, <2>3 DEF RemindJob
      <3>5. /\ report' \in [Date -> [Member -> Report]] /\ report'[j.date][j.who] = s
            /\ \A e \in Date, n \in Member : e # j.date \/ n # j.who => report'[e][n] = report[e][n]
        BY <1>0, <2>1, <3>3, <3>4
      <3>6. \A e \in Date, n \in Member : report'[e][n].status = report[e][n].status
        BY <3>3, <3>5
      <3>7. jobs' \subseteq jobs /\ run' = run
        BY <1>7 DEF RemindJob
      <3>8. RunsFirst'
        BY <3>6, <3>7 DEF Typed, RunsFirst
      <3> QED
        BY <1>7, <3>5, <3>7, <3>8 DEF RemindJob, Typed, TypeOK
    <2> QED
      BY <2>2, <2>3
  <1> QED
    BY <1>3, <1>4, <1>5, <1>6, <1>7

LEMMA MemberSteps ==
    ASSUME Typed, NEW m \in Member, NEW d \in Date,
           Reply(m, d) \/ \E s \in {"completed", "timed_out"} : Close(m, d, s)
    PROVE  Typed'
  <1> USE DEF clockVars, webVars, reportVars
  <1>1. report[d][m] \in Report /\ run[d] # NoRun /\ report[d][m].status = "in_progress"
    BY DEF Reply, Close, Newest, Open, Typed, TypeOK, RunsFirst
  <1>2. left' \in [Event -> Nat]
    BY DEF Reply, Close, Spend, Event, Typed, TypeOK
  <1>3. now + Timeout \in 0..(Horizon + Timeout)
    BY TimeAssumption DEF Typed, TypeOK, Instant
  <1>4. CASE Reply(m, d)
    <2>1. [report[d][m] EXCEPT !.due = now + Timeout] \in Report
      BY <1>1, <1>3 DEF Report
    <2>2. /\ report' \in [Date -> [Member -> Report]]
          /\ \A e \in Date, n \in Member : report'[e][n].status = report[e][n].status
      BY <1>1, <1>4, <2>1 DEF Reply, Typed, TypeOK, Report
    <2> QED
      BY <1>2, <1>4, <2>2 DEF Reply, Typed, TypeOK, RunsFirst
  <1>5. ASSUME NEW s \in {"completed", "timed_out"}, Close(m, d, s)
        PROVE  Typed'
    <2>1. [report[d][m] EXCEPT !.status = s] \in Report
      BY <1>1 DEF Report
    <2>2. /\ report' \in [Date -> [Member -> Report]]
          /\ \A e \in Date, n \in Member : e # d \/ n # m => report'[e][n] = report[e][n]
      BY <1>1, <1>5, <2>1 DEF Close, Typed, TypeOK
    <2>3. run' \in [Date -> {NoRun} \cup RunState] /\ \A e \in Date : run'[e] # NoRun <=> run[e] # NoRun
      BY <1>1, <1>5, Finalizing DEF Close, Typed
    <2>4. RunsFirst'
      <3>1. \A e \in Date, n \in Member : report'[e][n].status # "none" => run'[e] # NoRun
        BY <1>1, <2>2, <2>3 DEF Typed, RunsFirst
      <3>2. \A k \in jobs' : k.kind = "send" => run'[k.date] # NoRun
        BY <1>5, <2>3, JobTypes DEF Close, Typed, TypeOK, RunsFirst
      <3> QED
        BY <3>1, <3>2 DEF RunsFirst
    <2> QED
      BY <1>2, <1>5, <2>2, <2>3, <2>4 DEF Close, Typed, TypeOK, RunState
  <1> QED
    BY <1>4, <1>5

LEMMA NextTyped == Typed /\ [Next]_vars => Typed'
  <1> SUFFICES ASSUME Typed, [Next]_vars PROVE Typed'
    OBVIOUS
  <1>1. CASE UNCHANGED vars
    BY <1>1 DEF vars, clockVars, webVars, reportVars, Typed, TypeOK, RunsFirst
  <1> QED
    BY <1>1, WebSteps, ClockSteps, OpeningSteps, ReportSteps, MemberSteps DEF Next, Job

(* Every variable keeps its type, and whatever is asked belongs to a run.   *)
THEOREM TypeCorrect == Spec => []TypeOK
  <1>1. Typed => TypeOK
    BY DEF Typed
  <1> QED
    BY <1>1, InitTyped, NextTyped, PTL DEF Spec

-----------------------------------------------------------------------------
(* What a step may do to the runs, to the reports and to the jobs, whatever *)
(* action it is of.                                                         *)

\* The instant at which m is due to be asked, by today's schedule.
SendTime(m) == SendInstant(plan, IF Home[m] = NoZone THEN plan.tz ELSE Home[m], Today)

Opened == [status |-> "running", at |-> now, plan |-> plan]

\* Somebody has asked for what is being done.
ByHand == \E j \in jobs : j.kind \in {"force", "retrigger"} /\ j.at <= now

\* After the step the run of date d waits for somebody.
Waits(d) == \E m \in Member : report'[d][m].status = "in_progress"

RunMoved(d) ==
    \/ run'[d] = run[d]
    \/ /\ run[d] = NoRun /\ run'[d] = Opened /\ d = Today
       /\ IsActiveWeekday(plan, now) \/ ByHand
       /\ \A m \in Member :
             \/ report'[d][m].status # "none"
             \/ \E j \in jobs' : /\ j.kind = "send" /\ j.date = d /\ j.who = m
                                 /\ j.at = now \/ j.at = Larger(now, SendTime(m))
    \/ /\ run[d] # NoRun /\ run'[d] \in RunState
       /\ run'[d].at = run[d].at /\ run'[d].plan = run[d].plan
       /\ run'[d].status = "completed" \/ Waits(d)

AskedFor(d, m) ==
    \E j \in jobs : /\ j.at <= now
                    /\ \/ j.kind = "send" /\ j.date = d /\ j.who = m
                       \/ j.kind = "retrigger"

ReportMoved(d, m) ==
    LET r == report[d][m]
        s == report'[d][m]
    IN  \/ s = r
        \/ /\ r.status \in {"none", "timed_out"} /\ s = Asked(r)
           /\ ReportJobs(d, m) \subseteq jobs' /\ AskedFor(d, m)
        \/ /\ r.status = "in_progress" /\ run[d] # NoRun
           /\ \/ /\ r.due <= now /\ s = Expired(r)
                 /\ run'[d].status = "completed" \/ Waits(d)
              \/ /\ \E x \in {"completed", "timed_out"} : s = [r EXCEPT !.status = x]
                 /\ run'[d].status = "completed" \/ Waits(d)
              \/ s = [r EXCEPT !.due = now + Timeout]
              \/ \E j \in jobs : /\ j.kind = "remind" /\ j.date = d /\ j.who = m /\ j.at <= now
                                 /\ s = [r EXCEPT !.nudged = @ \cup {<<j.at, now>>}]

JobGone(j) ==
    LET r == report'[j.date][j.who]
    IN  /\ j.at <= now
        /\ j.kind = "send" => r.status # "none"
        /\ j.kind = "timeout" =>
              \/ r.status # "in_progress"
              \/ \E k \in jobs' : k.kind = "timeout" /\ k.date = j.date /\ k.who = j.who /\ k.at = r.due
        /\ j.kind = "remind" => r.status # "in_progress" \/ \E p \in r.nudged : p[1] = j.at

JobCame(j) ==
    /\ now <= j.at
    /\ j.kind \in {"reconcile", "force", "retrigger"} => j.at = now
    /\ j.kind \in {"force", "retrigger"} => now \in pokes'
    /\ j.kind = "send" =>
          \/ run'[j.date] # NoRun /\ j.at = now /\ ByHand
          \/ run[j.date] = NoRun /\ run'[j.date] = Opened /\ j.date = Today /\ j.at = Larger(now, SendTime(j.who))
    /\ j.kind = "remind" => j.at \in Reminders(report'[j.date][j.who])

Moved ==
    /\ now' = now /\ dark' = dark /\ pokes \subseteq pokes'
    /\ \A d \in Date : RunMoved(d)
    /\ \A d \in Date, m \in Member : ReportMoved(d, m)
    /\ \A j \in jobs \ jobs' : JobGone(j)
    /\ \A j \in jobs' \ jobs : JobCame(j)

LEMMA FanOutTimes ==
    ASSUME TypeOK, NEW people \in SUBSET Member, NEW immediate \in BOOLEAN
    PROVE  /\ \A j \in FanOutSends(Today, people, immediate) :
                 /\ j.kind = "send" /\ j.date = Today /\ j.who \in people /\ now <= j.at
                 /\ j.at = IF immediate THEN now ELSE Larger(now, SendTime(j.who))
           /\ \A m \in people : \E j \in FanOutSends(Today, people, immediate) : j.who = m
  <1> DEFINE at(m) == IF immediate THEN now ELSE Larger(now, SendTime(m))
  <1>1. FanOutSends(Today, people, immediate) = {DayJob("send", Today, m, at(m)) : m \in people}
    BY DEF FanOutSends, SendTime
  <1>2. ASSUME NEW m \in people
        PROVE  /\ DayJob("send", Today, m, at(m)).kind = "send"
               /\ DayJob("send", Today, m, at(m)).date = Today
               /\ DayJob("send", Today, m, at(m)).who = m
               /\ DayJob("send", Today, m, at(m)).at = at(m)
    BY DEF DayJob
  <1>3. \A j \in FanOutSends(Today, people, immediate) : now <= j.at
    BY FanningOut
  <1> QED
    BY <1>1, <1>2, <1>3

LEMMA OpeningMoves ==
    ASSUME Typed, TickJob \/ \E j \in jobs : ForceJob(j)
    PROVE  Moved
  <1> USE DEF clockVars, webVars, reportVars
  <1>0. TypeOK /\ Today \in Date /\ now \in Nat /\ run \in [Date -> {NoRun} \cup RunState]
    BY TodayIsADate DEF Typed, TypeOK, RunState
  <1>1. ASSUME NEW force \in BOOLEAN, NEW others \in SUBSET jobs, OpenRun(force, others),
               IF force THEN \E j \in jobs : j.kind = "force" /\ j.at <= now /\ others = jobs \ {j}
                        ELSE others = jobs,
               UNCHANGED <<now, dark, pokes, report>>
        PROVE  Moved
    <2>1. \A d \in Date, m \in Member : ReportMoved(d, m)
      BY <1>1 DEF ReportMoved
    <2>2. \A j \in jobs \ others : j.kind = "force" /\ j.at <= now
      BY <1>1
    <2>3. \A j \in jobs \ jobs' : JobGone(j)
      BY <1>1, <2>2 DEF OpenRun, JobGone
    <2>4. force => ByHand
      BY <1>1 DEF ByHand
    <2>5. CASE run' = run /\ jobs' = others
      BY <1>1, <2>1, <2>3, <2>5 DEF RunMoved, Moved
    <2>6. CASE /\ force \/ IsActiveWeekday(plan, now)
               /\ force \/ run[Today] = NoRun
               /\ run' = OpenedRun /\ jobs' = others \cup FanOutSends(Today, Member, force)
      <3>1. /\ \A d \in Date : d # Today => OpenedRun[d] = run[d]
            /\ run[Today] # NoRun => OpenedRun = run
            /\ run[Today] = NoRun => OpenedRun[Today] = Opened
            /\ OpenedRun[Today] # NoRun
        BY <1>0, Opening, NoRunIsNone DEF Opened
      <3>2. /\ \A j \in FanOutSends(Today, Member, force) :
                  /\ j.kind = "send" /\ j.date = Today /\ j.who \in Member /\ now <= j.at
                  /\ j.at = IF force THEN now ELSE Larger(now, SendTime(j.who))
            /\ \A m \in Member : \E j \in FanOutSends(Today, Member, force) : j.who = m
        BY <1>0, FanOutTimes
      <3>3. \A d \in Date : RunMoved(d)
        BY <2>4, <2>6, <3>1, <3>2 DEF RunMoved
      <3>4. \A j \in jobs' \ jobs : JobCame(j)
        BY <2>4, <2>6, <3>1, <3>2 DEF JobCame
      <3> QED
        BY <1>1, <2>1, <2>3, <3>3, <3>4 DEF Moved
    <2> QED
      BY <1>1, <2>5, <2>6 DEF OpenRun
  <1>2. CASE TickJob
    BY <1>1, <1>2 DEF TickJob
  <1>3. ASSUME NEW j \in jobs, ForceJob(j)
        PROVE  Moved
    BY <1>1, <1>3 DEF ForceJob, Serve, DueJobs
  <1> QED
    BY <1>2, <1>3

LEMMA QuietMoves ==
    ASSUME Typed,
           \/ Boot \/ Stop
           \/ \E w \in Weekly, sendNow \in BOOLEAN : SaveStandup(w, sendNow)
           \/ ToggleActive \/ TriggerNow
           \/ \E j \in jobs : ReconcileJob(j)
           \/ \E m \in Member : Keyword(m)
    PROVE  Moved
  <1> USE DEF clockVars, webVars, reportVars
  <1>0. now \in Nat
    BY TodayIsADate DEF Typed
  <1>1. UNCHANGED <<now, dark, run, report>> /\ pokes \subseteq pokes'
    BY DEF Boot, Stop, SaveStandup, ToggleActive, TriggerNow, ReconcileJob, Keyword
  <1>2. \A j \in jobs \ jobs' : j.kind = "reconcile" /\ j.at <= now
    BY DEF Boot, Stop, SaveStandup, ToggleActive, TriggerNow, ReconcileJob, Keyword, Serve, DueJobs
  <1>3. \A j \in jobs' \ jobs : /\ j.kind \in {"reconcile", "force", "retrigger"} /\ j.at = now
                                /\ j.kind \in {"force", "retrigger"} => now \in pokes'
    BY DEF Boot, Stop, SaveStandup, ToggleActive, TriggerNow, ReconcileJob, Keyword, TeamJob, MemberJob
  <1>4. (\A d \in Date : RunMoved(d)) /\ \A d \in Date, m \in Member : ReportMoved(d, m)
    BY <1>1 DEF RunMoved, ReportMoved
  <1>5. (\A j \in jobs \ jobs' : JobGone(j)) /\ \A j \in jobs' \ jobs : JobCame(j)
    BY <1>0, <1>2, <1>3 DEF JobGone, JobCame
  <1> QED
    BY <1>1, <1>4, <1>5 DEF Moved

LEMMA AskingMoves ==
    ASSUME TypeOK, NEW d \in Date, NEW m \in Member
    PROVE  \A j \in ReportJobs(d, m) :
              /\ now <= j.at /\ j.kind \in {"timeout", "remind"} /\ j.date = d /\ j.who = m
              /\ j.kind = "remind" => j.at \in Reminders(Asked(report[d][m]))
  <1> DEFINE a == [at |-> now, every |-> plan.every]
  <1>1. now \in Nat /\ plan.every \in Nat /\ Timeout \in Nat /\ Timeout > 0
    BY TodayIsADate, TimeAssumption
  <1>2. a \in Asked(report[d][m]).asks
    <2>1. report[d][m] \in Report
      BY DEF TypeOK
    <2> QED
      BY <2>1 DEF Asked, Report
  <1>3. ASSUME NEW t \in ReminderDelays(plan.every, Timeout)
        PROVE  now + t \in Reminders(Asked(report[d][m]))
    <2>1. plan.every > 0 /\ t \in 1..(Timeout - 1) /\ t % plan.every = 0
      BY <1>1, <1>3 DEF ReminderDelays
    <2>2. a.at = now /\ a.every = plan.every
      OBVIOUS
    <2> HIDE DEF a
    <2>3. a \in {b \in Asked(report[d][m]).asks : b.every > 0} /\ t \in {k \in 1..(Timeout - 1) : k % a.every = 0}
      BY <1>2, <2>1, <2>2
    <2>4. now + t \in {a.at + k : k \in {k \in 1..(Timeout - 1) : k % a.every = 0}}
      BY <2>2, <2>3
    <2> QED
      BY <2>3, <2>4 DEF Reminders
  <1> HIDE DEF a
  <1>4. \A j \in ReportJobs(d, m) : now <= j.at
    BY <1>1, AskingJobs DEF DayJobs
  <1> QED
    BY <1>3, <1>4 DEF ReportJobs, DayJob

LEMMA SendDmMoves ==
    ASSUME Typed, NEW j \in jobs, SendDmJob(j)
    PROVE  Moved
  <1> USE DEF clockVars, webVars, reportVars
  <1> DEFINE r == report[j.date][j.who]
  <1>0. TypeOK /\ report \in [Date -> [Member -> Report]]
    BY DEF Typed, TypeOK
  <1>1. j.date \in Date /\ j.who \in Member /\ j.at <= now /\ j.kind = "send"
    BY <1>0, JobTypes DEF SendDmJob, Serve, DueJobs, TypeOK
  <1>2. UNCHANGED <<now, dark, pokes, run>> /\ \A d \in Date : RunMoved(d)
    BY DEF SendDmJob, RunMoved
  <1>3. CASE r.status # "none"
    <2>1. report' = report /\ jobs' = jobs \ {j}
      BY <1>3 DEF SendDmJob
    <2> QED
      BY <1>1, <1>2, <1>3, <2>1 DEF Moved, ReportMoved, JobGone
  <1>4. CASE r.status = "none"
    <2>1. /\ report' = [report EXCEPT ![j.date][j.who] = Asked(r)]
          /\ jobs' = (jobs \ {j}) \cup ReportJobs(j.date, j.who)
      BY <1>4 DEF SendDmJob
    <2>2. /\ report'[j.date][j.who] = Asked(r)
          /\ \A d \in Date, m \in Member : d # j.date \/ m # j.who => report'[d][m] = report[d][m]
      BY <1>0, <1>1, <2>1
    <2>3. Asked(r).status = "in_progress"
      BY <1>0, <1>1, AskingReports
    <2>4. \A d \in Date, m \in Member : ReportMoved(d, m)
      BY <1>1, <1>4, <2>1, <2>2 DEF ReportMoved, AskedFor
    <2>5. \A k \in jobs \ jobs' : JobGone(k)
      BY <1>1, <2>1, <2>2, <2>3 DEF JobGone
    <2>6. \A k \in jobs' \ jobs : JobCame(k)
      <3>1. \A k \in jobs' \ jobs : k \in ReportJobs(j.date, j.who)
        BY <2>1
      <3> QED
        BY <1>0, <1>1, <2>2, <3>1, AskingMoves DEF JobCame
    <2> QED
      BY <1>2, <2>4, <2>5, <2>6 DEF Moved
  <1> QED
    BY <1>3, <1>4

LEMMA RetriggerMoves ==
    ASSUME Typed, NEW j \in jobs, RetriggerJob(j)
    PROVE  Moved
  <1> USE DEF clockVars, webVars, reportVars
  <1> DEFINE r == report[Today][j.who]
             ok == active /\ r.status \in {"none", "timed_out"}
             team == IF run[Today] = NoRun THEN FanOutSends(Today, Member \ {j.who}, FALSE) ELSE {}
  <1>0. /\ TypeOK /\ report \in [Date -> [Member -> Report]] /\ Today \in Date /\ now \in Nat
        /\ run \in [Date -> {NoRun} \cup RunState]
    BY TodayIsADate DEF Typed, TypeOK, RunState
  <1>1. j.who \in Member /\ j.at <= now /\ j.kind = "retrigger"
    BY <1>0, JobTypes DEF RetriggerJob, Serve, DueJobs, TypeOK
  <1>2. UNCHANGED <<now, dark, pokes>> /\ ByHand
    BY <1>1 DEF RetriggerJob, ByHand
  <1>3. CASE ~ok
    <2>1. report' = report /\ run' = run /\ jobs' = jobs \ {j}
      BY <1>3 DEF RetriggerJob
    <2> QED
      BY <1>1, <1>2, <2>1 DEF Moved, RunMoved, ReportMoved, JobGone
  <1>4. CASE ok
    <2>1. /\ run' = [OpenedRun EXCEPT ![Today].status = "running"]
          /\ report' = [report EXCEPT ![Today][j.who] = Asked(r)]
          /\ jobs' = (jobs \ {j}) \cup ReportJobs(Today, j.who) \cup team
      BY <1>4 DEF RetriggerJob
    <2>2. /\ report'[Today][j.who] = Asked(r)
          /\ \A d \in Date, m \in Member : d # Today \/ m # j.who => report'[d][m] = report[d][m]
      BY <1>0, <1>1, <2>1
    <2>3. Asked(r).status = "in_progress"
      BY <1>0, <1>1, AskingReports
    <2>4. \A d \in Date, m \in Member : ReportMoved(d, m)
      <3>1. ReportJobs(Today, j.who) \subseteq jobs' /\ AskedFor(Today, j.who)
        BY <1>1, <2>1 DEF AskedFor
      <3>2. ReportMoved(Today, j.who)
        BY <1>4, <2>2, <3>1 DEF ReportMoved
      <3>3. \A d \in Date, m \in Member : d # Today \/ m # j.who => ReportMoved(d, m)
        BY <2>2 DEF ReportMoved
      <3> QED
        BY <3>2, <3>3
    <2>5. \A k \in jobs \ jobs' : JobGone(k)
      BY <1>1, <2>1 DEF JobGone
    <2>6. /\ \A k \in team : /\ k.kind = "send" /\ k.date = Today /\ now <= k.at /\ run[Today] = NoRun
                             /\ k.at = Larger(now, SendTime(k.who))
          /\ run[Today] = NoRun => \A m \in Member \ {j.who} : \E k \in team : k.who = m
      BY <1>0, FanOutTimes
    <2> HIDE DEF team
    <2>7. /\ OpenedRun \in [Date -> {NoRun} \cup RunState] /\ OpenedRun[Today] \in RunState
          /\ \A d \in Date : d # Today => OpenedRun[d] = run[d]
          /\ run[Today] # NoRun => OpenedRun[Today] = run[Today]
          /\ run[Today] = NoRun => OpenedRun[Today] = Opened
      BY <1>0, Opening DEF Opened
    <2>8. /\ \A d \in Date : d # Today => run'[d] = run[d]
          /\ run'[Today] = [OpenedRun[Today] EXCEPT !.status = "running"]
      BY <1>0, <2>1, <2>7
    <2>9. run[Today] = NoRun => run'[Today] = Opened
      BY <2>7, <2>8 DEF Opened
    <2>10. run[Today] # NoRun => /\ run'[Today] \in RunState
                                 /\ run'[Today].at = run[Today].at /\ run'[Today].plan = run[Today].plan
      BY <2>7, <2>8 DEF RunState
    <2>11. Waits(Today)
      BY <1>1, <2>2, <2>3 DEF Waits
    <2>12. RunMoved(Today)
      <3>1. CASE run[Today] = NoRun
        <4>1. \A m \in Member : \/ report'[Today][m].status # "none"
                                \/ \E k \in jobs' : /\ k.kind = "send" /\ k.date = Today /\ k.who = m
                                                    /\ k.at = now \/ k.at = Larger(now, SendTime(m))
          BY <2>1, <2>2, <2>3, <2>6, <3>1
        <4> QED
          BY <1>2, <2>9, <3>1, <4>1 DEF RunMoved
      <3>2. CASE run[Today] # NoRun
        BY <2>10, <2>11, <3>2 DEF RunMoved
      <3> QED
        BY <3>1, <3>2
    <2>13. \A d \in Date : RunMoved(d)
      <3>1. ASSUME NEW d \in Date, d # Today
            PROVE  RunMoved(d)
        BY <2>8, <3>1 DEF RunMoved
      <3> QED
        BY <2>12, <3>1
    <2>14. \A k \in jobs' \ jobs : JobCame(k)
      <3>1. \A k \in ReportJobs(Today, j.who) : JobCame(k)
        BY <1>0, <1>1, <2>2, AskingMoves DEF JobCame
      <3>2. \A k \in team : JobCame(k)
        BY <2>6, <2>9 DEF JobCame
      <3> QED
        BY <2>1, <3>1, <3>2
    <2> QED
      BY <1>2, <2>4, <2>5, <2>13, <2>14 DEF Moved
  <1> QED
    BY <1>3, <1>4

LEMMA FinalizingMoves ==
    ASSUME TypeOK, NEW d \in Date, run[d] # NoRun, run' = Finalized(d, report'[d])
    PROVE  /\ \A e \in Date : RunMoved(e)
           /\ run'[d].status = "completed" \/ Waits(d)
  <1>1. run \in [Date -> {NoRun} \cup RunState] /\ run[d] \in RunState
    BY DEF TypeOK, RunState
  <1>2. CASE \A m \in Member : report'[d][m].status # "in_progress"
    <2>1. run' = [run EXCEPT ![d].status = "completed"]
      BY <1>2 DEF Finalized
    <2>2. /\ run'[d] = [run[d] EXCEPT !.status = "completed"]
          /\ \A e \in Date : e # d => run'[e] = run[e]
      BY <1>1, <2>1
    <2>3. /\ run'[d] \in RunState /\ run'[d].status = "completed"
          /\ run'[d].at = run[d].at /\ run'[d].plan = run[d].plan
      BY <1>1, <2>2 DEF RunState
    <2>4. \A e \in Date : RunMoved(e)
      <3>1. RunMoved(d)
        BY <2>3 DEF RunMoved
      <3>2. \A e \in Date : e # d => RunMoved(e)
        BY <2>2 DEF RunMoved
      <3> QED
        BY <3>1, <3>2
    <2> QED
      BY <2>3, <2>4
  <1>3. CASE ~\A m \in Member : report'[d][m].status # "in_progress"
    <2>1. run' = run
      BY <1>3 DEF Finalized
    <2> QED
      BY <1>3, <2>1 DEF RunMoved, Waits
  <1> QED
    BY <1>2, <1>3

LEMMA TimeoutMoves ==
    ASSUME Typed, NEW j \in jobs, TimeoutJob(j)
    PROVE  Moved
  <1> USE DEF clockVars, webVars, reportVars
  <1> DEFINE r == report[j.date][j.who]
  <1>0. TypeOK /\ report \in [Date -> [Member -> Report]] /\ now \in Nat
    BY TodayIsADate DEF Typed, TypeOK
  <1>1. /\ j \in DayJobs /\ j.date \in Date /\ j.who \in Member /\ j.at <= now /\ j.kind = "timeout"
        /\ r \in Report /\ r.due \in Nat
    <2>1. j \in DayJobs /\ j.date \in Date /\ j.who \in Member /\ j.at <= now /\ j.kind = "timeout"
      BY <1>0, JobTypes DEF TimeoutJob, Serve, DueJobs, TypeOK
    <2>2. r \in Report
      BY <1>0, <2>1
    <2> QED
      BY <2>1, <2>2, TimeAssumption DEF Report
  <1>2. UNCHANGED <<now, dark, pokes>>
    BY DEF TimeoutJob
  <1>3. CASE r.status # "in_progress"
    <2>1. report' = report /\ run' = run /\ jobs' = jobs \ {j}
      BY <1>3 DEF TimeoutJob
    <2> QED
      BY <1>1, <1>2, <1>3, <2>1 DEF Moved, RunMoved, ReportMoved, JobGone
  <1>4. CASE r.status = "in_progress" /\ r.due > now
    <2> DEFINE later == [j EXCEPT !.at = r.due]
    <2>1. report' = report /\ run' = run /\ jobs' = (jobs \ {j}) \cup {later}
      BY <1>4 DEF TimeoutJob
    <2>2. later.kind = "timeout" /\ later.at = r.due /\ later.date = j.date /\ later.who = j.who
      BY <1>1 DEF DayJobs
    <2> HIDE DEF later
    <2>3. JobGone(j)
      BY <1>1, <2>1, <2>2 DEF JobGone
    <2>4. JobCame(later)
      BY <1>0, <1>1, <1>4, <2>2 DEF JobCame
    <2> QED
      BY <1>2, <2>1, <2>3, <2>4 DEF Moved, RunMoved, ReportMoved
  <1>5. CASE r.status = "in_progress" /\ ~(r.due > now)
    <2>1. /\ report' = [report EXCEPT ![j.date][j.who] = Expired(r)]
          /\ jobs' = jobs \ {j} /\ run' = Finalized(j.date, report'[j.date])
      BY <1>5 DEF TimeoutJob
    <2>2. /\ report'[j.date][j.who] = Expired(r)
          /\ \A d \in Date, m \in Member : d # j.date \/ m # j.who => report'[d][m] = report[d][m]
      BY <1>0, <1>1, <2>1
    <2>3. Expired(r).status = "timed_out" /\ r.due <= now
      BY <1>0, <1>1, <1>5 DEF Expired, Report
    <2>4. run[j.date] # NoRun
      BY <1>1, <1>5 DEF Typed, RunsFirst
    <2>5. (\A d \in Date : RunMoved(d)) /\ (run'[j.date].status = "completed" \/ Waits(j.date))
      BY <1>0, <1>1, <2>1, <2>4, FinalizingMoves
    <2>6. ReportMoved(j.date, j.who)
      BY <1>5, <2>2, <2>3, <2>4, <2>5 DEF ReportMoved
    <2>7. \A d \in Date, m \in Member : ReportMoved(d, m)
      <3>1. \A d \in Date, m \in Member : d # j.date \/ m # j.who => ReportMoved(d, m)
        BY <2>2 DEF ReportMoved
      <3> QED
        BY <2>6, <3>1
    <2>8. JobGone(j)
      BY <1>1, <2>2, <2>3 DEF JobGone
    <2> QED
      BY <1>2, <2>1, <2>5, <2>7, <2>8 DEF Moved
  <1> QED
    BY <1>3, <1>4, <1>5

LEMMA RemindMoves ==
    ASSUME Typed, NEW j \in jobs, RemindJob(j)
    PROVE  Moved
  <1> USE DEF clockVars, webVars, reportVars
  <1> DEFINE r == report[j.date][j.who]
             s == [r EXCEPT !.nudged = r.nudged \cup {<<j.at, now>>}]
  <1>0. TypeOK /\ report \in [Date -> [Member -> Report]]
    BY DEF Typed, TypeOK
  <1>1. j.date \in Date /\ j.who \in Member /\ j.at <= now /\ j.kind = "remind" /\ r \in Report
    BY <1>0, JobTypes DEF RemindJob, Serve, DueJobs, TypeOK
  <1>2. UNCHANGED <<now, dark, pokes, run>> /\ jobs' = jobs \ {j} /\ \A d \in Date : RunMoved(d)
    BY DEF RemindJob, RunMoved
  <1>3. CASE r.status # "in_progress"
    <2>1. report' = report
      BY <1>3 DEF RemindJob
    <2> QED
      BY <1>1, <1>2, <1>3, <2>1 DEF Moved, ReportMoved, JobGone
  <1>4. CASE r.status = "in_progress"
    <2>1. report' = [report EXCEPT ![j.date][j.who].nudged = @ \cup {<<j.at, now>>}]
      BY <1>4 DEF RemindJob
    <2>2. /\ report'[j.date][j.who] = s
          /\ \A d \in Date, m \in Member : d # j.date \/ m # j.who => report'[d][m] = report[d][m]
      BY <1>0, <1>1, <2>1
    <2>3. s.nudged = r.nudged \cup {<<j.at, now>>}
      BY <1>1 DEF Report
    <2>4. run[j.date] # NoRun
      BY <1>1, <1>4 DEF Typed, RunsFirst
    <2>5. ReportMoved(j.date, j.who)
      <3> DEFINE moved == /\ j.kind = "remind" /\ j.date = j.date /\ j.who = j.who /\ j.at <= now
                          /\ report'[j.date][j.who] = [r EXCEPT !.nudged = @ \cup {<<j.at, now>>}]
      <3>1. moved
        BY <1>1, <2>2
      <3> QED
        BY <1>4, <2>4, <3>1 DEF ReportMoved
    <2>6. \A d \in Date, m \in Member : ReportMoved(d, m)
      <3>1. \A d \in Date, m \in Member : d # j.date \/ m # j.who => ReportMoved(d, m)
        BY <2>2 DEF ReportMoved
      <3> QED
        BY <2>5, <3>1
    <2>7. JobGone(j)
      <3>1. <<j.at, now>> \in report'[j.date][j.who].nudged
        BY <2>2, <2>3
      <3> QED
        BY <1>1, <3>1 DEF JobGone
    <2> QED
      BY <1>2, <2>6, <2>7 DEF Moved
  <1> QED
    BY <1>3, <1>4

LEMMA MemberMoves ==
    ASSUME Typed, NEW m \in Member, NEW d \in Date,
           Reply(m, d) \/ \E s \in {"completed", "timed_out"} : Close(m, d, s)
    PROVE  Moved
  <1> USE DEF clockVars, webVars, reportVars
  <1> DEFINE r == report[d][m]
  <1>1. /\ TypeOK /\ r \in Report /\ run[d] # NoRun /\ r.status = "in_progress"
        /\ report \in [Date -> [Member -> Report]]
    BY DEF Reply, Close, Newest, Open, Typed, TypeOK, RunsFirst
  <1>2. UNCHANGED <<now, dark, pokes, jobs>>
    BY DEF Reply, Close
  <1>3. CASE Reply(m, d)
    <2>1. report' = [report EXCEPT ![d][m].due = now + Timeout] /\ run' = run
      BY <1>3 DEF Reply
    <2>2. /\ report'[d][m] = [r EXCEPT !.due = now + Timeout]
          /\ \A e \in Date, n \in Member : e # d \/ n # m => report'[e][n] = report[e][n]
      BY <1>1, <2>1
    <2>3. ReportMoved(d, m)
      BY <1>1, <2>2 DEF ReportMoved
    <2>4. \A e \in Date, n \in Member : e # d \/ n # m => ReportMoved(e, n)
      BY <2>2 DEF ReportMoved
    <2>5. \A e \in Date, n \in Member : ReportMoved(e, n)
      BY <2>3, <2>4
    <2> QED
      BY <1>2, <2>1, <2>5 DEF Moved, RunMoved
  <1>4. ASSUME NEW s \in {"completed", "timed_out"}, Close(m, d, s)
        PROVE  Moved
    <2>1. report' = [report EXCEPT ![d][m].status = s] /\ run' = Finalized(d, report'[d])
      BY <1>4 DEF Close
    <2>2. /\ report'[d][m] = [r EXCEPT !.status = s]
          /\ \A e \in Date, n \in Member : e # d \/ n # m => report'[e][n] = report[e][n]
      BY <1>1, <2>1
    <2>3. (\A e \in Date : RunMoved(e)) /\ (run'[d].status = "completed" \/ Waits(d))
      BY <1>1, <2>1, FinalizingMoves
    <2>4. ReportMoved(d, m)
      BY <1>1, <2>2, <2>3 DEF ReportMoved
    <2>5. \A e \in Date, n \in Member : ReportMoved(e, n)
      <3>1. \A e \in Date, n \in Member : e # d \/ n # m => ReportMoved(e, n)
        BY <2>2 DEF ReportMoved
      <3> QED
        BY <2>4, <3>1
    <2> QED
      BY <1>2, <2>3, <2>5 DEF Moved
  <1> QED
    BY <1>3, <1>4

(* Time passes, or it stands still and the step is one of the above.        *)
LEMMA Steps ==
    ASSUME Typed, [Next]_vars
    PROVE  Advance \/ Moved
  <1>1. CASE UNCHANGED vars
    BY <1>1 DEF vars, clockVars, webVars, reportVars, Moved, RunMoved, ReportMoved
  <1> QED
    BY <1>1, QuietMoves, OpeningMoves, SendDmMoves, RetriggerMoves, TimeoutMoves, RemindMoves, MemberMoves
       DEF Next, Job

-----------------------------------------------------------------------------
(* When a member is to be asked, in closed form. *)

ZoneOf(q, m) == IF Home[m] = NoZone THEN q.plan.tz ELSE Home[m]

WakeTime(q, m, d) ==
    Min({t \in q.at..(Horizon + 3 * Day) : Local(ZoneOf(q, m), t) >= d * Day + q.plan.slot})

LEMMA Waking ==
    ASSUME NEW q \in RunState, NEW m \in Member, NEW d \in Date, d = AnchorDate(q.plan.tz, q.at)
    PROVE  /\ WakeTime(q, m, d) = Larger(q.at, SendInstant(q.plan, ZoneOf(q, m), d))
           /\ WakeTime(q, m, d) \in Nat /\ q.at <= WakeTime(q, m, d)
  <1> DEFINE z == ZoneOf(q, m)
             s == SendInstant(q.plan, z, d)
             t0 == Larger(q.at, s)
             T == {t \in q.at..(Horizon + 3 * Day) : Local(z, t) >= d * Day + q.plan.slot}
  <1>1. /\ q.at \in Nat /\ q.at <= Horizon /\ Horizon \in Nat
        /\ q.plan.tz \in Zone /\ q.plan.slot \in Nat /\ q.plan.slot < Day
    <2>1. q.plan \in Plan /\ q.at \in Instant
      BY DEF RunState
    <2> QED
      BY <2>1, Parsing, TimeAssumption, DayLength DEF Instant
  <1>2. z \in Zone
    BY <1>1, HomeAssumption DEF ZoneOf
  <1>3. Offset[z] \in Nat /\ Offset[q.plan.tz] \in Nat /\ Offset[q.plan.tz] <= 2 * Day
    BY <1>1, <1>2, Zones
  <1>4. d * Day \in Int /\ d * Day <= q.at + Offset[q.plan.tz]
    <2> DEFINE n == q.at + Offset[q.plan.tz]
    <2>1. n \in Int /\ d = n \div Day
      BY <1>1, <1>3 DEF AnchorDate, Local
    <2> HIDE DEF n
    <2>2. d \in Int /\ d * Day <= n
      BY <2>1, Division
    <2>3. d * Day \in Int
      BY <2>2, DaysInOrder
    <2> QED
      BY <2>2, <2>3 DEF n
  <1> HIDE DEF z
  <1>5. s = d * Day + q.plan.slot - Offset[z]
    BY DEF SendInstant
  <1>6. s \in Int /\ s <= Horizon + 3 * Day
    BY <1>1, <1>3, <1>4, <1>5, DayLength
  <1>7. \A t \in Nat : Local(z, t) >= d * Day + q.plan.slot <=> s <= t
    BY <1>1, <1>3, <1>4, <1>5 DEF Local
  <1> HIDE DEF s
  <1>8. t0 \in Nat /\ q.at <= t0 /\ s <= t0 /\ t0 <= Horizon + 3 * Day /\ t0 \in {q.at, s}
    BY <1>1, <1>6, DayLength DEF Larger
  <1>9. T \in SUBSET Nat /\ t0 \in T
    BY <1>1, <1>7, <1>8, DayLength
  <1>10. \A t \in T : t0 <= t
    BY <1>1, <1>7, <1>8
  <1>11. Min(T) = t0
    BY <1>9, <1>10, LeastIs
  <1>12. WakeTime(q, m, d) = t0
    BY <1>11 DEF WakeTime, z
  <1> QED
    BY <1>8, <1>12 DEF s, z

LEMMA WakeUps ==
    ASSUME NEW m \in Member, NEW d \in Date
    PROVE  WakeUp(m, d) = WakeTime(run[d], m, d) /\ WakeUp(m, d)' = WakeTime(run'[d], m, d)
  BY DEF WakeUp, WakeTime, ZoneOf

-----------------------------------------------------------------------------
(* Why everybody is asked in time.  A job that is due is left only for a    *)
(* worker that is down, so that a member is asked as promptly as the worker *)
(* is there; and each send is enqueued for the instant of the member's own  *)
(* clock, or because somebody asked.                                        *)

(* Jobs: one that is due waits for a worker that is down, and the ones that *)
(* somebody asked for carry the instant of the asking.                      *)
JobsServed ==
    \A j \in jobs :
       /\ j.at <= now => Unserved(j.at)
       /\ j.kind \in {"reconcile", "force", "retrigger"} => j.at <= now
       /\ j.kind \in {"force", "retrigger"} => j.at \in pokes

(* Runs: opened on the date that their schedule's clock showed, which is a  *)
(* day of the schedule unless somebody asked for the run.                   *)
RunsDated ==
    \A d \in Date : run[d] # NoRun =>
       /\ run[d].at <= now /\ d = AnchorDate(run[d].plan.tz, run[d].at)
       /\ \/ CronDow(d) \in ParseWeekdays(run[d].plan.dow)
          \/ \E t \in pokes : Prompt(t, run[d].at)

(* Called(m, d, t): the instant t is a reason to ask m for the run of d.    *)
Called(m, d, t) == \E u \in pokes \cup {WakeUp(m, d)} : Prompt(u, t)

SendsPlaced ==
    \A j \in jobs : j.kind = "send" => Called(j.who, j.date, j.at)

AsksPlaced ==
    \A d \in Date, m \in Member :
       /\ report[d][m].status = "none" <=> report[d][m].asks = {}
       /\ \A a \in report[d][m].asks : a.at <= now /\ Called(m, d, a.at)

SendsKept ==
    \A d \in Date, m \in Member : run[d] # NoRun /\ report[d][m].asks = {} =>
       \E j \in jobs : j.kind = "send" /\ j.date = d /\ j.who = m /\ j.at <= WakeUp(m, d)

Asking == Typed /\ JobsServed /\ RunsDated /\ SendsPlaced /\ AsksPlaced /\ SendsKept

LEMMA Growth ==
    ASSUME Typed, Typed', Advance \/ Moved
    PROVE  /\ now \in Nat /\ now' \in Nat /\ now <= now' /\ dark \subseteq dark' /\ pokes \subseteq pokes'
           /\ dark \subseteq Nat /\ pokes \subseteq Nat
           /\ \A d \in Date : run[d] # NoRun =>
                 /\ run[d] \in RunState /\ run'[d] \in RunState /\ run'[d] # NoRun
                 /\ run'[d].at = run[d].at /\ run'[d].plan = run[d].plan
           /\ \A d \in Date, m \in Member :
                 report[d][m] \in Report /\ report[d][m].asks \subseteq report'[d][m].asks
  <1> USE DEF clockVars, webVars, reportVars
  <1>1. now \in Nat /\ dark \subseteq Nat /\ pokes \subseteq Nat
    BY TimeAssumption DEF Typed, TypeOK, Instant
  <1>2. /\ report \in [Date -> [Member -> Report]]
        /\ \A d \in Date : run[d] # NoRun => run[d] \in RunState
        /\ \A d \in Date : run'[d] # NoRun => run'[d] \in RunState
    BY DEF Typed, TypeOK, RunState
  <1>3. CASE Advance
    BY <1>1, <1>2, <1>3 DEF Advance
  <1>4. CASE Moved
    <2>1. ASSUME NEW d \in Date, run[d] # NoRun
          PROVE  run'[d] # NoRun /\ run'[d].at = run[d].at /\ run'[d].plan = run[d].plan
      <3>1. RunMoved(d)
        BY <1>4 DEF Moved
      <3> QED
        BY <2>1, <3>1, NoRunIsNone DEF RunMoved
    <2>2. ASSUME NEW d \in Date, NEW m \in Member
          PROVE  report[d][m].asks \subseteq report'[d][m].asks
      <3>1. ReportMoved(d, m) /\ report[d][m] \in Report
        BY <1>2, <1>4 DEF Moved
      <3> DEFINE r == report[d][m]
                 s == report'[d][m]
      <3>2. CASE s = Asked(r)
        BY <3>1, <3>2 DEF Asked, Report
      <3>3. CASE s = Expired(r)
        BY <3>1, <3>3 DEF Expired, Report
      <3>4. CASE s = r \/ s = [r EXCEPT !.due = now + Timeout]
        BY <3>1, <3>4 DEF Report
      <3>5. ASSUME NEW x, s = [r EXCEPT !.status = x]
            PROVE  r.asks \subseteq s.asks
        BY <3>1, <3>5 DEF Report
      <3>6. ASSUME NEW x, s = [r EXCEPT !.nudged = @ \cup x]
            PROVE  r.asks \subseteq s.asks
        BY <3>1, <3>6 DEF Report
      <3> QED
        BY <3>1, <3>2, <3>3, <3>4, <3>5, <3>6 DEF ReportMoved
    <2> QED
      BY <1>1, <1>2, <1>4, <2>1, <2>2 DEF Moved
  <1> QED
    BY <1>3, <1>4

LEMMA JobsServedStep ==
    ASSUME Typed, Typed', JobsServed, Advance \/ Moved
    PROVE  JobsServed'
  <1> USE DEF clockVars, webVars, reportVars
  <1>1. /\ now \in Nat /\ dark \subseteq dark' /\ pokes \subseteq pokes' /\ \A j \in jobs : j.at \in Nat
        /\ \A j \in jobs' : j.at \in Nat
    BY Growth, JobTypes DEF Typed, TypeOK, Jobs
  <1>2. CASE Advance
    <2>1. ASSUME NEW j \in jobs, j.at <= now + 1
          PROVE  j.at..now \subseteq dark'
      <3>1. CASE j.at <= now
        <4>1. dark' = dark \cup {now}
          BY <1>2, <3>1 DEF Advance, DueJobs
        <4>2. j.at..(now - 1) \subseteq dark
          BY <3>1 DEF JobsServed, Unserved, Prompt
        <4> QED
          BY <1>1, <4>1, <4>2
      <3>2. CASE ~(j.at <= now)
        BY <1>1, <3>2
      <3> QED
        BY <3>1, <3>2
    <2>2. jobs' = jobs /\ now' = now + 1 /\ (now + 1) - 1 = now /\ pokes' = pokes
      BY <1>1, <1>2 DEF Advance
    <2> QED
      BY <1>1, <2>1, <2>2 DEF JobsServed, Unserved, Prompt
  <1>3. CASE Moved
    <2>1. ASSUME NEW j \in jobs' \ jobs, j.at <= now
          PROVE  j.at..(now - 1) \subseteq dark
      BY <1>1, <1>3, <2>1 DEF Moved, JobCame
    <2>2. now' = now /\ dark' = dark
      BY <1>3 DEF Moved
    <2>3. ASSUME NEW j \in jobs'
          PROVE  /\ j.at <= now' => (j.at <= now' /\ j.at..(now' - 1) \subseteq dark')
                 /\ j.kind \in {"reconcile", "force", "retrigger"} => j.at <= now'
                 /\ j.kind \in {"force", "retrigger"} => j.at \in pokes'
      <3>1. CASE j \in jobs
        BY <1>1, <2>2, <3>1 DEF JobsServed, Unserved, Prompt
      <3>2. CASE j \notin jobs
        BY <1>1, <1>3, <2>1, <2>2, <3>2 DEF Moved, JobCame
      <3> QED
        BY <3>1, <3>2
    <2> QED
      BY <2>3 DEF JobsServed, Unserved, Prompt
  <1> QED
    BY <1>2, <1>3

LEMMA RunsDatedStep ==
    ASSUME Typed, Typed', JobsServed, RunsDated, Advance \/ Moved
    PROVE  RunsDated'
  <1> USE DEF clockVars, webVars, reportVars
  <1>0. /\ now \in Nat /\ now <= now' /\ dark \subseteq dark' /\ pokes \subseteq pokes'
        /\ now' \in Nat /\ \A j \in jobs : j.at \in Nat
    BY Growth, JobTypes DEF Typed, TypeOK
  <1>1. ASSUME NEW d \in Date, run[d] # NoRun
        PROVE  /\ run'[d].at <= now' /\ d = AnchorDate(run'[d].plan.tz, run'[d].at)
               /\ \/ CronDow(d) \in ParseWeekdays(run'[d].plan.dow)
                  \/ \E t \in pokes' : t <= run'[d].at /\ t..(run'[d].at - 1) \subseteq dark'
    <2>1. run'[d].at = run[d].at /\ run'[d].plan = run[d].plan /\ run[d].at \in Nat
      BY <1>1, Growth, TimeAssumption DEF RunState, Instant
    <2>2. /\ run[d].at <= now /\ d = AnchorDate(run[d].plan.tz, run[d].at)
          /\ \/ CronDow(d) \in ParseWeekdays(run[d].plan.dow)
             \/ \E t \in pokes : t <= run[d].at /\ t..(run[d].at - 1) \subseteq dark
      BY <1>1 DEF RunsDated, Prompt
    <2>3. run'[d].at <= now'
      BY <1>0, <2>1, <2>2
    <2> QED
      BY <1>0, <2>1, <2>2, <2>3
  <1>2. ASSUME NEW d \in Date, run[d] = NoRun, run'[d] # NoRun
        PROVE  /\ run'[d].at <= now' /\ d = AnchorDate(run'[d].plan.tz, run'[d].at)
               /\ \/ CronDow(d) \in ParseWeekdays(run'[d].plan.dow)
                  \/ \E t \in pokes' : t <= run'[d].at /\ t..(run'[d].at - 1) \subseteq dark'
    <2>1. Moved
      BY <1>2 DEF Advance
    <2>2. run'[d] = Opened /\ d = Today /\ (IsActiveWeekday(plan, now) \/ ByHand) /\ now' = now
      BY <1>2, <2>1 DEF Moved, RunMoved
    <2>3. Opened.at = now /\ Opened.plan = plan
      BY DEF Opened
    <2>4. CASE IsActiveWeekday(plan, now)
      BY <1>0, <2>2, <2>3, <2>4 DEF IsActiveWeekday, Today
    <2>5. CASE ByHand
      <3>1. PICK j \in jobs : j.kind \in {"force", "retrigger"} /\ j.at <= now
        BY <2>5 DEF ByHand
      <3>2. j.at \in pokes /\ j.at..(now - 1) \subseteq dark
        BY <3>1 DEF JobsServed, Unserved, Prompt
      <3> QED
        BY <1>0, <2>2, <2>3, <3>1, <3>2 DEF Today
    <2> QED
      BY <2>2, <2>4, <2>5
  <1> QED
    BY <1>1, <1>2 DEF RunsDated, Prompt

(* The wake-up of a run that is there does not move. *)
LEMMA WakeUpsStay ==
    ASSUME Typed, Typed', RunsDated, Advance \/ Moved, NEW d \in Date, run[d] # NoRun, NEW m \in Member
    PROVE  WakeUp(m, d)' = WakeUp(m, d) /\ WakeUp(m, d) \in Nat
  <1>1. /\ run[d] \in RunState /\ run'[d] \in RunState
        /\ run'[d].at = run[d].at /\ run'[d].plan = run[d].plan
    BY Growth
  <1>2. d = AnchorDate(run[d].plan.tz, run[d].at) /\ d = AnchorDate(run'[d].plan.tz, run'[d].at)
    BY <1>1 DEF RunsDated
  <1>3. ZoneOf(run[d], m) = ZoneOf(run'[d], m)
    BY <1>1 DEF ZoneOf
  <1>4. WakeTime(run'[d], m, d) = WakeTime(run[d], m, d) /\ WakeTime(run[d], m, d) \in Nat
    BY <1>1, <1>2, <1>3, Waking
  <1> QED
    BY <1>4, WakeUps

(* A new run's wake-ups are what fanOutSends has computed. *)
LEMMA WakeUpsBegin ==
    ASSUME Typed, Typed', NEW d \in Date, d = Today, run'[d] = Opened, NEW m \in Member
    PROVE  WakeUp(m, d)' = Larger(now, SendTime(m)) /\ now <= WakeUp(m, d)' /\ WakeUp(m, d)' \in Nat
  <1>1. now \in Instant /\ plan \in Plan
    BY DEF Typed, TypeOK
  <1>2. Opened \in RunState /\ Opened.at = now /\ Opened.plan = plan
    BY <1>1 DEF Opened, RunState
  <1>3. d = AnchorDate(Opened.plan.tz, Opened.at)
    BY <1>2 DEF Today
  <1>4. SendInstant(Opened.plan, ZoneOf(Opened, m), d) = SendTime(m)
    BY <1>2 DEF ZoneOf, SendTime
  <1> QED
    BY <1>2, <1>3, <1>4, Waking, WakeUps

LEMMA Promptly ==
    ASSUME NEW D \in SUBSET Nat, NEW t \in Nat, NEW u \in Nat, NEW v \in Nat,
           t <= u, t..(u - 1) \subseteq D, u <= v, u..(v - 1) \subseteq D
    PROVE  t <= v /\ t..(v - 1) \subseteq D
  OBVIOUS

(* A reason to ask somebody stays one. *)
LEMMA CalledStays ==
    ASSUME Typed, Typed', RunsDated, Advance \/ Moved,
           NEW d \in Date, run[d] # NoRun, NEW m \in Member
    PROVE  \A t \in Nat : Called(m, d, t) =>
              \E u \in pokes' \cup {WakeUp(m, d)'} : u <= t /\ u..(t - 1) \subseteq dark'
  <1>1. /\ dark \subseteq dark' /\ pokes \subseteq pokes' /\ WakeUp(m, d)' = WakeUp(m, d)
    BY Growth, WakeUpsStay
  <1> QED
    BY <1>1 DEF Called, Prompt

LEMMA SendsPlacedStep ==
    ASSUME Typed, Typed', JobsServed, RunsDated, SendsPlaced, Advance \/ Moved
    PROVE  SendsPlaced'
  <1> USE DEF clockVars, webVars, reportVars
  <1>0. /\ now \in Nat /\ dark \subseteq dark' /\ pokes \subseteq pokes'
        /\ \A j \in jobs : j.at \in Nat /\ (j.kind = "send" => j.date \in Date /\ j.who \in Member)
        /\ \A j \in jobs' : j.at \in Nat /\ (j.kind = "send" => j.date \in Date /\ j.who \in Member)
    <2>1. jobs \subseteq Jobs /\ jobs' \subseteq Jobs
      BY DEF Typed, TypeOK
    <2> QED
      BY <2>1, Growth, JobTypes DEF Jobs, Delayed
  <1>2. ASSUME NEW j \in jobs', j.kind = "send", NEW d \in Date, d = j.date, NEW m \in Member, m = j.who
        PROVE  \E u \in pokes' \cup {WakeUp(m, d)'} : u <= j.at /\ u..(j.at - 1) \subseteq dark'
    <2>1. CASE j \in jobs
      <3>1. run[d] # NoRun /\ Called(m, d, j.at) /\ j.at \in Nat
        BY <1>0, <1>2, <2>1 DEF Typed, RunsFirst, SendsPlaced
      <3> QED
        BY <3>1, CalledStays
    <2>2. CASE j \notin jobs
      <3>1. Moved /\ JobCame(j) /\ now' = now
        BY <2>2 DEF Moved, Advance
      <3>2. CASE j.at = now /\ ByHand
        <4>1. PICK k \in jobs : k.kind \in {"force", "retrigger"} /\ k.at <= now
          BY <3>2 DEF ByHand
        <4>2. k.at \in pokes /\ k.at..(now - 1) \subseteq dark
          BY <4>1 DEF JobsServed, Unserved, Prompt
        <4> QED
          BY <1>0, <3>2, <4>1, <4>2
      <3>3. CASE run'[d] = Opened /\ d = Today /\ j.at = Larger(now, SendTime(m))
        <4>1. j.at = WakeUp(m, d)' /\ j.at \in Nat
          BY <1>0, <3>3, WakeUpsBegin
        <4> QED
          BY <4>1
      <3> QED
        BY <1>2, <3>1, <3>2, <3>3 DEF JobCame
    <2> QED
      BY <2>1, <2>2
  <1> QED
    BY <1>0, <1>2 DEF SendsPlaced, Called, Prompt

LEMMA AsksPlacedStep ==
    ASSUME Typed, Typed', JobsServed, RunsDated, SendsPlaced, AsksPlaced, Advance \/ Moved
    PROVE  AsksPlaced'
  <1> USE DEF clockVars, webVars, reportVars
  <1>0. /\ now \in Nat /\ now' \in Nat /\ now <= now' /\ dark \subseteq dark' /\ pokes \subseteq pokes'
        /\ dark \subseteq Nat /\ pokes \subseteq Nat
        /\ \A j \in jobs : j.at \in Nat /\ (j.kind = "send" => j.date \in Date /\ j.who \in Member)
    <2>1. jobs \subseteq Jobs
      BY DEF Typed, TypeOK
    <2> QED
      BY <2>1, Growth, JobTypes
  <1>1. ASSUME NEW d \in Date, NEW m \in Member
        PROVE  /\ report'[d][m].status = "none" <=> report'[d][m].asks = {}
               /\ \A a \in report'[d][m].asks :
                     /\ a.at <= now'
                     /\ \E u \in pokes' \cup {WakeUp(m, d)'} : u <= a.at /\ u..(a.at - 1) \subseteq dark'
    <2> DEFINE r == report[d][m]
               placed(a) == /\ a.at <= now'
                            /\ \E u \in pokes' \cup {WakeUp(m, d)'} : u <= a.at /\ u..(a.at - 1) \subseteq dark'
    <2>1. r \in Report /\ r.asks \in SUBSET [at : Instant, every : Nat] /\ \A a \in r.asks : a.at \in Nat
      BY TimeAssumption DEF Typed, TypeOK, Report, Instant
    <2>2. (r.status = "none" <=> r.asks = {}) /\ \A a \in r.asks : a.at <= now /\ Called(m, d, a.at)
      BY DEF AsksPlaced
    <2>3. \A a \in r.asks : placed(a)
      <3>1. r.asks # {} => run[d] # NoRun
        BY <2>2 DEF Typed, RunsFirst
      <3> QED
        BY <1>0, <2>1, <2>2, <3>1, CalledStays
    <2>4. CASE report'[d][m].asks = r.asks /\ (report'[d][m].status = "none" <=> r.status = "none")
      BY <2>2, <2>3, <2>4
    <2>5. CASE Moved /\ report'[d][m] = Asked(r) /\ AskedFor(d, m)
      <3> DEFINE a == [at |-> now, every |-> plan.every]
      <3>1. report'[d][m].asks = r.asks \cup {a} /\ report'[d][m].status = "in_progress"
        BY <2>1, <2>5 DEF Asked, Report
      <3>2. a.at = now /\ now' = now
        BY <2>5 DEF Moved
      <3> HIDE DEF a
      <3>3. PICK j \in jobs : j.at <= now /\ ((j.kind = "send" /\ j.date = d /\ j.who = m) \/ j.kind = "retrigger")
        BY <2>5 DEF AskedFor
      <3>4. j.at \in Nat /\ j.at..(now - 1) \subseteq dark
        BY <1>0, <3>3 DEF JobsServed, Unserved, Prompt
      <3>5. \E u \in pokes' \cup {WakeUp(m, d)'} : u <= now /\ u..(now - 1) \subseteq dark'
        <4>1. CASE j.kind = "retrigger"
          <5>1. j.at \in pokes
            BY <4>1 DEF JobsServed
          <5> QED
            BY <1>0, <3>3, <3>4, <5>1
        <4>2. CASE j.kind = "send" /\ j.date = d /\ j.who = m
          <5>1. run[d] # NoRun /\ Called(m, d, j.at)
            BY <4>2 DEF Typed, RunsFirst, SendsPlaced
          <5>2. PICK u \in pokes \cup {WakeUp(m, d)} : u <= j.at /\ u..(j.at - 1) \subseteq dark
            BY <5>1 DEF Called, Prompt
          <5>3. WakeUp(m, d)' = WakeUp(m, d) /\ WakeUp(m, d) \in Nat
            BY <5>1, WakeUpsStay
          <5>4. u \in Nat /\ u \in pokes' \cup {WakeUp(m, d)'}
            BY <1>0, <5>2, <5>3
          <5>5. u <= now /\ u..(now - 1) \subseteq dark
            BY <1>0, <3>3, <3>4, <5>2, <5>4, Promptly
          <5> QED
            BY <1>0, <5>4, <5>5
        <4> QED
          BY <3>3, <4>1, <4>2
      <3>6. placed(a)
        BY <1>0, <3>2, <3>5
      <3> QED
        BY <2>3, <3>1, <3>6
    <2>6. CASE Moved /\ ~(report'[d][m] = Asked(r) /\ AskedFor(d, m))
      <3>1. ReportMoved(d, m)
        BY <2>6 DEF Moved
      <3>2. report'[d][m].asks = r.asks /\ (report'[d][m].status = "none" <=> r.status = "none")
        BY <2>1, <2>6, <3>1 DEF ReportMoved, Expired, Report
      <3> QED
        BY <2>4, <3>2
    <2>7. CASE Advance
      BY <2>4, <2>7 DEF Advance
    <2> QED
      BY <2>5, <2>6, <2>7
  <1> QED
    BY <1>1 DEF AsksPlaced, Called, Prompt

LEMMA SendsKeptStep ==
    ASSUME Typed, Typed', RunsDated, AsksPlaced, AsksPlaced', SendsKept, Advance \/ Moved
    PROVE  SendsKept'
  <1> USE DEF clockVars, webVars, reportVars
  <1>1. ASSUME NEW d \in Date, NEW m \in Member, run'[d] # NoRun, report'[d][m].asks = {}
        PROVE  \E j \in jobs' : j.kind = "send" /\ j.date = d /\ j.who = m /\ j.at <= WakeUp(m, d)'
    <2>1. report'[d][m].status = "none"
      BY <1>1 DEF AsksPlaced
    <2>2. CASE run[d] # NoRun
      <3>1. report[d][m].asks = {}
        BY <1>1, Growth
      <3>2. PICK j \in jobs : j.kind = "send" /\ j.date = d /\ j.who = m /\ j.at <= WakeUp(m, d)
        BY <2>2, <3>1 DEF SendsKept
      <3>3. WakeUp(m, d)' = WakeUp(m, d)
        BY <2>2, WakeUpsStay
      <3>4. j \in jobs'
        <4>1. CASE Advance
          BY <4>1 DEF Advance
        <4>2. CASE Moved
          BY <2>1, <3>2, <4>2 DEF Moved, JobGone
        <4> QED
          BY <4>1, <4>2
      <3> QED
        BY <3>2, <3>3, <3>4
    <2>3. CASE run[d] = NoRun
      <3>1. Moved /\ RunMoved(d)
        BY <1>1, <2>3 DEF Moved, Advance
      <3>2. /\ run'[d] = Opened /\ d = Today
            /\ \E j \in jobs' : /\ j.kind = "send" /\ j.date = d /\ j.who = m
                                /\ j.at = now \/ j.at = Larger(now, SendTime(m))
        BY <1>1, <2>1, <2>3, <3>1 DEF RunMoved
      <3>3. WakeUp(m, d)' = Larger(now, SendTime(m)) /\ now <= WakeUp(m, d)' /\ WakeUp(m, d)' \in Nat
        BY <3>2, WakeUpsBegin
      <3> QED
        BY <3>2, <3>3
    <2> QED
      BY <2>2, <2>3
  <1> QED
    BY <1>1 DEF SendsKept

LEMMA InitAsking == Init => Asking
  <1> SUFFICES ASSUME Init PROVE Asking
    OBVIOUS
  <1>1. jobs = {} /\ \A d \in Date : run[d] = NoRun
    BY DEF Init
  <1>2. \A d \in Date, m \in Member : report[d][m].asks = {} /\ report[d][m].status = "none"
    BY DEF Init, NoReport
  <1> QED
    BY <1>1, <1>2, InitTyped DEF Asking, JobsServed, RunsDated, SendsPlaced, AsksPlaced, SendsKept

LEMMA NextAsking == Asking /\ [Next]_vars => Asking'
  <1> SUFFICES ASSUME Asking, [Next]_vars PROVE Asking'
    OBVIOUS
  <1>1. Typed /\ Typed' /\ (Advance \/ Moved)
    BY NextTyped, Steps DEF Asking
  <1>2. JobsServed' /\ RunsDated' /\ SendsPlaced' /\ AsksPlaced'
    BY <1>1, JobsServedStep, RunsDatedStep, SendsPlacedStep, AsksPlacedStep DEF Asking
  <1> QED
    BY <1>1, <1>2, SendsKeptStep DEF Asking

LEMMA AskingSuffices == Asking => AskedAtTheirTime
  <1> SUFFICES ASSUME Asking, NEW d \in Runs
               PROVE  /\ \/ CronDow(d) \in ParseWeekdays(run[d].plan.dow)
                         \/ \E t \in pokes : Prompt(t, run[d].at)
                      /\ \A m \in Member :
                            /\ \A a \in report[d][m].asks :
                                  \E t \in pokes \cup {WakeUp(m, d)} : Prompt(t, a.at)
                            /\ report[d][m].asks = {} => now <= WakeUp(m, d) \/ Unserved(WakeUp(m, d))
    BY DEF AskedAtTheirTime
  <1>1. d \in Date /\ run[d] # NoRun /\ run[d] \in RunState /\ now \in Nat
    BY TimeAssumption DEF Runs, Asking, Typed, TypeOK, RunState, Instant
  <1>2. ASSUME NEW m \in Member, report[d][m].asks = {}, ~(now <= WakeUp(m, d))
        PROVE  Unserved(WakeUp(m, d))
    <2>1. d = AnchorDate(run[d].plan.tz, run[d].at)
      BY <1>1 DEF Asking, RunsDated
    <2>2. WakeUp(m, d) \in Nat
      BY <1>1, <2>1, Waking, WakeUps
    <2>3. PICK j \in jobs : j.at <= WakeUp(m, d)
      BY <1>1, <1>2 DEF Asking, SendsKept
    <2>4. j.at \in Nat
      BY JobTypes DEF Asking, Typed, TypeOK
    <2>5. j.at..(now - 1) \subseteq dark
      BY <1>1, <1>2, <2>2, <2>3, <2>4 DEF Asking, JobsServed, Unserved, Prompt
    <2> QED
      BY <1>1, <1>2, <2>2, <2>3, <2>4, <2>5 DEF Unserved, Prompt
  <1> QED
    BY <1>1, <1>2 DEF Asking, RunsDated, AsksPlaced, Called

(* Every member of a run is asked when the schedule's time is reached in    *)
(* their own zone, or because somebody asked, as promptly as the worker is  *)
(* there, and a run that nobody asked for is of a day of the schedule:      *)
(* whatever edits, pauses, outages and re-triggers come in between, for any *)
(* zones up to two days apart (openRun.ts:102-107, sendInstants.ts:25-36).  *)
THEOREM AskedInTime == Spec => []AskedAtTheirTime
  BY InitAsking, NextAsking, AskingSuffices, PTL DEF Spec

-----------------------------------------------------------------------------
(* Why a report is closed at its deadline and nudged at its reminders.  An  *)
(* open report has a timeout job that comes no later than its deadline, and *)
(* every reminder to come has its job until it has been sent or come to a   *)
(* closed report.                                                           *)

TimeoutsKept ==
    \A d \in Date, m \in Member :
       /\ report[d][m].due <= now + Timeout
       /\ report[d][m].status = "in_progress" =>
             \E j \in jobs : j.kind = "timeout" /\ j.date = d /\ j.who = m /\ j.at <= report[d][m].due
       /\ \A p \in report[d][m].expired : Prompt(p[1], p[2])

RemindersKept ==
    /\ \A j \in jobs : j.kind = "remind" => j.at \in Reminders(report[j.date][j.who])
    /\ \A d \in Date, m \in Member :
          /\ \A p \in report[d][m].nudged : p[1] \in Reminders(report[d][m]) /\ Prompt(p[1], p[2])
          /\ \A t \in Reminders(report[d][m]) : t > now => DayJob("remind", d, m, t) \in jobs
          /\ report[d][m].status = "in_progress" =>
                \A t \in Reminders(report[d][m]) :
                   (\A a \in report[d][m].asks : a.at < t) =>
                      \/ DayJob("remind", d, m, t) \in jobs
                      \/ \E p \in report[d][m].nudged : p[1] = t

ClockRight == Asking /\ TimeoutsKept /\ RemindersKept

(* How a report may have changed, field by field. *)
Became(d, m) ==
    LET r == report[d][m]
        s == report'[d][m]
    IN  \/ s = r
        \/ /\ r.status # "in_progress" /\ s.status = "in_progress" /\ s.due = now + Timeout
           /\ s.asks = r.asks \cup {[at |-> now, every |-> plan.every]}
           /\ s.nudged = r.nudged /\ s.expired = r.expired
           /\ ReportJobs(d, m) \subseteq jobs'
        \/ /\ r.status = "in_progress" /\ s.asks = r.asks /\ r.nudged \subseteq s.nudged
           /\ \/ /\ s.status = "timed_out" /\ r.due <= now /\ s.due = r.due /\ s.nudged = r.nudged
                 /\ s.expired = r.expired \cup {<<r.due, now>>}
              \/ /\ s.status \in {"completed", "timed_out"} /\ s.due = r.due
                 /\ s.nudged = r.nudged /\ s.expired = r.expired
              \/ /\ s.status = r.status /\ s.due = now + Timeout
                 /\ s.nudged = r.nudged /\ s.expired = r.expired
              \/ /\ s.status = r.status /\ s.due = r.due /\ s.expired = r.expired
                 /\ \E j \in jobs : /\ j.kind = "remind" /\ j.date = d /\ j.who = m /\ j.at <= now
                                    /\ s.nudged = r.nudged \cup {<<j.at, now>>}

LEMMA ReportFields ==
    ASSUME Typed, Typed', Moved, NEW d \in Date, NEW m \in Member
    PROVE  report[d][m] \in Report /\ report'[d][m] \in Report /\ Became(d, m)
  <1> DEFINE r == report[d][m]
             s == report'[d][m]
  <1>1. r \in Report /\ s \in Report /\ ReportMoved(d, m)
    BY DEF Typed, TypeOK, Moved
  <1>2. CASE r.status \in {"none", "timed_out"} /\ s = Asked(r) /\ ReportJobs(d, m) \subseteq jobs'
    <2>1. /\ s.status = "in_progress" /\ s.due = now + Timeout /\ s.nudged = r.nudged /\ s.expired = r.expired
          /\ s.asks = r.asks \cup {[at |-> now, every |-> plan.every]}
      BY <1>1, <1>2 DEF Asked, Report
    <2> QED
      BY <1>1, <1>2, <2>1 DEF Became
  <1>3. CASE r.status = "in_progress" /\ r.due <= now /\ s = Expired(r)
    <2>1. /\ s.status = "timed_out" /\ s.due = r.due /\ s.nudged = r.nudged /\ s.asks = r.asks
          /\ s.expired = r.expired \cup {<<r.due, now>>}
      BY <1>1, <1>3 DEF Expired, Report
    <2> QED
      BY <1>1, <1>3, <2>1 DEF Became
  <1>4. ASSUME NEW x \in {"completed", "timed_out"}, r.status = "in_progress", s = [r EXCEPT !.status = x]
        PROVE  Became(d, m)
    <2>1. s.status = x /\ s.due = r.due /\ s.nudged = r.nudged /\ s.asks = r.asks /\ s.expired = r.expired
      BY <1>1, <1>4 DEF Report
    <2> QED
      BY <1>1, <1>4, <2>1 DEF Became
  <1>5. CASE r.status = "in_progress" /\ s = [r EXCEPT !.due = now + Timeout]
    <2>1. /\ s.status = r.status /\ s.due = now + Timeout /\ s.nudged = r.nudged
          /\ s.asks = r.asks /\ s.expired = r.expired
      BY <1>1, <1>5 DEF Report
    <2> QED
      BY <1>1, <1>5, <2>1 DEF Became
  <1>6. ASSUME NEW j \in jobs, j.kind = "remind", j.date = d, j.who = m, j.at <= now,
               r.status = "in_progress", s = [r EXCEPT !.nudged = @ \cup {<<j.at, now>>}]
        PROVE  Became(d, m)
    <2>1. /\ s.status = r.status /\ s.due = r.due /\ s.nudged = r.nudged \cup {<<j.at, now>>}
          /\ s.asks = r.asks /\ s.expired = r.expired
      BY <1>1, <1>6 DEF Report
    <2> QED
      BY <1>1, <1>6, <2>1 DEF Became
  <1>7. CASE s = r
    BY <1>1, <1>7 DEF Became
  <1>8. \/ s = r
        \/ r.status \in {"none", "timed_out"} /\ s = Asked(r) /\ ReportJobs(d, m) \subseteq jobs'
        \/ r.status = "in_progress" /\ r.due <= now /\ s = Expired(r)
        \/ r.status = "in_progress" /\ \E x \in {"completed", "timed_out"} : s = [r EXCEPT !.status = x]
        \/ r.status = "in_progress" /\ s = [r EXCEPT !.due = now + Timeout]
        \/ /\ r.status = "in_progress"
           /\ \E j \in jobs : /\ j.kind = "remind" /\ j.date = d /\ j.who = m /\ j.at <= now
                              /\ s = [r EXCEPT !.nudged = @ \cup {<<j.at, now>>}]
    BY <1>1 DEF ReportMoved
  <1> HIDE DEF r, s
  <1>9. Became(d, m)
    BY <1>2, <1>3, <1>4, <1>5, <1>6, <1>7, <1>8
  <1> QED
    BY <1>1, <1>9 DEF r, s

LEMMA TimeoutsKeptStep ==
    ASSUME Typed, Typed', JobsServed, TimeoutsKept, Advance \/ Moved
    PROVE  TimeoutsKept'
  <1> USE DEF clockVars, webVars, reportVars
  <1>0. /\ now \in Nat /\ now' \in Nat /\ now <= now' /\ dark \subseteq dark' /\ Timeout \in Nat /\ Timeout > 0
        /\ \A j \in jobs : j.at \in Nat
    BY Growth, JobTypes, TimeAssumption DEF Typed, TypeOK
  <1>1. ASSUME NEW d \in Date, NEW m \in Member
        PROVE  LET s == report'[d][m]
               IN  /\ s.due <= now' + Timeout
                   /\ s.status = "in_progress" =>
                         \E j \in jobs' : j.kind = "timeout" /\ j.date = d /\ j.who = m /\ j.at <= s.due
                   /\ \A p \in s.expired : p[1] <= p[2] /\ p[1]..(p[2] - 1) \subseteq dark'
    <2> DEFINE r == report[d][m]
               s == report'[d][m]
    <2>1. /\ r.due <= now + Timeout
          /\ r.status = "in_progress" =>
                \E j \in jobs : j.kind = "timeout" /\ j.date = d /\ j.who = m /\ j.at <= r.due
          /\ \A p \in r.expired : p[1] <= p[2] /\ p[1]..(p[2] - 1) \subseteq dark
      BY DEF TimeoutsKept, Prompt
    <2>2. r \in Report /\ r.due \in Nat /\ s.due \in Nat
      BY TimeAssumption DEF Typed, TypeOK, Report
    <2>3. CASE Advance
      <3>1. s = r /\ jobs' = jobs
        BY <2>3 DEF Advance
      <3>2. \A p \in r.expired : p[1] <= p[2] /\ p[1]..(p[2] - 1) \subseteq dark'
        BY <1>0, <2>1
      <3> QED
        BY <1>0, <2>1, <2>2, <3>1, <3>2
    <2>4. CASE Moved
      <3>1. now' = now /\ dark' = dark
        BY <2>4 DEF Moved
      <3>2. s.due <= now + Timeout
        BY <1>0, <2>1, <2>2, <2>4, ReportFields DEF Became
      <3>3. ASSUME s.status = "in_progress"
            PROVE  \E j \in jobs' : j.kind = "timeout" /\ j.date = d /\ j.who = m /\ j.at <= s.due
        <4>1. CASE r.status = "in_progress"
          <5>1. PICK j \in jobs : j.kind = "timeout" /\ j.date = d /\ j.who = m /\ j.at <= r.due
            BY <2>1, <4>1
          <5>2. r.due <= s.due
            BY <1>0, <2>1, <2>2, <2>4, <3>3, <4>1, ReportFields DEF Became
          <5>3. CASE j \in jobs'
            BY <1>0, <2>2, <5>1, <5>2, <5>3
          <5>4. CASE j \notin jobs'
            <6>1. JobGone(j)
              BY <2>4, <5>4 DEF Moved
            <6>2. \E k \in jobs' : k.kind = "timeout" /\ k.date = d /\ k.who = m /\ k.at = s.due
              BY <3>3, <5>1, <6>1 DEF JobGone
            <6> QED
              BY <2>2, <6>2
          <5> QED
            BY <5>3, <5>4
        <4>2. CASE r.status # "in_progress"
          <5>1. s.due = now + Timeout /\ ReportJobs(d, m) \subseteq jobs'
            BY <2>4, <3>3, <4>2, ReportFields DEF Became
          <5>2. DayJob("timeout", d, m, now + Timeout) \in ReportJobs(d, m)
            BY DEF ReportJobs
          <5>3. /\ DayJob("timeout", d, m, now + Timeout).kind = "timeout"
                /\ DayJob("timeout", d, m, now + Timeout).date = d
                /\ DayJob("timeout", d, m, now + Timeout).who = m
                /\ DayJob("timeout", d, m, now + Timeout).at = now + Timeout
            BY DEF DayJob
          <5> QED
            BY <1>0, <5>1, <5>2, <5>3
        <4> QED
          BY <4>1, <4>2
      <3>4. ASSUME NEW p \in s.expired
            PROVE  p[1] <= p[2] /\ p[1]..(p[2] - 1) \subseteq dark
        <4>1. CASE p \in r.expired
          BY <2>1, <4>1
        <4>2. CASE p \notin r.expired
          <5>1. p = <<r.due, now>> /\ r.due <= now /\ r.status = "in_progress"
            BY <2>4, <3>4, <4>2, ReportFields DEF Became
          <5>2. PICK j \in jobs : j.kind = "timeout" /\ j.date = d /\ j.who = m /\ j.at <= r.due
            BY <2>1, <5>1
          <5>3. j.at..(now - 1) \subseteq dark
            BY <1>0, <2>2, <5>1, <5>2 DEF JobsServed, Unserved, Prompt
          <5>4. r.due..(now - 1) \subseteq dark
            BY <1>0, <2>2, <5>2, <5>3
          <5> QED
            BY <5>1, <5>4
        <4> QED
          BY <4>1, <4>2
      <3> QED
        BY <3>1, <3>2, <3>3, <3>4
    <2> QED
      BY <2>3, <2>4
  <1> QED
    BY <1>1 DEF TimeoutsKept, Prompt

LEMMA RemindersGrow ==
    ASSUME NEW r, NEW s, r.asks \subseteq s.asks
    PROVE  Reminders(r) \subseteq Reminders(s)
  BY DEF Reminders

LEMMA RemindersSame ==
    ASSUME NEW r, NEW s, s.asks = r.asks
    PROVE  Reminders(s) = Reminders(r)
  BY DEF Reminders

LEMMA RemindersAdded ==
    ASSUME NEW r, NEW s, NEW t0 \in Nat, NEW e \in Nat, s.asks = r.asks \cup {[at |-> t0, every |-> e]}
    PROVE  \A t \in Reminders(s) : t \in Reminders(r) \/ \E k \in ReminderDelays(e, Timeout) : t = t0 + k
  <1> SUFFICES ASSUME NEW t \in Reminders(s), t \notin Reminders(r)
               PROVE  \E k \in ReminderDelays(e, Timeout) : t = t0 + k
    OBVIOUS
  <1>1. PICK a \in s.asks : a.every > 0 /\ \E k \in 1..(Timeout - 1) : k % a.every = 0 /\ t = a.at + k
    BY DEF Reminders
  <1>2. a \notin r.asks
    BY <1>1 DEF Reminders
  <1>3. a.at = t0 /\ a.every = e
    BY <1>2
  <1> QED
    BY <1>1, <1>3 DEF ReminderDelays

LEMMA RemindersKeptStep ==
    ASSUME Typed, Typed', JobsServed, RemindersKept, Advance \/ Moved
    PROVE  RemindersKept'
  <1> USE DEF clockVars, webVars, reportVars
  <1>0. /\ now \in Nat /\ now' \in Nat /\ now <= now' /\ dark \subseteq dark'
        /\ plan.every \in Nat /\ Timeout \in Nat
    BY Growth, TodayIsADate, TimeAssumption DEF Typed
  <1>1. /\ \A j \in jobs : j.at \in Nat /\ (j.kind = "remind" => j.date \in Date /\ j.who \in Member)
        /\ \A j \in jobs' : j.at \in Nat /\ (j.kind = "remind" => j.date \in Date /\ j.who \in Member)
    <2>1. jobs \subseteq Jobs /\ jobs' \subseteq Jobs
      BY DEF Typed, TypeOK
    <2> QED
      BY <2>1, JobTypes DEF Jobs, Delayed
  <1>2. \A d \in Date, m \in Member : Reminders(report[d][m]) \subseteq Reminders(report'[d][m])
    BY Growth, RemindersGrow
  <1>3. ASSUME NEW j \in jobs', j.kind = "remind"
        PROVE  j.at \in Reminders(report'[j.date][j.who])
    <2>1. CASE j \in jobs
      BY <1>1, <1>2, <1>3, <2>1 DEF RemindersKept
    <2>2. CASE j \notin jobs
      BY <1>3, <2>2 DEF Advance, Moved, JobCame
    <2> QED
      BY <2>1, <2>2
  <1>4. ASSUME NEW d \in Date, NEW m \in Member
        PROVE  LET s == report'[d][m]
               IN  /\ \A p \in s.nudged : p[1] \in Reminders(s) /\ p[1] <= p[2] /\ p[1]..(p[2] - 1) \subseteq dark'
                   /\ \A t \in Reminders(s) : t > now' => DayJob("remind", d, m, t) \in jobs'
                   /\ s.status = "in_progress" =>
                         \A t \in Reminders(s) :
                            (\A a \in s.asks : a.at < t) =>
                               \/ DayJob("remind", d, m, t) \in jobs'
                               \/ \E p \in s.nudged : p[1] = t
    <2> DEFINE r == report[d][m]
               s == report'[d][m]
               remind(t) == DayJob("remind", d, m, t)
    <2>0. \A t : remind(t).kind = "remind" /\ remind(t).date = d /\ remind(t).who = m /\ remind(t).at = t
      BY DEF DayJob
    <2>1. /\ \A p \in r.nudged : p[1] \in Reminders(r) /\ p[1] <= p[2] /\ p[1]..(p[2] - 1) \subseteq dark'
          /\ \A t \in Reminders(r) : t > now => remind(t) \in jobs
          /\ r.status = "in_progress" =>
                \A t \in Reminders(r) :
                   (\A a \in r.asks : a.at < t) => remind(t) \in jobs \/ \E p \in r.nudged : p[1] = t
      BY <1>0 DEF RemindersKept, Prompt
    <2>2. Reminders(r) \subseteq Reminders(s)
      BY <1>2
    <2>3. CASE Advance
      <3>1. s = r /\ jobs' = jobs /\ now' = now + 1
        BY <2>3 DEF Advance
      <3>2. \A t \in Reminders(r) : t > now + 1 => t > now
        <4>1. r \in Report
          BY Growth
        <4>2. \A t \in Reminders(r) : t \in Int
          BY <1>0, <4>1, TimeAssumption DEF Reminders, Report, Instant
        <4> QED
          BY <1>0, <4>2
      <3> HIDE DEF r, s, remind
      <3>3. /\ \A p \in s.nudged : p[1] \in Reminders(s) /\ p[1] <= p[2] /\ p[1]..(p[2] - 1) \subseteq dark'
            /\ \A t \in Reminders(s) : t > now' => remind(t) \in jobs'
            /\ s.status = "in_progress" =>
                  \A t \in Reminders(s) :
                     (\A a \in s.asks : a.at < t) => remind(t) \in jobs' \/ \E p \in s.nudged : p[1] = t
        BY <2>1, <3>1, <3>2
      <3> QED
        BY <3>3 DEF r, s, remind
    <2>4. CASE Moved
      <3>1. now' = now /\ dark' = dark /\ Became(d, m) /\ r \in Report
        BY <2>4, ReportFields DEF Moved
      <3>2. ASSUME NEW t, remind(t) \in jobs
            PROVE  remind(t) \in jobs' \/ (t <= now /\ (s.status # "in_progress" \/ \E p \in s.nudged : p[1] = t))
        <4>1. remind(t) \notin jobs' => JobGone(remind(t))
          BY <2>4, <3>2 DEF Moved
        <4> HIDE DEF remind
        <4> QED
          BY <2>0, <4>1 DEF JobGone
      <3>3. \A p \in s.nudged : p[1] \in Reminders(s) /\ p[1] <= p[2] /\ p[1]..(p[2] - 1) \subseteq dark'
        <4>1. ASSUME NEW p \in s.nudged, p \notin r.nudged
              PROVE  p[1] \in Reminders(r) /\ p[1] <= p[2] /\ p[1]..(p[2] - 1) \subseteq dark
          <5>1. PICK j \in jobs : /\ j.kind = "remind" /\ j.date = d /\ j.who = m /\ j.at <= now
                                  /\ p = <<j.at, now>>
            BY <3>1, <4>1 DEF Became
          <5>2. j.at \in Reminders(r)
            BY <5>1 DEF RemindersKept
          <5>3. j.at..(now - 1) \subseteq dark
            BY <5>1 DEF JobsServed, Unserved, Prompt
          <5> QED
            BY <5>1, <5>2, <5>3
        <4> QED
          BY <2>1, <2>2, <3>1, <4>1
      <3>4. \A t \in Reminders(s) :
               t \in Reminders(r) \/ (s.asks # r.asks /\ \E k \in ReminderDelays(plan.every, Timeout) : t = now + k)
        <4>1. CASE s.asks = r.asks
          BY <4>1, RemindersSame
        <4>2. CASE s.asks # r.asks
          <5>1. s.asks = r.asks \cup {[at |-> now, every |-> plan.every]}
            BY <3>1, <4>2 DEF Became
          <5> QED
            BY <1>0, <4>2, <5>1, RemindersAdded
        <4> QED
          BY <4>1, <4>2
      <3>5. \A t \in Reminders(s) : t > now => remind(t) \in jobs'
        <4>1. ASSUME NEW t \in Reminders(r), t > now
              PROVE  remind(t) \in jobs'
          <5>1. t \in Int
            BY <1>0, <3>1, TimeAssumption DEF Reminders, Report, Instant
          <5> QED
            BY <1>0, <2>1, <3>2, <4>1, <5>1
        <4>2. ASSUME s.asks # r.asks, NEW k \in ReminderDelays(plan.every, Timeout)
              PROVE  remind(now + k) \in jobs'
          <5>1. ReportJobs(d, m) \subseteq jobs'
            BY <3>1, <4>2 DEF Became
          <5>2. remind(now + k) \in ReportJobs(d, m)
            BY DEF ReportJobs
          <5> QED
            BY <5>1, <5>2
        <4> QED
          BY <3>4, <4>1, <4>2
      <3>6. ASSUME s.status = "in_progress", NEW t \in Reminders(s), \A a \in s.asks : a.at < t
            PROVE  remind(t) \in jobs' \/ \E p \in s.nudged : p[1] = t
        <4>1. CASE r.status = "in_progress"
          <5>1. s.asks = r.asks /\ r.nudged \subseteq s.nudged
            BY <3>1, <4>1 DEF Became
          <5>2. t \in Reminders(r)
            BY <5>1, RemindersSame
          <5>3. remind(t) \in jobs \/ \E p \in r.nudged : p[1] = t
            BY <2>1, <3>6, <4>1, <5>1, <5>2
          <5> QED
            BY <3>2, <3>6, <5>1, <5>3
        <4>2. CASE r.status # "in_progress"
          <5>1. s.asks = r.asks \cup {[at |-> now, every |-> plan.every]}
            BY <3>1, <3>6, <4>2 DEF Became
          <5>2. now < t
            <6> DEFINE a == [at |-> now, every |-> plan.every]
            <6>1. a \in s.asks /\ a.at = now
              BY <5>1
            <6> HIDE DEF a, s
            <6>2. a.at < t
              BY <3>6, <6>1
            <6> QED
              BY <6>1, <6>2
          <5>3. t > now
            <6>1. t \in Int
              <7>1. s \in Report
                BY <2>4, ReportFields
              <7> QED
                BY <7>1, TimeAssumption DEF Reminders, Report, Instant
            <6> QED
              BY <1>0, <5>2, <6>1
          <5> QED
            BY <3>5, <5>3
        <4> QED
          BY <4>1, <4>2
      <3> QED
        BY <3>1, <3>3, <3>5, <3>6
    <2> QED
      BY <2>3, <2>4
  <1> QED
    BY <1>3, <1>4 DEF RemindersKept, Prompt

LEMMA InitClockRight == Init => ClockRight
  <1> SUFFICES ASSUME Init PROVE ClockRight
    OBVIOUS
  <1>1. /\ now = 0 /\ jobs = {} /\ \A d \in Date, m \in Member : report[d][m] = NoReport
    BY DEF Init
  <1>2. /\ NoReport.due = 0 /\ NoReport.status = "none" /\ NoReport.expired = {}
        /\ NoReport.nudged = {} /\ NoReport.asks = {}
    BY DEF NoReport
  <1>3. Reminders(NoReport) = {}
    BY <1>2 DEF Reminders
  <1> HIDE DEF NoReport
  <1> QED
    BY <1>1, <1>2, <1>3, InitAsking, TimeAssumption DEF ClockRight, TimeoutsKept, RemindersKept

LEMMA NextClockRight == ClockRight /\ [Next]_vars => ClockRight'
  <1> SUFFICES ASSUME ClockRight, [Next]_vars PROVE ClockRight'
    OBVIOUS
  <1>1. Asking /\ Asking' /\ Typed /\ Typed' /\ JobsServed /\ (Advance \/ Moved)
    BY NextAsking, Steps DEF ClockRight, Asking
  <1> QED
    BY <1>1, TimeoutsKeptStep, RemindersKeptStep DEF ClockRight

LEMMA ClockRightSuffices == ClockRight => ReportClockKept
  <1> SUFFICES ASSUME ClockRight, NEW d \in Date, NEW m \in Member
               PROVE  LET r == report[d][m]
                      IN  /\ r.status = "in_progress" => Unserved(r.due) \/ now <= r.due
                          /\ \A p \in r.expired : Prompt(p[1], p[2])
                          /\ \A p \in r.nudged : p[1] \in Reminders(r) /\ Prompt(p[1], p[2])
                          /\ r.status = "in_progress" =>
                                \A t \in Reminders(r) :
                                    t > Max({a.at : a \in r.asks}) /\ t < now /\ ~Unserved(t)
                                        => \E p \in r.nudged : p[1] = t
    BY DEF ReportClockKept
  <1> DEFINE r == report[d][m]
  <1>0. /\ Typed /\ JobsServed /\ AsksPlaced /\ TimeoutsKept /\ RemindersKept
    BY DEF ClockRight, Asking
  <1>1. r \in Report /\ r.due \in Nat /\ now \in Nat /\ \A j \in jobs : j.at \in Nat
    BY <1>0, JobTypes, TimeAssumption DEF Typed, TypeOK, Report, Instant
  <1>2. ASSUME r.status = "in_progress", ~(now <= r.due)
        PROVE  Unserved(r.due)
    <2>1. PICK j \in jobs : j.at <= r.due
      BY <1>0, <1>2 DEF TimeoutsKept
    <2>2. j.at..(now - 1) \subseteq dark
      BY <1>0, <1>1, <1>2, <2>1 DEF JobsServed, Unserved, Prompt
    <2> QED
      BY <1>1, <1>2, <2>1, <2>2 DEF Unserved, Prompt
  <1>3. ASSUME r.status = "in_progress", NEW t \in Reminders(r),
               t > Max({a.at : a \in r.asks}), t < now, ~Unserved(t)
        PROVE  \E p \in r.nudged : p[1] = t
    <2> DEFINE S == {a.at : a \in r.asks}
    <2>1. t \in Int
      BY <1>1, TimeAssumption DEF Reminders, Report, Instant
    <2>2. S \in SUBSET Nat /\ \A s \in S : s <= now
      BY <1>0, <1>1, TimeAssumption DEF AsksPlaced, Report, Instant
    <2>3. \A s \in S : s < t
      <3>1. CASE S = {}
        BY <3>1
      <3>2. CASE S # {}
        <4>1. Max(S) \in S /\ \A s \in S : s <= Max(S)
          BY <1>1, <2>2, <3>2, Greatest
        <4>2. Max(S) \in Nat
          BY <2>2, <4>1
        <4> HIDE DEF S
        <4>3. t > Max(S)
          BY <1>3 DEF S
        <4> QED
          BY <2>1, <2>2, <4>1, <4>2, <4>3
      <3> QED
        BY <3>1, <3>2
    <2>4. \A a \in r.asks : a.at < t
      BY <2>3
    <2>5. DayJob("remind", d, m, t) \in jobs \/ \E p \in r.nudged : p[1] = t
      BY <1>0, <1>3, <2>4 DEF RemindersKept
    <2>6. DayJob("remind", d, m, t) \notin jobs
      <3>1. DayJob("remind", d, m, t).at = t
        BY DEF DayJob
      <3> QED
        BY <1>0, <1>1, <1>3, <2>1, <3>1 DEF JobsServed
    <2> QED
      BY <2>5, <2>6
  <1> QED
    BY <1>0, <1>2, <1>3 DEF TimeoutsKept, RemindersKept

(* A report is closed for silence exactly at the deadline the last reply    *)
(* left, and until then every reminder comes at its time and none at any    *)
(* other, for any timeout, any intervals and any number of replies,         *)
(* re-triggers and outages (timeoutReport.ts:9-14, reminders.ts:1-4).       *)
THEOREM ClocksAreKept == Spec => []ReportClockKept
  BY InitClockRight, NextClockRight, ClockRightSuffices, PTL DEF Spec

-----------------------------------------------------------------------------
(* Why the health page is right.  The worker that is there at the slot      *)
(* before a tick has the row's pattern in its scheduler, and the next tick  *)
(* of a scheduler is the next match of its pattern; so the tick of a day of *)
(* the schedule comes at its slot, and opens the run unless it is there.    *)

RunsWait ==
    \A d \in Date : run[d] # NoRun /\ run[d].status = "running" =>
       \/ \A m \in Member : report[d][m].status = "none"
       \/ \E m \in Member : report[d][m].status = "in_progress"

(* The scheduler of a worker that has no reconcile job to do is the row's.  *)
SchedulerFollows ==
    up /\ (\A j \in jobs : j.kind # "reconcile") =>
       IF active THEN scheduler # NoTick /\ scheduler.pattern = DeriveTickCron(plan)
       ELSE scheduler = NoTick

(* No match of the scheduler's pattern lies between now and its next tick.  *)
NoTickSkipped ==
    scheduler # NoTick =>
       \A u \in now..scheduler.at : now < u /\ u < scheduler.at => ~Matches(scheduler.pattern, u)

TicksOpen ==
    \A d \in Date :
       LET t == TickInstant(plan, d)
       IN  active /\ changed < t /\ t <= now /\ CronDow(d) \in ParseWeekdays(plan.dow)
           /\ ({t - 1, t} \cap dark = {}) =>
              \/ run[d] # NoRun
              \/ t = now /\ scheduler # NoTick /\ scheduler.at <= now
                 /\ scheduler.pattern = DeriveTickCron(plan)

HealthRight == Asking /\ RunsWait /\ SchedulerFollows /\ NoTickSkipped /\ TicksOpen

LEMMA RunsWaitStep ==
    ASSUME Typed, Typed', RunsWait, Advance \/ Moved
    PROVE  RunsWait'
  <1> USE DEF clockVars, webVars, reportVars
  <1>1. CASE Advance
    BY <1>1 DEF Advance, RunsWait
  <1>2. CASE Moved
    <2> SUFFICES ASSUME NEW d \in Date, run'[d] # NoRun, run'[d].status = "running"
                 PROVE  \/ \A m \in Member : report'[d][m].status = "none"
                        \/ \E m \in Member : report'[d][m].status = "in_progress"
      BY DEF RunsWait
    <2>1. /\ RunMoved(d) /\ \A m \in Member : ReportMoved(d, m)
          /\ \A m \in Member : report[d][m] \in Report
      BY <1>2 DEF Moved, Typed, TypeOK
    <2>2. ASSUME \A m \in Member : report[d][m].status = "none"
          PROVE  \/ \A m \in Member : report'[d][m].status = "none"
                 \/ \E m \in Member : report'[d][m].status = "in_progress"
      <3>1. ASSUME NEW m \in Member
            PROVE  report'[d][m].status \in {"none", "in_progress"}
        <4>1. report'[d][m] = report[d][m] \/ report'[d][m] = Asked(report[d][m])
          BY <2>1, <2>2 DEF ReportMoved
        <4> QED
          BY <2>1, <2>2, <4>1, AskingReports DEF Typed
      <3> QED
        BY <3>1
    <2>3. ASSUME NEW m \in Member, report[d][m].status = "in_progress"
          PROVE  \E n \in Member : report'[d][n].status = "in_progress"
      <3>1. Became(d, m)
        BY <1>2, ReportFields
      <3>2. CASE report'[d][m].status = "in_progress"
        BY <3>2
      <3>3. CASE report'[d][m].status # "in_progress"
        <4>1. run'[d].status = "completed" \/ Waits(d)
          <5> DEFINE r == report[d][m]
                     s == report'[d][m]
          <5>1. s # r /\ s # [r EXCEPT !.due = now + Timeout]
            BY <2>1, <2>3, <3>3 DEF Report
          <5>2. \A j \in jobs : s # [r EXCEPT !.nudged = @ \cup {<<j.at, now>>}]
            BY <2>1, <2>3, <3>3 DEF Report
          <5> QED
            BY <2>1, <2>3, <5>1, <5>2 DEF ReportMoved
        <4> QED
          BY <2>2, <4>1 DEF Waits
      <3> QED
        BY <3>2, <3>3
    <2>4. CASE run'[d] = run[d]
      BY <2>2, <2>3, <2>4 DEF RunsWait
    <2>5. CASE run[d] = NoRun
      BY <2>2, <2>5 DEF Typed, RunsFirst
    <2>6. CASE Waits(d)
      BY <2>6 DEF Waits
    <2> QED
      BY <2>1, <2>4, <2>5, <2>6 DEF RunMoved
  <1> QED
    BY <1>1, <1>2

\* A step that leaves the schedule and what is to be reconciled alone.
ScheduleAlone ==
    /\ UNCHANGED <<now, dark, plan, active, changed, scheduler>> /\ (up' => up)
    /\ \A j \in jobs : j.kind = "reconcile" => j \in jobs'

\* A step that writes the row.
RowWritten ==
    /\ UNCHANGED <<now, scheduler>> /\ changed' = now
    /\ \E j \in jobs' : j.kind = "reconcile"

LEMMA ScheduleSteps ==
    ASSUME [Next]_vars
    PROVE  \/ Advance
           \/ ScheduleAlone
           \/ Boot \/ \E j \in jobs : ReconcileJob(j)
           \/ TickJob
           \/ RowWritten
  <1> USE DEF clockVars, webVars, reportVars
  <1>0. TeamJob("reconcile").kind = "reconcile"
    BY DEF TeamJob
  <1>1. ASSUME NEW w \in Weekly, NEW sendNow \in BOOLEAN, SaveStandup(w, sendNow)
        PROVE  RowWritten
    BY <1>0, <1>1 DEF SaveStandup, RowWritten
  <1>2. CASE ToggleActive
    BY <1>0, <1>2 DEF ToggleActive, RowWritten
  <1>3. CASE Stop \/ TriggerNow \/ (\E m \in Member : Keyword(m)) \/ UNCHANGED vars
    BY <1>3 DEF Stop, TriggerNow, Keyword, vars, ScheduleAlone
  <1>4. ASSUME NEW j \in jobs, ForceJob(j)
        PROVE  ScheduleAlone
    <2>1. j.kind = "force" /\ jobs \ {j} \subseteq jobs'
      BY <1>4 DEF ForceJob, OpenRun
    <2> QED
      BY <1>4, <2>1 DEF ForceJob, ScheduleAlone
  <1>5. ASSUME NEW j \in jobs, SendDmJob(j) \/ RetriggerJob(j) \/ TimeoutJob(j) \/ RemindJob(j)
        PROVE  ScheduleAlone
    <2>1. j.kind # "reconcile"
      BY <1>5 DEF SendDmJob, RetriggerJob, TimeoutJob, RemindJob
    <2>2. jobs \ {j} \subseteq jobs'
      BY <1>5 DEF SendDmJob, RetriggerJob, TimeoutJob, RemindJob
    <2>3. UNCHANGED <<now, up, dark, plan, active, changed, scheduler>>
      BY <1>5 DEF SendDmJob, RetriggerJob, TimeoutJob, RemindJob
    <2> QED
      BY <2>1, <2>2, <2>3 DEF ScheduleAlone
  <1>6. ASSUME NEW m \in Member, NEW d \in Date,
               Reply(m, d) \/ \E s \in {"completed", "timed_out"} : Close(m, d, s)
        PROVE  ScheduleAlone
    BY <1>6 DEF Reply, Close, ScheduleAlone
  <1> QED
    BY <1>1, <1>2, <1>3, <1>4, <1>5, <1>6 DEF Next, Job

LEMMA ReconciledRight ==
    ASSUME Typed, NoTickSkipped
    PROVE  /\ IF active THEN Reconciled # NoTick /\ Reconciled.pattern = DeriveTickCron(plan)
              ELSE Reconciled = NoTick
           /\ Reconciled # NoTick =>
                 \A u \in now..Reconciled.at : now < u /\ u < Reconciled.at => ~Matches(Reconciled.pattern, u)
           /\ active /\ scheduler # NoTick /\ scheduler.pattern = DeriveTickCron(plan) => Reconciled = scheduler
  <1> DEFINE pattern == DeriveTickCron(plan)
             fresh == [pattern |-> pattern, at |-> NextTick(pattern, now)]
  <1>1. pattern \in Pattern /\ now \in Nat
    BY Parsing, TodayIsADate DEF Typed, TypeOK, DeriveTickCron, Pattern
  <1>2. /\ NextTick(pattern, now) \in Nat /\ NextTick(pattern, now) > now
        /\ \A u \in Nat : now < u /\ u < NextTick(pattern, now) => ~Matches(pattern, u)
    BY <1>1, NextTickMatches
  <1>3. fresh.pattern = pattern /\ fresh.at = NextTick(pattern, now)
    OBVIOUS
  <1>4. fresh # NoTick
    <2>1. NoTick.at = NoInstant
      BY DEF NoTick
    <2> QED
      BY <1>2, <1>3, <2>1, OffsetAssumption
  <1>5. Reconciled = IF ~active THEN NoTick
                     ELSE IF scheduler # NoTick /\ scheduler.pattern = pattern THEN scheduler ELSE fresh
    BY DEF Reconciled
  <1>6. \A u \in now..fresh.at : now < u /\ u < fresh.at => ~Matches(fresh.pattern, u)
    BY <1>1, <1>2, <1>3
  <1> HIDE DEF fresh, pattern
  <1>7. /\ IF active THEN Reconciled # NoTick /\ Reconciled.pattern = pattern ELSE Reconciled = NoTick
        /\ Reconciled # NoTick =>
              \A u \in now..Reconciled.at : now < u /\ u < Reconciled.at => ~Matches(Reconciled.pattern, u)
        /\ active /\ scheduler # NoTick /\ scheduler.pattern = pattern => Reconciled = scheduler
    <2>1. CASE ~active
      BY <1>5, <2>1
    <2>2. CASE active /\ scheduler # NoTick /\ scheduler.pattern = pattern
      BY <1>5, <2>2 DEF NoTickSkipped
    <2>3. CASE active /\ ~(scheduler # NoTick /\ scheduler.pattern = pattern)
      BY <1>3, <1>4, <1>5, <1>6, <2>3
    <2> QED
      BY <2>1, <2>2, <2>3
  <1> QED
    BY <1>7 DEF pattern

\* The tick that is taken gives way to the next match of its pattern.
LEMMA TickTaken ==
    ASSUME Typed, TickJob
    PROVE  /\ scheduler # NoTick /\ scheduler' # NoTick /\ scheduler'.pattern = scheduler.pattern
           /\ \A u \in Nat : now < u /\ u < scheduler'.at => ~Matches(scheduler'.pattern, u)
  <1>1. scheduler.at # NoInstant /\ scheduler' = [scheduler EXCEPT !.at = NextTick(scheduler.pattern, now)]
    BY DEF TickJob, TickDue
  <1>2. scheduler \in [pattern : Pattern, at : Nat] /\ scheduler # NoTick
    BY <1>1 DEF Typed, TypeOK, NoTick, Pattern
  <1>3. scheduler'.pattern = scheduler.pattern /\ scheduler'.at = NextTick(scheduler.pattern, now)
    BY <1>1, <1>2
  <1>4. scheduler.pattern \in Pattern /\ now \in Nat
    BY <1>2, TodayIsADate DEF Typed
  <1>5. /\ NextTick(scheduler.pattern, now) \in Nat
        /\ \A u \in Nat : now < u /\ u < NextTick(scheduler.pattern, now) => ~Matches(scheduler.pattern, u)
    BY <1>4, NextTickMatches
  <1>6. NoTick.at = NoInstant
    BY DEF NoTick
  <1>7. scheduler' # NoTick
    BY <1>3, <1>5, <1>6, OffsetAssumption
  <1> QED
    BY <1>2, <1>3, <1>5, <1>7

LEMMA SchedulerFollowsStep ==
    ASSUME Typed, NoTickSkipped, SchedulerFollows, [Next]_vars
    PROVE  SchedulerFollows'
  <1> USE DEF clockVars, webVars, reportVars
  <1>1. CASE Advance
    BY <1>1 DEF Advance, SchedulerFollows
  <1>2. CASE ScheduleAlone
    <2>1. plan' = plan /\ active' = active /\ scheduler' = scheduler /\ (up' => up)
      BY <1>2 DEF ScheduleAlone
    <2>2. (\A j \in jobs' : j.kind # "reconcile") => \A j \in jobs : j.kind # "reconcile"
      BY <1>2 DEF ScheduleAlone
    <2> QED
      BY <2>1, <2>2 DEF SchedulerFollows
  <1>3. CASE Boot \/ \E j \in jobs : ReconcileJob(j)
    <2>1. scheduler' = Reconciled /\ plan' = plan /\ active' = active
      BY <1>3 DEF Boot, ReconcileJob
    <2> QED
      BY <2>1, ReconciledRight DEF SchedulerFollows
  <1>4. CASE TickJob
    <2>1. /\ scheduler # NoTick /\ scheduler' # NoTick /\ scheduler'.pattern = scheduler.pattern
      BY <1>4, TickTaken
    <2>2. up /\ plan' = plan /\ active' = active /\ jobs \subseteq jobs'
      BY <1>4 DEF TickJob, OpenRun
    <2> QED
      BY <2>1, <2>2 DEF SchedulerFollows
  <1>5. CASE RowWritten
    BY <1>5 DEF RowWritten, SchedulerFollows
  <1> QED
    BY <1>1, <1>3, <1>4, <1>5, <1>2, ScheduleSteps

LEMMA NoTickSkippedStep ==
    ASSUME Typed, NoTickSkipped, [Next]_vars
    PROVE  NoTickSkipped'
  <1> USE DEF clockVars, webVars, reportVars
  <1>0. now \in Nat /\ (scheduler # NoTick => scheduler.at \in Nat)
    BY TodayIsADate DEF Typed, TypeOK
  <1>1. CASE Advance
    <2>1. now' = now + 1 /\ scheduler' = scheduler
      BY <1>1 DEF Advance
    <2> QED
      BY <1>0, <2>1 DEF NoTickSkipped
  <1>2. CASE ScheduleAlone \/ RowWritten
    BY <1>2 DEF ScheduleAlone, RowWritten, NoTickSkipped
  <1>3. CASE Boot \/ \E j \in jobs : ReconcileJob(j)
    <2>1. scheduler' = Reconciled /\ now' = now
      BY <1>3 DEF Boot, ReconcileJob
    <2> QED
      BY <2>1, ReconciledRight DEF NoTickSkipped
  <1>4. CASE TickJob
    <2>1. \A u \in Nat : now < u /\ u < scheduler'.at => ~Matches(scheduler'.pattern, u)
      BY <1>4, TickTaken
    <2>2. now' = now
      BY <1>4 DEF TickJob
    <2>3. ASSUME NEW u \in now..scheduler'.at
          PROVE  u \in Nat
      BY <1>0
    <2> QED
      BY <2>1, <2>2, <2>3 DEF NoTickSkipped
  <1> QED
    BY <1>1, <1>2, <1>3, <1>4, ScheduleSteps

LEMMA TicksOpenStep ==
    ASSUME Typed, Typed', JobsServed, SchedulerFollows, NoTickSkipped, TicksOpen, [Next]_vars
    PROVE  TicksOpen'
  <1> USE DEF clockVars, webVars, reportVars
  <1> SUFFICES ASSUME NEW d \in Date, active', changed' < TickInstant(plan', d), TickInstant(plan', d) <= now',
                      CronDow(d) \in ParseWeekdays(plan'.dow),
                      {TickInstant(plan', d) - 1, TickInstant(plan', d)} \cap dark' = {}
               PROVE  \/ run'[d] # NoRun
                      \/ TickInstant(plan', d) = now' /\ scheduler' # NoTick /\ scheduler'.at <= now'
                         /\ scheduler'.pattern = DeriveTickCron(plan')
    BY DEF TicksOpen, TickInstant
  <1> DEFINE t == TickInstant(plan, d)
  <1>0. /\ now \in Nat /\ changed' \in Nat /\ plan \in Plan /\ plan' \in Plan /\ d \in Int
        /\ run[d] # NoRun => run'[d] # NoRun
    <2>1. Advance \/ Moved
      BY Steps
    <2>2. run[d] # NoRun => run'[d] # NoRun
      BY <2>1, Growth
    <2> QED
      BY <2>2, TimeAssumption DEF Typed, TypeOK, Instant, Date
  <1>1. /\ t \in Int /\ AnchorDate(plan.tz, t) = d /\ TickInstant(plan', d) \in Int
        /\ CronDow(d) \in ParseWeekdays(plan.dow) => Matches(DeriveTickCron(plan), t)
    BY <1>0, TickMatches
  <1> HIDE DEF t
  <1>2. CASE RowWritten
    BY <1>0, <1>1, <1>2 DEF RowWritten
  <1>3. ASSUME UNCHANGED <<now, dark, plan, active, changed>>
        PROVE  /\ TickInstant(plan', d) = t
               /\ \/ run[d] # NoRun
                  \/ t = now /\ scheduler # NoTick /\ scheduler.at <= now /\ scheduler.pattern = DeriveTickCron(plan)
    BY <1>3 DEF TicksOpen, t
  <1>4. CASE ScheduleAlone
    BY <1>0, <1>3, <1>4 DEF ScheduleAlone
  <1>5. CASE Boot \/ \E j \in jobs : ReconcileJob(j)
    <2>1. scheduler' = Reconciled /\ UNCHANGED <<now, dark, plan, active, changed, run>>
      BY <1>5 DEF Boot, ReconcileJob
    <2> QED
      BY <1>3, <2>1, ReconciledRight
  <1>6. CASE TickJob
    <2>1. UNCHANGED <<now, dark, plan, active, changed>> /\ OpenRun(FALSE, jobs)
      BY <1>6 DEF TickJob
    <2>2. CASE run[d] # NoRun
      BY <1>0, <2>2
    <2>3. CASE run[d] = NoRun /\ t = now
      <3>1. Today = d /\ IsActiveWeekday(plan, now)
        BY <1>1, <2>1, <2>3 DEF Today, IsActiveWeekday
      <3>2. run' = OpenedRun
        BY <2>1, <2>3, <3>1 DEF OpenRun
      <3> QED
        BY <3>1, <3>2, Opening, NoRunIsNone DEF Typed
    <2> QED
      BY <1>3, <2>1, <2>2, <2>3
  <1>7. CASE Advance
    <2>1. /\ UNCHANGED <<plan, active, changed, scheduler, run>> /\ now' = now + 1
          /\ dark \subseteq dark' /\ (up \/ now \in dark') /\ (up => ~TickDue /\ DueJobs = {})
      BY <1>7 DEF Advance
    <2>2. /\ TickInstant(plan', d) = t /\ {t - 1, t} \cap dark' = {} /\ active /\ changed < t /\ t <= now + 1
          /\ CronDow(d) \in ParseWeekdays(plan.dow)
      BY <2>1 DEF t
    <2>3. CASE t <= now
      <3>1. \/ run[d] # NoRun
            \/ t = now /\ scheduler # NoTick /\ scheduler.at <= now
        BY <2>1, <2>2, <2>3 DEF TicksOpen, t
      <3>2. CASE t = now /\ scheduler # NoTick /\ scheduler.at <= now
        <4>1. scheduler.at \in Nat
          BY <3>2 DEF Typed, TypeOK
        <4>2. up
          BY <2>1, <2>2, <3>2
        <4> QED
          BY <2>1, <3>2, <4>1, <4>2, OffsetAssumption DEF TickDue
      <3> QED
        BY <2>1, <3>1, <3>2
    <2>4. CASE t = now + 1
      <3>1. up
        BY <1>0, <2>1, <2>2, <2>4
      <3>2. \A j \in jobs : j.kind # "reconcile"
        BY <2>1, <3>1 DEF JobsServed, DueJobs
      <3>3. scheduler # NoTick /\ scheduler.pattern = DeriveTickCron(plan)
        BY <2>2, <3>1, <3>2 DEF SchedulerFollows
      <3>4. scheduler.at \in Nat
        BY <3>3 DEF Typed, TypeOK
      <3>5. Matches(scheduler.pattern, t)
        BY <1>1, <2>2, <3>3
      <3>6. scheduler.at <= now + 1
        <4> SUFFICES ASSUME now + 1 < scheduler.at PROVE FALSE
          BY <1>0, <3>4
        <4>1. now + 1 \in now..scheduler.at /\ now < now + 1
          BY <1>0, <3>4
        <4> QED
          BY <2>4, <3>3, <3>5, <4>1 DEF NoTickSkipped
      <3> QED
        BY <2>1, <2>2, <2>4, <3>3, <3>6
    <2> QED
      BY <1>0, <1>1, <2>2, <2>3, <2>4
  <1> QED
    BY <1>2, <1>4, <1>5, <1>6, <1>7, ScheduleSteps

(* The next run that the page announces. *)
LEMMA NextRunIsFirst ==
    ASSUME NEW p \in Plan, NEW t \in Nat
    PROVE  LET T == {u \in (t + 1)..(t + 8 * Day) : Local(p.tz, u) % Day = p.slot /\ IsActiveWeekday(p, u)}
           IN  NextRunInstant(p, t) \in T /\ NextRunInstant(p, t) = Min(T)
  <1> DEFINE off == Offset[p.tz]
             W == ParseWeekdays(p.dow)
             d == AnchorDate(p.tz, t)
             at(i) == (d + i) * Day + p.slot - off
             slots == {i \in 0..7 : at(i) > t /\ CronDow(d + i) \in W}
             T == {u \in (t + 1)..(t + 8 * Day) : Local(p.tz, u) % Day = p.slot /\ IsActiveWeekday(p, u)}
  <1>1. /\ p.tz \in Zone /\ off \in Nat /\ d \in Int /\ W \subseteq 0..6 /\ W # {}
        /\ p.slot \in 0..(Day - 1) /\ p.slot \in Nat /\ p.slot < Day
    <2>1. p.tz \in Zone /\ W \subseteq 0..6 /\ W # {} /\ p.slot \in 0..(Day - 1)
      BY Parsing
    <2>2. off \in Nat /\ d \in Int
      BY <2>1, Zones
    <2> HIDE DEF off, W, d
    <2> QED
      BY <2>1, <2>2, DayLength
  <1>2. d * Day <= t + off /\ t + off < d * Day + Day /\ d * Day \in Int
    <2>1. t + off \in Int /\ d = (t + off) \div Day
      BY <1>1 DEF AnchorDate, Local
    <2> HIDE DEF d, off
    <2> QED
      BY <1>1, <2>1, Division, DaysInOrder
  <1>3. NextRunInstant(p, t) = IF slots = {} THEN NoInstant ELSE at(Min(slots))
    BY DEF NextRunInstant, SendInstant
  <1> HIDE DEF d, off, W
  <1>4. \A i \in 0..8 : /\ at(i) = d * Day + i * Day + p.slot - off /\ d + i \in Int /\ i * Day \in Int
                        /\ 0 <= i * Day /\ i * Day <= 8 * Day /\ (i <= 7 => i * Day <= 7 * Day)
                        /\ (1 <= i => Day <= i * Day)
    <2> SUFFICES ASSUME NEW i \in 0..8
                 PROVE  /\ at(i) = d * Day + i * Day + p.slot - off /\ d + i \in Int /\ i * Day \in Int
                        /\ 0 <= i * Day /\ i * Day <= 8 * Day /\ (i <= 7 => i * Day <= 7 * Day)
                        /\ (1 <= i => Day <= i * Day)
      OBVIOUS
    <2>1. /\ (d + i) * Day = d * Day + i * Day /\ 0 <= i * Day /\ i * Day <= 8 * Day
          /\ (i <= 7 => i * Day <= 7 * Day) /\ (1 <= i => Day <= i * Day)
      BY <1>1, SomeDays
    <2>2. d + i \in Int /\ i * Day \in Int
      BY <1>1, DaysInOrder
    <2> QED
      BY <2>1, <2>2
  <1>5. \A i \in 0..8 : at(i) \in Int /\ Local(p.tz, at(i)) = (d + i) * Day + p.slot
    <2> SUFFICES ASSUME NEW i \in 0..8
                 PROVE  at(i) \in Int /\ Local(p.tz, at(i)) = (d + i) * Day + p.slot
      OBVIOUS
    <2>1. (d + i) * Day \in Int
      BY <1>4, DaysInOrder
    <2> QED
      BY <1>1, <2>1 DEF Local, off
  <1>6. \A i \in 0..8 : 1 <= i => at(i) > t
    BY <1>1, <1>2, <1>4, DayLength
  <1> HIDE DEF at
  <1>7. slots # {} /\ slots \in SUBSET Nat
    <2>1. PICK w \in 0..6 : w \in W
      BY <1>1
    <2>2. PICK i \in 1..7 : CronDow(d + i) = w
      BY <1>1, Weekdays
    <2> QED
      BY <1>6, <2>1, <2>2
  <1> DEFINE a == Min(slots)
  <1>8. a \in slots /\ \A i \in slots : a <= i
    BY <1>7, Least
  <1> HIDE DEF a
  <1>9. a \in 0..7 /\ a \in 0..8 /\ at(a) > t /\ CronDow(d + a) \in W
    BY <1>8
  <1>10. at(a) \in T
    <2>1. at(a) <= t + 8 * Day
      BY <1>1, <1>2, <1>4, <1>9, DayLength DEF at
    <2>2. at(a) \in (t + 1)..(t + 8 * Day)
      BY <1>5, <1>9, <2>1
    <2>3. Local(p.tz, at(a)) % Day = p.slot /\ AnchorDate(p.tz, at(a)) = d + a
      BY <1>1, <1>4, <1>5, <1>9, Dating DEF AnchorDate
    <2> QED
      BY <1>9, <2>2, <2>3 DEF IsActiveWeekday, W
  <1>11. ASSUME NEW u \in T
         PROVE  at(a) <= u
    <2> DEFINE e == AnchorDate(p.tz, u)
               i == e - d
    <2>1. u \in Nat /\ t < u /\ u <= t + 8 * Day /\ (u + off) % Day = p.slot /\ CronDow(e) \in W
      BY DayLength DEF Local, IsActiveWeekday, off, W
    <2>2. u + off \in Int /\ e = (u + off) \div Day
      BY <1>1, <2>1 DEF AnchorDate, Local, off
    <2> HIDE DEF e
    <2>3. e \in Int /\ e * Day \in Int /\ u + off = e * Day + p.slot
      <3>1. e \in Int /\ p.slot = (u + off) - e * Day
        BY <2>1, <2>2, Division
      <3> QED
        BY <1>1, <3>1, <2>1, DaysInOrder
    <2>4. i \in 0..8
      <3>1. d <= e
        <4> SUFFICES ASSUME e < d PROVE FALSE
          BY <1>1, <2>3
        <4>1. e * Day + Day <= d * Day
          BY <1>1, <2>3, DaysInOrder
        <4> QED
          BY <1>1, <1>2, <2>1, <2>3, <4>1, DayLength
      <3>2. e <= d + 8
        <4> SUFFICES ASSUME d + 8 < e PROVE FALSE
          BY <1>1, <2>3
        <4>1. (d + 8) * Day + Day <= e * Day
          BY <1>1, <2>3, DaysInOrder
        <4>2. (d + 8) * Day = d * Day + 8 * Day
          BY <1>1, SomeDays
        <4> QED
          BY <1>1, <1>2, <2>1, <2>3, <4>1, <4>2, DayLength
      <3> QED
        BY <1>1, <2>3, <3>1, <3>2
    <2>5. d + i = e
      BY <1>1, <2>3
    <2>6. u = at(i)
      BY <1>1, <2>1, <2>3, <2>5 DEF at
    <2> HIDE DEF i
    <2>7. a <= i
      <3>1. CASE i <= 7
        <4>1. i \in slots
          BY <2>1, <2>4, <2>5, <2>6, <3>1
        <4> QED
          BY <1>8, <4>1
      <3>2. CASE i = 8
        <4>1. CronDow(d + 1) \in W
          BY <1>1, <2>1, <2>5, <3>2, Weekdays
        <4>2. 1 \in slots
          BY <1>6, <4>1
        <4> QED
          BY <1>8, <1>9, <3>2, <4>2
      <3> QED
        BY <2>4, <3>1, <3>2
    <2>8. (d + a) * Day <= (d + i) * Day
      BY <1>1, <1>9, <2>4, <2>7, DaysInOrder
    <2>9. (d + a) * Day \in Int /\ (d + i) * Day \in Int
      BY <1>1, <1>9, <2>4, DaysInOrder
    <2> QED
      BY <1>1, <2>6, <2>8, <2>9 DEF at
  <1>12. T \in SUBSET Nat
    BY DayLength
  <1> HIDE DEF T
  <1>13. Min(T) = at(a)
    BY <1>10, <1>11, <1>12, LeastIs
  <1> QED
    BY <1>3, <1>7, <1>10, <1>13 DEF T, a

LEMMA HealthCases ==
    /\ Health = "running" =>
          /\ Runs # {} /\ LastRun.date = Today
          /\ run[Today].status # "completed"
    /\ Health \in {"missed", "waiting"} =>
          active /\ (Runs = {} \/ LastRun.date # Today)
    /\ Health = "missed" => IsActiveWeekday(plan, now)
  <1> DEFINE h == LastRun.date = Today
  <1> HIDE DEF h
  <1>1. CASE ~active
    BY <1>1 DEF Health, h
  <1>2. CASE active /\ Runs # {} /\ h
    BY <1>2 DEF Health, h
  <1>3. CASE active /\ (Runs = {} \/ ~h)
    BY <1>3 DEF Health, h
  <1> QED
    BY <1>1, <1>2, <1>3

LEMMA InitHealthRight == Init => HealthRight
  <1> SUFFICES ASSUME Init PROVE HealthRight
    OBVIOUS
  <1>1. /\ now = 0 /\ changed = 0 /\ up = FALSE /\ scheduler = NoTick /\ \A d \in Date : run[d] = NoRun
    BY DEF Init
  <1>2. Asking
    BY InitAsking
  <1>3. \A d \in Date : TickInstant(plan, d) \in Int
    BY <1>2, TickMatches DEF Asking, Typed, TypeOK, Date
  <1>4. TicksOpen
    BY <1>1, <1>3 DEF TicksOpen
  <1> QED
    BY <1>1, <1>2, <1>4 DEF HealthRight, RunsWait, SchedulerFollows, NoTickSkipped

LEMMA NextHealthRight == HealthRight /\ [Next]_vars => HealthRight'
  <1> SUFFICES ASSUME HealthRight, [Next]_vars PROVE HealthRight'
    OBVIOUS
  <1>1. Asking /\ Asking' /\ Typed /\ Typed' /\ JobsServed /\ (Advance \/ Moved)
    BY NextAsking, Steps DEF HealthRight, Asking
  <1> QED
    BY <1>1, RunsWaitStep, SchedulerFollowsStep, NoTickSkippedStep, TicksOpenStep DEF HealthRight

(* A run that the page misses: it is there unless its tick is excused.      *)
LEMMA MissedIsExcused ==
    ASSUME Typed, TicksOpen, active, CronDow(Today) \in ParseWeekdays(plan.dow),
           Runs = {} \/ LastRun.date # Today, ~Excused
    PROVE  \E d \in Runs : d > Today
  <1> DEFINE t == TickInstant(plan, Today)
  <1>1. /\ Today \in Date /\ now \in Nat /\ changed \in Nat /\ plan \in Plan
        /\ Date \subseteq Nat /\ (Horizon + 2 * Day) \div Day \in Nat
    <2>1. Today \in Date /\ now \in Nat /\ changed \in Nat /\ plan \in Plan
      BY TodayIsADate, TimeAssumption DEF Typed, TypeOK, Instant
    <2>2. Horizon + 2 * Day \in Nat
      BY TimeAssumption, DayLength
    <2> QED
      BY <2>1, <2>2, Division DEF Date
  <1>2. t \in Int
    BY <1>1, TickMatches
  <1>3. ~(now <= t) /\ ~(changed >= t) /\ ((t - 1)..now) \cap dark = {}
    BY DEF Excused
  <1> HIDE DEF t
  <1>4. {t - 1, t} \cap dark = {} /\ changed < t /\ t <= now /\ t # now
    BY <1>1, <1>2, <1>3
  <1>5. run[Today] # NoRun
    BY <1>1, <1>4 DEF TicksOpen, t
  <1>6. Today \in Runs /\ Runs # {} /\ LastRun.date = Max(Runs)
    BY <1>1, <1>5 DEF Runs, LastRun
  <1>7. Runs \in SUBSET Nat /\ \A d \in Runs : d <= (Horizon + 2 * Day) \div Day
    BY <1>1 DEF Runs, Date
  <1>8. Max(Runs) \in Runs /\ Today <= Max(Runs)
    BY <1>1, <1>6, <1>7, Greatest
  <1>9. Max(Runs) \in Nat /\ Today \in Nat /\ Max(Runs) # Today
    BY <1>1, <1>6, <1>7, <1>8
  <1> QED
    BY <1>8, <1>9

LEMMA RunningWaits ==
    ASSUME Typed, RunsWait, Health = "running"
    PROVE  LastRun.dmSent = 0 \/ LastRun.inProgress > 0
  <1> DEFINE d == Max(Runs)
             In(s) == {m \in Member : report[d][m].status = s}
  <1>1. LastRun.date = d /\ LastRun.dmSent = Cardinality(Member) - Cardinality(In("none"))
        /\ LastRun.inProgress = Cardinality(In("in_progress"))
    BY DEF LastRun
  <1>2. Runs # {} /\ d = Today /\ run[Today].status # "completed" /\ Today \in Date
    BY <1>1, HealthCases, TodayIsADate DEF Typed
  <1>3. d \in Runs
    <2>1. Horizon + 2 * Day \in Nat
      BY TimeAssumption, DayLength
    <2>2. (Horizon + 2 * Day) \div Day \in Nat
      BY <2>1, Division
    <2>3. Runs \in SUBSET Nat /\ \A e \in Runs : e <= (Horizon + 2 * Day) \div Day
      BY <2>2 DEF Runs, Date
    <2> QED
      BY <1>2, <2>2, <2>3, Greatest
  <1> HIDE DEF d
  <1>4. d \in Date /\ run[d] # NoRun /\ run[d] \in RunState
    BY <1>3 DEF Runs, Typed, TypeOK, RunState
  <1>5. run[d].status = "running"
    BY <1>2, <1>4 DEF RunState
  <1>6. \/ \A m \in Member : report[d][m].status = "none"
        \/ \E m \in Member : report[d][m].status = "in_progress"
    BY <1>4, <1>5 DEF RunsWait
  <1>7. Cardinality(Member) \in Nat
    BY MemberAssumption, FS_CardinalityType
  <1>8. CASE \A m \in Member : report[d][m].status = "none"
    <2>1. In("none") = Member
      BY <1>8
    <2> HIDE DEF In
    <2>2. Cardinality(Member) - Cardinality(In("none")) = 0
      BY <1>7, <2>1
    <2> QED
      BY <1>1, <2>2
  <1>9. CASE \E m \in Member : report[d][m].status = "in_progress"
    <2>1. In("in_progress") # {} /\ In("in_progress") \in SUBSET Member
      BY <1>9
    <2> HIDE DEF In
    <2>2. IsFiniteSet(In("in_progress"))
      BY <2>1, MemberAssumption, FS_Subset
    <2>3. Cardinality(In("in_progress")) \in Nat /\ Cardinality(In("in_progress")) # 0
      BY <2>1, <2>2, FS_CardinalityType, FS_EmptySet
    <2> QED
      BY <1>1, <2>3
  <1> QED
    BY <1>6, <1>8, <1>9

LEMMA HealthRightSuffices == HealthRight => HealthIsHonest
  <1> SUFFICES ASSUME HealthRight PROVE HealthIsHonest
    OBVIOUS
  <1>1. Typed /\ RunsWait /\ TicksOpen /\ plan \in Plan /\ now \in Nat
    BY TodayIsADate DEF HealthRight, Asking, Typed, TypeOK
  <1> DEFINE T == {t \in (now + 1)..(now + 8 * Day) :
                      Local(plan.tz, t) % Day = plan.slot /\ IsActiveWeekday(plan, t)}
  <1>2. NextRunAt \in T /\ NextRunAt = Min(T)
    BY <1>1, NextRunIsFirst DEF NextRunAt
  <1>3. ASSUME \/ Health = "missed"
               \/ Health = "waiting" /\ AnchorDate(plan.tz, NextRunAt) = Today,
               ~Excused
        PROVE  \E d \in Runs : d > Today
    <2>1. IsActiveWeekday(plan, now) \/ (IsActiveWeekday(plan, NextRunAt) /\ AnchorDate(plan.tz, NextRunAt) = Today)
      BY <1>2, <1>3, HealthCases
    <2>2. CronDow(Today) \in ParseWeekdays(plan.dow)
      BY <2>1 DEF IsActiveWeekday, Today
    <2>3. active /\ (Runs = {} \/ LastRun.date # Today)
      BY <1>3, HealthCases
    <2> QED
      BY <1>1, <1>3, <2>2, <2>3, MissedIsExcused
  <1>4. Health = "running" => LastRun.dmSent = 0 \/ LastRun.inProgress > 0
    BY <1>1, RunningWaits
  <1> HIDE DEF T
  <1> QED
    BY <1>2, <1>3, <1>4 DEF HealthIsHonest, T

(* The health page misses no run and promises none for later today while    *)
(* the scheduler works; a run that it calls running has not been asked      *)
(* about or waits for somebody; and the next run it announces is the first  *)
(* instant to come at which the clock shows an active day and the time      *)
(* (health.ts:8-11, 38-42; sendInstants.ts:46-50).                          *)
THEOREM PageIsHonest == Spec => []HealthIsHonest
  BY InitHealthRight, NextHealthRight, HealthRightSuffices, PTL DEF Spec

=============================================================================
