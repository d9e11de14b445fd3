--------------------------- MODULE ScheduleReconcile ---------------------------
(***************************************************************************)
(* The schedule of every standup exists twice: in its Postgres row, which  *)
(* the web process edits, and as a BullMQ job scheduler in Redis, which    *)
(* produces the open-run ticks.  reconcileSchedules copies the first to    *)
(* the second.  The worker runs it at boot and for every reconcile job,    *)
(* and reconcile-cli runs it in a process of its own; the web process asks *)
(* for it after an edit, in a step of its own.  Each await is a step.      *)
(***************************************************************************)
EXTENDS Naturals, FiniteSets

CONSTANTS
    Standup,   \* the standups that exist or may be created
    Schedule,  \* what schedule_cron and schedule_tz of a row may say
    Tick,      \* the tick patterns with their time zone
    NoTick,    \* no job scheduler, or a row that asks for none
    NoRow,     \* the standup has not been configured yet
    TickOf,    \* TickOf[c]: deriveTickCron of c with its zone, NoTick if it throws
    MaxJobs,   \* bound on the reconcile jobs that the timer lets pile up
    Budget     \* how often each unforced event may happen

EnvEvent == {"edit", "outage", "throw", "crash", "cli"}

ASSUME TickAssumption == /\ NoTick \notin Tick /\ NoRow \notin Schedule
                         /\ TickOf \in [Schedule -> Tick \cup {NoTick}]
ASSUME MaxJobsAssumption == MaxJobs \in Nat \ {0}
ASSUME BudgetAssumption == Budget \in [EnvEvent -> Nat]

Reconciler == {"worker", "cli"}
Awaiting   == {"rows", "list", "fix"}   \* the awaits of reconcileSchedules

VARIABLES
    row,         \* row[s]: the standup's schedule in Postgres
    active,      \* active[s]: standups.is_active
    scheduler,   \* scheduler[s]: the open-run job scheduler with the key s in Redis
    timer,       \* the job scheduler that produces a reconcile job every 15 minutes is registered
    jobs,        \* reconcile jobs that wait in the queue
    unannounced, \* edits of the web process that are written but not enqueued yet
    pc,          \* pc[r]: the await r is suspended at, "idle" between jobs, "down"
    booting,     \* the worker reconciles because it boots, not for a job
    seen,        \* seen[r][s]: the tick that r read the row of s to ask for
    toRemove,    \* toRemove[r], toAdd[r]: what r still has to change
    toAdd,
    left         \* what remains of Budget

rowVars   == <<row, active>>
redisVars == <<scheduler, timer, jobs>>
runVars   == <<pc, booting, seen, toRemove, toAdd>>
vars      == <<rowVars, redisVars, unannounced, runVars, left>>

(* The rows of active standups, less those whose tick cannot be derived. *)
Desired(s) == IF row[s] # NoRow /\ active[s] THEN TickOf[row[s]] ELSE NoTick

Init ==
    /\ row \in [Standup -> Schedule \cup {NoRow}]
    /\ active \in [Standup -> BOOLEAN]
    /\ \A s \in Standup : row[s] = NoRow => active[s]   \* is_active defaults to true
    /\ scheduler = [s \in Standup |-> NoTick]
    /\ timer = FALSE
    /\ jobs = 0
    /\ unannounced = 0
    /\ pc = [r \in Reconciler |-> "down"]
    /\ booting = FALSE
    /\ seen = [r \in Reconciler |-> [s \in Standup |-> NoTick]]
    /\ toRemove = [r \in Reconciler |-> {}]
    /\ toAdd = [r \in Reconciler |-> {}]
    /\ left = Budget

Spend(e) == left[e] > 0 /\ left' = [left EXCEPT ![e] = @ - 1]

-----------------------------------------------------------------------------
(* The web process. *)

(* upsertStandup: a new row, or a new schedule in an old one. *)
SaveStandup(s, c) ==
    /\ Spend("edit")
    /\ row' = [row EXCEPT ![s] = c]
    /\ unannounced' = unannounced + 1
    /\ UNCHANGED <<active, redisVars, runVars>>

(* toggleActiveAction writes the negation of what it read before, which    *)
(* another click may have changed meanwhile.                               *)
SetStandupActive(s, b) ==
    /\ row[s] # NoRow
    /\ Spend("edit")
    /\ active' = [active EXCEPT ![s] = b]
    /\ unannounced' = unannounced + 1
    /\ UNCHANGED <<row, redisVars, runVars>>

EnqueueReconcile ==
    /\ unannounced > 0
    /\ unannounced' = unannounced - 1
    /\ jobs' = jobs + 1
    /\ UNCHANGED <<rowVars, scheduler, timer, runVars, left>>

(* Redis is out of reach: the edit stays and nobody is told. *)
EnqueueFails ==
    /\ unannounced > 0
    /\ Spend("outage")
    /\ unannounced' = unannounced - 1
    /\ UNCHANGED <<rowVars, redisVars, runVars>>

(* The repeatable reconcile job.  BullMQ keeps one of them at a time. *)
TimerFires ==
    /\ timer
    /\ jobs < MaxJobs
    /\ jobs' = jobs + 1
    /\ UNCHANGED <<rowVars, scheduler, timer, unannounced, runVars, left>>

-----------------------------------------------------------------------------
(* reconcileSchedules, whoever runs it. *)

Start(r) == pc' = [pc EXCEPT ![r] = "rows"] /\ UNCHANGED <<seen, toRemove, toAdd>>

Boot ==
    /\ pc["worker"] = "down"
    /\ Start("worker")
    /\ booting' = TRUE
    /\ UNCHANGED <<rowVars, redisVars, unannounced, left>>

TakeJob ==
    /\ pc["worker"] = "idle"
    /\ jobs > 0
    /\ jobs' = jobs - 1
    /\ Start("worker")
    /\ UNCHANGED <<rowVars, scheduler, timer, unannounced, booting, left>>

RunCli ==
    /\ pc["cli"] = "down"
    /\ Spend("cli")
    /\ Start("cli")
    /\ UNCHANGED <<rowVars, redisVars, unannounced, booting>>

\* Faulty variant: the worker does not register the repeatable reconcile job.
DoneWithoutTimer(r) ==
    /\ pc' = [pc EXCEPT ![r] = IF r = "cli" THEN "down" ELSE "idle"]
    /\ booting' = (r # "worker" /\ booting)
    /\ UNCHANGED timer

\* Faulty variant: a worker that is up still behaves as if it was booting.
DoneStillBooting(r) ==
    /\ pc' = [pc EXCEPT ![r] = IF r = "cli" THEN "down" ELSE "idle"]
    /\ timer' = (timer \/ (r = "worker" /\ booting))
    /\ UNCHANGED booting

(* r is through: the cli exits, and a worker that was booting registers    *)
(* the repeatable reconcile job before it takes the first job.             *)
Done(r) ==
    /\ pc' = [pc EXCEPT ![r] = IF r = "cli" THEN "down" ELSE "idle"]
    /\ timer' = (timer \/ (r = "worker" /\ booting))
    /\ booting' = (r # "worker" /\ booting)

ReadRows(r) ==
    /\ pc[r] = "rows"
    /\ seen' = [seen EXCEPT ![r] = [s \in Standup |-> Desired(s)]]
    /\ pc' = [pc EXCEPT ![r] = "list"]
    /\ UNCHANGED <<rowVars, redisVars, unannounced, booting, toRemove, toAdd, left>>

\* Faulty variant: every scheduler is removed before the rows are looked at.
AnyScheduler(r) == {s \in Standup : scheduler[s] # NoTick}

(* diffSchedules: a scheduler with the wrong tick is removed and added. *)
Superfluous(r) == {s \in Standup : scheduler[s] # NoTick /\ scheduler[s] # seen[r][s]}
Missing(r)     == {s \in Standup : seen[r][s] # NoTick /\ scheduler[s] # seen[r][s]}

ListSchedulers(r) ==
    /\ pc[r] = "list"
    /\ toRemove' = [toRemove EXCEPT ![r] = Superfluous(r)]
    /\ toAdd' = [toAdd EXCEPT ![r] = Missing(r)]
    /\ IF Superfluous(r) \cup Missing(r) = {} THEN Done(r)
       ELSE pc' = [pc EXCEPT ![r] = "fix"] /\ UNCHANGED <<timer, booting>>
    /\ UNCHANGED <<rowVars, scheduler, jobs, unannounced, seen, left>>

RemoveScheduler(r, s) ==
    /\ pc[r] = "fix"
    /\ s \in toRemove[r]
    /\ scheduler' = [scheduler EXCEPT ![s] = NoTick]
    /\ toRemove' = [toRemove EXCEPT ![r] = @ \ {s}]
    /\ IF toRemove[r] = {s} /\ toAdd[r] = {} THEN Done(r) ELSE UNCHANGED <<timer, pc, booting>>
    /\ UNCHANGED <<rowVars, jobs, unannounced, seen, toAdd, left>>

\* Faulty variant: the additions do not wait for the removals.
UpsertAtOnce(r, s) ==
    /\ pc[r] = "fix"
    /\ s \in toAdd[r]
    /\ scheduler' = [scheduler EXCEPT ![s] = seen[r][s]]
    /\ toAdd' = [toAdd EXCEPT ![r] = @ \ {s}]
    /\ IF toAdd[r] = {s} /\ toRemove[r] = {} THEN Done(r) ELSE UNCHANGED <<timer, pc, booting>>
    /\ UNCHANGED <<rowVars, jobs, unannounced, seen, toRemove, left>>

UpsertScheduler(r, s) ==
    /\ pc[r] = "fix"
    /\ toRemove[r] = {}
    /\ s \in toAdd[r]
    /\ scheduler' = [scheduler EXCEPT ![s] = seen[r][s]]
    /\ toAdd' = [toAdd EXCEPT ![r] = @ \ {s}]
    /\ IF toAdd[r] = {s} THEN Done(r) ELSE UNCHANGED <<timer, pc, booting>>
    /\ UNCHANGED <<rowVars, jobs, unannounced, seen, toRemove, left>>

Runs(r) ==
    \/ ReadRows(r) \/ ListSchedulers(r)
    \/ \E s \in Standup : RemoveScheduler(r, s) \/ UpsertScheduler(r, s)

(* An await throws.  A reconcile job has a single attempt; a booting       *)
(* worker and the cli exit.                                                *)
Throws(r) ==
    /\ pc[r] \in Awaiting
    /\ Spend("throw")
    /\ pc' = [pc EXCEPT ![r] = IF r = "worker" /\ ~booting THEN "idle" ELSE "down"]
    /\ booting' = (r # "worker" /\ booting)
    /\ UNCHANGED <<rowVars, redisVars, unannounced, seen, toRemove, toAdd>>

(* The worker dies, and a job in hand is stalled and goes back.            *)
Crash ==
    /\ pc["worker"] # "down"
    /\ Spend("crash")
    /\ jobs' = jobs + (IF pc["worker"] \in Awaiting /\ ~booting THEN 1 ELSE 0)
    /\ pc' = [pc EXCEPT !["worker"] = "down"]
    /\ booting' = FALSE
    /\ UNCHANGED <<rowVars, scheduler, timer, unannounced, seen, toRemove, toAdd>>

Next ==
    \/ \E s \in Standup, c \in Schedule : SaveStandup(s, c)
    \/ \E s \in Standup, b \in BOOLEAN : SetStandupActive(s, b)
    \/ EnqueueReconcile \/ EnqueueFails \/ TimerFires
    \/ Boot \/ TakeJob \/ RunCli \/ Crash
    \/ \E r \in Reconciler : Runs(r) \/ Throws(r)

Spec == Init /\ [][Next]_vars

(* The container is restarted, a started process goes on, the queue is     *)
(* worked off and the timer keeps firing.                                  *)
Fairness ==
    /\ WF_vars(EnqueueReconcile \/ EnqueueFails)
    /\ WF_vars(Boot) /\ WF_vars(TakeJob) /\ WF_vars(TimerFires)
    /\ \A r \in Reconciler : WF_vars(Runs(r))

FairSpec == Spec /\ Fairness

-----------------------------------------------------------------------------
(* Every variable has its type, and only a worker at an await is booting. *)
TypeOK ==
    /\ row \in [Standup -> Schedule \cup {NoRow}]
    /\ active \in [Standup -> BOOLEAN]
    /\ scheduler \in [Standup -> Tick \cup {NoTick}]
    /\ timer \in BOOLEAN
    /\ jobs \in Nat
    /\ unannounced \in Nat
    /\ pc \in [Reconciler -> Awaiting \cup {"idle", "down"}]
    /\ booting \in BOOLEAN
    /\ booting => pc["worker"] \in Awaiting
    /\ seen \in [Reconciler -> [Standup -> Tick \cup {NoTick}]]
    /\ toRemove \in [Reconciler -> SUBSET Standup]
    /\ toAdd \in [Reconciler -> SUBSET Standup]
    /\ left \in [EnvEvent -> Nat]

InSync(s) == scheduler[s] = Desired(s)

(* A further reconcile is on its way to the worker. *)
Announced == jobs > 0 \/ unannounced > 0

(* No request got lost, no await failed and nobody has run the cli so far. *)
Untroubled == \A e \in {"outage", "throw", "cli"} : left[e] = Budget[e]

(* When the worker is up and has nothing left to reconcile, Redis holds    *)
(* exactly the schedulers that the rows ask for: no edit is lost to a      *)
(* reconcile that was under way, nor to a crash (queue.ts:46-50,           *)
(* scheduler.md:65-68), as long as there was no other trouble.             *)
QuietMeansSynced ==
    Untroubled /\ pc["worker"] = "idle" /\ ~Announced => \A s \in Standup : InSync(s)

(* A scheduler that is right is taken away only by a reconcile that        *)
(* overtook an edit, and that edit's own reconcile is still to come:       *)
(* unchanged standups are left alone (reconcileSchedules.ts:30-33).        *)
NoChurn ==
    [][\A s \in Standup :
          Untroubled /\ InSync(s) /\ scheduler'[s] # scheduler[s] => Announced]_vars

(* Whatever was lost on the way (an enqueue, a failed reconcile, a stale   *)
(* write of the cli), the schedulers end up as the rows ask and stay so    *)
(* (scheduler.md:69-71).                                                   *)
SelfHeals == <>[](\A s \in Standup : InSync(s))
=============================================================================
