------------------------------ MODULE StandupDay ------------------------------
(***************************************************************************)
(* One standup on one calendar day: the run row, the report rows, the      *)
(* BullMQ queue, the single worker process that takes jobs from it, the    *)
(* message handlers of the API process and the server actions of the web   *)
(* process.  All of them share the Postgres rows below and none of them    *)
(* takes a lock, so every await is a place where the others may step in:   *)
(* an action is the code from one await to the next.                       *)
(*                                                                         *)
(*   worker   openRun, sendDm, retrigger, timeoutReport (one job at a time)*)
(*   api      handleMessage, handleCommand (any number at a time)          *)
(*   web      add / change / remove a member, late join, pause, trigger    *)
(***************************************************************************)
EXTENDS Naturals, FiniteSets

CONSTANTS
    Member,     \* the people who are, or may become, members of the team
    Handler,    \* identities of concurrently running API message handlers
    Questions,  \* number of questions of the standup (its list is fixed here)
    FailAt,     \* the steps whose await may throw, or at which the worker may die
    Budget      \* how often each unforced event of the environment may happen

(* The events of the environment that Budget bounds. *)
EnvEvent == {"tick", "trigger", "staff", "pause", "keyword", "throw", "crash"}

ASSUME QuestionsAssumption == Questions \in Nat \ {0}
ASSUME BudgetAssumption == Budget \in [EnvEvent -> Nat]

TeamKind   == {"tick", "open", "force"}          \* open-run jobs
MemberKind == {"send", "retrigger", "timeout"}   \* jobs that name one member

(* queue.ts gives every job three attempts, but the open-run jobs that the *)
(* job scheduler produces carry no options and so have only one.           *)
Attempts(kind) == IF kind = "tick" THEN 1 ELSE 3

Job == [kind : TeamKind, tries : 0..2] \cup
       [kind : MemberKind, who : Member, tries : 0..2]

NoJob == [kind |-> "none"]

TeamJob(kind)      == [kind |-> kind, tries |-> 0]
MemberJob(kind, m) == [kind |-> kind, who |-> m, tries |-> 0]

(* The awaits at which the worker can be suspended within a job. *)
FinalizeStep  == {"runRead", "reportsRead", "runWrite"}
WorkerStep    == {"standup", "ensure", "members", "fan", "exists", "ask", "insert", "arm",
                  "guard", "reset", "reopen", "deadline", "rearm", "expire"} \cup FinalizeStep
(* ... of which these are the ones where the job at hand is all that will  *)
(* time the report out,                                                    *)
TimerStep     == {"reopen", "arm", "deadline", "rearm", "expire"}
(* ... and those at which an API handler can be. *)
HandlerStep   == {"next", "complete", "outro", "broadcast", "abort", "reply",
                  "dayState", "slash", "enqueue"} \cup FinalizeStep
JoinStep      == {"joinRun", "joinReport", "joinSend"}

HandlerState  == [id : Handler, who : Member, seen : 0..(Questions - 1), pc : HandlerStep]
JoinState     == [who : Member, pc : JoinStep]

Terminal      == {"completed", "timed_out"}
ReportStatus  == {"none", "in_progress"} \cup Terminal

VARIABLES
    run,         \* standup_runs.status of today's run, "none" while there is no row
    active,      \* standups.is_active
    membership,  \* membership[m]: no team_members row, a row without or with can_report
    status,      \* status[m]: standup_reports.status, "none" while there is no row
    answers,     \* answers[m]: length of standup_reports.answers
    overdue,     \* overdue[m]: timeout_at of m's report has passed
    asked,       \* asked[m]: how often m was sent the first question
    posted,      \* posted[m]: how often a report of m was posted to the channel
    queue,       \* queue[j]: number of jobs j waiting, delayed or about to be retried
    wpc,         \* the await at which the worker is suspended, or "idle"
    wjob,        \* the job the worker holds
    created,     \* ensureRunOpen's result for that job
    todo,        \* the members that fanOutSends has still to enqueue
    inflight,    \* the API handlers that are running
    joins,       \* the late-join checks that are running in the web process
    left         \* what remains of Budget

dbVars     == <<run, active, membership, status, answers, overdue>>
slackVars  == <<asked, posted>>
workerVars == <<wpc, wjob, created, todo>>
vars       == <<dbVars, slackVars, queue, workerVars, inflight, joins, left>>

Reporters == {m \in Member : membership[m] = "reporter"}

Init ==
    /\ run = "none"
    /\ active = TRUE
    /\ membership \in [Member -> {"absent", "viewer", "reporter"}]
    /\ status  = [m \in Member |-> "none"]
    /\ answers = [m \in Member |-> 0]
    /\ overdue = [m \in Member |-> FALSE]
    /\ asked   = [m \in Member |-> 0]
    /\ posted  = [m \in Member |-> 0]
    /\ queue   = [j \in Job |-> 0]
    /\ wpc = "idle" /\ wjob = NoJob /\ created = FALSE /\ todo = {}
    /\ inflight = {}
    /\ joins = {}
    /\ left = Budget

Plus(q, j) == [q EXCEPT ![j] = @ + 1]
Enqueue(j) == queue' = Plus(queue, j)

Spend(e) == left[e] > 0 /\ left' = [left EXCEPT ![e] = @ - 1]

-----------------------------------------------------------------------------
(* The worker: BullMQ's Worker with its default concurrency of one.  A     *)
(* delayed job may come due at any moment, so Take picks any job.          *)

FirstStep(kind) ==
    CASE kind \in TeamKind \cup {"retrigger"} -> "standup"
      [] kind = "send"                        -> "exists"
      [] kind = "timeout"                     -> "deadline"

Finish   == wpc' = "idle" /\ wjob' = NoJob /\ created' = FALSE /\ todo' = {}
Goto(pc) == wpc' = pc /\ UNCHANGED <<wjob, created, todo>>

Take(j) ==
    /\ wpc = "idle"
    /\ queue[j] > 0
    /\ queue' = [queue EXCEPT ![j] = @ - 1]
    /\ wpc' = FirstStep(j.kind)
    /\ wjob' = j
    /\ UNCHANGED <<created, todo, dbVars, slackVars, inflight, joins, left>>

(* openRun and retrigger: a paused standup ends the job. *)
LoadStandup ==
    /\ wpc = "standup"
    /\ IF active THEN Goto("ensure") ELSE Finish
    /\ UNCHANGED <<dbVars, slackVars, queue, inflight, joins, left>>

\* Faulty variant: the insert's conflict clause sets the status back.
OpenRunAgain ==
    /\ wpc = "ensure"
    /\ created' = (run = "none")
    /\ run' = "running"
    /\ IF wjob.kind \notin {"retrigger", "force"} /\ run # "none"
       THEN wpc' = "idle" /\ wjob' = NoJob
       ELSE wpc' = (IF wjob.kind = "retrigger" THEN "guard" ELSE "members") /\ UNCHANGED wjob
    /\ UNCHANGED <<todo, active, membership, status, answers, overdue>>
    /\ UNCHANGED <<slackVars, queue, inflight, joins, left>>

(* ensureRunOpen's insert ... on conflict do nothing, and what the caller  *)
(* does with the result.  The opening message that follows is best-effort. *)
EnsureRunOpen ==
    /\ wpc = "ensure"
    /\ created' = (run = "none")
    /\ run' = IF run = "none" THEN "running" ELSE run
    /\ IF wjob.kind \notin {"retrigger", "force"} /\ run # "none"
       THEN wpc' = "idle" /\ wjob' = NoJob
       ELSE wpc' = (IF wjob.kind = "retrigger" THEN "guard" ELSE "members") /\ UNCHANGED wjob
    /\ UNCHANGED <<todo, active, membership, status, answers, overdue>>
    /\ UNCHANGED <<slackVars, queue, inflight, joins, left>>

(* fanOutSends reads the reporting members; a retrigger leaves out the     *)
(* member who asked for it.                                                *)
ListMembers ==
    /\ wpc = "members"
    /\ LET due == IF wjob.kind = "retrigger" THEN Reporters \ {wjob.who} ELSE Reporters
       IN  IF due = {} THEN Finish
           ELSE wpc' = "fan" /\ todo' = due /\ UNCHANGED <<wjob, created>>
    /\ UNCHANGED <<dbVars, slackVars, queue, inflight, joins, left>>

(* One round of fanOutSends' loop, in whatever order the rows came. *)
FanOut(m) ==
    /\ wpc = "fan"
    /\ m \in todo
    /\ Enqueue(MemberJob("send", m))
    /\ IF todo = {m} THEN Finish
       ELSE todo' = todo \ {m} /\ UNCHANGED <<wpc, wjob, created>>
    /\ UNCHANGED <<dbVars, slackVars, inflight, joins, left>>

\* Faulty variant: sendDm without its existence check.
UncheckedSend ==
    /\ wpc = "exists"
    /\ Goto("ask")
    /\ UNCHANGED <<dbVars, slackVars, queue, inflight, joins, left>>

(* sendDm: a member who has a report row already was asked already. *)
CheckNotSent ==
    /\ wpc = "exists"
    /\ IF status[wjob.who] = "none" THEN Goto("ask") ELSE Finish
    /\ UNCHANGED <<dbVars, slackVars, queue, inflight, joins, left>>

\* Faulty variant: a retrigger opens its report the way sendDm does.
AskThenInsert ==
    /\ wpc = "ask"
    /\ asked' = [asked EXCEPT ![wjob.who] = @ + 1]
    /\ Goto("insert")
    /\ UNCHANGED <<dbVars, posted, queue, inflight, joins, left>>

(* sendDm and retrigger post the intro and the first question before they  *)
(* write the report row.                                                   *)
AskFirstQuestion ==
    /\ wpc = "ask"
    /\ asked' = [asked EXCEPT ![wjob.who] = @ + 1]
    /\ Goto(IF wjob.kind = "send" THEN "insert" ELSE "reset")
    /\ UNCHANGED <<dbVars, posted, queue, inflight, joins, left>>

OpenReport(m) ==
    /\ status'  = [status EXCEPT ![m] = "in_progress"]
    /\ answers' = [answers EXCEPT ![m] = 0]
    /\ overdue' = [overdue EXCEPT ![m] = FALSE]

InsertReport ==
    /\ wpc = "insert"
    /\ IF status[wjob.who] = "none" THEN OpenReport(wjob.who)
       ELSE UNCHANGED <<status, answers, overdue>>
    /\ Goto("arm")
    /\ UNCHANGED <<run, active, membership, slackVars, queue, inflight, joins, left>>

(* enqueueTimeout.  A retrigger that had to open the run itself goes on to *)
(* fan out to the rest of the team.                                        *)
ArmTimeout ==
    /\ wpc = "arm"
    /\ Enqueue(MemberJob("timeout", wjob.who))
    /\ IF wjob.kind = "retrigger" /\ created THEN Goto("members") ELSE Finish
    /\ UNCHANGED <<dbVars, slackVars, inflight, joins, left>>

(* retrigger: only an absent or timed-out report is (re)opened. *)
GuardRetrigger ==
    /\ wpc = "guard"
    /\ IF status[wjob.who] \in {"none", "timed_out"} THEN Goto("ask") ELSE Finish
    /\ UNCHANGED <<dbVars, slackVars, queue, inflight, joins, left>>

(* The upsert writes a fresh in_progress row whatever is there by now. *)
ResetReport ==
    /\ wpc = "reset"
    /\ OpenReport(wjob.who)
    /\ Goto("reopen")
    /\ UNCHANGED <<run, active, membership, slackVars, queue, inflight, joins, left>>

ReopenRun ==
    /\ wpc = "reopen"
    /\ run' = "running"
    /\ Goto("arm")
    /\ UNCHANGED <<active, membership, status, answers, overdue>>
    /\ UNCHANGED <<slackVars, queue, inflight, joins, left>>

\* Faulty variant: an early timeout job is not enqueued again.
ForgetfulDeadline ==
    /\ wpc = "deadline"
    /\ IF status[wjob.who] = "in_progress" /\ overdue[wjob.who] THEN Goto("expire") ELSE Finish
    /\ UNCHANGED <<dbVars, slackVars, queue, inflight, joins, left>>

(* timeoutReport reads the report; only an unfinished one whose deadline   *)
(* has passed is timed out, and a moved deadline re-enqueues the job.      *)
ReadDeadline ==
    /\ wpc = "deadline"
    /\ IF status[wjob.who] # "in_progress" THEN Finish
       ELSE Goto(IF overdue[wjob.who] THEN "expire" ELSE "rearm")
    /\ UNCHANGED <<dbVars, slackVars, queue, inflight, joins, left>>

RearmTimeout ==
    /\ wpc = "rearm"
    /\ Enqueue(MemberJob("timeout", wjob.who))
    /\ Finish
    /\ UNCHANGED <<dbVars, slackVars, inflight, joins, left>>

\* Faulty variant: a timeout does not look whether the run is finished.
ExpireAndStop ==
    /\ wpc = "expire"
    /\ status' = [status EXCEPT ![wjob.who] = "timed_out"]
    /\ Finish
    /\ UNCHANGED <<run, active, membership, answers, overdue>>
    /\ UNCHANGED <<slackVars, queue, inflight, joins, left>>

(* The update names the row only: it does not look at its status again. *)
Expire ==
    /\ wpc = "expire"
    /\ status' = [status EXCEPT ![wjob.who] = "timed_out"]
    /\ Goto("runRead")
    /\ UNCHANGED <<run, active, membership, answers, overdue>>
    /\ UNCHANGED <<slackVars, queue, inflight, joins, left>>

(* finalizeRunIfDone reads the run, then the reports, then writes the run. *)
AllReportsTerminal == \A m \in Member : status[m] \in Terminal \cup {"none"}

WorkerFinalize ==
    /\ \/ wpc = "runRead" /\ run' = run
          /\ IF run = "completed" THEN Finish ELSE Goto("reportsRead")
       \/ wpc = "reportsRead" /\ run' = run
          /\ IF AllReportsTerminal THEN Goto("runWrite") ELSE Finish
       \/ wpc = "runWrite" /\ run' = "completed" /\ Finish
    /\ UNCHANGED <<active, membership, status, answers, overdue>>
    /\ UNCHANGED <<slackVars, queue, inflight, joins, left>>

WorkerRuns ==
    \/ LoadStandup \/ EnsureRunOpen \/ ListMembers \/ \E m \in Member : FanOut(m)
    \/ CheckNotSent \/ AskFirstQuestion \/ InsertReport \/ ArmTimeout
    \/ GuardRetrigger \/ ResetReport \/ ReopenRun
    \/ ReadDeadline \/ RearmTimeout \/ Expire \/ WorkerFinalize

MayRetry(j) == j.tries + 1 < Attempts(j.kind)

(* The job's handler throws: BullMQ runs it again from the top while it    *)
(* has attempts left and parks it in the failed set otherwise.             *)
WorkerThrows ==
    /\ wpc \in FailAt \cap WorkerStep
    /\ Spend("throw")
    /\ IF MayRetry(wjob) THEN Enqueue([wjob EXCEPT !.tries = @ + 1]) ELSE UNCHANGED queue
    /\ Finish
    /\ UNCHANGED <<dbVars, slackVars, inflight, joins>>

(* The process dies: BullMQ finds the job stalled and puts it back.  It    *)
(* does so once per job, which a budget of one crash keeps to.             *)
WorkerCrashes ==
    /\ wpc \in FailAt \cap WorkerStep
    /\ Spend("crash")
    /\ Enqueue(wjob)
    /\ Finish
    /\ UNCHANGED <<dbVars, slackVars, inflight, joins>>

-----------------------------------------------------------------------------
(* The API process.  A handler works on what it read when it started.      *)

Start(id, m, n, pc) ==
    /\ \A h \in inflight : h.id # id
    /\ inflight' = inflight \cup {[id |-> id, who |-> m, seen |-> n, pc |-> pc]}
    /\ UNCHANGED <<dbVars, slackVars, queue, workerVars, joins>>

GoOn(h, pc) == inflight' = (inflight \ {h}) \cup {[h EXCEPT !.pc = pc]}
Return(h)   == inflight' = inflight \ {h}

(* A reply to an open report: advanceReport's verdict depends only on how  *)
(* many answers were read.                                                 *)
ReceiveReply(id, m) ==
    /\ status[m] = "in_progress"
    /\ answers[m] < Questions
    /\ Start(id, m, answers[m], IF answers[m] + 1 >= Questions THEN "complete" ELSE "next")
    /\ UNCHANGED left

ReceiveSkipAll(id, m) ==
    /\ status[m] = "in_progress"
    /\ answers[m] < Questions
    /\ Start(id, m, answers[m], "abort")
    /\ UNCHANGED left

(* A keyword from somebody without an open report, or /standup start. *)
ReceiveKeyword(id, m) ==
    /\ status[m] # "in_progress"
    /\ Spend("keyword")
    /\ Start(id, m, 0, "dayState")

ReceiveSlashStart(id, m) ==
    /\ Spend("keyword")
    /\ Start(id, m, 0, "slash")

WriteNext(h) ==
    /\ h.pc = "next"
    /\ answers' = [answers EXCEPT ![h.who] = h.seen + 1]
    /\ overdue' = [overdue EXCEPT ![h.who] = FALSE]
    /\ Return(h)
    /\ UNCHANGED <<run, active, membership, status, slackVars, queue, workerVars, joins, left>>

(* Both terminal writes name the row by id and overwrite its status. *)
WriteComplete(h) ==
    /\ h.pc = "complete"
    /\ answers' = [answers EXCEPT ![h.who] = h.seen + 1]
    /\ status'  = [status EXCEPT ![h.who] = "completed"]
    /\ GoOn(h, "outro")
    /\ UNCHANGED <<run, active, membership, overdue, slackVars, queue, workerVars, joins, left>>

\* Faulty variant: skipping does not look whether the run is finished.
AbortAndStop(h) ==
    /\ h.pc = "abort"
    /\ status' = [status EXCEPT ![h.who] = "timed_out"]
    /\ Return(h)
    /\ UNCHANGED <<run, active, membership, answers, overdue>>
    /\ UNCHANGED <<slackVars, queue, workerVars, joins, left>>

WriteAbort(h) ==
    /\ h.pc = "abort"
    /\ status' = [status EXCEPT ![h.who] = "timed_out"]
    /\ GoOn(h, "reply")
    /\ UNCHANGED <<run, active, membership, answers, overdue>>
    /\ UNCHANGED <<slackVars, queue, workerVars, joins, left>>

(* The message that follows a terminal write; a failure here is not caught. *)
AnswerMember(h) ==
    /\ \/ h.pc = "outro" /\ GoOn(h, "broadcast")
       \/ h.pc = "reply" /\ GoOn(h, "runRead")
    /\ UNCHANGED <<dbVars, slackVars, queue, workerVars, joins, left>>

(* broadcastReport posts to the channel; it catches its own failures. *)
Broadcast(h) ==
    /\ h.pc = "broadcast"
    /\ posted' = [posted EXCEPT ![h.who] = @ + 1]
    /\ GoOn(h, "runRead")
    /\ UNCHANGED <<dbVars, asked, queue, workerVars, joins, left>>

HandlerFinalize(h) ==
    /\ \/ h.pc = "runRead" /\ run' = run
          /\ IF run = "completed" THEN Return(h) ELSE GoOn(h, "reportsRead")
       \/ h.pc = "reportsRead" /\ run' = run
          /\ IF AllReportsTerminal THEN GoOn(h, "runWrite") ELSE Return(h)
       \/ h.pc = "runWrite" /\ run' = "completed" /\ Return(h)
    /\ UNCHANGED <<active, membership, status, answers, overdue>>
    /\ UNCHANGED <<slackVars, queue, workerVars, joins, left>>

(* What getMemberDayState says of a member. *)
MemberState(m) ==
    IF membership[m] = "absent" THEN "not_member"
    ELSE IF ~active THEN "paused"
    ELSE IF run # "none" /\ status[m] \in {"completed", "in_progress"} THEN status[m]
    ELSE "pending"

(* /standup start is for those who are not under way; a keyword restarts.  *)
MayStart(h) ==
    MemberState(h.who) \in IF h.pc = "slash" THEN {"pending"} ELSE {"pending", "in_progress"}

DayState(h) ==
    /\ h.pc \in {"dayState", "slash"}
    /\ IF MayStart(h) THEN GoOn(h, "enqueue") ELSE Return(h)
    /\ UNCHANGED <<dbVars, slackVars, queue, workerVars, joins, left>>

EnqueueRetrigger(h) ==
    /\ h.pc = "enqueue"
    /\ Enqueue(MemberJob("retrigger", h.who))
    /\ Return(h)
    /\ UNCHANGED <<dbVars, slackVars, workerVars, joins, left>>

HandlerRuns(h) ==
    \/ WriteNext(h) \/ WriteComplete(h) \/ WriteAbort(h) \/ AnswerMember(h) \/ Broadcast(h)
    \/ HandlerFinalize(h) \/ DayState(h) \/ EnqueueRetrigger(h)

(* A failed broadcast is swallowed and the run is still finalized; any     *)
(* other failure ends the handler, and Slack is not told to redeliver.     *)
HandlerThrows(h) ==
    /\ h.pc \in FailAt
    /\ Spend("throw")
    /\ IF h.pc = "broadcast" THEN GoOn(h, "runRead") ELSE Return(h)
    /\ UNCHANGED <<dbVars, slackVars, queue, workerVars, joins>>

-----------------------------------------------------------------------------
(* The web process, the scheduler and the clock. *)

\* Faulty variant: an added or changed member is left to the next run.
NoLateJoin(m) == UNCHANGED joins

LateJoin(m) == joins' = joins \cup {[who |-> m, pc |-> "joinRun"]}

(* addMember, or setMemberPermissions with can_report set.  A permission   *)
(* form that changes nothing takes the same path.                          *)
AddReporter(m) ==
    /\ Spend("staff")
    /\ membership' = [membership EXCEPT ![m] = "reporter"]
    /\ LateJoin(m)
    /\ UNCHANGED <<run, active, status, answers, overdue, slackVars, queue, workerVars, inflight>>

(* removeMember, or setMemberPermissions with can_report cleared, which    *)
(* starts a late join all the same.                                        *)
DropReporter(m, to) ==
    /\ membership[m] # "absent"
    /\ Spend("staff")
    /\ membership' = [membership EXCEPT ![m] = to]
    /\ IF to = "viewer" THEN LateJoin(m) ELSE UNCHANGED joins
    /\ UNCHANGED <<run, active, status, answers, overdue>>
    /\ UNCHANGED <<slackVars, queue, workerVars, inflight>>

JoinGoesOn(j, pc) == joins' = (joins \ {j}) \cup {[j EXCEPT !.pc = pc]}
JoinEnds(j)       == joins' = joins \ {j}

\* Faulty variant: a late joiner is only served while the run is running.
JoinRunningOnly(j) ==
    /\ j.pc = "joinRun"
    /\ IF membership[j.who] = "reporter" /\ active /\ run = "running"
       THEN JoinGoesOn(j, "joinReport") ELSE JoinEnds(j)
    /\ UNCHANGED <<dbVars, slackVars, queue, workerVars, inflight, left>>

(* enqueueLateJoinIfOpen: its reads of the member, of the standup and of   *)
(* the run are taken together.                                             *)
JoinReadsRun(j) ==
    /\ j.pc = "joinRun"
    /\ IF membership[j.who] = "reporter" /\ active /\ run # "none"
       THEN JoinGoesOn(j, "joinReport") ELSE JoinEnds(j)
    /\ UNCHANGED <<dbVars, slackVars, queue, workerVars, inflight, left>>

JoinReadsReport(j) ==
    /\ j.pc = "joinReport"
    /\ IF status[j.who] = "none" THEN JoinGoesOn(j, "joinSend") ELSE JoinEnds(j)
    /\ UNCHANGED <<dbVars, slackVars, queue, workerVars, inflight, left>>

JoinSends(j) ==
    /\ j.pc = "joinSend"
    /\ Enqueue(MemberJob("send", j.who))
    /\ JoinEnds(j)
    /\ UNCHANGED <<dbVars, slackVars, workerVars, inflight, left>>

JoinRuns(j) == JoinReadsRun(j) \/ JoinReadsReport(j) \/ JoinSends(j)

(* The action catches and logs a failed late join. *)
JoinThrows(j) ==
    /\ j.pc \in FailAt
    /\ Spend("throw")
    /\ JoinEnds(j)
    /\ UNCHANGED <<dbVars, slackVars, queue, workerVars, inflight>>

(* setStandupActive, either way. *)
TogglePause ==
    /\ Spend("pause")
    /\ active' = ~active
    /\ UNCHANGED <<run, membership, status, answers, overdue>>
    /\ UNCHANGED <<slackVars, queue, workerVars, inflight, joins>>

(* The job scheduler's tick, "Trigger now" in the web app (always forced)  *)
(* and the trigger command line (forced or not).                           *)
SchedulerTick ==
    /\ Spend("tick")
    /\ Enqueue(TeamJob("tick"))
    /\ UNCHANGED <<dbVars, slackVars, workerVars, inflight, joins>>

TriggerRun(kind) ==
    /\ Spend("trigger")
    /\ Enqueue(TeamJob(kind))
    /\ UNCHANGED <<dbVars, slackVars, workerVars, inflight, joins>>

DeadlinePasses(m) ==
    /\ status[m] = "in_progress"
    /\ ~overdue[m]
    /\ overdue' = [overdue EXCEPT ![m] = TRUE]
    /\ UNCHANGED <<run, active, membership, status, answers>>
    /\ UNCHANGED <<slackVars, queue, workerVars, inflight, joins, left>>

Next ==
    \/ \E j \in Job : Take(j)
    \/ WorkerRuns
    \/ WorkerThrows
    \/ WorkerCrashes
    \/ \E id \in Handler, m \in Member :
          \/ ReceiveReply(id, m) \/ ReceiveSkipAll(id, m)
          \/ ReceiveKeyword(id, m) \/ ReceiveSlashStart(id, m)
    \/ \E h \in inflight : HandlerRuns(h) \/ HandlerThrows(h)
    \/ \E m \in Member : AddReporter(m) \/ \E to \in {"absent", "viewer"} : DropReporter(m, to)
    \/ \E j \in joins : JoinRuns(j) \/ JoinThrows(j)
    \/ TogglePause
    \/ SchedulerTick
    \/ \E kind \in {"open", "force"} : TriggerRun(kind)
    \/ \E m \in Member : DeadlinePasses(m)

Spec == Init /\ [][Next]_vars

(* What runs keeps running; what a person does is left to the person.  A   *)
(* job that is due is taken in its turn (BullMQ hands jobs out by due      *)
(* time), hence strong fairness for each addressee, and deadlines do pass.  *)
Fairness ==
    /\ WF_vars(WorkerRuns)
    /\ \A kind \in TeamKind : SF_vars(\E j \in Job : j.kind = kind /\ Take(j))
    /\ \A kind \in MemberKind, m \in Member :
          SF_vars(\E j \in Job : j.kind = kind /\ j.who = m /\ Take(j))
    /\ \A id \in Handler : WF_vars(\E h \in inflight : h.id = id /\ HandlerRuns(h))
    /\ \A m \in Member : WF_vars(\E j \in joins : j.who = m /\ JoinRuns(j))
    /\ \A m \in Member : WF_vars(DeadlinePasses(m))

FairSpec == Spec /\ Fairness

-----------------------------------------------------------------------------
(* Which kinds of job can be suspended at which await. *)
JobsAt(pc) ==
    CASE pc \in {"standup", "ensure"}                  -> TeamKind \cup {"retrigger"}
      [] pc \in {"members", "fan"}                     -> TeamKind \cup {"retrigger"}
      [] pc \in {"exists", "insert"}                   -> {"send"}
      [] pc \in {"guard", "reset", "reopen"}           -> {"retrigger"}
      [] pc \in {"ask", "arm"}                         -> {"send", "retrigger"}
      [] pc \in {"deadline", "rearm", "expire"} \cup FinalizeStep -> {"timeout"}

(* Every variable has its type, and the worker holds a job of a kind whose *)
(* handler contains the await it is suspended at.                          *)
TypeOK ==
    /\ run \in {"none", "running", "completed"}
    /\ active \in BOOLEAN
    /\ membership \in [Member -> {"absent", "viewer", "reporter"}]
    /\ status \in [Member -> ReportStatus]
    /\ answers \in [Member -> 0..Questions]
    /\ overdue \in [Member -> BOOLEAN]
    /\ asked \in [Member -> Nat]
    /\ posted \in [Member -> Nat]
    /\ queue \in [Job -> Nat]
    /\ wpc \in WorkerStep \cup {"idle"}
    /\ IF wpc = "idle" THEN wjob = NoJob ELSE wjob \in Job /\ wjob.kind \in JobsAt(wpc)
    /\ created \in BOOLEAN
    /\ todo \subseteq Member
    /\ inflight \subseteq HandlerState
    /\ joins \subseteq JoinState
    /\ left \in [EnvEvent -> Nat]

Queued(kind, m) == \E j \in Job : j.kind = kind /\ j.who = m /\ queue[j] > 0

(* The worker is at one of the steps pcs of a job that names m. *)
WorkingOn(m, pcs) == wpc \in pcs /\ wjob.who = m

(* Every open report has something that will time it out (queue.ts, sendDm *)
(* and timeoutReport): a timeout job in the queue, or the worker on its    *)
(* way from the report's write to enqueueTimeout, or a timeout job in hand *)
(* that has not decided yet.                                               *)
DeadlineGuarded ==
    \A m \in Member : status[m] = "in_progress" =>
        \/ Queued("timeout", m)
        \/ WorkingOn(m, TimerStep)

(* Something will still lead to m's first question: a send job, a member   *)
(* list that is about to be read or holds m, or a late join under way.     *)
Awaited(m) ==
    \/ Queued("send", m)
    \/ WorkingOn(m, {"exists", "ask", "insert"}) /\ wjob.kind = "send"
    \/ wpc = "members"
    \/ wpc = "fan" /\ m \in todo
    \/ wpc \in {"guard", "ask", "reset", "reopen", "arm"} /\ wjob.kind = "retrigger" /\ created
    \/ \E j \in joins : j.who = m

(* Once the run is open nobody who reports is left out (openRun, late-join,*)
(* retrigger's team recovery), however the fan-out, restarts and the       *)
(* admin's edits of the team interleave.                                   *)
NoReporterForgotten ==
    \A m \in Reporters : run # "none" /\ status[m] = "none" => Awaited(m)

Finalizing ==
    \/ wpc \in FinalizeStep
    \/ \E h \in inflight : h.pc \in FinalizeStep \cup {"outro", "broadcast", "reply"}

(* When the last report of a running run has become terminal, by whichever *)
(* process, somebody is on the way to closing the run (runs.ts:10-13).     *)
LastReportFinalizes ==
    run = "running" /\ AllReportsTerminal /\ (\E m \in Member : status[m] # "none")
        => Finalizing

(* A member is sent the first question once; every further time is paid    *)
(* for by a failed attempt, a crash or the member's own request            *)
(* (sendDm.ts:9-11, openRun.ts:70-73).                                     *)
Spent(e) == Budget[e] - left[e]

ExtraAsksAccountedFor ==
    \A m \in Member : asked[m] <= 1 + Spent("throw") + Spent("crash") + Spent("keyword")

(* A reporter is left out of an open run only after something failed or the *)
(* standup was paused: no edit, restart or stale job does it alone          *)
(* (openRun.ts:94-97, retrigger.ts:25-27, late-join.ts:21).                 *)
ForgottenAccountedFor ==
    \A m \in Reporters :
        run # "none" /\ status[m] = "none" /\ ~Awaited(m)
            => Spent("throw") + Spent("crash") + Spent("pause") > 0

(* The day as its members see it, see DailyDelivery. *)
Delivery == INSTANCE DailyDelivery WITH
    day      <- CASE run = "none" -> "none" [] run = "running" -> "open"
                  [] run = "completed" -> "closed",
    prompted <- {m \in Member : asked[m] > 0},
    report   <- [m \in Member |-> IF status[m] = "none" THEN "none"
                                 ELSE IF status[m] = "in_progress" THEN "open" ELSE "done"],
    requests <- Spent("keyword")

(* The processes, jobs, retries and races above add up to a day that is    *)
(* opened once, in which a report follows its question, and nothing that   *)
(* is over starts again unasked.                                           *)
DeliversTheDay == Delivery!Spec

(* runs.ts:10: a completed run has only terminal reports. *)
CompletedRunIsSettled ==
    run = "completed" => AllReportsTerminal

(* The worker takes no finished report back: the timeout handler leaves it *)
(* alone (sendDm.ts:55-56), and so does a restart (retrigger.ts:23-24).    *)
WorkerSparesFinished ==
    [][\A m \in Member :
          wpc \in {"expire", "reset"} /\ wpc' # wpc /\ status[m] = "completed"
              => status'[m] = "completed"]_vars

(* getting-started.md:145-146: a run is closed once everyone is either     *)
(* done or timed out, read when no process is at work and no job is left.  *)
ClosedAtRest ==
    /\ wpc = "idle" /\ inflight = {} /\ joins = {}
    /\ \A j \in Job : queue[j] = 0
    /\ AllReportsTerminal /\ (\E m \in Member : status[m] # "none")
    => run = "completed"

(* Whoever reports when the run opens ends up with a finished report, by   *)
(* answering or by the deadline, unless taken off the team meanwhile.      *)
EveryReporterServed ==
    \A m \in Member :
        run # "none" /\ membership[m] = "reporter"
            ~> status[m] \in Terminal \/ membership[m] # "reporter"

(* A run with at least one report is eventually completed. *)
RunCloses ==
    run = "running" /\ (\E m \in Member : status[m] # "none") ~> run = "completed"
=============================================================================
