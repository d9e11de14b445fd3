--------------------------- MODULE StandupDayProofs ---------------------------
(* What holds of StandupDay for every team, every number of concurrent      *)
(* handlers, every number of questions and every budget of outside events.  *)
EXTENDS StandupDay, TLAPS

-----------------------------------------------------------------------------
(* The queue and the records that the actions build.                        *)

LEMMA JobsAreJobs ==
    /\ \A kind \in TeamKind : TeamJob(kind) \in Job
    /\ \A kind \in MemberKind, m \in Member : MemberJob(kind, m) \in Job
    /\ \A j \in Job : MayRetry(j) => [j EXCEPT !.tries = @ + 1] \in Job
    /\ NoJob \notin Job
  BY DEF Job, TeamJob, MemberJob, TeamKind, MemberKind, MayRetry, Attempts, NoJob

LEMMA JobKinds ==
    ASSUME NEW j \in Job
    PROVE  /\ j.kind \in TeamKind \cup MemberKind
           /\ j.kind \in MemberKind => j.who \in Member
  BY DEF Job, TeamKind, MemberKind

LEMMA EnqueueType ==
    ASSUME queue \in [Job -> Nat], NEW j \in Job, Enqueue(j)
    PROVE  queue' \in [Job -> Nat]
  BY DEF Enqueue, Plus

LEMMA SpendType ==
    ASSUME left \in [EnvEvent -> Nat], NEW e \in EnvEvent, Spend(e)
    PROVE  left' \in [EnvEvent -> Nat]
  BY DEF Spend

LEMMA HandlerTypes ==
    ASSUME inflight \subseteq HandlerState, NEW h \in inflight
    PROVE  /\ h.who \in Member /\ h.seen \in 0..(Questions - 1) /\ h.pc \in HandlerStep
           /\ \A pc \in HandlerStep : GoOn(h, pc) => inflight' \subseteq HandlerState
           /\ Return(h) => inflight' \subseteq HandlerState
  <1>1. h \in HandlerState
    OBVIOUS
  <1>2. \A pc \in HandlerStep : [h EXCEPT !.pc = pc] \in HandlerState
    BY <1>1 DEF HandlerState
  <1>3. h.who \in Member /\ h.seen \in 0..(Questions - 1) /\ h.pc \in HandlerStep
    BY <1>1 DEF HandlerState
  <1> QED
    BY <1>2, <1>3 DEF GoOn, Return

LEMMA JoinTypes ==
    ASSUME joins \subseteq JoinState, NEW j \in joins
    PROVE  /\ j.who \in Member
           /\ \A pc \in JoinStep : JoinGoesOn(j, pc) => joins' \subseteq JoinState
           /\ JoinEnds(j) => joins' \subseteq JoinState
  <1>1. j \in JoinState
    OBVIOUS
  <1>2. \A pc \in JoinStep : [j EXCEPT !.pc = pc] \in JoinState
    BY <1>1 DEF JoinState
  <1>3. j.who \in Member
    BY <1>1 DEF JoinState
  <1> QED
    BY <1>2, <1>3 DEF JoinGoesOn, JoinEnds

-----------------------------------------------------------------------------
(* Type correctness.                                                        *)

LEMMA InitTypeOK == Init => TypeOK
  <1> SUFFICES ASSUME Init PROVE TypeOK
    OBVIOUS
  <1>1. status \in [Member -> ReportStatus] /\ answers \in [Member -> 0..Questions]
    BY QuestionsAssumption DEF Init, ReportStatus
  <1>2. queue \in [Job -> Nat] /\ asked \in [Member -> Nat] /\ posted \in [Member -> Nat]
    BY DEF Init
  <1>3. overdue \in [Member -> BOOLEAN]
    BY DEF Init
  <1>4. left \in [EnvEvent -> Nat]
    BY BudgetAssumption DEF Init
  <1> QED
    BY <1>1, <1>2, <1>3, <1>4 DEF Init, TypeOK

LEMMA TakeTypeOK ==
    ASSUME TypeOK, NEW j \in Job, Take(j)
    PROVE  TypeOK'
  <1>1. queue' \in [Job -> Nat]
    BY DEF Take, TypeOK
  <1>2. wjob' \in Job /\ wpc' \in WorkerStep /\ wjob'.kind \in JobsAt(wpc')
    BY JobKinds DEF Take, FirstStep, JobsAt, TeamKind, MemberKind, WorkerStep, FinalizeStep
  <1>3. wpc' # "idle"
    BY <1>2 DEF WorkerStep, FinalizeStep
  <1> QED
    BY <1>1, <1>2, <1>3 DEF Take, TypeOK, dbVars, slackVars

(* The worker's steps leave it idle or at an await of the same job. *)
LEMMA WorkerHolds ==
    ASSUME TypeOK, wpc # "idle"
    PROVE  /\ wjob \in Job
           /\ wjob.kind \in JobsAt(wpc)
           /\ wjob.kind \in MemberKind => wjob.who \in Member
  BY JobKinds DEF TypeOK

LEMMA WorkerTypeOK ==
    ASSUME TypeOK, WorkerRuns
    PROVE  TypeOK'
  <1> USE DEF dbVars, slackVars, TypeOK, WorkerStep, FinalizeStep, Finish, Goto
  <1>0. wpc # "idle" => wjob \in Job /\ (wjob.kind \in MemberKind => wjob.who \in Member)
    BY WorkerHolds
  <1>1. CASE LoadStandup
    BY <1>0, <1>1 DEF LoadStandup, JobsAt
  <1>2. CASE EnsureRunOpen
    BY <1>0, <1>2 DEF EnsureRunOpen, JobsAt, TeamKind, MemberKind
  <1>3. CASE ListMembers
    BY <1>0, <1>3 DEF ListMembers, JobsAt, Reporters
  <1>4. ASSUME NEW m \in Member, FanOut(m)
        PROVE  TypeOK'
    <2>1. MemberJob("send", m) \in Job
      BY JobsAreJobs DEF MemberKind
    <2>2. queue' \in [Job -> Nat]
      BY <1>4, <2>1, EnqueueType DEF FanOut
    <2> QED
      BY <1>0, <1>4, <2>2 DEF FanOut, JobsAt
  <1>5. CASE CheckNotSent
    BY <1>0, <1>5 DEF CheckNotSent, JobsAt
  <1>6. CASE AskFirstQuestion
    <2>1. wjob \in Job /\ wjob.kind \in {"send", "retrigger"} /\ wjob.who \in Member
      BY <1>0, <1>6 DEF AskFirstQuestion, JobsAt, MemberKind
    <2> QED
      BY <1>6, <2>1 DEF AskFirstQuestion, JobsAt
  <1>7. CASE InsertReport
    <2>1. wjob \in Job /\ wjob.kind = "send" /\ wjob.who \in Member
      BY <1>0, <1>7 DEF InsertReport, JobsAt, MemberKind
    <2>2. /\ status' \in [Member -> ReportStatus]
          /\ answers' \in [Member -> 0..Questions]
          /\ overdue' \in [Member -> BOOLEAN]
      <3>1. CASE OpenReport(wjob.who)
        BY <2>1, <3>1, QuestionsAssumption DEF OpenReport, ReportStatus
      <3>2. CASE UNCHANGED <<status, answers, overdue>>
        BY <3>2
      <3> QED
        BY <1>7, <3>1, <3>2 DEF InsertReport
    <2> QED
      BY <1>7, <2>1, <2>2 DEF InsertReport, JobsAt
  <1>8. CASE ArmTimeout
    <2>1. wjob \in Job /\ wjob.kind \in {"send", "retrigger"} /\ wjob.who \in Member
      BY <1>0, <1>8 DEF ArmTimeout, JobsAt, MemberKind
    <2>2. queue' \in [Job -> Nat]
      BY <1>8, <2>1, JobsAreJobs, EnqueueType DEF ArmTimeout, MemberKind
    <2> QED
      BY <1>8, <2>1, <2>2 DEF ArmTimeout, JobsAt
  <1>9. CASE GuardRetrigger
    BY <1>0, <1>9 DEF GuardRetrigger, JobsAt
  <1>10. CASE ResetReport
    <2>1. wjob \in Job /\ wjob.kind = "retrigger" /\ wjob.who \in Member
      BY <1>0, <1>10 DEF ResetReport, JobsAt, MemberKind
    <2> QED
      BY <1>10, <2>1, QuestionsAssumption DEF ResetReport, OpenReport, JobsAt, ReportStatus
  <1>11. CASE ReopenRun
    BY <1>0, <1>11 DEF ReopenRun, JobsAt
  <1>12. CASE ReadDeadline
    BY <1>0, <1>12 DEF ReadDeadline, JobsAt
  <1>13. CASE RearmTimeout
    <2>1. wjob \in Job /\ wjob.kind = "timeout" /\ wjob.who \in Member
      BY <1>0, <1>13 DEF RearmTimeout, JobsAt, MemberKind
    <2>2. queue' \in [Job -> Nat]
      BY <1>13, <2>1, JobsAreJobs, EnqueueType DEF RearmTimeout, MemberKind
    <2> QED
      BY <1>13, <2>2 DEF RearmTimeout
  <1>14. CASE Expire
    <2>1. wjob \in Job /\ wjob.kind = "timeout" /\ wjob.who \in Member
      BY <1>0, <1>14 DEF Expire, JobsAt, MemberKind
    <2> QED
      BY <1>14, <2>1 DEF Expire, JobsAt, ReportStatus, Terminal
  <1>15. CASE WorkerFinalize
    BY <1>0, <1>15 DEF WorkerFinalize, JobsAt
  <1> QED
    BY <1>1, <1>2, <1>3, <1>4, <1>5, <1>6, <1>7, <1>8, <1>9, <1>10, <1>11, <1>12, <1>13,
       <1>14, <1>15
    DEF WorkerRuns

LEMMA FailureTypeOK ==
    ASSUME TypeOK, WorkerThrows \/ WorkerCrashes
    PROVE  TypeOK'
  <1>1. wpc # "idle" /\ wjob \in Job
    BY WorkerHolds DEF WorkerThrows, WorkerCrashes, WorkerStep, FinalizeStep
  <1>2. left' \in [EnvEvent -> Nat]
    BY SpendType DEF WorkerThrows, WorkerCrashes, TypeOK, EnvEvent
  <1>3. queue' \in [Job -> Nat]
    BY <1>1, JobsAreJobs, EnqueueType DEF WorkerThrows, WorkerCrashes, TypeOK
  <1> QED
    BY <1>2, <1>3 DEF WorkerThrows, WorkerCrashes, Finish, TypeOK, dbVars, slackVars

LEMMA ReceiveTypeOK ==
    ASSUME TypeOK, NEW id \in Handler, NEW m \in Member,
           \/ ReceiveReply(id, m) \/ ReceiveSkipAll(id, m)
           \/ ReceiveKeyword(id, m) \/ ReceiveSlashStart(id, m)
    PROVE  TypeOK'
  <1>1. ASSUME NEW n \in 0..(Questions - 1), NEW pc \in HandlerStep
        PROVE  [id |-> id, who |-> m, seen |-> n, pc |-> pc] \in HandlerState
    BY <1>1 DEF HandlerState
  <1>2. /\ 0 \in 0..(Questions - 1)
        /\ answers[m] < Questions => answers[m] \in 0..(Questions - 1)
    BY QuestionsAssumption DEF TypeOK
  <1>3. inflight' \subseteq HandlerState
    BY <1>1, <1>2
    DEF ReceiveReply, ReceiveSkipAll, ReceiveKeyword, ReceiveSlashStart, Start, HandlerStep, TypeOK
  <1>4. left' \in [EnvEvent -> Nat]
    BY SpendType
    DEF ReceiveReply, ReceiveSkipAll, ReceiveKeyword, ReceiveSlashStart, EnvEvent, TypeOK
  <1>5. UNCHANGED <<dbVars, slackVars, queue, workerVars, joins>>
    BY DEF ReceiveReply, ReceiveSkipAll, ReceiveKeyword, ReceiveSlashStart, Start
  <1> QED
    BY <1>3, <1>4, <1>5 DEF TypeOK, dbVars, slackVars, workerVars

LEMMA HandlerTypeOK ==
    ASSUME TypeOK, NEW h \in inflight, HandlerRuns(h)
    PROVE  TypeOK'
  <1> USE DEF TypeOK, dbVars, slackVars, workerVars
  <1>0. /\ h.who \in Member /\ h.seen \in 0..(Questions - 1)
        /\ \A pc \in HandlerStep : GoOn(h, pc) => inflight' \subseteq HandlerState
        /\ Return(h) => inflight' \subseteq HandlerState
    BY HandlerTypes
  <1>1. CASE WriteNext(h)
    BY <1>0, <1>1, QuestionsAssumption DEF WriteNext
  <1>2. CASE WriteComplete(h)
    BY <1>0, <1>2, QuestionsAssumption DEF WriteComplete, HandlerStep, ReportStatus, Terminal
  <1>3. CASE WriteAbort(h)
    BY <1>0, <1>3 DEF WriteAbort, HandlerStep, ReportStatus, Terminal
  <1>4. CASE AnswerMember(h)
    BY <1>0, <1>4 DEF AnswerMember, HandlerStep, FinalizeStep
  <1>5. CASE Broadcast(h)
    BY <1>0, <1>5 DEF Broadcast, HandlerStep, FinalizeStep
  <1>6. CASE HandlerFinalize(h)
    <2>1. inflight' \subseteq HandlerState
      BY <1>0, <1>6 DEF HandlerFinalize, HandlerStep, FinalizeStep
    <2>2. run' \in {run, "completed"}
      BY <1>6 DEF HandlerFinalize
    <2> QED
      BY <1>6, <2>1, <2>2 DEF HandlerFinalize
  <1>7. CASE DayState(h)
    <2>1. inflight' \subseteq HandlerState
      BY <1>0, <1>7 DEF DayState, HandlerStep
    <2>2. UNCHANGED <<dbVars, slackVars, queue, workerVars, joins, left>>
      BY <1>7 DEF DayState
    <2> QED
      BY <2>1, <2>2
  <1>8. CASE EnqueueRetrigger(h)
    BY <1>0, <1>8, JobsAreJobs, EnqueueType DEF EnqueueRetrigger, MemberKind
  <1> QED
    BY <1>1, <1>2, <1>3, <1>4, <1>5, <1>6, <1>7, <1>8 DEF HandlerRuns

LEMMA HandlerThrowsTypeOK ==
    ASSUME TypeOK, NEW h \in inflight, HandlerThrows(h)
    PROVE  TypeOK'
  <1>1. inflight' \subseteq HandlerState
    BY HandlerTypes DEF HandlerThrows, TypeOK, HandlerStep, FinalizeStep
  <1>2. left' \in [EnvEvent -> Nat]
    BY SpendType DEF HandlerThrows, TypeOK, EnvEvent
  <1> QED
    BY <1>1, <1>2 DEF HandlerThrows, TypeOK, dbVars, slackVars, workerVars

LEMMA TeamTypeOK ==
    ASSUME TypeOK, NEW m \in Member,
           AddReporter(m) \/ \E to \in {"absent", "viewer"} : DropReporter(m, to)
    PROVE  TypeOK'
  <1>1. left' \in [EnvEvent -> Nat]
    BY SpendType DEF AddReporter, DropReporter, TypeOK, EnvEvent
  <1>2. joins' \subseteq JoinState
    BY DEF AddReporter, DropReporter, LateJoin, TypeOK, JoinState, JoinStep
  <1> QED
    BY <1>1, <1>2 DEF AddReporter, DropReporter, TypeOK, slackVars, workerVars

LEMMA JoinTypeOK ==
    ASSUME TypeOK, NEW j \in joins, JoinRuns(j) \/ JoinThrows(j)
    PROVE  TypeOK'
  <1>1. j.who \in Member /\ joins' \subseteq JoinState
    BY JoinTypes
    DEF JoinRuns, JoinReadsRun, JoinReadsReport, JoinSends, JoinThrows, TypeOK, JoinStep
  <1>2. queue' \in [Job -> Nat]
    BY <1>1, JobsAreJobs, EnqueueType
    DEF JoinRuns, JoinReadsRun, JoinReadsReport, JoinSends, JoinThrows, TypeOK, MemberKind
  <1>3. left' \in [EnvEvent -> Nat]
    BY SpendType
    DEF JoinRuns, JoinReadsRun, JoinReadsReport, JoinSends, JoinThrows, TypeOK, EnvEvent
  <1>4. UNCHANGED <<dbVars, slackVars, workerVars, inflight>>
    BY DEF JoinRuns, JoinReadsRun, JoinReadsReport, JoinSends, JoinThrows
  <1> QED
    BY <1>1, <1>2, <1>3, <1>4 DEF TypeOK, dbVars, slackVars, workerVars

LEMMA OutsideTypeOK ==
    ASSUME TypeOK,
           \/ TogglePause \/ SchedulerTick
           \/ \E kind \in {"open", "force"} : TriggerRun(kind)
           \/ \E m \in Member : DeadlinePasses(m)
    PROVE  TypeOK'
  <1> USE DEF TypeOK, dbVars, slackVars, workerVars, EnvEvent
  <1>1. CASE TogglePause
    BY <1>1, SpendType DEF TogglePause
  <1>2. CASE SchedulerTick
    BY <1>2, SpendType, JobsAreJobs, EnqueueType DEF SchedulerTick, TeamKind
  <1>3. CASE \E kind \in {"open", "force"} : TriggerRun(kind)
    BY <1>3, SpendType, JobsAreJobs, EnqueueType DEF TriggerRun, TeamKind
  <1>4. CASE \E m \in Member : DeadlinePasses(m)
    BY <1>4 DEF DeadlinePasses
  <1> QED
    BY <1>1, <1>2, <1>3, <1>4

LEMMA NextTypeOK == TypeOK /\ [Next]_vars => TypeOK'
  <1> SUFFICES ASSUME TypeOK, [Next]_vars
               PROVE  TypeOK'
    OBVIOUS
  <1>1. CASE UNCHANGED vars
    BY <1>1 DEF TypeOK, vars, dbVars, slackVars, workerVars
  <1>2. CASE Next
    BY <1>2, TakeTypeOK, WorkerTypeOK, FailureTypeOK, ReceiveTypeOK, HandlerTypeOK,
       HandlerThrowsTypeOK, TeamTypeOK, JoinTypeOK, OutsideTypeOK
    DEF Next
  <1> QED
    BY <1>1, <1>2

(* Whatever the budget and wherever things fail, every row, job and handler *)
(* keeps its type and the worker never runs a step of the wrong handler.    *)
THEOREM TypeCorrect == Spec => []TypeOK
  BY InitTypeOK, NextTypeOK, PTL DEF Spec

-----------------------------------------------------------------------------
(* No open report is without something that will time it out.               *)

QueueGrows == UNCHANGED queue \/ \E j \in Job : Enqueue(j)

LEMMA QueuedStays ==
    ASSUME TypeOK, QueueGrows, NEW kind, NEW m, Queued(kind, m)
    PROVE  Queued(kind, m)'
  <1>1. PICK j \in Job : j.kind = kind /\ j.who = m /\ queue[j] > 0
    BY DEF Queued
  <1>2. queue'[j] > 0
    BY <1>1 DEF QueueGrows, Enqueue, Plus, TypeOK
  <1> QED
    BY <1>1, <1>2 DEF Queued

LEMMA EnqueuedIsQueued ==
    ASSUME TypeOK, NEW kind \in MemberKind, NEW m \in Member, Enqueue(MemberJob(kind, m))
    PROVE  Queued(kind, m)'
  <1>1. MemberJob(kind, m) \in Job
    BY JobsAreJobs
  <1>2. MemberJob(kind, m).kind = kind /\ MemberJob(kind, m).who = m
    BY DEF MemberJob
  <1>3. queue'[MemberJob(kind, m)] > 0
    BY <1>1 DEF Enqueue, Plus, TypeOK
  <1> QED
    BY <1>1, <1>2, <1>3 DEF Queued

(* What the API, the web process, the scheduler and the clock do: the       *)
(* worker stays where it is, jobs are only added and no report is opened.   *)
Bystander ==
    /\ UNCHANGED <<wpc, wjob, created, todo>>
    /\ QueueGrows
    /\ \A m \in Member : status'[m] # status[m] => status'[m] \in Terminal /\ status[m] # "none"

(* Reports that handlers work on exist, and completed or skipped reports    *)
(* are those of reports that exist.                                         *)
HandlersHaveReports ==
    \A h \in inflight : h.pc \notin {"dayState", "slash", "enqueue"} => status[h.who] # "none"

LEMMA OutsidersAreBystanders ==
    ASSUME TypeOK, HandlersHaveReports,
           \/ \E id \in Handler, m \in Member :
                 \/ ReceiveReply(id, m) \/ ReceiveSkipAll(id, m)
                 \/ ReceiveKeyword(id, m) \/ ReceiveSlashStart(id, m)
           \/ \E h \in inflight : HandlerRuns(h) \/ HandlerThrows(h)
           \/ \E m \in Member : AddReporter(m) \/ \E to \in {"absent", "viewer"} : DropReporter(m, to)
           \/ \E j \in joins : JoinRuns(j) \/ JoinThrows(j)
           \/ TogglePause \/ SchedulerTick
           \/ \E kind \in {"open", "force"} : TriggerRun(kind)
           \/ \E m \in Member : DeadlinePasses(m)
    PROVE  Bystander
  <1> USE DEF Bystander, QueueGrows, dbVars, slackVars, workerVars
  <1>1. ASSUME NEW id \in Handler, NEW m \in Member,
               \/ ReceiveReply(id, m) \/ ReceiveSkipAll(id, m)
               \/ ReceiveKeyword(id, m) \/ ReceiveSlashStart(id, m)
        PROVE  Bystander
    BY <1>1 DEF ReceiveReply, ReceiveSkipAll, ReceiveKeyword, ReceiveSlashStart, Start
  <1>2. ASSUME NEW h \in inflight, HandlerRuns(h)
        PROVE  Bystander
    <2>0. h.who \in Member
      BY HandlerTypes DEF TypeOK
    <2>1. CASE WriteComplete(h) \/ WriteAbort(h)
      BY <2>0, <2>1 DEF WriteComplete, WriteAbort, HandlersHaveReports, TypeOK, Terminal
    <2>2. CASE WriteNext(h) \/ AnswerMember(h) \/ Broadcast(h)
      BY <2>2 DEF WriteNext, AnswerMember, Broadcast
    <2>3. CASE HandlerFinalize(h) \/ DayState(h)
      BY <2>3 DEF HandlerFinalize, DayState
    <2>4. CASE EnqueueRetrigger(h)
      BY <2>0, <2>4, JobsAreJobs DEF EnqueueRetrigger, MemberKind
    <2> QED
      BY <1>2, <2>1, <2>2, <2>3, <2>4 DEF HandlerRuns
  <1>3. ASSUME NEW h \in inflight, HandlerThrows(h)
        PROVE  Bystander
    BY <1>3 DEF HandlerThrows
  <1>4. ASSUME NEW m \in Member,
               AddReporter(m) \/ \E to \in {"absent", "viewer"} : DropReporter(m, to)
        PROVE  Bystander
    BY <1>4 DEF AddReporter, DropReporter
  <1>5. ASSUME NEW j \in joins, JoinRuns(j) \/ JoinThrows(j)
        PROVE  Bystander
    <2>1. j.who \in Member
      BY JoinTypes DEF TypeOK
    <2> QED
      BY <1>5, <2>1, JobsAreJobs
      DEF JoinRuns, JoinReadsRun, JoinReadsReport, JoinSends, JoinThrows, MemberKind
  <1>6. CASE TogglePause \/ \E m \in Member : DeadlinePasses(m)
    BY <1>6 DEF TogglePause, DeadlinePasses
  <1>7. CASE SchedulerTick \/ \E kind \in {"open", "force"} : TriggerRun(kind)
    BY <1>7, JobsAreJobs DEF SchedulerTick, TriggerRun, TeamKind
  <1> QED
    BY <1>1, <1>2, <1>3, <1>4, <1>5, <1>6, <1>7

(* A step is a stutter, the worker's, a failure of the worker's, or an      *)
(* outsider's.                                                              *)
LEMMA StepKinds ==
    ASSUME TypeOK, HandlersHaveReports, [Next]_vars
    PROVE  \/ Bystander
           \/ \E j \in Job : Take(j)
           \/ WorkerRuns
           \/ WorkerThrows \/ WorkerCrashes
  <1>1. CASE UNCHANGED vars
    BY <1>1 DEF vars, Bystander, QueueGrows, dbVars, workerVars
  <1>2. CASE Next
    BY <1>2, OutsidersAreBystanders DEF Next
  <1> QED
    BY <1>1, <1>2

LEMMA WorkerKeepsReports ==
    ASSUME TypeOK, WorkerRuns
    PROVE  \A m \in Member : status[m] # "none" => status'[m] # "none"
  <1>1. CASE InsertReport \/ ResetReport
    BY <1>1 DEF InsertReport, ResetReport, OpenReport, TypeOK
  <1>2. CASE Expire
    BY <1>2 DEF Expire, TypeOK
  <1>3. CASE WorkerFinalize \/ ReopenRun \/ EnsureRunOpen
    BY <1>3 DEF WorkerFinalize, ReopenRun, EnsureRunOpen
  <1>4. CASE \/ LoadStandup \/ ListMembers \/ \E m \in Member : FanOut(m)
             \/ CheckNotSent \/ AskFirstQuestion \/ ArmTimeout \/ GuardRetrigger
             \/ ReadDeadline \/ RearmTimeout
    BY <1>4 DEF LoadStandup, ListMembers, FanOut, CheckNotSent, AskFirstQuestion, ArmTimeout,
                GuardRetrigger, ReadDeadline, RearmTimeout, dbVars
  <1> QED
    BY <1>1, <1>2, <1>3, <1>4 DEF WorkerRuns

LEMMA WorkerLeavesHandlers ==
    ASSUME WorkerRuns \/ WorkerThrows \/ WorkerCrashes \/ \E j \in Job : Take(j)
    PROVE  UNCHANGED inflight
  BY DEF WorkerRuns, LoadStandup, EnsureRunOpen, ListMembers, FanOut, CheckNotSent,
         AskFirstQuestion, InsertReport, ArmTimeout, GuardRetrigger, ResetReport, ReopenRun,
         ReadDeadline, RearmTimeout, Expire, WorkerFinalize, WorkerThrows, WorkerCrashes, Take

(* A handler starts on a report it has just read, and a handler that looked *)
(* for something to restart never turns to a report.                        *)
LEMMA HandlersOnReports ==
    ASSUME TypeOK, HandlersHaveReports, [Next]_vars, NEW h \in inflight',
           h.pc \notin {"dayState", "slash", "enqueue"}
    PROVE  status[h.who] # "none"
  <1>1. CASE UNCHANGED inflight
    BY <1>1 DEF HandlersHaveReports
  <1>2. ASSUME NEW id \in Handler, NEW m \in Member,
               \/ ReceiveReply(id, m) \/ ReceiveSkipAll(id, m)
               \/ ReceiveKeyword(id, m) \/ ReceiveSlashStart(id, m)
        PROVE  status[h.who] # "none"
    BY <1>2 DEF ReceiveReply, ReceiveSkipAll, ReceiveKeyword, ReceiveSlashStart, Start,
                HandlersHaveReports
  <1>3. ASSUME NEW g \in inflight, HandlerRuns(g) \/ HandlerThrows(g)
        PROVE  status[h.who] # "none"
    <2>1. g \in HandlerState
      BY DEF TypeOK
    <2>2. CASE h \in inflight
      BY <2>2 DEF HandlersHaveReports
    <2>3. CASE h \notin inflight
      <3>1. PICK pc \in HandlerStep : h = [g EXCEPT !.pc = pc]
        BY <1>3, <2>3 DEF HandlerRuns, HandlerThrows, WriteNext, WriteComplete, WriteAbort,
             AnswerMember, Broadcast, HandlerFinalize, DayState, EnqueueRetrigger, GoOn, Return,
             HandlerStep, FinalizeStep
      <3>2. g.pc \notin {"dayState", "slash", "enqueue"}
        BY <1>3, <2>1, <2>3, <3>1 DEF HandlerRuns, HandlerThrows, WriteNext, WriteComplete,
             WriteAbort, AnswerMember, Broadcast, HandlerFinalize, DayState, EnqueueRetrigger,
             GoOn, Return, HandlerState
      <3> QED
        BY <2>1, <3>1, <3>2 DEF HandlersHaveReports, HandlerState
    <2> QED
      BY <2>2, <2>3
  <1>4. CASE UNCHANGED vars
    BY <1>1, <1>4 DEF vars
  <1>5. CASE Next
    <2>1. CASE WorkerRuns \/ WorkerThrows \/ WorkerCrashes \/ \E j \in Job : Take(j)
      BY <1>1, <2>1, WorkerLeavesHandlers
    <2>2. ASSUME NEW m \in Member,
                 AddReporter(m) \/ \E to \in {"absent", "viewer"} : DropReporter(m, to)
          PROVE  UNCHANGED inflight
      BY <2>2 DEF AddReporter, DropReporter
    <2>3. ASSUME NEW j \in joins, JoinRuns(j) \/ JoinThrows(j)
          PROVE  UNCHANGED inflight
      BY <2>3 DEF JoinRuns, JoinReadsRun, JoinReadsReport, JoinSends, JoinThrows
    <2>4. CASE \/ TogglePause \/ SchedulerTick
               \/ \E kind \in {"open", "force"} : TriggerRun(kind)
               \/ \E m \in Member : DeadlinePasses(m)
      BY <1>1, <2>4 DEF TogglePause, SchedulerTick, TriggerRun, DeadlinePasses
    <2> QED
      BY <1>1, <1>2, <1>3, <1>5, <2>1, <2>2, <2>3, <2>4 DEF Next
  <1> QED
    BY <1>4, <1>5

LEMMA HandlersKeepReports ==
    ASSUME TypeOK, HandlersHaveReports, [Next]_vars
    PROVE  HandlersHaveReports'
  <1>1. \A m \in Member : status[m] # "none" => status'[m] # "none"
    <2>1. CASE Bystander
      BY <2>1 DEF Bystander, Terminal
    <2>2. CASE WorkerRuns
      BY <2>2, WorkerKeepsReports
    <2>3. CASE WorkerThrows \/ WorkerCrashes \/ \E j \in Job : Take(j)
      BY <2>3 DEF WorkerThrows, WorkerCrashes, Take, dbVars
    <2> QED
      BY <2>1, <2>2, <2>3, StepKinds
  <1>2. \A h \in inflight' : h.who \in Member
    <2>1. inflight' \subseteq HandlerState
      BY NextTypeOK DEF TypeOK
    <2> QED
      BY <2>1 DEF HandlerState
  <1> QED
    BY <1>1, <1>2, HandlersOnReports DEF HandlersHaveReports

LEMMA DeadlineGuardedStep ==
    ASSUME FailAt \cap TimerStep = {}, TypeOK, HandlersHaveReports, DeadlineGuarded, [Next]_vars
    PROVE  DeadlineGuarded'
  <1>1. CASE Bystander
    <2>1. ASSUME NEW m \in Member, status'[m] = "in_progress"
          PROVE  Queued("timeout", m)' \/ WorkingOn(m, TimerStep)'
      <3>1. status[m] = "in_progress"
        BY <1>1, <2>1 DEF Bystander, Terminal
      <3> QED
        BY <1>1, <3>1, QueuedStays DEF Bystander, DeadlineGuarded, WorkingOn
    <2> QED
      BY <2>1 DEF DeadlineGuarded
  <1>2. ASSUME NEW j \in Job, Take(j)
        PROVE  DeadlineGuarded'
    <2>1. ASSUME NEW m \in Member, status[m] = "in_progress"
          PROVE  Queued("timeout", m)' \/ WorkingOn(m, TimerStep)'
      <3>1. PICK k \in Job : k.kind = "timeout" /\ k.who = m /\ queue[k] > 0
        BY <1>2, <2>1 DEF DeadlineGuarded, Queued, WorkingOn, TimerStep, Take
      <3>2. CASE k = j
        BY <1>2, <3>1, <3>2 DEF Take, FirstStep, WorkingOn, TimerStep, TeamKind
      <3>3. CASE k # j
        <4>1. queue'[k] = queue[k]
          BY <1>2, <3>3 DEF Take, TypeOK
        <4> QED
          BY <3>1, <4>1 DEF Queued
      <3> QED
        BY <3>2, <3>3
    <2> QED
      BY <1>2, <2>1 DEF DeadlineGuarded, Take, dbVars
  <1>3. CASE WorkerThrows \/ WorkerCrashes
    <2>1. QueueGrows
      BY <1>3, JobsAreJobs, WorkerHolds
      DEF WorkerThrows, WorkerCrashes, QueueGrows, WorkerStep, FinalizeStep
    <2>2. wpc \notin TimerStep /\ UNCHANGED status
      BY <1>3 DEF WorkerThrows, WorkerCrashes, dbVars
    <2> QED
      BY <2>1, <2>2, QueuedStays DEF DeadlineGuarded, WorkingOn
  <1>4. CASE WorkerRuns
    <2>0. wpc # "idle" =>
              /\ wjob \in Job /\ wjob.kind \in JobsAt(wpc)
              /\ wjob.kind \in MemberKind => wjob.who \in Member
      BY WorkerHolds
    <2>1. CASE \/ LoadStandup \/ EnsureRunOpen \/ ListMembers \/ \E m \in Member : FanOut(m)
               \/ CheckNotSent \/ AskFirstQuestion \/ GuardRetrigger \/ WorkerFinalize
      <3>1. wpc \notin TimerStep /\ UNCHANGED status
        BY <2>1 DEF LoadStandup, EnsureRunOpen, ListMembers, FanOut, CheckNotSent,
             AskFirstQuestion, GuardRetrigger, WorkerFinalize, TimerStep, dbVars, FinalizeStep
      <3>2. QueueGrows
        BY <2>1, JobsAreJobs DEF LoadStandup, EnsureRunOpen, ListMembers, FanOut, CheckNotSent,
             AskFirstQuestion, GuardRetrigger, WorkerFinalize, QueueGrows, MemberKind
      <3> QED
        BY <3>1, <3>2, QueuedStays DEF DeadlineGuarded, WorkingOn
    <2>2. CASE InsertReport \/ ResetReport
      <3>1. wpc \notin TimerStep /\ UNCHANGED queue
        BY <2>2 DEF InsertReport, ResetReport, TimerStep
      <3>2. wpc' \in TimerStep /\ wjob' = wjob
        BY <2>2 DEF InsertReport, ResetReport, Goto, TimerStep
      <3>3. \A m \in Member : m # wjob.who => status'[m] = status[m]
        BY <2>2 DEF InsertReport, ResetReport, OpenReport, TypeOK
      <3>4. QueueGrows
        BY <3>1 DEF QueueGrows
      <3> QED
        BY <3>1, <3>2, <3>3, <3>4, QueuedStays DEF DeadlineGuarded, WorkingOn
    <2>3. CASE ReopenRun
      <3>1. QueueGrows
        BY <2>3 DEF ReopenRun, QueueGrows
      <3> QED
        BY <2>3, <3>1, QueuedStays DEF ReopenRun, Goto, DeadlineGuarded, WorkingOn, TimerStep
    <2>4. CASE ArmTimeout \/ RearmTimeout
      <3>1. wjob.who \in Member
        BY <2>0, <2>4 DEF ArmTimeout, RearmTimeout, JobsAt, MemberKind, TypeOK
      <3>2. ASSUME NEW m \in Member, m = wjob.who
            PROVE  Queued("timeout", m)'
        BY <2>4, <3>2, EnqueuedIsQueued DEF ArmTimeout, RearmTimeout, MemberKind
      <3>3. QueueGrows /\ UNCHANGED status
        BY <2>4, <3>1, JobsAreJobs DEF ArmTimeout, RearmTimeout, QueueGrows, MemberKind, dbVars
      <3>4. ASSUME NEW m \in Member, status[m] = "in_progress", m # wjob.who
            PROVE  Queued("timeout", m)'
        BY <3>3, <3>4, QueuedStays DEF DeadlineGuarded, WorkingOn
      <3> QED
        BY <3>2, <3>3, <3>4 DEF DeadlineGuarded
    <2>5. CASE ReadDeadline
      <3>1. QueueGrows /\ UNCHANGED status
        BY <2>5 DEF ReadDeadline, QueueGrows, dbVars
      <3>2. status[wjob.who] = "in_progress" => wpc' \in TimerStep /\ wjob' = wjob
        BY <2>5 DEF ReadDeadline, Goto, TimerStep
      <3> QED
        BY <3>1, <3>2, QueuedStays DEF DeadlineGuarded, WorkingOn
    <2>6. CASE Expire
      <3>1. QueueGrows /\ \A m \in Member : status'[m] = "in_progress" =>
                               status[m] = "in_progress" /\ m # wjob.who
        BY <2>6 DEF Expire, QueueGrows, TypeOK
      <3> QED
        BY <3>1, QueuedStays DEF DeadlineGuarded, WorkingOn
    <2> QED
      BY <1>4, <2>1, <2>2, <2>3, <2>4, <2>5, <2>6 DEF WorkerRuns
  <1> QED
    BY <1>1, <1>2, <1>3, <1>4, StepKinds

(* Provided that the steps from a report's write to its timeout job, and    *)
(* those of a timeout job up to its verdict, do not fail, every open report *)
(* has a timeout job or the worker on its way to one: in every team, with   *)
(* every number of replies, restarts, pauses, triggers and other failures.  *)
THEOREM DeadlinesAreGuarded ==
    ASSUME FailAt \cap TimerStep = {}
    PROVE  Spec => []DeadlineGuarded
  <1> DEFINE IInv == TypeOK /\ HandlersHaveReports /\ DeadlineGuarded
  <1>1. Init => IInv
    BY InitTypeOK DEF Init, HandlersHaveReports, DeadlineGuarded
  <1>2. IInv /\ [Next]_vars => IInv'
    BY NextTypeOK, HandlersKeepReports, DeadlineGuardedStep
  <1> QED
    BY <1>1, <1>2, PTL DEF Spec
=============================================================================
