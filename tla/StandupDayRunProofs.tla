-------------------------- MODULE StandupDayRunProofs --------------------------
(* What StandupDay promises of the run: nobody who reports is left out once *)
(* it is open, and somebody closes it when the last report is finished.     *)
EXTENDS StandupDayProofs

-----------------------------------------------------------------------------
(* While there is no run there is nothing that belongs to one.              *)

NothingBeforeRun ==
    run = "none" =>
        /\ \A m \in Member : status[m] = "none"
        /\ \A j \in Job : queue[j] > 0 => j.kind \in TeamKind \cup {"retrigger"}
        /\ wpc \in {"idle", "standup", "ensure"}
        /\ \A j \in joins : j.pc = "joinRun"

LEMMA RunStays ==
    ASSUME [Next]_vars, run # "none"
    PROVE  run' # "none"
  <1> USE DEF vars, dbVars
  <1>1. CASE UNCHANGED vars
    BY <1>1
  <1>2. CASE WorkerRuns
    BY <1>2 DEF WorkerRuns, LoadStandup, EnsureRunOpen, ListMembers, FanOut, CheckNotSent,
         AskFirstQuestion, InsertReport, ArmTimeout, GuardRetrigger, ResetReport, ReopenRun,
         ReadDeadline, RearmTimeout, Expire, WorkerFinalize
  <1>3. CASE WorkerThrows \/ WorkerCrashes \/ \E j \in Job : Take(j)
    BY <1>3 DEF WorkerThrows, WorkerCrashes, Take
  <1>4. ASSUME NEW id \in Handler, NEW m \in Member,
               \/ ReceiveReply(id, m) \/ ReceiveSkipAll(id, m)
               \/ ReceiveKeyword(id, m) \/ ReceiveSlashStart(id, m)
        PROVE  run' # "none"
    BY <1>4 DEF ReceiveReply, ReceiveSkipAll, ReceiveKeyword, ReceiveSlashStart, Start
  <1>5. ASSUME NEW h \in inflight, HandlerRuns(h) \/ HandlerThrows(h)
        PROVE  run' # "none"
    BY <1>5 DEF HandlerRuns, HandlerThrows, WriteNext, WriteComplete, WriteAbort, AnswerMember,
         Broadcast, HandlerFinalize, DayState, EnqueueRetrigger
  <1>6. ASSUME NEW m \in Member,
               AddReporter(m) \/ \E to \in {"absent", "viewer"} : DropReporter(m, to)
        PROVE  run' # "none"
    BY <1>6 DEF AddReporter, DropReporter
  <1>7. ASSUME NEW j \in joins, JoinRuns(j) \/ JoinThrows(j)
        PROVE  run' # "none"
    BY <1>7 DEF JoinRuns, JoinReadsRun, JoinReadsReport, JoinSends, JoinThrows
  <1>8. CASE \/ TogglePause \/ SchedulerTick
             \/ \E kind \in {"open", "force"} : TriggerRun(kind)
             \/ \E m \in Member : DeadlinePasses(m)
    BY <1>8 DEF TogglePause, SchedulerTick, TriggerRun, DeadlinePasses
  <1> QED
    BY <1>1, <1>2, <1>3, <1>4, <1>5, <1>6, <1>7, <1>8 DEF Next

(* Jobs of the kinds in Kinds are all that a step adds to the queue. *)
Adds(Kinds) == \A j \in Job : queue'[j] > 0 => queue[j] > 0 \/ j.kind \in Kinds

LEMMA AddsOne ==
    ASSUME TypeOK, NEW j \in Job, NEW Kinds, j.kind \in Kinds, Enqueue(j)
    PROVE  Adds(Kinds)
  BY DEF Adds, Enqueue, Plus, TypeOK

LEMMA NothingBeforeRunStep ==
    ASSUME TypeOK, HandlersHaveReports, NothingBeforeRun, [Next]_vars
    PROVE  NothingBeforeRun'
  <1> SUFFICES ASSUME run' = "none"
               PROVE  /\ \A m \in Member : status'[m] = "none"
                      /\ Adds(TeamKind \cup {"retrigger"})
                      /\ wpc' \in {"idle", "standup", "ensure"}
                      /\ \A j \in joins' : j.pc = "joinRun"
    BY RunStays DEF NothingBeforeRun, Adds
  <1>0. /\ run = "none"
        /\ \A m \in Member : status[m] = "none"
        /\ \A j \in Job : queue[j] > 0 => j.kind \in TeamKind \cup {"retrigger"}
        /\ wpc \in {"idle", "standup", "ensure"}
        /\ \A j \in joins : j.pc = "joinRun"
    BY RunStays DEF NothingBeforeRun
  <1> USE DEF dbVars, slackVars, workerVars
  <1>1. CASE UNCHANGED vars
    BY <1>0, <1>1 DEF vars, Adds
  <1>2. ASSUME NEW j \in Job, Take(j)
        PROVE  /\ UNCHANGED <<status, joins>>
               /\ Adds({})
               /\ wpc' = "standup"
    <2>1. j.kind \in TeamKind \cup {"retrigger"}
      BY <1>0, <1>2 DEF Take
    <2>2. wpc' = "standup"
      BY <1>2, <2>1 DEF Take, FirstStep, TeamKind
    <2>3. Adds({})
      BY <1>2 DEF Take, Adds, TypeOK
    <2> QED
      BY <1>2, <2>2, <2>3 DEF Take
  <1>3. CASE WorkerRuns
    <2>1. LoadStandup
      BY <1>0, <1>3 DEF WorkerRuns, LoadStandup, EnsureRunOpen, ListMembers, FanOut,
           CheckNotSent, AskFirstQuestion, InsertReport, ArmTimeout, GuardRetrigger, ResetReport,
           ReopenRun, ReadDeadline, RearmTimeout, Expire, WorkerFinalize
    <2> QED
      BY <1>0, <2>1 DEF LoadStandup, Goto, Finish, Adds
  <1>4. CASE WorkerThrows \/ WorkerCrashes
    <2>1. wjob \in Job /\ wjob.kind \in TeamKind \cup {"retrigger"}
      BY <1>0, <1>4, WorkerHolds
      DEF WorkerThrows, WorkerCrashes, WorkerStep, FinalizeStep, JobsAt
    <2>2. MayRetry(wjob) => /\ [wjob EXCEPT !.tries = @ + 1] \in Job
                            /\ [wjob EXCEPT !.tries = @ + 1].kind = wjob.kind
      BY <2>1, JobsAreJobs DEF Job
    <2>3. Adds(TeamKind \cup {"retrigger"})
      <3>1. CASE UNCHANGED queue
        BY <3>1 DEF Adds
      <3>2. CASE MayRetry(wjob) /\ Enqueue([wjob EXCEPT !.tries = @ + 1])
        BY <2>1, <2>2, <3>2, AddsOne
      <3>3. CASE Enqueue(wjob)
        BY <2>1, <3>3, AddsOne
      <3> QED
        BY <1>4, <3>1, <3>2, <3>3 DEF WorkerThrows, WorkerCrashes
    <2> QED
      BY <1>0, <1>4, <2>3 DEF WorkerThrows, WorkerCrashes, Finish
  <1>5. ASSUME NEW id \in Handler, NEW m \in Member,
               \/ ReceiveReply(id, m) \/ ReceiveSkipAll(id, m)
               \/ ReceiveKeyword(id, m) \/ ReceiveSlashStart(id, m)
        PROVE  UNCHANGED <<status, queue, wpc, joins>>
    BY <1>5 DEF ReceiveReply, ReceiveSkipAll, ReceiveKeyword, ReceiveSlashStart, Start
  <1>6. ASSUME NEW h \in inflight, HandlerRuns(h) \/ HandlerThrows(h)
        PROVE  UNCHANGED <<status, wpc, joins>> /\ Adds({"retrigger"})
    <2>1. h.who \in Member
      BY HandlerTypes DEF TypeOK
    <2>2. h.pc \in {"dayState", "slash", "enqueue"}
      BY <1>0, <2>1 DEF HandlersHaveReports
    <2>3. CASE EnqueueRetrigger(h)
      <3>1. MemberJob("retrigger", h.who) \in Job /\ MemberJob("retrigger", h.who).kind = "retrigger"
        BY <2>1, JobsAreJobs DEF MemberKind, MemberJob
      <3>2. Adds({"retrigger"})
        BY <2>3, <3>1, AddsOne DEF EnqueueRetrigger
      <3> QED
        BY <2>3, <3>2 DEF EnqueueRetrigger
    <2>4. CASE DayState(h) \/ HandlerThrows(h)
      BY <2>4 DEF DayState, HandlerThrows, Adds
    <2> QED
      BY <1>6, <2>2, <2>3, <2>4
      DEF HandlerRuns, WriteNext, WriteComplete, WriteAbort, AnswerMember, Broadcast,
          HandlerFinalize, FinalizeStep
  <1>7. ASSUME NEW m \in Member,
               AddReporter(m) \/ \E to \in {"absent", "viewer"} : DropReporter(m, to)
        PROVE  /\ UNCHANGED <<status, queue, wpc>>
               /\ \A j \in joins' : j.pc = "joinRun"
    BY <1>0, <1>7 DEF AddReporter, DropReporter, LateJoin
  <1>8. ASSUME NEW j \in joins, JoinRuns(j) \/ JoinThrows(j)
        PROVE  /\ UNCHANGED <<status, queue, wpc>>
               /\ \A k \in joins' : k.pc = "joinRun"
    <2>1. JoinEnds(j) /\ UNCHANGED <<status, queue, wpc>>
      BY <1>0, <1>8 DEF JoinRuns, JoinReadsRun, JoinReadsReport, JoinSends, JoinThrows
    <2> QED
      BY <1>0, <2>1 DEF JoinEnds
  <1>9. CASE TogglePause \/ \E m \in Member : DeadlinePasses(m)
    BY <1>0, <1>9 DEF TogglePause, DeadlinePasses, Adds
  <1>10. ASSUME NEW kind \in TeamKind, SchedulerTick \/ TriggerRun(kind)
         PROVE  UNCHANGED <<status, wpc, joins>> /\ Adds(TeamKind)
    <2>1. \A k \in TeamKind : TeamJob(k) \in Job /\ TeamJob(k).kind = k
      BY JobsAreJobs DEF TeamJob
    <2>2. Adds(TeamKind)
      BY <1>10, <2>1, AddsOne DEF SchedulerTick, TriggerRun, TeamKind
    <2> QED
      BY <1>10, <2>2 DEF SchedulerTick, TriggerRun
  <1>11. CASE Next
    BY <1>0, <1>2, <1>3, <1>4, <1>5, <1>6, <1>7, <1>8, <1>9, <1>10, <1>11
    DEF Next, Adds, TeamKind
  <1> QED
    BY <1>1, <1>11

-----------------------------------------------------------------------------
(* What the outside world has used up stays used up.                        *)

LEMMA BudgetShrinks ==
    ASSUME TypeOK, [Next]_vars, NEW e \in EnvEvent
    PROVE  left'[e] \in 0..left[e]
  <1>0. left \in [EnvEvent -> Nat]
    BY DEF TypeOK
  <1>1. \A d \in EnvEvent : Spend(d) => left'[e] \in 0..left[e]
    BY DEF Spend, TypeOK
  <1>2. UNCHANGED left => left'[e] \in 0..left[e]
    BY <1>0
  <1>3. CASE UNCHANGED vars
    BY <1>2, <1>3 DEF vars
  <1>4. CASE WorkerRuns
    BY <1>2, <1>4 DEF WorkerRuns, LoadStandup, EnsureRunOpen, ListMembers, FanOut, CheckNotSent,
         AskFirstQuestion, InsertReport, ArmTimeout, GuardRetrigger, ResetReport, ReopenRun,
         ReadDeadline, RearmTimeout, Expire, WorkerFinalize
  <1>5. CASE WorkerThrows \/ WorkerCrashes \/ \E j \in Job : Take(j)
    BY <1>1, <1>2, <1>5 DEF WorkerThrows, WorkerCrashes, Take, EnvEvent
  <1>6. ASSUME NEW id \in Handler, NEW m \in Member,
               \/ ReceiveReply(id, m) \/ ReceiveSkipAll(id, m)
               \/ ReceiveKeyword(id, m) \/ ReceiveSlashStart(id, m)
        PROVE  left'[e] \in 0..left[e]
    BY <1>1, <1>2, <1>6 DEF ReceiveReply, ReceiveSkipAll, ReceiveKeyword, ReceiveSlashStart, EnvEvent
  <1>7. ASSUME NEW h \in inflight, HandlerRuns(h) \/ HandlerThrows(h)
        PROVE  left'[e] \in 0..left[e]
    BY <1>1, <1>2, <1>7 DEF HandlerRuns, HandlerThrows, WriteNext, WriteComplete, WriteAbort,
         AnswerMember, Broadcast, HandlerFinalize, DayState, EnqueueRetrigger, EnvEvent
  <1>8. ASSUME NEW m \in Member,
               AddReporter(m) \/ \E to \in {"absent", "viewer"} : DropReporter(m, to)
        PROVE  left'[e] \in 0..left[e]
    BY <1>1, <1>2, <1>8 DEF AddReporter, DropReporter, EnvEvent
  <1>9. ASSUME NEW j \in joins, JoinRuns(j) \/ JoinThrows(j)
        PROVE  left'[e] \in 0..left[e]
    BY <1>1, <1>2, <1>9 DEF JoinRuns, JoinReadsRun, JoinReadsReport, JoinSends, JoinThrows, EnvEvent
  <1>10. CASE \/ TogglePause \/ SchedulerTick
              \/ \E kind \in {"open", "force"} : TriggerRun(kind)
              \/ \E m \in Member : DeadlinePasses(m)
    BY <1>1, <1>2, <1>10 DEF TogglePause, SchedulerTick, TriggerRun, DeadlinePasses, EnvEvent
  <1> QED
    BY <1>3, <1>4, <1>5, <1>6, <1>7, <1>8, <1>9, <1>10 DEF Next

LEMMA SpentStays ==
    ASSUME TypeOK, [Next]_vars, NEW e \in EnvEvent, left[e] = 0
    PROVE  left'[e] = 0
  BY BudgetShrinks

(* None of the events es has happened so far; none happens in this step.    *)
Untouched(es) == \A e \in es : left[e] = Budget[e]
Spares(es)    == \A e \in es : left'[e] = left[e]

LEMMA UntouchedBefore ==
    ASSUME TypeOK, [Next]_vars, NEW es \in SUBSET EnvEvent,
           \A e \in EnvEvent : left[e] <= Budget[e], Untouched(es)'
    PROVE  Untouched(es) /\ Spares(es)
  <1>1. \A e \in EnvEvent : left[e] \in Nat /\ Budget[e] \in Nat /\ left'[e] \in 0..left[e]
    BY BudgetShrinks, BudgetAssumption DEF TypeOK
  <1>2. \A e \in es : left'[e] = Budget[e]
    BY DEF Untouched
  <1> QED
    BY <1>1, <1>2 DEF Untouched, Spares

LEMMA WithinBudget ==
    ASSUME TypeOK, [Next]_vars, \A e \in EnvEvent : left[e] <= Budget[e]
    PROVE  \A e \in EnvEvent : left'[e] <= Budget[e]
  <1>1. \A e \in EnvEvent : left[e] \in Nat /\ Budget[e] \in Nat /\ left'[e] \in 0..left[e]
    BY BudgetShrinks, BudgetAssumption DEF TypeOK
  <1> QED
    BY <1>1

(* Nothing fails in this step. *)
Faultless ==
    /\ ~WorkerThrows /\ ~WorkerCrashes
    /\ \A h \in inflight : ~HandlerThrows(h)
    /\ \A j \in joins : ~JoinThrows(j)

LEMMA NowhereToFail ==
    ASSUME FailAt = {}
    PROVE  Faultless
  BY DEF Faultless, WorkerThrows, WorkerCrashes, HandlerThrows, JoinThrows

LEMMA FailuresAreSpent ==
    ASSUME TypeOK, Spares({"throw", "crash"})
    PROVE  Faultless
  <1>1. \A e \in {"throw", "crash"} : ~Spend(e)
    BY DEF Spend, Spares, TypeOK, EnvEvent
  <1> QED
    BY <1>1 DEF Faultless, WorkerThrows, WorkerCrashes, HandlerThrows, JoinThrows

-----------------------------------------------------------------------------
(* Without requests to restart there is no re-trigger anywhere.             *)

NoneRestarting ==
    /\ \A j \in Job : queue[j] > 0 => j.kind # "retrigger"
    /\ wpc # "idle" => wjob.kind # "retrigger"
    /\ \A h \in inflight : h.pc \notin {"dayState", "slash", "enqueue"}

NoRestarts == left["keyword"] = 0 /\ NoneRestarting

LEMMA WorkerAdds ==
    ASSUME TypeOK, WorkerRuns
    PROVE  /\ Adds({"send", "timeout"})
           /\ wpc' # "idle" => wpc # "idle" /\ wjob' = wjob
  <1>0. wpc # "idle" =>
            /\ wjob \in Job /\ wjob.kind \in JobsAt(wpc)
            /\ wjob.kind \in MemberKind => wjob.who \in Member
    BY WorkerHolds
  <1>1. \A kind \in {"send", "timeout"}, m \in Member :
            Enqueue(MemberJob(kind, m)) => Adds({"send", "timeout"})
    <2>1. ASSUME NEW kind \in {"send", "timeout"}, NEW m \in Member, Enqueue(MemberJob(kind, m))
          PROVE  Adds({"send", "timeout"})
      <3>1. MemberJob(kind, m) \in Job /\ MemberJob(kind, m).kind \in {"send", "timeout"}
        BY JobsAreJobs DEF MemberKind, MemberJob
      <3> QED
        BY <2>1, <3>1, AddsOne
    <2> QED
      BY <2>1
  <1>2. CASE ArmTimeout \/ RearmTimeout
    <2>1. wjob.who \in Member
      BY <1>0, <1>2 DEF ArmTimeout, RearmTimeout, JobsAt, MemberKind
    <2>2. ASSUME NEW m \in Member, m = wjob.who
          PROVE  Adds({"send", "timeout"})
      BY <1>1, <1>2, <2>2 DEF ArmTimeout, RearmTimeout
    <2> QED
      BY <1>2, <2>1, <2>2 DEF ArmTimeout, RearmTimeout, Goto, Finish
  <1>3. ASSUME NEW m \in Member, FanOut(m)
        PROVE  /\ Adds({"send", "timeout"})
               /\ wpc' # "idle" => wpc # "idle" /\ wjob' = wjob
    BY <1>1, <1>3 DEF FanOut, Finish
  <1>4. CASE \/ LoadStandup \/ EnsureRunOpen \/ ListMembers \/ CheckNotSent \/ AskFirstQuestion
             \/ InsertReport \/ GuardRetrigger \/ ResetReport \/ ReopenRun
             \/ ReadDeadline \/ Expire \/ WorkerFinalize
    BY <1>4 DEF LoadStandup, EnsureRunOpen, ListMembers, CheckNotSent, AskFirstQuestion,
         InsertReport, GuardRetrigger, ResetReport, ReopenRun, ReadDeadline, Expire,
         WorkerFinalize, Goto, Finish, Adds, FinalizeStep
  <1> QED
    BY <1>2, <1>3, <1>4 DEF WorkerRuns

(* A handler is new, unchanged, or moved on by the one that ran.            *)
LEMMA NoneRestartingStep ==
    ASSUME TypeOK, NoneRestarting, [Next]_vars, left'["keyword"] = left["keyword"]
    PROVE  NoneRestarting'
  <1> USE DEF slackVars, workerVars
  <1>1. CASE UNCHANGED vars
    BY <1>1 DEF NoneRestarting, vars
  <1>2. ASSUME NEW j \in Job, Take(j)
        PROVE  NoneRestarting'
    BY <1>2 DEF Take, NoneRestarting, TypeOK
  <1>3. CASE WorkerRuns
    BY <1>3, WorkerAdds, WorkerLeavesHandlers DEF NoneRestarting, Adds
  <1>4. CASE WorkerThrows \/ WorkerCrashes
    <2>1. wjob \in Job /\ wjob.kind # "retrigger"
      BY <1>4, WorkerHolds DEF WorkerThrows, WorkerCrashes, WorkerStep, FinalizeStep, NoneRestarting
    <2>2. \A j \in Job : queue'[j] > 0 => j.kind # "retrigger"
      <3>1. CASE UNCHANGED queue
        BY <3>1 DEF NoneRestarting
      <3>2. CASE MayRetry(wjob) /\ Enqueue([wjob EXCEPT !.tries = @ + 1])
        <4>1. /\ [wjob EXCEPT !.tries = @ + 1] \in Job
              /\ [wjob EXCEPT !.tries = @ + 1].kind = wjob.kind
          BY <2>1, <3>2, JobsAreJobs DEF Job
        <4>2. Adds({wjob.kind})
          BY <3>2, <4>1, AddsOne
        <4> QED
          BY <2>1, <4>2 DEF Adds, NoneRestarting
      <3>3. CASE Enqueue(wjob)
        <4>1. Adds({wjob.kind})
          BY <2>1, <3>3, AddsOne
        <4> QED
          BY <2>1, <4>1 DEF Adds, NoneRestarting
      <3> QED
        BY <1>4, <3>1, <3>2, <3>3 DEF WorkerThrows, WorkerCrashes
    <2> QED
      BY <1>4, <2>2 DEF WorkerThrows, WorkerCrashes, Finish, NoneRestarting
  <1>5. ASSUME NEW id \in Handler, NEW m \in Member,
               \/ ReceiveReply(id, m) \/ ReceiveSkipAll(id, m)
               \/ ReceiveKeyword(id, m) \/ ReceiveSlashStart(id, m)
        PROVE  NoneRestarting'
    <2>1. ReceiveReply(id, m) \/ ReceiveSkipAll(id, m)
      BY <1>5 DEF ReceiveKeyword, ReceiveSlashStart, Spend, TypeOK, EnvEvent
    <2> QED
      BY <2>1 DEF ReceiveReply, ReceiveSkipAll, Start, NoneRestarting
  <1>6. ASSUME NEW h \in inflight, HandlerRuns(h) \/ HandlerThrows(h)
        PROVE  NoneRestarting'
    <2>1. h \in HandlerState /\ h.pc \notin {"dayState", "slash", "enqueue"}
      BY DEF TypeOK, NoneRestarting
    <2>2. UNCHANGED <<queue, wpc, wjob>>
      BY <1>6, <2>1 DEF HandlerRuns, HandlerThrows, WriteNext, WriteComplete, WriteAbort,
           AnswerMember, Broadcast, HandlerFinalize, DayState, EnqueueRetrigger
    <2>3. Return(h) \/ \E pc \in FinalizeStep \cup {"outro", "broadcast", "reply"} : GoOn(h, pc)
      BY <1>6, <2>1 DEF HandlerRuns, HandlerThrows, WriteNext, WriteComplete, WriteAbort,
           AnswerMember, Broadcast, HandlerFinalize, DayState, EnqueueRetrigger, FinalizeStep
    <2>4. \A g \in inflight' : g.pc \notin {"dayState", "slash", "enqueue"}
      BY <2>1, <2>3 DEF Return, GoOn, HandlerState, FinalizeStep, NoneRestarting
    <2> QED
      BY <2>2, <2>4 DEF NoneRestarting
  <1>7. ASSUME NEW m \in Member,
               AddReporter(m) \/ \E to \in {"absent", "viewer"} : DropReporter(m, to)
        PROVE  NoneRestarting'
    BY <1>7 DEF AddReporter, DropReporter, NoneRestarting
  <1>8. ASSUME NEW j \in joins, JoinRuns(j) \/ JoinThrows(j)
        PROVE  NoneRestarting'
    <2>1. UNCHANGED queue \/ Enqueue(MemberJob("send", j.who))
      BY <1>8 DEF JoinRuns, JoinReadsRun, JoinReadsReport, JoinSends, JoinThrows
    <2>2. MemberJob("send", j.who) \in Job /\ MemberJob("send", j.who).kind = "send"
      BY JoinTypes, JobsAreJobs DEF TypeOK, MemberKind, MemberJob
    <2>3. Adds({"send"})
      BY <2>1, <2>2, AddsOne DEF Adds
    <2> QED
      BY <1>8, <2>3
      DEF JoinRuns, JoinReadsRun, JoinReadsReport, JoinSends, JoinThrows, NoneRestarting, Adds
  <1>9. CASE TogglePause \/ \E m \in Member : DeadlinePasses(m)
    BY <1>9 DEF TogglePause, DeadlinePasses, NoneRestarting
  <1>10. ASSUME NEW kind \in TeamKind, SchedulerTick \/ TriggerRun(kind)
         PROVE  NoneRestarting'
    <2>1. \A k \in TeamKind : TeamJob(k) \in Job /\ TeamJob(k).kind = k
      BY JobsAreJobs DEF TeamJob
    <2>2. Adds(TeamKind)
      BY <1>10, <2>1, AddsOne DEF SchedulerTick, TriggerRun, TeamKind
    <2> QED
      BY <1>10, <2>2 DEF SchedulerTick, TriggerRun, NoneRestarting, Adds, TeamKind
  <1>11. CASE Next
    BY <1>2, <1>3, <1>4, <1>5, <1>6, <1>7, <1>8, <1>9, <1>10, <1>11 DEF Next, TeamKind
  <1> QED
    BY <1>1, <1>11

LEMMA NoRestartsStep ==
    ASSUME TypeOK, NoRestarts, [Next]_vars
    PROVE  NoRestarts'
  BY SpentStays, NoneRestartingStep DEF NoRestarts, EnvEvent

-----------------------------------------------------------------------------
(* The last report to finish sends somebody to close the run.               *)

FinishingStep == FinalizeStep \cup {"outro", "broadcast", "reply"}

(* ... of which these are the ones where a failure goes uncaught.           *)
ClosingStep == FinalizeStep \cup {"outro", "reply"}

(* A step that no report and no run notices, and that takes nobody off the  *)
(* way to finalization.                                                     *)
Unnoticed ==
    /\ UNCHANGED <<run, status>>
    /\ wpc \in FinalizeStep => wpc' = wpc
    /\ \A h \in inflight : h.pc \in FinishingStep => h \in inflight'

LEMMA UnnoticedFinalizes ==
    ASSUME LastReportFinalizes, Unnoticed
    PROVE  LastReportFinalizes'
  BY DEF LastReportFinalizes, Unnoticed, Finalizing, FinishingStep, AllReportsTerminal

LEMMA GoingOnFinalizes ==
    ASSUME TypeOK, NEW h \in inflight, NEW pc \in FinishingStep, GoOn(h, pc)
    PROVE  Finalizing'
  <1>1. [h EXCEPT !.pc = pc].pc = pc
    BY DEF TypeOK, HandlerState
  <1> QED
    BY <1>1 DEF GoOn, Finalizing, FinishingStep

LEMMA WorkerFinalizes ==
    ASSUME TypeOK, NothingBeforeRun, NoneRestarting, LastReportFinalizes, WorkerRuns
    PROVE  LastReportFinalizes'
  <1>0. /\ wpc # "idle" =>
              /\ wjob \in Job /\ wjob.kind \in JobsAt(wpc)
              /\ wjob.kind \in MemberKind => wjob.who \in Member
              /\ wjob.kind # "retrigger"
        /\ UNCHANGED inflight
    BY WorkerHolds, WorkerLeavesHandlers DEF NoneRestarting
  <1>1. CASE \/ LoadStandup \/ ListMembers \/ \E m \in Member : FanOut(m)
             \/ CheckNotSent \/ AskFirstQuestion \/ ArmTimeout \/ GuardRetrigger
             \/ ReadDeadline \/ RearmTimeout
    <2>1. Unnoticed
      BY <1>0, <1>1 DEF Unnoticed, LoadStandup, ListMembers, FanOut, CheckNotSent,
           AskFirstQuestion, ArmTimeout, GuardRetrigger, ReadDeadline, RearmTimeout, dbVars,
           FinalizeStep
    <2> QED
      BY <2>1, UnnoticedFinalizes
  <1>2. CASE EnsureRunOpen
    <2>1. CASE run = "none"
      BY <1>2, <2>1 DEF EnsureRunOpen, NothingBeforeRun, LastReportFinalizes
    <2>2. CASE run # "none"
      <3>1. Unnoticed
        BY <1>0, <1>2, <2>2 DEF EnsureRunOpen, Unnoticed, FinalizeStep
      <3> QED
        BY <3>1, UnnoticedFinalizes
    <2> QED
      BY <2>1, <2>2
  <1>3. CASE InsertReport
    <2>1. wjob.who \in Member
      BY <1>0, <1>3 DEF InsertReport, JobsAt, MemberKind
    <2>2. CASE OpenReport(wjob.who)
      <3>1. status'[wjob.who] = "in_progress"
        BY <2>1, <2>2 DEF OpenReport, TypeOK
      <3> QED
        BY <2>1, <3>1 DEF LastReportFinalizes, AllReportsTerminal, Terminal
    <2>3. CASE UNCHANGED status
      <3>1. Unnoticed
        BY <1>0, <1>3, <2>3 DEF InsertReport, Unnoticed, FinalizeStep
      <3> QED
        BY <3>1, UnnoticedFinalizes
    <2> QED
      BY <1>3, <2>2, <2>3 DEF InsertReport
  <1>4. CASE ResetReport \/ ReopenRun
    BY <1>0, <1>4 DEF ResetReport, ReopenRun, JobsAt, FinalizeStep
  <1>5. CASE Expire
    BY <1>5 DEF Expire, Goto, FinalizeStep, Finalizing, LastReportFinalizes
  <1>6. CASE WorkerFinalize
    BY <1>6 DEF WorkerFinalize, Goto, Finish, FinalizeStep, Finalizing, LastReportFinalizes,
                AllReportsTerminal
  <1> QED
    BY <1>1, <1>2, <1>3, <1>4, <1>5, <1>6 DEF WorkerRuns

LEMMA HandlerFinalizes ==
    ASSUME TypeOK, NoneRestarting, LastReportFinalizes, NEW h \in inflight, HandlerRuns(h)
    PROVE  LastReportFinalizes'
  <1>1. CASE WriteNext(h)
    <2>1. Unnoticed
      BY <1>1 DEF WriteNext, Return, Unnoticed, FinishingStep, FinalizeStep, workerVars
    <2> QED
      BY <2>1, UnnoticedFinalizes
  <1>2. CASE WriteComplete(h) \/ WriteAbort(h) \/ AnswerMember(h) \/ Broadcast(h)
    <2>1. \E pc \in FinishingStep : GoOn(h, pc)
      BY <1>2 DEF WriteComplete, WriteAbort, AnswerMember, Broadcast, FinishingStep, FinalizeStep
    <2> QED
      BY <2>1, GoingOnFinalizes DEF LastReportFinalizes
  <1>3. CASE HandlerFinalize(h)
    <2>1. ASSUME NEW pc \in FinishingStep, GoOn(h, pc)
          PROVE  LastReportFinalizes'
      BY <2>1, GoingOnFinalizes DEF LastReportFinalizes
    <2>2. CASE run' = "completed"
      BY <2>2 DEF LastReportFinalizes
    <2>3. CASE UNCHANGED status /\ ~AllReportsTerminal
      BY <2>3 DEF LastReportFinalizes, AllReportsTerminal
    <2> QED
      BY <1>3, <2>1, <2>2, <2>3 DEF HandlerFinalize, FinishingStep, FinalizeStep
  <1>4. CASE DayState(h) \/ EnqueueRetrigger(h)
    BY <1>4 DEF DayState, EnqueueRetrigger, NoneRestarting
  <1> QED
    BY <1>1, <1>2, <1>3, <1>4 DEF HandlerRuns

LEMMA FailureFinalizes ==
    ASSUME FailAt \cap ClosingStep = {}, TypeOK, LastReportFinalizes,
           \/ WorkerThrows \/ WorkerCrashes
           \/ \E h \in inflight : HandlerThrows(h)
           \/ \E j \in joins : JoinThrows(j)
    PROVE  LastReportFinalizes'
  <1> USE DEF dbVars, slackVars, workerVars
  <1>1. CASE WorkerThrows \/ WorkerCrashes \/ \E j \in joins : JoinThrows(j)
    <2>1. Unnoticed
      BY <1>1 DEF WorkerThrows, WorkerCrashes, JoinThrows, Unnoticed, ClosingStep
    <2> QED
      BY <2>1, UnnoticedFinalizes
  <1>2. ASSUME NEW h \in inflight, HandlerThrows(h)
        PROVE  LastReportFinalizes'
    <2>1. CASE h.pc = "broadcast"
      <3>1. GoOn(h, "runRead") /\ "runRead" \in FinishingStep
        BY <1>2, <2>1 DEF HandlerThrows, FinishingStep, FinalizeStep
      <3> QED
        BY <3>1, GoingOnFinalizes DEF LastReportFinalizes
    <2>2. CASE h.pc # "broadcast"
      <3>1. h.pc \notin FinishingStep
        BY <1>2, <2>2 DEF HandlerThrows, FinishingStep, ClosingStep
      <3>2. Unnoticed
        BY <1>2, <2>2, <3>1 DEF HandlerThrows, Return, Unnoticed
      <3> QED
        BY <3>2, UnnoticedFinalizes
    <2> QED
      BY <2>1, <2>2
  <1> QED
    BY <1>1, <1>2

LEMMA LastReportFinalizesStep ==
    ASSUME FailAt \cap ClosingStep = {}, TypeOK, NothingBeforeRun, NoneRestarting,
           LastReportFinalizes, [Next]_vars
    PROVE  LastReportFinalizes'
  <1> USE DEF dbVars, slackVars, workerVars
  <1>1. CASE UNCHANGED vars
    BY <1>1, UnnoticedFinalizes DEF vars, Unnoticed
  <1>2. ASSUME NEW j \in Job, Take(j)
        PROVE  Unnoticed
    BY <1>2 DEF Take, Unnoticed, FinalizeStep
  <1>3. CASE WorkerThrows \/ WorkerCrashes
    BY <1>3, FailureFinalizes
  <1>4. ASSUME NEW id \in Handler, NEW m \in Member,
               \/ ReceiveReply(id, m) \/ ReceiveSkipAll(id, m)
               \/ ReceiveKeyword(id, m) \/ ReceiveSlashStart(id, m)
        PROVE  Unnoticed
    BY <1>4 DEF ReceiveReply, ReceiveSkipAll, ReceiveKeyword, ReceiveSlashStart, Start, Unnoticed
  <1>5. ASSUME NEW h \in inflight, HandlerRuns(h) \/ HandlerThrows(h)
        PROVE  LastReportFinalizes'
    BY <1>5, HandlerFinalizes, FailureFinalizes
  <1>6. ASSUME NEW m \in Member,
               AddReporter(m) \/ \E to \in {"absent", "viewer"} : DropReporter(m, to)
        PROVE  Unnoticed
    BY <1>6 DEF AddReporter, DropReporter, Unnoticed
  <1>7. ASSUME NEW j \in joins, JoinRuns(j) \/ JoinThrows(j)
        PROVE  Unnoticed
    BY <1>7 DEF JoinRuns, JoinReadsRun, JoinReadsReport, JoinSends, JoinThrows, Unnoticed
  <1>8. CASE \/ TogglePause \/ SchedulerTick
             \/ \E kind \in {"open", "force"} : TriggerRun(kind)
             \/ \E m \in Member : DeadlinePasses(m)
    BY <1>8, UnnoticedFinalizes
    DEF TogglePause, SchedulerTick, TriggerRun, DeadlinePasses, Unnoticed
  <1>9. CASE Next
    BY <1>2, <1>3, <1>4, <1>5, <1>6, <1>7, <1>8, <1>9, WorkerFinalizes, UnnoticedFinalizes
    DEF Next
  <1> QED
    BY <1>1, <1>9

(* Jobs and handlers may fail wherever the failure is caught or the job is  *)
(* run again, and nobody asks for a restart: then a running run whose       *)
(* reports are all terminal has a handler or the worker on the way to       *)
(* completing it, for every team and every number of concurrent handlers.   *)
THEOREM LastReportCloses ==
    ASSUME FailAt \cap ClosingStep = {}, Budget["keyword"] = 0
    PROVE  Spec => []LastReportFinalizes
  <1> DEFINE IInv ==
        TypeOK /\ HandlersHaveReports /\ NothingBeforeRun /\ NoRestarts /\ LastReportFinalizes
  <1>1. Init => IInv
    BY InitTypeOK
    DEF Init, HandlersHaveReports, NothingBeforeRun, NoRestarts, NoneRestarting, LastReportFinalizes
  <1>2. IInv /\ [Next]_vars => IInv'
    BY NextTypeOK, HandlersKeepReports, NothingBeforeRunStep, NoRestartsStep,
       LastReportFinalizesStep DEF NoRestarts
  <1> QED
    BY <1>1, <1>2, PTL DEF Spec

-----------------------------------------------------------------------------
(* Nobody who reports is left out of an open run.                           *)

(* A retrigger that opened the run has found no report of its member, and   *)
(* the member has one by the time it turns to the rest of the team.         *)
RestartsHaveReports ==
    /\ wpc = "guard" /\ created => status[wjob.who] = "none"
    /\ wpc \in {"reopen", "arm", "members"} /\ wjob.kind = "retrigger"
          => status[wjob.who] # "none"

LEMMA RestartsHaveReportsStep ==
    ASSUME TypeOK, HandlersHaveReports, NothingBeforeRun, RestartsHaveReports, [Next]_vars
    PROVE  RestartsHaveReports'
  <1>0. wpc # "idle" =>
            /\ wjob \in Job /\ wjob.kind \in JobsAt(wpc)
            /\ wjob.kind \in MemberKind => wjob.who \in Member
    BY WorkerHolds
  <1>1. CASE Bystander
    <2>1. wpc = "guard" => wjob.who \in Member
      BY <1>0 DEF JobsAt, MemberKind, FinalizeStep
    <2>2. wpc \in {"reopen", "arm", "members"} /\ wjob.kind = "retrigger" => wjob.who \in Member
      BY <1>0 DEF MemberKind
    <2> QED
      BY <1>1, <2>1, <2>2 DEF Bystander, RestartsHaveReports, Terminal
  <1>2. ASSUME NEW j \in Job, Take(j)
        PROVE  RestartsHaveReports'
    BY <1>2, JobKinds DEF Take, FirstStep, TeamKind, MemberKind, RestartsHaveReports
  <1>3. CASE WorkerThrows \/ WorkerCrashes
    BY <1>3 DEF WorkerThrows, WorkerCrashes, Finish, RestartsHaveReports
  <1>4. CASE WorkerRuns
    <2>1. CASE EnsureRunOpen
      <3>1. wjob.kind = "retrigger" => wjob.who \in Member
        BY <1>0, <2>1 DEF EnsureRunOpen, MemberKind
      <3> QED
        BY <2>1, <3>1 DEF EnsureRunOpen, NothingBeforeRun, RestartsHaveReports
    <2>2. CASE InsertReport
      BY <1>0, <2>2 DEF InsertReport, Goto, JobsAt, FinalizeStep, RestartsHaveReports
    <2>3. CASE ResetReport
      <3>1. wjob.who \in Member
        BY <1>0, <2>3 DEF ResetReport, JobsAt, MemberKind, FinalizeStep
      <3> QED
        BY <2>3, <3>1 DEF ResetReport, OpenReport, Goto, TypeOK, RestartsHaveReports
    <2>4. CASE ReopenRun \/ ArmTimeout
      BY <2>4 DEF ReopenRun, ArmTimeout, Goto, Finish, dbVars, RestartsHaveReports
    <2>5. CASE \/ LoadStandup \/ ListMembers \/ \E m \in Member : FanOut(m)
               \/ CheckNotSent \/ AskFirstQuestion \/ GuardRetrigger
               \/ ReadDeadline \/ RearmTimeout \/ Expire \/ WorkerFinalize
      BY <2>5 DEF LoadStandup, ListMembers, FanOut, CheckNotSent, AskFirstQuestion,
           GuardRetrigger, ReadDeadline, RearmTimeout, Expire, WorkerFinalize, Goto, Finish,
           RestartsHaveReports
    <2> QED
      BY <1>4, <2>1, <2>2, <2>3, <2>4, <2>5 DEF WorkerRuns
  <1> QED
    BY <1>1, <1>2, <1>3, <1>4, StepKinds

(* Only a pause makes the standup inactive.                                 *)
LEMMA StaysActive ==
    ASSUME TypeOK, active, Spares({"pause"}), [Next]_vars
    PROVE  active'
  <1> USE DEF dbVars
  <1>1. ~TogglePause
    BY DEF TogglePause, Spend, Spares, TypeOK, EnvEvent
  <1>2. CASE UNCHANGED vars
    BY <1>2 DEF vars
  <1>3. CASE WorkerRuns \/ WorkerThrows \/ WorkerCrashes \/ \E j \in Job : Take(j)
    BY <1>3 DEF WorkerRuns, LoadStandup, EnsureRunOpen, ListMembers, FanOut, CheckNotSent,
         AskFirstQuestion, InsertReport, ArmTimeout, GuardRetrigger, ResetReport, ReopenRun,
         ReadDeadline, RearmTimeout, Expire, WorkerFinalize, WorkerThrows, WorkerCrashes, Take
  <1>4. ASSUME NEW id \in Handler, NEW m \in Member,
               \/ ReceiveReply(id, m) \/ ReceiveSkipAll(id, m)
               \/ ReceiveKeyword(id, m) \/ ReceiveSlashStart(id, m)
        PROVE  active'
    BY <1>4 DEF ReceiveReply, ReceiveSkipAll, ReceiveKeyword, ReceiveSlashStart, Start
  <1>5. ASSUME NEW h \in inflight, HandlerRuns(h) \/ HandlerThrows(h)
        PROVE  active'
    BY <1>5 DEF HandlerRuns, HandlerThrows, WriteNext, WriteComplete, WriteAbort,
         AnswerMember, Broadcast, HandlerFinalize, DayState, EnqueueRetrigger
  <1>6. ASSUME NEW m \in Member,
               AddReporter(m) \/ \E to \in {"absent", "viewer"} : DropReporter(m, to)
        PROVE  active'
    BY <1>6 DEF AddReporter, DropReporter
  <1>7. ASSUME NEW j \in joins, JoinRuns(j) \/ JoinThrows(j)
        PROVE  active'
    BY <1>7 DEF JoinRuns, JoinReadsRun, JoinReadsReport, JoinSends, JoinThrows
  <1>8. CASE \/ SchedulerTick \/ \E kind \in {"open", "force"} : TriggerRun(kind)
             \/ \E m \in Member : DeadlinePasses(m)
    BY <1>8 DEF SchedulerTick, TriggerRun, DeadlinePasses
  <1> QED
    BY <1>1, <1>2, <1>3, <1>4, <1>5, <1>6, <1>7, <1>8 DEF Next

LEMMA WorkerMovesOn ==
    ASSUME TypeOK, WorkerRuns
    PROVE  QueueGrows /\ UNCHANGED <<membership, joins>>
  <1>0. wpc # "idle" =>
            /\ wjob \in Job /\ wjob.kind \in JobsAt(wpc)
            /\ wjob.kind \in MemberKind => wjob.who \in Member
    BY WorkerHolds
  <1>1. CASE ArmTimeout \/ RearmTimeout
    <2>1. wjob.who \in Member
      BY <1>0, <1>1 DEF ArmTimeout, RearmTimeout, JobsAt, MemberKind, FinalizeStep
    <2> QED
      BY <1>1, <2>1, JobsAreJobs DEF ArmTimeout, RearmTimeout, QueueGrows, MemberKind, dbVars
  <1>2. ASSUME NEW m \in Member, FanOut(m)
        PROVE  QueueGrows /\ UNCHANGED <<membership, joins>>
    BY <1>2, JobsAreJobs DEF FanOut, QueueGrows, MemberKind, dbVars
  <1>3. CASE \/ LoadStandup \/ EnsureRunOpen \/ ListMembers \/ CheckNotSent \/ AskFirstQuestion
             \/ InsertReport \/ GuardRetrigger \/ ResetReport \/ ReopenRun
             \/ ReadDeadline \/ Expire \/ WorkerFinalize
    BY <1>3 DEF LoadStandup, EnsureRunOpen, ListMembers, CheckNotSent, AskFirstQuestion,
         InsertReport, GuardRetrigger, ResetReport, ReopenRun, ReadDeadline, Expire,
         WorkerFinalize, QueueGrows, dbVars
  <1> QED
    BY <1>1, <1>2, <1>3 DEF WorkerRuns

(* One step of the worker, for one reporter who has no report after it. *)
LEMMA WorkerForgetsNobody ==
    ASSUME TypeOK, NothingBeforeRun, RestartsHaveReports, NoReporterForgotten, WorkerRuns,
           NEW m \in Reporters', run' # "none", status'[m] = "none"
    PROVE  Awaited(m)'
  <1> USE DEF Goto, Finish
  <1>0. /\ m \in Member /\ m \in Reporters /\ status[m] = "none"
        /\ QueueGrows /\ joins' = joins
        /\ UNCHANGED membership
    BY WorkerMovesOn, WorkerKeepsReports DEF Reporters
  <1>1. wpc # "idle" =>
            /\ wjob \in Job /\ wjob.kind \in JobsAt(wpc)
            /\ wjob.kind \in MemberKind => wjob.who \in Member
    BY WorkerHolds
  <1>2. CASE Queued("send", m) \/ \E j \in joins : j.who = m
    BY <1>0, <1>2, QueuedStays DEF Awaited
  <1>3. CASE EnsureRunOpen
    <2>1. CASE run = "none"
      BY <2>1, <1>3 DEF EnsureRunOpen, Awaited
    <2>2. CASE run # "none"
      <3>1. Awaited(m)
        BY <1>0, <2>2 DEF NoReporterForgotten
      <3> QED
        BY <1>2, <1>3, <3>1 DEF EnsureRunOpen, Awaited, WorkingOn
    <2> QED
      BY <2>1, <2>2
  <1>4. ASSUME ~EnsureRunOpen, ~Queued("send", m), \A j \in joins : j.who # m
        PROVE  Awaited(m)'
    <2>0. /\ wpc = "ensure" => FALSE
          /\ run # "none"
      BY <1>4 DEF NothingBeforeRun, WorkerRuns, LoadStandup, EnsureRunOpen, ListMembers, FanOut,
           CheckNotSent, AskFirstQuestion, InsertReport, ArmTimeout, GuardRetrigger, ResetReport,
           ReopenRun, ReadDeadline, RearmTimeout, Expire, WorkerFinalize, FinalizeStep, dbVars
    <2>1. \/ WorkingOn(m, {"exists", "ask", "insert"}) /\ wjob.kind = "send"
          \/ wpc = "members"
          \/ wpc = "fan" /\ m \in todo
          \/ /\ wpc \in {"guard", "ask", "reset", "reopen", "arm"}
             /\ wjob.kind = "retrigger" /\ created
      BY <1>0, <1>4, <2>0 DEF NoReporterForgotten, Awaited
    <2>2. CASE ListMembers
      BY <1>0, <2>2 DEF ListMembers, RestartsHaveReports, Awaited
    <2>3. ASSUME NEW n \in Member, FanOut(n)
          PROVE  Awaited(m)'
      <3>1. wpc = "fan" /\ m \in todo
        BY <2>1, <2>3 DEF FanOut, WorkingOn
      <3>2. CASE n = m
        BY <1>0, <2>3, <3>2, EnqueuedIsQueued DEF FanOut, MemberKind, Awaited
      <3>3. CASE n # m
        BY <2>3, <3>1, <3>3 DEF FanOut, Awaited
      <3> QED
        BY <3>2, <3>3
    <2>4. CASE CheckNotSent
      BY <1>0, <2>1, <2>4 DEF CheckNotSent, WorkingOn, Awaited
    <2>5. CASE AskFirstQuestion
      BY <2>1, <2>5 DEF AskFirstQuestion, WorkingOn, Awaited
    <2>6. CASE InsertReport
      <3>1. wjob.kind = "send"
        BY <1>1, <2>6 DEF InsertReport, JobsAt, FinalizeStep
      <3>2. wjob.who = m
        BY <2>1, <2>6, <3>1 DEF InsertReport, WorkingOn
      <3>3. status'[m] # "none"
        BY <1>0, <2>6, <3>2 DEF InsertReport, OpenReport, TypeOK
      <3> QED
        BY <3>3
    <2>7. CASE GuardRetrigger
      BY <2>1, <2>7 DEF GuardRetrigger, RestartsHaveReports, WorkingOn, Awaited
    <2>8. CASE ResetReport \/ ReopenRun
      BY <2>1, <2>8 DEF ResetReport, ReopenRun, WorkingOn, Awaited
    <2>9. CASE ArmTimeout
      BY <2>1, <2>9 DEF ArmTimeout, WorkingOn, Awaited
    <2>10. CASE LoadStandup \/ ReadDeadline \/ RearmTimeout \/ Expire \/ WorkerFinalize
      BY <2>1, <2>10 DEF LoadStandup, ReadDeadline, RearmTimeout, Expire, WorkerFinalize,
           WorkingOn
    <2> QED
      BY <1>4, <2>2, <2>3, <2>4, <2>5, <2>6, <2>7, <2>8, <2>9, <2>10 DEF WorkerRuns
  <1> QED
    BY <1>2, <1>3, <1>4

LEMMA TakeForgetsNobody ==
    ASSUME TypeOK, NEW j \in Job, Take(j), NEW m, Awaited(m)
    PROVE  Awaited(m)'
  <1>1. CASE \E k \in joins : k.who = m
    BY <1>1 DEF Take, Awaited
  <1>2. CASE Queued("send", m)
    <2>1. PICK k \in Job : k.kind = "send" /\ k.who = m /\ queue[k] > 0
      BY <1>2 DEF Queued
    <2>2. CASE k = j
      <3>1. wpc' = "exists" /\ wjob' = j
        BY <2>1, <2>2 DEF Take, FirstStep, TeamKind
      <3> QED
        BY <2>1, <2>2, <3>1 DEF Awaited, WorkingOn
    <2>3. CASE k # j
      <3>1. queue'[k] = queue[k]
        BY <2>3 DEF Take, TypeOK
      <3> QED
        BY <2>1, <3>1 DEF Queued, Awaited
    <2> QED
      BY <2>2, <2>3
  <1> QED
    BY <1>1, <1>2 DEF Take, Awaited, WorkingOn

(* Whoever is not the worker takes away nothing that awaits m but joins. *)
LEMMA BystanderForgetsNobody ==
    ASSUME TypeOK, Bystander, NEW m, Awaited(m),
           (\E j \in joins : j.who = m) => Awaited(m)'
    PROVE  Awaited(m)'
  <1>1. CASE Queued("send", m)
    BY <1>1, QueuedStays DEF Bystander, Awaited
  <1> QED
    BY <1>1 DEF Bystander, Awaited, WorkingOn

LEMMA JoinForgetsNobody ==
    ASSUME TypeOK, active, NEW j \in joins, JoinRuns(j),
           j.who \in Reporters, run # "none", status[j.who] = "none"
    PROVE  Awaited(j.who)'
  <1>1. j \in JoinState /\ j.who \in Member
    BY JoinTypes DEF TypeOK
  <1>2. ASSUME NEW pc \in JoinStep, JoinGoesOn(j, pc)
        PROVE  Awaited(j.who)'
    <2>1. [j EXCEPT !.pc = pc] \in joins' /\ [j EXCEPT !.pc = pc].who = j.who
      BY <1>1, <1>2 DEF JoinGoesOn, JoinState
    <2> QED
      BY <2>1 DEF Awaited
  <1>3. CASE JoinReadsRun(j) \/ JoinReadsReport(j)
    BY <1>2, <1>3 DEF JoinReadsRun, JoinReadsReport, Reporters, JoinStep
  <1>4. CASE JoinSends(j)
    <2>1. ASSUME NEW m \in Member, m = j.who
          PROVE  Queued("send", m)'
      BY <1>4, <2>1, EnqueuedIsQueued DEF JoinSends, MemberKind
    <2> QED
      BY <1>1, <2>1 DEF Awaited
  <1> QED
    BY <1>3, <1>4 DEF JoinRuns

LEMMA NoReporterForgottenStep ==
    ASSUME Faultless, Spares({"pause"}), active, TypeOK, HandlersHaveReports, NothingBeforeRun,
           RestartsHaveReports, NoReporterForgotten, [Next]_vars
    PROVE  NoReporterForgotten'
  <1> SUFFICES ASSUME NEW m \in Reporters', run' # "none", status'[m] = "none"
               PROVE  Awaited(m)'
    BY DEF NoReporterForgotten
  <1> USE DEF dbVars, slackVars, workerVars
  <1>0. m \in Member /\ membership'[m] = "reporter"
    BY DEF Reporters
  <1>1. ASSUME Bystander, UNCHANGED <<run, membership>>,
               Awaited(m) => ((\E j \in joins : j.who = m) => Awaited(m)')
        PROVE  Awaited(m)'
    <2>1. m \in Reporters /\ run # "none" /\ status[m] = "none"
      BY <1>0, <1>1 DEF Bystander, Reporters, Terminal
    <2> QED
      BY <1>1, <2>1, BystanderForgetsNobody DEF NoReporterForgotten
  <1>2. ASSUME UNCHANGED joins
        PROVE  (\E j \in joins : j.who = m) => Awaited(m)'
    BY <1>2 DEF Awaited
  <1>3. CASE UNCHANGED vars
    BY <1>1, <1>2, <1>3 DEF vars, Bystander, QueueGrows
  <1>4. ASSUME NEW j \in Job, Take(j)
        PROVE  Awaited(m)'
    <2>1. m \in Reporters /\ run # "none" /\ status[m] = "none"
      BY <1>0, <1>4 DEF Take, Reporters
    <2> QED
      BY <1>4, <2>1, TakeForgetsNobody DEF NoReporterForgotten
  <1>5. CASE WorkerRuns
    BY <1>5, WorkerForgetsNobody
  <1>6. ~WorkerThrows /\ ~WorkerCrashes
    BY DEF Faultless
  <1>7. ASSUME NEW id \in Handler, NEW n \in Member,
               \/ ReceiveReply(id, n) \/ ReceiveSkipAll(id, n)
               \/ ReceiveKeyword(id, n) \/ ReceiveSlashStart(id, n)
        PROVE  Awaited(m)'
    <2>1. UNCHANGED <<run, membership, joins>>
      BY <1>7 DEF ReceiveReply, ReceiveSkipAll, ReceiveKeyword, ReceiveSlashStart, Start
    <2> QED
      BY <1>1, <1>2, <1>7, <2>1, OutsidersAreBystanders
  <1>8. ASSUME NEW h \in inflight, HandlerRuns(h) \/ HandlerThrows(h)
        PROVE  Awaited(m)'
    <2>1. UNCHANGED <<membership, joins>>
      BY <1>8 DEF HandlerRuns, HandlerThrows, WriteNext, WriteComplete, WriteAbort, AnswerMember,
           Broadcast, HandlerFinalize, DayState, EnqueueRetrigger
    <2>2. Bystander
      BY <1>8, OutsidersAreBystanders
    <2>3. CASE UNCHANGED run
      BY <1>1, <1>2, <2>1, <2>2, <2>3
    <2>4. CASE run' # run
      <3>1. h.pc = "runWrite" /\ h.who \in Member
        BY <1>8, <2>4, HandlerTypes
        DEF HandlerRuns, HandlerThrows, WriteNext, WriteComplete, WriteAbort, AnswerMember,
            Broadcast, HandlerFinalize, DayState, EnqueueRetrigger, TypeOK
      <3>2. run # "none"
        BY <3>1 DEF HandlersHaveReports, NothingBeforeRun
      <3>3. m \in Reporters /\ status[m] = "none"
        BY <1>0, <2>1, <2>2 DEF Bystander, Reporters, Terminal
      <3> QED
        BY <1>2, <2>1, <2>2, <3>2, <3>3, BystanderForgetsNobody DEF NoReporterForgotten
    <2> QED
      BY <2>3, <2>4
  <1>9. ASSUME NEW n \in Member,
               AddReporter(n) \/ \E to \in {"absent", "viewer"} : DropReporter(n, to)
        PROVE  Awaited(m)'
    <2>1. joins \subseteq joins' /\ UNCHANGED <<run, status>>
      BY <1>9 DEF AddReporter, DropReporter, LateJoin
    <2>2. CASE AddReporter(n) /\ n = m
      <3>1. [who |-> m, pc |-> "joinRun"] \in joins'
        BY <2>2 DEF AddReporter, LateJoin
      <3>2. \E j \in joins' : j.who = m
        BY <3>1
      <3> QED
        BY <3>2 DEF Awaited
    <2>3. CASE ~(AddReporter(n) /\ n = m)
      <3>1. m \in Reporters
        BY <1>0, <1>9, <2>3 DEF AddReporter, DropReporter, Reporters, TypeOK
      <3>2. Awaited(m)
        BY <2>1, <3>1 DEF NoReporterForgotten
      <3>3. Bystander
        BY <1>9, OutsidersAreBystanders
      <3> QED
        BY <2>1, <3>2, <3>3, BystanderForgetsNobody DEF Awaited
    <2> QED
      BY <2>2, <2>3
  <1>10. ASSUME NEW j \in joins, JoinRuns(j) \/ JoinThrows(j)
         PROVE  Awaited(m)'
    <2>0. JoinRuns(j) /\ UNCHANGED <<run, membership, status>>
      BY <1>10 DEF Faultless, JoinRuns, JoinReadsRun, JoinReadsReport, JoinSends
    <2>1. CASE j.who = m
      <3>1. j.who \in Reporters /\ run # "none" /\ status[j.who] = "none"
        BY <1>0, <2>0, <2>1 DEF Reporters
      <3>2. Awaited(j.who)'
        BY <2>0, <3>1, JoinForgetsNobody
      <3> QED
        BY <2>1, <3>2 DEF Awaited, Queued, WorkingOn
    <2>2. CASE j.who # m
      <3>1. joins \ {j} \subseteq joins'
        BY <2>0 DEF JoinRuns, JoinReadsRun, JoinReadsReport, JoinSends, JoinGoesOn, JoinEnds
      <3>2. (\E k \in joins : k.who = m) => Awaited(m)'
        BY <2>2, <3>1 DEF Awaited
      <3>3. Bystander
        BY <1>10, OutsidersAreBystanders
      <3> QED
        BY <1>1, <2>0, <3>2, <3>3
    <2> QED
      BY <2>1, <2>2
  <1>11. CASE \/ SchedulerTick \/ \E kind \in {"open", "force"} : TriggerRun(kind)
              \/ \E n \in Member : DeadlinePasses(n)
    <2>1. UNCHANGED <<run, membership, joins>>
      BY <1>11 DEF SchedulerTick, TriggerRun, DeadlinePasses
    <2> QED
      BY <1>1, <1>2, <1>11, <2>1, OutsidersAreBystanders
  <1>12. ~TogglePause
    BY DEF TogglePause, Spend, Spares, TypeOK, EnvEvent
  <1>13. CASE Next
    BY <1>4, <1>5, <1>6, <1>7, <1>8, <1>9, <1>10, <1>11, <1>12, <1>13 DEF Next
  <1> QED
    BY <1>3, <1>13

(* As long as nothing fails and nobody pauses the standup, everybody who    *)
(* reports and has no report while the run is open is on the way to being   *)
(* asked: for every team and however its edits, the fan-out, restarts,      *)
(* triggers and replies interleave.                                         *)
THEOREM NobodyIsForgotten ==
    ASSUME FailAt = {}, Budget["pause"] = 0
    PROVE  Spec => []NoReporterForgotten
  <1> DEFINE IInv ==
        /\ TypeOK /\ HandlersHaveReports /\ NothingBeforeRun /\ RestartsHaveReports
        /\ left["pause"] = 0 /\ active /\ NoReporterForgotten
  <1>1. Init => IInv
    BY InitTypeOK
    DEF Init, HandlersHaveReports, NothingBeforeRun, RestartsHaveReports, NoReporterForgotten
  <1>2. IInv /\ [Next]_vars => IInv'
    <2> SUFFICES ASSUME IInv, [Next]_vars PROVE IInv'
      OBVIOUS
    <2>1. left'["pause"] = 0 /\ Spares({"pause"})
      BY SpentStays DEF EnvEvent, Spares
    <2> QED
      BY <2>1, NowhereToFail, NextTypeOK, HandlersKeepReports, NothingBeforeRunStep,
         RestartsHaveReportsStep, StaysActive, NoReporterForgottenStep
  <1> QED
    BY <1>1, <1>2, PTL DEF Spec

-----------------------------------------------------------------------------
(* The same with failures: what goes wrong has been paid for.               *)

Forgetters == {"throw", "crash", "pause"}

LEMMA SpentIsCounted ==
    ASSUME TypeOK, \A e \in EnvEvent : left[e] <= Budget[e], NEW e \in EnvEvent
    PROVE  Spent(e) \in Nat /\ (Spent(e) = 0 <=> left[e] = Budget[e])
  <1>1. left[e] \in Nat /\ Budget[e] \in Nat /\ left[e] <= Budget[e]
    BY BudgetAssumption DEF TypeOK
  <1> QED
    BY <1>1 DEF Spent

LEMMA NothingSpent ==
    ASSUME TypeOK, \A e \in EnvEvent : left[e] <= Budget[e]
    PROVE  Spent("throw") + Spent("crash") + Spent("pause") > 0 \/ Untouched(Forgetters)
  <1>1. \A e \in Forgetters : Spent(e) \in Nat /\ (Spent(e) = 0 => left[e] = Budget[e])
    BY SpentIsCounted DEF EnvEvent, Forgetters
  <1>2. Spent("throw") \in Nat /\ Spent("crash") \in Nat /\ Spent("pause") \in Nat
    BY <1>1 DEF Forgetters
  <1>3. ~Untouched(Forgetters) => \E e \in Forgetters : Spent(e) # 0
    BY <1>1 DEF Untouched
  <1> QED
    BY <1>2, <1>3 DEF Forgetters

(* Wherever jobs and handlers fail: if a reporter without a report in an    *)
(* open run is on nobody's list, a job or handler has failed, the worker    *)
(* has died, or the standup was paused.                                     *)
THEOREM ForgettingTakesAFailure == Spec => []ForgottenAccountedFor
  <1> DEFINE IInv ==
        /\ TypeOK /\ HandlersHaveReports /\ NothingBeforeRun /\ RestartsHaveReports
        /\ \A e \in EnvEvent : left[e] <= Budget[e]
        /\ Untouched(Forgetters) => active /\ NoReporterForgotten
  <1>1. Init => IInv
    <2> SUFFICES ASSUME Init PROVE IInv
      OBVIOUS
    <2>1. \A e \in EnvEvent : left[e] <= Budget[e]
      BY BudgetAssumption DEF Init
    <2> QED
      BY <2>1, InitTypeOK
      DEF Init, HandlersHaveReports, NothingBeforeRun, RestartsHaveReports, NoReporterForgotten
  <1>2. IInv /\ [Next]_vars => IInv'
    <2> SUFFICES ASSUME IInv, [Next]_vars PROVE IInv'
      OBVIOUS
    <2>1. ASSUME Untouched(Forgetters)'
          PROVE  active' /\ NoReporterForgotten'
      <3>1. Untouched(Forgetters) /\ Spares(Forgetters)
        BY <2>1, UntouchedBefore DEF Forgetters, EnvEvent
      <3>2. Spares({"throw", "crash"}) /\ Spares({"pause"})
        BY <3>1 DEF Spares, Forgetters
      <3> QED
        BY <3>1, <3>2, FailuresAreSpent, StaysActive, NoReporterForgottenStep
    <2> QED
      BY <2>1, NextTypeOK, HandlersKeepReports, NothingBeforeRunStep, RestartsHaveReportsStep,
         WithinBudget
  <1>3. IInv => ForgottenAccountedFor
    BY NothingSpent DEF ForgottenAccountedFor, NoReporterForgotten
  <1> QED
    BY <1>1, <1>2, <1>3, PTL DEF Spec
=============================================================================
