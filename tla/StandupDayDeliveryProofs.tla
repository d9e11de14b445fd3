----------------------- MODULE StandupDayDeliveryProofs -----------------------
(* StandupDay implements DailyDelivery: every step of the three processes   *)
(* is a step of the day as its members see it, or none.                     *)
EXTENDS StandupDayRunProofs, FiniteSetTheorems

(* The part of the state that the members see. *)
Unseen == UNCHANGED <<run, asked, status>> /\ left'["keyword"] = left["keyword"]

LEMMA UnseenStutters ==
    ASSUME Unseen
    PROVE  UNCHANGED Delivery!vars
  BY DEF Unseen, Delivery!vars, Spent

-----------------------------------------------------------------------------
(* A re-trigger exists only after some member has asked for it.             *)

RestartsAsked ==
    /\ left["keyword"] \in 0..Budget["keyword"]
    /\ left["keyword"] = Budget["keyword"] => NoneRestarting

LEMMA RestartsAskedStep ==
    ASSUME TypeOK, RestartsAsked, [Next]_vars
    PROVE  RestartsAsked'
  <1>1. "keyword" \in EnvEvent /\ Budget["keyword"] \in Nat
    BY BudgetAssumption DEF EnvEvent
  <1>2. left'["keyword"] \in 0..left["keyword"]
    BY <1>1, BudgetShrinks
  <1>3. left'["keyword"] \in 0..Budget["keyword"]
    BY <1>1, <1>2 DEF RestartsAsked
  <1>4. ASSUME left'["keyword"] = Budget["keyword"]
        PROVE  NoneRestarting'
    <2>1. left["keyword"] = Budget["keyword"] /\ left'["keyword"] = left["keyword"]
      BY <1>1, <1>2, <1>4 DEF RestartsAsked
    <2> QED
      BY <2>1, NoneRestartingStep DEF RestartsAsked
  <1> QED
    BY <1>3, <1>4 DEF RestartsAsked

LEMMA RestartIsAsked ==
    ASSUME TypeOK, RestartsAsked, wpc \in {"reset", "reopen"}
    PROVE  Spent("keyword") > 0
  <1>1. wjob.kind = "retrigger"
    BY WorkerHolds DEF JobsAt, FinalizeStep
  <1>2. left["keyword"] # Budget["keyword"] /\ Budget["keyword"] \in Nat
    BY <1>1, BudgetAssumption DEF RestartsAsked, NoneRestarting, EnvEvent
  <1> QED
    BY <1>2 DEF RestartsAsked, Spent

-----------------------------------------------------------------------------
(* A report is only ever written for a member who has been asked, and only  *)
(* somebody with a report closes the run.                                   *)

QuestionFirst ==
    /\ \A m \in Member : status[m] # "none" => asked[m] > 0
    /\ wpc \in {"insert", "reset"} => asked[wjob.who] > 0
    /\ wpc \in {"expire"} \cup FinalizeStep => status[wjob.who] # "none"

LEMMA StepKeepsReports ==
    ASSUME TypeOK, HandlersHaveReports, [Next]_vars
    PROVE  \A m \in Member : status[m] # "none" => status'[m] # "none"
  <1>1. CASE Bystander
    BY <1>1 DEF Bystander, Terminal
  <1>2. CASE WorkerRuns
    BY <1>2, WorkerKeepsReports
  <1>3. CASE WorkerThrows \/ WorkerCrashes \/ \E j \in Job : Take(j)
    BY <1>3 DEF WorkerThrows, WorkerCrashes, Take, dbVars
  <1> QED
    BY <1>1, <1>2, <1>3, StepKinds

(* Nobody but AskFirstQuestion sends a first question.                      *)
LEMMA OutsidersAskNothing ==
    ASSUME [Next]_vars, ~WorkerRuns
    PROVE  asked' = asked
  <1> USE DEF slackVars
  <1>1. CASE UNCHANGED vars
    BY <1>1 DEF vars
  <1>2. CASE WorkerThrows \/ WorkerCrashes \/ \E j \in Job : Take(j)
    BY <1>2 DEF WorkerThrows, WorkerCrashes, Take
  <1>3. ASSUME NEW id \in Handler, NEW m \in Member,
               \/ ReceiveReply(id, m) \/ ReceiveSkipAll(id, m)
               \/ ReceiveKeyword(id, m) \/ ReceiveSlashStart(id, m)
        PROVE  asked' = asked
    BY <1>3 DEF ReceiveReply, ReceiveSkipAll, ReceiveKeyword, ReceiveSlashStart, Start
  <1>4. ASSUME NEW h \in inflight, HandlerRuns(h) \/ HandlerThrows(h)
        PROVE  asked' = asked
    BY <1>4 DEF HandlerRuns, HandlerThrows, WriteNext, WriteComplete, WriteAbort, AnswerMember,
         Broadcast, HandlerFinalize, DayState, EnqueueRetrigger
  <1>5. ASSUME NEW m \in Member,
               AddReporter(m) \/ \E to \in {"absent", "viewer"} : DropReporter(m, to)
        PROVE  asked' = asked
    BY <1>5 DEF AddReporter, DropReporter
  <1>6. ASSUME NEW j \in joins, JoinRuns(j) \/ JoinThrows(j)
        PROVE  asked' = asked
    BY <1>6 DEF JoinRuns, JoinReadsRun, JoinReadsReport, JoinSends, JoinThrows
  <1>7. CASE \/ TogglePause \/ SchedulerTick
             \/ \E kind \in {"open", "force"} : TriggerRun(kind)
             \/ \E m \in Member : DeadlinePasses(m)
    BY <1>7 DEF TogglePause, SchedulerTick, TriggerRun, DeadlinePasses
  <1> QED
    BY <1>1, <1>2, <1>3, <1>4, <1>5, <1>6, <1>7 DEF Next

LEMMA QuestionFirstStep ==
    ASSUME TypeOK, HandlersHaveReports, QuestionFirst, [Next]_vars
    PROVE  QuestionFirst'
  <1>0. \A m \in Member : status[m] # "none" => status'[m] # "none"
    BY StepKeepsReports
  <1>1. CASE Bystander /\ ~WorkerRuns
    <2>1. /\ UNCHANGED <<asked, wpc, wjob>>
          /\ \A m \in Member : status'[m] # "none" => status[m] # "none"
      BY <1>1, OutsidersAskNothing DEF Bystander
    <2>2. wpc \in {"expire"} \cup FinalizeStep => wjob.who \in Member
      BY WorkerHolds DEF JobsAt, FinalizeStep, MemberKind
    <2> QED
      BY <1>0, <2>1, <2>2 DEF QuestionFirst
  <1>2. ASSUME NEW j \in Job, Take(j)
        PROVE  QuestionFirst'
    <2>1. wpc' \in {"standup", "exists", "deadline"}
      BY <1>2, JobKinds DEF Take, FirstStep, TeamKind, MemberKind
    <2> QED
      BY <1>2, <2>1 DEF Take, QuestionFirst, FinalizeStep, dbVars, slackVars
  <1>3. CASE WorkerThrows \/ WorkerCrashes
    BY <1>3 DEF WorkerThrows, WorkerCrashes, Finish, QuestionFirst, FinalizeStep, dbVars, slackVars
  <1>4. CASE WorkerRuns
    <2> USE DEF Goto, Finish, dbVars, slackVars, FinalizeStep
    <2>0. wpc # "idle" =>
              /\ wjob \in Job /\ wjob.kind \in JobsAt(wpc)
              /\ wjob.kind \in MemberKind => wjob.who \in Member
      BY WorkerHolds
    <2>1. CASE AskFirstQuestion
      <3>1. wjob.who \in Member
        BY <2>0, <2>1 DEF AskFirstQuestion, JobsAt, MemberKind
      <3>2. asked' \in [Member -> Nat] /\ asked'[wjob.who] > 0
        BY <2>1, <3>1 DEF AskFirstQuestion, TypeOK
      <3>3. \A m \in Member : asked'[m] >= asked[m]
        BY <2>1, <3>1 DEF AskFirstQuestion, TypeOK
      <3>4. \A m \in Member : asked[m] \in Nat
        BY DEF TypeOK
      <3>5. \A m \in Member : status[m] # "none" => asked'[m] > 0
        BY <3>2, <3>3, <3>4 DEF QuestionFirst
      <3> QED
        BY <2>1, <3>2, <3>5 DEF AskFirstQuestion, QuestionFirst
    <2>2. CASE InsertReport \/ ResetReport
      <3>1. wjob.who \in Member
        BY <2>0, <2>2 DEF InsertReport, ResetReport, JobsAt, MemberKind
      <3>2. \A m \in Member : status'[m] # "none" => status[m] # "none" \/ m = wjob.who
        BY <2>2, <3>1 DEF InsertReport, ResetReport, OpenReport, TypeOK
      <3>3. asked[wjob.who] > 0 /\ wpc' \in {"arm", "reopen"} /\ UNCHANGED <<asked, wjob>>
        BY <2>2 DEF InsertReport, ResetReport, QuestionFirst
      <3> QED
        BY <3>2, <3>3 DEF QuestionFirst
    <2>3. CASE ReadDeadline
      BY <2>0, <2>3 DEF ReadDeadline, QuestionFirst
    <2>4. CASE Expire
      <3>1. wjob.who \in Member
        BY <2>0, <2>4 DEF Expire, JobsAt, MemberKind
      <3>2. /\ status'[wjob.who] = "timed_out"
            /\ \A m \in Member : status'[m] # "none" => status[m] # "none"
        BY <2>4, <3>1 DEF Expire, TypeOK, QuestionFirst
      <3> QED
        BY <2>4, <3>2 DEF Expire, QuestionFirst
    <2>5. CASE WorkerFinalize
      BY <2>5 DEF WorkerFinalize, QuestionFirst
    <2>6. CASE \/ LoadStandup \/ EnsureRunOpen \/ ListMembers \/ \E m \in Member : FanOut(m)
               \/ CheckNotSent \/ ArmTimeout \/ GuardRetrigger \/ ReopenRun \/ RearmTimeout
      <3>1. /\ wpc' \notin {"insert", "reset", "expire"} \cup FinalizeStep
            /\ UNCHANGED <<status, asked>>
        BY <2>6 DEF LoadStandup, EnsureRunOpen, ListMembers, FanOut, CheckNotSent, ArmTimeout,
             GuardRetrigger, ReopenRun, RearmTimeout
      <3> QED
        BY <3>1 DEF QuestionFirst
    <2> QED
      BY <1>4, <2>1, <2>2, <2>3, <2>4, <2>5, <2>6 DEF WorkerRuns
  <1> QED
    BY <1>1, <1>2, <1>3, <1>4, StepKinds

-----------------------------------------------------------------------------
(* One step, mapped to a step of DailyDelivery.                             *)

(* A write that ends a report ends it for the members too, or finds it over *)
LEMMA TerminalWriteDelivers ==
    ASSUME TypeOK, NEW m \in Member, status[m] # "none", UNCHANGED <<run, asked, left>>,
           NEW s \in Terminal, status' = [status EXCEPT ![m] = s]
    PROVE  [Delivery!Next]_(Delivery!vars)
  <1>1. CASE status[m] = "in_progress"
    <2>1. Delivery!EndReport(m)
      BY <1>1 DEF Delivery!EndReport, Spent, TypeOK, Terminal
    <2> QED
      BY <2>1 DEF Delivery!Next
  <1>2. CASE status[m] # "in_progress"
    <2>1. UNCHANGED Delivery!vars
      BY <1>2 DEF Delivery!vars, Spent, TypeOK, Terminal
    <2> QED
      BY <2>1
  <1> QED
    BY <1>1, <1>2

LEMMA RunWriteDelivers ==
    ASSUME TypeOK, NEW m \in Member, status[m] # "none", run # "none", run' = "completed",
           UNCHANGED <<asked, status, left>>
    PROVE  [Delivery!Next]_(Delivery!vars)
  <1>1. CASE run = "running"
    <2>1. Delivery!CloseDay
      BY <1>1 DEF Delivery!CloseDay, Spent, TypeOK
    <2> QED
      BY <2>1 DEF Delivery!Next
  <1>2. CASE run = "completed"
    BY <1>2, UnseenStutters DEF Unseen
  <1> QED
    BY <1>1, <1>2 DEF TypeOK

LEMMA WorkerDelivers ==
    ASSUME TypeOK, NothingBeforeRun, RestartsAsked, QuestionFirst, WorkerRuns
    PROVE  [Delivery!Next]_(Delivery!vars)
  <1> USE DEF Goto, Finish, dbVars, slackVars
  <1>0. wpc # "idle" =>
            /\ wjob \in Job /\ wjob.kind \in JobsAt(wpc)
            /\ wjob.kind \in MemberKind => wjob.who \in Member
    BY WorkerHolds
  <1>1. CASE EnsureRunOpen
    <2>1. UNCHANGED <<asked, status, left>>
      BY <1>1 DEF EnsureRunOpen
    <2>2. CASE run = "none"
      <3>1. run' = "running"
        BY <1>1, <2>2 DEF EnsureRunOpen
      <3>2. Delivery!OpenDay
        BY <2>1, <2>2, <3>1 DEF Delivery!OpenDay, Spent
      <3> QED
        BY <3>2 DEF Delivery!Next
    <2>3. CASE run # "none"
      BY <1>1, <2>1, <2>3, UnseenStutters DEF EnsureRunOpen, Unseen
    <2> QED
      BY <2>2, <2>3
  <1>2. CASE AskFirstQuestion
    <2>1. wjob.who \in Member /\ run # "none"
      BY <1>0, <1>2 DEF AskFirstQuestion, JobsAt, MemberKind, NothingBeforeRun
    <2>2. {m \in Member : asked'[m] > 0} = {m \in Member : asked[m] > 0} \cup {wjob.who}
      BY <1>2, <2>1 DEF AskFirstQuestion, TypeOK
    <2>3. UNCHANGED <<run, status, left>>
      BY <1>2 DEF AskFirstQuestion
    <2>4. ASSUME NEW m \in Member, m = wjob.who
          PROVE  Delivery!Prompt(m)
      BY <2>1, <2>2, <2>3, <2>4 DEF Delivery!Prompt, Spent, TypeOK
    <2> QED
      BY <2>1, <2>4 DEF Delivery!Next
  <1>3. CASE InsertReport \/ ResetReport
    <2>1. /\ wjob.who \in Member /\ asked[wjob.who] > 0
          /\ UNCHANGED <<run, asked, left>>
      BY <1>0, <1>3 DEF InsertReport, ResetReport, JobsAt, MemberKind, QuestionFirst
    <2>2. CASE UNCHANGED status
      BY <2>1, <2>2, UnseenStutters DEF Unseen
    <2>3. CASE status' # status
      <3>1. status' = [status EXCEPT ![wjob.who] = "in_progress"]
        BY <1>3, <2>3 DEF InsertReport, ResetReport, OpenReport
      <3>2. status[wjob.who] # "in_progress"
        BY <2>3, <3>1 DEF TypeOK
      <3>3. CASE status[wjob.who] = "none"
        <4>1. ASSUME NEW m \in Member, m = wjob.who
              PROVE  Delivery!OpenReport(m)
          BY <2>1, <3>1, <3>3, <4>1 DEF Delivery!OpenReport, Spent, TypeOK
        <4> QED
          BY <2>1, <4>1 DEF Delivery!Next
      <3>4. CASE status[wjob.who] # "none"
        <4>1. Spent("keyword") > 0
          BY <1>3, <2>3, <3>4, RestartIsAsked DEF InsertReport, ResetReport
        <4>2. ASSUME NEW m \in Member, m = wjob.who
              PROVE  Delivery!RestartReport(m)
          BY <2>1, <3>1, <3>2, <3>4, <4>1, <4>2 DEF Delivery!RestartReport, Spent, TypeOK
        <4> QED
          BY <2>1, <4>2 DEF Delivery!Next
      <3> QED
        BY <3>3, <3>4
    <2> QED
      BY <2>2, <2>3
  <1>4. CASE ReopenRun
    <2>1. run # "none" /\ run' = "running" /\ UNCHANGED <<asked, status, left>>
      BY <1>4 DEF ReopenRun, NothingBeforeRun
    <2>2. CASE run = "running"
      BY <2>1, <2>2, UnseenStutters DEF Unseen
    <2>3. CASE run = "completed"
      <3>1. Spent("keyword") > 0
        BY <1>4, RestartIsAsked DEF ReopenRun
      <3>2. Delivery!ReopenDay
        BY <2>1, <2>3, <3>1 DEF Delivery!ReopenDay, Spent
      <3> QED
        BY <3>2 DEF Delivery!Next
    <2> QED
      BY <2>1, <2>2, <2>3 DEF TypeOK
  <1>5. CASE Expire
    <2>1. /\ wjob.who \in Member /\ status[wjob.who] # "none"
          /\ status' = [status EXCEPT ![wjob.who] = "timed_out"]
          /\ UNCHANGED <<run, asked, left>>
      BY <1>0, <1>5 DEF Expire, JobsAt, FinalizeStep, MemberKind, QuestionFirst
    <2> QED
      BY <2>1, TerminalWriteDelivers DEF Terminal
  <1>6. CASE WorkerFinalize
    <2>1. UNCHANGED <<asked, status, left>>
      BY <1>6 DEF WorkerFinalize
    <2>2. CASE run' = run
      BY <2>1, <2>2, UnseenStutters DEF Unseen
    <2>3. CASE run' # run
      <3>1. wpc = "runWrite" /\ run' = "completed"
        BY <1>6, <2>3 DEF WorkerFinalize
      <3>2. wjob.who \in Member /\ status[wjob.who] # "none" /\ run # "none"
        BY <1>0, <3>1 DEF JobsAt, FinalizeStep, MemberKind, QuestionFirst, NothingBeforeRun
      <3> QED
        BY <2>1, <3>1, <3>2, RunWriteDelivers
    <2> QED
      BY <2>2, <2>3
  <1>7. CASE \/ LoadStandup \/ ListMembers \/ \E m \in Member : FanOut(m)
             \/ CheckNotSent \/ ArmTimeout \/ GuardRetrigger
             \/ ReadDeadline \/ RearmTimeout
    <2>1. UNCHANGED <<run, asked, status, left>>
      BY <1>7 DEF LoadStandup, ListMembers, FanOut, CheckNotSent, ArmTimeout, GuardRetrigger,
           ReadDeadline, RearmTimeout
    <2> QED
      BY <2>1, UnseenStutters DEF Unseen
  <1> QED
    BY <1>1, <1>2, <1>3, <1>4, <1>5, <1>6, <1>7 DEF WorkerRuns

LEMMA HandlerDelivers ==
    ASSUME TypeOK, HandlersHaveReports, NothingBeforeRun, NEW h \in inflight, HandlerRuns(h)
    PROVE  [Delivery!Next]_(Delivery!vars)
  <1> USE DEF dbVars, slackVars
  <1>0. h.who \in Member
    BY HandlerTypes DEF TypeOK
  <1>1. CASE WriteComplete(h) \/ WriteAbort(h)
    <2>1. /\ status[h.who] # "none"
          /\ UNCHANGED <<run, asked, left>>
          /\ \E s \in Terminal : status' = [status EXCEPT ![h.who] = s]
      BY <1>0, <1>1 DEF WriteComplete, WriteAbort, HandlersHaveReports, Terminal
    <2> QED
      BY <1>0, <2>1, TerminalWriteDelivers
  <1>2. CASE HandlerFinalize(h)
    <2>1. UNCHANGED <<asked, status, left>>
      BY <1>2 DEF HandlerFinalize
    <2>2. CASE run' = run
      BY <2>1, <2>2, UnseenStutters DEF Unseen
    <2>3. CASE run' # run
      <3>1. h.pc = "runWrite" /\ run' = "completed"
        BY <1>2, <2>3 DEF HandlerFinalize
      <3>2. status[h.who] # "none" /\ run # "none"
        BY <1>0, <3>1 DEF HandlersHaveReports, NothingBeforeRun
      <3> QED
        BY <1>0, <2>1, <3>1, <3>2, RunWriteDelivers
    <2> QED
      BY <2>2, <2>3
  <1>3. CASE WriteNext(h) \/ AnswerMember(h) \/ Broadcast(h) \/ DayState(h) \/ EnqueueRetrigger(h)
    <2>1. UNCHANGED <<run, asked, status, left>>
      BY <1>3 DEF WriteNext, AnswerMember, Broadcast, DayState, EnqueueRetrigger
    <2> QED
      BY <2>1, UnseenStutters DEF Unseen
  <1> QED
    BY <1>1, <1>2, <1>3 DEF HandlerRuns

LEMMA NextDelivers ==
    ASSUME TypeOK, HandlersHaveReports, NothingBeforeRun, RestartsAsked, QuestionFirst,
           [Next]_vars
    PROVE  [Delivery!Next]_(Delivery!vars)
  <1> USE DEF dbVars, slackVars, EnvEvent
  <1>0. left \in [EnvEvent -> Nat]
    BY DEF TypeOK
  <1>1. CASE UNCHANGED vars
    BY <1>1, UnseenStutters DEF vars, Unseen
  <1>2. CASE WorkerRuns
    BY <1>2, WorkerDelivers
  <1>3. ASSUME NEW h \in inflight, HandlerRuns(h)
        PROVE  [Delivery!Next]_(Delivery!vars)
    BY <1>3, HandlerDelivers
  <1>4. CASE \/ \E j \in Job : Take(j)
             \/ WorkerThrows \/ WorkerCrashes
             \/ \E h \in inflight : HandlerThrows(h)
             \/ \E j \in joins : JoinRuns(j) \/ JoinThrows(j)
             \/ TogglePause \/ SchedulerTick
             \/ \E kind \in {"open", "force"} : TriggerRun(kind)
             \/ \E m \in Member : \/ DeadlinePasses(m) \/ AddReporter(m)
                                  \/ \E to \in {"absent", "viewer"} : DropReporter(m, to)
    <2>1. UNCHANGED <<run, asked, status>>
      BY <1>4 DEF Take, WorkerThrows, WorkerCrashes, HandlerThrows, JoinRuns, JoinReadsRun,
           JoinReadsReport, JoinSends, JoinThrows, TogglePause, SchedulerTick, TriggerRun,
           DeadlinePasses, AddReporter, DropReporter
    <2>2. UNCHANGED left \/ \E e \in EnvEvent \ {"keyword"} : Spend(e)
      BY <1>4 DEF Take, WorkerThrows, WorkerCrashes, HandlerThrows, JoinRuns, JoinReadsRun,
           JoinReadsReport, JoinSends, JoinThrows, TogglePause, SchedulerTick, TriggerRun,
           DeadlinePasses, AddReporter, DropReporter
    <2>3. left'["keyword"] = left["keyword"]
      BY <1>0, <2>2 DEF Spend
    <2> QED
      BY <2>1, <2>3, UnseenStutters DEF Unseen
  <1>5. ASSUME NEW id \in Handler, NEW m \in Member, ReceiveReply(id, m) \/ ReceiveSkipAll(id, m)
        PROVE  [Delivery!Next]_(Delivery!vars)
    BY <1>5, UnseenStutters DEF ReceiveReply, ReceiveSkipAll, Start, Unseen
  <1>6. ASSUME NEW id \in Handler, NEW m \in Member,
               ReceiveKeyword(id, m) \/ ReceiveSlashStart(id, m)
        PROVE  [Delivery!Next]_(Delivery!vars)
    <2>1. UNCHANGED <<run, asked, status>> /\ Spend("keyword")
      BY <1>6 DEF ReceiveKeyword, ReceiveSlashStart, Start
    <2>2. Spent("keyword")' = Spent("keyword") + 1
      BY <1>0, <2>1, BudgetAssumption DEF Spend, Spent
    <2>3. Delivery!Request
      BY <2>1, <2>2 DEF Delivery!Request
    <2> QED
      BY <2>3 DEF Delivery!Next
  <1>7. CASE Next
    BY <1>2, <1>3, <1>4, <1>5, <1>6, <1>7 DEF Next
  <1> QED
    BY <1>1, <1>7

(* StandupDay implements DailyDelivery, for every team, every number of     *)
(* handlers, every budget of events and wherever jobs and handlers fail: an *)
(* open, a closed and a reopened day, reports that follow their question,   *)
(* and no restart that nobody asked for.                                    *)
THEOREM DayIsDelivered == Spec => DeliversTheDay
  <1> DEFINE IInv ==
        /\ TypeOK /\ HandlersHaveReports /\ NothingBeforeRun /\ RestartsAsked /\ QuestionFirst
  <1>1. Init => IInv
    <2> SUFFICES ASSUME Init PROVE IInv
      OBVIOUS
    <2>1. RestartsAsked
      BY BudgetAssumption DEF Init, RestartsAsked, NoneRestarting, EnvEvent
    <2> QED
      BY <2>1, InitTypeOK
      DEF Init, HandlersHaveReports, NothingBeforeRun, QuestionFirst, FinalizeStep
  <1>2. IInv /\ [Next]_vars => IInv'
    BY NextTypeOK, HandlersKeepReports, NothingBeforeRunStep, RestartsAskedStep,
       QuestionFirstStep
  <1>3. Init => Delivery!Init
    <2> SUFFICES ASSUME Init PROVE Delivery!Init
      OBVIOUS
    <2>1. Spent("keyword") = 0
      BY BudgetAssumption DEF Init, Spent, EnvEvent
    <2> QED
      BY <2>1 DEF Init, Delivery!Init
  <1>4. IInv /\ [Next]_vars => [Delivery!Next]_(Delivery!vars)
    BY NextDelivers
  <1> QED
    BY <1>1, <1>2, <1>3, <1>4, PTL DEF Spec, DeliversTheDay, Delivery!Spec

-----------------------------------------------------------------------------
(* How often a member is asked.  Whatever may still ask m again is counted: *)
(* handlers on their way to a re-trigger, re-trigger jobs in the queue, and *)
(* the one in the worker's hands until it has asked.                        *)

Asking     == {"dayState", "slash", "enqueue"}
Askers(m)  == {h \in inflight : h.who = m /\ h.pc \in Asking}

Restart(m, n) == [kind |-> "retrigger", who |-> m, tries |-> n]
Requests(m)   == queue[Restart(m, 0)] + queue[Restart(m, 1)] + queue[Restart(m, 2)]

AtHand(m) == IF /\ wpc \in {"standup", "ensure", "guard", "ask"}
                /\ wjob.kind = "retrigger" /\ wjob.who = m
             THEN 1 ELSE 0

(* The first question of the day, asked by sendDm or by a restart. *)
FirstAsked(m) == IF status[m] = "none" /\ ~(wpc = "insert" /\ wjob.who = m) THEN 0 ELSE 1

Causes == Spent("throw") + Spent("crash") + Spent("keyword")

AsksCounted ==
    /\ IsFiniteSet(inflight)
    /\ wpc = "ask" /\ wjob.kind = "send" => status[wjob.who] = "none"
    /\ \A m \in Member :
          asked[m] + Requests(m) + Cardinality(Askers(m)) + AtHand(m) <= Causes + FirstAsked(m)

WithinBudgets == \A e \in EnvEvent : left[e] <= Budget[e]

LEMMA CountsAreNumbers ==
    ASSUME TypeOK, WithinBudgets, IsFiniteSet(inflight), NEW m \in Member
    PROVE  /\ Requests(m) \in Nat /\ asked[m] \in Nat /\ Causes \in Nat
           /\ AtHand(m) \in {0, 1} /\ FirstAsked(m) \in {0, 1}
           /\ IsFiniteSet(Askers(m)) /\ Cardinality(Askers(m)) \in Nat
  <1>1. Requests(m) \in Nat
    <2>1. \A n \in 0..2 : Restart(m, n) \in Job
      BY DEF Restart, Job, MemberKind
    <2> QED
      BY <2>1 DEF Requests, TypeOK
  <1>2. Causes \in Nat
    <2>1. Spent("throw") \in Nat /\ Spent("crash") \in Nat /\ Spent("keyword") \in Nat
      BY SpentIsCounted DEF WithinBudgets, EnvEvent
    <2> QED
      BY <2>1 DEF Causes
  <1>3. IsFiniteSet(Askers(m)) /\ Cardinality(Askers(m)) \in Nat
    BY FS_Subset, FS_CardinalityType DEF Askers
  <1> QED
    BY <1>1, <1>2, <1>3 DEF TypeOK, AtHand, FirstAsked

(* Jobs of other kinds or other members are not requests of m. *)
LEMMA EnqueueCounts ==
    ASSUME TypeOK, NEW j \in Job, Enqueue(j), NEW m \in Member
    PROVE  /\ ~(j.kind = "retrigger" /\ j.who = m) => Requests(m)' = Requests(m)
           /\ Requests(m)' \in Nat /\ Requests(m)' <= Requests(m) + 1
  <1>1. \A n \in 0..2 : Restart(m, n) \in Job /\ queue[Restart(m, n)] \in Nat
    BY DEF Restart, Job, MemberKind, TypeOK
  <1>2. \A n \in 0..2 : queue'[Restart(m, n)] =
                            IF Restart(m, n) = j THEN queue[Restart(m, n)] + 1 ELSE queue[Restart(m, n)]
    BY <1>1 DEF Enqueue, Plus, TypeOK
  <1>3. /\ Restart(m, 0) # Restart(m, 1) /\ Restart(m, 0) # Restart(m, 2)
        /\ Restart(m, 1) # Restart(m, 2)
    BY DEF Restart
  <1>4. \A n \in 0..2 : Restart(m, n) = j => j.kind = "retrigger" /\ j.who = m
    BY DEF Restart
  <1>5. Requests(m)' = queue'[Restart(m, 0)] + queue'[Restart(m, 1)] + queue'[Restart(m, 2)]
    BY DEF Requests, Restart
  <1> QED
    BY <1>1, <1>2, <1>3, <1>4, <1>5 DEF Requests

LEMMA TakeCounts ==
    ASSUME TypeOK, NEW j \in Job, Take(j), NEW m \in Member
    PROVE  /\ Requests(m)' \in Nat /\ Requests(m)' <= Requests(m)
           /\ j.kind = "retrigger" /\ j.who = m => Requests(m)' + 1 = Requests(m)
  <1>1. \A n \in 0..2 : Restart(m, n) \in Job /\ queue[Restart(m, n)] \in Nat
    BY DEF Restart, Job, MemberKind, TypeOK
  <1>2. \A n \in 0..2 : queue'[Restart(m, n)] =
                            IF Restart(m, n) = j THEN queue[Restart(m, n)] - 1 ELSE queue[Restart(m, n)]
    BY <1>1 DEF Take, TypeOK
  <1>3. /\ Restart(m, 0) # Restart(m, 1) /\ Restart(m, 0) # Restart(m, 2)
        /\ Restart(m, 1) # Restart(m, 2)
    BY DEF Restart
  <1>4. queue[j] \in Nat /\ queue[j] > 0
    BY DEF Take, TypeOK
  <1>5. j.kind = "retrigger" /\ j.who = m => j \in {Restart(m, 0), Restart(m, 1), Restart(m, 2)}
    BY DEF Restart, Job, TeamKind, MemberKind
  <1>6. Requests(m)' = queue'[Restart(m, 0)] + queue'[Restart(m, 1)] + queue'[Restart(m, 2)]
    BY DEF Requests, Restart
  <1> QED
    BY <1>1, <1>2, <1>3, <1>4, <1>5, <1>6 DEF Requests

LEMMA ExchangeCounts ==
    ASSUME NEW S, IsFiniteSet(S), NEW x \in S, NEW y
    PROVE  /\ IsFiniteSet((S \ {x}) \cup {y})
           /\ Cardinality((S \ {x}) \cup {y}) <= Cardinality(S)
  <1> DEFINE T == S \ {x}
  <1>1. IsFiniteSet(T) /\ Cardinality(T) = Cardinality(S) - 1
    BY FS_RemoveElement
  <1>2. Cardinality(S) \in Nat /\ Cardinality(T) \in Nat
    BY <1>1, FS_CardinalityType
  <1> HIDE DEF T
  <1>3. IsFiniteSet(T \cup {y}) /\ Cardinality(T \cup {y}) \in {Cardinality(T), Cardinality(T) + 1}
    BY <1>1, FS_AddElement
  <1>4. Cardinality(T \cup {y}) <= Cardinality(S)
    BY <1>1, <1>2, <1>3
  <1> QED
    BY <1>3, <1>4 DEF T

(* A handler that goes on asks no more often than before. *)
LEMMA GoingOnCounts ==
    ASSUME TypeOK, IsFiniteSet(inflight), NEW h \in inflight, NEW m \in Member,
           Return(h) \/ \E pc : GoOn(h, pc) /\ (pc \in Asking => h.pc \in Asking)
    PROVE  IsFiniteSet(inflight') /\ Cardinality(Askers(m)') <= Cardinality(Askers(m))
  <1>0. h \in HandlerState /\ IsFiniteSet(Askers(m))
    BY FS_Subset DEF TypeOK, Askers
  <1>1. CASE Return(h)
    <2>1. inflight' \subseteq inflight /\ Askers(m)' \subseteq Askers(m)
      BY <1>1 DEF Return, Askers
    <2> QED
      BY <1>0, <2>1, FS_Subset
  <1>2. ASSUME NEW pc, GoOn(h, pc), pc \in Asking => h.pc \in Asking
        PROVE  IsFiniteSet(inflight') /\ Cardinality(Askers(m)') <= Cardinality(Askers(m))
    <2> DEFINE g == [h EXCEPT !.pc = pc]
    <2>1. g.who = h.who /\ g.pc = pc
      BY <1>0 DEF HandlerState
    <2>2. IsFiniteSet(inflight')
      <3>1. IsFiniteSet(inflight \ {h})
        BY FS_RemoveElement
      <3> QED
        BY <1>2, <3>1, FS_AddElement DEF GoOn
    <2>3. CASE h \in Askers(m)
      <3>1. Askers(m)' \subseteq (Askers(m) \ {h}) \cup {g}
        BY <1>2, <2>1 DEF GoOn, Askers
      <3>3. /\ IsFiniteSet((Askers(m) \ {h}) \cup {g})
            /\ Cardinality((Askers(m) \ {h}) \cup {g}) <= Cardinality(Askers(m))
        BY <1>0, <2>3, ExchangeCounts
      <3>4. /\ Cardinality(Askers(m)') <= Cardinality((Askers(m) \ {h}) \cup {g})
            /\ IsFiniteSet(Askers(m)')
        BY <3>1, <3>3, FS_Subset
      <3>5. /\ Cardinality(Askers(m)') \in Nat /\ Cardinality(Askers(m)) \in Nat
            /\ Cardinality((Askers(m) \ {h}) \cup {g}) \in Nat
        BY <1>0, <3>3, <3>4, FS_CardinalityType
      <3> QED
        BY <2>2, <3>3, <3>4, <3>5
    <2>4. CASE h \notin Askers(m)
      <3>1. Askers(m)' \subseteq Askers(m)
        BY <1>2, <2>1, <2>4 DEF GoOn, Askers
      <3> QED
        BY <1>0, <2>2, <3>1, FS_Subset
    <2> QED
      BY <2>3, <2>4
  <1> QED
    BY <1>1, <1>2

LEMMA StartingCounts ==
    ASSUME TypeOK, IsFiniteSet(inflight), NEW id \in Handler, NEW n \in Member, NEW m \in Member,
           NEW k, NEW pc, Start(id, n, k, pc)
    PROVE  /\ IsFiniteSet(inflight')
           /\ Cardinality(Askers(m)') <= Cardinality(Askers(m)) + 1
           /\ pc \notin Asking => Askers(m)' = Askers(m)
  <1> DEFINE h == [id |-> id, who |-> n, seen |-> k, pc |-> pc]
  <1>1. inflight' = inflight \cup {h} /\ IsFiniteSet(Askers(m))
    BY FS_Subset DEF Start, Askers
  <1>2. IsFiniteSet(inflight')
    BY <1>1, FS_AddElement
  <1>3. CASE Askers(m)' = Askers(m)
    <2>1. Cardinality(Askers(m)) \in Nat
      BY <1>1, FS_CardinalityType
    <2> QED
      BY <1>2, <1>3, <2>1
  <1>4. CASE Askers(m)' # Askers(m)
    <2>1. pc \in Asking /\ Askers(m)' = Askers(m) \cup {h}
      BY <1>1, <1>4 DEF Askers
    <2>2. Cardinality(Askers(m)) \in Nat
      BY <1>1, FS_CardinalityType
    <2>3. Cardinality(Askers(m) \cup {h}) \in {Cardinality(Askers(m)), Cardinality(Askers(m)) + 1}
      BY <1>1, FS_AddElement
    <2> QED
      BY <1>2, <2>1, <2>2, <2>3
  <1> QED
    BY <1>3, <1>4

(* Failures and requests only add up. *)
LEMMA CausesAdd ==
    ASSUME TypeOK, WithinBudgets, [Next]_vars
    PROVE  /\ Causes \in Nat /\ Causes' \in Nat /\ Causes' >= Causes
           /\ (\E e \in {"throw", "crash", "keyword"} : Spend(e)) => Causes' >= Causes + 1
  <1>1. \A e \in EnvEvent : /\ left[e] \in Nat /\ Budget[e] \in Nat /\ left[e] <= Budget[e]
                            /\ left'[e] \in 0..left[e]
                            /\ Spend(e) => left'[e] = left[e] - 1
    BY BudgetShrinks, BudgetAssumption DEF TypeOK, WithinBudgets, Spend
  <1>2. \A e \in EnvEvent : /\ Spent(e) \in Nat /\ Spent(e)' \in Nat /\ Spent(e)' >= Spent(e)
                            /\ Spend(e) => Spent(e)' = Spent(e) + 1
    BY <1>1 DEF Spent
  <1>3. {"throw", "crash", "keyword"} \subseteq EnvEvent
    BY DEF EnvEvent
  <1>4. /\ Spent("throw") \in Nat /\ Spent("throw")' \in Nat /\ Spent("throw")' >= Spent("throw")
        /\ Spent("crash") \in Nat /\ Spent("crash")' \in Nat /\ Spent("crash")' >= Spent("crash")
        /\ Spent("keyword") \in Nat /\ Spent("keyword")' \in Nat
        /\ Spent("keyword")' >= Spent("keyword")
    BY <1>2, <1>3
  <1>5. \A e \in {"throw", "crash", "keyword"} : Spend(e) => Spent(e)' = Spent(e) + 1
    BY <1>2, <1>3
  <1> QED
    BY <1>4, <1>5 DEF Causes

(* Once m has been asked for the day, only a failure between the question   *)
(* and the row can undo it.                                                 *)
LEMMA FirstAskedStays ==
    ASSUME TypeOK, HandlersHaveReports, [Next]_vars, NEW m \in Member,
           wpc # "insert" \/ InsertReport \/ UNCHANGED <<wpc, wjob>>
    PROVE  FirstAsked(m)' >= FirstAsked(m)
  <1>1. status[m] # "none" => status'[m] # "none"
    BY StepKeepsReports
  <1>2. CASE wpc # "insert" \/ UNCHANGED <<wpc, wjob>>
    BY <1>1, <1>2 DEF FirstAsked
  <1>3. CASE InsertReport
    <2>1. wjob.who = m => status'[m] # "none"
      BY <1>1, <1>3 DEF InsertReport, OpenReport, TypeOK
    <2> QED
      BY <1>1, <1>3, <2>1 DEF InsertReport, FirstAsked
  <1> QED
    BY <1>2, <1>3

(* One step, for one member m. *)
Load(m) == asked[m] + Requests(m) + Cardinality(Askers(m)) + AtHand(m)

(* A step that asks nobody and adds no request.                             *)
LEMMA QuietCounts ==
    ASSUME TypeOK, WithinBudgets, HandlersHaveReports, AsksCounted, [Next]_vars, NEW m \in Member,
           wpc # "insert" \/ InsertReport \/ UNCHANGED <<wpc, wjob>>,
           asked' = asked, Requests(m)' = Requests(m),
           Cardinality(Askers(m)') \in Nat, Cardinality(Askers(m)') <= Cardinality(Askers(m)),
           AtHand(m)' <= AtHand(m)
    PROVE  Load(m)' <= Causes' + FirstAsked(m)'
  <1>1. /\ Requests(m) \in Nat /\ asked[m] \in Nat /\ Causes \in Nat
        /\ AtHand(m) \in {0, 1} /\ FirstAsked(m) \in {0, 1} /\ Cardinality(Askers(m)) \in Nat
    BY CountsAreNumbers DEF AsksCounted
  <1>2. asked[m] + Requests(m) + Cardinality(Askers(m)) + AtHand(m) <= Causes + FirstAsked(m)
    BY DEF AsksCounted
  <1>3. FirstAsked(m)' >= FirstAsked(m) /\ Causes' >= Causes /\ Causes' \in Nat
    BY FirstAskedStays, CausesAdd
  <1>4. AtHand(m)' \in {0, 1} /\ FirstAsked(m)' \in {0, 1}
    BY DEF AtHand, FirstAsked
  <1>5. Load(m)' = asked[m] + Requests(m) + Cardinality(Askers(m)') + AtHand(m)'
    BY DEF Load
  <1> QED
    BY <1>1, <1>2, <1>3, <1>4, <1>5

LEMMA WorkerCounts ==
    ASSUME TypeOK, WithinBudgets, HandlersHaveReports, AsksCounted, WorkerRuns, NEW m \in Member
    PROVE  Load(m)' <= Causes' + FirstAsked(m)'
  <1> USE DEF Goto, Finish, slackVars
  <1>0. /\ wpc # "idle" =>
              /\ wjob \in Job /\ wjob.kind \in JobsAt(wpc)
              /\ wjob.kind \in MemberKind => wjob.who \in Member
        /\ UNCHANGED inflight
        /\ [Next]_vars
    BY WorkerHolds, WorkerLeavesHandlers DEF Next
  <1>1. /\ Requests(m) \in Nat /\ asked[m] \in Nat /\ Causes \in Nat
        /\ AtHand(m) \in {0, 1} /\ FirstAsked(m) \in {0, 1} /\ Cardinality(Askers(m)) \in Nat
        /\ asked[m] + Requests(m) + Cardinality(Askers(m)) + AtHand(m) <= Causes + FirstAsked(m)
    BY CountsAreNumbers DEF AsksCounted
  <1>2. Askers(m)' = Askers(m)
    BY <1>0 DEF Askers
  <1>3. CASE AskFirstQuestion
    <2>0. /\ UNCHANGED queue /\ wpc = "ask" /\ UNCHANGED <<wjob, status>>
          /\ asked' = [asked EXCEPT ![wjob.who] = @ + 1]
          /\ wpc' = (IF wjob.kind = "send" THEN "insert" ELSE "reset")
      BY <1>3 DEF AskFirstQuestion, dbVars
    <2>1. /\ wjob.who \in Member /\ wjob.kind \in {"send", "retrigger"}
          /\ Requests(m)' = Requests(m)
      BY <1>0, <2>0 DEF JobsAt, MemberKind, FinalizeStep, Requests, Restart
    <2>2. Causes' >= Causes /\ Causes' \in Nat
      BY <1>0, CausesAdd
    <2>3. AtHand(m)' = 0
      BY <2>0, <2>1 DEF AtHand
    <2>4. Load(m)' = asked'[m] + Requests(m) + Cardinality(Askers(m)) + 0
      BY <1>2, <2>1, <2>3 DEF Load
    <2>5. CASE wjob.who # m
      <3>1. asked'[m] = asked[m] /\ FirstAsked(m)' = FirstAsked(m)
        BY <2>0, <2>1, <2>5 DEF FirstAsked, TypeOK
      <3> QED
        BY <1>1, <2>2, <2>4, <3>1
    <2>6. CASE wjob.who = m /\ wjob.kind = "retrigger"
      <3>1. asked'[m] = asked[m] + 1 /\ FirstAsked(m)' = FirstAsked(m) /\ AtHand(m) = 1
        BY <2>0, <2>1, <2>6 DEF FirstAsked, AtHand, TypeOK
      <3> QED
        BY <1>1, <2>2, <2>4, <3>1
    <2>7. CASE wjob.who = m /\ wjob.kind = "send"
      <3>1. /\ asked'[m] = asked[m] + 1
            /\ FirstAsked(m) = 0 /\ FirstAsked(m)' = 1 /\ AtHand(m) = 0
        BY <2>0, <2>1, <2>7 DEF FirstAsked, AtHand, AsksCounted, TypeOK
      <3> QED
        BY <1>1, <2>2, <2>4, <3>1
    <2> QED
      BY <2>0, <2>1, <2>5, <2>6, <2>7
  <1>4. CASE ~AskFirstQuestion
    <2>1. asked' = asked /\ (wpc # "insert" \/ InsertReport)
      BY <1>4 DEF WorkerRuns, LoadStandup, EnsureRunOpen, ListMembers, FanOut,
           CheckNotSent, InsertReport, ArmTimeout, GuardRetrigger, ResetReport,
           ReopenRun, ReadDeadline, RearmTimeout, Expire, WorkerFinalize, FinalizeStep
    <2>2. AtHand(m)' <= AtHand(m)
      <3>1. ASSUME AtHand(m)' # 0
            PROVE  AtHand(m) = 1
        <4>1. /\ wpc' \in {"standup", "ensure", "guard", "ask"}
              /\ wjob'.kind = "retrigger" /\ wjob'.who = m
          BY <3>1 DEF AtHand
        <4>2. wpc # "idle" /\ wjob' = wjob
          BY <4>1, WorkerAdds
        <4>3. wpc \in {"standup", "ensure", "guard", "ask"}
          BY <1>0, <1>4, <4>1, <4>2 DEF WorkerRuns, LoadStandup, EnsureRunOpen, ListMembers,
             FanOut, CheckNotSent, InsertReport, ArmTimeout, GuardRetrigger, ResetReport,
             ReopenRun, ReadDeadline, RearmTimeout, Expire, WorkerFinalize, FinalizeStep, JobsAt
        <4> QED
          BY <4>1, <4>2, <4>3 DEF AtHand
      <3> QED
        BY <3>1 DEF AtHand
    <2>3. Requests(m)' = Requests(m)
      <3>1. CASE UNCHANGED queue
        BY <3>1 DEF Requests, Restart
      <3>2. ASSUME NEW kind \in {"send", "timeout"}, NEW n \in Member, Enqueue(MemberJob(kind, n))
            PROVE  Requests(m)' = Requests(m)
        <4>1. MemberJob(kind, n) \in Job /\ MemberJob(kind, n).kind # "retrigger"
          BY JobsAreJobs DEF MemberKind, MemberJob
        <4> QED
          BY <3>2, <4>1, EnqueueCounts
      <3>3. CASE ArmTimeout \/ RearmTimeout
        <4>1. wjob.who \in Member /\ Enqueue(MemberJob("timeout", wjob.who))
          BY <1>0, <3>3 DEF ArmTimeout, RearmTimeout, JobsAt, MemberKind
        <4> QED
          BY <3>2, <4>1
      <3>4. CASE \E n \in Member : FanOut(n)
        BY <3>2, <3>4 DEF FanOut
      <3> QED
        BY <1>4, <3>1, <3>3, <3>4 DEF WorkerRuns, LoadStandup, EnsureRunOpen, ListMembers,
           CheckNotSent, InsertReport, GuardRetrigger, ResetReport, ReopenRun, ReadDeadline,
           Expire, WorkerFinalize
    <2> QED
      BY <1>0, <1>1, <1>2, <2>1, <2>2, <2>3, QuietCounts
  <1> QED
    BY <1>3, <1>4

(* A failed or stalled job may come back, and that is what it cost.         *)
LEMMA FailureCounts ==
    ASSUME TypeOK, WithinBudgets, HandlersHaveReports, AsksCounted,
           WorkerThrows \/ WorkerCrashes, NEW m \in Member
    PROVE  Load(m)' <= Causes' + FirstAsked(m)'
  <1>0. /\ wjob \in Job /\ wjob.kind \in JobsAt(wpc) /\ [Next]_vars
        /\ UNCHANGED <<status, asked, inflight>>
        /\ wpc' = "idle"
    BY WorkerHolds DEF Next, WorkerThrows, WorkerCrashes, WorkerStep, FinalizeStep, Finish, dbVars,
                       slackVars
  <1>1. /\ Requests(m) \in Nat /\ asked[m] \in Nat /\ Causes \in Nat
        /\ AtHand(m) \in {0, 1} /\ FirstAsked(m) \in {0, 1} /\ Cardinality(Askers(m)) \in Nat
        /\ asked[m] + Requests(m) + Cardinality(Askers(m)) + AtHand(m) <= Causes + FirstAsked(m)
    BY CountsAreNumbers DEF AsksCounted
  <1>2. Causes' >= Causes + 1 /\ Causes' \in Nat
    BY <1>0, CausesAdd DEF WorkerThrows, WorkerCrashes
  <1>3. AtHand(m)' = 0 /\ Askers(m)' = Askers(m)
    BY <1>0 DEF AtHand, Askers
  <1>4. Load(m)' = asked[m] + Requests(m)' + Cardinality(Askers(m)) + 0
    BY <1>0, <1>3 DEF Load
  <1>5. /\ Requests(m)' \in Nat /\ Requests(m)' <= Requests(m) + 1
        /\ wjob.kind # "retrigger" => Requests(m)' = Requests(m)
    <2>1. CASE UNCHANGED queue
      BY <1>1, <2>1 DEF Requests, Restart
    <2>2. CASE MayRetry(wjob) /\ Enqueue([wjob EXCEPT !.tries = @ + 1])
      <3>1. /\ [wjob EXCEPT !.tries = @ + 1] \in Job
            /\ [wjob EXCEPT !.tries = @ + 1].kind = wjob.kind
        BY <1>0, <2>2, JobsAreJobs DEF Job
      <3> QED
        BY <2>2, <3>1, EnqueueCounts
    <2>3. CASE Enqueue(wjob)
      BY <1>0, <2>3, EnqueueCounts
    <2> QED
      BY <2>1, <2>2, <2>3 DEF WorkerThrows, WorkerCrashes
  <1>6. CASE wpc = "insert"
    <2>1. wjob.kind # "retrigger" /\ FirstAsked(m)' \in {0, 1}
      BY <1>0, <1>6 DEF JobsAt, FirstAsked, FinalizeStep
    <2> QED
      BY <1>1, <1>2, <1>4, <1>5, <2>1
  <1>7. CASE wpc # "insert"
    <2>1. FirstAsked(m)' = FirstAsked(m)
      BY <1>0, <1>7 DEF FirstAsked
    <2> QED
      BY <1>1, <1>2, <1>4, <1>5, <2>1
  <1> QED
    BY <1>6, <1>7

LEMMA HandlerCounts ==
    ASSUME TypeOK, WithinBudgets, HandlersHaveReports, AsksCounted,
           NEW h \in inflight, HandlerRuns(h) \/ HandlerThrows(h), NEW m \in Member
    PROVE  IsFiniteSet(inflight') /\ Load(m)' <= Causes' + FirstAsked(m)'
  <1> USE DEF workerVars, slackVars
  <1>0. /\ h \in HandlerState /\ h.who \in Member
        /\ [Next]_vars /\ IsFiniteSet(inflight)
        /\ UNCHANGED <<asked, wpc, wjob>>
    BY HandlerTypes DEF TypeOK, AsksCounted, Next, HandlerRuns, HandlerThrows, WriteNext,
       WriteComplete, WriteAbort, AnswerMember, Broadcast, HandlerFinalize, DayState,
       EnqueueRetrigger
  <1>1. AtHand(m)' = AtHand(m)
    BY <1>0 DEF AtHand
  <1>2. ASSUME UNCHANGED queue
        PROVE  IsFiniteSet(inflight') /\ Load(m)' <= Causes' + FirstAsked(m)'
    <2>1. Return(h) \/ \E pc : GoOn(h, pc) /\ (pc \in Asking => h.pc \in Asking)
      BY <1>2 DEF HandlerRuns, HandlerThrows, WriteNext, WriteComplete, WriteAbort, AnswerMember,
         Broadcast, HandlerFinalize, DayState, EnqueueRetrigger, Asking
    <2>2. IsFiniteSet(inflight') /\ Cardinality(Askers(m)') <= Cardinality(Askers(m))
      BY <1>0, <2>1, GoingOnCounts
    <2>3. Cardinality(Askers(m)') \in Nat
      <3>1. Askers(m)' \subseteq inflight'
        BY DEF Askers
      <3> QED
        BY <2>2, <3>1, FS_Subset, FS_CardinalityType
    <2>4. Requests(m)' = Requests(m)
      BY <1>2 DEF Requests, Restart
    <2>5. AtHand(m)' <= AtHand(m)
      BY <1>1 DEF AtHand
    <2> QED
      BY <1>0, <2>2, <2>3, <2>4, <2>5, QuietCounts
  <1>3. CASE EnqueueRetrigger(h)
    <2>0. /\ h.pc = "enqueue" /\ Return(h) /\ UNCHANGED status
          /\ Enqueue(MemberJob("retrigger", h.who))
      BY <1>3 DEF EnqueueRetrigger, dbVars
    <2>1. /\ MemberJob("retrigger", h.who) \in Job
          /\ MemberJob("retrigger", h.who).who = h.who
      BY <1>0, JobsAreJobs DEF MemberKind, MemberJob
    <2>2. /\ Requests(m) \in Nat /\ asked[m] \in Nat /\ Causes \in Nat
          /\ AtHand(m) \in {0, 1} /\ FirstAsked(m) \in {0, 1} /\ Cardinality(Askers(m)) \in Nat
          /\ IsFiniteSet(Askers(m))
          /\ asked[m] + Requests(m) + Cardinality(Askers(m)) + AtHand(m) <= Causes + FirstAsked(m)
      BY CountsAreNumbers DEF AsksCounted
    <2>3. Causes' >= Causes /\ Causes' \in Nat /\ FirstAsked(m)' = FirstAsked(m)
      BY <1>0, <2>0, CausesAdd DEF FirstAsked
    <2>4. IsFiniteSet(inflight')
      BY <1>0, <2>0, FS_RemoveElement DEF Return
    <2>5. CASE h.who = m
      <3>1. h \in Askers(m) /\ Askers(m)' = Askers(m) \ {h}
        BY <2>0, <2>5 DEF Askers, Asking, Return
      <3>2. Cardinality(Askers(m)') = Cardinality(Askers(m)) - 1
        BY <2>2, <3>1, FS_RemoveElement
      <3>3. Requests(m)' \in Nat /\ Requests(m)' <= Requests(m) + 1
        BY <2>0, <2>1, EnqueueCounts
      <3>4. Load(m)' = asked[m] + Requests(m)' + (Cardinality(Askers(m)) - 1) + AtHand(m)
        BY <1>0, <1>1, <3>2 DEF Load
      <3> QED
        BY <2>2, <2>3, <2>4, <3>3, <3>4
    <2>6. CASE h.who # m
      <3>1. Askers(m)' = Askers(m)
        BY <2>0, <2>6 DEF Askers, Return
      <3>2. Requests(m)' = Requests(m)
        BY <2>0, <2>1, <2>6, EnqueueCounts
      <3>3. Load(m)' = asked[m] + Requests(m) + Cardinality(Askers(m)) + AtHand(m)
        BY <1>0, <1>1, <3>1, <3>2 DEF Load
      <3> QED
        BY <2>2, <2>3, <2>4, <3>3
    <2> QED
      BY <2>5, <2>6
  <1>4. UNCHANGED queue \/ EnqueueRetrigger(h)
    BY DEF HandlerRuns, HandlerThrows, WriteNext, WriteComplete, WriteAbort, AnswerMember,
       Broadcast, HandlerFinalize, DayState
  <1> QED
    BY <1>2, <1>3, <1>4

LEMMA ReceiveCounts ==
    ASSUME TypeOK, WithinBudgets, HandlersHaveReports, AsksCounted, NEW id \in Handler,
           NEW n \in Member,
           \/ ReceiveReply(id, n) \/ ReceiveSkipAll(id, n)
           \/ ReceiveKeyword(id, n) \/ ReceiveSlashStart(id, n),
           NEW m \in Member
    PROVE  IsFiniteSet(inflight') /\ Load(m)' <= Causes' + FirstAsked(m)'
  <1>0. /\ [Next]_vars /\ IsFiniteSet(inflight)
        /\ UNCHANGED <<asked, status, queue, wpc, wjob>>
    BY DEF Next, AsksCounted, ReceiveReply, ReceiveSkipAll, ReceiveKeyword, ReceiveSlashStart,
           Start, dbVars, slackVars, workerVars
  <1>1. AtHand(m)' = AtHand(m) /\ Requests(m)' = Requests(m) /\ FirstAsked(m)' = FirstAsked(m)
    BY <1>0 DEF AtHand, Requests, Restart, FirstAsked
  <1>2. /\ Requests(m) \in Nat /\ asked[m] \in Nat /\ Causes \in Nat
        /\ AtHand(m) \in {0, 1} /\ FirstAsked(m) \in {0, 1} /\ Cardinality(Askers(m)) \in Nat
        /\ asked[m] + Requests(m) + Cardinality(Askers(m)) + AtHand(m) <= Causes + FirstAsked(m)
    BY <1>0, CountsAreNumbers DEF AsksCounted
  <1>3. Load(m)' = asked[m] + Requests(m) + Cardinality(Askers(m)') + AtHand(m)
    BY <1>0, <1>1 DEF Load
  <1>4. CASE ReceiveReply(id, n) \/ ReceiveSkipAll(id, n)
    <2>1. IsFiniteSet(inflight') /\ Askers(m)' = Askers(m)
      BY <1>0, <1>4, StartingCounts DEF ReceiveReply, ReceiveSkipAll, Asking
    <2>2. Causes' >= Causes /\ Causes' \in Nat
      BY <1>0, CausesAdd
    <2> QED
      BY <1>1, <1>2, <1>3, <2>1, <2>2
  <1>5. CASE ReceiveKeyword(id, n) \/ ReceiveSlashStart(id, n)
    <2>1. IsFiniteSet(inflight') /\ Cardinality(Askers(m)') <= Cardinality(Askers(m)) + 1
      BY <1>0, <1>5, StartingCounts DEF ReceiveKeyword, ReceiveSlashStart
    <2>2. Cardinality(Askers(m)') \in Nat
      <3>1. Askers(m)' \subseteq inflight'
        BY DEF Askers
      <3> QED
        BY <2>1, <3>1, FS_Subset, FS_CardinalityType
    <2>3. Causes' >= Causes + 1 /\ Causes' \in Nat
      BY <1>0, <1>5, CausesAdd DEF ReceiveKeyword, ReceiveSlashStart
    <2> QED
      BY <1>1, <1>2, <1>3, <2>1, <2>2, <2>3
  <1> QED
    BY <1>4, <1>5

(* Nobody else asks for anything; the jobs they add are no restarts.        *)
LEMMA OthersCount ==
    ASSUME TypeOK, WithinBudgets, HandlersHaveReports, AsksCounted, [Next]_vars,
           \/ \E n \in Member : AddReporter(n) \/ \E to \in {"absent", "viewer"} : DropReporter(n, to)
           \/ \E j \in joins : JoinRuns(j) \/ JoinThrows(j)
           \/ TogglePause \/ SchedulerTick
           \/ \E kind \in {"open", "force"} : TriggerRun(kind)
           \/ \E n \in Member : DeadlinePasses(n)
           \/ UNCHANGED vars,
           NEW m \in Member
    PROVE  Load(m)' <= Causes' + FirstAsked(m)'
  <1> USE DEF slackVars, workerVars, dbVars
  <1>1. UNCHANGED <<asked, wpc, wjob, inflight>>
    BY DEF vars, AddReporter, DropReporter, JoinRuns, JoinReadsRun, JoinReadsReport, JoinSends,
           JoinThrows, TogglePause, SchedulerTick, TriggerRun, DeadlinePasses
  <1>2. Requests(m)' = Requests(m)
    <2>1. CASE UNCHANGED queue
      BY <2>1 DEF Requests, Restart
    <2>2. ASSUME NEW kind \in TeamKind, Enqueue(TeamJob(kind))
          PROVE  Requests(m)' = Requests(m)
      <3>1. TeamJob(kind) \in Job /\ TeamJob(kind).kind # "retrigger"
        BY JobsAreJobs DEF TeamKind, TeamJob
      <3> QED
        BY <2>2, <3>1, EnqueueCounts
    <2>3. ASSUME NEW j \in joins, Enqueue(MemberJob("send", j.who))
          PROVE  Requests(m)' = Requests(m)
      <3>1. MemberJob("send", j.who) \in Job /\ MemberJob("send", j.who).kind # "retrigger"
        BY JoinTypes, JobsAreJobs DEF TypeOK, MemberKind, MemberJob
      <3> QED
        BY <2>3, <3>1, EnqueueCounts
    <2> QED
      BY <2>1, <2>2, <2>3
      DEF vars, AddReporter, DropReporter, JoinRuns, JoinReadsRun, JoinReadsReport, JoinSends,
          JoinThrows, TogglePause, SchedulerTick, TriggerRun, DeadlinePasses, TeamKind
  <1>3. AtHand(m)' = AtHand(m) /\ Askers(m)' = Askers(m) /\ AtHand(m) \in {0, 1}
    BY <1>1 DEF AtHand, Askers
  <1>4. Cardinality(Askers(m)) \in Nat
    BY CountsAreNumbers DEF AsksCounted
  <1> QED
    BY <1>1, <1>2, <1>3, <1>4, QuietCounts

LEMMA TakingCounts ==
    ASSUME TypeOK, WithinBudgets, HandlersHaveReports, AsksCounted, [Next]_vars,
           NEW j \in Job, Take(j), NEW m \in Member
    PROVE  Load(m)' <= Causes' + FirstAsked(m)'
  <1>0. UNCHANGED <<asked, status, inflight>> /\ wpc = "idle" /\ wjob' = j
    BY DEF Take, dbVars, slackVars
  <1>1. /\ Requests(m) \in Nat /\ asked[m] \in Nat /\ Causes \in Nat
        /\ FirstAsked(m) \in {0, 1} /\ Cardinality(Askers(m)) \in Nat
        /\ asked[m] + Requests(m) + Cardinality(Askers(m)) + AtHand(m) <= Causes + FirstAsked(m)
    BY CountsAreNumbers DEF AsksCounted
  <1>2. AtHand(m) = 0 /\ Askers(m)' = Askers(m) /\ AtHand(m)' \in {0, 1}
    BY <1>0 DEF AtHand, Askers
  <1>3. wpc' # "insert"
    BY JobKinds DEF Take, FirstStep, TeamKind, MemberKind
  <1>4. FirstAsked(m)' = FirstAsked(m)
    BY <1>0, <1>3 DEF FirstAsked
  <1>5. Requests(m)' \in Nat /\ Requests(m)' + AtHand(m)' <= Requests(m)
    BY <1>0, <1>1, <1>2, TakeCounts DEF AtHand
  <1>6. Causes' >= Causes /\ Causes' \in Nat
    BY CausesAdd
  <1>7. Load(m)' = asked[m] + Requests(m)' + Cardinality(Askers(m)) + AtHand(m)'
    BY <1>0, <1>2 DEF Load
  <1> QED
    BY <1>1, <1>2, <1>4, <1>5, <1>6, <1>7

(* sendDm asks only a member it has just seen without a report.             *)
LEMMA FirstSendStays ==
    ASSUME TypeOK, HandlersHaveReports, AsksCounted, [Next]_vars, wpc' = "ask", wjob'.kind = "send"
    PROVE  status'[wjob'.who] = "none"
  <1>1. CASE Bystander
    <2>1. wjob.who \in Member /\ UNCHANGED <<wpc, wjob>>
      BY <1>1, WorkerHolds DEF Bystander, MemberKind
    <2> QED
      BY <1>1, <2>1 DEF Bystander, AsksCounted
  <1>2. ~\E j \in Job : Take(j)
    BY JobKinds DEF Take, FirstStep, TeamKind, MemberKind
  <1>3. ~WorkerThrows /\ ~WorkerCrashes
    BY DEF WorkerThrows, WorkerCrashes, Finish
  <1>4. CASE WorkerRuns
    <2>1. CheckNotSent \/ GuardRetrigger
      BY <1>4 DEF WorkerRuns, LoadStandup, EnsureRunOpen, ListMembers, FanOut, AskFirstQuestion,
         InsertReport, ArmTimeout, ResetReport, ReopenRun, ReadDeadline, RearmTimeout, Expire,
         WorkerFinalize, Finish, Goto
    <2>2. wjob' = wjob /\ wjob.kind \in JobsAt(wpc)
      BY <2>1, WorkerHolds DEF CheckNotSent, GuardRetrigger, Finish, Goto
    <2>3. CheckNotSent
      BY <2>1, <2>2 DEF GuardRetrigger, JobsAt, FinalizeStep
    <2> QED
      BY <2>2, <2>3 DEF CheckNotSent, Finish, dbVars
  <1> QED
    BY <1>1, <1>2, <1>3, <1>4, StepKinds

LEMMA AsksCountedStep ==
    ASSUME TypeOK, WithinBudgets, HandlersHaveReports, AsksCounted, [Next]_vars
    PROVE  AsksCounted'
  <1>1. IsFiniteSet(inflight) /\ \A m \in Member : FirstAsked(m)' \in {0, 1}
    BY DEF AsksCounted, FirstAsked
  <1>2. ASSUME NEW m \in Member
        PROVE  IsFiniteSet(inflight') /\ Load(m)' <= Causes' + FirstAsked(m)'
    <2>1. CASE UNCHANGED vars
      BY <1>1, <2>1, OthersCount DEF vars
    <2>2. ASSUME NEW j \in Job, Take(j)
          PROVE  IsFiniteSet(inflight') /\ Load(m)' <= Causes' + FirstAsked(m)'
      BY <1>1, <2>2, TakingCounts, WorkerLeavesHandlers
    <2>3. CASE WorkerRuns
      BY <1>1, <2>3, WorkerCounts, WorkerLeavesHandlers
    <2>4. CASE WorkerThrows \/ WorkerCrashes
      BY <1>1, <2>4, FailureCounts, WorkerLeavesHandlers
    <2>5. ASSUME NEW id \in Handler, NEW n \in Member,
                 \/ ReceiveReply(id, n) \/ ReceiveSkipAll(id, n)
                 \/ ReceiveKeyword(id, n) \/ ReceiveSlashStart(id, n)
          PROVE  IsFiniteSet(inflight') /\ Load(m)' <= Causes' + FirstAsked(m)'
      BY <2>5, ReceiveCounts
    <2>6. ASSUME NEW h \in inflight, HandlerRuns(h) \/ HandlerThrows(h)
          PROVE  IsFiniteSet(inflight') /\ Load(m)' <= Causes' + FirstAsked(m)'
      BY <2>6, HandlerCounts
    <2>7. CASE \/ \E n \in Member : \/ AddReporter(n)
                                    \/ \E to \in {"absent", "viewer"} : DropReporter(n, to)
               \/ \E j \in joins : JoinRuns(j) \/ JoinThrows(j)
               \/ TogglePause \/ SchedulerTick
               \/ \E kind \in {"open", "force"} : TriggerRun(kind)
               \/ \E n \in Member : DeadlinePasses(n)
      <3>1. UNCHANGED inflight
        BY <2>7 DEF AddReporter, DropReporter, JoinRuns, JoinReadsRun, JoinReadsReport, JoinSends,
           JoinThrows, TogglePause, SchedulerTick, TriggerRun, DeadlinePasses
      <3> QED
        BY <1>1, <2>7, <3>1, OthersCount
    <2> QED
      BY <2>1, <2>2, <2>3, <2>4, <2>5, <2>6, <2>7 DEF Next
  <1>3. IsFiniteSet(inflight')
    <2>1. CASE Member = {}
      <3>1. inflight' \subseteq HandlerState
        BY NextTypeOK DEF TypeOK
      <3>2. inflight' = {}
        BY <2>1, <3>1 DEF HandlerState
      <3> QED
        BY <3>2, FS_EmptySet
    <2>2. CASE Member # {}
      BY <1>2, <2>2
    <2> QED
      BY <2>1, <2>2
  <1> QED
    BY <1>2, <1>3, FirstSendStays DEF AsksCounted, Load

(* Wherever jobs and handlers fail: a member is sent the first question     *)
(* once, and once more for every failure, crash and request at the most.    *)
THEOREM ExtraAsksArePaid == Spec => []ExtraAsksAccountedFor
  <1> DEFINE IInv == TypeOK /\ HandlersHaveReports /\ WithinBudgets /\ AsksCounted
  <1>1. Init => IInv
    <2> SUFFICES ASSUME Init PROVE IInv
      OBVIOUS
    <2>1. TypeOK /\ WithinBudgets /\ HandlersHaveReports
      BY InitTypeOK, BudgetAssumption DEF Init, WithinBudgets, HandlersHaveReports
    <2>2. IsFiniteSet(inflight) /\ wpc = "idle"
      BY FS_EmptySet DEF Init
    <2>3. ASSUME NEW m \in Member
          PROVE  Load(m) <= Causes + FirstAsked(m)
      <3>1. asked[m] = 0 /\ AtHand(m) = 0 /\ Askers(m) = {}
        BY DEF Init, AtHand, Askers
      <3>2. Requests(m) = 0
        <4>1. \A n \in 0..2 : Restart(m, n) \in Job
          BY DEF Restart, Job, MemberKind
        <4> QED
          BY <4>1 DEF Requests, Init
      <3>3. Cardinality(Askers(m)) = 0
        BY <3>1, FS_EmptySet
      <3> QED
        BY <2>1, <2>2, <3>1, <3>2, <3>3, CountsAreNumbers DEF Load
    <2> QED
      BY <2>1, <2>2, <2>3 DEF AsksCounted, Load
  <1>2. IInv /\ [Next]_vars => IInv'
    BY NextTypeOK, HandlersKeepReports, WithinBudget, AsksCountedStep DEF WithinBudgets
  <1>3. IInv => ExtraAsksAccountedFor
    <2> SUFFICES ASSUME IInv, NEW m \in Member
                 PROVE  asked[m] <= 1 + Spent("throw") + Spent("crash") + Spent("keyword")
      BY DEF ExtraAsksAccountedFor
    <2>1. /\ Requests(m) \in Nat /\ asked[m] \in Nat /\ Causes \in Nat
          /\ AtHand(m) \in {0, 1} /\ FirstAsked(m) \in {0, 1} /\ Cardinality(Askers(m)) \in Nat
          /\ asked[m] + Requests(m) + Cardinality(Askers(m)) + AtHand(m) <= Causes + FirstAsked(m)
      BY CountsAreNumbers DEF AsksCounted
    <2>2. Spent("throw") \in Nat /\ Spent("crash") \in Nat /\ Spent("keyword") \in Nat
      BY SpentIsCounted DEF WithinBudgets, EnvEvent
    <2>3. asked[m] <= 1 + Causes
      BY <2>1
    <2> QED
      BY <2>1, <2>2, <2>3 DEF Causes
  <1> QED
    BY <1>1, <1>2, <1>3, PTL DEF Spec
=============================================================================
