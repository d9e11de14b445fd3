------------------------ MODULE ScheduleReconcileProofs ------------------------
(* What holds of ScheduleReconcile for every set of standups and schedules, *)
(* every number of edits and every number of crashes of the worker.         *)
EXTENDS ScheduleReconcile, TLAPS

-----------------------------------------------------------------------------
(* Type correctness.                                                        *)

LEMMA DesiredType ==
    ASSUME TypeOK, NEW s \in Standup
    PROVE  Desired(s) \in Tick \cup {NoTick}
  BY TickAssumption DEF Desired, TypeOK

LEMMA SpendType ==
    ASSUME TypeOK, NEW e \in EnvEvent, Spend(e)
    PROVE  left' \in [EnvEvent -> Nat]
  BY DEF Spend, TypeOK

LEMMA NextTypeOK == TypeOK /\ [Next]_vars => TypeOK'
  <1> SUFFICES ASSUME TypeOK, [Next]_vars
               PROVE  TypeOK'
    OBVIOUS
  <1> USE DEF rowVars, redisVars, runVars, Reconciler, Awaiting
  <1>0. \A e \in EnvEvent : Spend(e) => left' \in [EnvEvent -> Nat]
    BY SpendType
  <1>1. CASE UNCHANGED vars
    BY <1>1 DEF TypeOK, vars
  <1>2. ASSUME NEW s \in Standup, NEW c \in Schedule, SaveStandup(s, c)
        PROVE  TypeOK'
    BY <1>0, <1>2 DEF SaveStandup, TypeOK, EnvEvent
  <1>3. ASSUME NEW s \in Standup, NEW b \in BOOLEAN, SetStandupActive(s, b)
        PROVE  TypeOK'
    BY <1>0, <1>3 DEF SetStandupActive, TypeOK, EnvEvent
  <1>4. CASE EnqueueReconcile \/ EnqueueFails \/ TimerFires
    BY <1>0, <1>4 DEF EnqueueReconcile, EnqueueFails, TimerFires, TypeOK, EnvEvent
  <1>5. CASE Boot \/ TakeJob \/ RunCli
    <2>1. left' \in [EnvEvent -> Nat] /\ jobs' \in Nat
      BY <1>0, <1>5 DEF Boot, TakeJob, RunCli, TypeOK, EnvEvent
    <2>2. booting' \in BOOLEAN
      BY <1>5 DEF Boot, TakeJob, RunCli, TypeOK
    <2>3. /\ pc' \in [Reconciler -> Awaiting \cup {"idle", "down"}]
          /\ booting' => pc'["worker"] \in Awaiting
      BY <1>5 DEF Boot, TakeJob, RunCli, Start, TypeOK
    <2> QED
      BY <1>5, <2>1, <2>2, <2>3 DEF Boot, TakeJob, RunCli, Start, TypeOK
  <1>6. CASE Crash
    <2>1. left' \in [EnvEvent -> Nat] /\ jobs' \in Nat
      BY <1>0, <1>6 DEF Crash, TypeOK, EnvEvent
    <2>2. pc' \in [Reconciler -> Awaiting \cup {"idle", "down"}] /\ booting' = FALSE
      BY <1>6 DEF Crash, TypeOK
    <2> QED
      BY <1>6, <2>1, <2>2 DEF Crash, TypeOK
  <1>7. ASSUME NEW r \in Reconciler, Throws(r)
        PROVE  TypeOK'
    BY <1>0, <1>7 DEF Throws, TypeOK, EnvEvent
  <1>8. ASSUME NEW r \in Reconciler, ReadRows(r)
        PROVE  TypeOK'
    <2>1. [s \in Standup |-> Desired(s)] \in [Standup -> Tick \cup {NoTick}]
      BY DesiredType
    <2> QED
      BY <1>8, <2>1 DEF ReadRows, TypeOK
  <1>9. ASSUME NEW r \in Reconciler, Done(r)
        PROVE  /\ timer' \in BOOLEAN /\ booting' \in BOOLEAN
               /\ pc' \in [Reconciler -> Awaiting \cup {"idle", "down"}]
               /\ booting' => pc'["worker"] \in Awaiting
    BY <1>9 DEF Done, TypeOK
  <1>10. ASSUME NEW r \in Reconciler, ListSchedulers(r)
         PROVE  TypeOK'
    <2>1. Superfluous(r) \subseteq Standup /\ Missing(r) \subseteq Standup
      BY DEF Superfluous, Missing
    <2>2. CASE Done(r)
      BY <1>9, <1>10, <2>1, <2>2 DEF ListSchedulers, TypeOK
    <2>3. CASE pc' = [pc EXCEPT ![r] = "fix"] /\ UNCHANGED <<timer, booting>>
      BY <1>10, <2>1, <2>3 DEF ListSchedulers, TypeOK
    <2> QED
      BY <1>10, <2>2, <2>3 DEF ListSchedulers
  <1>11. ASSUME NEW r \in Reconciler, NEW s \in Standup,
                RemoveScheduler(r, s) \/ UpsertScheduler(r, s)
         PROVE  TypeOK'
    <2>1. Done(r) \/ UNCHANGED <<timer, pc, booting>>
      BY <1>11 DEF RemoveScheduler, UpsertScheduler
    <2>2. /\ timer' \in BOOLEAN /\ booting' \in BOOLEAN
          /\ pc' \in [Reconciler -> Awaiting \cup {"idle", "down"}]
          /\ booting' => pc'["worker"] \in Awaiting
      BY <1>9, <2>1 DEF TypeOK
    <2>3. scheduler' \in [Standup -> Tick \cup {NoTick}]
      BY <1>11 DEF RemoveScheduler, UpsertScheduler, TypeOK
    <2> QED
      BY <1>11, <2>2, <2>3 DEF RemoveScheduler, UpsertScheduler, TypeOK
  <1>12. CASE Next
    BY <1>2, <1>3, <1>4, <1>5, <1>6, <1>7, <1>8, <1>10, <1>11, <1>12 DEF Next, Runs
  <1> QED
    BY <1>1, <1>12

LEMMA InitTypeOK == Init => TypeOK
  <1> SUFFICES ASSUME Init PROVE TypeOK
    OBVIOUS
  <1>1. pc \in [Reconciler -> Awaiting \cup {"idle", "down"}] /\ booting = FALSE
    BY DEF Init
  <1>2. /\ scheduler \in [Standup -> Tick \cup {NoTick}]
        /\ seen \in [Reconciler -> [Standup -> Tick \cup {NoTick}]]
    BY DEF Init
  <1>3. toRemove \in [Reconciler -> SUBSET Standup] /\ toAdd \in [Reconciler -> SUBSET Standup]
    BY DEF Init
  <1>4. left \in [EnvEvent -> Nat] /\ jobs \in Nat /\ unannounced \in Nat
    BY BudgetAssumption DEF Init
  <1> QED
    BY <1>1, <1>2, <1>3, <1>4 DEF Init, TypeOK

(* Whatever is edited and wherever things fail, every row, scheduler and    *)
(* reconciler keeps its type, and a worker that is up has done its boot.    *)
THEOREM TypeCorrect == Spec => []TypeOK
  BY InitTypeOK, NextTypeOK, PTL DEF Spec

-----------------------------------------------------------------------------
(* No edit is lost, as long as nothing but the worker reconciles and Redis  *)
(* answers.                                                                 *)

Trouble == {"outage", "throw", "cli"}

LeftIsLess == \A e \in Trouble : left[e] <= Budget[e]

CliIsDown == pc["cli"] = "down"

(* What the worker read is what the rows say, unless they were edited since. *)
FreshUnlessAnnounced ==
    pc["worker"] \in {"list", "fix"} /\ ~Announced =>
        \A s \in Standup : seen["worker"][s] = Desired(s)

(* What the worker has left to do is what Redis still lacks. *)
FixesTheRest ==
    pc["worker"] = "fix" => \A s \in Standup :
        /\ scheduler[s] = seen["worker"][s] \/ s \in toRemove["worker"] \cup toAdd["worker"]
        /\ s \in toRemove["worker"] => /\ scheduler[s] # seen["worker"][s]
                                       /\ seen["worker"][s] = NoTick \/ s \in toAdd["worker"]
        /\ s \in toAdd["worker"] => /\ scheduler[s] # seen["worker"][s]
                                    /\ seen["worker"][s] # NoTick

(* Every trouble costs something that nobody ever gets back. *)
LEMMA TroubleCosts ==
    ASSUME TypeOK, LeftIsLess, [Next]_vars
    PROVE  /\ LeftIsLess'
           /\ Untroubled' => /\ Untroubled /\ ~EnqueueFails /\ ~RunCli
                             /\ \A r \in Reconciler : ~Throws(r)
  <1> USE BudgetAssumption DEF Trouble, EnvEvent
  <1>1. left \in [EnvEvent -> Nat]
    BY DEF TypeOK
  <1>2. ASSUME NEW e \in Trouble, Spend(e)
        PROVE  LeftIsLess' /\ ~Untroubled'
    <2>1. left' = [left EXCEPT ![e] = @ - 1] /\ left[e] > 0 /\ left[e] <= Budget[e]
      BY <1>2 DEF Spend, LeftIsLess
    <2>2. left'[e] < Budget[e] /\ \A f \in Trouble \ {e} : left'[f] = left[f]
      BY <1>1, <2>1
    <2> QED
      BY <1>1, <2>1, <2>2 DEF LeftIsLess, Untroubled
  <1>3. EnqueueFails \/ RunCli \/ (\E r \in Reconciler : Throws(r)) => LeftIsLess' /\ ~Untroubled'
    BY <1>2 DEF EnqueueFails, RunCli, Throws
  <1>4. ASSUME \A e \in Trouble : left'[e] = left[e]
        PROVE  LeftIsLess' /\ (Untroubled' => Untroubled)
    BY <1>4 DEF LeftIsLess, Untroubled
  <1>5. ASSUME ~EnqueueFails, ~RunCli, \A r \in Reconciler : ~Throws(r)
        PROVE  \A e \in Trouble : left'[e] = left[e]
    <2>1. \A e \in {"edit", "crash"} : Spend(e) => \A f \in Trouble : left'[f] = left[f]
      BY <1>1 DEF Spend
    <2>2. CASE \/ \E s \in Standup, c \in Schedule : SaveStandup(s, c)
               \/ \E s \in Standup, b \in BOOLEAN : SetStandupActive(s, b)
               \/ Crash
      BY <2>1, <2>2 DEF SaveStandup, SetStandupActive, Crash
    <2>3. CASE UNCHANGED vars \/ EnqueueReconcile \/ TimerFires \/ Boot \/ TakeJob
      BY <2>3 DEF vars, EnqueueReconcile, TimerFires, Boot, TakeJob
    <2>4. CASE \E r \in Reconciler : Runs(r)
      BY <2>4 DEF Runs, ReadRows, ListSchedulers, RemoveScheduler, UpsertScheduler
    <2> QED
      BY <1>5, <2>2, <2>3, <2>4 DEF Next
  <1> QED
    BY <1>3, <1>4, <1>5

(* Without trouble the worker is the only reconciler. *)
LEMMA OnlyTheWorker ==
    ASSUME TypeOK, LeftIsLess, CliIsDown, [Next]_vars, Untroubled'
    PROVE  /\ CliIsDown'
           /\ \A r \in Reconciler : Runs(r) => r = "worker"
  <1> USE DEF CliIsDown, Reconciler, Awaiting, rowVars, redisVars, runVars
  <1>1. \A r \in Reconciler : Runs(r) => r = "worker"
    BY DEF Runs, ReadRows, ListSchedulers, RemoveScheduler, UpsertScheduler
  <1>2. CASE UNCHANGED vars
    BY <1>1, <1>2 DEF vars
  <1>3. CASE \/ \E s \in Standup, c \in Schedule : SaveStandup(s, c)
             \/ \E s \in Standup, b \in BOOLEAN : SetStandupActive(s, b)
             \/ EnqueueReconcile \/ TimerFires \/ Boot \/ TakeJob \/ Crash
    BY <1>1, <1>3 DEF SaveStandup, SetStandupActive, EnqueueReconcile, TimerFires, Boot, TakeJob,
         Crash, Start, TypeOK
  <1>4. CASE Runs("worker")
    <2>1. pc'["cli"] = pc["cli"]
      BY <1>4 DEF Runs, ReadRows, ListSchedulers, RemoveScheduler, UpsertScheduler, Done, TypeOK
    <2> QED
      BY <1>1, <2>1
  <1> QED
    BY <1>1, <1>2, <1>3, <1>4, TroubleCosts DEF Next

(* A worker with nothing left to reconcile has brought Redis in step. *)
IdleIsSynced == pc["worker"] = "idle" /\ ~Announced => \A s \in Standup : InSync(s)

InStep == CliIsDown /\ FreshUnlessAnnounced /\ FixesTheRest /\ IdleIsSynced

IInv == TypeOK /\ LeftIsLess /\ (Untroubled => InStep)

(* Once the worker is through with its list, Redis holds what it read. *)
LEMMA DoneIsSynced ==
    ASSUME TypeOK, Done("worker"),
           ~Announced => \A s \in Standup : scheduler'[s] = Desired(s),
           UNCHANGED <<row, active, jobs, unannounced>>
    PROVE  FreshUnlessAnnounced' /\ FixesTheRest' /\ IdleIsSynced'
  <1>1. pc'["worker"] = "idle"
    BY DEF Done, TypeOK, Reconciler
  <1>2. \A s \in Standup : Desired(s)' = Desired(s)
    BY DEF Desired
  <1>3. Announced' = Announced
    BY DEF Announced
  <1>4. IdleIsSynced'
    BY <1>2, <1>3 DEF IdleIsSynced, InSync
  <1> QED
    BY <1>1, <1>4 DEF FreshUnlessAnnounced, FixesTheRest

LEMMA IInvStep == IInv /\ [Next]_vars => IInv'
  <1> SUFFICES ASSUME IInv, [Next]_vars, Untroubled'
               PROVE  FreshUnlessAnnounced' /\ FixesTheRest' /\ IdleIsSynced'
    BY NextTypeOK, TroubleCosts, OnlyTheWorker DEF IInv, InStep
  <1> USE DEF Reconciler, Awaiting, rowVars, redisVars, runVars
  <1>0. /\ TypeOK /\ LeftIsLess /\ CliIsDown
        /\ FreshUnlessAnnounced /\ FixesTheRest /\ IdleIsSynced
        /\ jobs \in Nat /\ unannounced \in Nat
    BY TroubleCosts DEF IInv, InStep, TypeOK
  <1>1. CASE UNCHANGED vars
    BY <1>0, <1>1 DEF vars, FreshUnlessAnnounced, FixesTheRest, IdleIsSynced, Announced, InSync,
         Desired
  <1>2. CASE \/ \E s \in Standup, c \in Schedule : SaveStandup(s, c)
             \/ \E s \in Standup, b \in BOOLEAN : SetStandupActive(s, b)
             \/ EnqueueReconcile \/ TimerFires
    <2>1. Announced'
      BY <1>0, <1>2 DEF SaveStandup, SetStandupActive, EnqueueReconcile, TimerFires, Announced
    <2>2. UNCHANGED <<scheduler, pc, seen, toRemove, toAdd>>
      BY <1>2 DEF SaveStandup, SetStandupActive, EnqueueReconcile, TimerFires
    <2> QED
      BY <1>0, <2>1, <2>2 DEF FreshUnlessAnnounced, FixesTheRest, IdleIsSynced
  <1>3. CASE Boot \/ TakeJob
    <2>1. pc'["worker"] = "rows"
      BY <1>0, <1>3 DEF Boot, TakeJob, Start, TypeOK
    <2> QED
      BY <2>1 DEF FreshUnlessAnnounced, FixesTheRest, IdleIsSynced
  <1>4. CASE Crash
    <2>1. pc'["worker"] = "down"
      BY <1>0, <1>4 DEF Crash, TypeOK
    <2> QED
      BY <2>1 DEF FreshUnlessAnnounced, FixesTheRest, IdleIsSynced
  <1>5. CASE ReadRows("worker")
    <2>1. pc'["worker"] = "list" /\ \A s \in Standup : seen'["worker"][s] = Desired(s)
      BY <1>0, <1>5 DEF ReadRows, TypeOK
    <2>2. \A s \in Standup : Desired(s)' = Desired(s)
      BY <1>5 DEF ReadRows, Desired
    <2> QED
      BY <2>1, <2>2 DEF FreshUnlessAnnounced, FixesTheRest, IdleIsSynced
  <1>6. CASE ListSchedulers("worker")
    <2>1. ~Announced => \A s \in Standup : seen["worker"][s] = Desired(s)
      BY <1>0, <1>6 DEF ListSchedulers, FreshUnlessAnnounced
    <2>2. CASE Superfluous("worker") \cup Missing("worker") = {} /\ Done("worker")
      <3>1. \A s \in Standup : scheduler'[s] = seen["worker"][s]
        BY <1>6, <2>2 DEF ListSchedulers, Superfluous, Missing
      <3>2. UNCHANGED <<row, active, jobs, unannounced>>
        BY <1>6 DEF ListSchedulers
      <3> QED
        BY <1>0, <2>1, <2>2, <3>1, <3>2, DoneIsSynced
    <2>3. CASE pc' = [pc EXCEPT !["worker"] = "fix"]
      <3>1. /\ pc'["worker"] = "fix" /\ UNCHANGED <<row, active, scheduler, jobs, unannounced, seen>>
            /\ toRemove'["worker"] = Superfluous("worker") /\ toAdd'["worker"] = Missing("worker")
        BY <1>0, <1>6, <2>3 DEF ListSchedulers, TypeOK
      <3>2. Announced' = Announced /\ \A s \in Standup : Desired(s)' = Desired(s)
        BY <3>1 DEF Announced, Desired
      <3>3. FixesTheRest'
        BY <3>1 DEF FixesTheRest, Superfluous, Missing
      <3> QED
        BY <2>1, <3>1, <3>2, <3>3 DEF FreshUnlessAnnounced, IdleIsSynced
    <2> QED
      BY <1>6, <2>2, <2>3 DEF ListSchedulers
  <1>7. ASSUME NEW s \in Standup, RemoveScheduler("worker", s) \/ UpsertScheduler("worker", s)
        PROVE  FreshUnlessAnnounced' /\ FixesTheRest' /\ IdleIsSynced'
    <2> DEFINE w == "worker"
    <2>0. /\ pc[w] = "fix" /\ UNCHANGED <<row, active, jobs, unannounced, seen>>
          /\ ~Announced => \A t \in Standup : seen[w][t] = Desired(t)
      BY <1>0, <1>7 DEF RemoveScheduler, UpsertScheduler, FreshUnlessAnnounced
    <2>1. \A t \in Standup :
             /\ scheduler'[t] = seen[w][t] \/ t \in toRemove'[w] \cup toAdd'[w]
             /\ t \in toRemove'[w] => /\ scheduler'[t] # seen[w][t]
                                      /\ seen[w][t] = NoTick \/ t \in toAdd'[w]
             /\ t \in toAdd'[w] => scheduler'[t] # seen[w][t] /\ seen[w][t] # NoTick
      <3>1. CASE RemoveScheduler(w, s)
        <4>1. /\ s \in toRemove[w]
              /\ scheduler' = [scheduler EXCEPT ![s] = NoTick]
              /\ toRemove'[w] = toRemove[w] \ {s} /\ toAdd'[w] = toAdd[w]
          BY <1>0, <3>1 DEF RemoveScheduler, TypeOK
        <4> QED
          BY <1>0, <2>0, <4>1 DEF FixesTheRest, TypeOK
      <3>2. CASE UpsertScheduler(w, s)
        <4>1. /\ toRemove[w] = {} /\ toRemove'[w] = {}
              /\ scheduler' = [scheduler EXCEPT ![s] = seen[w][s]]
              /\ toAdd'[w] = toAdd[w] \ {s}
          BY <1>0, <3>2 DEF UpsertScheduler, TypeOK
        <4> QED
          BY <1>0, <2>0, <4>1 DEF FixesTheRest, TypeOK
      <3> QED
        BY <1>7, <3>1, <3>2
    <2>2. CASE Done(w)
      <3>1. toRemove'[w] \cup toAdd'[w] = {} \/ pc' = pc
        BY <1>0, <1>7 DEF RemoveScheduler, UpsertScheduler, TypeOK
      <3>2. pc' # pc
        BY <1>0, <2>0, <2>2 DEF Done, TypeOK
      <3>3. ~Announced => \A t \in Standup : scheduler'[t] = Desired(t)
        BY <2>0, <2>1, <3>1, <3>2
      <3> QED
        BY <1>0, <2>0, <2>2, <3>3, DoneIsSynced
    <2>3. CASE UNCHANGED pc
      <3>1. Announced' = Announced /\ \A t \in Standup : Desired(t)' = Desired(t)
        BY <2>0 DEF Announced, Desired
      <3> QED
        BY <2>0, <2>1, <2>3, <3>1 DEF FreshUnlessAnnounced, FixesTheRest, IdleIsSynced
    <2> QED
      BY <1>7, <2>2, <2>3 DEF RemoveScheduler, UpsertScheduler
  <1>8. CASE Next
    <2>1. ~EnqueueFails /\ ~RunCli /\ \A r \in Reconciler : ~Throws(r) /\ (Runs(r) => r = "worker")
      BY <1>0, TroubleCosts, OnlyTheWorker
    <2> QED
      BY <1>2, <1>3, <1>4, <1>5, <1>6, <1>7, <1>8, <2>1 DEF Next, Runs
  <1> QED
    BY <1>1, <1>8

LEMMA InitIInv == Init => IInv
  <1> SUFFICES ASSUME Init PROVE IInv
    OBVIOUS
  <1>1. TypeOK
    BY InitTypeOK
  <1>2. LeftIsLess
    BY BudgetAssumption DEF Init, LeftIsLess, Trouble, EnvEvent
  <1>3. InStep
    BY DEF Init, InStep, CliIsDown, FreshUnlessAnnounced, FixesTheRest, IdleIsSynced, Reconciler
  <1> QED
    BY <1>1, <1>2, <1>3 DEF IInv

(* Until a request is lost, an await fails or somebody runs the cli, a      *)
(* worker with nothing left to reconcile has registered exactly what the    *)
(* rows ask for, however edits, jobs and crashes interleave.                *)
THEOREM QuietIsSynced == Spec => []QuietMeansSynced
  <1>1. IInv => QuietMeansSynced
    BY DEF IInv, InStep, IdleIsSynced, QuietMeansSynced
  <1> QED
    BY <1>1, InitIInv, IInvStep, PTL DEF Spec

(* Until then the reconciler leaves a scheduler that is right alone, unless *)
(* the edit that it overtook is about to be reconciled.                     *)
THEOREM RightSchedulersStay == Spec => NoChurn
  <1> DEFINE Stays ==
         \A s \in Standup : Untroubled /\ InSync(s) /\ scheduler'[s] # scheduler[s] => Announced
  <1>1. IInv /\ [Next]_vars => [Stays]_vars
    <2> SUFFICES ASSUME IInv, Next, Untroubled,
                        NEW s \in Standup, InSync(s), scheduler'[s] # scheduler[s], ~Announced
                 PROVE  FALSE
      BY DEF IInv
    <2>0. TypeOK /\ CliIsDown /\ FreshUnlessAnnounced /\ FixesTheRest
      BY DEF IInv, InStep
    <2>1. PICK r \in Reconciler, t \in Standup : RemoveScheduler(r, t) \/ UpsertScheduler(r, t)
      BY DEF Next, SaveStandup, SetStandupActive, EnqueueReconcile, EnqueueFails, TimerFires,
           Boot, TakeJob, RunCli, Crash, Throws, Runs, ReadRows, ListSchedulers, rowVars, redisVars
    <2>2. r = "worker"
      BY <2>0, <2>1 DEF RemoveScheduler, UpsertScheduler, CliIsDown, Reconciler
    <2>3. pc["worker"] = "fix" /\ s \in toRemove["worker"] \cup toAdd["worker"]
      BY <2>0, <2>1, <2>2 DEF RemoveScheduler, UpsertScheduler, TypeOK
    <2>4. seen["worker"][s] = Desired(s) /\ scheduler[s] # seen["worker"][s]
      BY <2>0, <2>3 DEF FreshUnlessAnnounced, FixesTheRest
    <2> QED
      BY <2>4 DEF InSync
  <1> QED
    BY <1>1, InitIInv, IInvStep, PTL DEF Spec, NoChurn
=============================================================================
