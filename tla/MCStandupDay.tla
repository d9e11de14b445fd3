----------------------------- MODULE MCStandupDay -----------------------------
(* Small instances of StandupDay.  Each budget below makes a different set  *)
(* of events of the environment possible.                                   *)
EXTENDS StandupDay, TLC

CONSTANTS m1, m2, h1

NoEvents == [e \in EnvEvent |-> 0]

\* The scheduler's tick, one manual trigger and one edit of the team.
TeamBudget == [NoEvents EXCEPT !["tick"] = 1, !["trigger"] = 1, !["staff"] = 1]

\* One of everything but the manual trigger.
FaultBudget == [e \in EnvEvent |-> IF e = "trigger" THEN 0 ELSE 1]

\* Nothing but the scheduler's tick.
TickBudget == [NoEvents EXCEPT !["tick"] = 1]

\* The tick and one restart, or with one failure on top.
KeywordBudget == [TickBudget EXCEPT !["keyword"] = 1]
FailedRestart == [KeywordBudget EXCEPT !["throw"] = 1]

\* The steps on the way to closing the run that nothing takes again.
UnrepeatedSteps == FinalizeStep \cup {"outro"}

\* Anything may fail except the steps that keep a timeout job alive.
UntimedSteps == (WorkerStep \cup HandlerStep \cup JoinStep) \ TimerStep

MemberSymmetry  == Permutations(Member)
=============================================================================
