-------------------------- MODULE MCScheduleReconcile --------------------------
(* A small instance of ScheduleReconcile.                                   *)
EXTENDS ScheduleReconcile, TLC

CONSTANTS s1, nine, ten, monday, bad, daily, weekly

\* Two schedules that differ in the hour alone have one tick, and one row is malformed.
TheTickOf == nine :> daily @@ ten :> daily @@ monday :> weekly @@ bad :> NoTick

\* Two edits, and one of every other event.
TroubleBudget == [e \in EnvEvent |-> IF e = "edit" THEN 2 ELSE 1]
=============================================================================
