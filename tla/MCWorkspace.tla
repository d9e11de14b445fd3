----------------------------- MODULE MCWorkspace -----------------------------
(* A small instance of Workspace: a person with three ids over time and a  *)
(* second one; each budget lets one part of the workspace be busy, the     *)
(* last ones let two parts meet.                                           *)
EXTENDS Workspace, TLC

CONSTANTS a1, a2, a3, b1, ana, ben, s1, k1

SmallEmailOf == a1 :> ana @@ a2 :> ana @@ a3 :> ana @@ b1 :> ben
SmallPageOf  == a1 :> 1 @@ a2 :> 1 @@ b1 :> 2 @@ a3 :> 3
SmallMatches == ("" :> Id) @@ ("a" :> {a1, a2}) @@ ("b" :> {b1})

Only(some) == [e \in WorkspaceEvent |-> IF e \in DOMAIN some THEN some[e] ELSE 0]

Table(some) == [i \in Id |-> IF i \in DOMAIN some THEN some[i] ELSE "none"]

Everybody == [i \in Id |-> "active"]
Nobody    == [i \in Id |-> "none"]

\* The tables of users: new, founded, and with what earlier logins have left.
Founded == Table(b1 :> "admin")
Legacy  == {Table(a1 :> "viewer" @@ a2 :> "admin"),
            Table(a1 :> "manager" @@ a2 :> "viewer" @@ b1 :> "admin")}
TwoAdmins == Table(a1 :> "admin" @@ b1 :> "admin")

Start(table, slackusers, known, connected, some) ==
    [users |-> table, slack |-> slackusers, dir |-> IF known THEN slackusers ELSE Nobody,
     linear |-> connected, left |-> Only(some)]

SmallStarts ==
    {Start(t, Everybody, TRUE, TRUE, [login |-> 2, role |-> 1]) : t \in Legacy \cup {Nobody, TwoAdmins}} \cup
    {Start(t, Everybody, TRUE, TRUE, [login |-> 1, role |-> 2]) : t \in {Founded, TwoAdmins}} \cup
    {Start(Table(a1 :> "manager" @@ b1 :> "admin"), Everybody, TRUE, TRUE,
           [login |-> 1, role |-> 1, manage |-> 1]),
     Start(Founded, Nobody, TRUE, TRUE, [slack |-> 2, sync |-> 2]),
     Start(Founded, Everybody, FALSE, TRUE, [slack |-> 1, sync |-> 2]),
     Start(Founded, Everybody, TRUE, TRUE, [type |-> 2, pick |-> 1]),
     Start(Founded, Everybody, FALSE, TRUE, [type |-> 1, pick |-> 1, sync |-> 1]),
     Start(Founded, Everybody, TRUE, FALSE, [admin |-> 3, issue |-> 1, deliver |-> 2]),
     Start(Founded, Everybody, TRUE, TRUE, [issue |-> 3, deliver |-> 3]),
     Start(Founded, Everybody, TRUE, TRUE, [tick |-> 3, issue |-> 1, deliver |-> 1, day |-> 3, report |-> 1]),
     Start(Nobody, Everybody, FALSE, TRUE, [tick |-> 2, issue |-> 1, deliver |-> 1, day |-> 1, login |-> 1, sync |-> 1])}
=============================================================================
