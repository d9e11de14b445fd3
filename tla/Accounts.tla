------------------------------- MODULE Accounts -------------------------------
(***************************************************************************)
(* The users of the web app and their roles: the app_users table, the      *)
(* managers of one team (team_managers), the transaction a login runs, the *)
(* People page's role changes and the assignment of managers.  Requests    *)
(* run at the same time; the transaction of a login is read committed, so  *)
(* each of its statements sees what others have committed by then.         *)
(***************************************************************************)
EXTENDS Naturals, FiniteSets

CONSTANTS
    Id,         \* Slack user ids, an id that a person had in the past included
    EmailOf,    \* EmailOf[i]: the e-mail address Slack gives for i
    NoEmail,
    Starts      \* the situations the model starts from, each with a bound for every event below

WorkspaceEvent == {"login", "role", "manage", "slack", "sync", "type", "pick",
                   "issue", "deliver", "admin", "tick", "day", "report"}

ASSUME IdAssumption    == IsFiniteSet(Id)
ASSUME EmailAssumption == DOMAIN EmailOf = Id

Role == {"viewer", "manager", "admin"}

Person == {"none", "active", "deleted"}    \* what Slack, or the directory, knows of an id

(* A new installation, or one that has an admin, where a person's rows may *)
(* have piled up under the ids of earlier logins; a directory that has not *)
(* been synced, or was when it was as Slack is now; Linear connected with  *)
(* a secret or not.                                                        *)
ASSUME StartsAssumption ==
    \A st \in Starts :
        /\ st.users \in [Id -> Role \cup {"none"}]
        /\ (\A i \in Id : st.users[i] = "none") \/ (\E i \in Id : st.users[i] = "admin")
        /\ st.slack \in [Id -> Person]
        /\ st.dir \in {st.slack, [i \in Id |-> "none"]}
        /\ st.linear \in BOOLEAN
        /\ st.left \in [WorkspaceEvent -> Nat]

Rank == [none |-> 0, viewer |-> 1, manager |-> 2, admin |-> 3]

VARIABLES
    users,      \* users[i]: app_users.role, "none" while there is no row
    managers,   \* the ids in team_managers for the team
    op,         \* op[i]: the request of i that is running
    overtaken,  \* history: a change was written after another had changed the table meanwhile
    left        \* what remains of the budget

accountVars == <<users, managers, op, overtaken>>

Idle(i) == [pc |-> "idle", who |-> i, role |-> "viewer", rows |-> {}, late |-> FALSE]

AccountsInit(start) ==
    /\ users = start.users
    /\ managers = {}
    /\ op = [i \in Id |-> Idle(i)]
    /\ overtaken = FALSE
    /\ left = start.left

Spend(e) == left[e] > 0 /\ left' = [left EXCEPT ![e] = @ - 1]

Rows      == {i \in Id : users[i] # "none"}
Admins    == {i \in Id : users[i] = "admin"}
RowsOf(e) == {i \in Rows : EmailOf[i] = e}
Highest(is) == CHOOSE r \in Role :
                  \E i \in is : users[i] = r /\ \A j \in is : Rank[users[j]] <= Rank[r]

Step(i, pc)  == op' = [op EXCEPT ![i].pc = pc]
Answer(i)    == op' = [op EXCEPT ![i] = Idle(i)]

(* i's request writes the table; the others go on with what they had read. *)
HasReadTable == {"founder", "insert", "count", "role"}

Commit(i, table) ==
    /\ users' = table
    /\ op' = [j \in Id |-> IF j = i THEN Idle(i)
                           ELSE IF op[j].pc \in HasReadTable /\ table # users
                           THEN [op[j] EXCEPT !.late = TRUE] ELSE op[j]]
    /\ overtaken' = (overtaken \/ op[i].late)

-----------------------------------------------------------------------------
(* onSignIn: provisionUserOnLogin.  A known id has its profile refreshed.  *)

Known(i) == i \in Rows

Login(i) ==
    /\ op[i].pc = "idle"
    /\ Spend("login")
    /\ IF Known(i) THEN UNCHANGED op ELSE Step(i, "email")
    /\ UNCHANGED <<users, managers, overtaken>>

\* Faulty variant: the role of any of the rows is taken.
AdoptAny(i) ==
    /\ op[i].pc = "email"
    /\ LET rows == IF EmailOf[i] = NoEmail THEN {} ELSE RowsOf(EmailOf[i])
       IN  IF rows = {} THEN Step(i, "founder")
           ELSE \E j \in rows :
                   op' = [op EXCEPT ![i].pc = "insert", ![i].rows = rows, ![i].role = users[j]]
    /\ UNCHANGED <<users, managers, overtaken, left>>

ReconcileByEmail(i) ==
    /\ op[i].pc = "email"
    /\ LET rows == IF EmailOf[i] = NoEmail THEN {} ELSE RowsOf(EmailOf[i])
       IN  IF rows = {} THEN Step(i, "founder")
           ELSE op' = [op EXCEPT ![i].pc = "insert", ![i].rows = rows, ![i].role = Highest(rows)]
    /\ UNCHANGED <<users, managers, overtaken, left>>

(* Nobody to adopt: whoever comes while there is no admin becomes one. *)
Bootstrap(i) ==
    /\ op[i].pc = "founder"
    /\ op' = [op EXCEPT ![i].pc = "insert", ![i].role = IF Admins = {} THEN "admin" ELSE "viewer"]
    /\ UNCHANGED <<users, managers, overtaken, left>>

\* Faulty variant: the rows under the old ids are kept.
KeepStaleRows(i) ==
    /\ op[i].pc = "insert"
    /\ IF i \in Rows THEN Answer(i) /\ UNCHANGED <<users, managers, overtaken>>
       ELSE Commit(i, [users EXCEPT ![i] = op[i].role]) /\ UNCHANGED managers
    /\ UNCHANGED left

\* Faulty variant: the managers refer to rows that are gone.
LeaveManagers(i) ==
    /\ op[i].pc = "insert"
    /\ IF i \in Rows \ op[i].rows
       THEN Answer(i) /\ UNCHANGED <<users, overtaken>>
       ELSE Commit(i, [j \in Id |-> IF j = i THEN op[i].role
                                     ELSE IF j \in op[i].rows THEN "none" ELSE users[j]])
    /\ UNCHANGED <<managers, left>>

(* The rows read before are deleted, their team_managers with them, and    *)
(* the new one is inserted; a row of that id makes the transaction fail.   *)
InsertUser(i) ==
    /\ op[i].pc = "insert"
    /\ IF i \in Rows \ op[i].rows
       THEN Answer(i) /\ UNCHANGED <<users, managers, overtaken>>
       ELSE /\ Commit(i, [j \in Id |-> IF j = i THEN op[i].role
                                       ELSE IF j \in op[i].rows THEN "none" ELSE users[j]])
            /\ managers' = managers \ op[i].rows
    /\ UNCHANGED left

-----------------------------------------------------------------------------
(* setRoleAction: requireAdmin and changeUserRole. *)

(* The session's user has an admin's row at that moment. *)
RequireAdmin(i) == i \in Admins

BeginRoleChange(i, who, role) ==
    /\ op[i].pc = "idle"
    /\ RequireAdmin(i)
    /\ Spend("role")
    /\ op' = [op EXCEPT ![i].pc = "target", ![i].who = who, ![i].role = role]
    /\ UNCHANGED <<users, managers, overtaken>>

ReadTarget(i) ==
    /\ op[i].pc = "target"
    /\ Step(i, IF op[i].who \in Admins /\ op[i].role # "admin" THEN "count" ELSE "role")
    /\ UNCHANGED <<users, managers, overtaken, left>>

\* Faulty variant: the last admin may go if there is anybody else.
CountUsers(i) ==
    /\ op[i].pc = "count"
    /\ IF Cardinality(Rows) <= 1 THEN Answer(i) ELSE Step(i, "role")
    /\ UNCHANGED <<users, managers, overtaken, left>>

CountAdmins(i) ==
    /\ op[i].pc = "count"
    /\ IF Cardinality(Admins) <= 1 THEN Answer(i) ELSE Step(i, "role")
    /\ UNCHANGED <<users, managers, overtaken, left>>

WriteRole(i) ==
    /\ op[i].pc = "role"
    /\ Commit(i, IF op[i].who \in Rows THEN [users EXCEPT ![op[i].who] = op[i].role] ELSE users)
    /\ UNCHANGED <<managers, left>>

(* assignManagerAction and unassignManagerAction.  The row refers to a     *)
(* user; an unknown one is refused by the database.                        *)
BeginManage(i, who, pc) ==
    /\ op[i].pc = "idle"
    /\ RequireAdmin(i)
    /\ Spend("manage")
    /\ op' = [op EXCEPT ![i].pc = pc, ![i].who = who]
    /\ UNCHANGED <<users, managers, overtaken>>

(* canEditTeam: an admin, or a manager of this team. *)
CanEditTeam(i) == users[i] = "admin" \/ (users[i] = "manager" /\ i \in managers)

AddTeamManager(i) ==
    /\ op[i].pc = "assign"
    /\ managers' = managers \cup ({op[i].who} \cap Rows)
    /\ Answer(i)
    /\ UNCHANGED <<users, overtaken, left>>

RemoveTeamManager(i) ==
    /\ op[i].pc = "unassign"
    /\ managers' = managers \ {op[i].who}
    /\ Answer(i)
    /\ UNCHANGED <<users, overtaken, left>>

AccountsNext ==
    \E i \in Id :
       \/ Login(i) \/ ReconcileByEmail(i) \/ Bootstrap(i) \/ InsertUser(i)
       \/ \E who \in Id, role \in Role : BeginRoleChange(i, who, role)
       \/ ReadTarget(i) \/ CountAdmins(i) \/ WriteRole(i)
       \/ \E who \in Id, pc \in {"assign", "unassign"} : BeginManage(i, who, pc)
       \/ AddTeamManager(i) \/ RemoveTeamManager(i)

AccountsSpec == (\E start \in Starts : AccountsInit(start)) /\ [][AccountsNext]_<<accountVars, left>>

-----------------------------------------------------------------------------
AccountsTypeOK ==
    /\ users \in [Id -> Role \cup {"none"}]
    /\ managers \subseteq Rows
    /\ op \in [Id -> [pc : {"idle", "email", "founder", "insert", "target", "count", "role",
                            "assign", "unassign"},
                      who : Id, role : Role, rows : SUBSET Id, late : BOOLEAN]]
    /\ overtaken \in BOOLEAN
    /\ left \in [WorkspaceEvent -> Nat]

(* users.ts:94-100: as long as there are users there is an admin, however  *)
(* roles change and logins adopt and drop rows, unless some request wrote  *)
(* on the strength of rows that another had changed since.                 *)
LastAdminGuarded == Rows # {} /\ Admins = {} => overtaken

(* users.ts:33-45: a login never gives a person a further row beside one   *)
(* with the same e-mail address, unless two requests overlapped.           *)
OneRowPerPerson ==
    [][\A i \in Id : EmailOf[i] # NoEmail /\ i \notin Rows /\ i \in Rows' =>
          overtaken' \/ RowsOf(EmailOf[i])' = {i}]_users

(* users.ts:68-90: a login that creates a row gives it the highest rank    *)
(* that the person had, and an unknown person none but a viewer's while    *)
(* there is an admin, unless it was overtaken; and the new id may edit the *)
(* team only as an admin, whatever the old ones managed.                   *)
LoginGivesDueRank ==
    [][\A i \in Id : i \notin Rows /\ i \in Rows' /\ ~overtaken' =>
          LET known == IF EmailOf[i] = NoEmail THEN {} ELSE RowsOf(EmailOf[i])
          IN  /\ users'[i] = IF known # {} THEN Highest(known)
                             ELSE IF Admins = {} THEN "admin" ELSE "viewer"
              /\ CanEditTeam(i)' => i \in Admins']_users
=============================================================================
