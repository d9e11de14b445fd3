---------------------------- MODULE WorkspaceProofs ----------------------------
(* What holds of Workspace for every set of people, issues and secrets,     *)
(* every directory and every start, and every budget of the events.         *)
EXTENDS Workspace, FiniteSetTheorems, SequenceTheorems, WellFoundedInduction, TLAPS

-----------------------------------------------------------------------------
(* Sets of numbers: the least one, the greatest of those that have a bound, *)
(* and that finitely many have one.                                         *)

LEMMA Least ==
    ASSUME NEW T \in SUBSET Nat, T # {}
    PROVE  \E x \in T : \A y \in T : x <= y
  <1> DEFINE R == OpToRel(<, Nat)
  <1>1. \A x, y \in Nat : <<x, y>> \in R <=> x < y
    BY DEF OpToRel
  <1>2. IsWellFoundedOn(R, Nat)
    BY NatLessThanWellFounded
  <1> HIDE DEF R
  <1>3. PICK x \in T : \A y \in T : ~(<<y, x>> \in R)
    BY <1>2, WFMin, Zenon
  <1>4. \A y \in T : ~(y < x)
    BY <1>1, <1>3
  <1> QED
    BY <1>4

LEMMA MaxOf ==
    ASSUME NEW S \in SUBSET Nat, S # {}, NEW b \in Nat, \A s \in S : s <= b
    PROVE  Max(S) \in S /\ \A s \in S : s <= Max(S)
  <1> DEFINE T == {t \in Nat : \A s \in S : s <= t}
  <1>1. T # {} /\ T \in SUBSET Nat
    OBVIOUS
  <1>2. PICK t \in T : \A u \in T : t <= u
    BY <1>1, Least
  <1>3. t \in S
    <2> SUFFICES ASSUME t \notin S PROVE FALSE
      OBVIOUS
    <2>1. t \in Nat /\ \A s \in S : s \in Nat /\ s <= t /\ s # t
      OBVIOUS
    <2>2. PICK u \in S : TRUE
      OBVIOUS
    <2>3. t > 0
      BY <2>1, <2>2
    <2>4. t - 1 \in Nat /\ \A s \in S : s <= t - 1
      BY <2>1, <2>3
    <2>5. t - 1 \in T /\ ~(t <= t - 1)
      BY <2>1, <2>4
    <2> QED
      BY <1>2, <2>5
  <1>4. \E x \in S : \A y \in S : x >= y
    BY <1>3
  <1>5. Max(S) \in S /\ \A y \in S : Max(S) >= y
    BY <1>4 DEF Max
  <1> QED
    BY <1>5

LEMMA UpperBound ==
    ASSUME NEW x \in Nat, NEW y \in Nat
    PROVE  \E z \in Nat : x <= z /\ y <= z
  <1>1. x + y \in Nat /\ x <= x + y /\ y <= x + y
    OBVIOUS
  <1> QED
    BY <1>1

LEMMA Bounded ==
    ASSUME NEW S \in SUBSET Nat, IsFiniteSet(S)
    PROVE  \E b \in Nat : \A s \in S : s <= b
  <1>1. PICK seq \in Seq(S) : \A s \in S : \E n \in 1..Len(seq) : seq[n] = s
    BY DEF IsFiniteSet
  <1>2. Len(seq) \in Nat /\ \A n \in 1..Len(seq) : seq[n] \in S
    BY ElementOfSeq, LenProperties
  <1>3. PICK len \in Nat : len = Len(seq)
    BY <1>2
  <1> DEFINE Bad == {n \in Nat : n <= len /\ ~\E b \in Nat : \A j \in 1..n : seq[j] <= b}
  <1>4. CASE Bad = {}
    <2>1. len \notin Bad
      BY <1>4
    <2>2. \E b \in Nat : \A j \in 1..len : seq[j] <= b
      BY <2>1
    <2> QED
      BY <1>3, <1>1, <2>2
  <1>5. CASE Bad # {}
    <2>1. PICK n \in Bad : \A m \in Bad : n <= m
      BY <1>5, Least
    <2>2. n \in Nat /\ n <= len /\ ~\E b \in Nat : \A j \in 1..n : seq[j] <= b
      OBVIOUS
    <2>3. n # 0
      BY <2>2
    <2>4. n - 1 \in Nat /\ n - 1 <= len /\ ~(n <= n - 1)
      BY <2>2, <2>3
    <2>5. n - 1 \notin Bad
      BY <2>1, <2>4
    <2>6. PICK b \in Nat : \A j \in 1..(n - 1) : seq[j] <= b
      BY <2>4, <2>5
    <2>7. \A j \in 1..n : seq[j] \in Nat /\ (j \in 1..(n - 1) \/ j = n)
      <3>1. \A j \in 1..n : j \in 1..len /\ (j \in 1..(n - 1) \/ j = n)
        BY <2>2
      <3>2. \A j \in 1..len : seq[j] \in Nat
        BY <1>3, <1>2
      <3> QED
        BY <3>1, <3>2
    <2>8. seq[n] \in Nat
      BY <2>2, <2>3, <2>7
    <2>9. PICK c \in Nat : b <= c /\ seq[n] <= c
      BY <2>8, UpperBound
    <2> HIDE DEF Bad
    <2>10. \A j \in 1..n : seq[j] <= c
      BY <2>6, <2>7, <2>9
    <2> QED
      BY <2>2, <2>10, <2>9
  <1> QED
    BY <1>4, <1>5

-----------------------------------------------------------------------------
(* Accounts.                                                                *)

LEMMA Spending ==
    ASSUME left \in [WorkspaceEvent -> Nat], NEW e \in WorkspaceEvent, Spend(e)
    PROVE  left' \in [WorkspaceEvent -> Nat]
  BY DEF Spend

OpState == [pc : {"idle", "email", "founder", "insert", "target", "count", "role", "assign", "unassign"},
            who : Id, role : Role, rows : SUBSET Id, late : BOOLEAN]

LEMMA Ranking ==
    ASSUME users \in [Id -> Role \cup {"none"}], NEW is \in SUBSET Rows, is # {}
    PROVE  /\ Highest(is) \in Role
           /\ \E i \in is : users[i] = Highest(is)
           /\ (\E i \in is : users[i] = "admin") => Highest(is) = "admin"
  <1>1. \A i \in is : users[i] \in Role
    BY DEF Rows
  <1>2. \E r \in Role : \E i \in is : users[i] = r /\ \A j \in is : Rank[users[j]] <= Rank[r]
    <2>1. CASE \E i \in is : users[i] = "admin"
      BY <1>1, <2>1 DEF Role, Rank
    <2>2. CASE (\E i \in is : users[i] = "manager") /\ \A i \in is : users[i] # "admin"
      BY <1>1, <2>2 DEF Role, Rank
    <2>3. CASE \A i \in is : users[i] = "viewer"
      BY <1>1, <2>3 DEF Role, Rank
    <2> QED
      BY <1>1, <2>1, <2>2, <2>3 DEF Role
  <1>3. /\ Highest(is) \in Role
        /\ \E i \in is : users[i] = Highest(is) /\ \A j \in is : Rank[users[j]] <= Rank[Highest(is)]
    BY <1>2 DEF Highest
  <1>4. ASSUME NEW i \in is, users[i] = "admin" PROVE Highest(is) = "admin"
    <2>1. Rank["admin"] <= Rank[Highest(is)]
      BY <1>3, <1>4
    <2> QED
      BY <1>3, <2>1 DEF Role, Rank
  <1> QED
    BY <1>3, <1>4

LEMMA AccountsInitTypeOK ==
    ASSUME NEW start \in Starts, AccountsInit(start)
    PROVE  AccountsTypeOK
  BY StartsAssumption DEF AccountsInit, AccountsTypeOK, Idle, Role, Rows

(* A request that ends with a write, and what it does to the others.        *)
LEMMA Committing ==
    ASSUME op \in [Id -> OpState], overtaken \in BOOLEAN, NEW i \in Id,
           NEW table \in [Id -> Role \cup {"none"}], Commit(i, table)
    PROVE  /\ users' = table /\ op' \in [Id -> OpState] /\ overtaken' \in BOOLEAN
           /\ overtaken' = (overtaken \/ op[i].late)
           /\ op'[i] = Idle(i)
           /\ \A j \in Id \ {i} :
                 /\ op'[j].pc = op[j].pc /\ op'[j].who = op[j].who /\ op'[j].role = op[j].role
                 /\ op'[j].rows = op[j].rows /\ (op[j].late => op'[j].late)
                 /\ op[j].pc \in HasReadTable /\ ~op'[j].late => table = users
  <1>1. users' = table /\ overtaken' = (overtaken \/ op[i].late)
    BY DEF Commit
  <1>2. overtaken' \in BOOLEAN
    BY <1>1 DEF OpState
  <1>3. Idle(i) \in OpState
    BY DEF Idle, OpState, Role
  <1>4. ASSUME NEW j \in Id
        PROVE  /\ [op[j] EXCEPT !.late = TRUE] \in OpState
               /\ op'[j] = IF j = i THEN Idle(i)
                           ELSE IF op[j].pc \in HasReadTable /\ table # users
                           THEN [op[j] EXCEPT !.late = TRUE] ELSE op[j]
    <2>1. op[j] \in OpState
      OBVIOUS
    <2>2. [op[j] EXCEPT !.late = TRUE] \in OpState
      BY <2>1 DEF OpState
    <2> QED
      BY <2>2 DEF Commit
  <1>5. DOMAIN op' = Id /\ op' = [j \in Id |-> op'[j]]
    BY DEF Commit
  <1>6. \A j \in Id : op'[j] \in OpState
    BY <1>3, <1>4
  <1>7. op' \in [Id -> OpState]
    BY <1>5, <1>6
  <1>8. ASSUME NEW j \in Id \ {i}
        PROVE  /\ op'[j].pc = op[j].pc /\ op'[j].who = op[j].who /\ op'[j].role = op[j].role
               /\ op'[j].rows = op[j].rows /\ (op[j].late => op'[j].late)
               /\ op[j].pc \in HasReadTable /\ ~op'[j].late => table = users
    <2>1. op[j] \in OpState
      OBVIOUS
    <2>2. CASE op[j].pc \in HasReadTable /\ table # users
      <3>1. op'[j] = [op[j] EXCEPT !.late = TRUE]
        BY <1>4, <2>2
      <3> QED
        BY <2>1, <3>1 DEF OpState
    <2>3. CASE ~(op[j].pc \in HasReadTable /\ table # users)
      <3>1. op'[j] = op[j]
        BY <1>4, <2>3
      <3> QED
        BY <2>3, <3>1
    <2> QED
      BY <2>2, <2>3
  <1>9. op'[i] = Idle(i)
    BY <1>4
  <1> QED
    BY <1>1, <1>2, <1>7, <1>8, <1>9

(* A request that goes on, or ends, without writing the table.              *)
LEMMA GoingOn ==
    ASSUME op \in [Id -> OpState], NEW i \in Id, NEW new \in OpState, op' = [op EXCEPT ![i] = new]
    PROVE  op' \in [Id -> OpState] /\ op'[i] = new /\ \A j \in Id \ {i} : op'[j] = op[j]
  OBVIOUS

LEMMA Stepping ==
    ASSUME op \in [Id -> OpState], NEW i \in Id,
           NEW pc \in {"idle", "email", "founder", "insert", "target", "count", "role", "assign", "unassign"},
           Step(i, pc)
    PROVE  /\ op' \in [Id -> OpState]
           /\ op'[i].pc = pc /\ op'[i].who = op[i].who /\ op'[i].role = op[i].role
           /\ op'[i].rows = op[i].rows /\ op'[i].late = op[i].late
           /\ \A j \in Id \ {i} : op'[j] = op[j]
  BY DEF Step, OpState

LEMMA Answering ==
    ASSUME op \in [Id -> OpState], NEW i \in Id, Answer(i)
    PROVE  /\ op' \in [Id -> OpState] /\ op'[i].pc = "idle" /\ op'[i].rows = {}
           /\ \A j \in Id \ {i} : op'[j] = op[j]
  <1>1. Idle(i) \in OpState /\ Idle(i).pc = "idle" /\ Idle(i).rows = {}
    BY DEF Idle, OpState, Role
  <1> QED
    BY <1>1, GoingOn DEF Answer

Beginning(i, pc, who, role) ==
    /\ op' \in [Id -> OpState]
    /\ op'[i].pc = pc /\ op'[i].rows = op[i].rows /\ op'[i].late = op[i].late
    /\ \A j \in Id \ {i} : op'[j] = op[j]

LEMMA BeginningRequest ==
    ASSUME op \in [Id -> OpState], NEW i \in Id, NEW who \in Id, NEW role \in Role,
           NEW pc \in {"target", "assign", "unassign"},
           \/ op' = [op EXCEPT ![i].pc = pc, ![i].who = who, ![i].role = role]
           \/ op' = [op EXCEPT ![i].pc = pc, ![i].who = who]
    PROVE  Beginning(i, pc, who, role)
  BY DEF OpState, Beginning

(* The rows a login adopts, and the role it gives, by the table as it is.   *)
KnownRows(i) == IF EmailOf[i] = NoEmail THEN {} ELSE RowsOf(EmailOf[i])

DueRole(i) == IF KnownRows(i) # {} THEN Highest(KnownRows(i))
              ELSE IF Admins = {} THEN "admin" ELSE "viewer"

(* A request that nothing has overtaken will write what is due.             *)
Fresh(i) ==
    /\ op[i].pc # "insert" => op[i].rows = {}
    /\ ~op[i].late =>
          /\ op[i].pc = "founder" => KnownRows(i) = {}
          /\ op[i].pc = "insert" => op[i].rows = KnownRows(i) /\ op[i].role = DueRole(i)
          /\ op[i].pc = "role" /\ op[i].who \in Admins /\ op[i].role # "admin" =>
                \E j \in Admins : j # op[i].who

AccountsInv == AccountsTypeOK /\ LastAdminGuarded /\ \A i \in Id : Fresh(i)

LEMMA FreshAside ==
    ASSUME NEW i \in Id, Fresh(i), op'[i].pc = op[i].pc, op'[i].who = op[i].who,
           op'[i].role = op[i].role, op'[i].rows = op[i].rows,
           op[i].late => op'[i].late,
           op[i].pc \in HasReadTable /\ ~op'[i].late => users' = users
    PROVE  Fresh(i)'
  <1>1. CASE op[i].pc \in HasReadTable /\ ~op'[i].late
    <2>1. Rows' = Rows /\ Admins' = Admins /\ ~op[i].late /\ users' = users
      BY <1>1 DEF Rows, Admins
    <2>2. KnownRows(i)' = KnownRows(i)
      BY <2>1 DEF KnownRows, RowsOf
    <2>3. DueRole(i)' = DueRole(i)
      BY <2>1, <2>2 DEF DueRole, Highest
    <2> QED
      BY <2>1, <2>2, <2>3 DEF Fresh
  <1>2. CASE ~(op[i].pc \in HasReadTable /\ ~op'[i].late)
    BY <1>2 DEF Fresh, HasReadTable
  <1> QED
    BY <1>1, <1>2

LEMMA LoginSteps ==
    ASSUME AccountsInv, NEW i \in Id, Login(i) \/ ReconcileByEmail(i) \/ Bootstrap(i)
    PROVE  AccountsInv'
  <1>1. /\ op \in [Id -> OpState] /\ users \in [Id -> Role \cup {"none"}]
        /\ UNCHANGED <<users, managers, overtaken>> /\ left' \in [WorkspaceEvent -> Nat]
    BY DEF AccountsInv, AccountsTypeOK, OpState, Login, ReconcileByEmail, Bootstrap, Spend, WorkspaceEvent
  <1>2. Rows' = Rows /\ Admins' = Admins /\ KnownRows(i)' = KnownRows(i) /\ KnownRows(i) \subseteq Rows
    BY <1>1 DEF Rows, Admins, KnownRows, RowsOf
  <1>3. DueRole(i)' = DueRole(i) /\ DueRole(i) \in Role
    <2>1. DueRole(i)' = DueRole(i)
      BY <1>1, <1>2 DEF DueRole, Highest
    <2>2. DueRole(i) \in Role
      BY <1>1, <1>2, Ranking DEF DueRole, Role
    <2> QED
      BY <2>1, <2>2
  <1>4. ASSUME op' \in [Id -> OpState], \A j \in Id \ {i} : op'[j] = op[j], Fresh(i)'
        PROVE  AccountsInv'
    <2>1. \A j \in Id : Fresh(j)'
      BY <1>1, <1>4, FreshAside DEF AccountsInv
    <2> QED
      BY <1>1, <1>2, <1>4, <2>1 DEF AccountsInv, AccountsTypeOK, LastAdminGuarded, OpState
  <1>5. CASE Login(i)
    <2>1. CASE Known(i)
      <3>1. op' = op
        BY <1>5, <2>1 DEF Login
      <3>2. Fresh(i)'
        BY <1>1, <3>1, FreshAside DEF AccountsInv
      <3> QED
        BY <1>1, <1>4, <3>1, <3>2
    <2>2. CASE ~Known(i)
      <3>1. Step(i, "email") /\ op[i].pc = "idle"
        BY <1>5, <2>2 DEF Login
      <3>2. /\ op' \in [Id -> OpState] /\ \A j \in Id \ {i} : op'[j] = op[j]
            /\ op'[i].pc = "email" /\ op'[i].rows = op[i].rows
        BY <1>1, <3>1, Stepping
      <3> QED
        BY <1>4, <3>1, <3>2 DEF AccountsInv, Fresh
    <2> QED
      BY <2>1, <2>2
  <1>6. CASE ReconcileByEmail(i)
    <2>1. CASE KnownRows(i) = {}
      <3>1. Step(i, "founder") /\ op[i].pc = "email"
        BY <1>6, <2>1 DEF ReconcileByEmail, KnownRows
      <3>2. /\ op' \in [Id -> OpState] /\ \A j \in Id \ {i} : op'[j] = op[j]
            /\ op'[i].pc = "founder" /\ op'[i].rows = op[i].rows
        BY <1>1, <3>1, Stepping
      <3> QED
        BY <1>2, <1>4, <2>1, <3>1, <3>2 DEF AccountsInv, Fresh
    <2>2. CASE KnownRows(i) # {}
      <3> DEFINE new == [op[i] EXCEPT !.pc = "insert", !.rows = KnownRows(i), !.role = DueRole(i)]
      <3>1. op' = [op EXCEPT ![i] = new]
        BY <1>6, <2>2 DEF ReconcileByEmail, KnownRows, DueRole
      <3>2. new \in OpState /\ new.pc = "insert" /\ new.rows = KnownRows(i) /\ new.role = DueRole(i)
        <4>1. op[i] \in OpState /\ KnownRows(i) \in SUBSET Id /\ DueRole(i) \in Role
          BY <1>1, <1>2, <1>3 DEF Rows
        <4> QED
          BY <4>1 DEF OpState
      <3> HIDE DEF new
      <3>3. op' \in [Id -> OpState] /\ op'[i] = new /\ \A j \in Id \ {i} : op'[j] = op[j]
        BY <1>1, <3>1, <3>2, GoingOn
      <3> QED
        BY <1>2, <1>3, <1>4, <3>2, <3>3 DEF Fresh
    <2> QED
      BY <2>1, <2>2
  <1>7. CASE Bootstrap(i)
    <2> DEFINE role == IF Admins = {} THEN "admin" ELSE "viewer"
               new == [op[i] EXCEPT !.pc = "insert", !.role = role]
    <2>1. op' = [op EXCEPT ![i] = new] /\ op[i].pc = "founder"
      BY <1>7 DEF Bootstrap
    <2>2. /\ new \in OpState /\ new.pc = "insert" /\ new.rows = op[i].rows /\ new.role = role
          /\ new.late = op[i].late
      <3>1. op[i] \in OpState /\ role \in Role
        BY <1>1 DEF Role
      <3> HIDE DEF role
      <3> QED
        BY <3>1 DEF OpState
    <2>3. op[i].rows = {} /\ (~op[i].late => KnownRows(i) = {} /\ role = DueRole(i))
      BY <2>1 DEF AccountsInv, Fresh, DueRole
    <2> HIDE DEF new, role
    <2>4. op' \in [Id -> OpState] /\ op'[i] = new /\ \A j \in Id \ {i} : op'[j] = op[j]
      BY <1>1, <2>1, <2>2, GoingOn
    <2>5. Fresh(i)'
      BY <1>2, <1>3, <2>2, <2>3, <2>4 DEF Fresh
    <2> QED
      BY <1>4, <2>4, <2>5
  <1> QED
    BY <1>5, <1>6, <1>7

(* The table after a login that inserts a row. *)
Adopted(i) == [j \in Id |-> IF j = i THEN op[i].role ELSE IF j \in op[i].rows THEN "none" ELSE users[j]]

LEMMA CommittedFresh ==
    ASSUME AccountsInv, NEW i \in Id, NEW table \in [Id -> Role \cup {"none"}], Commit(i, table)
    PROVE  /\ users' = table /\ op' \in [Id -> OpState] /\ overtaken' \in BOOLEAN
           /\ overtaken' = (overtaken \/ op[i].late)
           /\ \A j \in Id : Fresh(j)'
  <1>1. op \in [Id -> OpState] /\ overtaken \in BOOLEAN
    BY DEF AccountsInv, AccountsTypeOK, OpState
  <1>2. /\ users' = table /\ op' \in [Id -> OpState] /\ overtaken' \in BOOLEAN
        /\ overtaken' = (overtaken \/ op[i].late)
        /\ op'[i] = Idle(i)
        /\ \A j \in Id \ {i} :
              /\ op'[j].pc = op[j].pc /\ op'[j].who = op[j].who /\ op'[j].role = op[j].role
              /\ op'[j].rows = op[j].rows /\ (op[j].late => op'[j].late)
              /\ op[j].pc \in HasReadTable /\ ~op'[j].late => table = users
    BY <1>1, Committing
  <1>3. Fresh(i)'
    BY <1>2 DEF Fresh, Idle
  <1>4. ASSUME NEW j \in Id, j # i PROVE Fresh(j)'
    <2>1. Fresh(j)
      BY DEF AccountsInv
    <2>2. /\ op'[j].pc = op[j].pc /\ op'[j].who = op[j].who /\ op'[j].role = op[j].role
          /\ op'[j].rows = op[j].rows /\ (op[j].late => op'[j].late)
          /\ op[j].pc \in HasReadTable /\ ~op'[j].late => users' = users
      BY <1>2, <1>4
    <2> QED
      BY <2>1, <2>2, FreshAside
  <1> QED
    BY <1>2, <1>3, <1>4

LEMMA Inserting ==
    ASSUME AccountsInv, NEW i \in Id, InsertUser(i), i \notin Rows \ op[i].rows
    PROVE  /\ Commit(i, Adopted(i)) /\ Adopted(i) \in [Id -> Role \cup {"none"}]
           /\ users' = Adopted(i) /\ op[i].pc = "insert" /\ managers' = managers \ op[i].rows /\ left' = left
           /\ op[i].role \in Role /\ op[i].rows \subseteq Id
           /\ Rows' = (Rows \ op[i].rows) \cup {i} /\ users'[i] = op[i].role
  <1>1. /\ Commit(i, Adopted(i)) /\ op[i].pc = "insert" /\ managers' = managers \ op[i].rows /\ left' = left
    BY DEF InsertUser, Adopted
  <1>2. op[i].role \in Role /\ op[i].rows \subseteq Id /\ users \in [Id -> Role \cup {"none"}]
    BY DEF AccountsInv, AccountsTypeOK, OpState
  <1>3. Adopted(i) \in [Id -> Role \cup {"none"}]
    BY <1>2 DEF Adopted
  <1>4. users' = Adopted(i)
    BY <1>1 DEF Commit
  <1>5. /\ \A j \in Id : users'[j] = IF j = i THEN op[i].role ELSE IF j \in op[i].rows THEN "none" ELSE users[j]
        /\ op[i].role # "none"
    BY <1>2, <1>4 DEF Adopted, Role
  <1> QED
    BY <1>1, <1>2, <1>3, <1>4, <1>5 DEF Rows

LEMMA InsertSteps ==
    ASSUME AccountsInv, NEW i \in Id, InsertUser(i)
    PROVE  AccountsInv'
  <1>1. /\ op \in [Id -> OpState] /\ users \in [Id -> Role \cup {"none"}] /\ managers \subseteq Rows
        /\ left' \in [WorkspaceEvent -> Nat] /\ overtaken \in BOOLEAN
    BY DEF AccountsInv, AccountsTypeOK, OpState, InsertUser
  <1>2. CASE i \in Rows \ op[i].rows
    <2>1. Answer(i) /\ UNCHANGED <<users, managers, overtaken>>
      BY <1>2 DEF InsertUser
    <2>2. /\ op' \in [Id -> OpState] /\ op'[i].pc = "idle" /\ op'[i].rows = {}
          /\ \A j \in Id \ {i} : op'[j] = op[j]
      BY <1>1, <2>1, Answering
    <2>3. \A j \in Id \ {i} : Fresh(j)'
      BY <2>1, <2>2, FreshAside DEF AccountsInv
    <2>4. Fresh(i)'
      BY <2>2 DEF Fresh
    <2>5. Rows' = Rows /\ Admins' = Admins
      BY <2>1 DEF Rows, Admins
    <2> QED
      BY <1>1, <2>1, <2>2, <2>3, <2>4, <2>5 DEF AccountsInv, AccountsTypeOK, LastAdminGuarded, OpState
  <1>3. CASE i \notin Rows \ op[i].rows
    <2>1. /\ Commit(i, Adopted(i)) /\ Adopted(i) \in [Id -> Role \cup {"none"}]
          /\ users' = Adopted(i) /\ op[i].pc = "insert" /\ managers' = managers \ op[i].rows
          /\ op[i].role \in Role /\ op[i].rows \subseteq Id
          /\ Rows' = (Rows \ op[i].rows) \cup {i} /\ users'[i] = op[i].role
      BY <1>3, Inserting
    <2>2. /\ op' \in [Id -> OpState] /\ overtaken' \in BOOLEAN
          /\ overtaken' = (overtaken \/ op[i].late)
          /\ \A j \in Id : Fresh(j)'
      BY <2>1, CommittedFresh
    <2>3. managers' \subseteq Rows'
      BY <1>1, <2>1
    <2>4. ASSUME ~overtaken' PROVE Admins' # {}
      <3>1. ~overtaken /\ op[i].rows = KnownRows(i) /\ op[i].role = DueRole(i) /\ KnownRows(i) \subseteq Rows
        BY <1>1, <2>1, <2>2, <2>4 DEF AccountsInv, Fresh, KnownRows, RowsOf
      <3>2. CASE Admins = {}
        <4>1. Rows = {}
          BY <3>1, <3>2 DEF AccountsInv, LastAdminGuarded
        <4>2. op[i].role = "admin"
          BY <3>1, <3>2, <4>1 DEF DueRole
        <4> QED
          BY <2>1, <4>2 DEF Admins
      <3>3. CASE Admins # {}
        <4>1. PICK a \in Id : users[a] = "admin"
          BY <3>3 DEF Admins
        <4>2. CASE a \in op[i].rows
          <5>1. DueRole(i) = "admin"
            BY <1>1, <3>1, <4>1, <4>2, Ranking DEF DueRole
          <5> QED
            BY <2>1, <3>1, <5>1 DEF Admins
        <4>3. CASE a \notin op[i].rows
          <5>1. a \in Rows
            BY <4>1 DEF Rows
          <5>2. a # i
            BY <1>3, <4>3, <5>1
          <5>3. users'[a] = "admin"
            BY <2>1, <4>1, <4>3, <5>2 DEF Adopted
          <5> QED
            BY <5>3 DEF Admins
        <4> QED
          BY <4>2, <4>3
      <3> QED
        BY <3>2, <3>3
    <2> QED
      BY <1>1, <2>1, <2>2, <2>3, <2>4 DEF AccountsInv, AccountsTypeOK, LastAdminGuarded, OpState
  <1> QED
    BY <1>2, <1>3

(* A change of a role. *)
LEMMA RoleSteps ==
    ASSUME AccountsInv, NEW i \in Id, ReadTarget(i) \/ CountAdmins(i) \/ WriteRole(i)
    PROVE  AccountsInv'
  <1>1. /\ op \in [Id -> OpState] /\ users \in [Id -> Role \cup {"none"}] /\ managers \subseteq Rows
        /\ left' \in [WorkspaceEvent -> Nat] /\ overtaken \in BOOLEAN /\ op[i] \in OpState
    BY DEF AccountsInv, AccountsTypeOK, OpState, ReadTarget, CountAdmins, WriteRole
  <1>2. ASSUME UNCHANGED <<users, managers, overtaken>>, op' \in [Id -> OpState],
               \A j \in Id \ {i} : op'[j] = op[j], Fresh(i)'
        PROVE  AccountsInv'
    <2>1. \A j \in Id : Fresh(j)'
      BY <1>1, <1>2, FreshAside DEF AccountsInv
    <2>2. Rows' = Rows /\ Admins' = Admins
      BY <1>2 DEF Rows, Admins
    <2> QED
      BY <1>1, <1>2, <2>1, <2>2 DEF AccountsInv, AccountsTypeOK, LastAdminGuarded, OpState
  <1>3. CASE ReadTarget(i)
    <2>0. PICK pc \in {"count", "role"} : pc = IF op[i].who \in Admins /\ op[i].role # "admin" THEN "count" ELSE "role"
      OBVIOUS
    <2>1. Step(i, pc) /\ op[i].pc = "target" /\ UNCHANGED <<users, managers, overtaken>>
      BY <1>3, <2>0 DEF ReadTarget
    <2>2. /\ op' \in [Id -> OpState]
          /\ op'[i].pc = pc /\ op'[i].who = op[i].who /\ op'[i].role = op[i].role
          /\ op'[i].rows = op[i].rows /\ op'[i].late = op[i].late
          /\ \A j \in Id \ {i} : op'[j] = op[j]
      BY <1>1, <2>1, Stepping
    <2>3. Admins' = Admins /\ op[i].rows = {}
      BY <2>1 DEF Admins, AccountsInv, Fresh
    <2>4. Fresh(i)'
      BY <2>0, <2>2, <2>3 DEF Fresh
    <2> QED
      BY <1>2, <2>1, <2>2, <2>4
  <1>4. CASE CountAdmins(i)
    <2>1. CASE Cardinality(Admins) <= 1
      <3>1. Answer(i) /\ UNCHANGED <<users, managers, overtaken>>
        BY <1>4, <2>1 DEF CountAdmins
      <3>2. /\ op' \in [Id -> OpState] /\ op'[i].pc = "idle" /\ op'[i].rows = {}
            /\ \A j \in Id \ {i} : op'[j] = op[j]
        BY <1>1, <3>1, Answering
      <3> QED
        BY <1>2, <3>1, <3>2 DEF Fresh
    <2>2. CASE ~(Cardinality(Admins) <= 1)
      <3>1. Step(i, "role") /\ op[i].pc = "count" /\ UNCHANGED <<users, managers, overtaken>>
        BY <1>4, <2>2 DEF CountAdmins
      <3>2. /\ op' \in [Id -> OpState]
            /\ op'[i].pc = "role" /\ op'[i].who = op[i].who /\ op'[i].role = op[i].role
            /\ op'[i].rows = op[i].rows /\ op'[i].late = op[i].late
            /\ \A j \in Id \ {i} : op'[j] = op[j]
        BY <1>1, <3>1, Stepping
      <3>3. \E j \in Admins : j # op[i].who
        <4> SUFFICES ASSUME Admins \subseteq {op[i].who} PROVE FALSE
          OBVIOUS
        <4>1. IsFiniteSet({op[i].who}) /\ Cardinality({op[i].who}) = 1
          BY FS_Singleton
        <4>2. Cardinality(Admins) <= 1
          BY <4>1, FS_Subset
        <4> QED
          BY <2>2, <4>2
      <3>4. Admins' = Admins /\ op[i].rows = {}
        BY <3>1 DEF Admins, AccountsInv, Fresh
      <3>5. Fresh(i)'
        BY <3>2, <3>3, <3>4 DEF Fresh
      <3> QED
        BY <1>2, <3>1, <3>2, <3>5
    <2> QED
      BY <2>1, <2>2
  <1>5. CASE WriteRole(i)
    <2> DEFINE table == IF op[i].who \in Rows THEN [users EXCEPT ![op[i].who] = op[i].role] ELSE users
    <2>1. Commit(i, table) /\ op[i].pc = "role" /\ managers' = managers
      BY <1>5 DEF WriteRole
    <2>2. op[i].who \in Id /\ op[i].role \in Role /\ "none" \notin Role
      BY <1>1 DEF OpState, Role
    <2>3. /\ table \in [Id -> Role \cup {"none"}]
          /\ \A j \in Id : table[j] = IF j = op[i].who /\ j \in Rows THEN op[i].role ELSE users[j]
      BY <1>1, <2>2
    <2> HIDE DEF table
    <2>4. /\ users' = table /\ op' \in [Id -> OpState] /\ overtaken' \in BOOLEAN
          /\ overtaken' = (overtaken \/ op[i].late)
          /\ \A j \in Id : Fresh(j)'
      BY <2>1, <2>3, CommittedFresh
    <2>5. Rows' = Rows
      BY <2>2, <2>3, <2>4 DEF Rows
    <2>6. ASSUME ~overtaken', Rows # {} PROVE Admins' # {}
      <3>1. PICK a \in Id : users[a] = "admin"
        BY <2>4, <2>6 DEF AccountsInv, LastAdminGuarded, Admins
      <3>2. CASE op[i].who \in Admins /\ op[i].role # "admin"
        <4>1. PICK j \in Id : users[j] = "admin" /\ j # op[i].who
          BY <2>1, <2>4, <2>6, <3>2 DEF AccountsInv, Fresh, Admins
        <4> QED
          BY <2>3, <2>4, <4>1 DEF Admins
      <3>3. CASE ~(op[i].who \in Admins /\ op[i].role # "admin")
        <4>1. users'[a] = "admin"
          BY <2>3, <2>4, <3>1, <3>3 DEF Admins
        <4> QED
          BY <4>1 DEF Admins
      <3> QED
        BY <3>2, <3>3
    <2> QED
      BY <1>1, <2>1, <2>3, <2>4, <2>5, <2>6 DEF AccountsInv, AccountsTypeOK, LastAdminGuarded, OpState
  <1> QED
    BY <1>3, <1>4, <1>5

LEMMA ManagerSteps ==
    ASSUME AccountsInv, NEW i \in Id,
           \/ \E who \in Id, role \in Role : BeginRoleChange(i, who, role)
           \/ \E who \in Id, pc \in {"assign", "unassign"} : BeginManage(i, who, pc)
           \/ AddTeamManager(i) \/ RemoveTeamManager(i)
    PROVE  AccountsInv'
  <1>1. /\ op \in [Id -> OpState] /\ users \in [Id -> Role \cup {"none"}] /\ managers \subseteq Rows
        /\ UNCHANGED <<users, overtaken>>
    BY DEF AccountsInv, AccountsTypeOK, OpState, BeginRoleChange, BeginManage, AddTeamManager,
           RemoveTeamManager
  <1>2. left' \in [WorkspaceEvent -> Nat]
    <2>1. left \in [WorkspaceEvent -> Nat] /\ "role" \in WorkspaceEvent /\ "manage" \in WorkspaceEvent
      BY DEF AccountsInv, AccountsTypeOK, WorkspaceEvent
    <2>2. Spend("role") \/ Spend("manage") \/ UNCHANGED left
      BY DEF BeginRoleChange, BeginManage, AddTeamManager, RemoveTeamManager
    <2> QED
      BY <2>1, <2>2, Spending
  <1>3. managers' \subseteq Rows
    BY <1>1 DEF BeginRoleChange, BeginManage, AddTeamManager, RemoveTeamManager
  <1>4. Rows' = Rows /\ Admins' = Admins
    BY <1>1 DEF Rows, Admins
  <1>5. /\ op' \in [Id -> OpState] /\ op'[i].pc \in {"idle", "target", "assign", "unassign"}
        /\ op'[i].rows = {} /\ \A j \in Id \ {i} : op'[j] = op[j]
    <2>1. ASSUME NEW who \in Id, NEW role \in Role, BeginRoleChange(i, who, role)
          PROVE  Beginning(i, "target", who, role) /\ op[i].rows = {}
      BY <1>1, <2>1, BeginningRequest DEF BeginRoleChange, AccountsInv, Fresh
    <2>2. ASSUME NEW who \in Id, NEW pc \in {"assign", "unassign"}, BeginManage(i, who, pc)
          PROVE  Beginning(i, pc, who, "viewer") /\ op[i].rows = {}
      BY <1>1, <2>2, BeginningRequest DEF BeginManage, AccountsInv, Fresh, Role
    <2>3. CASE AddTeamManager(i) \/ RemoveTeamManager(i)
      BY <1>1, <2>3, Answering DEF AddTeamManager, RemoveTeamManager
    <2> QED
      BY <2>1, <2>2, <2>3 DEF Beginning
  <1>6. \A j \in Id \ {i} : Fresh(j)'
    BY <1>1, <1>5, FreshAside DEF AccountsInv
  <1>7. Fresh(i)'
    BY <1>5 DEF Fresh
  <1> QED
    BY <1>1, <1>2, <1>3, <1>4, <1>5, <1>6, <1>7 DEF AccountsInv, AccountsTypeOK, LastAdminGuarded, OpState

LEMMA AccountsKept == AccountsInv /\ AccountsNext => AccountsInv'
  <1> SUFFICES ASSUME AccountsInv, AccountsNext PROVE AccountsInv'
    OBVIOUS
  <1> QED
    BY LoginSteps, InsertSteps, RoleSteps, ManagerSteps DEF AccountsNext

(* The other parts of the workspace leave the accounts alone but spend from *)
(* the same budget.                                                         *)
LEMMA AccountsAside ==
    ASSUME AccountsInv, UNCHANGED accountVars, left' \in [WorkspaceEvent -> Nat]
    PROVE  AccountsInv'
  <1>1. UNCHANGED <<users, managers, op, overtaken>>
    BY DEF accountVars
  <1>2. Rows' = Rows /\ Admins' = Admins
    BY <1>1 DEF Rows, Admins
  <1>3. \A i \in Id : Fresh(i)'
    BY <1>1, FreshAside DEF AccountsInv
  <1> QED
    BY <1>1, <1>2, <1>3 DEF AccountsInv, AccountsTypeOK, LastAdminGuarded

(* A row appears only where a login inserts it. *)
LEMMA NewRows ==
    ASSUME AccountsInv, [Next]_vars, NEW i \in Id, i \notin Rows, i \in Rows'
    PROVE  InsertUser(i) /\ i \notin Rows \ op[i].rows
  <1>1. ASSUME users' = users PROVE FALSE
    BY <1>1 DEF Rows
  <1>2. AccountsNext
    BY <1>1 DEF Next, vars, accountVars
  <1>3. ASSUME NEW j \in Id,
               \/ Login(j) \/ ReconcileByEmail(j) \/ Bootstrap(j)
               \/ \E who \in Id, role \in Role : BeginRoleChange(j, who, role)
               \/ ReadTarget(j) \/ CountAdmins(j)
               \/ \E who \in Id, pc \in {"assign", "unassign"} : BeginManage(j, who, pc)
               \/ AddTeamManager(j) \/ RemoveTeamManager(j)
        PROVE  FALSE
    BY <1>1, <1>3 DEF Login, ReconcileByEmail, Bootstrap, BeginRoleChange, ReadTarget, CountAdmins,
                      BeginManage, AddTeamManager, RemoveTeamManager
  <1>4. ASSUME NEW j \in Id, WriteRole(j) PROVE FALSE
    <2>1. users' = IF op[j].who \in Rows THEN [users EXCEPT ![op[j].who] = op[j].role] ELSE users
      BY <1>4 DEF WriteRole, Commit
    <2>2. users \in [Id -> Role \cup {"none"}]
      BY DEF AccountsInv, AccountsTypeOK
    <2> QED
      BY <2>1, <2>2 DEF Rows
  <1>5. PICK j \in Id : InsertUser(j)
    BY <1>2, <1>3, <1>4 DEF AccountsNext
  <1>6. j \notin Rows \ op[j].rows
    BY <1>1, <1>5 DEF InsertUser
  <1>7. Rows' = (Rows \ op[j].rows) \cup {j}
    BY <1>5, <1>6, Inserting
  <1>8. i = j
    BY <1>7
  <1> QED
    BY <1>5, <1>6, <1>8

LEMMA NewRowIsDue ==
    ASSUME AccountsInv, [Next]_vars, NEW i \in Id, i \notin Rows, i \in Rows', ~overtaken'
    PROVE  /\ users'[i] = DueRole(i) /\ Rows' = (Rows \ KnownRows(i)) \cup {i}
           /\ i \notin managers'
  <1>1. InsertUser(i) /\ i \notin Rows \ op[i].rows
    BY NewRows
  <1>2. /\ Commit(i, Adopted(i)) /\ Adopted(i) \in [Id -> Role \cup {"none"}] /\ op[i].pc = "insert"
        /\ Rows' = (Rows \ op[i].rows) \cup {i} /\ users'[i] = op[i].role
        /\ managers' = managers \ op[i].rows
    BY <1>1, Inserting
  <1>3. ~op[i].late
    BY <1>2, CommittedFresh
  <1>4. op[i].rows = KnownRows(i) /\ op[i].role = DueRole(i)
    BY <1>2, <1>3 DEF AccountsInv, Fresh
  <1>5. managers \subseteq Rows
    BY DEF AccountsInv, AccountsTypeOK
  <1> QED
    BY <1>2, <1>4, <1>5

LEMMA RowsStaySingle ==
    ASSUME AccountsInv, [Next]_vars, NEW i \in Id, EmailOf[i] # NoEmail, i \notin Rows, i \in Rows',
           ~overtaken'
    PROVE  RowsOf(EmailOf[i])' = {i}
  <1>1. Rows' = (Rows \ KnownRows(i)) \cup {i}
    BY NewRowIsDue
  <1>2. \A j \in Rows : EmailOf[j] = EmailOf[i] => j \in KnownRows(i)
    BY DEF KnownRows, RowsOf
  <1>3. RowsOf(EmailOf[i])' = {j \in Rows' : EmailOf[j] = EmailOf[i]}
    BY DEF RowsOf
  <1> QED
    BY <1>1, <1>2, <1>3

-----------------------------------------------------------------------------
(* The directory.                                                           *)

LEMMA LastPage ==
    ASSUME NEW i \in Id
    PROVE  Max(Pages) \in Nat /\ PageOf[i] <= Max(Pages)
  <1>1. Pages \in SUBSET Nat /\ PageOf[i] \in Pages /\ PageOf \in Surjection(Id, Pages)
    BY PagesAssumption DEF Pages, Surjection
  <1>2. IsFiniteSet(Pages)
    BY <1>1, IdAssumption, FS_Surjection
  <1>3. PICK b \in Nat : \A s \in Pages : s <= b
    BY <1>1, <1>2, Bounded
  <1>4. Max(Pages) \in Pages /\ \A s \in Pages : s <= Max(Pages)
    BY <1>1, <1>3, MaxOf
  <1> QED
    BY <1>1, <1>4

(* What has been read of somebody has been true since the sync began, and   *)
(* whom Slack did not list the directory does not know.                     *)
ReadOf(i) == fetched[i] \in sincesync[i] /\ (fetched[i] = "none" => dir[i] = "none")

Reading ==
    page > 0 =>
       /\ unwritten = {} /\ ~synced
       /\ \A i \in Id : slack[i] \in sincesync[i] /\ (PageOf[i] < page => ReadOf(i))

Writing ==
    unwritten # {} =>
       /\ page = 0 /\ ~synced
       /\ \A i \in Id : PageOf[i] <= PageCap =>
             fetched[i] \in sincesync[i] /\ (i \notin unwritten => dir[i] \in sincesync[i])

DirectoryInv ==
    /\ DirectoryTypeOK
    /\ \A i \in Id : (dir[i] # "none" => slack[i] # "none") /\ (fetched[i] # "none" => slack[i] # "none")
    /\ Reading /\ Writing /\ DirectoryIsCurrent

LEMMA InitDirectoryInv ==
    ASSUME NEW start \in Starts, DirectoryInit(start)
    PROVE  DirectoryInv
  <1>1. /\ start.slack \in [Id -> Person] /\ start.dir \in {start.slack, [i \in Id |-> "none"]}
        /\ 0 \in 0..PageCap
    BY StartsAssumption, PagesAssumption
  <1>2. DirectoryTypeOK
    BY <1>1 DEF DirectoryInit, DirectoryTypeOK, Person
  <1>3. \A i \in Id : (dir[i] # "none" => slack[i] # "none") /\ (fetched[i] # "none" => slack[i] # "none")
    BY <1>1 DEF DirectoryInit
  <1> QED
    BY <1>2, <1>3 DEF DirectoryInv, DirectoryInit, Reading, Writing, DirectoryIsCurrent

LEMMA PersonChanges ==
    ASSUME DirectoryInv, NEW i \in Id, ChangePerson(i)
    PROVE  DirectoryInv'
  <1>1. /\ slack \in [Id -> Person] /\ dir \in [Id -> Person] /\ fetched \in [Id -> Person]
        /\ sincesync \in [Id -> SUBSET Person]
        /\ UNCHANGED <<dir, syncs, page, fetched, unwritten, synced>>
    BY DEF DirectoryInv, DirectoryTypeOK, ChangePerson
  <1>2. /\ slack' \in [Id -> Person] /\ slack'[i] \in {"active", "deleted"}
        /\ \A j \in Id : j # i => slack'[j] = slack[j]
    BY <1>1 DEF ChangePerson, Person
  <1>3. sincesync' = [sincesync EXCEPT ![i] = @ \cup {slack'[i]}]
    BY DEF ChangePerson
  <1>4. /\ sincesync' \in [Id -> SUBSET Person] /\ slack'[i] \in sincesync'[i]
        /\ \A j \in Id : sincesync[j] \subseteq sincesync'[j]
    BY <1>1, <1>2, <1>3
  <1>5. DirectoryTypeOK' /\ DirectoryIsCurrent'
    BY <1>1, <1>2, <1>4 DEF DirectoryInv, DirectoryTypeOK, DirectoryIsCurrent, Listed
  <1>6. Reading'
    <2>1. \A j \in Id : slack[j] \in sincesync[j] => slack'[j] \in sincesync'[j]
      BY <1>2, <1>4
    <2> QED
      BY <1>1, <1>4, <2>1 DEF DirectoryInv, Reading, ReadOf
  <1>7. Writing'
    BY <1>1, <1>4 DEF DirectoryInv, Writing
  <1> QED
    BY <1>1, <1>2, <1>5, <1>6, <1>7 DEF DirectoryInv

LEMMA PageReading ==
    ASSUME DirectoryInv, ReadPage
    PROVE  DirectoryInv'
  <1>1. /\ slack \in [Id -> Person] /\ dir \in [Id -> Person] /\ fetched \in [Id -> Person]
        /\ sincesync \in [Id -> SUBSET Person] /\ page \in 0..PageCap /\ page > 0
        /\ PageCap \in Nat /\ PageOf \in [Id -> Nat]
        /\ UNCHANGED <<slack, dir, syncs, sincesync>> /\ unwritten = {} /\ ~synced
    BY PagesAssumption DEF DirectoryInv, DirectoryTypeOK, ReadPage, Reading
  <1>2. /\ fetched' \in [Id -> Person]
        /\ \A i \in Id : fetched'[i] = IF PageOf[i] = page THEN slack[i] ELSE fetched[i]
    BY <1>1 DEF ReadPage, Fetched
  <1>3. \A i \in Id : PageOf[i] <= page => ReadOf(i)'
    BY <1>1, <1>2 DEF DirectoryInv, Reading, ReadOf
  <1>4. \A i \in Id : (dir'[i] # "none" => slack'[i] # "none") /\ (fetched'[i] # "none" => slack'[i] # "none")
    BY <1>1, <1>2 DEF DirectoryInv
  <1>5. CASE page >= PageCap \/ page >= Max(Pages)
    <2>1. page' = 0 /\ unwritten' = Listed(fetched') /\ (synced' <=> unwritten' = {}) /\ synced' \in BOOLEAN
      BY <1>5 DEF ReadPage
    <2>2. \A i \in Id : PageOf[i] <= PageCap => ReadOf(i)'
      BY <1>1, <1>3, <1>5, LastPage
    <2>3. \A i \in Id : i \notin unwritten' => fetched'[i] = "none"
      BY <2>1 DEF Listed
    <2>4. \A i \in Id : PageOf[i] <= PageCap =>
             fetched'[i] \in sincesync'[i] /\ (i \notin unwritten' => dir'[i] \in sincesync'[i])
      BY <2>2, <2>3 DEF ReadOf
    <2>5. Writing' /\ Reading' /\ DirectoryIsCurrent'
      BY <2>1, <2>4 DEF Writing, Reading, DirectoryIsCurrent
    <2>6. DirectoryTypeOK'
      BY <1>1, <1>2, <2>1 DEF DirectoryInv, DirectoryTypeOK
    <2> QED
      BY <1>4, <2>5, <2>6 DEF DirectoryInv
  <1>6. CASE ~(page >= PageCap \/ page >= Max(Pages))
    <2>0. page' = page + 1 /\ unwritten' = {} /\ synced' = (page' = 0 /\ unwritten' = {})
      BY <1>1, <1>6 DEF ReadPage
    <2>1. page' = page + 1 /\ unwritten' = {} /\ synced' = FALSE
      <3>1. page' # 0
        BY <1>1, <2>0
      <3> QED
        BY <2>0, <3>1
    <2>2. Reading'
      BY <1>1, <1>3, <2>1 DEF Reading, DirectoryInv
    <2>3. DirectoryTypeOK'
      <3>1. page' \in 0..PageCap
        BY <1>1, <1>6, <2>1
      <3> QED
        BY <1>1, <1>2, <2>1, <3>1 DEF DirectoryInv, DirectoryTypeOK
    <2> QED
      BY <1>4, <2>1, <2>2, <2>3 DEF DirectoryInv, Writing, DirectoryIsCurrent
  <1> QED
    BY <1>5, <1>6

LEMMA ChunkWriting ==
    ASSUME DirectoryInv, WriteChunk
    PROVE  DirectoryInv'
  <1>1. PICK is \in SUBSET unwritten :
           /\ dir' = [i \in Id |-> IF i \in is THEN fetched[i] ELSE dir[i]]
           /\ unwritten' = unwritten \ is
    BY DEF WriteChunk, kSubset
  <1>2. /\ dir \in [Id -> Person] /\ fetched \in [Id -> Person] /\ unwritten # {} /\ page = 0
        /\ UNCHANGED <<slack, syncs, page, fetched, sincesync>>
        /\ (synced' <=> unwritten' = {}) /\ synced' \in BOOLEAN
    BY DEF DirectoryInv, DirectoryTypeOK, WriteChunk, Writing
  <1>3. dir' \in [Id -> Person] /\ \A i \in Id : dir'[i] = IF i \in is THEN fetched[i] ELSE dir[i]
    BY <1>1, <1>2
  <1>4. \A i \in Id : PageOf[i] <= PageCap =>
           fetched'[i] \in sincesync'[i] /\ (i \notin unwritten' => dir'[i] \in sincesync'[i])
    BY <1>1, <1>2, <1>3 DEF DirectoryInv, Writing
  <1>5. DirectoryTypeOK'
    BY <1>1, <1>2, <1>3 DEF DirectoryInv, DirectoryTypeOK, Listed
  <1>6. \A i \in Id : (dir'[i] # "none" => slack'[i] # "none") /\ (fetched'[i] # "none" => slack'[i] # "none")
    BY <1>2, <1>3 DEF DirectoryInv
  <1>7. Writing' /\ Reading' /\ DirectoryIsCurrent'
    BY <1>2, <1>4 DEF Writing, Reading, DirectoryIsCurrent
  <1> QED
    BY <1>5, <1>6, <1>7 DEF DirectoryInv

LEMMA DirectoryKept == DirectoryInv /\ DirectoryNext => DirectoryInv'
  <1> SUFFICES ASSUME DirectoryInv, DirectoryNext PROVE DirectoryInv'
    OBVIOUS
  <1>1. CASE EnqueueSync
    BY <1>1 DEF EnqueueSync, DirectoryInv, DirectoryTypeOK, Reading, Writing, ReadOf, DirectoryIsCurrent,
                Listed
  <1>2. CASE BeginSync
    <2>1. /\ slack \in [Id -> Person] /\ UNCHANGED <<slack, dir, unwritten>> /\ unwritten = {} /\ page' = 1
          /\ fetched' = [i \in Id |-> "none"] /\ sincesync' = [i \in Id |-> {slack[i]}] /\ synced' = FALSE
          /\ syncs' = syncs - 1 /\ syncs > 0 /\ syncs \in Nat
      BY <1>2 DEF BeginSync, DirectoryInv, DirectoryTypeOK
    <2>2. DirectoryTypeOK'
      <3>1. 1 \in 0..PageCap /\ syncs' \in Nat
        BY <2>1, PagesAssumption
      <3>2. fetched' \in [Id -> Person] /\ sincesync' \in [Id -> SUBSET Person] /\ dir \in [Id -> Person]
        BY <2>1 DEF Person, DirectoryInv, DirectoryTypeOK
      <3> QED
        BY <2>1, <3>1, <3>2 DEF DirectoryTypeOK
    <2>3. \A i \in Id : ~(PageOf[i] < 1)
      BY PagesAssumption
    <2>4. Reading'
      BY <2>1, <2>3 DEF Reading
    <2> QED
      BY <2>1, <2>2, <2>4 DEF DirectoryInv, Writing, DirectoryIsCurrent
  <1>3. CASE SyncFails
    <2>1. /\ page' = 0 /\ unwritten' = {} /\ ~synced
          /\ UNCHANGED <<slack, dir, syncs, fetched, sincesync, synced>> /\ 0 \in 0..PageCap
      BY <1>3, PagesAssumption DEF SyncFails, DirectoryInv, Reading, Writing
    <2> QED
      BY <2>1 DEF DirectoryInv, DirectoryTypeOK, Reading, Writing, DirectoryIsCurrent
  <1> QED
    BY <1>1, <1>2, <1>3, PersonChanges, PageReading, ChunkWriting DEF DirectoryNext

LEMMA DirectoryAside ==
    ASSUME DirectoryInv, UNCHANGED dirVars
    PROVE  DirectoryInv'
  BY DEF dirVars, DirectoryInv, DirectoryTypeOK, Reading, Writing, ReadOf, DirectoryIsCurrent, Listed

-----------------------------------------------------------------------------
(* The search box.                                                          *)

LEMMA Lesser ==
    ASSUME NEW x \in Nat, NEW y \in Nat
    PROVE  Min({x, y}) \in Nat /\ Min({x, y}) <= x /\ Min({x, y}) <= y
  <1>1. \E z \in {x, y} : \A w \in {x, y} : z <= w
    <2>1. CASE x <= y
      BY <2>1
    <2>2. CASE y <= x
      BY <2>2
    <2> QED
      BY <2>1, <2>2
  <1>2. Min({x, y}) \in {x, y} /\ \A w \in {x, y} : Min({x, y}) <= w
    BY <1>1 DEF Min
  <1> QED
    BY <1>2

LEMMA Answers ==
    ASSUME NEW q \in Query, NEW reply \in SearchPage(q)
    PROVE  /\ reply \in Reply /\ reply.users \subseteq Matches[q]
           /\ Cardinality(reply.users) <= Limit
  <1>1. Found(q) \subseteq Matches[q] /\ Found(q) \subseteq Id
    BY MatchesAssumption DEF Found
  <1>2. IsFiniteSet(Found(q)) /\ Cardinality(Found(q)) \in Nat
    BY <1>1, IdAssumption, FS_Subset, FS_CardinalityType
  <1> DEFINE n == Cardinality(Found(q))
  <1>3. PICK us \in kSubset(Min({Limit, n}), Found(q)) : reply = [users |-> us, more |-> n > Limit]
    BY DEF SearchPage
  <1>4. us \subseteq Found(q) /\ Cardinality(us) = Min({Limit, n})
    BY <1>3 DEF kSubset
  <1>5. Cardinality(us) <= Limit
    BY <1>2, <1>4, Lesser, ChunkAssumption
  <1>6. reply.users = us /\ reply \in Reply
    BY <1>1, <1>3, <1>4 DEF Reply
  <1> QED
    BY <1>1, <1>4, <1>5, <1>6

(* A search that has not been aborted is the last one sent; while the list  *)
(* is open and no other is due, it is for what has been typed, and without  *)
(* one the list shows the answer to the last.                               *)
Latest == \A r \in Live : r.n = sent

Following ==
    open /\ ~timer => /\ \A r \in Live : r.q = query
                      /\ Live = {} => results.q = query /\ results.n = sent

SearchInv == SearchTypeOK /\ Latest /\ Following

LEMMA InitSearchInv == SearchInit => SearchInv
  <1> SUFFICES ASSUME SearchInit PROVE SearchInv
    OBVIOUS
  <1>1. NoResults \in List /\ NoResults.n = 0
    BY MatchesAssumption DEF NoResults, List
  <1>2. Cardinality({}) = 0
    BY FS_EmptySet
  <1>3. SearchTypeOK
    <2>1. /\ query = "" /\ open = FALSE /\ timer = FALSE /\ requests = {} /\ sent = 0
          /\ results = NoResults /\ loading = FALSE /\ selected = {}
      BY DEF SearchInit
    <2>2. requests \subseteq Request /\ \A r \in requests : FALSE
      BY <2>1
    <2>3. results \in List /\ sent \in Nat /\ results.n <= sent
      <3>1. results \in List /\ results.n = 0 /\ sent = 0
        BY <1>1, <2>1, Zenon
      <3> QED
        BY <3>1
    <2>4. selected \subseteq Id /\ Cardinality(selected) <= 1
      <3>1. selected = {} /\ Cardinality(selected) = 0
        BY <1>2, <2>1, Zenon
      <3> QED
        BY <3>1
    <2>5. query \in Query /\ open \in BOOLEAN /\ timer \in BOOLEAN /\ loading \in BOOLEAN
      BY <2>1, MatchesAssumption
    <2> QED
      BY <2>2, <2>3, <2>4, <2>5 DEF SearchTypeOK
  <1>4. Latest /\ Following
    BY DEF SearchInit, Latest, Following, Live
  <1> QED
    BY <1>3, <1>4 DEF SearchInv

(* Typing, opening and closing: a search becomes due, or the list is closed.*)
LEMMA TypingSteps ==
    ASSUME SearchInv, UNCHANGED <<requests, sent, results, loading>>,
           query' \in Query, open' \in BOOLEAN, timer' \in BOOLEAN,
           selected' \subseteq Id, Cardinality(selected') <= 1, timer' \/ ~open'
    PROVE  SearchInv'
  <1>1. Live' = Live
    BY DEF Live
  <1> QED
    BY <1>1 DEF SearchInv, SearchTypeOK, Latest, Following

LEMMA Sending == ASSUME SearchInv, SendSearch PROVE SearchInv'
  <1>1. /\ query \in Query /\ sent \in Nat /\ requests \subseteq Request /\ results \in List /\ results.n <= sent
        /\ UNCHANGED <<query, open, results, selected>> /\ sent' = sent + 1 /\ timer' = FALSE
        /\ loading' = TRUE
        /\ requests' = {[r EXCEPT !.aborted = TRUE] : r \in requests} \cup {NewRequest}
    BY DEF SearchInv, SearchTypeOK, SendSearch
  <1>2. /\ NewRequest \in Request /\ NewRequest.n = sent + 1 /\ NewRequest.q = query
        /\ ~NewRequest.aborted /\ NewRequest.reply.users = {}
    BY <1>1 DEF NewRequest, Request, Reply, NoAnswer
  <1>3. ASSUME NEW r \in requests
        PROVE  /\ [r EXCEPT !.aborted = TRUE] \in Request /\ [r EXCEPT !.aborted = TRUE].aborted
               /\ [r EXCEPT !.aborted = TRUE].n = r.n /\ [r EXCEPT !.aborted = TRUE].reply = r.reply
               /\ [r EXCEPT !.aborted = TRUE].q = r.q
    BY <1>1 DEF Request
  <1>4. \A r \in requests' :
           /\ r \in Request
           /\ r.n \in 1..sent' /\ r.reply.users \subseteq Matches[r.q] /\ Cardinality(r.reply.users) <= Limit
    <2>1. Cardinality({}) = 0 /\ Limit \in Nat
      BY FS_EmptySet, ChunkAssumption
    <2>2. \A r \in requests :
             r.n \in 1..sent /\ r.reply.users \subseteq Matches[r.q] /\ Cardinality(r.reply.users) <= Limit
      BY DEF SearchInv, SearchTypeOK
    <2>3. ASSUME NEW r \in requests, NEW p, p = [r EXCEPT !.aborted = TRUE]
          PROVE  /\ p \in Request
                 /\ p.n \in 1..sent' /\ p.reply.users \subseteq Matches[p.q] /\ Cardinality(p.reply.users) <= Limit
      BY <1>1, <1>3, <2>2, <2>3
    <2>4. /\ NewRequest.n \in 1..sent' /\ NewRequest.reply.users \subseteq Matches[NewRequest.q]
          /\ Cardinality(NewRequest.reply.users) <= Limit
      BY <1>1, <1>2, <2>1
    <2> QED
      BY <1>1, <1>2, <2>3, <2>4
  <1>5. \A r \in Live' : r = NewRequest
    BY <1>1, <1>3 DEF Live
  <1>6. NewRequest \in Live'
    BY <1>1, <1>2 DEF Live
  <1>7. SearchTypeOK'
    <2>1. sent' \in Nat /\ results'.n <= sent'
      BY <1>1 DEF List
    <2>2. requests' \subseteq Request
      BY <1>4
    <2>3. selected' \subseteq Id /\ Cardinality(selected') <= 1
      BY <1>1 DEF SearchInv, SearchTypeOK
    <2>4. open' \in BOOLEAN /\ query' \in Query /\ results' \in List /\ timer' \in BOOLEAN /\ loading' \in BOOLEAN
      BY <1>1 DEF SearchInv, SearchTypeOK
    <2> QED
      BY <1>4, <2>1, <2>2, <2>3, <2>4 DEF SearchTypeOK
  <1>8. Latest' /\ Following'
    BY <1>1, <1>2, <1>5, <1>6 DEF Latest, Following
  <1> QED
    BY <1>7, <1>8 DEF SearchInv

LEMMA SearchAnswered ==
    ASSUME SearchInv, NEW r \in requests, AnswerSearch(r)
    PROVE  SearchInv'
  <1>1. r \in Request /\ UNCHANGED <<query, open, timer, sent, results, loading, selected>>
    BY DEF SearchInv, SearchTypeOK, AnswerSearch
  <1>2. PICK reply \in SearchPage(r.q) :
           requests' = (requests \ {r}) \cup {[r EXCEPT !.answered = TRUE, !.reply = reply]}
    BY DEF AnswerSearch
  <1> DEFINE p == [r EXCEPT !.answered = TRUE, !.reply = reply]
  <1>3. /\ reply \in Reply /\ reply.users \subseteq Matches[r.q]
        /\ Cardinality(reply.users) <= Limit
    BY <1>1, Answers DEF Request
  <1>4. /\ p \in Request /\ p.n = r.n /\ p.q = r.q /\ p.aborted = r.aborted /\ p.reply = reply
    BY <1>1, <1>3 DEF Request
  <1>5. requests' = (requests \ {r}) \cup {p}
    BY <1>2
  <1> HIDE DEF p
  <1>6. SearchTypeOK'
    BY <1>1, <1>3, <1>4, <1>5 DEF SearchInv, SearchTypeOK
  <1>7. \A s \in Live' : s \in Live \/ (s = p /\ r \in Live)
    BY <1>4, <1>5 DEF Live
  <1>8. Live' = {} => Live = {}
    BY <1>4, <1>5 DEF Live
  <1>9. Latest'
    BY <1>1, <1>4, <1>7 DEF SearchInv, Latest
  <1>10. Following'
    BY <1>1, <1>4, <1>7, <1>8 DEF SearchInv, Following
  <1> QED
    BY <1>6, <1>9, <1>10 DEF SearchInv

(* A search whose handler ends; if it was live, the list is its own now.    *)
LEMMA SearchEnding ==
    ASSUME SearchInv, NEW r \in requests, requests' = requests \ {r}, loading' = FALSE,
           UNCHANGED <<query, open, timer, sent, selected>>,
           results' \in List,
           IF r.aborted THEN results' = results ELSE results'.n = r.n /\ results'.q = r.q
    PROVE  SearchInv' /\ results'.n >= results.n
  <1>1. r \in Request /\ r.n \in 1..sent /\ sent \in Nat /\ results \in List /\ results.n <= sent
    BY DEF SearchInv, SearchTypeOK
  <1>2. results.n \in Nat /\ r.aborted \in BOOLEAN
    BY <1>1 DEF List, Request
  <1>3. ~r.aborted => r \in Live /\ r.n = sent
    BY <1>2 DEF SearchInv, Latest, Live
  <1>4. Live' = Live \ {r}
    BY DEF Live
  <1>5. results'.n <= sent /\ results'.n >= results.n
    BY <1>1, <1>2, <1>3
  <1>6. SearchTypeOK'
    BY <1>5 DEF SearchInv, SearchTypeOK
  <1>7. Latest'
    BY <1>4 DEF SearchInv, Latest
  <1>8. Following'
    <2>1. CASE r.aborted
      <3>1. Live' = Live
        BY <1>4, <2>1 DEF Live
      <3> QED
        BY <2>1, <3>1 DEF SearchInv, Following
    <2>2. CASE ~r.aborted
      BY <1>3, <1>4, <2>2 DEF SearchInv, Following
    <2> QED
      BY <2>1, <2>2
  <1> QED
    BY <1>5, <1>6, <1>7, <1>8 DEF SearchInv

LEMMA SearchEnds ==
    ASSUME SearchInv, NEW r \in requests, ShowResults(r) \/ EndSearch(r)
    PROVE  SearchInv' /\ results'.n >= results.n
  <1>1. r \in Request /\ r.reply \in Reply /\ results \in List
    BY DEF SearchInv, SearchTypeOK, Request
  <1>2. CASE ShowResults(r)
    <2>1. results' = [n |-> r.n, q |-> r.q, users |-> r.reply.users, more |-> r.reply.more] /\ ~r.aborted
      BY <1>2 DEF ShowResults, Live
    <2>2. results' \in List /\ results'.n = r.n /\ results'.q = r.q
      BY <1>1, <2>1 DEF Request, Reply, List
    <2> QED
      BY <1>2, <2>1, <2>2, SearchEnding DEF ShowResults
  <1>3. CASE EndSearch(r)
    <2>1. CASE r.aborted
      <3>1. results' = results /\ requests' = requests \ {r} /\ loading' = FALSE
            /\ UNCHANGED <<query, open, timer, sent, selected>>
        BY <1>3, <2>1 DEF EndSearch
      <3> QED
        BY <1>1, <2>1, <3>1, SearchEnding
    <2>2. CASE ~r.aborted
      <3>1. results' = [results EXCEPT !.n = r.n, !.q = r.q, !.users = {}]
        BY <1>3, <2>2 DEF EndSearch
      <3>2. results' \in List /\ results'.n = r.n /\ results'.q = r.q
        BY <1>1, <3>1 DEF Request, List
      <3> QED
        BY <1>3, <2>2, <3>2, SearchEnding DEF EndSearch
    <2> QED
      BY <2>1, <2>2
  <1> QED
    BY <1>2, <1>3

LEMMA Choosing ==
    ASSUME SearchInv, NEW i \in Id, Choose(i)
    PROVE  SearchInv' /\ results'.n = results.n
  <1>1. /\ results \in List /\ UNCHANGED <<requests, sent, loading>> /\ open' = FALSE /\ query' = ""
        /\ results' = [results EXCEPT !.q = "", !.users = {}] /\ selected' = {i}
    BY DEF SearchInv, SearchTypeOK, Choose, Effect
  <1>2. results' \in List /\ results'.n = results.n
    BY <1>1, MatchesAssumption DEF List
  <1>3. timer' \in BOOLEAN
    BY DEF Choose, Effect, SearchInv, SearchTypeOK
  <1>4. Cardinality({i}) = 1
    BY FS_Singleton
  <1>5. SearchTypeOK'
    <2>1. /\ sent \in Nat /\ requests \subseteq Request /\ loading \in BOOLEAN /\ results.n <= sent
          /\ \A r \in requests :
                /\ r.n \in 1..sent
                /\ r.reply.users \subseteq Matches[r.q] /\ Cardinality(r.reply.users) <= Limit
      BY DEF SearchInv, SearchTypeOK
    <2>2. selected' \subseteq Id /\ Cardinality(selected') <= 1
      <3>1. selected' = {i} /\ Cardinality(selected') = 1
        BY <1>1, <1>4, Zenon
      <3> QED
        BY <3>1
    <2>3. query' \in Query /\ open' \in BOOLEAN
      BY <1>1, MatchesAssumption
    <2> QED
      BY <1>1, <1>2, <1>3, <2>1, <2>2, <2>3 DEF SearchTypeOK
  <1>6. Latest' /\ Following'
    BY <1>1 DEF SearchInv, Latest, Following, Live
  <1> QED
    BY <1>2, <1>5, <1>6 DEF SearchInv

LEMMA SearchKept ==
    ASSUME SearchInv, SearchNext
    PROVE  SearchInv' /\ results'.n >= results.n
  <1>1. results.n \in Nat
    BY DEF SearchInv, SearchTypeOK, List
  <1>2. ASSUME NEW q \in Query, Type(q) PROVE SearchInv' /\ results'.n >= results.n
    <2>1. query' = q /\ open' = TRUE /\ timer' = TRUE /\ UNCHANGED <<requests, sent, results, loading, selected>>
      BY <1>2 DEF Type, Effect
    <2> QED
      BY <1>1, <2>1, TypingSteps DEF SearchInv, SearchTypeOK
  <1>3. CASE OpenList
    <2>1. query' = query /\ open' = TRUE /\ timer' = TRUE /\ UNCHANGED <<requests, sent, results, loading, selected>>
      BY <1>3 DEF OpenList, Effect
    <2> QED
      BY <1>1, <2>1, TypingSteps DEF SearchInv, SearchTypeOK
  <1>4. CASE CloseList
    <2>1. query' = query /\ open' = FALSE /\ timer' \in BOOLEAN /\ UNCHANGED <<requests, sent, results, loading, selected>>
      BY <1>4 DEF CloseList, Effect, SearchInv, SearchTypeOK
    <2>2. query' \in Query /\ selected' \subseteq Id /\ Cardinality(selected') <= 1
      <3>1. query \in Query /\ selected \subseteq Id /\ Cardinality(selected) <= 1 /\ selected' = selected
        BY <2>1 DEF SearchInv, SearchTypeOK
      <3> QED
        BY <2>1, <3>1
    <2>3. SearchInv'
      BY <2>1, <2>2, TypingSteps
    <2> QED
      BY <1>1, <2>1, <2>3
  <1>5. CASE ClearChoice
    <2>1. Cardinality({}) = 0
      BY FS_EmptySet
    <2>2. selected' = {} /\ UNCHANGED <<query, open, timer, requests, sent, results, loading>>
      BY <1>5 DEF ClearChoice
    <2>3. selected' \subseteq Id /\ Cardinality(selected') <= 1
      <3>1. selected' = {} /\ Cardinality(selected') = 0
        BY <2>1, <2>2, Zenon
      <3> QED
        BY <3>1
    <2>4. SearchTypeOK'
      BY <2>2, <2>3 DEF SearchInv, SearchTypeOK
    <2>5. Latest' /\ Following'
      BY <2>2 DEF SearchInv, Latest, Following, Live
    <2> QED
      BY <1>1, <2>2, <2>4, <2>5 DEF SearchInv
  <1>6. CASE SendSearch
    <2>1. results' = results
      BY <1>6 DEF SendSearch
    <2> QED
      BY <1>1, <1>6, <2>1, Sending
  <1>7. ASSUME NEW r \in requests, AnswerSearch(r) PROVE SearchInv' /\ results'.n >= results.n
    <2>1. results' = results
      BY <1>7 DEF AnswerSearch
    <2> QED
      BY <1>1, <1>7, <2>1, SearchAnswered
  <1>8. ASSUME NEW i \in Id, Choose(i) PROVE SearchInv' /\ results'.n >= results.n
    BY <1>1, <1>8, Choosing
  <1>9. ASSUME NEW r \in requests, ShowResults(r) \/ EndSearch(r)
        PROVE  SearchInv' /\ results'.n >= results.n
    BY <1>9, SearchEnds
  <1> QED
    BY <1>2, <1>3, <1>4, <1>5, <1>6, <1>7, <1>8, <1>9 DEF SearchNext

LEMMA SearchAside ==
    ASSUME SearchInv, UNCHANGED searchVars
    PROVE  SearchInv'
  BY DEF searchVars, SearchInv, SearchTypeOK, Latest, Following, Live

-----------------------------------------------------------------------------
(* Linear.                                                                  *)

LEMMA Greater ==
    ASSUME NEW x \in Nat, NEW y \in Nat
    PROVE  Max({x, y}) \in Nat /\ y <= Max({x, y}) /\ (x <= y => Max({x, y}) = y)
  <1>1. PICK b \in Nat : x <= b /\ y <= b
    BY UpperBound
  <1>2. Max({x, y}) \in {x, y} /\ \A s \in {x, y} : s <= Max({x, y})
    <2> DEFINE S == {x, y}
    <2>1. S \in SUBSET Nat /\ S # {} /\ \A s \in S : s <= b
      BY <1>1
    <2> HIDE DEF S
    <2>2. Max(S) \in S /\ \A s \in S : s <= Max(S)
      BY <2>1, MaxOf
    <2> QED
      BY <2>2 DEF S
  <1> QED
    BY <1>2

(* The conjuncts of LinearTypeOK, one for each group of the variables.      *)
IssuesTyped ==
    /\ now \in Nat
    /\ issue \in [Issue -> [ver : Nat, at : Nat, assigned : BOOLEAN]]
    /\ emitted \subseteq Snapshot /\ \A e \in emitted : e.ver <= issue[e.k].ver /\ e.at <= now

ConnectionTyped ==
    /\ setting \in {"none", "on", "off"} /\ secrets \subseteq Secret
    /\ admin \subseteq {"enable", "disable"}
    /\ wish \in {"none", "connected", "disconnected", "crossed"}
    /\ hooks \subseteq Hook /\ \A h \in hooks : h.e \in emitted

StoreTyped ==
    /\ stored \in [Issue -> [ver : Nat, at : Nat, received : Nat]]
    /\ \A k \in Issue : stored[k].ver <= issue[k].ver /\ stored[k].at <= now
    /\ accepted \in [Issue -> Nat] /\ reordered \subseteq Issue

ReportsTyped ==
    /\ reports \in Seq(Report)
    /\ \A n \in DOMAIN reports : reports[n].at \in {Null} \cup (reports[n].made)..now
    /\ posting \in [n : Nat, to : Nat] /\ posting.n \in 0..Len(reports)
    /\ posting.n = 0 => posting = NoPosting
    /\ missed \subseteq Nat
    /\ \A w \in windows : w.from \in Nat /\ w.to \in Nat /\ w.n \in 1..Len(reports)

(* No report is from the future.                                            *)
Begun == \A n \in DOMAIN reports : reports[n].made <= now

(* Unless two admins' requests have crossed, only one is between its two    *)
(* statements; one that disconnects has removed the secrets by then, and    *)
(* once it has ended nothing undoes it.                                     *)
Disconnecting ==
    /\ wish # "crossed" => /\ ~("enable" \in admin /\ "disable" \in admin)
                           /\ "disable" \in admin => secrets = {}
    /\ wish = "disconnected" => admin = {} /\ setting = "off" /\ secrets = {}

(* As long as the snapshots of an issue come in order, the webhooks that    *)
(* are running for it have one and the same, which is not older than what   *)
(* has been accepted; and the row has that, or has been pruned.             *)
InOrder ==
    /\ RowIsNewest
    /\ \A h \in hooks : h.e.k \notin reordered => accepted[h.e.k] <= h.e.ver
    /\ \A g, h \in hooks : g.e.k = h.e.k /\ g.e.k \notin reordered => g.e.ver = h.e.ver

LinearInv ==
    /\ IssuesTyped /\ ConnectionTyped /\ StoreTyped /\ ReportsTyped
    /\ Begun /\ Disconnecting /\ InOrder

LEMMA InitLinearInv ==
    ASSUME NEW start \in Starts, LinearInit(start)
    PROVE  LinearInv
  <1>1. /\ now = 1 /\ emitted = {} /\ admin = {} /\ hooks = {} /\ reordered = {} /\ missed = {} /\ windows = {}
        /\ issue = [k \in Issue |-> [ver |-> 0, at |-> 0, assigned |-> TRUE]]
        /\ stored = [k \in Issue |-> NoRow] /\ accepted = [k \in Issue |-> 0]
        /\ reports = <<>> /\ posting = NoPosting
        /\ wish \in {"none", "connected"} /\ setting \in {"none", "on"} /\ secrets \subseteq Secret
    BY StartsAssumption DEF LinearInit
  <1>2. IssuesTyped /\ ConnectionTyped
    BY <1>1 DEF IssuesTyped, ConnectionTyped
  <1>3. StoreTyped
    BY <1>1 DEF StoreTyped, NoRow
  <1>4. ReportsTyped
    <2>1. reports \in Seq(Report) /\ Len(reports) = 0 /\ DOMAIN reports = {}
      BY <1>1
    <2>2. posting \in [n : Nat, to : Nat] /\ posting.n = 0 /\ posting = NoPosting
      BY <1>1 DEF NoPosting
    <2> QED
      BY <1>1, <2>1, <2>2 DEF ReportsTyped
  <1>5. Begun /\ Disconnecting
    BY <1>1 DEF Begun, Disconnecting
  <1>6. InOrder
    BY <1>1 DEF InOrder, RowIsNewest, NoRow
  <1> QED
    BY <1>2, <1>3, <1>4, <1>5, <1>6 DEF LinearInv

(* What a step leaves alone stays as it is.                                 *)
LEMMA LinearStays ==
    ASSUME LinearInv
    PROVE  /\ UNCHANGED <<now, issueVars>> => IssuesTyped'
           /\ UNCHANGED <<issueVars, connectionVars>> => ConnectionTyped' /\ Disconnecting'
           /\ UNCHANGED <<now, issueVars, storeVars>> => StoreTyped'
           /\ UNCHANGED <<now, reportVars>> => ReportsTyped' /\ Begun'
           /\ UNCHANGED <<hooks, storeVars>> => InOrder'
  <1>1. UNCHANGED <<now, issueVars>> => IssuesTyped'
    BY DEF LinearInv, issueVars, IssuesTyped
  <1>2. UNCHANGED <<issueVars, connectionVars>> => ConnectionTyped' /\ Disconnecting'
    BY DEF LinearInv, issueVars, connectionVars, ConnectionTyped, Disconnecting
  <1>3. UNCHANGED <<now, issueVars, storeVars>> => StoreTyped'
    BY DEF LinearInv, issueVars, storeVars, StoreTyped
  <1>4. UNCHANGED <<now, reportVars>> => ReportsTyped' /\ Begun'
    BY DEF LinearInv, reportVars, ReportsTyped, Begun
  <1>5. UNCHANGED <<hooks, storeVars>> => InOrder'
    BY DEF LinearInv, storeVars, InOrder, RowIsNewest
  <1> QED
    BY <1>1, <1>2, <1>3, <1>4, <1>5

LEMMA Ticking == ASSUME LinearInv, Tick PROVE LinearInv'
  <1>1. /\ now \in Nat /\ now' = now + 1
        /\ UNCHANGED <<issueVars, connectionVars, storeVars, reportVars, hooks>>
    BY DEF LinearInv, IssuesTyped, Tick, connectionVars
  <1>2. ConnectionTyped' /\ Disconnecting' /\ InOrder'
    BY <1>1, LinearStays
  <1>3. IssuesTyped'
    <2>1. /\ issue \in [Issue -> [ver : Nat, at : Nat, assigned : BOOLEAN]] /\ emitted \subseteq Snapshot
          /\ UNCHANGED <<issue, emitted>>
          /\ \A e \in emitted : e.ver <= issue[e.k].ver /\ e.at \in Nat /\ e.at <= now
      BY <1>1 DEF LinearInv, IssuesTyped, issueVars, Snapshot
    <2> QED
      BY <1>1, <2>1 DEF IssuesTyped
  <1>4. StoreTyped'
    <2>1. /\ stored \in [Issue -> [ver : Nat, at : Nat, received : Nat]]
          /\ UNCHANGED <<issue, stored, accepted, reordered>>
          /\ accepted \in [Issue -> Nat] /\ reordered \subseteq Issue
          /\ \A k \in Issue : stored[k].ver <= issue[k].ver /\ stored[k].at \in Nat /\ stored[k].at <= now
      BY <1>1 DEF LinearInv, StoreTyped, issueVars, storeVars
    <2> QED
      BY <1>1, <2>1 DEF StoreTyped
  <1>5. ReportsTyped' /\ Begun'
    <2>1. ReportsTyped /\ Begun /\ UNCHANGED <<reports, posting, missed, windows>>
      BY <1>1 DEF LinearInv, reportVars
    <2>2. \A n \in DOMAIN reports : reports[n] \in Report
      BY <2>1, ElementOfSeq DEF ReportsTyped
    <2>3. \A n \in DOMAIN reports :
             /\ reports[n].made \in Nat /\ reports[n].made <= now
             /\ reports[n].at \in {Null} \cup (reports[n].made)..now
      BY <2>1, <2>2 DEF ReportsTyped, Begun, Report
    <2>4. \A n \in DOMAIN reports :
             /\ reports[n].made <= now + 1
             /\ reports[n].at \in {Null} \cup (reports[n].made)..(now + 1)
      BY <1>1, <2>3
    <2> QED
      BY <1>1, <2>1, <2>4 DEF ReportsTyped, Begun
  <1> QED
    BY <1>2, <1>3, <1>4, <1>5 DEF LinearInv

LEMMA IssueChanging ==
    ASSUME LinearInv, NEW k \in Issue, ChangeIssue(k)
    PROVE  LinearInv'
  <1>1. UNCHANGED <<now, connectionVars, storeVars, reportVars, hooks>> /\ IssuesTyped
    BY DEF LinearInv, ChangeIssue, connectionVars
  <1>2. PICK at \in {0, now}, assigned \in BOOLEAN :
           /\ issue' = [issue EXCEPT ![k] = [ver |-> @.ver + 1, at |-> at, assigned |-> assigned]]
           /\ emitted' = emitted \cup {[k |-> k, ver |-> issue[k].ver + 1, at |-> at, assigned |-> assigned]}
    BY DEF ChangeIssue
  <1> DEFINE i == [ver |-> issue[k].ver + 1, at |-> at, assigned |-> assigned]
             e == [k |-> k, ver |-> issue[k].ver + 1, at |-> at, assigned |-> assigned]
  <1>3. /\ issue[k].ver \in Nat /\ at \in Nat /\ at <= now /\ now \in Nat
        /\ issue \in [Issue -> [ver : Nat, at : Nat, assigned : BOOLEAN]]
    BY <1>1 DEF IssuesTyped
  <1>4. /\ i \in [ver : Nat, at : Nat, assigned : BOOLEAN] /\ e \in Snapshot
        /\ i.ver = issue[k].ver + 1 /\ e.k = k /\ e.ver = i.ver /\ e.at = at
    BY <1>3 DEF Snapshot
  <1>5. /\ issue' = [issue EXCEPT ![k] = i]
        /\ emitted' = emitted \cup {e}
    BY <1>2
  <1> HIDE DEF i, e
  <1>6. \A j \in Issue : issue'[j] = IF j = k THEN i ELSE issue[j]
    BY <1>3, <1>5
  <1>7. issue' \in [Issue -> [ver : Nat, at : Nat, assigned : BOOLEAN]]
    BY <1>3, <1>4, <1>5
  <1>8. \A j \in Issue : issue[j].ver \in Nat /\ issue'[j].ver \in Nat /\ issue[j].ver <= issue'[j].ver
    BY <1>3, <1>4, <1>6
  <1>9. IssuesTyped'
    <2>1. \A f \in emitted : f.k \in Issue /\ f.ver \in Nat /\ f.ver <= issue[f.k].ver /\ f.at <= now
      BY <1>1 DEF IssuesTyped, Snapshot
    <2>2. \A f \in emitted : f.ver <= issue'[f.k].ver
      BY <1>8, <2>1
    <2>3. e.ver <= issue'[e.k].ver /\ e.at <= now
      BY <1>3, <1>4, <1>6
    <2> QED
      BY <1>1, <1>3, <1>4, <1>5, <1>7, <2>1, <2>2, <2>3 DEF IssuesTyped
  <1>10. ConnectionTyped' /\ Disconnecting'
    BY <1>1, <1>5 DEF LinearInv, connectionVars, ConnectionTyped, Disconnecting
  <1>11. StoreTyped'
    <2>1. StoreTyped /\ UNCHANGED <<stored, accepted, reordered, now>>
      BY <1>1 DEF LinearInv, storeVars
    <2>2. \A j \in Issue : stored[j].ver \in Nat /\ stored[j].ver <= issue[j].ver
      BY <2>1 DEF StoreTyped
    <2>3. \A j \in Issue : stored[j].ver <= issue'[j].ver
      BY <1>8, <2>2
    <2> QED
      BY <2>1, <2>3 DEF StoreTyped
  <1>12. ReportsTyped' /\ Begun' /\ InOrder'
    BY <1>1, LinearStays
  <1> QED
    BY <1>9, <1>10, <1>11, <1>12 DEF LinearInv

(* A webhook that goes on, or ends, keeps its snapshot, and so do the others.*)
LEMMA HooksGoOn ==
    ASSUME ConnectionTyped, NEW h \in hooks,
           Respond(h) \/ \E pc \in {"verify", "record", "store"} : Go(h, pc)
    PROVE  /\ hooks' \subseteq Hook
           /\ \A g \in hooks' : \E f \in hooks : g.e = f.e
  <1>1. h \in Hook /\ hooks \subseteq Hook
    BY DEF ConnectionTyped
  <1>2. CASE Respond(h)
    BY <1>1, <1>2 DEF Respond
  <1>3. ASSUME NEW pc \in {"verify", "record", "store"}, Go(h, pc)
        PROVE  hooks' \subseteq Hook /\ \A g \in hooks' : \E f \in hooks : g.e = f.e
    <2> DEFINE p == [h EXCEPT !.pc = pc]
    <2>1. p \in Hook /\ p.e = h.e
      BY <1>1 DEF Hook
    <2>2. hooks' = (hooks \ {h}) \cup {p}
      BY <1>3 DEF Go
    <2> HIDE DEF p
    <2> QED
      BY <1>1, <2>1, <2>2
  <1> QED
    BY <1>2, <1>3

LEMMA HookStays ==
    ASSUME LinearInv, NEW h \in hooks,
           Respond(h) \/ \E pc \in {"verify", "record", "store"} : Go(h, pc),
           setting' \in {setting, Touched(setting)},
           UNCHANGED <<now, issueVars, secrets, admin, wish, storeVars, reportVars>>
    PROVE  LinearInv'
  <1>1. IssuesTyped' /\ StoreTyped' /\ ReportsTyped' /\ Begun'
    BY LinearStays
  <1>2. hooks' \subseteq Hook /\ \A g \in hooks' : \E f \in hooks : g.e = f.e
    BY HooksGoOn DEF LinearInv
  <1>3. ConnectionTyped' /\ Disconnecting'
    <2>1. /\ ConnectionTyped /\ Disconnecting /\ UNCHANGED <<emitted, secrets, admin, wish>>
          /\ setting' \in {"none", "on", "off"} /\ (setting = "off" => setting' = "off")
      BY DEF LinearInv, ConnectionTyped, issueVars, Touched
    <2> QED
      BY <1>2, <2>1 DEF ConnectionTyped, Disconnecting
  <1>4. InOrder'
    BY <1>2 DEF LinearInv, InOrder, RowIsNewest, storeVars
  <1> QED
    BY <1>1, <1>3, <1>4 DEF LinearInv

LEMMA Delivering ==
    ASSUME LinearInv, NEW e \in emitted, NEW s \in Secret, Deliver(e, s)
    PROVE  LinearInv'
  <1> DEFINE d == [e |-> e, s |-> s, off |-> setting = "off", pc |-> "verify"]
  <1>1. /\ UNCHANGED <<now, issueVars, setting, secrets, admin, wish, stored, accepted, reportVars>>
        /\ hooks' = hooks \cup {d}
        /\ reordered' = IF accepted[e.k] > e.ver \/ (\E h \in hooks : h.e.k = e.k /\ h.e.ver # e.ver)
                        THEN reordered \cup {e.k} ELSE reordered
    BY DEF Deliver
  <1>2. e \in Snapshot /\ e.k \in Issue /\ e.ver \in Nat
    BY DEF LinearInv, IssuesTyped, Snapshot
  <1>3. d \in Hook /\ d.e = e
    BY <1>2 DEF Hook
  <1> HIDE DEF d
  <1>4. IssuesTyped' /\ ReportsTyped' /\ Begun'
    BY <1>1, LinearStays
  <1>5. ConnectionTyped' /\ Disconnecting'
    <2>1. ConnectionTyped /\ Disconnecting /\ UNCHANGED <<emitted, setting, secrets, admin, wish>>
      BY <1>1 DEF LinearInv, issueVars
    <2> QED
      BY <1>1, <1>3, <2>1 DEF ConnectionTyped, Disconnecting
  <1>6. StoreTyped'
    <2>1. StoreTyped /\ UNCHANGED <<now, issue, stored, accepted>>
      BY <1>1 DEF LinearInv, issueVars
    <2>2. reordered' \subseteq Issue
      BY <1>1, <1>2, <2>1 DEF StoreTyped
    <2> QED
      BY <2>1, <2>2 DEF StoreTyped
  <1>7. InOrder'
    <2>1. InOrder /\ accepted[e.k] \in Nat /\ UNCHANGED <<stored, accepted>> /\ reordered \subseteq reordered'
      BY <1>1, <1>2 DEF LinearInv, StoreTyped
    <2>2. e.k \notin reordered' => accepted[e.k] <= e.ver /\ \A h \in hooks : h.e.k = e.k => h.e.ver = e.ver
      BY <1>1, <1>2, <2>1
    <2>3. \A h \in hooks' : h \in hooks \/ h.e = e
      BY <1>1, <1>3
    <2>4. RowIsNewest'
      BY <2>1 DEF InOrder, RowIsNewest
    <2>5. \A h \in hooks' : h.e.k \notin reordered' => accepted'[h.e.k] <= h.e.ver
      BY <2>1, <2>2, <2>3 DEF InOrder
    <2>6. \A g, h \in hooks' : g.e.k = h.e.k /\ g.e.k \notin reordered' => g.e.ver = h.e.ver
      <3> SUFFICES ASSUME NEW g \in hooks', NEW h \in hooks', g.e.k = h.e.k, g.e.k \notin reordered'
                   PROVE  g.e.ver = h.e.ver
        OBVIOUS
      <3> QED
        BY <2>1, <2>2, <2>3 DEF InOrder
    <2> QED
      BY <2>4, <2>5, <2>6 DEF InOrder
  <1> QED
    BY <1>4, <1>5, <1>6, <1>7 DEF LinearInv

LEMMA Storing ==
    ASSUME LinearInv, NEW h \in hooks, StoreSnapshot(h)
    PROVE  LinearInv'
  <1> DEFINE row == [ver |-> h.e.ver, at |-> h.e.at, received |-> now]
             k == h.e.k
  <1>1. /\ UNCHANGED <<now, issueVars, setting, secrets, admin, wish, reordered, reportVars>>
        /\ stored' = [stored EXCEPT ![k] = row]
        /\ accepted' = [accepted EXCEPT ![k] = Max({accepted[k], h.e.ver})]
        /\ Respond(h) /\ hooks' = hooks \ {h}
    BY DEF StoreSnapshot, Accept, Respond
  <1>2. /\ h.e \in emitted /\ h.e \in Snapshot /\ k \in Issue /\ h.e.ver \in Nat /\ h.e.at \in Nat /\ now \in Nat
        /\ h.e.ver <= issue[k].ver /\ h.e.at <= now
    BY DEF LinearInv, IssuesTyped, ConnectionTyped, Snapshot
  <1>3. /\ row \in [ver : Nat, at : Nat, received : Nat] /\ row.ver = h.e.ver /\ row.at = h.e.at
    BY <1>2
  <1>4. /\ stored \in [Issue -> [ver : Nat, at : Nat, received : Nat]] /\ accepted \in [Issue -> Nat]
    BY DEF LinearInv, StoreTyped
  <1> HIDE DEF row, k
  <1>5. Max({accepted[k], h.e.ver}) \in Nat /\ (accepted[k] <= h.e.ver => Max({accepted[k], h.e.ver}) = h.e.ver)
    <2>1. accepted[k] \in Nat
      BY <1>2, <1>4
    <2> QED
      BY <1>2, <2>1, Greater
  <1>6. IssuesTyped' /\ ReportsTyped' /\ Begun'
    BY <1>1, LinearStays
  <1>7. ConnectionTyped' /\ Disconnecting'
    <2>1. ConnectionTyped /\ Disconnecting /\ UNCHANGED <<emitted, setting, secrets, admin, wish>>
      BY <1>1 DEF LinearInv, issueVars
    <2> QED
      BY <1>1, <2>1 DEF ConnectionTyped, Disconnecting
  <1>8. /\ \A j \in Issue : stored'[j] = IF j = k THEN row ELSE stored[j]
        /\ \A j \in Issue : accepted'[j] = IF j = k THEN Max({accepted[k], h.e.ver}) ELSE accepted[j]
    BY <1>1, <1>4
  <1>9. StoreTyped'
    <2>1. StoreTyped /\ UNCHANGED <<now, issue, reordered>>
      BY <1>1 DEF LinearInv, issueVars
    <2>2. /\ stored' \in [Issue -> [ver : Nat, at : Nat, received : Nat]] /\ accepted' \in [Issue -> Nat]
      BY <1>1, <1>3, <1>4, <1>5
    <2> QED
      BY <1>2, <1>3, <1>8, <2>1, <2>2 DEF StoreTyped, k
  <1>10. InOrder'
    <2>1. InOrder /\ UNCHANGED reordered /\ hooks' \subseteq hooks
      BY <1>1 DEF LinearInv
    <2>2. \A g \in hooks : g.e.k \in Issue
      BY DEF LinearInv, ConnectionTyped, Hook, Snapshot
    <2>3. k \notin reordered => stored'[k].ver = h.e.ver /\ accepted'[k] = h.e.ver
      BY <1>2, <1>3, <1>5, <1>8, <2>1 DEF InOrder, k
    <2>4. RowIsNewest'
      BY <1>8, <2>1, <2>3 DEF InOrder, RowIsNewest
    <2>5. \A g \in hooks' : g.e.k \notin reordered' => accepted'[g.e.k] <= g.e.ver
      <3> SUFFICES ASSUME NEW g \in hooks', g.e.k \notin reordered PROVE accepted'[g.e.k] <= g.e.ver
        BY <2>1
      <3>1. CASE g.e.k = k
        <4>1. g.e.ver = h.e.ver
          BY <2>1, <3>1 DEF InOrder, k
        <4> QED
          BY <1>2, <2>3, <3>1, <4>1
      <3>2. CASE g.e.k # k
        BY <1>8, <2>1, <2>2, <3>2 DEF InOrder
      <3> QED
        BY <3>1, <3>2
    <2> QED
      BY <2>1, <2>4, <2>5 DEF InOrder
  <1> QED
    BY <1>6, <1>7, <1>9, <1>10 DEF LinearInv

LEMMA Pruning == ASSUME LinearInv, Prune PROVE LinearInv'
  <1>1. /\ UNCHANGED <<now, issueVars, connectionVars, accepted, reordered, reportVars, hooks>>
        /\ stored' = [k \in Issue |-> IF Expired(k) THEN NoRow ELSE stored[k]]
    BY DEF Prune, connectionVars
  <1>2. IssuesTyped' /\ ConnectionTyped' /\ Disconnecting' /\ ReportsTyped' /\ Begun'
    BY <1>1, LinearStays
  <1>3. StoreTyped /\ IssuesTyped /\ InOrder /\ UNCHANGED <<now, issue>>
    BY <1>1 DEF LinearInv, issueVars
  <1>4. NoRow \in [ver : Nat, at : Nat, received : Nat] /\ NoRow.ver = 0 /\ NoRow.at = 0
    BY DEF NoRow
  <1>5. \A k \in Issue : stored'[k] = NoRow \/ stored'[k] = stored[k]
    BY <1>1
  <1>6. StoreTyped'
    <2>1. stored' \in [Issue -> [ver : Nat, at : Nat, received : Nat]]
      BY <1>1, <1>3, <1>4 DEF StoreTyped
    <2>2. \A k \in Issue : stored'[k].ver <= issue[k].ver /\ stored'[k].at <= now
      BY <1>3, <1>4, <1>5 DEF StoreTyped, IssuesTyped
    <2> QED
      BY <1>1, <1>3, <2>1, <2>2 DEF StoreTyped
  <1>7. InOrder'
    BY <1>1, <1>3, <1>4, <1>5 DEF InOrder, RowIsNewest
  <1> QED
    BY <1>2, <1>6, <1>7 DEF LinearInv

LEMMA ConnectionSteps ==
    ASSUME LinearInv,
           (\E s \in Secret : AddSecret(s) \/ RemoveSecret(s)) \/ EnableLinear \/ RemoveAllSecrets \/ DisableLinear
    PROVE  LinearInv'
  <1>1. UNCHANGED <<now, issueVars, hooks, storeVars, reportVars>>
    BY DEF AddSecret, RemoveSecret, EnableLinear, RemoveAllSecrets, DisableLinear
  <1>2. IssuesTyped' /\ StoreTyped' /\ ReportsTyped' /\ Begun' /\ InOrder'
    BY <1>1, LinearStays
  <1>3. ConnectionTyped /\ Disconnecting /\ UNCHANGED <<emitted, hooks>>
    BY <1>1 DEF LinearInv, issueVars
  <1>4. ConnectionTyped' /\ Disconnecting'
    <2>1. CASE \E s \in Secret : AddSecret(s)
      BY <1>3, <2>1 DEF AddSecret, Begin, ConnectionTyped, Disconnecting
    <2>2. CASE \E s \in Secret : RemoveSecret(s)
      BY <1>3, <2>2 DEF RemoveSecret, ConnectionTyped, Disconnecting
    <2>3. CASE EnableLinear
      BY <1>3, <2>3 DEF EnableLinear, End, ConnectionTyped, Disconnecting
    <2>4. CASE RemoveAllSecrets
      BY <1>3, <2>4 DEF RemoveAllSecrets, Begin, ConnectionTyped, Disconnecting
    <2>5. CASE DisableLinear
      BY <1>3, <2>5 DEF DisableLinear, End, ConnectionTyped, Disconnecting
    <2> QED
      BY <2>1, <2>2, <2>3, <2>4, <2>5
  <1> QED
    BY <1>2, <1>4 DEF LinearInv

(* When a member last reported before a moment: 0, or the time of one of    *)
(* the reports completed before it, and none was later.                     *)
LEMMA LastReport ==
    ASSUME ReportsTyped, NEW before \in Nat
    PROVE  /\ LastReportDateBefore(before) \in Nat
           /\ \/ LastReportDateBefore(before) = 0
              \/ \E j \in DOMAIN reports : /\ reports[j].status = "completed"
                                           /\ reports[j].at = LastReportDateBefore(before)
                                           /\ reports[j].at < before
           /\ \A j \in DOMAIN reports : reports[j].status = "completed" /\ reports[j].at < before =>
                 reports[j].at <= LastReportDateBefore(before)
  <1> DEFINE Js == {j \in DOMAIN reports : reports[j].status = "completed" /\ reports[j].at < before}
             S == {0} \cup {reports[j].at : j \in Js}
  <1>1. \A j \in DOMAIN reports : reports[j] \in Report
    BY ElementOfSeq DEF ReportsTyped
  <1>2. S \in SUBSET Nat /\ S # {} /\ \A s \in S : s <= before
    BY <1>1 DEF Report
  <1>3. LastReportDateBefore(before) = Max(S)
    BY DEF LastReportDateBefore
  <1>4. \A s \in S : s = 0 \/ \E j \in DOMAIN reports : /\ reports[j].status = "completed" /\ reports[j].at = s
                                                        /\ reports[j].at < before
    OBVIOUS
  <1>5. \A j \in DOMAIN reports : reports[j].status = "completed" /\ reports[j].at < before => reports[j].at \in S
    OBVIOUS
  <1> HIDE DEF S
  <1>6. Max(S) \in S /\ \A s \in S : s <= Max(S)
    BY <1>2, MaxOf
  <1> QED
    BY <1>2, <1>3, <1>4, <1>5, <1>6

LEMMA ReportChanges ==
    ASSUME LinearInv, NEW n \in DOMAIN reports, NEW r \in Report,
           reports' = [reports EXCEPT ![n] = r],
           r.made = reports[n].made, r.at \in {Null} \cup (r.made)..now,
           posting' \in {posting, [n |-> n, to |-> reports[n].at]},
           UNCHANGED <<now, issueVars, connectionVars, storeVars, missed, windows>>
    PROVE  LinearInv'
  <1>1. IssuesTyped' /\ ConnectionTyped' /\ Disconnecting' /\ StoreTyped' /\ InOrder'
    <2>1. UNCHANGED hooks
      BY DEF connectionVars
    <2> QED
      BY <2>1, LinearStays
  <1>2. ReportsTyped /\ Begun
    BY DEF LinearInv
  <1>3. /\ reports \in Seq(Report) /\ n \in 1..Len(reports) /\ DOMAIN reports = 1..Len(reports)
        /\ Len(reports) \in Nat
    BY <1>2, LenProperties DEF ReportsTyped
  <1>4. reports[n] \in Report
    BY <1>3, ElementOfSeq
  <1>5. /\ reports' \in Seq(Report) /\ Len(reports') = Len(reports) /\ DOMAIN reports' = DOMAIN reports
        /\ \A j \in DOMAIN reports : reports'[j] = IF j = n THEN r ELSE reports[j]
    BY <1>3, ExceptSeq
  <1>6. Begun'
    BY <1>2, <1>5 DEF Begun
  <1>7. posting' \in [n : Nat, to : Nat] /\ posting'.n \in 0..Len(reports') /\ (posting'.n = 0 => posting' = NoPosting)
    <2>1. CASE posting' = posting
      BY <1>2, <1>5, <2>1 DEF ReportsTyped
    <2>2. CASE posting' = [n |-> n, to |-> reports[n].at]
      BY <1>3, <1>4, <1>5, <2>2 DEF Report
    <2> QED
      BY <2>1, <2>2
  <1>8. \A j \in DOMAIN reports' : reports'[j].at \in {Null} \cup (reports'[j].made)..now
    BY <1>2, <1>5 DEF ReportsTyped
  <1>9. ReportsTyped'
    BY <1>2, <1>5, <1>7, <1>8 DEF ReportsTyped
  <1> QED
    BY <1>1, <1>6, <1>9 DEF LinearInv

LEMMA ReportSteps ==
    ASSUME LinearInv, NEW n \in DOMAIN reports,
           TimeOutReport(n) \/ RestartReport(n) \/ CompleteReport(n)
    PROVE  LinearInv'
  <1>1. /\ reports[n] \in Report /\ now \in Nat /\ reports[n].made <= now
        /\ reports[n].at \in {Null} \cup (reports[n].made)..now
    BY ElementOfSeq DEF LinearInv, ReportsTyped, IssuesTyped, Begun
  <1>2. CASE TimeOutReport(n)
    <2> DEFINE r == [reports[n] EXCEPT !.status = "timed_out"]
    <2>1. r \in Report /\ r.made = reports[n].made /\ r.at = reports[n].at
      BY <1>1 DEF Report
    <2>2. /\ reports' = [reports EXCEPT ![n] = r] /\ posting' = posting
          /\ UNCHANGED <<now, issueVars, connectionVars, storeVars, missed, windows>>
      BY <1>2 DEF TimeOutReport
    <2> HIDE DEF r
    <2> QED
      BY <1>1, <2>1, <2>2, ReportChanges
  <1>3. CASE RestartReport(n)
    <2> DEFINE r == [reports[n] EXCEPT !.status = "in_progress", !.at = Null]
    <2>1. r \in Report /\ r.made = reports[n].made /\ r.at = Null
      BY <1>1 DEF Report, Null
    <2>2. /\ reports' = [reports EXCEPT ![n] = r] /\ posting' = posting
          /\ UNCHANGED <<now, issueVars, connectionVars, storeVars, missed, windows>>
      BY <1>3 DEF RestartReport
    <2> HIDE DEF r
    <2> QED
      BY <2>1, <2>2, ReportChanges
  <1>4. CASE CompleteReport(n)
    <2> DEFINE r == [reports[n] EXCEPT !.status = "completed", !.at = now]
    <2>1. r \in Report /\ r.made = reports[n].made /\ r.at = now /\ r.made \in Nat
      BY <1>1 DEF Report
    <2>2. /\ reports' = [reports EXCEPT ![n] = r] /\ posting' = [n |-> n, to |-> reports[n].at]
          /\ UNCHANGED <<now, issueVars, connectionVars, storeVars, missed, windows>>
      BY <1>4 DEF CompleteReport
    <2> HIDE DEF r
    <2>3. r.at \in {Null} \cup (r.made)..now
      BY <1>1, <2>1
    <2> QED
      BY <2>1, <2>2, <2>3, ReportChanges
  <1> QED
    BY <1>2, <1>3, <1>4

LEMMA Opening == ASSUME LinearInv, OpenReport PROVE LinearInv'
  <1> DEFINE r == [made |-> now, at |-> now, status |-> "in_progress"]
  <1>1. /\ UNCHANGED <<now, issueVars, connectionVars, storeVars, posting, missed, windows, hooks>>
        /\ reports' = Append(reports, r)
    BY DEF OpenReport, connectionVars
  <1>2. IssuesTyped' /\ ConnectionTyped' /\ Disconnecting' /\ StoreTyped' /\ InOrder'
    BY <1>1, LinearStays
  <1>3. ReportsTyped /\ Begun /\ now \in Nat
    BY DEF LinearInv, IssuesTyped
  <1>4. r \in Report /\ r.made = now /\ r.at = now
    BY <1>3 DEF Report
  <1> HIDE DEF r
  <1>5. reports \in Seq(Report) /\ Len(reports) \in Nat /\ DOMAIN reports = 1..Len(reports)
    BY <1>3, LenProperties DEF ReportsTyped
  <1>6. /\ reports' \in Seq(Report) /\ Len(reports') = Len(reports) + 1 /\ DOMAIN reports' = 1..Len(reports')
        /\ \A j \in 1..Len(reports) : reports'[j] = reports[j]
        /\ reports'[Len(reports) + 1] = r
    BY <1>1, <1>4, <1>5, AppendProperties, LenProperties
  <1>7. \A j \in DOMAIN reports' : (j \in DOMAIN reports /\ reports'[j] = reports[j]) \/ reports'[j] = r
    BY <1>5, <1>6
  <1>8. Begun'
    BY <1>1, <1>3, <1>4, <1>7 DEF Begun
  <1>9. \A j \in DOMAIN reports' : reports'[j].at \in {Null} \cup (reports'[j].made)..now
    BY <1>3, <1>4, <1>7 DEF ReportsTyped
  <1>10. ReportsTyped'
    <2>1. posting.n \in 0..Len(reports') /\ \A w \in windows : w.n \in 1..Len(reports')
      BY <1>3, <1>5, <1>6 DEF ReportsTyped
    <2> QED
      BY <1>1, <1>3, <1>6, <1>9, <2>1 DEF ReportsTyped
  <1> QED
    BY <1>2, <1>8, <1>10 DEF LinearInv

LEMMA Posting == ASSUME LinearInv, PostToChannel \/ PostFails PROVE LinearInv'
  <1>1. /\ UNCHANGED <<now, issueVars, connectionVars, storeVars, reports, hooks>>
        /\ posting # NoPosting /\ posting' = NoPosting /\ windows' = windows \cup {Window}
        /\ missed' = missed \/ missed' = missed \cup {stored[k].at : k \in ClosedIn(0, Window.from)}
    BY DEF PostToChannel, PostFails, connectionVars
  <1>2. IssuesTyped' /\ ConnectionTyped' /\ Disconnecting' /\ StoreTyped' /\ InOrder'
    BY <1>1, LinearStays
  <1>3. ReportsTyped /\ StoreTyped /\ Begun /\ now \in Nat
    BY DEF LinearInv, IssuesTyped
  <1>4. posting.n \in 1..Len(reports) /\ posting.to \in Nat /\ Len(reports) \in Nat
    BY <1>1, <1>3, LenProperties DEF ReportsTyped
  <1>5. reports[posting.n] \in Report /\ reports[posting.n].made \in Nat
    <2>1. reports \in Seq(Report)
      BY <1>3 DEF ReportsTyped
    <2>2. reports[posting.n] \in Report
      BY <1>4, <2>1, ElementOfSeq
    <2> QED
      BY <2>2 DEF Report
  <1>6. PICK to \in Nat : /\ Window = [from |-> WindowStart(reports[posting.n].made, to), to |-> to, n |-> posting.n]
    BY <1>3, <1>4 DEF Window
  <1>7. WindowStart(reports[posting.n].made, to) \in Nat
    BY <1>3, <1>5, LastReport, TimesAssumption DEF WindowStart, Minus
  <1>8. Window.from \in Nat /\ Window.to \in Nat /\ Window.n \in 1..Len(reports)
    BY <1>4, <1>6, <1>7
  <1>9. missed' \subseteq Nat
    <2>1. \A k \in ClosedIn(0, Window.from) : stored[k].at \in Nat
      BY <1>3 DEF StoreTyped, ClosedIn
    <2>2. missed \subseteq Nat
      BY <1>3 DEF ReportsTyped
    <2> QED
      BY <1>1, <2>1, <2>2
  <1>10. NoPosting \in [n : Nat, to : Nat] /\ NoPosting.n \in 0..Len(reports)
    BY <1>4 DEF NoPosting
  <1>11. ReportsTyped'
    BY <1>1, <1>3, <1>8, <1>9, <1>10 DEF ReportsTyped
  <1>12. Begun'
    BY <1>1, <1>3 DEF Begun
  <1> QED
    BY <1>2, <1>11, <1>12 DEF LinearInv

LEMMA LinearKept == LinearInv /\ LinearNext => LinearInv'
  <1> SUFFICES ASSUME LinearInv, LinearNext PROVE LinearInv'
    OBVIOUS
  <1>1. ASSUME NEW h \in hooks, VerifySignature(h) \/ RecordEvent(h) \/ HookFails(h) PROVE LinearInv'
    <2>1. /\ Respond(h) \/ \E pc \in {"verify", "record", "store"} : Go(h, pc)
          /\ setting' \in {setting, Touched(setting)}
          /\ UNCHANGED <<now, issueVars, secrets, admin, wish, storeVars, reportVars>>
      BY <1>1 DEF VerifySignature, RecordEvent, HookFails
    <2> QED
      BY <2>1, HookStays
  <1>2. ASSUME NEW e \in emitted, NEW s \in Secret, Deliver(e, s) PROVE LinearInv'
    BY <1>2, Delivering
  <1>3. ASSUME NEW h \in hooks, StoreSnapshot(h) PROVE LinearInv'
    BY <1>3, Storing
  <1>4. ASSUME NEW k \in Issue, ChangeIssue(k) PROVE LinearInv'
    BY <1>4, IssueChanging
  <1>5. ASSUME NEW n \in DOMAIN reports, TimeOutReport(n) \/ RestartReport(n) \/ CompleteReport(n) PROVE LinearInv'
    BY <1>5, ReportSteps
  <1> QED
    BY <1>1, <1>2, <1>3, <1>4, <1>5, Ticking, Pruning, ConnectionSteps, Opening, Posting DEF LinearNext

LEMMA LinearAside ==
    ASSUME LinearInv, UNCHANGED linearVars
    PROVE  LinearInv'
  <1>1. UNCHANGED <<now, issueVars, connectionVars, storeVars, reportVars, hooks>>
    BY DEF linearVars, connectionVars
  <1> QED
    BY <1>1, LinearStays DEF LinearInv

-----------------------------------------------------------------------------
(* The closings that posts leave out.                                       *)

(* A post or a page lists what was closed at that time, or it lies before   *)
(* what a first report looks back on.                                       *)
Listing(w, at) ==
    \/ w.from <= at /\ at < w.to
    \/ CardWindow(w.n).from <= at /\ at < CardWindow(w.n).to
    \/ at < Max({w.from, CardWindow(w.n).from}) /\ LastReportDateBefore(reports[w.n].made) = 0

IsCompleted(n) == reports[n].status = "completed"
IsPosted(n)    == \E w \in windows : w.n = n

(* Reports are posted one after the other, each when it is completed, and   *)
(* what a post left out was listed before.                                  *)
Retold ==
    /\ now > 0
    /\ \A n \in DOMAIN reports : IsCompleted(n) => reports[n].at # Null /\ (posting.n = n \/ IsPosted(n))
    /\ posting.n # 0 => IsCompleted(posting.n)
    /\ \A w \in windows : IsCompleted(w.n)
    /\ \A at \in missed : \E w \in windows : Listing(w, at)

(* A row with a closing is that of a snapshot, which has a version.         *)
Versioned ==
    /\ \A e \in emitted : e.ver # 0
    /\ \A k \in Issue : stored[k].at # 0 => stored[k].ver # 0

(* Closings before a report that has been posted are listed: if its own     *)
(* page does not, it lies before the report of the time before, and so on   *)
(* down to the first.                                                       *)
LEMMA EarlierClosings ==
    ASSUME LinearInv, Retold, NEW m \in Nat,
           \A n \in DOMAIN reports : IsCompleted(n) /\ reports[n].at < m => IsPosted(n)
    PROVE  \A n \in DOMAIN reports : IsCompleted(n) /\ reports[n].at < m =>
              \A at \in Nat : at < reports[n].at => \E w \in windows : Listing(w, at)
  <1> DEFINE Uncovered(t) == \E n \in DOMAIN reports, at \in Nat :
                                 /\ IsCompleted(n) /\ reports[n].at = t /\ t < m /\ at < t
                                 /\ ~\E w \in windows : Listing(w, at)
             Bad == {t \in Nat : Uncovered(t)}
  <1>1. \A n \in DOMAIN reports : reports[n] \in Report /\ reports[n].at \in Nat /\ reports[n].made \in Nat
    <2>1. \A n \in DOMAIN reports : reports[n] \in Report
      BY ElementOfSeq DEF LinearInv, ReportsTyped
    <2> QED
      BY <2>1 DEF Report
  <1>2. CASE Bad = {}
    BY <1>1, <1>2
  <1>3. CASE Bad # {}
    <2>1. PICK t \in Bad : \A u \in Bad : t <= u
      <3>1. Bad \in SUBSET Nat
        OBVIOUS
      <3> HIDE DEF Bad
      <3> QED
        BY <1>3, <3>1, Least
    <2>2. PICK n \in DOMAIN reports, at \in Nat :
             /\ IsCompleted(n) /\ reports[n].at = t /\ t < m /\ at < t
             /\ ~\E w \in windows : Listing(w, at)
      BY <2>1
    <2>3. reports[n].made \in Nat /\ reports[n].at \in Nat /\ reports[n].made <= reports[n].at
      <3>1. reports[n].at # Null /\ reports[n].at \in {Null} \cup (reports[n].made)..now /\ now \in Nat
        BY <2>2 DEF LinearInv, IssuesTyped, ReportsTyped, Retold
      <3> QED
        BY <1>1, <3>1
    <2>4. PICK w \in windows : w.n = n
      BY <2>2 DEF IsPosted
    <2> DEFINE last == LastReportDateBefore(reports[n].made)
    <2>5. /\ last \in Nat
          /\ \/ last = 0
             \/ \E j \in DOMAIN reports : IsCompleted(j) /\ reports[j].at = last /\ last < reports[n].made
      BY <2>3, LastReport DEF LinearInv, IsCompleted
    <2>6. CardWindow(n).to = t /\ CardWindow(n).from = IF last # 0 THEN last ELSE Minus(t, Day)
      BY <2>2 DEF CardWindow, WindowStart
    <2>7. CardWindow(n).from \in Nat
      BY <2>3, <2>2, <2>5, <2>6, TimesAssumption DEF Minus
    <2> HIDE DEF last
    <2>8. at < CardWindow(n).from
      BY <2>2, <2>4, <2>6, <2>7 DEF Listing
    <2>9. last # 0
      <3>1. w.from \in Nat
        BY DEF LinearInv, ReportsTyped
      <3>2. CardWindow(n).from <= Max({w.from, CardWindow(n).from}) /\ Max({w.from, CardWindow(n).from}) \in Nat
        BY <2>7, <3>1, Greater
      <3>3. at < Max({w.from, CardWindow(n).from})
        BY <2>7, <2>8, <3>2
      <3>4. ~Listing(w, at) /\ w.n = n
        BY <2>2, <2>4
      <3> QED
        BY <3>3, <3>4 DEF Listing, last
    <2>10. PICK j \in DOMAIN reports : IsCompleted(j) /\ reports[j].at = last /\ last < reports[n].made
      BY <2>5, <2>9
    <2>11. last < t /\ last < m /\ at < last /\ ~(t <= last)
      BY <2>2, <2>3, <2>5, <2>6, <2>8, <2>9, <2>10
    <2>12. last \in Bad
      BY <2>2, <2>5, <2>10, <2>11
    <2> QED
      BY <2>1, <2>11, <2>12
  <1> QED
    BY <1>2, <1>3

(* Reports that are completed stay as they are, and so does what is listed  *)
(* under them.                                                              *)
LEMMA ListingStays ==
    ASSUME LinearInv, Retold, NEW w \in windows, NEW at \in Nat, Listing(w, at),
           reports'[w.n] = reports[w.n],
           LastReportDateBefore(reports[w.n].made)' = LastReportDateBefore(reports[w.n].made)
    PROVE  Listing(w, at)'
  <1>1. CardWindow(w.n)' = CardWindow(w.n)
    BY DEF CardWindow, WindowStart
  <1> QED
    BY <1>1 DEF Listing

LEMMA SameLastReport ==
    ASSUME now \in Nat, NEW before \in Nat, before <= now,
           \A j \in DOMAIN reports : j \in DOMAIN reports' /\ (IsCompleted(j) => reports'[j] = reports[j]),
           \A j \in DOMAIN reports' : IsCompleted(j)' =>
              (j \in DOMAIN reports /\ IsCompleted(j)) \/ reports'[j].at = now
    PROVE  LastReportDateBefore(before)' = LastReportDateBefore(before)
  <1> DEFINE Js == {j \in DOMAIN reports : reports[j].status = "completed" /\ reports[j].at < before}
             Ks == {j \in DOMAIN reports' : reports'[j].status = "completed" /\ reports'[j].at < before}
  <1>1. \A j \in Ks : j \in Js /\ reports'[j].at = reports[j].at
    <2> SUFFICES ASSUME NEW j \in Ks PROVE j \in Js /\ reports'[j].at = reports[j].at
      OBVIOUS
    <2>1. reports'[j].at # now
      OBVIOUS
    <2>2. j \in DOMAIN reports /\ IsCompleted(j)
      BY <2>1 DEF IsCompleted
    <2> QED
      BY <2>2 DEF IsCompleted
  <1>2. \A j \in Js : j \in Ks /\ reports'[j].at = reports[j].at
    BY DEF IsCompleted
  <1> HIDE DEF Js, Ks
  <1>3. {reports'[j].at : j \in Ks} = {reports[j].at : j \in Js}
    BY <1>1, <1>2
  <1> QED
    BY <1>3 DEF LastReportDateBefore, Js, Ks

(* What happens elsewhere, or to the clock.                                 *)
LEMMA RetoldElsewhere ==
    ASSUME LinearInv, Retold, UNCHANGED reportVars, now' \in {now, now + 1}
    PROVE  Retold'
  <1>1. UNCHANGED <<reports, posting, missed, windows>> /\ now \in Nat
    BY DEF reportVars, LinearInv, IssuesTyped
  <1>2. \A at \in missed : \E w \in windows' : Listing(w, at)'
    <2> SUFFICES ASSUME NEW at \in missed PROVE \E w \in windows' : Listing(w, at)'
      OBVIOUS
    <2>1. PICK w \in windows : Listing(w, at)
      BY DEF Retold
    <2>2. LastReportDateBefore(reports[w.n].made)' = LastReportDateBefore(reports[w.n].made)
      BY <1>1 DEF LastReportDateBefore
    <2>3. at \in Nat
      BY DEF LinearInv, ReportsTyped
    <2> QED
      BY <1>1, <2>1, <2>2, <2>3, ListingStays
  <1> QED
    BY <1>1, <1>2 DEF Retold, IsCompleted, IsPosted

(* A report is opened, times out, starts again or is completed; those that  *)
(* are completed stay.                                                      *)
LEMMA RetoldChanges ==
    ASSUME LinearInv, Retold, UNCHANGED <<now, missed, windows>>,
           \A j \in DOMAIN reports : j \in DOMAIN reports' /\ (IsCompleted(j) => reports'[j] = reports[j]),
           \A j \in DOMAIN reports' :
              IsCompleted(j)' => \/ j \in DOMAIN reports /\ IsCompleted(j)
                                 \/ reports'[j].at = now /\ posting'.n = j,
           \/ UNCHANGED posting
           \/ posting = NoPosting /\ IsCompleted(posting.n)'
    PROVE  Retold'
  <1>1. now \in Nat /\ now > 0 /\ ReportsTyped /\ Begun
    BY DEF LinearInv, IssuesTyped, Retold
  <1>2. NoPosting.n = 0 /\ \A j \in DOMAIN reports : j # 0
    BY <1>1 DEF NoPosting, ReportsTyped
  <1>3. \A at \in missed : \E w \in windows : Listing(w, at)'
    <2> SUFFICES ASSUME NEW at \in missed PROVE \E w \in windows : Listing(w, at)'
      OBVIOUS
    <2>1. PICK w \in windows : Listing(w, at)
      BY DEF Retold
    <2>2. w.n \in DOMAIN reports /\ IsCompleted(w.n) /\ reports[w.n] \in Report
      BY <1>1, ElementOfSeq DEF Retold, ReportsTyped
    <2>3. reports[w.n].made \in Nat /\ reports[w.n].made <= now /\ reports'[w.n] = reports[w.n]
      BY <1>1, <2>2 DEF Report, Begun
    <2>4. \A j \in DOMAIN reports' : IsCompleted(j)' =>
             (j \in DOMAIN reports /\ IsCompleted(j)) \/ reports'[j].at = now
      OBVIOUS
    <2> DEFINE made == reports[w.n].made
    <2>5. LastReportDateBefore(made)' = LastReportDateBefore(made)
      <3>1. made' = made
        BY <2>3
      <3> HIDE DEF made
      <3>2. \A b \in Nat : b <= now => LastReportDateBefore(b)' = LastReportDateBefore(b)
        BY <1>1, <2>4, SameLastReport
      <3> QED
        BY <2>3, <3>1, <3>2 DEF made
    <2> QED
      BY <2>1, <2>3, <2>5, ListingStays DEF LinearInv, ReportsTyped
  <1>4. \A n \in DOMAIN reports' : IsCompleted(n)' =>
           reports'[n].at # Null /\ (posting'.n = n \/ IsPosted(n)')
    <2> SUFFICES ASSUME NEW n \in DOMAIN reports', IsCompleted(n)'
                 PROVE  reports'[n].at # Null /\ (posting'.n = n \/ IsPosted(n)')
      OBVIOUS
    <2>1. CASE n \in DOMAIN reports /\ IsCompleted(n)
      <3>1. reports'[n].at # Null /\ (posting.n = n \/ IsPosted(n))
        BY <2>1 DEF Retold
      <3>2. IsPosted(n) => IsPosted(n)'
        BY DEF IsPosted
      <3> QED
        BY <1>2, <2>1, <3>1, <3>2
    <2>2. CASE reports'[n].at = now /\ posting'.n = n
      BY <1>1, <2>2 DEF Null
    <2> QED
      BY <2>1, <2>2
  <1>5. posting'.n # 0 => IsCompleted(posting.n)'
    <2>1. posting.n # 0 => posting.n \in DOMAIN reports /\ IsCompleted(posting.n)
      BY <1>1, LenProperties DEF Retold, ReportsTyped
    <2>2. CASE UNCHANGED posting
      BY <2>1, <2>2 DEF IsCompleted
    <2>3. CASE IsCompleted(posting.n)'
      BY <2>3
    <2> QED
      BY <2>2, <2>3
  <1>6. \A w \in windows : IsCompleted(w.n)'
    <2>1. \A w \in windows : w.n \in DOMAIN reports /\ IsCompleted(w.n)
      BY <1>1 DEF Retold, ReportsTyped
    <2> QED
      BY <2>1 DEF IsCompleted
  <1>7. now' = now /\ windows' = windows /\ missed' = missed
    OBVIOUS
  <1> QED
    BY <1>1, <1>3, <1>4, <1>5, <1>6, <1>7 DEF Retold

LEMMA RetoldReports ==
    ASSUME LinearInv, Retold,
           OpenReport \/ \E n \in DOMAIN reports : TimeOutReport(n) \/ RestartReport(n) \/ CompleteReport(n)
    PROVE  Retold'
  <1>1. reports \in Seq(Report) /\ DOMAIN reports = 1..Len(reports) /\ Len(reports) \in Nat
    BY LenProperties DEF LinearInv, ReportsTyped
  <1>2. CASE OpenReport
    <2> DEFINE r == [made |-> now, at |-> now, status |-> "in_progress"]
    <2>1. UNCHANGED <<now, posting, missed, windows>> /\ reports' = Append(reports, r)
      BY <1>2 DEF OpenReport, reportVars
    <2>2. r \in Report /\ r.status # "completed"
      BY DEF Report, LinearInv, IssuesTyped
    <2> HIDE DEF r
    <2>3. /\ DOMAIN reports' = 1..(Len(reports) + 1) /\ reports'[Len(reports) + 1] = r
          /\ \A j \in DOMAIN reports : reports'[j] = reports[j]
      BY <1>1, <2>1, <2>2, AppendProperties, LenProperties
    <2>4. \A j \in DOMAIN reports : j \in DOMAIN reports'
      BY <1>1, <2>3
    <2>5. \A j \in DOMAIN reports' : (j \in DOMAIN reports /\ reports'[j] = reports[j]) \/ reports'[j] = r
      BY <1>1, <2>3
    <2>6. \A j \in DOMAIN reports' : IsCompleted(j)' => j \in DOMAIN reports /\ IsCompleted(j)
      BY <2>2, <2>5 DEF IsCompleted
    <2> QED
      BY <2>1, <2>3, <2>4, <2>6, RetoldChanges
  <1>3. ASSUME NEW n \in DOMAIN reports, TimeOutReport(n) \/ RestartReport(n) PROVE Retold'
    <2>1. UNCHANGED <<now, posting, missed, windows>> /\ ~IsCompleted(n)
      BY <1>3 DEF TimeOutReport, RestartReport, IsCompleted
    <2>2. PICK r \in [made : Nat, at : Nat, status : {"in_progress", "timed_out"}] :
             reports' = [reports EXCEPT ![n] = r]
      <3>1. reports[n] \in Report
        BY <1>1, ElementOfSeq
      <3> DEFINE timed == [reports[n] EXCEPT !.status = "timed_out"]
                 again == [reports[n] EXCEPT !.status = "in_progress", !.at = Null]
      <3>2. /\ timed \in [made : Nat, at : Nat, status : {"in_progress", "timed_out"}]
            /\ again \in [made : Nat, at : Nat, status : {"in_progress", "timed_out"}]
        BY <3>1 DEF Report, Null
      <3>3. reports' = [reports EXCEPT ![n] = timed] \/ reports' = [reports EXCEPT ![n] = again]
        BY <1>3 DEF TimeOutReport, RestartReport
      <3> HIDE DEF timed, again
      <3> QED
        BY <3>2, <3>3
    <2>3. DOMAIN reports' = DOMAIN reports /\ \A j \in DOMAIN reports : reports'[j] = IF j = n THEN r ELSE reports[j]
      BY <2>2
    <2>4. r.status # "completed"
      OBVIOUS
    <2>5. \A j \in DOMAIN reports : j \in DOMAIN reports' /\ (IsCompleted(j) => reports'[j] = reports[j])
      BY <2>1, <2>3
    <2>6. \A j \in DOMAIN reports' : IsCompleted(j)' => j \in DOMAIN reports /\ IsCompleted(j)
      BY <2>3, <2>4 DEF IsCompleted
    <2> QED
      BY <2>1, <2>5, <2>6, RetoldChanges
  <1>4. ASSUME NEW n \in DOMAIN reports, CompleteReport(n) PROVE Retold'
    <2>1. /\ UNCHANGED <<now, missed, windows>> /\ ~IsCompleted(n) /\ posting = NoPosting
          /\ posting' = [n |-> n, to |-> reports[n].at] /\ posting'.n = n
          /\ reports' = [reports EXCEPT ![n].status = "completed", ![n].at = now]
      BY <1>4 DEF CompleteReport, IsCompleted
    <2> DEFINE r == [reports[n] EXCEPT !.status = "completed", !.at = now]
    <2>2. reports[n] \in Report /\ r.status = "completed" /\ r.at = now /\ reports' = [reports EXCEPT ![n] = r]
      <3>1. reports[n] \in Report
        BY <1>1, ElementOfSeq
      <3> QED
        BY <2>1, <3>1 DEF Report
    <2> HIDE DEF r
    <2>3. DOMAIN reports' = DOMAIN reports /\ \A j \in DOMAIN reports : reports'[j] = IF j = n THEN r ELSE reports[j]
      BY <2>2
    <2>4. \A j \in DOMAIN reports : j \in DOMAIN reports' /\ (IsCompleted(j) => reports'[j] = reports[j])
      BY <2>1, <2>3
    <2>5. \A j \in DOMAIN reports' :
             IsCompleted(j)' => \/ j \in DOMAIN reports /\ IsCompleted(j)
                                \/ reports'[j].at = now /\ posting'.n = j
      BY <2>1, <2>2, <2>3 DEF IsCompleted
    <2>6. IsCompleted(posting.n)'
      BY <2>1, <2>2, <2>3 DEF IsCompleted
    <2> QED
      BY <2>1, <2>4, <2>5, <2>6, RetoldChanges
  <1> QED
    BY <1>2, <1>3, <1>4

(* A post leaves out what was closed before its window: before a report     *)
(* that has been posted, or before what a first report looks back on.       *)
LEMMA RetoldPosted == ASSUME LinearInv, Retold, PostToChannel \/ PostFails PROVE Retold'
  <1>1. /\ UNCHANGED <<now, reports>> /\ posting # NoPosting /\ posting' = NoPosting
        /\ windows' = windows \cup {Window}
        /\ missed' = missed \/ missed' = missed \cup {stored[k].at : k \in ClosedIn(0, Window.from)}
    BY DEF PostToChannel, PostFails
  <1>2. ReportsTyped /\ StoreTyped /\ now \in Nat
    BY DEF LinearInv, IssuesTyped
  <1> DEFINE n == posting.n
  <1>3. n \in DOMAIN reports /\ posting.to \in Nat /\ IsCompleted(n)
    <2>1. n \in 1..Len(reports) /\ DOMAIN reports = 1..Len(reports) /\ n # 0 /\ posting.to \in Nat
      BY <1>1, <1>2, LenProperties DEF ReportsTyped
    <2> QED
      BY <2>1 DEF Retold
  <1>4. reports[n].made \in Nat /\ reports[n].at \in Nat /\ reports[n].made <= reports[n].at
    <2>1. reports[n] \in Report
      BY <1>2, <1>3, ElementOfSeq DEF ReportsTyped
    <2>2. reports[n].at # Null /\ reports[n].at \in {Null} \cup (reports[n].made)..now
      BY <1>2, <1>3 DEF ReportsTyped, Retold
    <2> QED
      BY <1>2, <2>1, <2>2 DEF Report
  <1>5. PICK to \in Nat : Window = [from |-> WindowStart(reports[n].made, to), to |-> to, n |-> n]
    BY <1>2, <1>3 DEF Window
  <1> HIDE DEF n
  <1> DEFINE last == LastReportDateBefore(reports[n].made)
  <1>6. /\ last \in Nat
        /\ \/ last = 0
           \/ \E j \in DOMAIN reports : IsCompleted(j) /\ reports[j].at = last /\ last < reports[n].made
    BY <1>2, <1>4, LastReport DEF IsCompleted
  <1>7. Window.n = n /\ Window.from = (IF last # 0 THEN last ELSE Minus(to, Day)) /\ Window.from \in Nat
    BY <1>5, <1>6, TimesAssumption DEF WindowStart, Minus
  <1>8. \A w, at : Listing(w, at)' <=> Listing(w, at)
    BY <1>1 DEF Listing, CardWindow, WindowStart, LastReportDateBefore
  <1>9. ASSUME NEW at \in Nat, at < Window.from PROVE \E w \in windows' : Listing(w, at)
    <2>1. CASE last = 0
      <3>1. CardWindow(n).from \in Nat
        BY <1>4, <2>1, TimesAssumption DEF CardWindow, WindowStart, Minus
      <3>2. Window.from <= Max({Window.from, CardWindow(n).from}) /\ Max({Window.from, CardWindow(n).from}) \in Nat
        <4>1. {Window.from, CardWindow(n).from} = {CardWindow(n).from, Window.from}
          OBVIOUS
        <4> QED
          BY <1>7, <3>1, <4>1, Greater
      <3>3. at < Max({Window.from, CardWindow(n).from})
        BY <1>7, <1>9, <3>2
      <3>4. Listing(Window, at)
        BY <1>7, <2>1, <3>3 DEF Listing
      <3> QED
        BY <1>1, <3>4
    <2>2. CASE last # 0
      <3>1. PICK j \in DOMAIN reports : IsCompleted(j) /\ reports[j].at = last /\ last < reports[n].made
        BY <1>6, <2>2
      <3>2. at < reports[j].at /\ reports[j].at < reports[n].made
        BY <1>7, <1>9, <2>2, <3>1
      <3>3. \A i \in DOMAIN reports : IsCompleted(i) /\ reports[i].at < reports[n].made => IsPosted(i)
        <4> SUFFICES ASSUME NEW i \in DOMAIN reports, IsCompleted(i), reports[i].at < reports[n].made
                     PROVE  IsPosted(i)
          OBVIOUS
        <4>1. i # n
          BY <1>4
        <4> QED
          BY <4>1 DEF Retold, n
      <3>4. \E w \in windows : Listing(w, at)
        BY <1>4, <3>1, <3>2, <3>3, EarlierClosings
      <3> QED
        BY <1>1, <3>4
    <2> QED
      BY <2>1, <2>2
  <1>10. \A at \in missed' : \E w \in windows' : Listing(w, at)
    <2>1. \A k \in ClosedIn(0, Window.from) : stored[k].at \in Nat /\ stored[k].at < Window.from
      BY <1>2 DEF StoreTyped, ClosedIn
    <2>2. \A at \in missed : \E w \in windows' : Listing(w, at)
      BY <1>1 DEF Retold
    <2> QED
      BY <1>1, <1>9, <2>1, <2>2
  <1>11. \A j \in DOMAIN reports : IsCompleted(j) => \E w \in windows' : w.n = j
    BY <1>1, <1>7 DEF Retold, IsPosted, n
  <1>12. \A w \in windows' : IsCompleted(w.n)
    BY <1>1, <1>3, <1>7 DEF Retold
  <1>13. NoPosting.n = 0
    BY DEF NoPosting
  <1> QED
    BY <1>1, <1>8, <1>10, <1>11, <1>12, <1>13 DEF Retold, IsCompleted, IsPosted

LEMMA RetoldKept ==
    ASSUME LinearInv, Retold, LinearNext
    PROVE  Retold'
  <1>1. CASE OpenReport \/ \E n \in DOMAIN reports : TimeOutReport(n) \/ RestartReport(n) \/ CompleteReport(n)
    BY <1>1, RetoldReports
  <1>2. CASE PostToChannel \/ PostFails
    BY <1>2, RetoldPosted
  <1>3. CASE Tick
    BY <1>3, RetoldElsewhere DEF Tick
  <1>4. CASE \/ Prune
             \/ \E k \in Issue : ChangeIssue(k)
             \/ \E e \in emitted, s \in Secret : Deliver(e, s)
             \/ \E h \in hooks : VerifySignature(h) \/ RecordEvent(h) \/ StoreSnapshot(h) \/ HookFails(h)
             \/ \E s \in Secret : AddSecret(s) \/ RemoveSecret(s)
             \/ EnableLinear \/ RemoveAllSecrets \/ DisableLinear
    <2>1. UNCHANGED <<now, reportVars>>
      BY <1>4 DEF Prune, ChangeIssue, Deliver, VerifySignature, RecordEvent, StoreSnapshot, HookFails,
                  AddSecret, RemoveSecret, EnableLinear, RemoveAllSecrets, DisableLinear
    <2> QED
      BY <2>1, RetoldElsewhere
  <1> QED
    BY <1>1, <1>2, <1>3, <1>4 DEF LinearNext

LEMMA VersionedKept ==
    ASSUME LinearInv, Versioned, LinearNext
    PROVE  Versioned'
  <1>1. ASSUME NEW h \in hooks, StoreSnapshot(h) PROVE Versioned'
    <2>1. /\ h.e \in emitted /\ h.e.k \in Issue /\ UNCHANGED emitted
          /\ stored \in [Issue -> [ver : Nat, at : Nat, received : Nat]]
      BY <1>1 DEF LinearInv, ConnectionTyped, IssuesTyped, Snapshot, StoreTyped, StoreSnapshot, issueVars
    <2>2. stored' = [stored EXCEPT ![h.e.k] = [ver |-> h.e.ver, at |-> h.e.at, received |-> now]]
      BY <1>1 DEF StoreSnapshot
    <2>3. h.e.ver # 0
      BY <2>1 DEF Versioned
    <2>4. \A k \in Issue : stored'[k].at # 0 => stored'[k].ver # 0
      <3>1. \A k \in Issue : /\ k = h.e.k => stored'[k].ver = h.e.ver
                             /\ k # h.e.k => stored'[k] = stored[k]
        BY <2>1, <2>2
      <3> QED
        BY <2>3, <3>1 DEF Versioned
    <2> QED
      BY <2>1, <2>4 DEF Versioned
  <1>2. ASSUME NEW k \in Issue, ChangeIssue(k) PROVE Versioned'
    <2>1. issue[k].ver \in Nat /\ UNCHANGED stored
      BY <1>2 DEF LinearInv, IssuesTyped, ChangeIssue, storeVars
    <2>2. PICK at, assigned :
             emitted' = emitted \cup {[k |-> k, ver |-> issue[k].ver + 1, at |-> at, assigned |-> assigned]}
      BY <1>2 DEF ChangeIssue
    <2>3. issue[k].ver + 1 # 0
      BY <2>1
    <2> QED
      BY <2>1, <2>2, <2>3 DEF Versioned
  <1>3. CASE Prune
    <2>1. stored' = [k \in Issue |-> IF Expired(k) THEN NoRow ELSE stored[k]] /\ UNCHANGED emitted
      BY <1>3 DEF Prune, issueVars
    <2> QED
      BY <2>1 DEF Versioned, NoRow
  <1>4. CASE \/ Tick
             \/ \E e \in emitted, s \in Secret : Deliver(e, s)
             \/ \E h \in hooks : VerifySignature(h) \/ RecordEvent(h) \/ HookFails(h)
             \/ \E s \in Secret : AddSecret(s) \/ RemoveSecret(s)
             \/ EnableLinear \/ RemoveAllSecrets \/ DisableLinear
             \/ OpenReport
             \/ \E n \in DOMAIN reports : TimeOutReport(n) \/ RestartReport(n) \/ CompleteReport(n)
             \/ PostToChannel \/ PostFails
    <2>1. UNCHANGED <<emitted, stored>>
      BY <1>4 DEF Tick, Deliver, VerifySignature, RecordEvent, HookFails,
                  AddSecret, RemoveSecret, EnableLinear, RemoveAllSecrets, DisableLinear, OpenReport,
                  TimeOutReport, RestartReport, CompleteReport, PostToChannel, PostFails, issueVars, storeVars
    <2> QED
      BY <2>1 DEF Versioned
  <1> QED
    BY <1>1, <1>2, <1>3, <1>4 DEF LinearNext

-----------------------------------------------------------------------------
(* The workspace: a step of one part leaves the others alone, but for what  *)
(* it spends.                                                               *)

WorkspaceInv == AccountsInv /\ DirectoryInv /\ SearchInv /\ LinearInv

LEMMA SpendingElsewhere ==
    ASSUME left \in [WorkspaceEvent -> Nat], DirectoryNext \/ SearchNext \/ LinearNext
    PROVE  left' \in [WorkspaceEvent -> Nat]
  <1>1. \/ UNCHANGED left
        \/ \E e \in WorkspaceEvent : Spend(e)
    <2>1. CASE DirectoryNext
      BY <2>1 DEF DirectoryNext, ChangePerson, EnqueueSync, BeginSync, ReadPage, WriteChunk, SyncFails,
                  WorkspaceEvent
    <2>2. CASE SearchNext
      BY <2>2 DEF SearchNext, Type, OpenList, CloseList, SendSearch, AnswerSearch, ShowResults, EndSearch,
                  Choose, ClearChoice, WorkspaceEvent
    <2>3. CASE LinearNext
      BY <2>3 DEF LinearNext, Tick, Prune, ChangeIssue, Deliver, VerifySignature, RecordEvent, StoreSnapshot,
                  HookFails, AddSecret, RemoveSecret, EnableLinear, RemoveAllSecrets, DisableLinear, Begin, End,
                  OpenReport, TimeOutReport, RestartReport, CompleteReport, PostToChannel, PostFails,
                  WorkspaceEvent
    <2> QED
      BY <2>1, <2>2, <2>3
  <1> QED
    BY <1>1, Spending

LEMMA InitWorkspaceInv == Init => WorkspaceInv
  <1> SUFFICES ASSUME NEW start \in Starts,
                      AccountsInit(start), DirectoryInit(start), SearchInit, LinearInit(start)
               PROVE  WorkspaceInv
    BY DEF Init
  <1>1. AccountsTypeOK
    BY AccountsInitTypeOK
  <1>2. LastAdminGuarded
    BY StartsAssumption DEF AccountsInit, LastAdminGuarded, Rows, Admins
  <1>3. \A i \in Id : Fresh(i)
    BY DEF AccountsInit, Fresh, Idle
  <1> QED
    BY <1>1, <1>2, <1>3, InitDirectoryInv, InitSearchInv, InitLinearInv DEF WorkspaceInv, AccountsInv

LEMMA WorkspaceKept == WorkspaceInv /\ [Next]_vars => WorkspaceInv'
  <1> SUFFICES ASSUME WorkspaceInv, [Next]_vars PROVE WorkspaceInv'
    OBVIOUS
  <1>1. AccountsInv /\ DirectoryInv /\ SearchInv /\ LinearInv /\ left \in [WorkspaceEvent -> Nat]
    BY DEF WorkspaceInv, AccountsInv, AccountsTypeOK
  <1>2. CASE AccountsNext /\ UNCHANGED <<dirVars, searchVars, linearVars>>
    BY <1>1, <1>2, AccountsKept, DirectoryAside, SearchAside, LinearAside DEF WorkspaceInv
  <1>3. CASE DirectoryNext /\ UNCHANGED <<accountVars, searchVars, linearVars>>
    <2>1. left' \in [WorkspaceEvent -> Nat]
      BY <1>1, <1>3, SpendingElsewhere
    <2> QED
      BY <1>1, <1>3, <2>1, AccountsAside, DirectoryKept, SearchAside, LinearAside DEF WorkspaceInv
  <1>4. CASE SearchNext /\ UNCHANGED <<accountVars, dirVars, linearVars>>
    <2>1. left' \in [WorkspaceEvent -> Nat]
      BY <1>1, <1>4, SpendingElsewhere
    <2> QED
      BY <1>1, <1>4, <2>1, AccountsAside, DirectoryAside, SearchKept, LinearAside DEF WorkspaceInv
  <1>5. CASE LinearNext /\ UNCHANGED <<accountVars, dirVars, searchVars>>
    <2>1. left' \in [WorkspaceEvent -> Nat]
      BY <1>1, <1>5, SpendingElsewhere
    <2> QED
      BY <1>1, <1>5, <2>1, AccountsAside, DirectoryAside, SearchAside, LinearKept DEF WorkspaceInv
  <1>6. CASE UNCHANGED vars
    <2>1. UNCHANGED <<accountVars, dirVars, searchVars, linearVars>> /\ left' \in [WorkspaceEvent -> Nat]
      BY <1>1, <1>6 DEF vars
    <2> QED
      BY <1>1, <2>1, AccountsAside, DirectoryAside, SearchAside, LinearAside DEF WorkspaceInv
  <1> QED
    BY <1>2, <1>3, <1>4, <1>5, <1>6 DEF Next

(* The invariants of the four parts hold together, whatever the order in    *)
(* which their requests, syncs, searches and webhooks take turns.           *)
THEOREM WorkspaceInvariant == Spec => []WorkspaceInv
  <1> QED
    BY InitWorkspaceInv, WorkspaceKept, PTL DEF Spec

LEMMA ClosingsRetold == Spec => [](Retold /\ Versioned)
  <1>1. Init => Retold /\ Versioned
    <2> SUFFICES ASSUME NEW start \in Starts, LinearInit(start) PROVE Retold /\ Versioned
      BY DEF Init
    <2>1. /\ now = 1 /\ emitted = {} /\ windows = {} /\ missed = {} /\ reports = <<>> /\ posting.n = 0
          /\ \A k \in Issue : stored[k].at = 0
      BY DEF LinearInit, NoPosting, NoRow
    <2>2. DOMAIN reports = {}
      BY <2>1
    <2> QED
      BY <2>1, <2>2 DEF Retold, Versioned
  <1>2. WorkspaceInv /\ Retold /\ Versioned /\ [Next]_vars => (Retold /\ Versioned)'
    <2> SUFFICES ASSUME WorkspaceInv, Retold, Versioned, [Next]_vars PROVE (Retold /\ Versioned)'
      OBVIOUS
    <2>1. LinearInv
      BY DEF WorkspaceInv
    <2>2. CASE LinearNext
      BY <2>1, <2>2, RetoldKept, VersionedKept
    <2>3. CASE UNCHANGED linearVars
      <3>1. UNCHANGED <<now, reportVars, emitted, stored>>
        BY <2>3 DEF linearVars, issueVars, storeVars
      <3>2. Retold'
        BY <2>1, <3>1, RetoldElsewhere
      <3>3. Versioned'
        BY <3>1 DEF Versioned
      <3> QED
        BY <3>2, <3>3
    <2> QED
      BY <2>2, <2>3 DEF Next, vars
  <1> QED
    BY <1>1, <1>2, WorkspaceInvariant, PTL DEF Spec

-----------------------------------------------------------------------------

(* Every variable of the accounts, the directory, the search box and the    *)
(* Linear integration keeps its type.                                       *)
THEOREM TypeCorrect == Spec => []TypeOK
  <1>1. WorkspaceInv => TypeOK
    BY DEF WorkspaceInv, AccountsInv, DirectoryInv, SearchInv, LinearInv, TypeOK, LinearTypeOK,
           IssuesTyped, ConnectionTyped, StoreTyped, ReportsTyped
  <1> QED
    BY <1>1, WorkspaceInvariant, PTL

(* A workspace with users keeps an admin as long as no request writes on    *)
(* the strength of rows that another has changed.                           *)
THEOREM AnAdminRemains == Spec => []LastAdminGuarded
  <1>1. WorkspaceInv => LastAdminGuarded
    BY DEF WorkspaceInv, AccountsInv
  <1> QED
    BY <1>1, WorkspaceInvariant, PTL

(* A login adopts the rows a person has under other ids, and leaves one.    *)
THEOREM LoginsAdoptRows == Spec => OneRowPerPerson
  <1>1. WorkspaceInv /\ [Next]_vars =>
          [\A i \in Id : EmailOf[i] # NoEmail /\ i \notin Rows /\ i \in Rows' =>
              overtaken' \/ RowsOf(EmailOf[i])' = {i}]_users
    BY RowsStaySingle DEF WorkspaceInv
  <1> QED
    BY <1>1, WorkspaceInvariant, PTL DEF Spec, OneRowPerPerson

(* A login gives a row the rank that the person had, or a newcomer's, and   *)
(* does not bring the teams along.                                          *)
THEOREM LoginsKeepRank == Spec => LoginGivesDueRank
  <1>1. ASSUME WorkspaceInv, [Next]_vars, NEW i \in Id, i \notin Rows, i \in Rows', ~overtaken'
        PROVE  /\ users'[i] = DueRole(i)
               /\ CanEditTeam(i)' => i \in Admins'
    <2>1. users'[i] = DueRole(i) /\ i \notin managers'
      BY <1>1, NewRowIsDue DEF WorkspaceInv
    <2> QED
      BY <2>1 DEF CanEditTeam, Admins
  <1>2. WorkspaceInv /\ [Next]_vars =>
          [\A i \in Id : i \notin Rows /\ i \in Rows' /\ ~overtaken' =>
              LET known == IF EmailOf[i] = NoEmail THEN {} ELSE RowsOf(EmailOf[i])
              IN  /\ users'[i] = IF known # {} THEN Highest(known)
                                 ELSE IF Admins = {} THEN "admin" ELSE "viewer"
                  /\ CanEditTeam(i)' => i \in Admins']_users
    BY <1>1 DEF DueRole, KnownRows
  <1> QED
    BY <1>2, WorkspaceInvariant, PTL DEF Spec, LoginGivesDueRank

(* After a sync that did not fail the directory holds of everybody within   *)
(* the pages that are read something that has been true since it began.     *)
THEOREM SyncsAreCurrent == Spec => []DirectoryIsCurrent
  <1>1. WorkspaceInv => DirectoryIsCurrent
    BY DEF WorkspaceInv, DirectoryInv
  <1> QED
    BY <1>1, WorkspaceInvariant, PTL

(* The list of the search box never goes back to an earlier search.         *)
THEOREM ResultsGoForward == Spec => NoOlderResults
  <1>1. WorkspaceInv /\ [Next]_vars => [results'.n >= results.n]_results
    <2> SUFFICES ASSUME WorkspaceInv, [Next]_vars, results' # results PROVE results'.n >= results.n
      OBVIOUS
    <2>1. SearchNext
      BY DEF Next, vars, searchVars
    <2> QED
      BY <2>1, SearchKept DEF WorkspaceInv
  <1> QED
    BY <1>1, WorkspaceInvariant, PTL DEF Spec, NoOlderResults

(* An open list for which nothing is pending answers what has been typed.   *)
THEOREM SearchesSettle == Spec => []SettledSearchIsCurrent
  <1>1. WorkspaceInv => SettledSearchIsCurrent
    BY DEF WorkspaceInv, SearchInv, Following, SettledSearchIsCurrent
  <1> QED
    BY <1>1, WorkspaceInvariant, PTL

(* The row of an issue holds the newest snapshot that was accepted, unless  *)
(* snapshots of the issue overtook each other.                              *)
THEOREM RowsAreNewest == Spec => []RowIsNewest
  <1>1. WorkspaceInv => RowIsNewest
    BY DEF WorkspaceInv, LinearInv, InOrder
  <1> QED
    BY <1>1, WorkspaceInvariant, PTL

(* Once Linear is disconnected, nothing but an admin connects it again.     *)
THEOREM DisconnectingHolds == Spec => []DisconnectHolds
  <1>1. WorkspaceInv => DisconnectHolds
    BY DEF WorkspaceInv, LinearInv, Disconnecting, DisconnectHolds
  <1> QED
    BY <1>1, WorkspaceInvariant, PTL

(* As long as nobody else has the member's address: what a post leaves out  *)
(* was listed by an earlier post or is on a report's page, or lies before   *)
(* what the first report looks back on; and while the address is unknown,   *)
(* every closing is on the page of unmatched people.                        *)
THEOREM ClosingsAreListed ==
    ASSUME \A i \in Id : EmailOf[i] # NoEmail /\ EmailOf[i] = EmailOf[Reporter] => i = Reporter
    PROVE  Spec => []ClosingsAccountedFor
  <1>1. WorkspaceInv /\ Retold /\ Versioned => ClosingsAccountedFor
    <2> SUFFICES ASSUME WorkspaceInv, Retold, Versioned PROVE ClosingsAccountedFor
      OBVIOUS
    <2>1. \A at \in missed : \E w \in windows : Listing(w, at)
      BY DEF Retold
    <2>2. ASSUME ~EmailKnown PROVE {k \in Issue : stored[k].at # 0} \subseteq Unmatched
      <3>1. ~\E i \in Id : /\ EmailOf[i] # NoEmail /\ EmailOf[i] = EmailOf[Reporter]
                           /\ dir[i] # "none" \/ i \in Rows
        BY <2>2 DEF EmailKnown
      <3> QED
        BY <3>1 DEF Versioned, Unmatched
    <2> QED
      BY <2>1, <2>2 DEF ClosingsAccountedFor, Listing
  <1> QED
    BY <1>1, WorkspaceInvariant, ClosingsRetold, PTL
=============================================================================
