-------------------------- MODULE ChannelBoardProofs --------------------------
(* What holds of ChannelBoard for every finite team, any set of messages    *)
(* and every budget of failures, lost answers, time-outs, restarts,         *)
(* connections, revocations and changed secrets.                            *)
EXTENDS ChannelBoard, FiniteSetTheorems, SequenceTheorems, TLAPS

-----------------------------------------------------------------------------
(* What the calls to Slack and the handlers' assignments do.                *)

LEMMA PostAppends ==
    ASSUME channel \in Seq(PostState), NEW m \in Member, NEW id \in {"bot", "user"}, Post(m, id)
    PROVE  /\ channel' \in Seq(PostState)
           /\ Len(channel) \in Nat /\ Len(channel') = Len(channel) + 1
           /\ \A k \in 1..Len(channel) : channel'[k] = channel[k]
           /\ channel'[Len(channel) + 1] = Blocks(m, id)
  <1>1. Blocks(m, id) \in PostState
    BY DEF Blocks, PostState
  <1>2. channel' = Append(channel, Blocks(m, id))
    BY DEF Post
  <1> HIDE DEF Blocks
  <1>3. Len(channel) \in Nat
    BY LenProperties
  <1> QED
    BY <1>1, <1>2, <1>3, AppendProperties

LEMMA Editing ==
    ASSUME channel \in Seq(PostState), NEW k \in 1..Len(channel),
           NEW footer \in {"none", "nudge", "connected"}, Edit(k, footer)
    PROVE  /\ channel' \in Seq(PostState)
           /\ Len(channel) \in Nat /\ Len(channel') = Len(channel)
           /\ \A j \in 1..Len(channel) :
                 /\ channel'[j].who = channel[j].who /\ channel'[j].as = channel[j].as
                 /\ channel'[j].footer = IF j = k THEN footer ELSE channel[j].footer
  <1> DEFINE p == [channel[k] EXCEPT !.footer = footer]
  <1>1. channel[k] \in PostState
    BY ElementOfSeq
  <1>2. /\ p \in PostState /\ p.who = channel[k].who /\ p.as = channel[k].as /\ p.footer = footer
    BY <1>1 DEF PostState
  <1>3. channel' = [channel EXCEPT ![k] = p]
    BY DEF Edit
  <1> HIDE DEF p
  <1>4. /\ channel' \in Seq(PostState) /\ Len(channel') = Len(channel)
        /\ \A j \in 1..Len(channel) : channel'[j] = IF j = k THEN p ELSE channel[j]
    BY <1>2, <1>3, ExceptSeq
  <1>5. Len(channel) \in Nat
    BY LenProperties
  <1> QED
    BY <1>2, <1>4, <1>5

LEMMA Noting ==
    ASSUME local \in [Message -> LocalState], NEW x \in Message, NEW ts \in Nat, NEW id \in {"bot", "user"},
           local' = [local EXCEPT ![x].ts = ts, ![x].as = id]
    PROVE  /\ local' \in [Message -> LocalState]
           /\ local'[x].ts = ts /\ local'[x].as = id
           /\ local'[x].token = local[x].token /\ local'[x].count = local[x].count
           /\ \A y \in Message : y # x => local'[y] = local[y]
  BY DEF LocalState

LEMMA KeepingToken ==
    ASSUME local \in [Message -> LocalState], NEW x \in Message, NEW v \in TokenState, Keep(x, "token", v)
    PROVE  /\ local' \in [Message -> LocalState]
           /\ local'[x].ts = local[x].ts /\ local'[x].as = local[x].as
           /\ local'[x].token = v /\ local'[x].count = local[x].count
           /\ \A y \in Message : y # x => local'[y] = local[y]
  BY DEF LocalState, Keep

LEMMA KeepingCount ==
    ASSUME local \in [Message -> LocalState], NEW x \in Message, NEW v \in 0..Cardinality(Member), Keep(x, "count", v)
    PROVE  /\ local' \in [Message -> LocalState]
           /\ local'[x].ts = local[x].ts /\ local'[x].as = local[x].as
           /\ local'[x].token = local[x].token /\ local'[x].count = v
           /\ \A y \in Message : y # x => local'[y] = local[y]
  BY DEF LocalState, Keep

LEMMA Recording ==
    ASSUME row \in [Member -> [Day -> RowState]], NEW m \in Member, NEW new \in RowState,
           row' = [row EXCEPT ![m]["today"] = new]
    PROVE  /\ row' \in [Member -> [Day -> RowState]]
           /\ row'[m]["today"] = new /\ row'[m]["old"] = row[m]["old"]
           /\ \A n \in Member : n # m => row'[n] = row[n]
  BY DEF Day

(* The reports that are, or once were, completed can be counted.            *)
LEMMA CountsFit ==
    ASSUME TypeOK
    PROVE  /\ IsFiniteSet(Completed)
           /\ Cardinality(Completed) \in Nat /\ Cardinality(Completed) <= Cardinality(Member)
           /\ IsFiniteSet(Completed \cup undone) /\ Cardinality(Completed \cup undone) \in Nat
           /\ Cardinality(Completed) <= Cardinality(Completed \cup undone)
           /\ Cardinality(Member) \in Nat
  <1>1. Completed \in SUBSET Member /\ Completed \cup undone \in SUBSET Member
    BY DEF Completed, TypeOK
  <1>2. /\ IsFiniteSet(Completed) /\ Cardinality(Completed) <= Cardinality(Member)
        /\ IsFiniteSet(Completed \cup undone)
    BY <1>1, MemberAssumption, FS_Subset
  <1>3. /\ Cardinality(Completed) \in Nat /\ Cardinality(Member) \in Nat
        /\ Cardinality(Completed \cup undone) \in Nat
    BY <1>2, MemberAssumption, FS_CardinalityType
  <1>4. Cardinality(Completed) <= Cardinality(Completed \cup undone)
    BY <1>2, FS_Subset
  <1> QED
    BY <1>2, <1>3, <1>4

-----------------------------------------------------------------------------
(* How a run begins.                                                        *)

(* The older posts: everybody who has one has exactly one.                  *)
LEMMA OlderPosts ==
    ASSUME NEW posters \in SUBSET Member
    PROVE  /\ SetToSeq(posters) \in Seq(posters)
           /\ DOMAIN SetToSeq(posters) = 1..Len(SetToSeq(posters))
           /\ IsInjective(SetToSeq(posters))
           /\ \A m \in posters : \E k \in DOMAIN SetToSeq(posters) : SetToSeq(posters)[k] = m
  <1> DEFINE n == Cardinality(posters)
  <1>1. IsFiniteSet(posters)
    BY MemberAssumption, FS_Subset
  <1>2. n \in Nat
    BY <1>1, FS_CardinalityType
  <1>3. ExistsBijection(1..n, posters)
    BY <1>1, FS_CardinalityType
  <1>4. \E f \in [1..n -> posters] : IsInjective(f)
    BY <1>3 DEF ExistsBijection, Bijection, Injection
  <1>5. SetToSeq(posters) \in [1..n -> posters] /\ IsInjective(SetToSeq(posters))
    BY <1>4 DEF SetToSeq
  <1> DEFINE old == SetToSeq(posters)
  <1> HIDE DEF old
  <1>6. old \in Seq(posters) /\ DOMAIN old = 1..Len(old) /\ Len(old) = n
    BY <1>2, <1>5, SeqDef, LenProperties DEF old
  <1>7. old \in Injection(1..n, posters)
    BY <1>5 DEF Injection, old
  <1>8. IsFiniteSet(1..n) /\ Cardinality(1..n) = n
    BY <1>2, FS_Interval
  <1>9. old \in Surjection(1..n, posters)
    BY <1>1, <1>7, <1>8, FS_Injection
  <1>10. \A m \in posters : \E k \in DOMAIN old : old[k] = m
    BY <1>6, <1>9 DEF Surjection
  <1> QED
    BY <1>5, <1>6, <1>10 DEF old

PostOf(m, d) == row[m][d].ts

(* Whoever has an older post is not connected and has no other in the       *)
(* channel.                                                                 *)
LEMMA Beginnings ==
    ASSUME Init
    PROVE  /\ row \in [Member -> [Day -> RowState]]
           /\ channel \in Seq(PostState) /\ Len(channel) \in Nat
           /\ token \in [Member -> {"none", "good"}]
           /\ \A k \in 1..Len(channel) : channel[k].as = "bot" /\ PostOf(channel[k].who, "old") = k
           /\ \A m \in Member :
                 /\ PostOf(m, "today") = NoPost /\ row[m]["today"].as = "none"
                 /\ IF PostOf(m, "old") = NoPost
                    THEN row[m]["old"].as = "none"
                    ELSE /\ PostOf(m, "old") \in 1..Len(channel) /\ row[m]["old"].as = "bot"
                         /\ channel[PostOf(m, "old")].who = m /\ token[m] = "none"
  <1>0. PICK s \in Starts :
           LET old == SetToSeq(s.posters)
           IN  /\ channel = [k \in DOMAIN old |-> [who |-> old[k], as |-> "bot", footer |-> "nudge"]]
               /\ row = [m \in Member |-> [d \in Day |->
                           IF d = "old" /\ m \in s.posters
                           THEN [ts |-> CHOOSE k \in DOMAIN old : old[k] = m, as |-> "bot"]
                           ELSE [ts |-> NoPost, as |-> "none"]]]
               /\ token = [m \in Member |-> IF m \in s.connected THEN "good" ELSE "none"]
    BY Zenon DEF Init
  <1>1. PICK posters \in SUBSET Member :
           LET old == SetToSeq(posters)
           IN  /\ channel = [k \in DOMAIN old |-> [who |-> old[k], as |-> "bot", footer |-> "nudge"]]
               /\ row = [m \in Member |-> [d \in Day |->
                           IF d = "old" /\ m \in posters
                           THEN [ts |-> CHOOSE k \in DOMAIN old : old[k] = m, as |-> "bot"]
                           ELSE [ts |-> NoPost, as |-> "none"]]]
               /\ token \in [Member -> {"none", "good"}]
               /\ \A m \in posters : token[m] = "none"
    <2>1. s.posters \in SUBSET Member /\ s.connected \subseteq Member \ s.posters
      BY StartsAssumption
    <2>2. token \in [Member -> {"none", "good"}] /\ \A m \in s.posters : token[m] = "none"
      BY <1>0, <2>1
    <2> QED
      BY <1>0, <2>1, <2>2, Zenon
  <1> DEFINE old == SetToSeq(posters)
             at(m) == CHOOSE k \in DOMAIN old : old[k] = m
  <1>2. /\ old \in Seq(posters) /\ DOMAIN old = 1..Len(old) /\ IsInjective(old)
        /\ \A m \in posters : \E k \in DOMAIN old : old[k] = m
    BY OlderPosts
  <1>3. /\ channel = [k \in DOMAIN old |-> [who |-> old[k], as |-> "bot", footer |-> "nudge"]]
        /\ row = [m \in Member |-> [d \in Day |->
                    IF d = "old" /\ m \in posters THEN [ts |-> at(m), as |-> "bot"]
                                                  ELSE [ts |-> NoPost, as |-> "none"]]]
        /\ token \in [Member -> {"none", "good"}] /\ \A m \in posters : token[m] = "none"
    BY <1>1
  <1>4. \A m \in posters : at(m) \in DOMAIN old /\ old[at(m)] = m
    BY <1>2
  <1> HIDE DEF old, at
  <1>5. Len(old) \in Nat /\ \A k \in 1..Len(old) : old[k] \in posters /\ at(old[k]) = k
    <2>1. Len(old) \in Nat /\ \A k \in 1..Len(old) : old[k] \in posters
      BY <1>2, LenProperties, ElementOfSeq
    <2>2. ASSUME NEW k \in 1..Len(old) PROVE at(old[k]) = k
      BY <1>2, <1>4, <2>1, <2>2 DEF IsInjective
    <2> QED
      BY <2>1, <2>2
  <1>6. /\ channel \in [1..Len(old) -> PostState]
        /\ \A k \in 1..Len(old) : channel[k].as = "bot" /\ channel[k].who = old[k]
    BY <1>2, <1>3, <1>5 DEF PostState
  <1>7. channel \in Seq(PostState) /\ Len(channel) = Len(old)
    BY <1>5, <1>6, IsASeq, LenProperties, SeqDef
  <1>8. \A m \in posters : at(m) \in Nat \ {0} /\ at(m) \in 1..Len(channel)
    BY <1>2, <1>4, <1>5, <1>7
  <1>9. row \in [Member -> [Day -> RowState]]
    BY <1>3, <1>8 DEF RowState, NoPost
  <1>10. ASSUME NEW m \in Member
         PROVE  /\ PostOf(m, "today") = NoPost /\ row[m]["today"].as = "none"
                /\ m \in posters => PostOf(m, "old") = at(m) /\ row[m]["old"].as = "bot"
                /\ m \notin posters => PostOf(m, "old") = NoPost /\ row[m]["old"].as = "none"
    BY <1>3 DEF Day, PostOf
  <1>11. \A k \in 1..Len(channel) : channel[k].as = "bot" /\ PostOf(channel[k].who, "old") = k
    BY <1>5, <1>6, <1>7, <1>10
  <1>12. ASSUME NEW m \in Member
         PROVE  /\ PostOf(m, "today") = NoPost /\ row[m]["today"].as = "none"
                /\ IF PostOf(m, "old") = NoPost
                   THEN row[m]["old"].as = "none"
                   ELSE /\ PostOf(m, "old") \in 1..Len(channel) /\ row[m]["old"].as = "bot"
                        /\ channel[PostOf(m, "old")].who = m /\ token[m] = "none"
    <2>1. CASE m \in posters
      <3>1. /\ PostOf(m, "old") = at(m) /\ row[m]["old"].as = "bot" /\ at(m) \in 1..Len(channel)
            /\ token[m] = "none" /\ at(m) # NoPost
        BY <1>3, <1>8, <1>10, <2>1 DEF NoPost
      <3>2. channel[at(m)].who = m
        BY <1>2, <1>4, <1>6, <2>1
      <3> QED
        BY <1>10, <3>1, <3>2
    <2>2. CASE m \notin posters
      BY <1>10, <2>2
    <2> QED
      BY <2>1, <2>2
  <1>13. Len(channel) \in Nat
    BY <1>5, <1>7
  <1> QED
    BY <1>3, <1>7, <1>9, <1>11, <1>12, <1>13

-----------------------------------------------------------------------------
(* The steps by who takes them, and what they leave alone.                  *)

HandlerActs(x) ==
    \/ Receive(x) \/ Complete(x) \/ Abort(x) \/ Outro(x) \/ ReadToken(x)
    \/ PostAsUser(x) \/ PostAsBot(x) \/ RecordPost(x)
    \/ CountReports(x) \/ UpdateHeader(x) \/ Nudge(x)
    \/ HandlerThrows(x) \/ PostAnswerLost(x)

WorkerActs ==
    \/ \E m \in Member : OpenReport(m) \/ DecideTimeout(m) \/ DecideRestart(m)
    \/ Expire \/ Reopen \/ JobFails

ConnectActs(m) ==
    \/ FollowLink(m) \/ LinkExpires(m) \/ VerifyState(m) \/ SaveToken(m)
    \/ FindBotReport(m) \/ SwapFooter(m) \/ ConnectThrows(m) \/ RevokeToken(m)

LEMMA Steps ==
    ASSUME [Next]_vars
    PROVE  \/ \E x \in Message : HandlerActs(x)
           \/ WorkerActs
           \/ \E m \in Member : ConnectActs(m)
           \/ RotateSecret
           \/ UNCHANGED vars
  BY DEF Next, HandlerActs, WorkerActs, ConnectActs

LEMMA Spending ==
    ASSUME left \in [EnvEvent -> Nat], NEW e \in EnvEvent, Spend(e)
    PROVE  left' \in [EnvEvent -> Nat]
  BY DEF Spend

LEMMA Allowing ==
    ASSUME grounds \in [Member -> Nat], NEW m \in Member, Allow(m)
    PROVE  /\ grounds' \in [Member -> Nat]
           /\ grounds'[m] = grounds[m] + 1
           /\ \A n \in Member : n # m => grounds'[n] = grounds[n]
  BY DEF Allow

LEMMA Authors ==
    ASSUME NEW x \in Message
    PROVE  Author[x] \in Member
  BY AuthorAssumption

LEMMA Overwriting ==
    ASSUME TypeOK, NEW m \in Member, NEW new \in {"in_progress", "timed_out"}, Overwrite(m, new)
    PROVE  /\ status' \in [Member -> {"none", "in_progress", "completed", "timed_out"}]
           /\ status'[m] = new /\ \A n \in Member : n # m => status'[n] = status[n]
           /\ undone' \subseteq Member /\ undone \subseteq undone'
           /\ status[m] = "completed" => m \in undone'
  BY DEF TypeOK, Overwrite

(* What the worker does to a report.                                        *)
LEMMA WorkerMoves ==
    ASSUME TypeOK, WorkerActs
    PROVE  /\ UNCHANGED <<row, token, opening, slackVars, handlerVars, connectVars, mishaps>>
           /\ worker' \in WorkerJob \cup {NoJob} /\ left' \in [EnvEvent -> Nat]
           /\ \/ UNCHANGED <<status, undone, grounds>>
              \/ \E m \in Member :
                    /\ status[m] = "none" /\ status' = [status EXCEPT ![m] = "in_progress"]
                    /\ Allow(m) /\ UNCHANGED undone
              \/ \E m \in Member : Overwrite(m, "in_progress") /\ Allow(m)
              \/ \E m \in Member : Overwrite(m, "timed_out") /\ UNCHANGED grounds
  <1> USE DEF Calm, Unrecorded, historyVars
  <1>1. ASSUME NEW m \in Member, OpenReport(m)
        PROVE  /\ UNCHANGED <<row, token, opening, slackVars, handlerVars, connectVars, mishaps>>
               /\ worker' = worker /\ left' = left
               /\ status[m] = "none" /\ status' = [status EXCEPT ![m] = "in_progress"]
               /\ Allow(m) /\ UNCHANGED undone
    BY <1>1 DEF OpenReport
  <1>2. ASSUME NEW m \in Member, NEW job \in {"timeout", "restart"}, NEW statuses,
               DecideJob(job, m, statuses)
        PROVE  /\ UNCHANGED <<row, token, opening, slackVars, handlerVars, connectVars, mishaps>>
               /\ worker' \in WorkerJob /\ left' \in [EnvEvent -> Nat]
               /\ UNCHANGED <<status, undone, grounds>>
    <2>1. left' \in [EnvEvent -> Nat]
      BY <1>2, Spending DEF DecideJob, EnvEvent, TypeOK
    <2> QED
      BY <1>2, <2>1 DEF DecideJob, WorkerJob
  <1>3. ASSUME NEW m \in Member, DecideTimeout(m) \/ DecideRestart(m)
        PROVE  /\ UNCHANGED <<row, token, opening, slackVars, handlerVars, connectVars, mishaps>>
               /\ worker' \in WorkerJob /\ left' \in [EnvEvent -> Nat]
               /\ UNCHANGED <<status, undone, grounds>>
    BY <1>2, <1>3 DEF DecideTimeout, DecideRestart
  <1>4. ASSUME worker.job \in {"timeout", "restart"}
        PROVE  worker.who \in Member
    BY <1>4 DEF TypeOK, WorkerJob, NoJob
  <1>5. CASE Expire
    <2>1. worker.who \in Member
      BY <1>4, <1>5 DEF Expire
    <2> QED
      BY <1>5, <2>1 DEF Expire, TypeOK
  <1>6. CASE Reopen
    <2>1. worker.who \in Member
      BY <1>4, <1>6 DEF Reopen
    <2> QED
      BY <1>6, <2>1 DEF Reopen, TypeOK
  <1>7. CASE JobFails
    BY <1>7 DEF JobFails, TypeOK
  <1>8. worker \in WorkerJob \cup {NoJob} /\ left \in [EnvEvent -> Nat]
    BY DEF TypeOK
  <1> QED
    BY <1>1, <1>3, <1>5, <1>6, <1>7, <1>8 DEF WorkerActs

(* A handler moves alone, and keeps to its own notes.                       *)
LEMMA HandlerMoves ==
    ASSUME TypeOK, NEW x \in Message, HandlerActs(x)
    PROVE  /\ \E next \in HandlerStep : pc' = [pc EXCEPT ![x] = next]
           /\ \A y \in Message : y # x => local'[y] = local[y]
           /\ UNCHANGED <<token, opening, worker, connectVars>>
  <1> USE DEF Goto, HandlerStep
  <1>1. CASE Receive(x) \/ Complete(x) \/ Abort(x) \/ Outro(x) \/ UpdateHeader(x) \/ Nudge(x)
    BY <1>1 DEF Receive, Complete, Abort, Outro, UpdateHeader, Nudge
  <1>2. CASE ReadToken(x)
    BY <1>2 DEF ReadToken, Keep, TypeOK
  <1>3. CASE PostAsUser(x)
    <2>1. CASE Refused(x)
      BY <1>3, <2>1 DEF PostAsUser
    <2>2. CASE ~Refused(x)
      BY <1>3, <2>2 DEF PostAsUser, Posted, TypeOK
    <2> QED
      BY <2>1, <2>2
  <1>4. CASE PostAsBot(x)
    BY <1>4 DEF PostAsBot, Posted, TypeOK
  <1>5. CASE RecordPost(x)
    BY <1>5 DEF RecordPost
  <1>6. CASE CountReports(x)
    BY <1>6 DEF CountReports, Keep, TypeOK
  <1>7. CASE HandlerThrows(x) \/ PostAnswerLost(x)
    <2>1. UNCHANGED <<local, token, opening, worker, connectVars>>
      BY <1>7 DEF HandlerThrows, PostAnswerLost
    <2>2. \A step : AfterFailure(step) \subseteq HandlerStep
      BY DEF AfterFailure
    <2>3. \E next \in AfterFailure(pc[x]) : Goto(x, next)
      BY <1>7 DEF HandlerThrows, PostAnswerLost
    <2> QED
      BY <2>1, <2>2, <2>3
  <1> QED
    BY <1>1, <1>2, <1>3, <1>4, <1>5, <1>6, <1>7 DEF HandlerActs

-----------------------------------------------------------------------------
(* Type correctness.                                                        *)

LEMMA InitTypeOK == Init => TypeOK
  <1> SUFFICES ASSUME Init PROVE TypeOK
    OBVIOUS
  <1>1. Cardinality(Member) \in Nat
    BY MemberAssumption, FS_CardinalityType
  <1>2. \A m \in Member, d \in Day : row[m][d].ts <= Len(channel)
    BY Beginnings DEF PostOf, Day, NoPost
  <1>3. Idle \in LocalState /\ Idle.ts = 0
    BY <1>1 DEF Idle, LocalState, TokenState, NoPost
  <1>4. local \in [Message -> LocalState] /\ \A x \in Message : local[x].ts = 0
    BY <1>3 DEF Init, handlerVars
  <1>5. \A x \in Message : local[x].ts <= Len(channel)
    BY <1>4, Beginnings
  <1>6. /\ row \in [Member -> [Day -> RowState]] /\ channel \in Seq(PostState)
        /\ token \in [Member -> TokenState]
    BY Beginnings DEF TokenState
  <1>7. grounds \in [Member -> Nat] /\ undone \subseteq Member
    BY DEF Init, historyVars
  <1>8. pc \in [Message -> HandlerStep]
    BY DEF Init, handlerVars, HandlerStep
  <1>9. /\ status \in [Member -> {"none", "in_progress", "completed", "timed_out"}]
        /\ opening \in BOOLEAN /\ header \in 0..Cardinality(Member)
        /\ worker \in WorkerJob \cup {NoJob} /\ left \in [EnvEvent -> Nat]
    BY <1>1, StartsAssumption DEF Init
  <1>10. /\ link \in [Member -> {"none", "fresh", "stale"}]
         /\ cpc \in [Member -> {"idle", "save", "find", "swap"}]
         /\ \A m \in Member : link[m] # "none" => cpc[m] = "idle"
         /\ found \in [Member -> Nat]
         /\ \A m \in Member : cpc[m] = "idle" /\ found[m] = NoPost
    BY DEF Init, connectVars, NoPost
  <1> QED
    BY <1>2, <1>4, <1>5, <1>6, <1>7, <1>8, <1>9, <1>10 DEF TypeOK

(* What is about a report: its status, what its handlers know, its posts.   *)
ReportTypeOK ==
    /\ status \in [Member -> {"none", "in_progress", "completed", "timed_out"}]
    /\ header \in 0..Cardinality(Member)
    /\ pc \in [Message -> HandlerStep]
    /\ local \in [Message -> LocalState]
    /\ undone \subseteq Member
    /\ grounds \in [Member -> Nat]
    /\ left \in [EnvEvent -> Nat]

(* Timestamps stay below the channel's length, which never shrinks.         *)
LEMMA ChannelGrows ==
    ASSUME TypeOK, channel' \in Seq(PostState), Len(channel') \in Nat, Len(channel) <= Len(channel'),
           UNCHANGED <<row, cpc, found>>,
           \A x \in Message : local'[x].ts = local[x].ts \/ local'[x].ts <= Len(channel')
    PROVE  /\ \A m \in Member, d \in Day : row'[m][d].ts <= Len(channel')
           /\ \A x \in Message : local'[x].ts <= Len(channel')
           /\ \A m \in Member : IF cpc'[m] = "swap" THEN found'[m] \in 1..Len(channel') ELSE found'[m] = NoPost
  <1>1. Len(channel) \in Nat
    BY LenProperties DEF TypeOK
  <1>2. \A m \in Member, d \in Day : row[m][d].ts \in Nat /\ row[m][d].ts <= Len(channel)
    BY DEF TypeOK, RowState
  <1>3. \A x \in Message : local[x].ts \in Nat /\ local[x].ts <= Len(channel)
    BY DEF TypeOK, LocalState
  <1>4. \A m \in Member : IF cpc[m] = "swap" THEN found[m] \in 1..Len(channel) ELSE found[m] = NoPost
    BY DEF TypeOK
  <1> QED
    BY <1>1, <1>2, <1>3, <1>4

LEMMA HandlerTypeOK ==
    ASSUME TypeOK, NEW x \in Message, HandlerActs(x)
    PROVE  TypeOK'
  <1> USE DEF Calm, Unrecorded, historyVars, slackVars
  <1>0. /\ Cardinality(Member) \in Nat /\ Cardinality(Completed) \in 0..Cardinality(Member)
        /\ Len(channel) \in Nat /\ Author[x] \in Member
    BY CountsFit, LenProperties, Authors DEF TypeOK
  <1>1. pc' \in [Message -> HandlerStep] /\ UNCHANGED <<token, opening, worker, connectVars>>
    <2>1. pc \in [Message -> HandlerStep]
      BY DEF TypeOK
    <2>2. /\ \E next \in HandlerStep : pc' = [pc EXCEPT ![x] = next]
          /\ UNCHANGED <<token, opening, worker, connectVars>>
      BY HandlerMoves
    <2> QED
      BY <2>1, <2>2
  <1>2. ASSUME UNCHANGED <<row, channel>>, ReportTypeOK', \A y \in Message : local'[y].ts = local[y].ts
        PROVE  TypeOK'
    BY <1>1, <1>2 DEF ReportTypeOK, TypeOK, connectVars
  <1>3. CASE Receive(x) \/ Outro(x) \/ Nudge(x)
    <2>1. UNCHANGED <<status, row, channel, header, local, undone, grounds, left>>
      BY <1>3 DEF Receive, Outro, Nudge
    <2> QED
      BY <1>1, <1>2, <2>1 DEF ReportTypeOK, TypeOK
  <1>4. CASE Complete(x)
    <2>0. grounds' \in [Member -> Nat]
      <3>1. grounds' = grounds \/ Allow(Author[x])
        BY <1>4 DEF Complete
      <3> QED
        BY <1>0, <3>1, Allowing DEF TypeOK
    <2>1. /\ UNCHANGED <<row, channel, header, local, undone, left>>
          /\ status' \in [Member -> {"none", "in_progress", "completed", "timed_out"}]
          /\ grounds' \in [Member -> Nat]
      BY <1>0, <1>4, <2>0 DEF Complete, TypeOK
    <2> QED
      BY <1>1, <1>2, <2>1 DEF ReportTypeOK, TypeOK
  <1>5. CASE Abort(x)
    <2>1. UNCHANGED <<row, channel, header, local, grounds, left>>
      BY <1>5 DEF Abort
    <2>2. /\ status' \in [Member -> {"none", "in_progress", "completed", "timed_out"}]
          /\ undone' \subseteq Member
      BY <1>0, <1>5, Overwriting DEF Abort
    <2> QED
      BY <1>1, <1>2, <2>1, <2>2 DEF ReportTypeOK, TypeOK
  <1>6. CASE ReadToken(x)
    <2>1. UserToken(Author[x]) \in TokenState
      BY <1>0 DEF UserToken, TokenState, TypeOK
    <2>2. /\ local' \in [Message -> LocalState]
          /\ \A y \in Message : local'[y].ts = local[y].ts
      BY <1>6, <2>1, KeepingToken DEF ReadToken, TypeOK
    <2>3. UNCHANGED <<status, row, channel, header, undone, grounds, left>>
      BY <1>6 DEF ReadToken
    <2> QED
      BY <1>1, <1>2, <2>2, <2>3 DEF ReportTypeOK, TypeOK
  <1>7. ASSUME NEW id \in {"bot", "user"}, Post(Author[x], id),
               \/ local' = local
               \/ local' = [local EXCEPT ![x].ts = Len(channel) + 1, ![x].as = id],
               left' \in [EnvEvent -> Nat], grounds' \in [Member -> Nat],
               UNCHANGED <<status, row, header, undone>>
        PROVE  TypeOK'
    <2>1. channel' \in Seq(PostState) /\ Len(channel') = Len(channel) + 1
      BY <1>0, <1>7, PostAppends DEF TypeOK
    <2>2. /\ local' \in [Message -> LocalState]
          /\ \A y \in Message : local'[y].ts = local[y].ts \/ local'[y].ts <= Len(channel')
      <3>1. CASE local' = local
        BY <3>1 DEF TypeOK
      <3>2. CASE local' = [local EXCEPT ![x].ts = Len(channel) + 1, ![x].as = id]
        <4>1. local \in [Message -> LocalState] /\ Len(channel) + 1 \in Nat
          BY <1>0 DEF TypeOK
        <4>2. /\ local' \in [Message -> LocalState] /\ local'[x].ts = Len(channel) + 1
              /\ \A y \in Message : y # x => local'[y] = local[y]
          BY <3>2, <4>1, Noting
        <4> QED
          BY <1>0, <2>1, <4>2
      <3> QED
        BY <1>7, <3>1, <3>2
    <2>3. UNCHANGED <<row, cpc, found>> /\ Len(channel') \in Nat /\ Len(channel) <= Len(channel')
      BY <1>0, <1>1, <1>7, <2>1 DEF connectVars
    <2>4. /\ \A m \in Member, d \in Day : row'[m][d].ts <= Len(channel')
          /\ \A y \in Message : local'[y].ts <= Len(channel')
          /\ \A m \in Member : IF cpc'[m] = "swap" THEN found'[m] \in 1..Len(channel') ELSE found'[m] = NoPost
      BY <2>1, <2>2, <2>3, ChannelGrows
    <2> QED
      BY <1>1, <1>7, <2>1, <2>2, <2>4 DEF TypeOK, connectVars
  <1>8. CASE PostAsUser(x)
    <2>1. CASE Refused(x)
      <3>1. UNCHANGED <<status, row, channel, header, local, undone, grounds, left>>
        BY <1>8, <2>1 DEF PostAsUser
      <3> QED
        BY <1>1, <1>2, <3>1 DEF ReportTypeOK, TypeOK
    <2>2. CASE ~Refused(x)
      BY <1>7, <1>8, <2>2 DEF PostAsUser, Posted, TypeOK
    <2> QED
      BY <2>1, <2>2
  <1>9. CASE PostAsBot(x)
    BY <1>7, <1>9 DEF PostAsBot, Posted, TypeOK
  <1>10. CASE PostAnswerLost(x)
    <2>1. left' \in [EnvEvent -> Nat]
      BY <1>10, Spending DEF PostAnswerLost, EnvEvent, TypeOK
    <2>2. grounds' \in [Member -> Nat]
      BY <1>0, <1>10, Allowing DEF PostAnswerLost, TypeOK
    <2> QED
      BY <1>7, <1>10, <2>1, <2>2 DEF PostAnswerLost
  <1>11. CASE RecordPost(x)
    <2> DEFINE new == [ts |-> local[x].ts, as |-> local[x].as]
    <2>1. new \in RowState /\ new.ts <= Len(channel)
      BY DEF TypeOK, LocalState, RowState
    <2>2. /\ row' = [row EXCEPT ![Author[x]]["today"] = new]
          /\ UNCHANGED <<status, channel, header, local, undone, grounds, left>>
      BY <1>11 DEF RecordPost
    <2> HIDE DEF new
    <2>3. row' \in [Member -> [Day -> RowState]] /\ \A m \in Member, d \in Day : row'[m][d].ts <= Len(channel)
      BY <1>0, <2>1, <2>2, Recording DEF TypeOK, Day
    <2> QED
      BY <1>1, <2>2, <2>3 DEF TypeOK, connectVars
  <1>12. CASE CountReports(x)
    <2>1. /\ local' \in [Message -> LocalState]
          /\ \A y \in Message : local'[y].ts = local[y].ts
      BY <1>0, <1>12, KeepingCount DEF CountReports, TypeOK
    <2>2. UNCHANGED <<status, row, channel, header, undone, grounds, left>>
      BY <1>12 DEF CountReports, Mishap
    <2> QED
      BY <1>1, <1>2, <2>1, <2>2 DEF ReportTypeOK, TypeOK
  <1>13. CASE UpdateHeader(x)
    <2>1. local[x].count \in 0..Cardinality(Member)
      BY DEF TypeOK, LocalState
    <2>2. header' = local[x].count /\ UNCHANGED <<status, row, channel, local, undone, grounds, left>>
      BY <1>13 DEF UpdateHeader
    <2> QED
      BY <1>1, <1>2, <2>1, <2>2 DEF ReportTypeOK, TypeOK
  <1>14. CASE HandlerThrows(x)
    <2>1. left' \in [EnvEvent -> Nat]
      BY <1>14, Spending DEF HandlerThrows, EnvEvent, TypeOK
    <2>2. UNCHANGED <<status, row, channel, header, local, undone, grounds>>
      BY <1>14 DEF HandlerThrows, Mishap
    <2> QED
      BY <1>1, <1>2, <2>1, <2>2 DEF ReportTypeOK, TypeOK
  <1> QED
    BY <1>3, <1>4, <1>5, <1>6, <1>8, <1>9, <1>10, <1>11, <1>12, <1>13, <1>14 DEF HandlerActs

LEMMA ConnectTypeOK ==
    ASSUME TypeOK, NEW m \in Member, ConnectActs(m)
    PROVE  TypeOK'
  <1> USE DEF Calm, Unrecorded, historyVars, slackVars, handlerVars
  <1>1. CASE FollowLink(m)
    <2>1. left' \in [EnvEvent -> Nat]
      BY <1>1, Spending DEF FollowLink, EnvEvent, TypeOK
    <2> QED
      BY <1>1, <2>1 DEF FollowLink, TypeOK
  <1>2. CASE LinkExpires(m)
    BY <1>2 DEF LinkExpires, TypeOK
  <1>3. CASE VerifyState(m)
    <2>1. cpc[m] = "idle" /\ found[m] = NoPost
      BY <1>3 DEF VerifyState, TypeOK
    <2> QED
      BY <1>3, <2>1 DEF VerifyState, TypeOK
  <1>4. CASE SaveToken(m)
    <2>1. token' \in [Member -> TokenState] /\ cpc' \in [Member -> {"idle", "save", "find", "swap"}]
      BY <1>4 DEF SaveToken, TokenState, TypeOK
    <2>2. /\ \A n \in Member : link'[n] # "none" => cpc'[n] = "idle"
          /\ \A n \in Member : cpc'[n] = "swap" <=> cpc[n] = "swap"
      BY <1>4 DEF SaveToken, TypeOK
    <2> QED
      BY <1>4, <2>1, <2>2 DEF SaveToken, TypeOK
  <1>5. CASE FindBotReport(m)
    <2>1. CASE BotReports(m) = {}
      <3>0. cpc' = [cpc EXCEPT ![m] = "idle"]
        BY <1>5, <2>1 DEF FindBotReport
      <3>1. cpc' \in [Member -> {"idle", "save", "find", "swap"}]
        BY <3>0 DEF TypeOK
      <3>2. /\ \A n \in Member : link[n] # "none" => cpc'[n] = "idle"
            /\ \A n \in Member : cpc'[n] = "swap" <=> cpc[n] = "swap"
        BY <1>5, <2>1 DEF FindBotReport, TypeOK
      <3> QED
        BY <1>5, <2>1, <3>1, <3>2 DEF FindBotReport, Mishap, TypeOK
    <2>2. CASE BotReports(m) # {}
      <3> DEFINE d == IF "today" \in BotReports(m) THEN "today" ELSE "old"
      <3>1. d \in Day /\ row[m][d].ts # NoPost
        BY <2>2 DEF BotReports, Day
      <3>2. row[m][d].ts \in 1..Len(channel)
        BY <3>1 DEF TypeOK, RowState, NoPost
      <3>3. found' = [found EXCEPT ![m] = row[m][d].ts] /\ cpc' = [cpc EXCEPT ![m] = "swap"]
        BY <1>5, <2>2 DEF FindBotReport
      <3> HIDE DEF d
      <3>4. /\ found' \in [Member -> Nat] /\ cpc' \in [Member -> {"idle", "save", "find", "swap"}]
            /\ \A n \in Member : IF cpc'[n] = "swap" THEN found'[n] \in 1..Len(channel) ELSE found'[n] = NoPost
        BY <3>2, <3>3 DEF TypeOK
      <3> QED
        BY <1>5, <3>4 DEF FindBotReport, Mishap, TypeOK
    <2> QED
      BY <2>1, <2>2
  <1>6. CASE SwapFooter(m)
    <2>1. found[m] \in 1..Len(channel) /\ Edit(found[m], "connected")
      BY <1>6 DEF SwapFooter, TypeOK
    <2>2. channel' \in Seq(PostState) /\ Len(channel') = Len(channel)
      BY <2>1, Editing DEF TypeOK
    <2> QED
      BY <1>6, <2>2 DEF SwapFooter, NoPost, TypeOK
  <1>7. CASE ConnectThrows(m)
    <2>1. left' \in [EnvEvent -> Nat]
      BY <1>7, Spending DEF ConnectThrows, EnvEvent, TypeOK
    <2> QED
      BY <1>7, <2>1 DEF ConnectThrows, NoPost, Mishap, TypeOK
  <1>8. CASE RevokeToken(m)
    <2>1. left' \in [EnvEvent -> Nat]
      BY <1>8, Spending DEF RevokeToken, EnvEvent, TypeOK
    <2>2. token' \in [Member -> TokenState]
      BY <1>8 DEF RevokeToken, TokenState, TypeOK
    <2> QED
      BY <1>8, <2>1, <2>2 DEF RevokeToken, connectVars, TypeOK
  <1> QED
    BY <1>1, <1>2, <1>3, <1>4, <1>5, <1>6, <1>7, <1>8 DEF ConnectActs

LEMMA NextTypeOK == TypeOK /\ [Next]_vars => TypeOK'
  <1> SUFFICES ASSUME TypeOK, [Next]_vars
               PROVE  TypeOK'
    OBVIOUS
  <1>1. CASE WorkerActs
    <2>1. /\ UNCHANGED <<row, token, opening, channel, header, pc, local, link, cpc, found>>
          /\ worker' \in WorkerJob \cup {NoJob} /\ left' \in [EnvEvent -> Nat]
      BY <1>1, WorkerMoves DEF slackVars, handlerVars, connectVars
    <2>2. /\ status' \in [Member -> {"none", "in_progress", "completed", "timed_out"}]
          /\ undone' \subseteq Member /\ grounds' \in [Member -> Nat]
      <3>1. CASE UNCHANGED <<status, undone, grounds>>
        BY <3>1 DEF TypeOK
      <3>2. ASSUME NEW m \in Member, status' = [status EXCEPT ![m] = "in_progress"], Allow(m), UNCHANGED undone
            PROVE  /\ status' \in [Member -> {"none", "in_progress", "completed", "timed_out"}]
                   /\ undone' \subseteq Member /\ grounds' \in [Member -> Nat]
        BY <3>2 DEF TypeOK, Allow
      <3>3. ASSUME NEW m \in Member, NEW new \in {"in_progress", "timed_out"}, Overwrite(m, new),
                   Allow(m) \/ UNCHANGED grounds
            PROVE  /\ status' \in [Member -> {"none", "in_progress", "completed", "timed_out"}]
                   /\ undone' \subseteq Member /\ grounds' \in [Member -> Nat]
        <4>1. grounds' \in [Member -> Nat]
          BY <3>3 DEF TypeOK, Allow
        <4> QED
          BY <3>3, <4>1, Overwriting
      <3> QED
        BY <1>1, <3>1, <3>2, <3>3, WorkerMoves
    <2> QED
      BY <2>1, <2>2 DEF TypeOK
  <1>2. CASE RotateSecret
    <2>1. left' \in [EnvEvent -> Nat]
      BY <1>2, Spending DEF RotateSecret, EnvEvent, TypeOK
    <2>2. /\ token' \in [Member -> TokenState] /\ link' \in [Member -> {"none", "fresh", "stale"}]
          /\ \A m \in Member : cpc'[m] = "idle"
          /\ UNCHANGED <<status, row, opening, channel, header, pc, local, worker, cpc, found>>
          /\ UNCHANGED <<undone, grounds>>
      BY <1>2 DEF RotateSecret, Unrecorded, historyVars, slackVars, handlerVars, TokenState
    <2> QED
      BY <2>1, <2>2 DEF TypeOK
  <1>3. CASE UNCHANGED vars
    BY <1>3 DEF vars, slackVars, handlerVars, connectVars, historyVars, TypeOK
  <1> QED
    BY <1>1, <1>2, <1>3, Steps, HandlerTypeOK, ConnectTypeOK

(* Every variable keeps its type, the header never counts more than the     *)
(* members, and no row, handler or callback holds a timestamp under which   *)
(* there is no message.                                                     *)
THEOREM TypeCorrect == Spec => []TypeOK
  BY InitTypeOK, NextTypeOK, PTL DEF Spec

-----------------------------------------------------------------------------
(* A post keeps its place, its author and its identity, and a footer that   *)
(* does not ask to connect never asks again.                                *)

ChannelKept ==
    /\ Len(channel) \in Nat /\ Len(channel') \in Nat /\ Len(channel) <= Len(channel')
    /\ \A k \in 1..Len(channel) :
          /\ channel'[k].who = channel[k].who /\ channel'[k].as = channel[k].as
          /\ channel[k].footer # "nudge" => channel'[k].footer # "nudge"

LEMMA ChannelSteps ==
    ASSUME TypeOK, [Next]_vars
    PROVE  \/ UNCHANGED channel
           \/ \E x \in Message, id \in {"bot", "user"} :
                 /\ Post(Author[x], id)
                 /\ PostAsUser(x) \/ PostAsBot(x) \/ PostAnswerLost(x)
           \/ \E m \in Member : SwapFooter(m)
  <1> USE DEF slackVars, handlerVars, connectVars
  <1>1. ASSUME NEW x \in Message, PostAsUser(x) \/ PostAsBot(x) \/ PostAnswerLost(x)
        PROVE  UNCHANGED channel \/ \E id \in {"bot", "user"} : Post(Author[x], id)
    BY <1>1 DEF PostAsUser, PostAsBot, PostAnswerLost, Posted
  <1>2. ASSUME NEW x \in Message,
               \/ Receive(x) \/ Complete(x) \/ Abort(x) \/ Outro(x) \/ ReadToken(x) \/ RecordPost(x)
               \/ CountReports(x) \/ UpdateHeader(x) \/ Nudge(x) \/ HandlerThrows(x)
        PROVE  UNCHANGED channel
    BY <1>2 DEF Receive, Complete, Abort, Outro, ReadToken, RecordPost, CountReports, UpdateHeader,
                Nudge, HandlerThrows
  <1>3. ASSUME NEW m \in Member, ConnectActs(m), ~SwapFooter(m)
        PROVE  UNCHANGED channel
    BY <1>3 DEF ConnectActs, FollowLink, LinkExpires, VerifyState, SaveToken, FindBotReport,
                ConnectThrows, RevokeToken
  <1>4. CASE WorkerActs
    BY <1>4, WorkerMoves
  <1>5. CASE RotateSecret \/ UNCHANGED vars
    BY <1>5 DEF RotateSecret, vars
  <1> QED
    BY <1>1, <1>2, <1>3, <1>4, <1>5, Steps DEF HandlerActs, ConnectActs

LEMMA ChannelIsKept ==
    ASSUME TypeOK, [Next]_vars
    PROVE  ChannelKept
  <1>0. Len(channel) \in Nat /\ channel \in Seq(PostState)
    BY LenProperties DEF TypeOK
  <1>1. CASE UNCHANGED channel
    BY <1>0, <1>1 DEF ChannelKept
  <1>2. ASSUME NEW m \in Member, NEW id \in {"bot", "user"}, Post(m, id)
        PROVE  ChannelKept
    <2>1. /\ Len(channel') = Len(channel) + 1
          /\ \A k \in 1..Len(channel) : channel'[k] = channel[k]
      BY <1>0, <1>2, PostAppends
    <2> QED
      BY <1>0, <2>1 DEF ChannelKept
  <1>3. ASSUME NEW m \in Member, SwapFooter(m)
        PROVE  ChannelKept
    <2>1. found[m] \in 1..Len(channel) /\ Edit(found[m], "connected")
      BY <1>3 DEF SwapFooter, TypeOK
    <2>2. /\ Len(channel') = Len(channel)
          /\ \A j \in 1..Len(channel) :
                /\ channel'[j].who = channel[j].who /\ channel'[j].as = channel[j].as
                /\ channel'[j].footer = IF j = found[m] THEN "connected" ELSE channel[j].footer
      BY <1>0, <2>1, Editing
    <2> QED
      BY <1>0, <2>2 DEF ChannelKept
  <1> QED
    BY <1>1, <1>2, <1>3, ChannelSteps, Authors

(* Once written, a mishap stays written.                                    *)
LEMMA MishapsGrow ==
    ASSUME TypeOK, [Next]_vars, NEW es, Undisturbed(es)'
    PROVE  Undisturbed(es)
  <1> USE DEF Calm, Unrecorded, historyVars
  <1>1. mishaps \subseteq mishaps'
    <2>1. ASSUME NEW x \in Message, HandlerActs(x)
          PROVE  mishaps \subseteq mishaps'
      <3>1. CASE \/ Receive(x) \/ Complete(x) \/ Abort(x) \/ Outro(x) \/ ReadToken(x) \/ RecordPost(x)
                 \/ PostAsUser(x) \/ PostAsBot(x) \/ UpdateHeader(x) \/ Nudge(x)
        BY <3>1 DEF Receive, Complete, Abort, Outro, ReadToken, RecordPost, PostAsUser, PostAsBot,
                    UpdateHeader, Nudge
      <3>2. CASE CountReports(x) \/ HandlerThrows(x) \/ PostAnswerLost(x)
        BY <3>2 DEF CountReports, HandlerThrows, PostAnswerLost, Mishap
      <3> QED
        BY <2>1, <3>1, <3>2 DEF HandlerActs
    <2>2. ASSUME NEW m \in Member, ConnectActs(m)
          PROVE  mishaps \subseteq mishaps'
      BY <2>2 DEF ConnectActs, FollowLink, LinkExpires, VerifyState, SaveToken, FindBotReport,
                  SwapFooter, ConnectThrows, RevokeToken, Mishap
    <2>3. CASE WorkerActs
      BY <2>3, WorkerMoves
    <2>4. CASE RotateSecret \/ UNCHANGED vars
      BY <2>4 DEF RotateSecret, vars
    <2> QED
      BY <2>1, <2>2, <2>3, <2>4, Steps
  <1> QED
    BY <1>1 DEF Undisturbed

(* A failure or a lost answer is remembered.                                *)
LEMMA Remembered ==
    ASSUME NEW x \in Message, HandlerThrows(x) \/ PostAnswerLost(x)
    PROVE  "throw" \in mishaps' \/ "lost" \in mishaps'
  BY DEF HandlerThrows, PostAnswerLost, Mishap

-----------------------------------------------------------------------------
(* A report that was completed once stays known as one.                     *)

Done(m) == status[m] = "completed" \/ m \in undone

LEMMA StatusSteps ==
    ASSUME TypeOK, [Next]_vars
    PROVE  \/ UNCHANGED <<status, undone>>
           \/ \E m \in Member :
                 /\ status[m] = "none" /\ status' = [status EXCEPT ![m] = "in_progress"]
                 /\ UNCHANGED undone
           \/ \E m \in Member, new \in {"in_progress", "timed_out"} : Overwrite(m, new)
           \/ \E x \in Message :
                 /\ Complete(x)
                 /\ status' = [status EXCEPT ![Author[x]] = "completed"] /\ UNCHANGED undone
  <1> USE DEF Calm, Unrecorded, historyVars
  <1>1. ASSUME NEW x \in Message,
               \/ Receive(x) \/ Outro(x) \/ ReadToken(x) \/ RecordPost(x) \/ PostAsUser(x) \/ PostAsBot(x)
               \/ CountReports(x) \/ UpdateHeader(x) \/ Nudge(x) \/ HandlerThrows(x) \/ PostAnswerLost(x)
        PROVE  UNCHANGED <<status, undone>>
    BY <1>1 DEF Receive, Outro, ReadToken, RecordPost, PostAsUser, PostAsBot, CountReports,
                UpdateHeader, Nudge, HandlerThrows, PostAnswerLost, Mishap
  <1>2. ASSUME NEW x \in Message, Complete(x)
        PROVE  status' = [status EXCEPT ![Author[x]] = "completed"] /\ UNCHANGED undone
    BY <1>2 DEF Complete
  <1>3. ASSUME NEW x \in Message, Abort(x)
        PROVE  \E m \in Member, new \in {"in_progress", "timed_out"} : Overwrite(m, new)
    BY <1>3, Authors DEF Abort
  <1>4. ASSUME NEW m \in Member, ConnectActs(m)
        PROVE  UNCHANGED <<status, undone>>
    BY <1>4 DEF ConnectActs, FollowLink, LinkExpires, VerifyState, SaveToken, FindBotReport,
                SwapFooter, ConnectThrows, RevokeToken, Mishap
  <1>5. CASE WorkerActs
    BY <1>5, WorkerMoves
  <1>6. CASE RotateSecret \/ UNCHANGED vars
    BY <1>6 DEF RotateSecret, vars
  <1> QED
    BY <1>1, <1>2, <1>3, <1>4, <1>5, <1>6, Steps DEF HandlerActs

LEMMA DoneStays ==
    ASSUME TypeOK, [Next]_vars, NEW n \in Member, Done(n)
    PROVE  Done(n)'
  <1>1. CASE UNCHANGED <<status, undone>>
    BY <1>1 DEF Done
  <1>2. ASSUME NEW m \in Member, status[m] = "none", status' = [status EXCEPT ![m] = "in_progress"],
               UNCHANGED undone
        PROVE  Done(n)'
    BY <1>2 DEF Done, TypeOK
  <1>3. ASSUME NEW m \in Member, NEW new \in {"in_progress", "timed_out"}, Overwrite(m, new)
        PROVE  Done(n)'
    BY <1>3, Overwriting DEF Done
  <1>4. ASSUME NEW x \in Message, status' = [status EXCEPT ![Author[x]] = "completed"], UNCHANGED undone
        PROVE  Done(n)'
    BY <1>4 DEF Done, TypeOK
  <1> QED
    BY <1>1, <1>2, <1>3, <1>4, StatusSteps


-----------------------------------------------------------------------------
(* What a handler's step does: it completes the report, posts, writes the   *)
(* row, counts, shows the count, posts without an answer, or passes on.     *)

SameNotes == \A y \in Message : local'[y].ts = local[y].ts /\ local'[y].as = local[y].as

PostsNow(x, id) ==
    /\ pc[x] \in {"postUser", "postBot"} /\ Goto(x, "row")
    /\ Post(Author[x], id)
    /\ local' = [local EXCEPT ![x].ts = Len(channel) + 1, ![x].as = id]
    /\ UNCHANGED <<status, row, header, undone, grounds>>

PassesOn(x) ==
    /\ UNCHANGED <<row, channel, header, grounds>>
    /\ SameNotes /\ \A y \in Message : local'[y].count = local[y].count
    /\ pc'[x] \in {"complete", "abort", "token", "postUser", "postBot", "done"}
    /\ pc'[x] \in {"token", "postUser", "postBot"} => pc[x] \in {"outro", "token", "postUser"}
    /\ HandlerThrows(x) \/ pc[x] \in {"idle", "abort", "nudge"} \/ pc'[x] \in {"token", "postUser", "postBot"}
    /\ UNCHANGED <<status, undone>> \/ Abort(x)

LEMMA HandlerPaths ==
    ASSUME TypeOK, NEW x \in Message, HandlerActs(x)
    PROVE  /\ \A y \in Message : y # x => pc'[y] = pc[y]
           /\ \/ Complete(x) /\ pc[x] = "complete" /\ pc'[x] = "outro" /\ UNCHANGED <<row, channel, header, local>>
              \/ \E id \in {"bot", "user"} : PostsNow(x, id)
              \/ RecordPost(x) \/ CountReports(x) \/ UpdateHeader(x) \/ PostAnswerLost(x)
              \/ PassesOn(x)
  <1> USE DEF Calm, Unrecorded, historyVars, slackVars
  <1>1. \A y \in Message : y # x => pc'[y] = pc[y]
    BY HandlerMoves DEF TypeOK
  <1>2. CASE Complete(x)
    BY <1>1, <1>2 DEF Complete, Goto, TypeOK
  <1>3. CASE Receive(x) \/ Outro(x) \/ Nudge(x)
    <2>1. /\ UNCHANGED <<row, channel, header, grounds, local, status, undone>>
          /\ \/ pc[x] = "idle" /\ pc'[x] \in {"complete", "abort"}
             \/ pc[x] = "outro" /\ pc'[x] = "token"
             \/ pc[x] = "nudge" /\ pc'[x] = "done"
      BY <1>3 DEF Receive, Outro, Nudge, Goto, TypeOK
    <2> QED
      BY <1>1, <2>1 DEF PassesOn, SameNotes
  <1>4. CASE Abort(x)
    <2>1. /\ UNCHANGED <<row, channel, header, grounds, local>>
          /\ pc[x] = "abort" /\ pc'[x] = "done"
      BY <1>4 DEF Abort, Goto, TypeOK
    <2> QED
      BY <1>1, <1>4, <2>1 DEF PassesOn, SameNotes
  <1>5. CASE ReadToken(x)
    <2>1. UserToken(Author[x]) \in TokenState /\ local \in [Message -> LocalState]
      BY Authors DEF UserToken, TokenState, TypeOK
    <2>2. /\ SameNotes /\ \A y \in Message : local'[y].count = local[y].count
      BY <1>5, <2>1, KeepingToken DEF ReadToken, SameNotes
    <2>3. /\ UNCHANGED <<row, channel, header, grounds, status, undone>>
          /\ pc[x] = "token" /\ pc'[x] \in {"postUser", "postBot"}
      BY <1>5 DEF ReadToken, Goto, TypeOK
    <2> QED
      BY <1>1, <2>2, <2>3 DEF PassesOn
  <1>6. CASE PostAsUser(x)
    <2>1. CASE Refused(x)
      <3>1. /\ UNCHANGED <<row, channel, header, grounds, local, status, undone>>
            /\ pc[x] = "postUser" /\ pc'[x] = "postBot"
        BY <1>6, <2>1 DEF PostAsUser, Goto, TypeOK
      <3> QED
        BY <1>1, <3>1 DEF PassesOn, SameNotes
    <2>2. CASE ~Refused(x)
      <3>1. PostsNow(x, "user")
        BY <1>6, <2>2 DEF PostAsUser, Posted, PostsNow
      <3> QED
        BY <1>1, <3>1
    <2> QED
      BY <2>1, <2>2
  <1>7. CASE PostAsBot(x)
    <2>1. PostsNow(x, "bot")
      BY <1>7 DEF PostAsBot, Posted, PostsNow
    <2> QED
      BY <1>1, <2>1
  <1>8. CASE HandlerThrows(x)
    <2>1. /\ UNCHANGED <<row, channel, header, grounds, local, status, undone>>
          /\ \E next \in AfterFailure(pc[x]) : pc'[x] = next
      BY <1>8 DEF HandlerThrows, Mishap, Goto, TypeOK
    <2>2. /\ pc'[x] \in {"postBot", "done"}
          /\ pc'[x] = "postBot" => pc[x] \in {"token", "postUser"}
      BY <2>1 DEF AfterFailure
    <2> QED
      BY <1>1, <1>8, <2>1, <2>2 DEF PassesOn, SameNotes
  <1> QED
    BY <1>1, <1>2, <1>3, <1>4, <1>5, <1>6, <1>7, <1>8 DEF HandlerActs

(* The other steps leave the handlers and what they wrote alone.            *)
LEMMA OtherSteps ==
    ASSUME TypeOK, WorkerActs \/ (\E m \in Member : ConnectActs(m)) \/ RotateSecret \/ UNCHANGED vars
    PROVE  UNCHANGED <<pc, local, row, header, opening>>
  <1> USE DEF slackVars, handlerVars
  <1>1. ASSUME NEW m \in Member, ConnectActs(m)
        PROVE  UNCHANGED <<pc, local, row, header, opening>>
    BY <1>1 DEF ConnectActs, FollowLink, LinkExpires, VerifyState, SaveToken, FindBotReport,
                SwapFooter, ConnectThrows, RevokeToken
  <1>2. CASE WorkerActs
    BY <1>2, WorkerMoves
  <1>3. CASE RotateSecret \/ UNCHANGED vars
    BY <1>3 DEF RotateSecret, vars
  <1> QED
    BY <1>1, <1>2, <1>3

-----------------------------------------------------------------------------
(* What the rows say.  A row that names a post of today is that of a report *)
(* that was completed; the post is the member's, it is not the older one,   *)
(* and it appears under the identity in the row.                            *)

RowsHold ==
    /\ \A m \in Member :
          /\ PostOf(m, "old") # NoPost =>
                channel[PostOf(m, "old")].who = m /\ row[m]["old"].as = "bot"
          /\ PostOf(m, "today") # NoPost =>
                /\ Done(m)
                /\ PostOf(m, "today") # PostOf(m, "old")
                /\ channel[PostOf(m, "today")].who = m
                /\ channel[PostOf(m, "today")].as = row[m]["today"].as
    /\ \A x \in Message :
          /\ pc[x] \in Posting => Done(Author[x])
          /\ pc[x] = "row" =>
                /\ local[x].ts # NoPost /\ local[x].ts # PostOf(Author[x], "old")
                /\ channel[local[x].ts].who = Author[x]
                /\ channel[local[x].ts].as = local[x].as

(* The posts that rows and handlers name are the same after a step.         *)
LEMMA NamedPosts ==
    ASSUME TypeOK, ChannelKept
    PROVE  /\ \A m \in Member, d \in Day :
                 /\ PostOf(m, d) \in Nat /\ PostOf(m, d) <= Len(channel)
                 /\ PostOf(m, d) # NoPost =>
                       /\ PostOf(m, d) \in 1..Len(channel)
                       /\ channel'[PostOf(m, d)].who = channel[PostOf(m, d)].who
                       /\ channel'[PostOf(m, d)].as = channel[PostOf(m, d)].as
           /\ \A x \in Message : local[x].ts # NoPost =>
                 /\ local[x].ts \in 1..Len(channel)
                 /\ channel'[local[x].ts].who = channel[local[x].ts].who
                 /\ channel'[local[x].ts].as = channel[local[x].ts].as
  <1>1. /\ \A m \in Member, d \in Day : PostOf(m, d) \in Nat /\ PostOf(m, d) <= Len(channel)
        /\ \A x \in Message : local[x].ts \in Nat /\ local[x].ts <= Len(channel)
    BY DEF TypeOK, PostOf, RowState, LocalState
  <1>2. Len(channel) \in Nat
    BY DEF ChannelKept
  <1>3. /\ \A m \in Member, d \in Day : PostOf(m, d) # NoPost => PostOf(m, d) \in 1..Len(channel)
        /\ \A x \in Message : local[x].ts # NoPost => local[x].ts \in 1..Len(channel)
    BY <1>1, <1>2 DEF NoPost
  <1> QED
    BY <1>1, <1>3 DEF ChannelKept

(* A step that leaves the rows alone, and whose handler, if one moves, does *)
(* not come to the update of the row.                                       *)
LEMMA RowsHoldAside ==
    ASSUME TypeOK, RowsHold, [Next]_vars, UNCHANGED row, SameNotes,
           \A x \in Message :
              /\ pc'[x] = "row" => pc[x] = "row"
              /\ pc'[x] \in Posting => pc[x] \in Posting \/ Done(Author[x])'
    PROVE  RowsHold'
  <1>0. ChannelKept /\ "old" \in Day /\ "today" \in Day
    BY ChannelIsKept DEF Day
  <1>1. ASSUME NEW m \in Member
        PROVE  /\ PostOf(m, "old") # NoPost =>
                     channel'[PostOf(m, "old")].who = m /\ row[m]["old"].as = "bot"
               /\ PostOf(m, "today") # NoPost =>
                     /\ Done(m)'
                     /\ PostOf(m, "today") # PostOf(m, "old")
                     /\ channel'[PostOf(m, "today")].who = m
                     /\ channel'[PostOf(m, "today")].as = row[m]["today"].as
    BY <1>0, NamedPosts, DoneStays DEF RowsHold
  <1>2. ASSUME NEW x \in Message
        PROVE  /\ pc'[x] \in Posting => Done(Author[x])'
               /\ pc'[x] = "row" =>
                     /\ local'[x].ts # NoPost /\ local'[x].ts # PostOf(Author[x], "old")
                     /\ channel'[local'[x].ts].who = Author[x]
                     /\ channel'[local'[x].ts].as = local'[x].as
    <2>1. pc'[x] \in Posting => Done(Author[x])'
      BY Authors, DoneStays DEF RowsHold
    <2>2. pc'[x] = "row" =>
                     /\ local'[x].ts # NoPost /\ local'[x].ts # PostOf(Author[x], "old")
                     /\ channel'[local'[x].ts].who = Author[x]
                     /\ channel'[local'[x].ts].as = local'[x].as
      BY <1>0, NamedPosts DEF RowsHold, SameNotes
    <2> QED
      BY <2>1, <2>2
  <1>3. \A m \in Member, d \in Day : PostOf(m, d)' = PostOf(m, d)
    BY DEF PostOf
  <1> QED
    BY <1>0, <1>1, <1>2, <1>3, Authors DEF RowsHold, PostOf

LEMMA RowsHoldStep ==
    ASSUME TypeOK, RowsHold, [Next]_vars
    PROVE  RowsHold'
  <1>0. ChannelKept /\ "old" \in Day /\ "today" \in Day
    BY ChannelIsKept DEF Day
  <1>1. CASE WorkerActs \/ (\E m \in Member : ConnectActs(m)) \/ RotateSecret \/ UNCHANGED vars
    <2>1. UNCHANGED <<pc, local, row>>
      BY <1>1, OtherSteps
    <2> QED
      BY <2>1, RowsHoldAside DEF SameNotes
  <1>2. ASSUME NEW x \in Message, HandlerActs(x)
        PROVE  RowsHold'
    <2>0. Author[x] \in Member /\ \A y \in Message : y # x => pc'[y] = pc[y] /\ local'[y] = local[y]
      BY <1>2, Authors, HandlerPaths, HandlerMoves
    <2>1. CASE Complete(x) /\ pc'[x] = "outro" /\ UNCHANGED <<row, channel, header, local>>
      <3>1. Done(Author[x])'
        BY <2>0, <2>1 DEF Complete, Done, TypeOK
      <3> QED
        BY <2>0, <2>1, <3>1, RowsHoldAside DEF SameNotes
    <2>2. ASSUME NEW id \in {"bot", "user"}, PostsNow(x, id)
          PROVE  RowsHold'
      <3> DEFINE ts == Len(channel) + 1
      <3>1. /\ local \in [Message -> LocalState] /\ channel \in Seq(PostState)
            /\ ts \in Nat /\ ts # NoPost /\ ~(ts <= Len(channel))
        BY <1>0 DEF TypeOK, ChannelKept, NoPost
      <3>2. channel'[ts] = Blocks(Author[x], id)
        BY <2>0, <2>2, <3>1, PostAppends DEF PostsNow
      <3>3. channel'[ts].who = Author[x] /\ channel'[ts].as = id
        BY <3>2 DEF Blocks
      <3>4. local' = [local EXCEPT ![x].ts = ts, ![x].as = id]
        BY <2>2 DEF PostsNow
      <3> HIDE DEF ts
      <3>5. local'[x].ts = ts /\ local'[x].as = id
        BY <3>1, <3>4, Noting
      <3>6. pc[x] \in Posting /\ pc'[x] = "row" /\ row' = row
        BY <2>2 DEF PostsNow, Goto, Posting, TypeOK
      <3>7. PostOf(Author[x], "old") # ts
        BY <1>0, <2>0, <3>1, NamedPosts
      <3>8. ASSUME NEW m \in Member
            PROVE  /\ PostOf(m, "old") # NoPost =>
                         channel'[PostOf(m, "old")].who = m /\ row[m]["old"].as = "bot"
                   /\ PostOf(m, "today") # NoPost =>
                         /\ Done(m)'
                         /\ PostOf(m, "today") # PostOf(m, "old")
                         /\ channel'[PostOf(m, "today")].who = m
                         /\ channel'[PostOf(m, "today")].as = row[m]["today"].as
        BY <1>0, NamedPosts, DoneStays DEF RowsHold
      <3>9. ASSUME NEW y \in Message
            PROVE  /\ pc'[y] \in Posting => Done(Author[y])'
                   /\ pc'[y] = "row" =>
                         /\ local'[y].ts # NoPost /\ local'[y].ts # PostOf(Author[y], "old")
                         /\ channel'[local'[y].ts].who = Author[y]
                         /\ channel'[local'[y].ts].as = local'[y].as
        <4>1. pc'[y] \in Posting => pc[y] \in Posting
          BY <2>0, <3>6
        <4>2. pc'[y] \in Posting => Done(Author[y])'
          BY <4>1, Authors, DoneStays DEF RowsHold
        <4>3. CASE y = x
          BY <3>1, <3>3, <3>5, <3>7, <4>2, <4>3
        <4>4. CASE y # x
          <5>1. pc'[y] = pc[y] /\ local'[y] = local[y]
            BY <2>0, <4>4
          <5>2. pc[y] = "row" =>
                   /\ local[y].ts # NoPost /\ local[y].ts # PostOf(Author[y], "old")
                   /\ channel'[local[y].ts].who = Author[y] /\ channel'[local[y].ts].as = local[y].as
            BY <1>0, NamedPosts DEF RowsHold
          <5> QED
            BY <4>2, <5>1, <5>2
        <4> QED
          BY <4>3, <4>4
      <3> QED
        BY <3>6, <3>8, <3>9 DEF RowsHold, PostOf
    <2>3. CASE RecordPost(x)
      <3> DEFINE new == [ts |-> local[x].ts, as |-> local[x].as]
      <3>1. new \in RowState /\ new.ts = local[x].ts /\ new.as = local[x].as /\ row \in [Member -> [Day -> RowState]]
        BY DEF TypeOK, LocalState, RowState
      <3>2. /\ row' = [row EXCEPT ![Author[x]]["today"] = new] /\ pc[x] = "row" /\ pc'[x] \in {"count", "nudge"}
            /\ UNCHANGED <<status, undone, channel, local>>
        BY <2>3 DEF RecordPost, Goto, TypeOK, Calm, Unrecorded, historyVars, slackVars
      <3> HIDE DEF new
      <3>3. /\ row'[Author[x]]["today"] = new /\ row'[Author[x]]["old"] = row[Author[x]]["old"]
            /\ \A n \in Member : n # Author[x] => row'[n] = row[n]
        BY <2>0, <3>1, <3>2, Recording
      <3>4. pc[x] \in Posting /\ Done(Author[x]) /\ \A m \in Member : Done(m)' = Done(m)
        BY <3>2 DEF RowsHold, Posting, Done
      <3>5. \A y \in Message : pc'[y] \in Posting => y # x /\ pc'[y] = pc[y]
        BY <2>0, <3>2 DEF Posting
      <3>6. ASSUME NEW m \in Member
            PROVE  /\ PostOf(m, "old")' # NoPost =>
                         channel'[PostOf(m, "old")'].who = m /\ row'[m]["old"].as = "bot"
                   /\ PostOf(m, "today")' # NoPost =>
                         /\ Done(m)'
                         /\ PostOf(m, "today")' # PostOf(m, "old")'
                         /\ channel'[PostOf(m, "today")'].who = m
                         /\ channel'[PostOf(m, "today")'].as = row'[m]["today"].as
        <4>1. CASE m = Author[x]
          BY <2>0, <3>1, <3>2, <3>3, <3>4, <4>1 DEF RowsHold, PostOf
        <4>2. CASE m # Author[x]
          BY <3>2, <3>3, <3>4, <4>2 DEF RowsHold, PostOf
        <4> QED
          BY <4>1, <4>2
      <3>7. ASSUME NEW y \in Message
            PROVE  /\ pc'[y] \in Posting => Done(Author[y])'
                   /\ pc'[y] = "row" =>
                         /\ local'[y].ts # NoPost /\ local'[y].ts # PostOf(Author[y], "old")'
                         /\ channel'[local'[y].ts].who = Author[y]
                         /\ channel'[local'[y].ts].as = local'[y].as
        <4>1. PostOf(Author[y], "old")' = PostOf(Author[y], "old") /\ Author[y] \in Member
          BY <3>3, Authors DEF PostOf
        <4>2. "row" \in Posting
          BY DEF Posting
        <4> QED
          BY <3>2, <3>4, <3>5, <4>1, <4>2 DEF RowsHold
      <3> QED
        BY <3>6, <3>7 DEF RowsHold
    <2>4. CASE CountReports(x) \/ UpdateHeader(x)
      <3>0. Cardinality(Completed) \in 0..Cardinality(Member) /\ local \in [Message -> LocalState]
        BY CountsFit DEF TypeOK
      <3>1. SameNotes
        BY <2>4, <3>0, KeepingCount DEF CountReports, UpdateHeader, SameNotes
      <3>2. row' = row /\ pc'[x] \notin Posting
        BY <2>4 DEF CountReports, UpdateHeader, Goto, Posting, TypeOK
      <3> QED
        BY <2>0, <3>1, <3>2, RowsHoldAside DEF Posting
    <2>5. CASE PostAnswerLost(x)
      <3>1. row' = row /\ local' = local /\ pc[x] \in Posting /\ \E next \in AfterFailure(pc[x]) : pc'[x] = next
        BY <2>5 DEF PostAnswerLost, Goto, Posting, TypeOK
      <3>2. pc'[x] # "row"
        BY <3>1 DEF AfterFailure
      <3> QED
        BY <2>0, <3>1, <3>2, RowsHoldAside DEF SameNotes
    <2>6. CASE PassesOn(x)
      BY <2>0, <2>6, RowsHoldAside DEF PassesOn, Posting
    <2> QED
      BY <1>2, <2>1, <2>2, <2>3, <2>4, <2>5, <2>6, HandlerPaths
  <1> QED
    BY <1>1, <1>2, Steps

-----------------------------------------------------------------------------
(* Unless a call fails or an answer is lost, a completed report that no row *)
(* names a post of has a handler that is on the way to post it.             *)

Answered == Undisturbed({"throw", "lost"})

LinksFollow ==
    \A m \in Member : status[m] = "completed" /\ PostOf(m, "today") = NoPost =>
        \E x \in Message : Author[x] = m /\ pc[x] \in Posting

LEMMA OnlyHandlersComplete ==
    ASSUME TypeOK, [Next]_vars, NEW n \in Member, status'[n] = "completed"
    PROVE  status[n] = "completed" \/ \E x \in Message : Complete(x) /\ Author[x] = n
  <1>1. ASSUME NEW m \in Member, status' = [status EXCEPT ![m] = "in_progress"]
        PROVE  status[n] = "completed"
    BY <1>1 DEF TypeOK
  <1>2. ASSUME NEW m \in Member, NEW new \in {"in_progress", "timed_out"}, Overwrite(m, new)
        PROVE  status[n] = "completed"
    BY <1>2, Overwriting
  <1>3. ASSUME NEW x \in Message, Complete(x), status' = [status EXCEPT ![Author[x]] = "completed"]
        PROVE  status[n] = "completed" \/ Author[x] = n
    BY <1>3, Authors DEF TypeOK
  <1> QED
    BY <1>1, <1>2, <1>3, StatusSteps

LEMMA LinksFollowStep ==
    ASSUME TypeOK, RowsHold, LinksFollow, [Next]_vars, Answered'
    PROVE  LinksFollow'
  <1>1. ASSUME \A y \in Message : pc[y] \in Posting => pc'[y] \in Posting,
               \A n \in Member : PostOf(n, "today")' = PostOf(n, "today"),
               \A x \in Message : Complete(x) => pc'[x] \in Posting
        PROVE  LinksFollow'
    BY <1>1, OnlyHandlersComplete DEF LinksFollow
  <1>2. CASE WorkerActs \/ (\E m \in Member : ConnectActs(m)) \/ RotateSecret \/ UNCHANGED vars
    <2>1. UNCHANGED <<pc, row>>
      BY <1>2, OtherSteps
    <2>2. \A x \in Message : ~Complete(x)
      BY <2>1 DEF Complete, Goto, TypeOK
    <2> QED
      BY <1>1, <2>1, <2>2 DEF PostOf
  <1>3. ASSUME NEW x \in Message, HandlerActs(x)
        PROVE  LinksFollow'
    <2>0. Author[x] \in Member /\ \A y \in Message : y # x => pc'[y] = pc[y]
      BY <1>3, Authors, HandlerPaths
    <2>1. \A y \in Message : Complete(y) => pc[y] = "complete" /\ pc'[y] = "outro" /\ pc'[y] \in Posting
      BY DEF Complete, Goto, Posting, TypeOK
    <2>2. CASE Complete(x) /\ UNCHANGED <<row, channel, header, local>>
      BY <1>1, <2>0, <2>1, <2>2 DEF PostOf
    <2>3. ASSUME NEW id \in {"bot", "user"}, PostsNow(x, id)
          PROVE  LinksFollow'
      <3>1. pc'[x] \in Posting /\ row' = row
        BY <2>3 DEF PostsNow, Goto, Posting, TypeOK
      <3> QED
        BY <1>1, <2>0, <2>1, <3>1 DEF PostOf
    <2>4. CASE RecordPost(x)
      <3> DEFINE new == [ts |-> local[x].ts, as |-> local[x].as]
      <3>1. new \in RowState /\ new.ts = local[x].ts /\ row \in [Member -> [Day -> RowState]]
        BY DEF TypeOK, LocalState, RowState
      <3>2. /\ row' = [row EXCEPT ![Author[x]]["today"] = new] /\ pc[x] = "row"
            /\ status' = status
        BY <2>4 DEF RecordPost
      <3> HIDE DEF new
      <3>3. PostOf(Author[x], "today")' # NoPost /\ \A n \in Member : n # Author[x] => row'[n] = row[n]
        <4>1. local[x].ts # NoPost
          BY <3>2 DEF RowsHold
        <4>2. row'[Author[x]]["today"] = new /\ \A n \in Member : n # Author[x] => row'[n] = row[n]
          BY <2>0, <3>1, <3>2, Recording
        <4> QED
          BY <3>1, <4>1, <4>2 DEF PostOf
      <3>4. ASSUME NEW n \in Member, status'[n] = "completed", PostOf(n, "today")' = NoPost
            PROVE  \E y \in Message : Author[y] = n /\ pc'[y] \in Posting
        <4>1. n # Author[x] /\ PostOf(n, "today") = NoPost /\ status[n] = "completed"
          BY <3>2, <3>3, <3>4 DEF PostOf
        <4> QED
          BY <2>0, <4>1 DEF LinksFollow
      <3> QED
        BY <3>4 DEF LinksFollow
    <2>5. CASE CountReports(x) \/ UpdateHeader(x)
      <3>1. row' = row /\ pc[x] \notin Posting
        BY <2>5 DEF CountReports, UpdateHeader, Posting
      <3> QED
        BY <1>1, <2>0, <2>1, <3>1 DEF PostOf
    <2>6. CASE PassesOn(x)
      <3>1. ~HandlerThrows(x)
        BY Remembered DEF Answered, Undisturbed
      <3>2. row' = row /\ (pc[x] \in Posting => pc'[x] \in Posting)
        BY <2>6, <3>1 DEF PassesOn, Posting
      <3> QED
        BY <1>1, <2>0, <2>1, <3>2 DEF PostOf
    <2>7. ~PostAnswerLost(x)
      BY Remembered DEF Answered, Undisturbed
    <2> QED
      BY <1>3, <2>2, <2>3, <2>4, <2>5, <2>6, <2>7, HandlerPaths
  <1> QED
    BY <1>2, <1>3, Steps

-----------------------------------------------------------------------------
(* The posts about a report, those its handlers are still to make and the   *)
(* one that an open report allows are within its grounds.                   *)

Unposted == {"outro", "token", "postUser", "postBot"}

Pending(m) == {x \in Message : Author[x] = m /\ pc[x] \in Unposted}

Open(m) == IF status[m] = "in_progress" THEN 1 ELSE 0

Owing(m) ==
    /\ IsFiniteSet(Pending(m))
    /\ Cardinality(PostsAbout(m, "today")) + Cardinality(Pending(m)) + Open(m) <= grounds[m]

PostsCounted == \A m \in Member : Owing(m)

Todays(m) == {k \in 1..Len(channel) : channel[k].who = m /\ k # PostOf(m, "old")}

LEMMA TodaysCount ==
    ASSUME TypeOK, NEW m \in Member
    PROVE  /\ PostsAbout(m, "today") = Todays(m)
           /\ IsFiniteSet(Todays(m)) /\ Cardinality(Todays(m)) \in Nat
  <1>1. DOMAIN channel = 1..Len(channel) /\ Len(channel) \in Nat
    BY LenProperties DEF TypeOK
  <1>2. PostsAbout(m, "today") = Todays(m)
    BY <1>1 DEF PostsAbout, Todays, PostOf
  <1>3. IsFiniteSet(1..Len(channel))
    BY <1>1, FS_Interval
  <1>4. Todays(m) \subseteq 1..Len(channel)
    BY DEF Todays
  <1> QED
    BY <1>2, <1>3, <1>4, FS_Subset, FS_CardinalityType

(* The older row never changes.                                             *)
LEMMA OlderRows ==
    ASSUME TypeOK, [Next]_vars
    PROVE  \A m \in Member : PostOf(m, "old")' = PostOf(m, "old")
  <1>1. CASE UNCHANGED row
    BY <1>1 DEF PostOf
  <1>2. ASSUME NEW x \in Message, RecordPost(x)
        PROVE  \A m \in Member : PostOf(m, "old")' = PostOf(m, "old")
    BY <1>2 DEF RecordPost, PostOf, Day, TypeOK
  <1>3. ASSUME NEW x \in Message, HandlerActs(x)
        PROVE  RecordPost(x) \/ UNCHANGED row
    BY <1>3, HandlerPaths DEF PostsNow, PassesOn, CountReports, UpdateHeader, PostAnswerLost
  <1> QED
    BY <1>1, <1>2, <1>3, OtherSteps, Steps

(* Where no message is posted the posts about everybody stay, and where one *)
(* is, they do but for its author's.                                        *)
LEMMA TodaysStay ==
    ASSUME TypeOK, [Next]_vars, NEW m \in Member,
           \/ Len(channel') = Len(channel)
           \/ \E n \in Member, id \in {"bot", "user"} : n # m /\ Post(n, id)
    PROVE  Todays(m)' = Todays(m)
  <1>0. ChannelKept /\ PostOf(m, "old")' = PostOf(m, "old") /\ channel \in Seq(PostState)
    BY ChannelIsKept, OlderRows DEF TypeOK
  <1>1. CASE Len(channel') = Len(channel)
    BY <1>0, <1>1 DEF ChannelKept, Todays
  <1>2. ASSUME NEW n \in Member, NEW id \in {"bot", "user"}, n # m, Post(n, id)
        PROVE  Todays(m)' = Todays(m)
    <2>1. /\ Len(channel) \in Nat /\ Len(channel') = Len(channel) + 1
          /\ \A k \in 1..Len(channel) : channel'[k] = channel[k]
          /\ channel'[Len(channel) + 1] = Blocks(n, id)
      BY <1>0, <1>2, PostAppends
    <2>2. Blocks(n, id).who = n
      BY DEF Blocks
    <2>3. \A k : k \in 1..Len(channel') <=> k \in 1..Len(channel) \/ k = Len(channel) + 1
      BY <2>1
    <2>4. \A k : k \in Todays(m)' <=> k \in Todays(m)
      BY <1>0, <1>2, <2>1, <2>2, <2>3 DEF Todays
    <2> QED
      BY <2>4
  <1> QED
    BY <1>1, <1>2

LEMMA OnePostMore ==
    ASSUME TypeOK, [Next]_vars, NEW m \in Member, NEW id \in {"bot", "user"}, Post(m, id)
    PROVE  Cardinality(Todays(m)') = Cardinality(Todays(m)) + 1
  <1>0. PostOf(m, "old")' = PostOf(m, "old") /\ channel \in Seq(PostState)
    BY OlderRows DEF TypeOK
  <1>1. /\ Len(channel) \in Nat /\ Len(channel') = Len(channel) + 1
        /\ \A k \in 1..Len(channel) : channel'[k] = channel[k]
        /\ channel'[Len(channel) + 1] = Blocks(m, id)
    BY <1>0, PostAppends
  <1>2. Blocks(m, id).who = m
    BY DEF Blocks
  <1>3. PostOf(m, "old") \in Nat /\ PostOf(m, "old") <= Len(channel)
    BY DEF TypeOK, PostOf, RowState, Day
  <1>4. \A k : k \in 1..Len(channel') <=> k \in 1..Len(channel) \/ k = Len(channel) + 1
    BY <1>1
  <1>5. Len(channel) + 1 \notin 1..Len(channel) /\ Len(channel) + 1 # PostOf(m, "old")
    BY <1>1, <1>3
  <1>6. \A k : k \in Todays(m)' <=> k \in Todays(m) \cup {Len(channel) + 1}
    BY <1>0, <1>1, <1>2, <1>4, <1>5 DEF Todays
  <1>7. Todays(m)' = Todays(m) \cup {Len(channel) + 1} /\ Len(channel) + 1 \notin Todays(m)
    BY <1>5, <1>6 DEF Todays
  <1>8. IsFiniteSet(Todays(m))
    BY TodaysCount
  <1> QED
    BY <1>7, <1>8, FS_AddElement

(* A member about whom nothing is posted and who gets no further handler:   *)
(* the report is not opened, or with one more reason to be posted.          *)
LEMMA OwingAside ==
    ASSUME TypeOK, TypeOK', [Next]_vars, NEW m \in Member, Owing(m),
           Todays(m)' = Todays(m), Pending(m)' \subseteq Pending(m),
           \/ grounds'[m] = grounds[m] /\ Open(m)' <= Open(m)
           \/ grounds'[m] = grounds[m] + 1
    PROVE  Owing(m)'
  <1>1. /\ Cardinality(PostsAbout(m, "today")') = Cardinality(PostsAbout(m, "today"))
        /\ Cardinality(PostsAbout(m, "today")) \in Nat
    <2>1. PostsAbout(m, "today") = Todays(m) /\ Cardinality(Todays(m)) \in Nat
      BY TodaysCount
    <2>2. PostsAbout(m, "today")' = Todays(m)'
      <3>1. DOMAIN channel' = 1..Len(channel')
        BY LenProperties DEF TypeOK
      <3> QED
        BY <3>1 DEF PostsAbout, Todays, PostOf
    <2> QED
      BY <2>1, <2>2
  <1>2. /\ IsFiniteSet(Pending(m)') /\ Cardinality(Pending(m)') <= Cardinality(Pending(m))
        /\ Cardinality(Pending(m)) \in Nat /\ Cardinality(Pending(m)') \in Nat
    BY FS_Subset, FS_CardinalityType DEF Owing
  <1>3. Open(m) \in 0..1 /\ Open(m)' \in 0..1 /\ grounds[m] \in Nat
    BY DEF Open, TypeOK
  <1> QED
    BY <1>1, <1>2, <1>3 DEF Owing

(* A handler that posts, and answers for the post or has lost its answer.   *)
LEMMA PostIsOwed ==
    ASSUME TypeOK, TypeOK', PostsCounted, [Next]_vars, NEW x \in Message, NEW id \in {"bot", "user"},
           Post(Author[x], id), UNCHANGED status, pc[x] \in Unposted,
           \A y \in Message : y # x => pc'[y] = pc[y],
           \A n \in Member : n # Author[x] => grounds'[n] = grounds[n],
           \/ pc'[x] \notin Unposted /\ grounds'[Author[x]] = grounds[Author[x]]
           \/ grounds'[Author[x]] = grounds[Author[x]] + 1
    PROVE  PostsCounted'
  <1> DEFINE m == Author[x]
  <1>0. m \in Member /\ \A n \in Member : Open(n)' = Open(n)
    BY Authors DEF Open
  <1>1. \A n \in Member : Pending(n)' \subseteq Pending(n)
    BY DEF Pending
  <1>2. ASSUME NEW n \in Member, n # m
        PROVE  Owing(n)'
    BY <1>0, <1>1, <1>2, TodaysStay, OwingAside DEF PostsCounted, Open
  <1> HIDE DEF m
  <1>3. Owing(m)'
    <2>0. m \in Member /\ Open(m)' = Open(m)
      BY <1>0
    <2>1. /\ Cardinality(PostsAbout(m, "today")') = Cardinality(PostsAbout(m, "today")) + 1
          /\ Cardinality(PostsAbout(m, "today")) \in Nat
      <3>1. PostsAbout(m, "today") = Todays(m) /\ Cardinality(Todays(m)) \in Nat
        BY <2>0, TodaysCount
      <3>2. DOMAIN channel' = 1..Len(channel')
        BY LenProperties DEF TypeOK
      <3>3. PostsAbout(m, "today")' = Todays(m)'
        BY <3>2 DEF PostsAbout, Todays, PostOf
      <3>4. Cardinality(Todays(m)') = Cardinality(Todays(m)) + 1
        BY <2>0, OnePostMore DEF m
      <3> QED
        BY <3>1, <3>3, <3>4
    <2>2. Owing(m) /\ IsFiniteSet(Pending(m))
      BY <2>0 DEF PostsCounted, Owing
    <2>3. Open(m) \in 0..1 /\ grounds[m] \in Nat
      BY <2>0 DEF Open, TypeOK
    <2>4. CASE pc'[x] \notin Unposted /\ grounds'[m] = grounds[m]
      <3>1. Pending(m)' \subseteq Pending(m) \ {x} /\ x \in Pending(m)
        BY <1>1, <2>0, <2>4 DEF Pending, m
      <3>2. IsFiniteSet(Pending(m) \ {x}) /\ Cardinality(Pending(m) \ {x}) = Cardinality(Pending(m)) - 1
        BY <2>2, <3>1, FS_RemoveElement
      <3>3. /\ IsFiniteSet(Pending(m)') /\ Cardinality(Pending(m)') <= Cardinality(Pending(m) \ {x})
        BY <3>1, <3>2, FS_Subset
      <3>4. /\ Cardinality(Pending(m)) \in Nat /\ Cardinality(Pending(m)') \in Nat
        BY <2>2, <3>3, FS_CardinalityType
      <3> QED
        BY <2>0, <2>1, <2>2, <2>3, <2>4, <3>2, <3>3, <3>4 DEF Owing
    <2>5. CASE grounds'[m] = grounds[m] + 1
      <3>1. /\ IsFiniteSet(Pending(m)') /\ Cardinality(Pending(m)') <= Cardinality(Pending(m))
        BY <1>1, <2>0, <2>2, FS_Subset
      <3>2. /\ Cardinality(Pending(m)) \in Nat /\ Cardinality(Pending(m)') \in Nat
        BY <2>2, <3>1, FS_CardinalityType
      <3> QED
        BY <2>0, <2>1, <2>2, <2>3, <2>5, <3>1, <3>2 DEF Owing
    <2> QED
      BY <2>4, <2>5 DEF m
  <1> QED
    BY <1>2, <1>3 DEF PostsCounted

(* A completing handler takes over what the open report allows; where the   *)
(* report is no longer open it has grounds of its own.                      *)
LEMMA CompletionIsOwed ==
    ASSUME TypeOK, TypeOK', PostsCounted, [Next]_vars, NEW x \in Message, Complete(x)
    PROVE  PostsCounted'
  <1> DEFINE m == Author[x]
  <1>0. m \in Member
    BY Authors
  <1>1. /\ pc[x] = "complete" /\ pc'[x] = "outro" /\ \A y \in Message : y # x => pc'[y] = pc[y]
        /\ status'[m] = "completed" /\ \A n \in Member : n # m => status'[n] = status[n]
        /\ UNCHANGED channel
    BY <1>0 DEF Complete, Goto, slackVars, TypeOK
  <1>2. /\ grounds'[m] = IF status[m] = "in_progress" THEN grounds[m] ELSE grounds[m] + 1
        /\ \A n \in Member : n # m => grounds'[n] = grounds[n]
    BY <1>0, Allowing DEF Complete, TypeOK
  <1>3. \A n \in Member : Todays(n)' = Todays(n)
    BY <1>1, TodaysStay
  <1>4. ASSUME NEW n \in Member, n # m
        PROVE  Owing(n)'
    <2>1. Pending(n)' = Pending(n)
      BY <1>1, <1>4 DEF Pending, Unposted
    <2> QED
      BY <1>1, <1>2, <1>3, <1>4, <2>1, OwingAside DEF PostsCounted, Open
  <1> HIDE DEF m
  <1>5. Owing(m)'
    <2>1. /\ Cardinality(PostsAbout(m, "today")') = Cardinality(PostsAbout(m, "today"))
          /\ Cardinality(PostsAbout(m, "today")) \in Nat
      <3>1. PostsAbout(m, "today") = Todays(m) /\ Cardinality(Todays(m)) \in Nat
        BY <1>0, TodaysCount
      <3>2. DOMAIN channel' = 1..Len(channel')
        BY LenProperties DEF TypeOK
      <3>3. PostsAbout(m, "today")' = Todays(m)'
        BY <3>2 DEF PostsAbout, Todays, PostOf
      <3> QED
        BY <1>0, <1>3, <3>1, <3>3
    <2>2. Owing(m) /\ IsFiniteSet(Pending(m)) /\ x \notin Pending(m)
      BY <1>0, <1>1 DEF PostsCounted, Owing, Pending, Unposted
    <2>3. Pending(m)' = Pending(m) \cup {x}
      BY <1>1 DEF Pending, Unposted, m
    <2>4. /\ IsFiniteSet(Pending(m)') /\ Cardinality(Pending(m)') = Cardinality(Pending(m)) + 1
          /\ Cardinality(Pending(m)) \in Nat
      BY <2>2, <2>3, FS_AddElement, FS_CardinalityType
    <2>5. grounds[m] \in Nat /\ Open(m)' = 0
      BY <1>0, <1>1 DEF Open, TypeOK
    <2>6. IF Open(m) = 1 THEN grounds'[m] = grounds[m] ELSE Open(m) = 0 /\ grounds'[m] = grounds[m] + 1
      BY <1>2 DEF Open
    <2> QED
      BY <2>1, <2>2, <2>4, <2>5, <2>6 DEF Owing
  <1> QED
    BY <1>4, <1>5 DEF PostsCounted

LEMMA PostsCountedStep ==
    ASSUME TypeOK, TypeOK', PostsCounted, [Next]_vars
    PROVE  PostsCounted'
  <1> USE DEF Calm, Unrecorded, historyVars, slackVars
  <1>0. ChannelKept
    BY ChannelIsKept
  <1>1. ASSUME UNCHANGED pc, Len(channel') = Len(channel),
               \A n \in Member :
                  \/ grounds'[n] = grounds[n] /\ Open(n)' <= Open(n)
                  \/ grounds'[n] = grounds[n] + 1
        PROVE  PostsCounted'
    <2>1. ASSUME NEW n \in Member
          PROVE  Owing(n)'
      <3>1. Todays(n)' = Todays(n) /\ Pending(n)' = Pending(n)
        BY <1>1, TodaysStay DEF Pending
      <3> QED
        BY <1>1, <3>1, OwingAside DEF PostsCounted
    <2> QED
      BY <2>1 DEF PostsCounted
  <1>2. \A n \in Member : Open(n) \in 0..1 /\ (status'[n] = status[n] => Open(n)' = Open(n))
    BY DEF Open
  <1>3. CASE WorkerActs
    <2>1. UNCHANGED <<pc, channel>>
      BY <1>3, WorkerMoves DEF handlerVars
    <2>2. ASSUME NEW n \in Member
          PROVE  \/ grounds'[n] = grounds[n] /\ Open(n)' <= Open(n)
                 \/ grounds'[n] = grounds[n] + 1
      <3>1. CASE UNCHANGED <<status, undone, grounds>>
        BY <1>2, <3>1
      <3>2. ASSUME NEW m \in Member, status' = [status EXCEPT ![m] = "in_progress"], Allow(m)
            PROVE  \/ grounds'[n] = grounds[n] /\ Open(n)' <= Open(n)
                   \/ grounds'[n] = grounds[n] + 1
        <4>1. /\ grounds'[m] = grounds[m] + 1 /\ (n # m => grounds'[n] = grounds[n])
              /\ n # m => status'[n] = status[n]
          BY <3>2, Allowing DEF TypeOK
        <4>2. n # m => Open(n)' <= Open(n)
          BY <1>2, <4>1
        <4> QED
          BY <4>1, <4>2
      <3>3. ASSUME NEW m \in Member, Overwrite(m, "in_progress"), Allow(m)
            PROVE  \/ grounds'[n] = grounds[n] /\ Open(n)' <= Open(n)
                   \/ grounds'[n] = grounds[n] + 1
        <4>1. status' = [status EXCEPT ![m] = "in_progress"]
          BY <3>3 DEF Overwrite
        <4> QED
          BY <3>2, <3>3, <4>1
      <3>4. ASSUME NEW m \in Member, Overwrite(m, "timed_out"), UNCHANGED grounds
            PROVE  \/ grounds'[n] = grounds[n] /\ Open(n)' <= Open(n)
                   \/ grounds'[n] = grounds[n] + 1
        <4>1. status'[m] = "timed_out" /\ (n # m => status'[n] = status[n])
          BY <3>4, Overwriting
        <4>2. Open(n)' <= Open(n)
          BY <1>2, <4>1 DEF Open
        <4> QED
          BY <3>4, <4>2
      <3> QED
        BY <1>3, <3>1, <3>2, <3>3, <3>4, WorkerMoves
    <2> QED
      BY <1>1, <2>1, <2>2
  <1>4. ASSUME NEW m \in Member, ConnectActs(m)
        PROVE  PostsCounted'
    <2>1. UNCHANGED <<pc, status, grounds>>
      BY <1>4, OtherSteps DEF ConnectActs, FollowLink, LinkExpires, VerifyState, SaveToken, FindBotReport,
                SwapFooter, ConnectThrows, RevokeToken, Mishap
    <2>2. Len(channel') = Len(channel)
      <3>1. CASE SwapFooter(m)
        <4>1. found[m] \in 1..Len(channel) /\ Edit(found[m], "connected") /\ channel \in Seq(PostState)
          BY <3>1 DEF SwapFooter, TypeOK
        <4> QED
          BY <4>1, Editing
      <3>2. CASE ~SwapFooter(m)
        <4>1. UNCHANGED channel
          BY <1>4, <3>2 DEF ConnectActs, FollowLink, LinkExpires, VerifyState, SaveToken, FindBotReport,
                ConnectThrows, RevokeToken
        <4> QED
          BY <4>1
      <3> QED
        BY <3>1, <3>2
    <2>3. \A n \in Member : grounds'[n] = grounds[n] /\ Open(n)' <= Open(n)
      BY <1>2, <2>1
    <2> QED
      BY <1>1, <2>1, <2>2, <2>3
  <1>5. CASE RotateSecret \/ UNCHANGED vars
    <2>1. UNCHANGED <<pc, status, grounds, channel>>
      BY <1>5 DEF RotateSecret, vars, handlerVars
    <2>2. \A n \in Member : grounds'[n] = grounds[n] /\ Open(n)' <= Open(n)
      BY <1>2, <2>1
    <2> QED
      BY <1>1, <2>1, <2>2
  <1>6. ASSUME NEW x \in Message, HandlerActs(x)
        PROVE  PostsCounted'
    <2>0. Author[x] \in Member /\ \A y \in Message : y # x => pc'[y] = pc[y]
      BY <1>6, Authors, HandlerPaths
    <2>1. ASSUME UNCHANGED <<channel, grounds>>, pc'[x] \in Unposted => pc[x] \in Unposted,
                 \A n \in Member : Open(n)' <= Open(n)
          PROVE  PostsCounted'
      <3>1. ASSUME NEW n \in Member
            PROVE  Owing(n)'
        <4>1. Todays(n)' = Todays(n) /\ Pending(n)' \subseteq Pending(n)
          BY <2>0, <2>1, TodaysStay DEF Pending
        <4> QED
          BY <2>1, <4>1, OwingAside DEF PostsCounted
      <3> QED
        BY <3>1 DEF PostsCounted
    <2>2. CASE Complete(x)
      BY <2>2, CompletionIsOwed
    <2>3. ASSUME NEW id \in {"bot", "user"}, PostsNow(x, id)
          PROVE  PostsCounted'
      <3>1. /\ Post(Author[x], id) /\ UNCHANGED <<status, grounds>>
            /\ pc[x] \in Unposted /\ pc'[x] \notin Unposted
        BY <2>3 DEF PostsNow, Goto, Unposted, TypeOK
      <3> QED
        BY <2>0, <3>1, PostIsOwed
    <2>4. CASE RecordPost(x) \/ CountReports(x) \/ UpdateHeader(x)
      <3>1. UNCHANGED <<channel, status, grounds>> /\ pc'[x] \notin Unposted
        BY <2>4 DEF RecordPost, CountReports, UpdateHeader, Mishap, Goto, Unposted, TypeOK
      <3>2. \A n \in Member : Open(n)' <= Open(n)
        BY <1>2, <3>1
      <3> QED
        BY <2>1, <3>1, <3>2
    <2>5. CASE PostAnswerLost(x)
      <3>1. /\ Post(Author[x], IF pc[x] = "postUser" THEN "user" ELSE "bot") /\ Allow(Author[x])
            /\ UNCHANGED status /\ pc[x] \in Unposted
        BY <2>5 DEF PostAnswerLost, Unposted
      <3>2. /\ grounds'[Author[x]] = grounds[Author[x]] + 1
            /\ \A n \in Member : n # Author[x] => grounds'[n] = grounds[n]
        BY <2>0, <3>1, Allowing DEF TypeOK
      <3> QED
        BY <2>0, <3>1, <3>2, PostIsOwed
    <2>6. CASE PassesOn(x)
      <3>1. UNCHANGED <<channel, grounds>> /\ (pc'[x] \in Unposted => pc[x] \in Unposted)
        BY <2>6 DEF PassesOn, Unposted
      <3>2. CASE UNCHANGED <<status, undone>>
        <4>1. \A n \in Member : Open(n)' <= Open(n)
          BY <1>2, <3>2
        <4> QED
          BY <2>1, <3>1, <4>1
      <3>3. CASE Abort(x)
        <4>1. status'[Author[x]] = "timed_out" /\ \A n \in Member : n # Author[x] => status'[n] = status[n]
          BY <2>0, <3>3, Overwriting DEF Abort
        <4>2. \A n \in Member : Open(n)' <= Open(n)
          BY <1>2, <4>1 DEF Open
        <4> QED
          BY <2>1, <3>1, <4>2
      <3> QED
        BY <2>6, <3>2, <3>3 DEF PassesOn
    <2> QED
      BY <1>6, <2>2, <2>3, <2>4, <2>5, <2>6, HandlerPaths
  <1> QED
    BY <1>3, <1>4, <1>5, <1>6, Steps

-----------------------------------------------------------------------------
(* The header's count, and those that handlers hold, are never above the    *)
(* number of reports that are, or once were, completed.                     *)

EverDone == Completed \cup undone

CountsLag ==
    /\ header <= Cardinality(EverDone)
    /\ \A x \in Message : local[x].count <= Cardinality(EverDone)

(* Counts change by counting, and the header by showing one.                *)
LEMMA CountingSteps ==
    ASSUME TypeOK, [Next]_vars
    PROVE  /\ \A y \in Message : CountReports(y) \/ local'[y].count = local[y].count
           /\ UNCHANGED header \/ \E x \in Message : UpdateHeader(x)
           /\ \A y \in Message : pc'[y] = "header" => pc[y] = "header" \/ CountReports(y)
  <1> USE DEF slackVars
  <1>1. ASSUME NEW x \in Message, HandlerActs(x)
        PROVE  /\ \A y \in Message : CountReports(y) \/ local'[y].count = local[y].count
               /\ UNCHANGED header \/ UpdateHeader(x)
               /\ \A y \in Message : pc'[y] = "header" => pc[y] = "header" \/ CountReports(y)
    <2>0. \A y \in Message : y # x => pc'[y] = pc[y] /\ local'[y] = local[y]
      BY <1>1, HandlerPaths, HandlerMoves
    <2>1. CASE Complete(x) /\ pc'[x] = "outro" /\ UNCHANGED <<row, channel, header, local>>
      BY <2>0, <2>1
    <2>2. ASSUME NEW id \in {"bot", "user"}, PostsNow(x, id)
          PROVE  UNCHANGED header /\ local'[x].count = local[x].count /\ pc'[x] = "row"
      <3>1. local \in [Message -> LocalState] /\ Len(channel) + 1 \in Nat
        BY LenProperties DEF TypeOK
      <3>2. local'[x].count = local[x].count
        BY <2>2, <3>1, Noting DEF PostsNow
      <3> QED
        BY <2>2, <3>2 DEF PostsNow, Goto, TypeOK
    <2>3. CASE RecordPost(x) \/ UpdateHeader(x)
      <3>1. local' = local /\ pc'[x] # "header" /\ (UNCHANGED header \/ UpdateHeader(x))
        BY <2>3 DEF RecordPost, UpdateHeader, Goto, TypeOK
      <3> QED
        BY <2>0, <3>1
    <2>4. CASE CountReports(x)
      BY <2>0, <2>4 DEF CountReports
    <2>5. CASE PostAnswerLost(x)
      <3>1. local' = local /\ UNCHANGED header /\ \E next \in AfterFailure(pc[x]) : pc'[x] = next
        BY <2>5 DEF PostAnswerLost, Goto, TypeOK
      <3>2. pc'[x] # "header"
        BY <3>1 DEF AfterFailure
      <3> QED
        BY <2>0, <3>1, <3>2
    <2>6. CASE PassesOn(x)
      BY <2>0, <2>6 DEF PassesOn
    <2> QED
      BY <1>1, <2>0, <2>1, <2>2, <2>3, <2>4, <2>5, <2>6, HandlerPaths
  <1>2. CASE WorkerActs \/ (\E m \in Member : ConnectActs(m)) \/ RotateSecret \/ UNCHANGED vars
    BY <1>2, OtherSteps
  <1> QED
    BY <1>1, <1>2, Steps

LEMMA CountsLagStep ==
    ASSUME TypeOK, TypeOK', CountsLag, [Next]_vars
    PROVE  CountsLag'
  <1>1. EverDone \subseteq EverDone'
    <2>1. \A n \in Member : n \in EverDone <=> Done(n)
      BY DEF EverDone, Completed, Done
    <2>2. \A n \in Member : n \in EverDone' <=> Done(n)'
      BY DEF EverDone, Completed, Done
    <2>3. EverDone \subseteq Member
      BY DEF EverDone, Completed, TypeOK
    <2> QED
      BY <2>1, <2>2, <2>3, DoneStays
  <1>2. /\ Cardinality(EverDone) \in Nat /\ Cardinality(EverDone') \in Nat
        /\ Cardinality(EverDone) <= Cardinality(EverDone')
    <2>1. EverDone' \subseteq Member
      BY DEF EverDone, Completed, TypeOK
    <2>2. IsFiniteSet(EverDone') /\ IsFiniteSet(EverDone)
      BY <1>1, <2>1, MemberAssumption, FS_Subset
    <2> QED
      BY <1>1, <2>2, FS_Subset, FS_CardinalityType
  <1>3. /\ header \in Nat /\ \A y \in Message : local[y].count \in Nat
        /\ Cardinality(Member) \in Nat
    BY CountsFit DEF TypeOK, LocalState
  <1>4. ASSUME NEW y \in Message
        PROVE  local'[y].count <= Cardinality(EverDone')
    <2>1. CASE local'[y].count = local[y].count
      BY <1>2, <1>3, <2>1 DEF CountsLag
    <2>2. CASE CountReports(y)
      <3>1. /\ Cardinality(Completed) \in 0..Cardinality(Member)
            /\ Cardinality(Completed) <= Cardinality(EverDone)
            /\ local \in [Message -> LocalState]
        BY CountsFit DEF EverDone, TypeOK
      <3>2. local'[y].count = Cardinality(Completed)
        BY <2>2, <3>1, KeepingCount DEF CountReports
      <3> QED
        BY <1>2, <3>1, <3>2
    <2> QED
      BY <2>1, <2>2, CountingSteps
  <1>5. header' <= Cardinality(EverDone')
    <2>1. CASE UNCHANGED header
      BY <1>2, <1>3, <2>1 DEF CountsLag
    <2>2. ASSUME NEW x \in Message, UpdateHeader(x)
          PROVE  header' <= Cardinality(EverDone')
      BY <1>2, <1>3, <2>2 DEF CountsLag, UpdateHeader
    <2> QED
      BY <2>1, <2>2, CountingSteps
  <1> QED
    BY <1>4, <1>5 DEF CountsLag

(* Unless a call fails or a handler counts while another is about to show   *)
(* its count, the last count taken covers every completed report whose      *)
(* handlers are through with counting.                                      *)

Uncounted == {m \in Member : \E x \in Message : Author[x] = m /\ pc[x] \in Posting \cup {"count"}}

Counted == Completed \ Uncounted

InTurn == Undisturbed({"throw", "lost", "crossed"})

LastCountStands ==
    /\ \A x, y \in Message : pc[x] = "header" /\ pc[y] = "header" => x = y
    /\ opening =>
         /\ \A x \in Message : pc[x] = "header" => Cardinality(Counted) <= local[x].count
         /\ (\A x \in Message : pc[x] # "header") => Cardinality(Counted) <= header

LEMMA CountedFits ==
    ASSUME TypeOK
    PROVE  /\ IsFiniteSet(Counted) /\ Cardinality(Counted) \in Nat
           /\ Cardinality(Counted) <= Cardinality(Completed) /\ Cardinality(Completed) \in Nat
  <1>1. Counted \subseteq Completed
    BY DEF Counted
  <1> QED
    BY <1>1, CountsFit, FS_Subset, FS_CardinalityType

(* Where nothing is counted nobody comes to be counted either.              *)
LEMMA CountedShrinks ==
    ASSUME TypeOK, [Next]_vars, InTurn', opening, \A x \in Message : ~CountReports(x)
    PROVE  Counted' \subseteq Counted
  <1>1. ASSUME NEW y \in Message, pc[y] \in Posting \cup {"count"}
        PROVE  pc'[y] \in Posting \cup {"count"}
    <2>1. ASSUME NEW x \in Message, HandlerActs(x)
          PROVE  pc'[y] \in Posting \cup {"count"}
      <3>0. y # x => pc'[y] = pc[y]
        BY <2>1, HandlerPaths
      <3>1. pc[x] \in Posting \cup {"count"} => pc'[x] \in Posting \cup {"count"}
        <4>1. ~HandlerThrows(x) /\ ~PostAnswerLost(x)
          BY Remembered DEF InTurn, Undisturbed
        <4>2. CASE Complete(x) /\ pc'[x] = "outro"
          BY <4>2 DEF Posting
        <4>3. ASSUME NEW id \in {"bot", "user"}, PostsNow(x, id)
              PROVE  pc'[x] \in Posting
          BY <4>3 DEF PostsNow, Goto, Posting, TypeOK
        <4>4. CASE RecordPost(x)
          BY <4>4 DEF RecordPost, Goto, TypeOK
        <4>5. CASE UpdateHeader(x)
          BY <4>5 DEF UpdateHeader, Posting
        <4>6. CASE PassesOn(x)
          BY <4>1, <4>6 DEF PassesOn, Posting
        <4> QED
          BY <2>1, <4>1, <4>2, <4>3, <4>4, <4>5, <4>6, HandlerPaths
      <3> QED
        BY <1>1, <3>0, <3>1
    <2> QED
      BY <1>1, <2>1, OtherSteps, Steps
  <1>2. ASSUME NEW n \in Member, n \in Completed', n \notin Uncounted'
        PROVE  n \in Completed
    <2>1. \A x \in Message : Complete(x) => pc'[x] = "outro"
      BY DEF Complete, Goto, TypeOK
    <2>2. \A x \in Message : Complete(x) => Author[x] # n
      BY <1>2, <2>1 DEF Uncounted, Posting
    <2> QED
      BY <1>2, <2>2, OnlyHandlersComplete DEF Completed
  <1>3. \A n \in Member : n \in Uncounted => n \in Uncounted'
    BY <1>1 DEF Uncounted
  <1>4. Counted' \subseteq Member
    BY DEF Counted, Completed
  <1> QED
    BY <1>2, <1>3, <1>4 DEF Counted

LEMMA LastCountStep ==
    ASSUME TypeOK, TypeOK', LastCountStands, [Next]_vars, InTurn'
    PROVE  LastCountStands'
  <1>0. opening' = opening
    BY HandlerMoves, OtherSteps, Steps
  <1>1. /\ IsFiniteSet(Counted) /\ Cardinality(Counted) \in Nat
        /\ Cardinality(Completed) \in Nat
    BY CountedFits
  <1>2. IsFiniteSet(Counted') /\ Cardinality(Counted') \in Nat
    <2>1. Counted' \subseteq Member
      BY DEF Counted, Completed
    <2> QED
      BY <2>1, MemberAssumption, FS_Subset, FS_CardinalityType
  <1>3. header \in Nat /\ \A y \in Message : local[y].count \in Nat
    BY CountsFit DEF TypeOK, LocalState
  <1>4. ASSUME NEW x \in Message, CountReports(x)
        PROVE  LastCountStands'
    <2>1. \A y \in Message : pc[y] # "header"
      BY <1>4 DEF CountReports, Crossing, Mishap, InTurn, Undisturbed
    <2>2. HandlerActs(x)
      BY <1>4 DEF HandlerActs
    <2>3. \A y \in Message : pc'[y] = "header" => y = x
      BY <2>1, <2>2, HandlerPaths
    <2>4. Cardinality(Completed) \in 0..Cardinality(Member) /\ local \in [Message -> LocalState]
      BY CountsFit DEF TypeOK
    <2>5. local'[x].count = Cardinality(Completed) /\ pc'[x] = "header" /\ Completed' = Completed
      BY <1>4, <2>4, KeepingCount DEF CountReports, Goto, TypeOK, Completed
    <2>6. Counted' \subseteq Completed
      BY <2>5 DEF Counted
    <2>7. Cardinality(Counted') <= Cardinality(Completed)
      BY <2>6, CountsFit, FS_Subset
    <2> QED
      BY <1>1, <1>2, <2>3, <2>5, <2>7 DEF LastCountStands
  <1>5. ASSUME \A x \in Message : ~CountReports(x)
        PROVE  LastCountStands'
    <2>1. opening => Cardinality(Counted') <= Cardinality(Counted)
      BY <1>1, <1>5, CountedShrinks, FS_Subset
    <2>2. \A y \in Message : /\ pc'[y] = "header" => pc[y] = "header"
                             /\ local'[y].count = local[y].count
      BY <1>5, CountingSteps
    <2>3. \A x, y \in Message : pc'[x] = "header" /\ pc'[y] = "header" => x = y
      BY <2>2 DEF LastCountStands
    <2>4. opening => \A x \in Message : pc'[x] = "header" => Cardinality(Counted') <= local'[x].count
      BY <1>1, <1>2, <1>3, <2>1, <2>2 DEF LastCountStands
    <2>5. ASSUME opening, \A x \in Message : pc'[x] # "header"
          PROVE  Cardinality(Counted') <= header'
      <3>1. ASSUME NEW x \in Message, UpdateHeader(x)
            PROVE  Cardinality(Counted') <= header'
        <4>1. header' = local[x].count /\ pc[x] = "header"
          BY <3>1 DEF UpdateHeader
        <4>2. Cardinality(Counted) <= local[x].count
          BY <2>5, <4>1 DEF LastCountStands
        <4> QED
          BY <1>1, <1>2, <1>3, <2>1, <2>5, <4>1, <4>2
      <3>2. ASSUME UNCHANGED header, \A x \in Message : ~UpdateHeader(x)
            PROVE  Cardinality(Counted') <= header'
        <4>1. ASSUME NEW x \in Message, pc[x] = "header"
              PROVE  pc'[x] = "header"
          <5>1. ASSUME NEW y \in Message, HandlerActs(y)
                PROVE  pc'[x] = "header"
            <6>1. ~HandlerThrows(y) /\ ~PostAnswerLost(y)
              BY Remembered DEF InTurn, Undisturbed
            <6>2. pc[y] # "header"
              BY <1>5, <3>2, <5>1, <6>1 DEF HandlerActs, Receive, Complete, Abort, Outro, ReadToken,
                 PostAsUser, PostAsBot, RecordPost, Nudge
            <6> QED
              BY <4>1, <5>1, <6>2, HandlerPaths
          <5> QED
            BY <4>1, <5>1, OtherSteps, Steps
        <4>2. \A x \in Message : pc[x] # "header"
          BY <2>5, <4>1
        <4> QED
          BY <1>1, <1>2, <1>3, <2>1, <2>5, <3>2, <4>2 DEF LastCountStands
      <3> QED
        BY <3>1, <3>2, CountingSteps
    <2> QED
      BY <1>0, <2>3, <2>4, <2>5 DEF LastCountStands
  <1> QED
    BY <1>4, <1>5

-----------------------------------------------------------------------------
(* The note to connect.  Unless a call fails or the connection overtakes    *)
(* the posting of a report, what a member posts while they are connected is *)
(* posted as theirs, and the post that asks them to connect is the one that *)
(* their callback is about to edit.                                         *)

Clean(m, k) == channel[k].footer # "nudge" \/ found[m] = k

UsersClean == \A k \in 1..Len(channel) : channel[k].as = "user" => channel[k].footer # "nudge"

ConnectedOf(m) ==
    token[m] = "good" /\ cpc[m] \in {"idle", "swap"} =>
       /\ \A x \in Message : Author[x] = m =>
             /\ pc[x] = "postUser" => local[x].token = "good"
             /\ pc[x] # "postBot"
             /\ pc[x] = "row" => local[x].as = "user"
       /\ LatestPost(m) # NoPost => Clean(m, LatestPost(m))

ConnectedClean == UsersClean /\ \A m \in Member : ConnectedOf(m)

NotOvertaken == Undisturbed({"throw", "lost", "overtaken"})

LEMMA NothingFailed ==
    ASSUME NotOvertaken'
    PROVE  /\ \A x \in Message : ~HandlerThrows(x) /\ ~PostAnswerLost(x)
           /\ \A m \in Member : ~ConnectThrows(m)
  BY DEF HandlerThrows, PostAnswerLost, ConnectThrows, Mishap, NotOvertaken, Undisturbed

LEMMA LatestPosts ==
    ASSUME TypeOK, NEW m \in Member
    PROVE  /\ LatestPost(m) = IF PostOf(m, "today") # NoPost THEN PostOf(m, "today") ELSE PostOf(m, "old")
           /\ LatestPost(m) # NoPost => LatestPost(m) \in 1..Len(channel)
           /\ Len(channel) \in Nat
  <1>1. LatestPost(m) = IF PostOf(m, "today") # NoPost THEN PostOf(m, "today") ELSE PostOf(m, "old")
    BY DEF LatestPost, PostOf
  <1>2. Len(channel) \in Nat /\ \A d \in Day : PostOf(m, d) \in Nat /\ PostOf(m, d) <= Len(channel)
    BY LenProperties DEF TypeOK, PostOf, RowState
  <1> QED
    BY <1>1, <1>2 DEF Day, NoPost

(* A member whose rows stay, whose handlers come to no post and to no       *)
(* update of the row, and whose token and callback stay too unless they are *)
(* no longer connected.                                                     *)
LEMMA ConnectedAside ==
    ASSUME TypeOK, ChannelKept, NEW m \in Member, ConnectedOf(m), row'[m] = row[m],
           \A x \in Message : Author[x] = m =>
              /\ pc'[x] = pc[x] \/ pc'[x] \notin {"postUser", "postBot", "row"}
              /\ local'[x].token = local[x].token /\ local'[x].as = local[x].as,
           \/ token'[m] # "good" \/ cpc'[m] \notin {"idle", "swap"}
           \/ token'[m] = token[m] /\ cpc[m] \in {"idle", "swap"}
                 /\ \A k \in 1..Len(channel) : Clean(m, k) => Clean(m, k)'
    PROVE  ConnectedOf(m)'
  <1>1. CASE token'[m] # "good" \/ cpc'[m] \notin {"idle", "swap"}
    BY <1>1 DEF ConnectedOf
  <1>2. CASE token'[m] = token[m] /\ cpc[m] \in {"idle", "swap"}
                /\ \A k \in 1..Len(channel) : Clean(m, k) => Clean(m, k)'
    <2> SUFFICES ASSUME token'[m] = "good", cpc'[m] \in {"idle", "swap"}
                 PROVE  /\ \A x \in Message : Author[x] = m =>
                              /\ pc'[x] = "postUser" => local'[x].token = "good"
                              /\ pc'[x] # "postBot"
                              /\ pc'[x] = "row" => local'[x].as = "user"
                        /\ LatestPost(m)' # NoPost => Clean(m, LatestPost(m))'
      BY DEF ConnectedOf
    <2>1. /\ \A x \in Message : Author[x] = m =>
                /\ pc[x] = "postUser" => local[x].token = "good"
                /\ pc[x] # "postBot"
                /\ pc[x] = "row" => local[x].as = "user"
          /\ LatestPost(m) # NoPost => Clean(m, LatestPost(m))
      BY <1>2 DEF ConnectedOf
    <2>2. \A x \in Message : Author[x] = m =>
             /\ pc'[x] = "postUser" => local'[x].token = "good"
             /\ pc'[x] # "postBot"
             /\ pc'[x] = "row" => local'[x].as = "user"
      BY <2>1
    <2>3. LatestPost(m)' = LatestPost(m)
      BY DEF LatestPost
    <2>4. ASSUME LatestPost(m) # NoPost
          PROVE  Clean(m, LatestPost(m))'
      <3>1. LatestPost(m) \in 1..Len(channel) /\ Clean(m, LatestPost(m))
        BY <2>1, <2>4, LatestPosts
      <3>2. channel'[LatestPost(m)].footer # "nudge" \/ found'[m] = LatestPost(m)
        BY <1>2, <3>1 DEF Clean
      <3> QED
        BY <2>3, <3>2 DEF Clean
    <2> QED
      BY <2>2, <2>3, <2>4
  <1> QED
    BY <1>1, <1>2

(* A callback finds the post that still asks its member to connect.         *)
LEMMA FindingCleans ==
    ASSUME TypeOK, RowsHold, UsersClean, NEW m \in Member, FindBotReport(m), NotOvertaken'
    PROVE  ConnectedOf(m)'
  <1> USE DEF slackVars, handlerVars
  <1>1. /\ \A x \in Message : Author[x] = m => pc[x] \notin {"token", "postUser", "postBot", "row"}
        /\ UNCHANGED <<row, channel, pc, local>>
    BY DEF FindBotReport, Overtaking, Mishap, NotOvertaken, Undisturbed
  <1>2. ASSUME LatestPost(m) # NoPost
        PROVE  channel[LatestPost(m)].footer # "nudge" \/ found'[m] = LatestPost(m)
    <2>1. CASE PostOf(m, "today") # NoPost
      <3>1. /\ LatestPost(m) = PostOf(m, "today") /\ LatestPost(m) \in 1..Len(channel)
            /\ channel[LatestPost(m)].as = row[m]["today"].as
        BY <1>2, <2>1, LatestPosts DEF RowsHold
      <3>2. CASE row[m]["today"].as = "bot"
        <4>1. "today" \in BotReports(m)
          BY <2>1, <3>2 DEF BotReports, PostOf, Day
        <4> QED
          BY <3>1, <4>1 DEF FindBotReport, TypeOK, PostOf
      <3>3. CASE row[m]["today"].as # "bot"
        <4>1. channel[LatestPost(m)] \in PostState
          BY <3>1, ElementOfSeq DEF TypeOK
        <4> QED
          BY <3>1, <3>3, <4>1 DEF PostState, UsersClean
      <3> QED
        BY <3>2, <3>3
    <2>2. CASE PostOf(m, "today") = NoPost
      <3>1. LatestPost(m) = PostOf(m, "old") /\ row[m]["old"].as = "bot"
        BY <1>2, <2>2, LatestPosts DEF RowsHold
      <3>2. "old" \in BotReports(m) /\ "today" \notin BotReports(m)
        BY <1>2, <2>2, <3>1 DEF BotReports, PostOf, Day
      <3> QED
        BY <3>1, <3>2 DEF FindBotReport, TypeOK, PostOf
    <2> QED
      BY <2>1, <2>2
  <1>3. LatestPost(m)' = LatestPost(m)
    BY <1>1 DEF LatestPost
  <1>4. LatestPost(m)' # NoPost => Clean(m, LatestPost(m))'
    BY <1>1, <1>2, <1>3 DEF Clean
  <1> QED
    BY <1>1, <1>4 DEF ConnectedOf

LEMMA ConnectStep ==
    ASSUME TypeOK, RowsHold, ConnectedClean, ChannelKept, NEW m \in Member, ConnectActs(m), NotOvertaken',
           NEW n \in Member
    PROVE  ConnectedOf(n)'
  <1> USE DEF slackVars, handlerVars, connectVars
  <1>1. UNCHANGED <<row, pc, local>>
    BY OtherSteps
  <1>2. CASE n # m
    <2>1. token'[n] = token[n] /\ cpc'[n] = cpc[n] /\ found'[n] = found[n]
      BY <1>2 DEF ConnectActs, FollowLink, LinkExpires, VerifyState, SaveToken, FindBotReport, SwapFooter,
                  ConnectThrows, RevokeToken, TypeOK
    <2>2. \A k \in 1..Len(channel) : Clean(n, k) => Clean(n, k)'
      BY <2>1 DEF Clean, ChannelKept
    <2>3. ConnectedOf(n)
      BY DEF ConnectedClean
    <2>4. \/ cpc'[n] \notin {"idle", "swap"}
          \/ token'[n] = token[n] /\ cpc[n] \in {"idle", "swap"}
                 /\ \A k \in 1..Len(channel) : Clean(n, k) => Clean(n, k)'
      BY <2>1, <2>2
    <2> QED
      BY <1>1, <2>3, <2>4, ConnectedAside
  <1>3. ASSUME \/ token'[m] # "good" \/ cpc'[m] \notin {"idle", "swap"}
               \/ token'[m] = token[m] /\ cpc[m] \in {"idle", "swap"}
                     /\ \A k \in 1..Len(channel) : Clean(m, k) => Clean(m, k)'
        PROVE  ConnectedOf(m)'
    BY <1>1, <1>3, ConnectedAside DEF ConnectedClean
  <1>4. ASSUME FollowLink(m) \/ LinkExpires(m)
        PROVE  ConnectedOf(m)'
    <2>1. UNCHANGED <<token, cpc, found, channel>>
      BY <1>4 DEF FollowLink, LinkExpires
    <2>2. \A k \in 1..Len(channel) : Clean(m, k) => Clean(m, k)'
      BY <2>1 DEF Clean
    <2>3. \/ cpc'[m] \notin {"idle", "swap"}
          \/ token'[m] = token[m] /\ cpc[m] \in {"idle", "swap"}
                 /\ \A k \in 1..Len(channel) : Clean(m, k) => Clean(m, k)'
      BY <2>1, <2>2
    <2> QED
      BY <1>3, <2>3
  <1>5. ASSUME VerifyState(m) \/ SaveToken(m) \/ RevokeToken(m)
        PROVE  ConnectedOf(m)'
    <2>1. /\ UNCHANGED <<channel, found>>
          /\ \/ token'[m] # "good" \/ cpc'[m] \notin {"idle", "swap"}
             \/ token'[m] = token[m] /\ cpc[m] \in {"idle", "swap"}
      BY <1>5 DEF VerifyState, SaveToken, RevokeToken, TypeOK
    <2>2. \A k \in 1..Len(channel) : Clean(m, k) => Clean(m, k)'
      BY <2>1 DEF Clean
    <2> QED
      BY <1>3, <2>1, <2>2
  <1>6. ASSUME FindBotReport(m)
        PROVE  ConnectedOf(m)'
    BY <1>6, FindingCleans DEF ConnectedClean
  <1>7. ASSUME SwapFooter(m)
        PROVE  ConnectedOf(m)'
    <2>1. /\ found[m] \in 1..Len(channel) /\ Edit(found[m], "connected") /\ channel \in Seq(PostState)
          /\ token' = token /\ cpc[m] = "swap"
      BY <1>7 DEF SwapFooter, TypeOK
    <2>2. \A k \in 1..Len(channel) : Clean(m, k) => Clean(m, k)'
      BY <2>1, Editing DEF Clean
    <2> QED
      BY <1>3, <2>1, <2>2
  <1>8. ~ConnectThrows(m)
    BY NothingFailed
  <1>9. ConnectedOf(m)'
    BY <1>4, <1>5, <1>6, <1>7, <1>8 DEF ConnectActs
  <1> QED
    BY <1>2, <1>9

LEMMA HandlerStepConnected ==
    ASSUME TypeOK, RowsHold, ConnectedClean, ChannelKept, NEW x \in Message, HandlerActs(x), NotOvertaken',
           NEW n \in Member
    PROVE  ConnectedOf(n)'
  <1> USE DEF slackVars, handlerVars, connectVars
  <1>0. /\ Author[x] \in Member /\ UNCHANGED <<token, cpc, found>>
        /\ \A y \in Message : y # x => pc'[y] = pc[y] /\ local'[y] = local[y]
    BY Authors, HandlerMoves, HandlerPaths
  <1>1. ConnectedOf(n) /\ \A k \in 1..Len(channel) : Clean(n, k) => Clean(n, k)'
    BY <1>0 DEF ConnectedClean, Clean, ChannelKept
  <1>2. \/ cpc'[n] \notin {"idle", "swap"}
        \/ token'[n] = token[n] /\ cpc[n] \in {"idle", "swap"}
              /\ \A k \in 1..Len(channel) : Clean(n, k) => Clean(n, k)'
    BY <1>0, <1>1
  <1>3. ASSUME row'[n] = row[n],
               Author[x] = n =>
                  /\ pc'[x] \notin {"postUser", "postBot", "row"}
                  /\ local'[x].token = local[x].token /\ local'[x].as = local[x].as
        PROVE  ConnectedOf(n)'
    BY <1>0, <1>1, <1>2, <1>3, ConnectedAside
  (* The author's own conversation where the rows stay. *)
  <1>4. ASSUME token[n] = "good", cpc[n] \in {"idle", "swap"}, Author[x] = n, row' = row,
               pc'[x] = "postUser" => local'[x].token = "good",
               pc'[x] # "postBot",
               pc'[x] = "row" => local'[x].as = "user"
        PROVE  ConnectedOf(n)'
    <2>1. \A y \in Message : Author[y] = n =>
             /\ pc'[y] = "postUser" => local'[y].token = "good"
             /\ pc'[y] # "postBot"
             /\ pc'[y] = "row" => local'[y].as = "user"
      BY <1>0, <1>1, <1>4 DEF ConnectedOf
    <2>2. LatestPost(n)' = LatestPost(n)
      BY <1>4 DEF LatestPost
    <2>3. ASSUME LatestPost(n) # NoPost
          PROVE  Clean(n, LatestPost(n))'
      <3>1. LatestPost(n) \in 1..Len(channel) /\ Clean(n, LatestPost(n))
        BY <1>1, <1>4, <2>3, LatestPosts DEF ConnectedOf
      <3>2. channel'[LatestPost(n)].footer # "nudge" \/ found'[n] = LatestPost(n)
        BY <1>1, <3>1 DEF Clean
      <3> QED
        BY <2>2, <3>2 DEF Clean
    <2> QED
      BY <2>1, <2>2, <2>3 DEF ConnectedOf
  <1>5. ASSUME ~(token[n] = "good" /\ cpc[n] \in {"idle", "swap"})
        PROVE  ConnectedOf(n)'
    BY <1>0, <1>5 DEF ConnectedOf
  <1>6. CASE Author[x] # n
    <2>1. row'[n] = row[n]
      <3>1. CASE RecordPost(x)
        BY <1>0, <1>6, <3>1 DEF RecordPost, TypeOK
      <3>2. CASE ~RecordPost(x)
        BY <3>2, HandlerPaths DEF PostsNow, PassesOn, CountReports, UpdateHeader, PostAnswerLost
      <3> QED
        BY <3>1, <3>2
    <2> QED
      BY <1>3, <1>6, <2>1
  <1>7. CASE Author[x] = n /\ token[n] = "good" /\ cpc[n] \in {"idle", "swap"}
    <2>1. CASE Receive(x) \/ Complete(x) \/ Abort(x) \/ Outro(x) \/ UpdateHeader(x) \/ Nudge(x)
      <3>1. /\ row' = row /\ local' = local /\ pc'[x] \notin {"postUser", "postBot", "row"}
        BY <2>1 DEF Receive, Complete, Abort, Outro, UpdateHeader, Nudge, Goto, TypeOK
      <3> QED
        BY <1>3, <3>1
    <2>2. CASE ReadToken(x)
      <3>1. UserToken(n) = "good" /\ "good" \in TokenState /\ local \in [Message -> LocalState]
        BY <1>7 DEF UserToken, TokenState, TypeOK
      <3>2. /\ local'[x].token = "good" /\ pc'[x] = "postUser" /\ row' = row
        BY <1>7, <2>2, <3>1, KeepingToken DEF ReadToken, Goto, TypeOK
      <3> QED
        BY <1>4, <1>7, <3>2
    <2>3. CASE PostAsUser(x)
      <3>1. ~Refused(x)
        BY <1>1, <1>7, <2>3 DEF Refused, PostAsUser, ConnectedOf
      <3>2. pc'[x] = "row" /\ row' = row /\ local' = [local EXCEPT ![x].ts = Len(channel) + 1, ![x].as = "user"]
        <4>1. Goto(x, "row") /\ Posted(x, "user") /\ row' = row
          BY <2>3, <3>1 DEF PostAsUser
        <4> QED
          BY <4>1 DEF Posted, Goto, TypeOK
      <3>3. Len(channel) + 1 \in Nat /\ local \in [Message -> LocalState]
        BY DEF ChannelKept, TypeOK
      <3>4. local'[x].as = "user"
        BY <3>2, <3>3, Noting
      <3> QED
        BY <1>4, <1>7, <3>2, <3>4
    <2>4. CASE PostAsBot(x)
      BY <1>1, <1>7, <2>4 DEF PostAsBot, ConnectedOf
    <2>5. CASE RecordPost(x)
      <3> DEFINE new == [ts |-> local[x].ts, as |-> local[x].as]
      <3>1. new \in RowState /\ new.ts = local[x].ts /\ row \in [Member -> [Day -> RowState]]
        BY DEF TypeOK, LocalState, RowState
      <3>2. /\ row' = [row EXCEPT ![n]["today"] = new] /\ pc[x] = "row" /\ pc'[x] \in {"count", "nudge"}
            /\ UNCHANGED <<channel, local>>
        BY <1>7, <2>5 DEF RecordPost, Goto, TypeOK
      <3> HIDE DEF new
      <3>3. row'[n]["today"].ts = local[x].ts
        BY <3>1, <3>2, Recording
      <3>4. local[x].ts # NoPost /\ channel[local[x].ts].as = local[x].as /\ local[x].ts \in 1..Len(channel)
        BY <3>2, NamedPosts DEF RowsHold
      <3>5. local[x].as = "user"
        BY <1>1, <1>7, <3>2 DEF ConnectedOf
      <3>6. channel[local[x].ts].footer # "nudge"
        BY <3>4, <3>5 DEF ConnectedClean, UsersClean
      <3>7. LatestPost(n)' = local[x].ts
        BY <3>3, <3>4 DEF LatestPost
      <3>8. Clean(n, LatestPost(n))'
        BY <3>2, <3>6, <3>7 DEF Clean
      <3>9. \A y \in Message : Author[y] = n =>
               /\ pc'[y] = "postUser" => local'[y].token = "good"
               /\ pc'[y] # "postBot"
               /\ pc'[y] = "row" => local'[y].as = "user"
        BY <1>0, <1>1, <1>7, <3>2 DEF ConnectedOf
      <3> QED
        BY <3>8, <3>9 DEF ConnectedOf
    <2>6. CASE CountReports(x)
      <3>1. Cardinality(Completed) \in 0..Cardinality(Member) /\ local \in [Message -> LocalState]
        BY CountsFit DEF TypeOK
      <3>2. /\ local'[x].token = local[x].token /\ local'[x].as = local[x].as
            /\ row' = row /\ pc'[x] \notin {"postUser", "postBot", "row"}
        BY <2>6, <3>1, KeepingCount DEF CountReports, Goto, TypeOK
      <3> QED
        BY <1>3, <3>2
    <2> QED
      BY <2>1, <2>2, <2>3, <2>4, <2>5, <2>6, NothingFailed DEF HandlerActs
  <1> QED
    BY <1>5, <1>6, <1>7

LEMMA UsersCleanStep ==
    ASSUME TypeOK, UsersClean, [Next]_vars
    PROVE  UsersClean'
  <1>0. ChannelKept
    BY ChannelIsKept
  <1>1. ASSUME NEW m \in Member, NEW id \in {"bot", "user"}, Post(m, id)
        PROVE  UsersClean'
    <2>1. /\ Len(channel) \in Nat /\ Len(channel') = Len(channel) + 1
          /\ \A k \in 1..Len(channel) : channel'[k] = channel[k]
          /\ channel'[Len(channel) + 1] = Blocks(m, id)
      BY <1>1, PostAppends DEF TypeOK
    <2>2. Blocks(m, id).as = "user" => Blocks(m, id).footer # "nudge"
      BY DEF Blocks
    <2>3. \A k \in 1..Len(channel') : k \in 1..Len(channel) \/ k = Len(channel) + 1
      BY <2>1
    <2> QED
      BY <2>1, <2>2, <2>3 DEF UsersClean
  <1>2. CASE Len(channel') = Len(channel)
    BY <1>0, <1>2 DEF ChannelKept, UsersClean
  <1>3. ASSUME NEW m \in Member, SwapFooter(m)
        PROVE  Len(channel') = Len(channel)
    <2>1. found[m] \in 1..Len(channel) /\ Edit(found[m], "connected") /\ channel \in Seq(PostState)
      BY <1>3 DEF SwapFooter, TypeOK
    <2> QED
      BY <2>1, Editing
  <1>4. CASE UNCHANGED channel
    BY <1>2, <1>4
  <1> QED
    BY <1>1, <1>2, <1>3, <1>4, ChannelSteps, Authors

LEMMA ConnectedStep ==
    ASSUME TypeOK, RowsHold, ConnectedClean, [Next]_vars, NotOvertaken'
    PROVE  ConnectedClean'
  <1> USE DEF slackVars, handlerVars, connectVars
  <1>0. ChannelKept /\ UsersClean'
    BY ChannelIsKept, UsersCleanStep DEF ConnectedClean
  <1>1. ASSUME NEW n \in Member
        PROVE  ConnectedOf(n)'
    <2>1. ASSUME NEW x \in Message, HandlerActs(x)
          PROVE  ConnectedOf(n)'
      BY <1>0, <2>1, HandlerStepConnected
    <2>2. ASSUME NEW m \in Member, ConnectActs(m)
          PROVE  ConnectedOf(n)'
      BY <1>0, <2>2, ConnectStep
    <2>3. CASE WorkerActs \/ UNCHANGED vars
      <3>1. UNCHANGED <<row, pc, local, token, cpc, found, channel>>
        BY <2>3, WorkerMoves DEF vars
      <3> QED
        BY <3>1 DEF ConnectedClean, ConnectedOf, Clean, LatestPost
    <2>4. CASE RotateSecret
      <3>1. token'[n] # "good"
        BY <2>4 DEF RotateSecret
      <3> QED
        BY <3>1 DEF ConnectedOf
    <2> QED
      BY <2>1, <2>2, <2>3, <2>4, Steps
  <1> QED
    BY <1>0, <1>1 DEF ConnectedClean

-----------------------------------------------------------------------------
(* The inductive invariant: each part beside what may not have happened.    *)

BoardInv ==
    /\ TypeOK /\ RowsHold /\ PostsCounted /\ CountsLag
    /\ Answered => LinksFollow
    /\ InTurn => LastCountStands
    /\ NotOvertaken => ConnectedClean

LEMMA InitBoardInv == Init => BoardInv
  <1> SUFFICES ASSUME Init PROVE BoardInv
    OBVIOUS
  <1> USE DEF slackVars, handlerVars, connectVars, historyVars
  <1>1. TypeOK
    BY InitTypeOK
  <1>2. /\ \A x \in Message : pc[x] \in {"idle", "done"} /\ local[x].count = 0
        /\ \A m \in Member : status[m] \in {"none", "in_progress"}
        /\ header = 0 /\ undone = {}
        /\ \A m \in Member : grounds[m] = Open(m)
    BY DEF Init, Idle, Open
  <1>3. /\ Len(channel) \in Nat
        /\ \A k \in 1..Len(channel) : channel[k].as = "bot" /\ PostOf(channel[k].who, "old") = k
        /\ \A m \in Member :
              /\ PostOf(m, "today") = NoPost
              /\ PostOf(m, "old") # NoPost =>
                    row[m]["old"].as = "bot" /\ channel[PostOf(m, "old")].who = m /\ token[m] = "none"
    BY Beginnings
  <1>4. RowsHold /\ LinksFollow
    BY <1>2, <1>3 DEF RowsHold, LinksFollow, Posting
  <1>5. EverDone = {} /\ Counted = {}
    BY <1>2 DEF Completed, EverDone, Counted
  <1>6. CountsLag /\ LastCountStands
    <2>1. Cardinality(EverDone) = 0 /\ Cardinality(Counted) = 0
      BY <1>5, FS_EmptySet
    <2> QED
      BY <1>2, <2>1 DEF CountsLag, LastCountStands
  <1>7. ASSUME NEW m \in Member
        PROVE  Owing(m)
    <2>1. Todays(m) = {} /\ Pending(m) = {}
      BY <1>2, <1>3 DEF Todays, Pending, Unposted
    <2>2. PostsAbout(m, "today") = {}
      BY <1>1, <2>1, TodaysCount
    <2>3. Open(m) \in Nat
      BY DEF Open
    <2> QED
      BY <1>2, <2>1, <2>2, <2>3, FS_EmptySet DEF Owing
  <1>8. ConnectedClean
    BY <1>2, <1>3 DEF ConnectedClean, UsersClean, ConnectedOf, LatestPost, PostOf
  <1> QED
    BY <1>1, <1>4, <1>6, <1>7, <1>8 DEF BoardInv, PostsCounted

LEMMA NextBoardInv == BoardInv /\ [Next]_vars => BoardInv'
  <1> SUFFICES ASSUME BoardInv, [Next]_vars PROVE BoardInv'
    OBVIOUS
  <1>0. TypeOK /\ TypeOK'
    BY NextTypeOK DEF BoardInv
  <1>1. RowsHold' /\ PostsCounted' /\ CountsLag'
    BY <1>0, RowsHoldStep, PostsCountedStep, CountsLagStep DEF BoardInv
  <1>2. Answered' => LinksFollow'
    BY <1>0, MishapsGrow, LinksFollowStep DEF BoardInv, Answered
  <1>3. InTurn' => LastCountStands'
    BY <1>0, MishapsGrow, LastCountStep DEF BoardInv, InTurn
  <1>4. NotOvertaken' => ConnectedClean'
    BY <1>0, MishapsGrow, ConnectedStep DEF BoardInv, NotOvertaken
  <1> QED
    BY <1>0, <1>1, <1>2, <1>3, <1>4 DEF BoardInv

LEMMA BoardInvariant == Spec => []BoardInv
  BY InitBoardInv, NextBoardInv, PTL DEF Spec

-----------------------------------------------------------------------------

(* reports.ts:101-105: a card links to a post of its own report under the   *)
(* identity it names, and one that is not completed only after a completed  *)
(* report was overwritten; a completed one has its link once no handler is  *)
(* about to post it, unless a call failed.                                  *)
THEOREM CardsLinkToTheirPost == Spec => []RowDescribesPost
  <1>1. BoardInv => RowDescribesPost
    <2> SUFFICES ASSUME BoardInv, NEW m \in Member
                 PROVE  /\ Card(m).link # NoPost =>
                              /\ channel[Card(m).link].who = m
                              /\ channel[Card(m).link].as = Card(m).postedAs
                              /\ Card(m).status = "completed" \/ m \in undone
                        /\ Card(m).status = "completed" /\ Undisturbed({"throw", "lost"})
                              /\ (\A x \in Message : Author[x] = m => pc[x] \notin Posting)
                              => Card(m).link # NoPost
      BY DEF RowDescribesPost
    <2>1. IF status[m] = "none"
          THEN Card(m).link = NoPost /\ Card(m).status = "absent"
          ELSE /\ Card(m).link = PostOf(m, "today") /\ Card(m).postedAs = row[m]["today"].as
               /\ Card(m).status = status[m]
      BY DEF Card, PostOf
    <2>2. Card(m).link # NoPost =>
             /\ channel[Card(m).link].who = m
             /\ channel[Card(m).link].as = Card(m).postedAs
             /\ Card(m).status = "completed" \/ m \in undone
      BY <2>1 DEF BoardInv, RowsHold, Done
    <2>3. Card(m).status = "completed" /\ Undisturbed({"throw", "lost"})
             /\ (\A x \in Message : Author[x] = m => pc[x] \notin Posting)
             => Card(m).link # NoPost
      BY <2>1 DEF BoardInv, Answered, LinksFollow
    <2> QED
      BY <2>2, <2>3
  <1> QED
    BY <1>1, BoardInvariant, PTL

(* handleMessage.ts:89-94, 172-203: however many handlers complete a report *)
(* and whatever the worker does to it, its posts never exceed its grounds.  *)
THEOREM ReportsArePostedOnce == Spec => []PostedOnce
  <1>1. BoardInv => PostedOnce
    <2> SUFFICES ASSUME BoardInv, NEW m \in Member
                 PROVE  Cardinality(PostsAbout(m, "today")) <= grounds[m]
      BY DEF PostedOnce
    <2>1. Cardinality(PostsAbout(m, "today")) \in Nat
      BY TodaysCount DEF BoardInv
    <2>2. Owing(m)
      BY DEF BoardInv, PostsCounted
    <2>3. Cardinality(Pending(m)) \in Nat /\ Open(m) \in 0..1 /\ grounds[m] \in Nat
      BY <2>2, FS_CardinalityType DEF Owing, Open, BoardInv, TypeOK
    <2> QED
      BY <2>1, <2>2, <2>3 DEF Owing
  <1> QED
    BY <1>1, BoardInvariant, PTL

(* handleMessage.ts:213-229 against reports.ts:101-105: the header counts   *)
(* more reports than the page only by those that were completed and then    *)
(* overwritten, and counts no fewer once the broadcasts are over, unless    *)
(* one failed or wrote a count that another had overtaken.                  *)
THEOREM HeaderCountsReports == Spec => []HeaderIsHonest
  <1>1. BoardInv => HeaderIsHonest
    <2> SUFFICES ASSUME BoardInv PROVE HeaderIsHonest
      OBVIOUS
    <2>1. \A m \in Member : Card(m).status = "completed" <=> status[m] = "completed"
      BY DEF Card
    <2>2. {m \in Member : Card(m).status = "completed"} = Completed
      BY <2>1 DEF Completed
    <2>3. Participation.reported = Cardinality(Completed)
      BY <2>2 DEF Participation
    <2>4. header <= Cardinality(Completed \cup undone)
      BY DEF BoardInv, CountsLag, EverDone
    <2>5. ASSUME opening, \A x \in Message : pc[x] \notin Counting,
                 Undisturbed({"throw", "lost", "crossed"})
          PROVE  Participation.reported <= header
      <3>1. \A x \in Message : pc[x] \notin Posting \cup {"count"} /\ pc[x] # "header"
        BY <2>5 DEF Counting
      <3>2. Counted = Completed
        BY <3>1 DEF Counted, Uncounted
      <3> QED
        BY <2>3, <2>5, <3>1, <3>2 DEF BoardInv, InTurn, LastCountStands
    <2> QED
      BY <2>4, <2>5 DEF HeaderIsHonest
  <1> QED
    BY <1>1, BoardInvariant, PTL

(* connect-cleanup.ts:7-10: when a connected member's handlers are done,    *)
(* the post their latest report links to does not ask them to connect,      *)
(* unless a call failed or the connection came while a report was being     *)
(* posted.                                                                  *)
THEOREM ConnectedAreNotAsked == Spec => []NudgeAccountedFor
  <1>1. BoardInv => NudgeAccountedFor
    <2> SUFFICES ASSUME BoardInv, NEW m \in Member, Settled(m), token[m] = "good", LatestPost(m) # NoPost,
                        NotOvertaken
                 PROVE  channel[LatestPost(m)].footer # "nudge"
      BY DEF NudgeAccountedFor, NotOvertaken
    <2>1. cpc[m] = "idle" /\ ConnectedOf(m) /\ found[m] = NoPost
      BY DEF Settled, BoardInv, ConnectedClean, TypeOK
    <2> QED
      BY <2>1 DEF ConnectedOf, Clean
  <1> QED
    BY <1>1, BoardInvariant, PTL
=============================================================================
