-------------------------- MODULE DmConversationProofs --------------------------
(* What holds of DmConversation for every set of questions and of handlers, *)
(* every number of messages and every budget of edits, redeliveries,        *)
(* failures and timeouts.                                                   *)
EXTENDS DmConversation, SequenceTheorems, TLAPS

-----------------------------------------------------------------------------
(* Lists of questions and of answers.                                       *)

LEMMA QuestionLists ==
    ASSUME NEW qs \in QuestionList
    PROVE  qs \in Seq(Question) /\ Len(qs) \in Nat /\ Len(qs) >= 1 /\ Head(qs) = qs[1]
  <1>1. PICK m \in 0..2 : qs \in [1..m -> Question]
    BY DEF QuestionList, SeqOf
  <1>2. qs \in Seq(Question) /\ qs # <<>>
    BY <1>1 DEF QuestionList
  <1> QED
    BY <1>2, EmptySeq, LenProperties

LEMMA AppendReply ==
    ASSUME NEW list \in Seq(Reply), NEW a \in Reply
    PROVE  /\ Append(list, a) \in Seq(Reply)
           /\ Len(Append(list, a)) = Len(list) + 1
           /\ \A k \in 1..Len(list) : Append(list, a)[k] = list[k]
           /\ Append(list, a)[Len(list) + 1] = a
           /\ DOMAIN list = 1..Len(list) /\ DOMAIN Append(list, a) = 1..(Len(list) + 1)
           /\ Len(list) \in Nat
  BY AppendProperties, LenProperties

(* What advanceReport decides.                                              *)
LEMMA Verdicts ==
    ASSUME TypeOK, NEW qs \in QuestionList, NEW list \in Seq(Reply), NEW i \in 1..MaxMessages,
           NEW todo, todo = advanceReport(qs, list, i), todo.kind # "noop"
    PROVE  /\ todo \in Verdict
           /\ todo.kind \in {"abort", "next", "complete"}
           /\ Len(list) < Len(qs) /\ qs[Len(list) + 1] \in Question
           /\ todo.kind # "abort" => todo.answers = Append(list, Answer(qs[Len(list) + 1], i))
           /\ todo.kind = "complete" => Len(list) + 1 = Len(qs)
           /\ todo.kind = "next" => Len(list) + 1 < Len(qs) /\ todo.show = qs[Len(list) + 2]
  <1>0. qs \in Seq(Question) /\ Len(qs) \in Nat /\ Len(list) \in Nat
    BY QuestionLists, LenProperties
  <1>1. ~(Len(list) >= Len(qs))
    BY DEF advanceReport
  <1>2. qs[Len(list) + 1] \in Question
    BY <1>0, <1>1, ElementOfSeq
  <1>3. Answer(qs[Len(list) + 1], i) \in Reply
    BY <1>2 DEF Answer, Reply
  <1> DEFINE all == Append(list, Answer(qs[Len(list) + 1], i))
  <1>4. all \in Seq(Reply) /\ Len(all) = Len(list) + 1
    BY <1>3, AppendReply
  <1> HIDE DEF all
  <1>5. CASE said[i].kind = "skip all"
    <2>1. todo = [kind |-> "abort"]
      BY <1>1, <1>5 DEF advanceReport
    <2> QED
      BY <1>0, <1>1, <1>2, <2>1 DEF Verdict
  <1>6. CASE said[i].kind # "skip all" /\ Len(all) >= Len(qs)
    <2>1. todo = [kind |-> "complete", answers |-> all]
      BY <1>1, <1>6 DEF advanceReport, all
    <2>0. Len(list) + 1 >= Len(qs)
      BY <1>4, <1>6
    <2>2. Len(list) + 1 = Len(qs)
      BY <1>0, <1>1, <2>0
    <2>3. todo \in Verdict /\ todo.kind = "complete" /\ todo.answers = all
      BY <1>4, <2>1 DEF Verdict
    <2>4. todo.answers = Append(list, Answer(qs[Len(list) + 1], i))
      BY <2>3 DEF all
    <2> QED
      BY <1>0, <1>1, <1>2, <2>2, <2>3, <2>4
  <1>7. CASE said[i].kind # "skip all" /\ ~(Len(all) >= Len(qs))
    <2>1. todo = [kind |-> "next", answers |-> all, show |-> qs[Len(all) + 1]]
      BY <1>1, <1>7 DEF advanceReport, all
    <2>0. ~(Len(list) + 1 >= Len(qs))
      BY <1>4, <1>7
    <2>2. Len(list) + 2 \in 1..Len(qs) /\ Len(list) + 1 < Len(qs) /\ Len(all) + 1 = Len(list) + 2
      BY <1>0, <1>4, <2>0
    <2>3. qs[Len(all) + 1] \in Question
      BY <1>0, <2>2, ElementOfSeq
    <2>4. todo \in Verdict /\ todo.kind = "next" /\ todo.answers = all /\ todo.show = qs[Len(all) + 1]
      BY <1>4, <2>1, <2>3 DEF Verdict
    <2>5. todo.answers = Append(list, Answer(qs[Len(list) + 1], i))
      BY <2>4 DEF all
    <2>6. todo.show = qs[Len(list) + 2]
      BY <2>2, <2>4
    <2> QED
      BY <1>0, <1>1, <1>2, <2>2, <2>4, <2>5, <2>6
  <1> QED
    BY <1>5, <1>6, <1>7

-----------------------------------------------------------------------------
(* Type correctness.                                                        *)

LEMMA Handlers ==
    ASSUME TypeOK, NEW h \in handlers
    PROVE  /\ h \in HandlerState
           /\ h.msg \in 1..MaxMessages /\ h.msg <= Len(said)
           /\ h.seen \in Seq(Reply) /\ h.todo \in Verdict
           /\ h.pc \in {"load", "retrigger", "write", "post", "broadcast"}
  BY DEF TypeOK, HandlerState

(* A handler that has gone on is the same but for where it stands.          *)
LEMMA GoneOn ==
    ASSUME NEW h \in HandlerState, NEW pc \in {"post", "broadcast"},
           NEW g, g = [h EXCEPT !.pc = pc]
    PROVE  /\ g \in HandlerState
           /\ g.id = h.id /\ g.msg = h.msg /\ g.seen = h.seen /\ g.todo = h.todo /\ g.pc = pc
  BY DEF HandlerState

LEMMA VerdictAnswers ==
    ASSUME NEW todo \in Verdict
    PROVE  /\ todo.kind \in {"none", "abort", "complete", "next"}
           /\ todo.kind \in {"complete", "next"} => todo.answers \in Seq(Reply)
           /\ todo.kind = "next" => todo.show \in Question
  BY DEF Verdict

LEMMA InitTypeOK == Init => TypeOK
  <1> SUFFICES ASSUME Init PROVE TypeOK
    OBVIOUS
  <1>1. Head(questions) \in Question
    BY QuestionLists, HeadTailProperties, EmptySeq DEF Init
  <1>2. answers \in Seq(Reply) /\ said \in Seq(Message) /\ Len(said) = 0
    BY EmptySeq DEF Init
  <1>3. inbox \in [1..MaxMessages -> Nat] /\ \A i \in 1..MaxMessages : inbox[i] = 0
    BY DEF Init
  <1> QED
    BY <1>1, <1>2, <1>3, BudgetAssumption, MaxMessagesAssumption DEF Init, TypeOK

(* The handlers after one has begun, decided or gone on.                    *)
LEMMA Beginning ==
    ASSUME TypeOK, NEW id \in Handler, NEW i \in 1..MaxMessages,
           NEW pc \in {"load", "retrigger"}, NEW seen \in Seq(Reply), Begins(id, i, pc, seen)
    PROVE  /\ \E g \in HandlerState : /\ handlers' = handlers \cup {g}
                                      /\ g.msg = i /\ g.pc = pc /\ g.seen = seen
                                      /\ g.todo.kind = "none"
           /\ inbox[i] > 0 /\ i <= Len(said)
           /\ inbox' \in [1..MaxMessages -> Nat] /\ inbox'[i] = inbox[i] - 1
           /\ \A j \in 1..MaxMessages : j # i => inbox'[j] = inbox[j]
  <1> DEFINE g == [id |-> id, msg |-> i, pc |-> pc, seen |-> seen, todo |-> [kind |-> "none"]]
  <1>1. g \in HandlerState /\ g.msg = i /\ g.pc = pc /\ g.seen = seen /\ g.todo.kind = "none"
    BY DEF HandlerState, Verdict
  <1>2. handlers' = handlers \cup {g} /\ inbox[i] > 0 /\ inbox' = [inbox EXCEPT ![i] = @ - 1]
    BY DEF Begins
  <1>3. inbox \in [1..MaxMessages -> Nat] /\ (inbox[i] > 0 => i <= Len(said))
    BY DEF TypeOK
  <1>4. /\ inbox' \in [1..MaxMessages -> Nat] /\ inbox'[i] = inbox[i] - 1
        /\ \A j \in 1..MaxMessages : j # i => inbox'[j] = inbox[j]
    BY <1>2, <1>3
  <1> HIDE DEF g
  <1> QED
    BY <1>1, <1>2, <1>3, <1>4

LEMMA FindingNoReport ==
    ASSUME TypeOK, NEW id \in Handler, NEW i \in 1..MaxMessages, ReadNoReport(id, i)
    PROVE  \E g \in HandlerState : handlers' = handlers \cup {g} /\ g.msg = i /\ g.pc = "retrigger"
  <1>1. Begins(id, i, "retrigger", <<>>)
    BY DEF ReadNoReport
  <1>2. <<>> \in Seq(Reply)
    BY EmptySeq
  <1> DEFINE seen == <<>>
  <1>3. seen \in Seq(Reply) /\ Begins(id, i, "retrigger", seen)
    BY <1>1, <1>2
  <1> HIDE DEF seen
  <1> QED
    BY <1>3, Beginning

LEMMA Deciding ==
    ASSUME TypeOK, NEW h \in handlers, Decide(h)
    PROVE  \/ handlers' = handlers \ {h}
           \/ \E g \in HandlerState :
                 /\ handlers' = (handlers \ {h}) \cup {g}
                 /\ g.pc = "write" /\ g.msg = h.msg /\ g.todo.kind \in {"abort", "next", "complete"}
                 /\ Len(h.seen) < Len(questions) /\ questions[Len(h.seen) + 1] \in Question
                 /\ g.todo.kind # "abort" =>
                       g.todo.answers = Append(h.seen, Answer(questions[Len(h.seen) + 1], h.msg))
                 /\ g.todo.kind = "complete" => Len(h.seen) + 1 = Len(questions)
                 /\ g.todo.kind = "next" => /\ Len(h.seen) + 1 < Len(questions)
                                            /\ g.todo.show = questions[Len(h.seen) + 2]
  <1> DEFINE todo == advanceReport(questions, h.seen, h.msg)
  <1>1. CASE todo.kind = "noop"
    BY <1>1 DEF Decide, Return
  <1>2. CASE todo.kind # "noop"
    <2>1. h \in HandlerState /\ h.seen \in Seq(Reply) /\ h.msg \in 1..MaxMessages
      BY Handlers
    <2>2. questions \in QuestionList
      BY DEF TypeOK
    <2>3. /\ todo \in Verdict
          /\ todo.kind \in {"abort", "next", "complete"}
          /\ Len(h.seen) < Len(questions) /\ questions[Len(h.seen) + 1] \in Question
          /\ todo.kind # "abort" =>
                todo.answers = Append(h.seen, Answer(questions[Len(h.seen) + 1], h.msg))
          /\ todo.kind = "complete" => Len(h.seen) + 1 = Len(questions)
          /\ todo.kind = "next" => /\ Len(h.seen) + 1 < Len(questions)
                                   /\ todo.show = questions[Len(h.seen) + 2]
      BY <1>2, <2>1, <2>2, Verdicts
    <2> DEFINE g == [h EXCEPT !.pc = "write", !.todo = todo]
    <2>4. handlers' = (handlers \ {h}) \cup {g}
      BY <1>2 DEF Decide
    <2> HIDE DEF todo
    <2>5. g \in HandlerState /\ g.pc = "write" /\ g.todo = todo /\ g.msg = h.msg
      BY <2>1, <2>3 DEF HandlerState
    <2> HIDE DEF g
    <2> QED
      BY <2>3, <2>4, <2>5
  <1> QED
    BY <1>1, <1>2

LEMMA GoingOn ==
    ASSUME TypeOK, NEW h \in handlers, NEW pc \in {"post", "broadcast"}, GoOn(h, pc)
    PROVE  \E g \in HandlerState :
              /\ handlers' = (handlers \ {h}) \cup {g}
              /\ g.id = h.id /\ g.msg = h.msg /\ g.seen = h.seen /\ g.todo = h.todo /\ g.pc = pc
  <1> DEFINE g == [h EXCEPT !.pc = pc]
  <1>1. h \in HandlerState /\ handlers' = (handlers \ {h}) \cup {g}
    BY Handlers DEF GoOn
  <1>2. g \in HandlerState /\ g.id = h.id /\ g.msg = h.msg /\ g.seen = h.seen /\ g.todo = h.todo /\ g.pc = pc
    BY <1>1, GoneOn
  <1> HIDE DEF g
  <1> QED
    BY <1>1, <1>2

LEMMA GoingOnTypeOK ==
    ASSUME TypeOK, NEW h \in handlers, NEW pc \in {"post", "broadcast"}, GoOn(h, pc),
           h.todo.kind # "none", pc = "broadcast" => h.todo.kind = "complete", said' = said
    PROVE  /\ handlers' \subseteq HandlerState
           /\ \A g \in handlers' :
                 /\ g.msg <= Len(said)
                 /\ g.pc \in {"write", "post"} => g.todo.kind # "none"
                 /\ g.pc = "broadcast" => g.todo.kind = "complete"
  <1>1. PICK g \in HandlerState : /\ handlers' = (handlers \ {h}) \cup {g}
                                  /\ g.msg = h.msg /\ g.todo = h.todo /\ g.pc = pc
    BY GoingOn
  <1> QED
    BY <1>1 DEF TypeOK

LEMMA NextTypeOK == TypeOK /\ [Next]_vars => TypeOK'
  <1> SUFFICES ASSUME TypeOK, [Next]_vars
               PROVE  TypeOK'
    OBVIOUS
  <1> USE DEF report, history
  <1>0. /\ MaxMessages \in Nat /\ Len(said) \in Nat
        /\ \A qs \in QuestionList : Head(qs) \in Question
    BY MaxMessagesAssumption, QuestionLists, HeadTailProperties, EmptySeq, LenProperties DEF TypeOK
  <1>1. CASE UNCHANGED vars
    BY <1>1 DEF vars, TypeOK
  <1>2. ASSUME NEW kind \in Kind, Say(kind)
        PROVE  TypeOK'
    <2>1. [kind |-> kind, about |-> shown] \in Message
      BY DEF Message, TypeOK
    <2>2. said' \in Seq(Message) /\ Len(said') = Len(said) + 1
      BY <1>2, <2>1, AppendProperties DEF Say, TypeOK
    <2>3. /\ inbox' \in [1..MaxMessages -> Nat]
          /\ \A i \in 1..MaxMessages : inbox'[i] > 0 => i <= Len(said')
      BY <1>0, <1>2, <2>2 DEF Say, TypeOK
    <2>4. ASSUME NEW h \in handlers
          PROVE  h.msg <= Len(said')
      <3>1. h.msg \in Nat /\ h.msg <= Len(said)
        BY <1>0, Handlers
      <3> QED
        BY <1>0, <2>2, <3>1
    <2> QED
      BY <1>0, <1>2, <2>2, <2>3, <2>4 DEF Say, TypeOK
  <1>3. ASSUME NEW i \in 1..MaxMessages, Redeliver(i)
        PROVE  TypeOK'
    BY <1>0, <1>3 DEF Redeliver, Spend, TypeOK
  <1>4. ASSUME NEW qs \in QuestionList, EditQuestions(qs)
        PROVE  TypeOK'
    BY <1>4 DEF EditQuestions, Spend, TypeOK
  <1>5. ASSUME NEW id \in Handler, NEW i \in 1..MaxMessages, ReadReport(id, i) \/ ReadNoReport(id, i)
        PROVE  TypeOK'
    <2>1. \E pc \in {"load", "retrigger"}, seen \in Seq(Reply) : Begins(id, i, pc, seen)
      BY <1>5, EmptySeq DEF ReadReport, ReadNoReport, TypeOK
    <2>2. \E g \in HandlerState : /\ handlers' = handlers \cup {g}
                                  /\ g.msg = i /\ g.pc \in {"load", "retrigger"}
      BY <2>1, Beginning
    <2>3. i <= Len(said) /\ inbox' \in [1..MaxMessages -> Nat]
      BY <2>1, Beginning
    <2>4. \A j \in 1..MaxMessages : inbox'[j] > 0 => inbox[j] > 0
      <3>1. inbox[i] > 0 /\ \A j \in 1..MaxMessages : j # i => inbox'[j] = inbox[j]
        BY <2>1, Beginning
      <3> QED
        BY <3>1
    <2>5. UNCHANGED <<questions, report, shown, said, posted, restart, history, left>>
      BY <1>5 DEF ReadReport, ReadNoReport
    <2> QED
      BY <2>2, <2>3, <2>4, <2>5 DEF TypeOK
  <1>6. ASSUME NEW h \in handlers, EnqueueRetrigger(h)
        PROVE  TypeOK'
    BY <1>6 DEF EnqueueRetrigger, Return, TypeOK
  <1>7. ASSUME NEW h \in handlers, Decide(h)
        PROVE  TypeOK'
    <2>1. UNCHANGED <<questions, report, shown, said, inbox, posted, restart, history, left>>
      BY <1>7 DEF Decide
    <2>2. CASE handlers' = handlers \ {h}
      BY <2>1, <2>2 DEF TypeOK
    <2>3. CASE \E g \in HandlerState : /\ handlers' = (handlers \ {h}) \cup {g}
                                       /\ g.pc = "write" /\ g.msg = h.msg
                                       /\ g.todo.kind \in {"abort", "next", "complete"}
      BY <2>1, <2>3 DEF TypeOK
    <2> QED
      BY <1>7, <2>2, <2>3, Deciding
  <1>8. ASSUME NEW h \in handlers, WriteAnswers(h)
        PROVE  TypeOK'
    <2>1. h.todo.kind \in {"complete", "next"} /\ h.todo.answers \in Seq(Reply)
      BY <1>8, Handlers, VerdictAnswers DEF WriteAnswers, TypeOK
    <2>2. h.msg \in 1..MaxMessages
      BY Handlers
    <2> QED
      BY <1>8, <2>1, <2>2, GoingOnTypeOK DEF WriteAnswers, TypeOK
  <1>9. ASSUME NEW h \in handlers, WriteAbort(h)
        PROVE  TypeOK'
    BY <1>9, GoingOnTypeOK DEF WriteAbort, TypeOK
  <1>10. ASSUME NEW h \in handlers, PostReply(h)
         PROVE  TypeOK'
    <2>1. shown' \in Question
      BY <1>10, Handlers, VerdictAnswers DEF PostReply, TypeOK
    <2>2. CASE h.todo.kind = "complete"
      BY <1>10, <2>1, <2>2, GoingOnTypeOK DEF PostReply, TypeOK
    <2>3. CASE h.todo.kind # "complete"
      BY <1>10, <2>1, <2>3 DEF PostReply, Return, TypeOK
    <2> QED
      BY <2>2, <2>3
  <1>11. ASSUME NEW h \in handlers, Broadcast(h)
         PROVE  TypeOK'
    BY <1>11 DEF Broadcast, Return, TypeOK
  <1>12. ASSUME NEW h \in handlers, HandlerThrows(h)
         PROVE  TypeOK'
    <2>1. left' \in Nat
      BY <1>12 DEF HandlerThrows, Spend, TypeOK
    <2>2. handlers' \subseteq handlers
      BY <1>12 DEF HandlerThrows, Return
    <2>3. UNCHANGED <<questions, status, answers, shown, said, inbox, posted, restart, filed, lives>>
      BY <1>12 DEF HandlerThrows
    <2> QED
      BY <2>1, <2>2, <2>3 DEF TypeOK
  <1>14. CASE TimeOut
    BY <1>14 DEF TimeOut, Spend, TypeOK
  <1>15. CASE RestartAsks
    BY <1>0, <1>15 DEF RestartAsks, TypeOK
  <1>13. CASE RestartResets
    BY <1>13, EmptySeq DEF RestartResets, TypeOK
  <1> QED
    BY <1>1, <1>2, <1>3, <1>4, <1>5, <1>6, <1>7, <1>8, <1>9, <1>10, <1>11, <1>12, <1>13, <1>14, <1>15 DEF Next

(* Every variable keeps its type, a handler that has decided carries a      *)
(* verdict, and only messages that were sent are delivered or handled.      *)
THEOREM TypeCorrect == Spec => []TypeOK
  BY InitTypeOK, NextTypeOK, PTL DEF Spec

-----------------------------------------------------------------------------
(* What has disturbed the conversation is never forgotten, so an assumption *)
(* about the past holds in every earlier state too.                         *)

LEMMA MishapsGrow ==
    ASSUME [Next]_vars, NEW es, Undisturbed(es)'
    PROVE  Undisturbed(es)
  <1>1. mishaps \subseteq mishaps'
    <2> USE DEF report, history
    <2>1. CASE UNCHANGED vars
      BY <2>1 DEF vars
    <2>2. ASSUME NEW kind \in Kind, Say(kind) PROVE mishaps \subseteq mishaps'
      BY <2>2 DEF Say, Mishap
    <2>3. ASSUME NEW i \in 1..MaxMessages, Redeliver(i) PROVE mishaps \subseteq mishaps'
      BY <2>3 DEF Redeliver, Mishap
    <2>4. ASSUME NEW qs \in QuestionList, EditQuestions(qs) PROVE mishaps \subseteq mishaps'
      BY <2>4 DEF EditQuestions, Mishap
    <2>5. ASSUME NEW id \in Handler, NEW i \in 1..MaxMessages, ReadReport(id, i) \/ ReadNoReport(id, i)
          PROVE  mishaps \subseteq mishaps'
      BY <2>5 DEF ReadReport, ReadNoReport, Mishap
    <2>6. ASSUME NEW h \in handlers,
                 \/ EnqueueRetrigger(h) \/ Decide(h) \/ WriteAnswers(h) \/ WriteAbort(h)
                 \/ PostReply(h) \/ Broadcast(h) \/ HandlerThrows(h)
          PROVE  mishaps \subseteq mishaps'
      BY <2>6 DEF EnqueueRetrigger, Decide, WriteAnswers, WriteAbort, PostReply, Broadcast,
                  HandlerThrows, Mishap
    <2>7. CASE TimeOut \/ RestartAsks \/ RestartResets
      BY <2>7 DEF TimeOut, RestartAsks, RestartResets, Straddles, Mishap
    <2> QED
      BY <2>1, <2>2, <2>3, <2>4, <2>5, <2>6, <2>7 DEF Next
  <1> QED
    BY <1>1 DEF Undisturbed

-----------------------------------------------------------------------------
(* One writer at a time.  Unless two handlers computed their lists at once  *)
(* or one was at work across a restart, whoever still has to write has the  *)
(* answers of the report and adds one to them, ...                          *)

Filed(list) == {list[k].message : k \in DOMAIN list}

WritersExtend ==
    /\ \A g, h \in Unwritten : g = h
    /\ \A h \in handlers :
          /\ h.pc = "load" => h.seen = answers
          /\ h.pc = "write" /\ h.todo.kind # "abort" =>
                \E q \in Question : h.todo.answers = Append(answers, Answer(q, h.msg))
    /\ filed = Filed(answers)

(* ... and whoever has completed the report and still has to post it is     *)
(* alone, and owns one opening that nothing was posted for.                 *)
Completing(h) == h.pc \in {"post", "broadcast"} /\ h.todo.kind = "complete"

PostsFollowOpenings ==
    /\ status = "completed" => Unwritten = {}
    /\ \A g, h \in handlers : Completing(g) /\ Completing(h) => g = h
    /\ \A h \in handlers : Completing(h) => status = "completed" /\ posted < lives
    /\ status # "completed" => posted < lives
    /\ posted <= lives

Calm == Undisturbed({"raced", "straddled"})

LEMMA FiledAppend ==
    ASSUME NEW list \in Seq(Reply), NEW q \in Question, NEW i \in 1..MaxMessages
    PROVE  Filed(Append(list, Answer(q, i))) = Filed(list) \cup {i}
  <1>1. Answer(q, i) \in Reply /\ Answer(q, i).message = i
    BY DEF Answer, Reply
  <1> DEFINE a == Answer(q, i)
  <1> HIDE DEF a
  <1>2. /\ DOMAIN list = 1..Len(list) /\ DOMAIN Append(list, a) = 1..(Len(list) + 1)
        /\ \A k \in 1..Len(list) : Append(list, a)[k] = list[k]
        /\ Append(list, a)[Len(list) + 1] = a /\ Len(list) \in Nat
    BY <1>1, AppendReply DEF a
  <1>3. \A k \in 1..(Len(list) + 1) : k \in 1..Len(list) \/ k = Len(list) + 1
    BY <1>2
  <1>4. a.message = i
    BY <1>1 DEF a
  <1>5. Filed(Append(list, a)) = Filed(list) \cup {i}
    BY <1>2, <1>3, <1>4 DEF Filed
  <1> QED
    BY <1>5 DEF a

LEMMA WritersExtendStep ==
    ASSUME TypeOK, WritersExtend, [Next]_vars, Calm'
    PROVE  WritersExtend'
  <1> USE DEF report, history
  <1>1. CASE UNCHANGED <<answers, handlers, filed>>
    BY <1>1 DEF WritersExtend, Unwritten
  <1>2. ASSUME NEW id \in Handler, NEW i \in 1..MaxMessages, ReadReport(id, i)
        PROVE  WritersExtend'
    <2>1. Begins(id, i, "load", answers) /\ UNCHANGED <<answers, filed>> /\ Unwritten = {}
      BY <1>2 DEF ReadReport, Mishap, Calm, Undisturbed
    <2>2. PICK g \in HandlerState : /\ handlers' = handlers \cup {g}
                                    /\ g.pc = "load" /\ g.seen = answers
      BY <2>1, Beginning DEF TypeOK
    <2>3. Unwritten' = {g}
      BY <2>1, <2>2 DEF Unwritten
    <2> QED
      BY <2>1, <2>2, <2>3 DEF WritersExtend
  <1>3. ASSUME NEW id \in Handler, NEW i \in 1..MaxMessages, ReadNoReport(id, i)
        PROVE  WritersExtend'
    <2>1. UNCHANGED <<answers, filed>>
      BY <1>3 DEF ReadNoReport
    <2>2. PICK g \in HandlerState : handlers' = handlers \cup {g} /\ g.pc = "retrigger"
      BY <1>3, FindingNoReport
    <2>3. Unwritten' = Unwritten
      BY <2>2 DEF Unwritten
    <2> QED
      BY <2>1, <2>2, <2>3 DEF WritersExtend
  <1>4. ASSUME NEW h \in handlers, Decide(h)
        PROVE  WritersExtend'
    <2>1. h.pc = "load" /\ h.seen = answers /\ Unwritten = {h} /\ UNCHANGED <<answers, filed>>
      BY <1>4 DEF Decide, WritersExtend, Unwritten
    <2>2. CASE handlers' = handlers \ {h}
      BY <2>1, <2>2 DEF WritersExtend, Unwritten
    <2>3. ASSUME NEW g \in HandlerState, handlers' = (handlers \ {h}) \cup {g},
                 g.pc = "write" /\ g.msg = h.msg, questions[Len(h.seen) + 1] \in Question,
                 g.todo.kind # "abort" =>
                    g.todo.answers = Append(h.seen, Answer(questions[Len(h.seen) + 1], h.msg))
          PROVE  WritersExtend'
      <3>1. Unwritten' = {g}
        BY <2>1, <2>3 DEF Unwritten
      <3> QED
        BY <2>1, <2>3, <3>1 DEF WritersExtend
    <2> QED
      BY <1>4, <2>2, <2>3, Deciding
  <1>5. ASSUME NEW h \in handlers, WriteAnswers(h)
        PROVE  WritersExtend'
    <2>1. /\ h.pc = "write" /\ h.todo.kind # "abort" /\ Unwritten = {h}
          /\ answers' = h.todo.answers /\ filed' = filed \cup {h.msg}
      BY <1>5 DEF WriteAnswers, WritersExtend, Unwritten
    <2>2. PICK q \in Question : answers' = Append(answers, Answer(q, h.msg))
      BY <2>1 DEF WritersExtend
    <2>3. filed' = Filed(answers')
      BY <2>1, <2>2, FiledAppend, Handlers DEF WritersExtend, TypeOK
    <2>4. PICK g \in HandlerState : handlers' = (handlers \ {h}) \cup {g} /\ g.pc = "post"
      BY <1>5, GoingOn DEF WriteAnswers
    <2>5. Unwritten' = {}
      BY <2>1, <2>4 DEF Unwritten
    <2> QED
      BY <2>3, <2>5 DEF WritersExtend, Unwritten
  <1>6. ASSUME NEW h \in handlers, NEW pc \in {"post", "broadcast"}, GoOn(h, pc),
               UNCHANGED <<answers, filed>>
        PROVE  WritersExtend'
    <2>1. PICK g \in HandlerState : handlers' = (handlers \ {h}) \cup {g} /\ g.pc = pc
      BY <1>6, GoingOn
    <2> QED
      BY <1>6, <2>1 DEF WritersExtend, Unwritten
  <1>7. ASSUME NEW h \in handlers, Return(h), UNCHANGED <<answers, filed>>
        PROVE  WritersExtend'
    BY <1>7 DEF Return, WritersExtend, Unwritten
  <1>8. CASE RestartResets
    <2>1. handlers = {} /\ handlers' = {}
      BY <1>8 DEF RestartResets, Straddles, Mishap, Calm, Undisturbed
    <2>2. filed' = Filed(answers')
      BY <1>8 DEF RestartResets, Filed
    <2> QED
      BY <2>1, <2>2 DEF WritersExtend, Unwritten
  <1>9. CASE UNCHANGED vars
    BY <1>1, <1>9 DEF vars
  <1>10. ASSUME NEW h \in handlers,
                \/ EnqueueRetrigger(h) \/ WriteAbort(h) \/ PostReply(h) \/ Broadcast(h) \/ HandlerThrows(h)
         PROVE  WritersExtend'
    BY <1>6, <1>7, <1>10
       DEF EnqueueRetrigger, WriteAbort, PostReply, Broadcast, HandlerThrows
  <1>11. ASSUME NEW kind \in Kind, Say(kind) PROVE WritersExtend'
    BY <1>1, <1>11 DEF Say
  <1>12. ASSUME NEW i \in 1..MaxMessages, Redeliver(i) PROVE WritersExtend'
    BY <1>1, <1>12 DEF Redeliver
  <1>13. ASSUME NEW qs \in QuestionList, EditQuestions(qs) PROVE WritersExtend'
    BY <1>1, <1>13 DEF EditQuestions
  <1>14. CASE TimeOut \/ RestartAsks
    BY <1>1, <1>14 DEF TimeOut, RestartAsks
  <1> QED
    BY <1>2, <1>3, <1>4, <1>5, <1>8, <1>9, <1>10, <1>11, <1>12, <1>13, <1>14 DEF Next

LEMMA PostsFollowOpeningsStep ==
    ASSUME TypeOK, WritersExtend, PostsFollowOpenings, [Next]_vars, Calm'
    PROVE  PostsFollowOpenings'
  <1> USE DEF report, history
  <1>0. posted \in Nat /\ lives \in Nat
    BY DEF TypeOK
  <1>1. CASE UNCHANGED <<status, handlers, posted, lives>>
    BY <1>1 DEF PostsFollowOpenings, Unwritten, Completing
  <1>2. ASSUME NEW g \in HandlerState, handlers' = handlers \cup {g}, g.pc \in {"load", "retrigger"},
               g.pc = "load" => status = "in_progress", UNCHANGED <<status, posted, lives>>
        PROVE  PostsFollowOpenings'
    BY <1>2 DEF PostsFollowOpenings, Unwritten, Completing
  <1>3. ASSUME NEW id \in Handler, NEW i \in 1..MaxMessages, ReadReport(id, i)
        PROVE  PostsFollowOpenings'
    <2>1. /\ status = "in_progress" /\ Begins(id, i, "load", answers)
          /\ UNCHANGED <<status, posted, lives>>
      BY <1>3 DEF ReadReport
    <2>2. PICK g \in HandlerState : handlers' = handlers \cup {g} /\ g.pc = "load"
      BY <2>1, Beginning DEF TypeOK
    <2> QED
      BY <1>2, <2>1, <2>2
  <1>4. ASSUME NEW id \in Handler, NEW i \in 1..MaxMessages, ReadNoReport(id, i)
        PROVE  PostsFollowOpenings'
    <2>1. PICK g \in HandlerState : handlers' = handlers \cup {g} /\ g.pc = "retrigger"
      BY <1>4, FindingNoReport
    <2> QED
      BY <1>2, <1>4, <2>1 DEF ReadNoReport
  <1>5. ASSUME NEW h \in handlers, Decide(h)
        PROVE  PostsFollowOpenings'
    <2>1. h.pc = "load" /\ UNCHANGED <<status, posted, lives>>
      BY <1>5 DEF Decide
    <2>2. \/ handlers' = handlers \ {h}
          \/ \E g \in HandlerState : handlers' = (handlers \ {h}) \cup {g} /\ g.pc = "write"
      BY <1>5, Deciding
    <2> QED
      BY <2>1, <2>2 DEF PostsFollowOpenings, Unwritten, Completing
  <1>6. ASSUME NEW h \in handlers, WriteAnswers(h) \/ WriteAbort(h)
        PROVE  PostsFollowOpenings'
    <2>1. /\ h.pc = "write" /\ Unwritten = {h} /\ GoOn(h, "post") /\ UNCHANGED <<posted, lives>>
          /\ status' = "completed" <=> h.todo.kind = "complete"
      BY <1>6 DEF WriteAnswers, WriteAbort, WritersExtend, PostsFollowOpenings, Unwritten
    <2>2. PICK g \in HandlerState : /\ handlers' = (handlers \ {h}) \cup {g}
                                    /\ g.pc = "post" /\ g.todo = h.todo
      BY <2>1, GoingOn
    <2>3. \A k \in handlers : ~Completing(k)
      BY <2>1 DEF PostsFollowOpenings
    <2>4. posted < lives /\ Unwritten' = {}
      BY <2>1, <2>2 DEF PostsFollowOpenings, Unwritten
    <2> QED
      BY <1>0, <2>1, <2>2, <2>3, <2>4 DEF PostsFollowOpenings, Completing
  <1>7. ASSUME NEW h \in handlers, PostReply(h)
        PROVE  PostsFollowOpenings'
    <2>1. h.pc = "post" /\ UNCHANGED <<status, posted, lives>>
      BY <1>7 DEF PostReply
    <2>2. \/ handlers' = handlers \ {h}
          \/ \E g \in HandlerState : /\ handlers' = (handlers \ {h}) \cup {g}
                                     /\ g.pc = "broadcast" /\ g.todo = h.todo
      BY <1>7, GoingOn DEF PostReply, Return
    <2> QED
      BY <2>1, <2>2 DEF PostsFollowOpenings, Unwritten, Completing
  <1>8. ASSUME NEW h \in handlers, Broadcast(h)
        PROVE  PostsFollowOpenings'
    <2>1. /\ h.pc = "broadcast" /\ handlers' = handlers \ {h} /\ posted' = posted + 1
          /\ UNCHANGED <<status, lives>>
      BY <1>8 DEF Broadcast, Return
    <2>2. Completing(h)
      BY <2>1 DEF Completing, TypeOK
    <2>3. status = "completed" /\ posted < lives /\ \A k \in handlers' : ~Completing(k)
      BY <2>1, <2>2 DEF PostsFollowOpenings
    <2>4. Unwritten' = {} /\ \A k \in handlers' : ~Completing(k)'
      BY <2>1, <2>3 DEF PostsFollowOpenings, Unwritten, Completing
    <2> QED
      BY <1>0, <2>1, <2>3, <2>4 DEF PostsFollowOpenings
  <1>9. ASSUME NEW h \in handlers, EnqueueRetrigger(h) \/ HandlerThrows(h)
        PROVE  PostsFollowOpenings'
    BY <1>9 DEF EnqueueRetrigger, HandlerThrows, Return, PostsFollowOpenings, Unwritten, Completing
  <1>10. CASE TimeOut
    BY <1>10 DEF TimeOut, PostsFollowOpenings, Completing
  <1>11. CASE RestartResets
    <2>1. handlers' = {} /\ status' = "in_progress" /\ lives' = lives + 1 /\ posted' = posted
      BY <1>11 DEF RestartResets, Straddles, Mishap, Calm, Undisturbed
    <2> QED
      BY <1>0, <2>1 DEF PostsFollowOpenings
  <1>12. ASSUME NEW kind \in Kind, Say(kind) PROVE PostsFollowOpenings'
    BY <1>1, <1>12 DEF Say
  <1>13. ASSUME NEW i \in 1..MaxMessages, Redeliver(i) PROVE PostsFollowOpenings'
    BY <1>1, <1>13 DEF Redeliver
  <1>14. ASSUME NEW qs \in QuestionList, EditQuestions(qs) PROVE PostsFollowOpenings'
    BY <1>1, <1>14 DEF EditQuestions
  <1>15. CASE RestartAsks
    BY <1>1, <1>15 DEF RestartAsks
  <1>16. CASE UNCHANGED vars
    BY <1>1, <1>16 DEF vars
  <1> QED
    BY <1>3, <1>4, <1>5, <1>6, <1>7, <1>8, <1>9, <1>10, <1>11, <1>12, <1>13, <1>14, <1>15, <1>16 DEF Next

-----------------------------------------------------------------------------
(* The answers follow the questions.  As long as nobody edits them, whoever *)
(* has decided but not written adds the answer to the question whose turn   *)
(* it is, and knows which one comes next.                                   *)

Extends(h) ==
    /\ Len(answers) < Len(questions)
    /\ h.todo.kind # "abort" =>
          h.todo.answers = Append(answers, Answer(questions[Len(answers) + 1], h.msg))
    /\ h.todo.kind = "complete" => Len(answers) + 1 = Len(questions)
    /\ h.todo.kind = "next" =>
          Len(answers) + 1 < Len(questions) /\ h.todo.show = questions[Len(answers) + 2]

AnswersFollowQuestions ==
    /\ Len(answers) <= Len(questions)
    /\ \A k \in 1..Len(answers) : answers[k].question = questions[k]
    /\ status = "completed" => Len(answers) = Len(questions)
    /\ \A h \in handlers : h.pc = "write" => Extends(h)

Unedited == Undisturbed({"edit", "raced", "straddled"})

LEMMA Lengths ==
    ASSUME TypeOK
    PROVE  /\ Len(answers) \in Nat /\ Len(questions) \in Nat /\ Len(questions) >= 1
           /\ DOMAIN answers = 1..Len(answers) /\ DOMAIN questions = 1..Len(questions)
           /\ Head(questions) = questions[1]
           /\ \A k \in 1..Len(questions) : questions[k] \in Question
  <1>1. questions \in Seq(Question) /\ Len(questions) >= 1 /\ Head(questions) = questions[1]
    BY QuestionLists DEF TypeOK
  <1> QED
    BY <1>1, LenProperties, ElementOfSeq DEF TypeOK

(* What WriteAnswers adds when the handler's list is the answers so far and *)
(* the answer to the next question.                                         *)
LEMMA Extending ==
    ASSUME TypeOK, NEW h \in handlers, WriteAnswers(h), Extends(h)
    PROVE  /\ Len(answers') = Len(answers) + 1
           /\ \A k \in 1..Len(answers) : answers'[k] = answers[k]
           /\ answers'[Len(answers) + 1].question = questions[Len(answers) + 1]
           /\ answers'[Len(answers) + 1].message = h.msg
  <1> DEFINE a == Answer(questions[Len(answers) + 1], h.msg)
  <1>0. Len(answers) \in Nat /\ Len(questions) \in Nat
    BY Lengths
  <1>1. Len(answers) + 1 \in 1..Len(questions)
    BY <1>0 DEF Extends
  <1>2. questions[Len(answers) + 1] \in Question /\ h.msg \in 1..MaxMessages /\ answers \in Seq(Reply)
    BY <1>1, Lengths, Handlers DEF TypeOK
  <1>3. a \in Reply /\ a.question = questions[Len(answers) + 1] /\ a.message = h.msg
    BY <1>2 DEF Answer, Reply
  <1>4. answers' = Append(answers, a)
    BY DEF WriteAnswers, Extends, report
  <1> HIDE DEF a
  <1> QED
    BY <1>2, <1>3, <1>4, AppendReply

LEMMA AnswersFollowQuestionsStep ==
    ASSUME TypeOK, WritersExtend, PostsFollowOpenings, AnswersFollowQuestions, [Next]_vars, Unedited'
    PROVE  AnswersFollowQuestions'
  <1> USE DEF report, history
  <1>0. Calm'
    BY DEF Unedited, Calm, Undisturbed
  <1>1. CASE UNCHANGED <<questions, status, answers, handlers>>
    BY <1>1 DEF AnswersFollowQuestions, Extends
  <1>2. ASSUME NEW g \in HandlerState, handlers' = handlers \cup {g}, g.pc \in {"load", "retrigger"},
               UNCHANGED <<questions, status, answers>>
        PROVE  AnswersFollowQuestions'
    BY <1>2 DEF AnswersFollowQuestions, Extends
  <1>3. ASSUME NEW id \in Handler, NEW i \in 1..MaxMessages, ReadReport(id, i)
        PROVE  AnswersFollowQuestions'
    <2>1. Begins(id, i, "load", answers) /\ UNCHANGED <<questions, status, answers>>
      BY <1>3 DEF ReadReport
    <2>2. PICK g \in HandlerState : handlers' = handlers \cup {g} /\ g.pc = "load"
      BY <2>1, Beginning DEF TypeOK
    <2> QED
      BY <1>2, <2>1, <2>2
  <1>4. ASSUME NEW id \in Handler, NEW i \in 1..MaxMessages, ReadNoReport(id, i)
        PROVE  AnswersFollowQuestions'
    <2>1. PICK g \in HandlerState : handlers' = handlers \cup {g} /\ g.pc = "retrigger"
      BY <1>4, FindingNoReport
    <2> QED
      BY <1>2, <1>4, <2>1 DEF ReadNoReport
  <1>5. ASSUME NEW h \in handlers, Decide(h)
        PROVE  AnswersFollowQuestions'
    <2>1. h.seen = answers /\ UNCHANGED <<questions, status, answers>>
      BY <1>5 DEF Decide, WritersExtend
    <2>2. CASE handlers' = handlers \ {h}
      BY <2>1, <2>2 DEF AnswersFollowQuestions, Extends
    <2>3. ASSUME NEW g \in HandlerState, handlers' = (handlers \ {h}) \cup {g},
                 g.pc = "write", g.msg = h.msg, Len(h.seen) < Len(questions),
                 g.todo.kind # "abort" =>
                    g.todo.answers = Append(h.seen, Answer(questions[Len(h.seen) + 1], h.msg)),
                 g.todo.kind = "complete" => Len(h.seen) + 1 = Len(questions),
                 g.todo.kind = "next" => /\ Len(h.seen) + 1 < Len(questions)
                                         /\ g.todo.show = questions[Len(h.seen) + 2]
          PROVE  AnswersFollowQuestions'
      BY <2>1, <2>3 DEF AnswersFollowQuestions, Extends
    <2> QED
      BY <1>5, <2>2, <2>3, Deciding
  <1>6. ASSUME NEW h \in handlers, WriteAnswers(h)
        PROVE  AnswersFollowQuestions'
    <2>1. /\ h.pc = "write" /\ h.todo.kind # "abort" /\ Unwritten = {h} /\ status # "completed"
          /\ status' = IF h.todo.kind = "complete" THEN "completed" ELSE status
          /\ questions' = questions /\ GoOn(h, "post")
      BY <1>6 DEF WriteAnswers, WritersExtend, PostsFollowOpenings, Unwritten
    <2>2. Extends(h)
      BY <2>1 DEF AnswersFollowQuestions
    <2>3. PICK g \in HandlerState : handlers' = (handlers \ {h}) \cup {g} /\ g.pc = "post"
      BY <2>1, GoingOn
    <2>4. \A k \in handlers' : k.pc # "write"
      BY <2>1, <2>3 DEF Unwritten
    <2>5. /\ Len(answers') = Len(answers) + 1
          /\ \A k \in 1..Len(answers) : answers'[k] = answers[k]
          /\ answers'[Len(answers) + 1].question = questions[Len(answers) + 1]
      BY <1>6, <2>2, Extending
    <2> DEFINE n == Len(answers)
    <2>6. n \in Nat /\ Len(questions) \in Nat
      BY Lengths
    <2>7. \A k \in 1..n : answers[k].question = questions[k]
      BY DEF AnswersFollowQuestions
    <2>8. n < Len(questions) /\ (h.todo.kind = "complete" => n + 1 = Len(questions))
      BY <2>2 DEF Extends
    <2> HIDE DEF n
    <2>9. \A k \in 1..(n + 1) : k \in 1..n \/ k = n + 1
      BY <2>6
    <2>10. \A k \in 1..Len(answers') : answers'[k].question = questions'[k]
      BY <2>1, <2>5, <2>7, <2>9 DEF n
    <2>11. /\ Len(answers') <= Len(questions')
           /\ status' = "completed" => Len(answers') = Len(questions')
      BY <2>1, <2>5, <2>6, <2>8 DEF n
    <2> QED
      BY <2>4, <2>10, <2>11 DEF AnswersFollowQuestions
  <1>7. ASSUME NEW h \in handlers, WriteAbort(h)
        PROVE  AnswersFollowQuestions'
    <2>1. /\ h.pc = "write" /\ Unwritten = {h} /\ status' = "timed_out" /\ GoOn(h, "post")
          /\ UNCHANGED <<questions, answers>>
      BY <1>7 DEF WriteAbort, WritersExtend, Unwritten
    <2>2. PICK g \in HandlerState : handlers' = (handlers \ {h}) \cup {g} /\ g.pc = "post"
      BY <2>1, GoingOn
    <2> QED
      BY <2>1, <2>2 DEF AnswersFollowQuestions, Unwritten
  <1>8. ASSUME NEW h \in handlers, PostReply(h)
        PROVE  AnswersFollowQuestions'
    <2>1. UNCHANGED <<questions, status, answers>>
      BY <1>8 DEF PostReply
    <2>2. \/ handlers' = handlers \ {h}
          \/ \E g \in HandlerState : handlers' = (handlers \ {h}) \cup {g} /\ g.pc = "broadcast"
      BY <1>8, GoingOn DEF PostReply, Return
    <2> QED
      BY <2>1, <2>2 DEF AnswersFollowQuestions, Extends
  <1>9. ASSUME NEW h \in handlers, EnqueueRetrigger(h) \/ Broadcast(h) \/ HandlerThrows(h)
        PROVE  AnswersFollowQuestions'
    BY <1>9 DEF EnqueueRetrigger, Broadcast, HandlerThrows, Return, AnswersFollowQuestions, Extends
  <1>10. CASE TimeOut
    BY <1>10 DEF TimeOut, AnswersFollowQuestions, Extends
  <1>11. CASE RestartResets
    <2>1. handlers' = {} /\ answers' = <<>> /\ questions' = questions /\ status' = "in_progress"
      BY <1>0, <1>11 DEF RestartResets, Straddles, Mishap, Calm, Undisturbed
    <2>2. Len(answers') = 0 /\ Len(questions') \in Nat
      BY <2>1, Lengths
    <2> QED
      BY <2>1, <2>2 DEF AnswersFollowQuestions
  <1>12. ASSUME NEW kind \in Kind, Say(kind) PROVE AnswersFollowQuestions'
    BY <1>1, <1>12 DEF Say
  <1>13. ASSUME NEW i \in 1..MaxMessages, Redeliver(i) PROVE AnswersFollowQuestions'
    BY <1>1, <1>13 DEF Redeliver
  <1>14. ASSUME NEW qs \in QuestionList, EditQuestions(qs) PROVE AnswersFollowQuestions'
    BY <1>14 DEF EditQuestions, Mishap, Unedited, Undisturbed
  <1>15. CASE RestartAsks
    BY <1>1, <1>15 DEF RestartAsks
  <1>16. CASE UNCHANGED vars
    BY <1>1, <1>16 DEF vars
  <1> QED
    BY <1>3, <1>4, <1>5, <1>6, <1>7, <1>8, <1>9, <1>10, <1>11, <1>12, <1>13, <1>14, <1>15, <1>16 DEF Next

-----------------------------------------------------------------------------
(* The DM keeps up with the report.  When moreover no handler dies and none *)
(* reads the report while another is at work, one handler at most is busy   *)
(* with it, and until that one posts, the last question in the DM is the    *)
(* one whose turn it is; the worker posts the first question of a restart   *)
(* before it opens the report again.                                        *)

Busy    == {h \in handlers : h.pc # "retrigger"}
Posting == {h \in handlers : h.pc = "post"}

NextIs(q) == Len(answers) < Len(questions) /\ q = questions[Len(answers) + 1]

InStep ==
    /\ \A g, h \in Busy : g = h
    /\ (status = "in_progress" \/ Unwritten # {}) /\ Posting = {} => NextIs(shown)
    /\ \A h \in Posting :
          /\ h.todo.kind = "next" => NextIs(h.todo.show)
          /\ h.todo.kind # "next" => status # "in_progress"
    /\ restart = "asked" => status = "timed_out" /\ Busy = {} /\ shown = Head(questions)

Orderly == Undisturbed({"edit", "throw", "raced", "crossed", "straddled"})

LEMMA InStepStep ==
    ASSUME TypeOK, WritersExtend, AnswersFollowQuestions, InStep, [Next]_vars, Orderly'
    PROVE  InStep'
  <1> USE DEF report, history
  <1>1. CASE UNCHANGED <<questions, status, answers, shown, handlers, restart>>
    BY <1>1 DEF InStep, NextIs, Busy, Posting, Unwritten
  <1>2. ASSUME NEW id \in Handler, NEW i \in 1..MaxMessages, ReadReport(id, i)
        PROVE  InStep'
    <2>1. /\ status = "in_progress" /\ handlers = {} /\ Begins(id, i, "load", answers)
          /\ UNCHANGED <<questions, status, answers, shown, restart>>
      BY <1>2 DEF ReadReport, Mishap, Orderly, Undisturbed
    <2>2. PICK g \in HandlerState : handlers' = handlers \cup {g} /\ g.pc = "load"
      BY <2>1, Beginning DEF TypeOK
    <2> QED
      BY <2>1, <2>2 DEF InStep, NextIs, Busy, Posting, Unwritten
  <1>3. ASSUME NEW id \in Handler, NEW i \in 1..MaxMessages, ReadNoReport(id, i)
        PROVE  InStep'
    <2>1. UNCHANGED <<questions, status, answers, shown, restart>>
      BY <1>3 DEF ReadNoReport
    <2>2. PICK g \in HandlerState : handlers' = handlers \cup {g} /\ g.pc = "retrigger"
      BY <1>3, FindingNoReport
    <2>3. Busy' = Busy /\ Posting' = Posting /\ Unwritten' = Unwritten
      BY <2>2 DEF Busy, Posting, Unwritten
    <2> QED
      BY <2>1, <2>3 DEF InStep, NextIs
  <1>4. ASSUME NEW h \in handlers, EnqueueRetrigger(h)
        PROVE  InStep'
    <2>1. /\ h.pc = "retrigger" /\ handlers' = handlers \ {h} /\ (restart' = "asked" => restart = "asked")
          /\ UNCHANGED <<questions, status, answers, shown>>
      BY <1>4 DEF EnqueueRetrigger, Return
    <2>2. Busy' = Busy /\ Posting' = Posting /\ Unwritten' = Unwritten
      BY <2>1 DEF Busy, Posting, Unwritten
    <2> QED
      BY <2>1, <2>2 DEF InStep, NextIs
  <1>5. ASSUME NEW h \in handlers, Decide(h)
        PROVE  InStep'
    <2>1. h.pc = "load" /\ UNCHANGED <<questions, status, answers, shown, restart>>
      BY <1>5 DEF Decide
    <2>2. Busy = {h} /\ Posting = {} /\ Unwritten = {h}
      BY <2>1 DEF InStep, Busy, Posting, Unwritten
    <2>3. NextIs(shown) /\ restart # "asked"
      BY <2>2 DEF InStep
    <2>4. \/ handlers' = handlers \ {h}
          \/ \E g \in HandlerState : handlers' = (handlers \ {h}) \cup {g} /\ g.pc = "write"
      BY <1>5, Deciding
    <2>5. Posting' = {} /\ \A f, g \in Busy' : f = g
      BY <2>2, <2>4 DEF Busy, Posting
    <2> QED
      BY <2>1, <2>3, <2>5 DEF InStep, NextIs
  <1>6. ASSUME NEW h \in handlers, WriteAnswers(h)
        PROVE  InStep'
    <2>1. /\ h.pc = "write" /\ h.todo.kind # "abort" /\ GoOn(h, "post") /\ UNCHANGED <<questions, restart>>
          /\ status' = IF h.todo.kind = "complete" THEN "completed" ELSE status
      BY <1>6 DEF WriteAnswers
    <2>2. Busy = {h} /\ Extends(h) /\ restart # "asked"
      BY <2>1 DEF InStep, Busy, AnswersFollowQuestions
    <2>3. PICK g \in HandlerState : /\ handlers' = (handlers \ {h}) \cup {g}
                                    /\ g.pc = "post" /\ g.todo = h.todo
      BY <2>1, GoingOn
    <2>4. Busy' = {g} /\ Posting' = {g}
      BY <2>2, <2>3 DEF Busy, Posting
    <2>5. h.todo.kind \in {"complete", "next"}
      BY <2>1, Handlers, VerdictAnswers DEF TypeOK
    <2>6. ASSUME h.todo.kind = "next" PROVE NextIs(h.todo.show)'
      <3>1. Len(answers') = Len(answers) + 1 /\ Len(answers) \in Nat
        BY <1>6, <2>2, Extending, Lengths
      <3>2. Len(answers) + 1 < Len(questions) /\ h.todo.show = questions[Len(answers) + 2]
        BY <2>2, <2>6 DEF Extends
      <3>3. Len(answers') + 1 = Len(answers) + 2
        BY <3>1
      <3> QED
        BY <2>1, <3>1, <3>2, <3>3 DEF NextIs
    <2> QED
      BY <2>1, <2>2, <2>3, <2>4, <2>5, <2>6 DEF InStep, NextIs
  <1>7. ASSUME NEW h \in handlers, WriteAbort(h)
        PROVE  InStep'
    <2>1. /\ h.pc = "write" /\ h.todo.kind = "abort" /\ GoOn(h, "post") /\ status' = "timed_out"
          /\ UNCHANGED restart
      BY <1>7 DEF WriteAbort
    <2>2. Busy = {h} /\ restart # "asked"
      BY <2>1 DEF InStep, Busy
    <2>3. PICK g \in HandlerState : /\ handlers' = (handlers \ {h}) \cup {g}
                                    /\ g.pc = "post" /\ g.todo = h.todo
      BY <2>1, GoingOn
    <2>4. Busy' = {g} /\ Posting' = {g}
      BY <2>2, <2>3 DEF Busy, Posting
    <2> QED
      BY <2>1, <2>2, <2>3, <2>4 DEF InStep
  <1>8. ASSUME NEW h \in handlers, PostReply(h)
        PROVE  InStep'
    <2>1. /\ h.pc = "post" /\ UNCHANGED <<questions, status, answers, restart>>
          /\ shown' = IF h.todo.kind = "next" THEN h.todo.show ELSE shown
      BY <1>8 DEF PostReply
    <2>2. h \in Posting /\ Busy = {h} /\ restart # "asked"
      BY <2>1 DEF InStep, Busy, Posting
    <2>3. \/ handlers' = handlers \ {h}
          \/ \E g \in HandlerState : handlers' = (handlers \ {h}) \cup {g} /\ g.pc = "broadcast"
      BY <1>8, GoingOn DEF PostReply, Return
    <2>4. Posting' = {} /\ Unwritten' = {} /\ \A f, g \in Busy' : f = g
      BY <2>2, <2>3 DEF Busy, Posting, Unwritten
    <2> QED
      BY <2>1, <2>2, <2>4 DEF InStep, NextIs
  <1>9. ASSUME NEW h \in handlers, Broadcast(h)
        PROVE  InStep'
    <2>1. /\ h.pc = "broadcast" /\ handlers' = handlers \ {h}
          /\ UNCHANGED <<questions, status, answers, shown, restart>>
      BY <1>9 DEF Broadcast, Return
    <2>2. Posting' = Posting /\ Unwritten' = Unwritten /\ Busy' \subseteq Busy
      BY <2>1 DEF Busy, Posting, Unwritten
    <2> QED
      BY <2>1, <2>2 DEF InStep, NextIs
  <1>10. ASSUME NEW h \in handlers, HandlerThrows(h)
         PROVE  InStep'
    BY <1>10 DEF HandlerThrows, Mishap, Orderly, Undisturbed
  <1>11. CASE TimeOut
    <2>1. status' = "timed_out" /\ UNCHANGED <<questions, answers, shown, handlers, restart>>
      BY <1>11 DEF TimeOut
    <2>2. Posting' = Posting /\ Unwritten' = Unwritten /\ Busy' = Busy
      BY <2>1 DEF Busy, Posting, Unwritten
    <2> QED
      BY <1>11, <2>1, <2>2 DEF TimeOut, InStep, NextIs
  <1>12. CASE RestartAsks
    <2>1. /\ handlers = {} /\ handlers' = {} /\ UNCHANGED <<questions, status, answers>>
          /\ \/ status = "timed_out" /\ restart' = "asked" /\ shown' = Head(questions)
             \/ restart' = "none" /\ UNCHANGED shown
      BY <1>12 DEF RestartAsks, Straddles, Mishap, Orderly, Undisturbed
    <2>2. /\ Posting = {} /\ Unwritten = {} /\ Busy = {}
          /\ Posting' = {} /\ Unwritten' = {} /\ Busy' = {}
      BY <2>1 DEF Busy, Posting, Unwritten
    <2> QED
      BY <2>1, <2>2 DEF InStep, NextIs
  <1>13. CASE RestartResets
    <2>1. /\ handlers' = {} /\ answers' = <<>> /\ restart' = "none" /\ restart = "asked"
          /\ UNCHANGED <<questions, shown>>
      BY <1>13 DEF RestartResets, Straddles, Mishap, Orderly, Undisturbed
    <2>2. Posting' = {} /\ Unwritten' = {} /\ Busy' = {}
      BY <2>1 DEF Busy, Posting, Unwritten
    <2>3. shown = questions[1] /\ Len(answers') = 0 /\ Len(questions) \in Nat /\ Len(questions) >= 1
      BY <2>1, Lengths DEF InStep
    <2>4. NextIs(shown)'
      BY <2>1, <2>3 DEF NextIs
    <2> QED
      BY <2>1, <2>2, <2>4 DEF InStep
  <1>14. ASSUME NEW kind \in Kind, Say(kind) PROVE InStep'
    BY <1>1, <1>14 DEF Say
  <1>15. ASSUME NEW i \in 1..MaxMessages, Redeliver(i) PROVE InStep'
    BY <1>1, <1>15 DEF Redeliver
  <1>16. ASSUME NEW qs \in QuestionList, EditQuestions(qs) PROVE InStep'
    BY <1>16 DEF EditQuestions, Mishap, Orderly, Undisturbed
  <1>17. CASE UNCHANGED vars
    BY <1>1, <1>17 DEF vars
  <1> QED
    BY <1>2, <1>3, <1>4, <1>5, <1>6, <1>7, <1>8, <1>9, <1>10, <1>11, <1>12, <1>13, <1>14, <1>15,
       <1>16, <1>17 DEF Next

-----------------------------------------------------------------------------
(* One message at a time.  With a member who waits for the bot, and Slack   *)
(* delivering everything once, at most one message is under way, handlers   *)
(* never meet each other nor a restart, and a message that is still to be   *)
(* filed was written under the question that the DM still shows.            *)

OneAtATime ==
    /\ Undisturbed({"raced", "crossed", "straddled"})
    /\ \A i \in 1..MaxMessages : inbox[i] <= 1
    /\ \A i, j \in 1..MaxMessages : inbox[i] > 0 /\ inbox[j] > 0 => i = j
    /\ \A i \in 1..MaxMessages :
          inbox[i] > 0 => handlers = {} /\ restart = "none" /\ said[i].about = shown
    /\ \A g, h \in handlers : g = h
    /\ restart # "none" => handlers = {}
    /\ \A h \in Unwritten : said[h.msg].about = shown
    /\ \A k \in 1..Len(answers) : /\ answers[k].message \in 1..Len(said)
                                  /\ answers[k].question = said[answers[k].message].about

Patient == Undisturbed({"edit", "redelivery", "throw", "hasty"})

LEMMA PatientIsOrderly ==
    ASSUME Patient, OneAtATime
    PROVE  Orderly
  BY DEF Patient, OneAtATime, Orderly, Undisturbed

(* A step of one handler that leaves the inbox, the messages and the report *)
(* alone.                                                                   *)
LEMMA OneHandlerMoves ==
    ASSUME OneAtATime, NEW h \in handlers,
           \/ handlers' = handlers \ {h}
           \/ \E g \in HandlerState : /\ handlers' = (handlers \ {h}) \cup {g}
                                      /\ g.pc \in {"load", "write"} => h.pc \in {"load", "write"}
                                      /\ g.msg = h.msg,
           UNCHANGED <<inbox, said, mishaps>>,
           shown' = shown \/ Unwritten' = {},
           restart' # "none" => handlers' = {} \/ restart' = restart,
           \A k \in 1..Len(answers') : /\ answers'[k].message \in 1..Len(said)
                                       /\ answers'[k].question = said[answers'[k].message].about
    PROVE  OneAtATime'
  <1>1. handlers = {h} /\ restart = "none" /\ \A i \in 1..MaxMessages : ~(inbox[i] > 0)
    BY DEF OneAtATime
  <1>2. /\ \A f, g \in handlers' : f = g
        /\ restart' # "none" => handlers' = {}
    BY <1>1
  <1>3. \A g \in Unwritten' : said'[g.msg].about = shown'
    BY <1>1 DEF OneAtATime, Unwritten
  <1> QED
    BY <1>1, <1>2, <1>3 DEF OneAtATime, Undisturbed

LEMMA OneAtATimeStep ==
    ASSUME TypeOK, WritersExtend, AnswersFollowQuestions, InStep, OneAtATime, [Next]_vars, Patient'
    PROVE  OneAtATime'
  <1> USE DEF report, history
  <1>0. inbox \in [1..MaxMessages -> Nat] /\ Len(said) \in Nat /\ said \in Seq(Message) /\ MaxMessages \in Nat
    BY LenProperties, MaxMessagesAssumption DEF TypeOK
  <1> DEFINE FiledWell ==
        \A k \in 1..Len(answers) : /\ answers[k].message \in 1..Len(said)
                                   /\ answers[k].question = said[answers[k].message].about
  <1>01. FiledWell
    BY DEF OneAtATime
  <1>1. CASE UNCHANGED <<answers, shown, said, inbox, handlers, restart, mishaps>>
    BY <1>1 DEF OneAtATime, Unwritten, Undisturbed
  <1>2. ASSUME NEW kind \in Kind, Say(kind)
        PROVE  OneAtATime'
    <2> DEFINE n == Len(said) + 1
               m == [kind |-> kind, about |-> shown]
    <2>1. /\ n \in 1..MaxMessages /\ said' = Append(said, m) /\ inbox' = [inbox EXCEPT ![n] = 1]
          /\ UNCHANGED <<answers, shown, handlers, restart>>
      BY <1>0, <1>2 DEF Say
    <2>2. ~Hasty /\ mishaps' = mishaps
      BY <1>2 DEF Say, Mishap, Patient, Undisturbed
    <2>3. handlers = {} /\ restart = "none" /\ \A i \in 1..MaxMessages : ~(inbox[i] > 0)
      BY <1>0, <2>2 DEF Hasty
    <2>4. m \in Message /\ m.about = shown
      BY DEF Message, TypeOK
    <2> HIDE DEF m
    <2>5. /\ Len(said') = n /\ said'[n] = m
          /\ \A i \in 1..Len(said) : said'[i] = said[i]
      BY <1>0, <2>1, <2>4, AppendProperties
    <2>6. \A i \in 1..Len(said) : i \in 1..n
      BY <1>0
    <2>7. \A i \in 1..MaxMessages : inbox'[i] = IF i = n THEN 1 ELSE inbox[i]
      BY <1>0, <2>1
    <2> HIDE DEF n
    <2>8. \A i \in 1..MaxMessages : inbox'[i] > 0 <=> i = n
      BY <2>3, <2>7
    <2>9. FiledWell'
      BY <1>01, <2>1, <2>5, <2>6
    <2>10. \A i \in 1..MaxMessages : inbox'[i] <= 1
      BY <2>7 DEF OneAtATime
    <2>11. /\ handlers' = {} /\ restart' = "none" /\ said'[n].about = shown' /\ Unwritten' = {}
           /\ Undisturbed({"raced", "crossed", "straddled"})'
      BY <2>1, <2>2, <2>3, <2>4, <2>5 DEF Unwritten, OneAtATime, Undisturbed
    <2> QED
      BY <2>8, <2>9, <2>10, <2>11 DEF OneAtATime
  <1>3. ASSUME NEW id \in Handler, NEW i \in 1..MaxMessages, ReadReport(id, i) \/ ReadNoReport(id, i)
        PROVE  OneAtATime'
    <2>1. /\ \E g \in HandlerState : handlers' = handlers \cup {g} /\ g.msg = i
          /\ inbox[i] > 0 /\ inbox'[i] = inbox[i] - 1
          /\ \A j \in 1..MaxMessages : j # i => inbox'[j] = inbox[j]
      <3>1. CASE ReadReport(id, i)
        BY <3>1, Beginning DEF ReadReport, TypeOK
      <3>2. CASE ReadNoReport(id, i)
        <4>1. inbox[i] > 0 /\ inbox' = [inbox EXCEPT ![i] = @ - 1]
          BY <3>2 DEF ReadNoReport, Begins
        <4> QED
          BY <1>0, <3>2, <4>1, FindingNoReport
      <3> QED
        BY <1>3, <3>1, <3>2
    <2>2. /\ UNCHANGED <<answers, shown, said, restart>>
          /\ handlers = {} /\ restart = "none" /\ said[i].about = shown /\ inbox[i] <= 1
      BY <1>3, <2>1 DEF ReadReport, ReadNoReport, OneAtATime
    <2>3. \A j \in 1..MaxMessages : ~(inbox'[j] > 0) /\ inbox'[j] <= 1
      <3>1. ~(inbox'[i] > 0) /\ inbox'[i] <= 1
        BY <1>0, <2>1, <2>2
      <3>2. ASSUME NEW j \in 1..MaxMessages, j # i PROVE ~(inbox'[j] > 0) /\ inbox'[j] <= 1
        BY <2>1, <3>2 DEF OneAtATime
      <3> QED
        BY <3>1, <3>2
    <2>4. Undisturbed({"raced", "crossed", "straddled"})'
      BY <1>3, <2>2 DEF ReadReport, ReadNoReport, Mishap, Unwritten, OneAtATime, Undisturbed
    <2>5. (\A f, g \in handlers' : f = g) /\ \A h \in Unwritten' : said'[h.msg].about = shown'
      BY <2>1, <2>2 DEF Unwritten
    <2>6. FiledWell'
      BY <1>01, <2>2
    <2> QED
      BY <2>2, <2>3, <2>4, <2>5, <2>6 DEF OneAtATime
  <1>4. ASSUME NEW h \in handlers, EnqueueRetrigger(h)
        PROVE  OneAtATime'
    <2>1. /\ handlers' = handlers \ {h} /\ UNCHANGED <<inbox, said, mishaps, shown, answers>>
          /\ handlers = {h}
      BY <1>4 DEF EnqueueRetrigger, Return, OneAtATime
    <2> QED
      BY <1>01, <2>1, OneHandlerMoves
  <1>5. ASSUME NEW h \in handlers, Decide(h)
        PROVE  OneAtATime'
    <2>1. h.pc = "load" /\ UNCHANGED <<inbox, said, mishaps, shown, answers, restart>>
      BY <1>5 DEF Decide
    <2>2. \/ handlers' = handlers \ {h}
          \/ \E g \in HandlerState : handlers' = (handlers \ {h}) \cup {g} /\ g.msg = h.msg
      BY <1>5, Deciding
    <2> QED
      BY <1>01, <2>1, <2>2, OneHandlerMoves
  <1>6. ASSUME NEW h \in handlers, WriteAnswers(h)
        PROVE  OneAtATime'
    <2>1. /\ h.pc = "write" /\ GoOn(h, "post") /\ UNCHANGED <<inbox, said, mishaps, shown, restart>>
          /\ h \in Unwritten /\ handlers = {h}
      BY <1>6 DEF WriteAnswers, Unwritten, OneAtATime
    <2>2. \E g \in HandlerState : /\ handlers' = (handlers \ {h}) \cup {g}
                                  /\ g.msg = h.msg /\ g.pc = "post"
      BY <2>1, GoingOn
    <2>3. Extends(h) /\ NextIs(shown) /\ said[h.msg].about = shown /\ h.msg \in 1..Len(said)
      <3>1. Posting = {}
        BY <2>1 DEF Posting
      <3>2. h.msg \in 1..Len(said)
        BY <1>0, Handlers
      <3> QED
        BY <2>1, <3>1, <3>2 DEF AnswersFollowQuestions, InStep, OneAtATime
    <2> DEFINE n == Len(answers)
    <2>4. n \in Nat
      BY Lengths
    <2>5. /\ Len(answers') = n + 1
          /\ \A k \in 1..n : answers'[k] = answers[k]
          /\ answers'[n + 1].question = shown /\ answers'[n + 1].message = h.msg
      BY <1>6, <2>3, Extending DEF NextIs
    <2>6. \A k \in 1..n : /\ answers[k].message \in 1..Len(said)
                          /\ answers[k].question = said[answers[k].message].about
      BY <1>01
    <2> HIDE DEF n
    <2>7. \A k \in 1..(n + 1) : k \in 1..n \/ k = n + 1
      BY <2>4
    <2>8. \A k \in 1..Len(answers') : /\ answers'[k].message \in 1..Len(said)
                                      /\ answers'[k].question = said[answers'[k].message].about
      BY <2>3, <2>5, <2>6, <2>7
    <2> QED
      BY <2>1, <2>2, <2>8, OneHandlerMoves
  <1>7. ASSUME NEW h \in handlers, WriteAbort(h)
        PROVE  OneAtATime'
    <2>1. GoOn(h, "post") /\ UNCHANGED <<inbox, said, mishaps, shown, answers, restart>>
      BY <1>7 DEF WriteAbort
    <2>2. \E g \in HandlerState : /\ handlers' = (handlers \ {h}) \cup {g}
                                  /\ g.msg = h.msg /\ g.pc = "post"
      BY <2>1, GoingOn
    <2> QED
      BY <1>01, <2>1, <2>2, OneHandlerMoves
  <1>8. ASSUME NEW h \in handlers, PostReply(h)
        PROVE  OneAtATime'
    <2>1. h.pc = "post" /\ UNCHANGED <<inbox, said, mishaps, answers, restart>> /\ handlers = {h}
      BY <1>8 DEF PostReply, OneAtATime
    <2>2. \/ handlers' = handlers \ {h}
          \/ \E g \in HandlerState : /\ handlers' = (handlers \ {h}) \cup {g}
                                     /\ g.msg = h.msg /\ g.pc = "broadcast"
      BY <1>8, GoingOn DEF PostReply, Return
    <2>3. Unwritten' = {}
      BY <2>1, <2>2 DEF Unwritten
    <2> QED
      BY <1>01, <2>1, <2>2, <2>3, OneHandlerMoves
  <1>9. ASSUME NEW h \in handlers, Broadcast(h)
        PROVE  OneAtATime'
    <2>1. handlers' = handlers \ {h} /\ UNCHANGED <<inbox, said, mishaps, shown, answers, restart>>
      BY <1>9 DEF Broadcast, Return
    <2> QED
      BY <1>01, <2>1, OneHandlerMoves
  <1>10. ASSUME NEW h \in handlers, HandlerThrows(h)
         PROVE  OneAtATime'
    BY <1>10 DEF HandlerThrows, Mishap, Patient, Undisturbed
  <1>11. CASE TimeOut
    BY <1>1, <1>11 DEF TimeOut
  <1>12. CASE RestartAsks \/ RestartResets
    <2>1. restart # "none" /\ UNCHANGED <<said, inbox, handlers>> /\ Straddles
      BY <1>12 DEF RestartAsks, RestartResets
    <2>2. handlers = {} /\ \A i \in 1..MaxMessages : ~(inbox[i] > 0)
      BY <2>1 DEF OneAtATime
    <2>3. mishaps' = mishaps
      BY <2>1, <2>2 DEF Straddles, Mishap
    <2>4. answers' = answers \/ answers' = <<>>
      BY <1>12 DEF RestartAsks, RestartResets
    <2>5. FiledWell'
      BY <1>01, <2>1, <2>4
    <2> QED
      BY <2>1, <2>2, <2>3, <2>5 DEF OneAtATime, Unwritten, Undisturbed
  <1>13. ASSUME NEW i \in 1..MaxMessages, Redeliver(i) PROVE OneAtATime'
    BY <1>13 DEF Redeliver, Mishap, Patient, Undisturbed
  <1>14. ASSUME NEW qs \in QuestionList, EditQuestions(qs) PROVE OneAtATime'
    BY <1>14 DEF EditQuestions, Mishap, Patient, Undisturbed
  <1>15. CASE UNCHANGED vars
    BY <1>1, <1>15 DEF vars
  <1> QED
    BY <1>2, <1>3, <1>4, <1>5, <1>6, <1>7, <1>8, <1>9, <1>10, <1>11, <1>12, <1>13, <1>14, <1>15 DEF Next

-----------------------------------------------------------------------------
(* A message is used up.  As long as Slack delivers nothing twice, a        *)
(* message that is still to come, or still to be delivered, occurs in no    *)
(* list of answers, neither in the report nor in a handler's hands, and no  *)
(* list has two answers from one message; so it stays, even when handlers   *)
(* overwrite each other's lists.                                            *)

Fresh == {i \in 1..MaxMessages : inbox[i] > 0 \/ i > Len(said)}

OneEach(list, ms) ==
    /\ \A j, k \in DOMAIN list : list[j].message = list[k].message => j = k
    /\ \A k \in DOMAIN list : list[k].message \notin ms

EachOnce ==
    /\ \A i \in 1..MaxMessages : inbox[i] <= 1
    /\ \A h \in handlers : h.msg \notin Fresh
    /\ OneEach(answers, Fresh)
    /\ \A h \in handlers :
          /\ h.pc = "load" => OneEach(h.seen, Fresh \cup {h.msg})
          /\ h.pc = "write" /\ h.todo.kind # "abort" => OneEach(h.todo.answers, Fresh)

DeliveredOnce == Undisturbed({"redelivery"})

LEMMA OneEachAppend ==
    ASSUME NEW list \in Seq(Reply), NEW q \in Question, NEW i \in 1..MaxMessages, NEW ms,
           OneEach(list, ms \cup {i}), i \notin ms
    PROVE  OneEach(Append(list, Answer(q, i)), ms)
  <1>1. Answer(q, i) \in Reply /\ Answer(q, i).message = i
    BY DEF Answer, Reply
  <1> DEFINE a   == Answer(q, i)
             all == Append(list, a)
             n   == Len(list)
  <1> HIDE DEF a
  <1>2. /\ DOMAIN list = 1..n /\ DOMAIN all = 1..(n + 1)
        /\ \A k \in 1..n : all[k] = list[k]
        /\ all[n + 1] = a /\ n \in Nat
    BY <1>1, AppendReply DEF a
  <1>3. a.message = i
    BY <1>1 DEF a
  <1> HIDE DEF all, n
  <1>4. \A k \in 1..(n + 1) : k \in 1..n \/ k = n + 1
    BY <1>2
  <1>5. \A k \in 1..n : all[k].message # i /\ all[k].message \notin ms
    BY <1>2 DEF OneEach
  <1>6. \A j, k \in 1..n : all[j].message = all[k].message => j = k
    BY <1>2 DEF OneEach
  <1>7. OneEach(all, ms)
    BY <1>2, <1>3, <1>4, <1>5, <1>6 DEF OneEach
  <1> QED
    BY <1>7 DEF all, a

(* A step in which no message becomes fresh and the lists of answers are    *)
(* those of the state before.                                               *)
LEMMA EachOnceKept ==
    ASSUME EachOnce, Fresh' \subseteq Fresh, \A i \in 1..MaxMessages : inbox'[i] <= 1,
           \/ answers' = answers \/ answers' = <<>>
           \/ \E h \in handlers : h.pc = "write" /\ h.todo.kind # "abort" /\ answers' = h.todo.answers,
           \A g \in handlers' :
                                \/ g \in handlers
                                \/ g.pc \in {"retrigger", "post", "broadcast"} /\ g.msg \notin Fresh'
    PROVE  EachOnce'
  <1>1. OneEach(answers', Fresh')
    BY DEF EachOnce, OneEach
  <1>2. \A g \in handlers' : g.msg \notin Fresh'
    BY DEF EachOnce
  <1>3. ASSUME NEW g \in handlers'
        PROVE  /\ g.pc = "load" => OneEach(g.seen, Fresh' \cup {g.msg})
               /\ g.pc = "write" /\ g.todo.kind # "abort" => OneEach(g.todo.answers, Fresh')
    BY <1>3 DEF EachOnce, OneEach
  <1>4. OneEach(answers, Fresh)'
    BY <1>1 DEF OneEach
  <1>5. ASSUME NEW g \in handlers'
        PROVE  /\ g.pc = "load" => OneEach(g.seen, Fresh \cup {g.msg})'
               /\ g.pc = "write" /\ g.todo.kind # "abort" => OneEach(g.todo.answers, Fresh)'
    BY <1>3 DEF OneEach
  <1> QED
    BY <1>2, <1>4, <1>5 DEF EachOnce

LEMMA EachOnceStep ==
    ASSUME TypeOK, EachOnce, [Next]_vars, DeliveredOnce'
    PROVE  EachOnce'
  <1> USE DEF report, history
  <1>0. inbox \in [1..MaxMessages -> Nat] /\ Len(said) \in Nat /\ said \in Seq(Message) /\ MaxMessages \in Nat
    BY LenProperties, MaxMessagesAssumption DEF TypeOK
  <1>1. CASE UNCHANGED <<answers, said, inbox, handlers>>
    BY <1>1, EachOnceKept DEF EachOnce, Fresh
  <1>2. ASSUME NEW kind \in Kind, Say(kind)
        PROVE  EachOnce'
    <2> DEFINE n == Len(said) + 1
               m == [kind |-> kind, about |-> shown]
    <2>1. /\ n \in 1..MaxMessages /\ said' = Append(said, m) /\ inbox' = [inbox EXCEPT ![n] = 1]
          /\ UNCHANGED <<answers, handlers>>
      BY <1>0, <1>2 DEF Say
    <2>2. m \in Message
      BY DEF Message, TypeOK
    <2> HIDE DEF m
    <2>3. Len(said') = n
      BY <1>0, <2>1, <2>2, AppendProperties
    <2>4. \A i \in 1..MaxMessages : inbox'[i] = IF i = n THEN 1 ELSE inbox[i]
      BY <1>0, <2>1
    <2>5. n > Len(said) /\ \A i \in 1..MaxMessages : i > n => i > Len(said)
      BY <1>0
    <2> HIDE DEF n
    <2>6. Fresh' \subseteq Fresh
      BY <2>3, <2>4, <2>5 DEF Fresh
    <2>7. \A i \in 1..MaxMessages : inbox'[i] <= 1
      BY <2>4 DEF EachOnce
    <2>8. answers' = answers /\ handlers' = handlers
      BY <2>1
    <2> QED
      BY <2>6, <2>7, <2>8, EachOnceKept
  <1>3. ASSUME NEW i \in 1..MaxMessages, said' = said,
               inbox[i] > 0, i <= Len(said), inbox' \in [1..MaxMessages -> Nat],
               inbox'[i] = inbox[i] - 1, \A j \in 1..MaxMessages : j # i => inbox'[j] = inbox[j]
        PROVE  /\ i \in Fresh /\ i \notin Fresh' /\ Fresh' \subseteq Fresh
               /\ \A j \in 1..MaxMessages : inbox'[j] <= 1
    <2>1. inbox[i] <= 1
      BY DEF EachOnce
    <2>2. inbox'[i] = 0 /\ ~(i > Len(said))
      BY <1>0, <1>3, <2>1
    <2>3. \A j \in 1..MaxMessages : inbox'[j] <= 1
      BY <1>3, <2>2 DEF EachOnce
    <2> QED
      BY <1>3, <2>2, <2>3 DEF Fresh
  <1>4. ASSUME NEW id \in Handler, NEW i \in 1..MaxMessages, ReadReport(id, i)
        PROVE  EachOnce'
    <2>1. Begins(id, i, "load", answers) /\ UNCHANGED <<answers, said>> /\ answers \in Seq(Reply)
      BY <1>4 DEF ReadReport, TypeOK
    <2>2. PICK g \in HandlerState : /\ handlers' = handlers \cup {g}
                                    /\ g.msg = i /\ g.pc = "load" /\ g.seen = answers
      BY <2>1, Beginning
    <2>3. /\ inbox[i] > 0 /\ i <= Len(said) /\ inbox' \in [1..MaxMessages -> Nat]
          /\ inbox'[i] = inbox[i] - 1 /\ \A j \in 1..MaxMessages : j # i => inbox'[j] = inbox[j]
      BY <2>1, Beginning
    <2>4. /\ i \in Fresh /\ i \notin Fresh' /\ Fresh' \subseteq Fresh
          /\ \A j \in 1..MaxMessages : inbox'[j] <= 1
      BY <1>3, <2>1, <2>3
    <2>5. OneEach(g.seen, Fresh' \cup {g.msg})
      <3>1. OneEach(g.seen, Fresh) /\ Fresh' \cup {g.msg} \subseteq Fresh
        BY <2>2, <2>4 DEF EachOnce
      <3> QED
        BY <3>1 DEF OneEach
    <2>6. OneEach(g.seen, Fresh \cup {g.msg})'
      BY <2>5 DEF OneEach
    <2>7. OneEach(answers, Fresh)'
      BY <2>1, <2>4 DEF EachOnce, OneEach
    <2>8. ASSUME NEW h \in handlers
          PROVE  /\ h.msg \notin Fresh'
                 /\ h.pc = "load" => OneEach(h.seen, Fresh \cup {h.msg})'
                 /\ h.pc = "write" /\ h.todo.kind # "abort" => OneEach(h.todo.answers, Fresh)'
      BY <2>4 DEF EachOnce, OneEach
    <2> QED
      BY <2>2, <2>4, <2>6, <2>7, <2>8 DEF EachOnce
  <1>5. ASSUME NEW id \in Handler, NEW i \in 1..MaxMessages, ReadNoReport(id, i)
        PROVE  EachOnce'
    <2>1. inbox[i] > 0 /\ inbox' = [inbox EXCEPT ![i] = @ - 1] /\ UNCHANGED <<answers, said>>
      BY <1>5 DEF ReadNoReport, Begins
    <2>2. i <= Len(said)
      BY <2>1 DEF TypeOK
    <2>3. /\ inbox' \in [1..MaxMessages -> Nat] /\ inbox'[i] = inbox[i] - 1
          /\ \A j \in 1..MaxMessages : j # i => inbox'[j] = inbox[j]
      BY <1>0, <2>1
    <2>4. i \notin Fresh' /\ Fresh' \subseteq Fresh /\ \A j \in 1..MaxMessages : inbox'[j] <= 1
      BY <1>3, <2>1, <2>2, <2>3
    <2>5. PICK g \in HandlerState : handlers' = handlers \cup {g} /\ g.msg = i /\ g.pc = "retrigger"
      BY <1>5, FindingNoReport
    <2>6. \A f \in handlers' :
                              \/ f \in handlers
                              \/ f.pc = "retrigger" /\ f.msg \notin Fresh'
      BY <2>4, <2>5
    <2>7. answers' = answers
      BY <2>1
    <2> QED
      BY <2>4, <2>6, <2>7, EachOnceKept
  <1>6. ASSUME NEW h \in handlers, UNCHANGED <<said, inbox>>,
               \/ answers' = answers
               \/ h.pc = "write" /\ h.todo.kind # "abort" /\ answers' = h.todo.answers,
               \/ handlers' = handlers \ {h}
               \/ \E g \in HandlerState : /\ handlers' = (handlers \ {h}) \cup {g}
                                          /\ g.msg = h.msg /\ g.pc \in {"post", "broadcast"}
        PROVE  EachOnce'
    <2>1. Fresh' = Fresh /\ \A i \in 1..MaxMessages : inbox'[i] <= 1
      BY <1>6 DEF Fresh, EachOnce
    <2>2. \A g \in handlers' :
                                \/ g \in handlers
                                \/ g.pc \in {"retrigger", "post", "broadcast"} /\ g.msg \notin Fresh'
      BY <1>6, <2>1 DEF EachOnce
    <2> QED
      BY <1>6, <2>1, <2>2, EachOnceKept
  <1>7. ASSUME NEW h \in handlers, Decide(h)
        PROVE  EachOnce'
    <2>1. h.pc = "load" /\ UNCHANGED <<answers, said, inbox>>
      BY <1>7 DEF Decide
    <2>2. CASE handlers' = handlers \ {h}
      BY <1>6, <2>1, <2>2
    <2>3. ASSUME NEW g \in HandlerState, handlers' = (handlers \ {h}) \cup {g},
                 g.pc = "write" /\ g.msg = h.msg, questions[Len(h.seen) + 1] \in Question,
                 g.todo.kind # "abort" =>
                    g.todo.answers = Append(h.seen, Answer(questions[Len(h.seen) + 1], h.msg))
          PROVE  EachOnce'
      <3>1. Fresh' = Fresh
        BY <2>1 DEF Fresh
      <3>2. OneEach(h.seen, Fresh \cup {h.msg}) /\ h.msg \notin Fresh
        BY <2>1 DEF EachOnce
      <3>3. g.todo.kind # "abort" => OneEach(g.todo.answers, Fresh)
        <4>1. h.seen \in Seq(Reply) /\ h.msg \in 1..MaxMessages
          BY Handlers
        <4> DEFINE q == questions[Len(h.seen) + 1]
        <4>2. q \in Question
          BY <2>3
        <4> HIDE DEF q
        <4>3. OneEach(Append(h.seen, Answer(q, h.msg)), Fresh)
          BY <3>2, <4>1, <4>2, OneEachAppend
        <4> QED
          BY <2>3, <4>3 DEF q
      <3>4. g.todo.kind # "abort" => OneEach(g.todo.answers, Fresh)'
        BY <3>1, <3>3 DEF OneEach
      <3>5. OneEach(answers, Fresh)'
        BY <2>1, <3>1 DEF EachOnce, OneEach
      <3>6. ASSUME NEW f \in handlers
            PROVE  /\ f.pc = "load" => OneEach(f.seen, Fresh \cup {f.msg})'
                   /\ f.pc = "write" /\ f.todo.kind # "abort" => OneEach(f.todo.answers, Fresh)'
        BY <3>1 DEF EachOnce, OneEach
      <3>7. \A f \in handlers' : f.msg \notin Fresh'
        BY <2>3, <3>1 DEF EachOnce
      <3>8. \A i \in 1..MaxMessages : inbox'[i] <= 1
        BY <2>1 DEF EachOnce
      <3> QED
        BY <2>3, <3>4, <3>5, <3>6, <3>7, <3>8 DEF EachOnce
    <2> QED
      BY <1>7, <2>2, <2>3, Deciding
  <1>8. ASSUME NEW h \in handlers, WriteAnswers(h) \/ WriteAbort(h)
        PROVE  EachOnce'
    <2>1. /\ GoOn(h, "post") /\ UNCHANGED <<said, inbox>>
          /\ \/ answers' = answers
             \/ h.pc = "write" /\ h.todo.kind # "abort" /\ answers' = h.todo.answers
      BY <1>8 DEF WriteAnswers, WriteAbort
    <2>2. \E g \in HandlerState : /\ handlers' = (handlers \ {h}) \cup {g}
                                  /\ g.msg = h.msg /\ g.pc = "post"
      BY <2>1, GoingOn
    <2> QED
      BY <1>6, <2>1, <2>2
  <1>9. ASSUME NEW h \in handlers, PostReply(h)
        PROVE  EachOnce'
    BY <1>6, <1>9, GoingOn DEF PostReply, Return
  <1>10. ASSUME NEW h \in handlers, EnqueueRetrigger(h) \/ Broadcast(h) \/ HandlerThrows(h)
         PROVE  EachOnce'
    BY <1>6, <1>10 DEF EnqueueRetrigger, Broadcast, HandlerThrows, Return
  <1>11. CASE TimeOut \/ RestartAsks
    BY <1>1, <1>11 DEF TimeOut, RestartAsks
  <1>12. CASE RestartResets
    <2>1. answers' = <<>> /\ UNCHANGED <<said, inbox, handlers>>
      BY <1>12 DEF RestartResets
    <2>2. Fresh' = Fresh /\ \A i \in 1..MaxMessages : inbox'[i] <= 1
      BY <2>1 DEF Fresh, EachOnce
    <2> QED
      BY <2>1, <2>2, EachOnceKept
  <1>13. ASSUME NEW i \in 1..MaxMessages, Redeliver(i) PROVE EachOnce'
    BY <1>13 DEF Redeliver, Mishap, DeliveredOnce, Undisturbed
  <1>14. ASSUME NEW qs \in QuestionList, EditQuestions(qs) PROVE EachOnce'
    BY <1>1, <1>14 DEF EditQuestions
  <1>15. CASE UNCHANGED vars
    BY <1>1, <1>15 DEF vars
  <1> QED
    BY <1>2, <1>4, <1>5, <1>7, <1>8, <1>9, <1>10, <1>11, <1>12, <1>13, <1>14, <1>15 DEF Next

-----------------------------------------------------------------------------
(* The inductive invariant: each part is claimed only while nothing has     *)
(* happened that it does not survive.                                       *)

ConversationInv ==
    /\ TypeOK
    /\ Calm => WritersExtend /\ PostsFollowOpenings
    /\ Unedited => AnswersFollowQuestions
    /\ Orderly => InStep
    /\ Patient => OneAtATime
    /\ DeliveredOnce => EachOnce

LEMMA InitConversationInv == Init => ConversationInv
  <1> SUFFICES ASSUME Init PROVE ConversationInv
    OBVIOUS
  <1> USE DEF report, history
  <1>1. TypeOK
    BY InitTypeOK
  <1>2. /\ handlers = {} /\ answers = <<>> /\ filed = {} /\ mishaps = {} /\ posted = 0 /\ lives = 1
        /\ status = "in_progress" /\ restart = "none" /\ shown = Head(questions)
        /\ \A i \in 1..MaxMessages : inbox[i] = 0
    BY DEF Init
  <1>3. Len(answers) = 0 /\ DOMAIN answers = {} /\ 1..Len(answers) = {}
    BY <1>2
  <1>4. Len(questions) \in Nat /\ Len(questions) >= 1 /\ shown = questions[1]
    BY <1>1, <1>2, Lengths
  <1>5. Unwritten = {} /\ Busy = {} /\ Posting = {}
    BY <1>2 DEF Unwritten, Busy, Posting
  <1>6. WritersExtend
    BY <1>2, <1>3, <1>5 DEF WritersExtend, Filed
  <1>7. PostsFollowOpenings
    BY <1>2, <1>5 DEF PostsFollowOpenings
  <1>8. AnswersFollowQuestions
    BY <1>2, <1>3, <1>4 DEF AnswersFollowQuestions
  <1>9. InStep
    BY <1>2, <1>3, <1>4, <1>5 DEF InStep, NextIs
  <1>10. OneAtATime
    BY <1>2, <1>3, <1>5 DEF OneAtATime, Undisturbed
  <1>11. EachOnce
    BY <1>2, <1>3 DEF EachOnce, OneEach
  <1> QED
    BY <1>1, <1>6, <1>7, <1>8, <1>9, <1>10, <1>11 DEF ConversationInv

LEMMA NextConversationInv == ConversationInv /\ [Next]_vars => ConversationInv'
  <1> SUFFICES ASSUME ConversationInv, [Next]_vars
               PROVE  ConversationInv'
    OBVIOUS
  <1>1. TypeOK /\ TypeOK'
    BY NextTypeOK DEF ConversationInv
  <1>2. ASSUME Calm' PROVE WritersExtend /\ PostsFollowOpenings /\ WritersExtend' /\ PostsFollowOpenings'
    <2>1. Calm
      BY <1>2, MishapsGrow DEF Calm
    <2> QED
      BY <1>1, <1>2, <2>1, WritersExtendStep, PostsFollowOpeningsStep DEF ConversationInv
  <1>3. ASSUME Unedited' PROVE AnswersFollowQuestions /\ AnswersFollowQuestions'
    <2>1. Unedited /\ Calm'
      BY <1>3, MishapsGrow DEF Unedited, Calm, Undisturbed
    <2> QED
      BY <1>1, <1>2, <1>3, <2>1, AnswersFollowQuestionsStep DEF ConversationInv
  <1>4. ASSUME Orderly' PROVE InStep /\ InStep'
    <2>1. Orderly /\ Unedited' /\ Calm'
      BY <1>4, MishapsGrow DEF Orderly, Unedited, Calm, Undisturbed
    <2> QED
      BY <1>1, <1>2, <1>3, <1>4, <2>1, InStepStep DEF ConversationInv
  <1>5. ASSUME Patient' PROVE OneAtATime'
    <2>1. Patient
      BY <1>5, MishapsGrow DEF Patient
    <2>2. OneAtATime /\ Orderly
      BY <2>1, PatientIsOrderly DEF ConversationInv
    <2>3. Calm /\ Unedited
      BY <2>2 DEF Orderly, Calm, Unedited, Undisturbed
    <2> QED
      BY <1>1, <1>5, <2>2, <2>3, OneAtATimeStep DEF ConversationInv
  <1>6. ASSUME DeliveredOnce' PROVE EachOnce'
    <2>1. DeliveredOnce
      BY <1>6, MishapsGrow DEF DeliveredOnce
    <2> QED
      BY <1>1, <1>6, <2>1, EachOnceStep DEF ConversationInv
  <1> QED
    BY <1>1, <1>2, <1>3, <1>4, <1>5, <1>6 DEF ConversationInv

LEMMA ConversationInvariant == Spec => []ConversationInv
  BY InitConversationInv, NextConversationInv, PTL DEF Spec

(* A message that was filed is among the answers until the report is opened *)
(* again, whatever edits, redeliveries, failures and timeouts happen: the   *)
(* whole-list update of handleMessage loses an answer only when two         *)
(* handlers computed at once or one was still computing at a restart.       *)
THEOREM FiledAnswersStay == Spec => []NoAnswerLost
  <1>1. ConversationInv => NoAnswerLost
    BY DEF ConversationInv, Calm, WritersExtend, Filed, NoAnswerLost
  <1> QED
    BY <1>1, ConversationInvariant, PTL

(* The report is handed to the channel at most once per opening: a          *)
(* redelivered last answer, or one that comes while the report is being     *)
(* posted, does not post it again.                                          *)
THEOREM ReportsArePostedOnce == Spec => []PostedOncePerOpening
  <1>1. ConversationInv => PostedOncePerOpening
    BY DEF ConversationInv, Calm, PostsFollowOpenings, PostedOncePerOpening
  <1> QED
    BY <1>1, ConversationInvariant, PTL

(* A report that counts as completed has exactly one answer to each         *)
(* question of the standup, in its order, even after failures,              *)
(* redeliveries and restarts.                                               *)
THEOREM CompletedReportsAreWhole == Spec => []CompletedReportIsWhole
  <1>1. ConversationInv => CompletedReportIsWhole
    <2> SUFFICES ASSUME ConversationInv, status = "completed", Unedited
                 PROVE  [k \in DOMAIN answers |-> answers[k].question] = questions
      BY DEF CompletedReportIsWhole, Unedited
    <2>1. TypeOK /\ AnswersFollowQuestions
      BY DEF ConversationInv
    <2>2. DOMAIN answers = 1..Len(answers) /\ DOMAIN questions = 1..Len(questions)
      BY <2>1, Lengths
    <2>3. Len(answers) = Len(questions) /\ \A k \in 1..Len(answers) : answers[k].question = questions[k]
      BY <2>1 DEF AnswersFollowQuestions
    <2>4. questions = [k \in DOMAIN questions |-> questions[k]]
      BY <2>1, QuestionLists DEF TypeOK
    <2> QED
      BY <2>2, <2>3, <2>4
  <1> QED
    BY <1>1, ConversationInvariant, PTL

(* With an open report and nobody busy with it, the DM ends with the        *)
(* question the next reply will be filed under, through any number of       *)
(* hasty and redelivered messages, timeouts and restarts.                   *)
THEOREM DmKeepsStep == Spec => []DmShowsNextQuestion
  <1>1. ConversationInv => DmShowsNextQuestion
    <2> SUFFICES ASSUME ConversationInv, Quiet, status = "in_progress", Orderly
                 PROVE  NextIs(shown)
      BY DEF DmShowsNextQuestion, Orderly, NextIs
    <2> QED
      BY DEF ConversationInv, InStep, Quiet, Posting
  <1> QED
    BY <1>1, ConversationInvariant, PTL

(* An answer stands under the question the member was looking at, however   *)
(* slow the handlers and whatever times out and restarts; it takes an edit, *)
(* a redelivery, a failure or an impatient member to file one under another.*)
THEOREM AnswersStandUnderTheirQuestion == Spec => []MisfiledAccountedFor
  <1>1. ConversationInv => MisfiledAccountedFor
    <2> SUFFICES ASSUME ConversationInv, Patient, NEW k \in DOMAIN answers
                 PROVE  answers[k].question = said[answers[k].message].about
      BY DEF MisfiledAccountedFor, Patient
    <2>1. DOMAIN answers = 1..Len(answers) /\ OneAtATime
      BY Lengths DEF ConversationInv
    <2> QED
      BY <2>1 DEF OneAtATime
  <1> QED
    BY <1>1, ConversationInvariant, PTL

(* Without redeliveries no message answers two questions, even when two     *)
(* handlers overwrite each other's answers.                                 *)
THEOREM MessagesAnswerOnce == Spec => []OneAnswerPerMessage
  <1>1. ConversationInv => OneAnswerPerMessage
    BY DEF ConversationInv, DeliveredOnce, EachOnce, OneEach, OneAnswerPerMessage
  <1> QED
    BY <1>1, ConversationInvariant, PTL
=============================================================================
