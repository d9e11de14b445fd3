---------------------------- MODULE DmConversation ----------------------------
(***************************************************************************)
(* One member's conversation with the bot about one report.  A handler of  *)
(* the API process reads the report, then the standup's questions, lets    *)
(* advanceReport decide, and writes and posts afterwards; a message is     *)
(* handled while another may still be, Slack may deliver one twice, the    *)
(* worker times the report out and restarts it, and an admin edits the     *)
(* questions meanwhile.  Unlike StandupDay, answers have content here.     *)
(***************************************************************************)
EXTENDS Naturals, Sequences, SequencesExt, FiniteSetsExt

CONSTANTS
    Question,      \* identities of questions
    Handler,       \* identities of concurrently running message handlers
    MaxMessages,   \* how many messages the member sends
    Budget         \* how many edits, redeliveries, failures and timeouts there are

ASSUME QuestionAssumption == Question # {}
ASSUME MaxMessagesAssumption == MaxMessages \in Nat
ASSUME BudgetAssumption == Budget \in Nat

(* What a message is to advanceReport and to maybeRetrigger.  A keyword is *)
(* an ordinary answer while the report is open, and so is "skip".          *)
Kind == {"text", "skip all", "keyword"}

\* The lists of questions the editor can save: not empty, ids unique.
QuestionList == {qs \in SeqOf(Question, 2) : qs # <<>> /\ IsInjective(qs)}

VARIABLES
    questions,    \* standups.questions
    status,       \* standup_reports.status
    answers,      \* standup_reports.answers: which question, and which message answered it
    shown,        \* the last question posted into the DM
    said,         \* said[i]: kind of the member's i-th message, and the question shown then
    inbox,        \* inbox[i]: deliveries of message i that are still to come
    handlers,     \* the handlers that are running
    posted,       \* how many reports were handed to broadcastReport
    restart,      \* the worker's retrigger job: "none", "queued" or "asked"
    filed,        \* history: messages written into the report since it was (re)opened
    lives,        \* history: how often the report was (re)opened
    mishaps,      \* history: what has disturbed the conversation so far
    left          \* what remains of Budget

report   == <<status, answers>>
history  == <<filed, lives>>
vars     == <<questions, report, shown, said, inbox, handlers, posted, restart,
              history, mishaps, left>>

Spend      == left > 0 /\ left' = left - 1
Mishap(es) == mishaps' = mishaps \cup es

\* sendDm has posted the first question and inserted the report.
Init ==
    /\ questions \in QuestionList
    /\ status = "in_progress" /\ answers = <<>>
    /\ shown = Head(questions)
    /\ said = <<>> /\ inbox = [i \in 1..MaxMessages |-> 0]
    /\ handlers = {}
    /\ posted = 0
    /\ restart = "none"
    /\ filed = {} /\ lives = 1
    /\ mishaps = {}
    /\ left = Budget

-----------------------------------------------------------------------------
(* The member, Slack and the admin. *)

\* A member who does not wait for the bot's reply to the message before.
Hasty == handlers # {} \/ restart # "none" \/ \E i \in DOMAIN inbox : inbox[i] > 0

Say(kind) ==
    /\ Len(said) < MaxMessages
    /\ said' = Append(said, [kind |-> kind, about |-> shown])
    /\ inbox' = [inbox EXCEPT ![Len(said) + 1] = 1]
    /\ Mishap(IF Hasty THEN {"hasty"} ELSE {})
    /\ UNCHANGED <<questions, report, shown, handlers, posted, restart, history, left>>

Redeliver(i) ==
    /\ i \in 1..Len(said)
    /\ Spend
    /\ inbox' = [inbox EXCEPT ![i] = @ + 1]
    /\ Mishap({"redelivery"})
    /\ UNCHANGED <<questions, report, shown, said, handlers, posted, restart, history>>

(* saveAction drops empty questions, refuses an empty list and stores the  *)
(* rest as they are; open reports are left alone.                          *)
EditQuestions(qs) ==
    /\ qs # questions
    /\ Spend
    /\ questions' = qs
    /\ Mishap({"edit"})
    /\ UNCHANGED <<report, shown, said, inbox, handlers, posted, restart, history>>

-----------------------------------------------------------------------------
(* handleMessage. *)

Answer(q, i) == [question |-> q, message |-> i]

\* Faulty variant: the question just answered is asked again.
AdvanceAndRepeat(qs, as, i) ==
    IF Len(as) >= Len(qs) THEN [kind |-> "noop"]
    ELSE IF said[i].kind = "skip all" THEN [kind |-> "abort"]
    ELSE LET all == Append(as, Answer(qs[Len(as) + 1], i))
         IN  IF Len(all) >= Len(qs) THEN [kind |-> "complete", answers |-> all]
             ELSE [kind |-> "next", answers |-> all, show |-> qs[Len(all)]]

\* Faulty variant: a report with one answer missing counts as complete.
AdvanceTooSoon(qs, as, i) ==
    IF Len(as) >= Len(qs) THEN [kind |-> "noop"]
    ELSE IF said[i].kind = "skip all" THEN [kind |-> "abort"]
    ELSE LET all == Append(as, Answer(qs[Len(as) + 1], i))
         IN  IF Len(all) + 1 >= Len(qs) THEN [kind |-> "complete", answers |-> all]
             ELSE [kind |-> "next", answers |-> all, show |-> qs[Len(all) + 1]]

(* advanceReport: progress is the number of answers. *)
advanceReport(qs, as, i) ==
    IF Len(as) >= Len(qs) THEN [kind |-> "noop"]
    ELSE IF said[i].kind = "skip all" THEN [kind |-> "abort"]
    ELSE LET all == Append(as, Answer(qs[Len(as) + 1], i))
         IN  IF Len(all) >= Len(qs) THEN [kind |-> "complete", answers |-> all]
             ELSE [kind |-> "next", answers |-> all, show |-> qs[Len(all) + 1]]

Unwritten == {h \in handlers : h.pc \in {"load", "write"}}

\* Faulty variant: a delivery is acknowledged only when it has been handled twice.
BeginsUnacknowledged(id, i, pc, seen) ==
    /\ \A h \in handlers : h.id # id
    /\ inbox[i] > 0
    /\ UNCHANGED inbox
    /\ handlers' = handlers \cup {[id |-> id, msg |-> i, pc |-> pc, seen |-> seen, todo |-> [kind |-> "none"]]}

Begins(id, i, pc, seen) ==
    /\ \A h \in handlers : h.id # id
    /\ inbox[i] > 0
    /\ inbox' = [inbox EXCEPT ![i] = @ - 1]
    /\ handlers' = handlers \cup {[id |-> id, msg |-> i, pc |-> pc, seen |-> seen, todo |-> [kind |-> "none"]]}

GoOn(h, pc) == handlers' = (handlers \ {h}) \cup {[h EXCEPT !.pc = pc]}
Return(h)   == handlers' = handlers \ {h}

\* Faulty variant: the newest report is taken whatever its status.
ReadAnyReport(id, i) ==
    /\ Begins(id, i, "load", answers)
    /\ Mishap((IF Unwritten # {} THEN {"raced"} ELSE {}) \cup (IF handlers # {} THEN {"crossed"} ELSE {}))
    /\ UNCHANGED <<questions, report, shown, said, posted, restart, history, left>>

\* The report is read first, ...
ReadReport(id, i) ==
    /\ status = "in_progress"
    /\ Begins(id, i, "load", answers)
    /\ Mishap((IF Unwritten # {} THEN {"raced"} ELSE {}) \cup (IF handlers # {} THEN {"crossed"} ELSE {}))
    /\ UNCHANGED <<questions, report, shown, said, posted, restart, history, left>>

\* ... and a keyword from a member without an open report asks for a restart.
ReadNoReport(id, i) ==
    /\ status # "in_progress"
    /\ Begins(id, i, "retrigger", <<>>)
    /\ UNCHANGED <<questions, report, shown, said, posted, restart, history, mishaps, left>>

(* maybeRetrigger: a completed report stays; the restart is announced.     *)
EnqueueRetrigger(h) ==
    /\ h.pc = "retrigger"
    /\ IF said[h.msg].kind = "keyword" /\ status # "completed" /\ restart = "none"
       THEN restart' = "queued" ELSE UNCHANGED restart
    /\ Return(h)
    /\ UNCHANGED <<questions, report, shown, said, inbox, posted, history, mishaps, left>>

(* Then the standup; the reducer's verdict is carried to the writes. *)
Decide(h) ==
    /\ h.pc = "load"
    /\ LET todo == advanceReport(questions, h.seen, h.msg)
       IN  IF todo.kind = "noop" THEN Return(h)
           ELSE handlers' = (handlers \ {h}) \cup {[h EXCEPT !.pc = "write", !.todo = todo]}
    /\ UNCHANGED <<questions, report, shown, said, inbox, posted, restart, history, mishaps, left>>

\* Faulty variant: the new answer is written in place of the list.
WriteLastAnswer(h) ==
    /\ h.pc = "write"
    /\ h.todo.kind # "abort"
    /\ answers' = <<Last(h.todo.answers)>>
    /\ status' = IF h.todo.kind = "complete" THEN "completed" ELSE status
    /\ filed' = filed \cup {h.msg}
    /\ GoOn(h, "post")
    /\ UNCHANGED <<questions, shown, said, inbox, posted, restart, lives, mishaps, left>>

(* The update names the row by id: the whole list of answers is replaced,  *)
(* and only the last answer touches the status.                            *)
WriteAnswers(h) ==
    /\ h.pc = "write"
    /\ h.todo.kind # "abort"
    /\ answers' = h.todo.answers
    /\ status' = IF h.todo.kind = "complete" THEN "completed" ELSE status
    /\ filed' = filed \cup {h.msg}
    /\ GoOn(h, "post")
    /\ UNCHANGED <<questions, shown, said, inbox, posted, restart, lives, mishaps, left>>

\* Faulty variant: a skipped report gets a status of its own.
WriteSkipped(h) ==
    /\ h.pc = "write"
    /\ h.todo.kind = "abort"
    /\ status' = "skipped"
    /\ GoOn(h, "post")
    /\ UNCHANGED <<questions, answers, shown, said, inbox, posted, restart, history, mishaps, left>>

WriteAbort(h) ==
    /\ h.pc = "write"
    /\ h.todo.kind = "abort"
    /\ status' = "timed_out"
    /\ GoOn(h, "post")
    /\ UNCHANGED <<questions, answers, shown, said, inbox, posted, restart, history, mishaps, left>>

(* The message that follows the write: the next question, the outro or the *)
(* good-bye.                                                               *)
PostReply(h) ==
    /\ h.pc = "post"
    /\ shown' = IF h.todo.kind = "next" THEN h.todo.show ELSE shown
    /\ IF h.todo.kind = "complete" THEN GoOn(h, "broadcast") ELSE Return(h)
    /\ UNCHANGED <<questions, report, said, inbox, posted, restart, history, mishaps, left>>

Broadcast(h) ==
    /\ h.pc = "broadcast"
    /\ posted' = posted + 1
    /\ Return(h)
    /\ UNCHANGED <<questions, report, shown, said, inbox, restart, history, mishaps, left>>

\* A failure that nobody catches; the listener has acknowledged the event.
HandlerThrows(h) ==
    /\ h.pc \in {"load", "write", "post"}
    /\ Spend
    /\ Return(h)
    /\ Mishap({"throw"})
    /\ UNCHANGED <<questions, report, shown, said, inbox, posted, restart, history>>

-----------------------------------------------------------------------------
(* The worker. *)

TimeOut ==
    /\ status = "in_progress"
    /\ Spend
    /\ status' = "timed_out"
    /\ UNCHANGED <<questions, answers, shown, said, inbox, handlers, posted, restart, history, mishaps>>

\* A handler of the report's former life is still at work.
Straddles == Mishap(IF handlers # {} THEN {"straddled"} ELSE {})

\* retrigger posts the first question of the list it has read ...
RestartAsks ==
    /\ restart = "queued"
    /\ IF status = "timed_out" THEN restart' = "asked" /\ shown' = Head(questions)
       ELSE restart' = "none" /\ UNCHANGED shown
    /\ Straddles
    /\ UNCHANGED <<questions, report, said, inbox, handlers, posted, history, left>>

\* ... and then opens the report afresh.
RestartResets ==
    /\ restart = "asked"
    /\ restart' = "none"
    /\ status' = "in_progress" /\ answers' = <<>>
    /\ filed' = {} /\ lives' = lives + 1
    /\ Straddles
    /\ UNCHANGED <<questions, shown, said, inbox, handlers, posted, left>>

Next ==
    \/ \E kind \in Kind : Say(kind)
    \/ \E i \in 1..MaxMessages : Redeliver(i)
    \/ \E qs \in QuestionList : EditQuestions(qs)
    \/ \E id \in Handler, i \in 1..MaxMessages : ReadReport(id, i) \/ ReadNoReport(id, i)
    \/ \E h \in handlers :
          \/ EnqueueRetrigger(h) \/ Decide(h) \/ WriteAnswers(h) \/ WriteAbort(h)
          \/ PostReply(h) \/ Broadcast(h) \/ HandlerThrows(h)
    \/ TimeOut \/ RestartAsks \/ RestartResets

Spec == Init /\ [][Next]_vars

-----------------------------------------------------------------------------
Quiet == handlers = {} /\ restart = "none"

Undisturbed(es) == mishaps \cap es = {}

Message == [kind : Kind, about : Question]
Reply   == [question : Question, message : 1..MaxMessages]
Verdict == [kind : {"none", "abort"}]
           \cup [kind : {"complete"}, answers : Seq(Reply)]
           \cup [kind : {"next"}, answers : Seq(Reply), show : Question]

HandlerState == [id : Handler, msg : 1..MaxMessages, seen : Seq(Reply), todo : Verdict,
                 pc : {"load", "retrigger", "write", "post", "broadcast"}]

(* Every variable has its type, a handler that has decided carries a       *)
(* verdict, and only messages that were sent are delivered.                *)
TypeOK ==
    /\ questions \in QuestionList
    /\ status \in {"in_progress", "completed", "timed_out"}
    /\ answers \in Seq(Reply)
    /\ shown \in Question
    /\ said \in Seq(Message) /\ Len(said) <= MaxMessages
    /\ inbox \in [1..MaxMessages -> Nat]
    /\ \A i \in 1..MaxMessages : inbox[i] > 0 => i <= Len(said)
    /\ handlers \subseteq HandlerState
    /\ \A h \in handlers :
          /\ h.msg <= Len(said)
          /\ h.pc \in {"write", "post"} => h.todo.kind # "none"
          /\ h.pc = "broadcast" => h.todo.kind = "complete"
    /\ posted \in Nat /\ lives \in Nat
    /\ restart \in {"none", "queued", "asked"}
    /\ filed \subseteq 1..MaxMessages
    /\ left \in Nat

(* An answer is filed under the question the member had in front of them   *)
(* when writing it (handleMessage.ts:60, dmEngine.ts:31), whatever the     *)
(* timeouts, restarts and slow handlers; only an edit, a redelivery, a     *)
(* failure or a member who does not wait for the next question mixes it up.*)
MisfiledAccountedFor ==
    Undisturbed({"edit", "redelivery", "throw", "hasty"}) =>
        \A k \in DOMAIN answers : answers[k].question = said[answers[k].message].about

(* index.ts:41-42: a message answers one question, unless Slack delivers   *)
(* it twice.                                                               *)
OneAnswerPerMessage ==
    Undisturbed({"redelivery"}) =>
        \A j, k \in DOMAIN answers : answers[j].message = answers[k].message => j = k

(* handleMessage.ts:48-49: what has been written stays written, in spite   *)
(* of edits, redeliveries and restarts, unless two handlers computed their *)
(* lists from the same one or one was still computing at a restart.        *)
NoAnswerLost ==
    Undisturbed({"raced", "straddled"}) =>
        filed = {answers[k].message : k \in DOMAIN answers}

(* A completed report answers each question of the standup once, in order  *)
(* (dmEngine.ts:38), also after failures, redeliveries and restarts.       *)
CompletedReportIsWhole ==
    status = "completed" /\ Undisturbed({"edit", "raced", "straddled"}) =>
        [k \in DOMAIN answers |-> answers[k].question] = questions

(* A report is posted at most once each time it is opened                  *)
(* (handleMessage.ts:89-94), unless two handlers complete it together.     *)
PostedOncePerOpening ==
    Undisturbed({"raced", "straddled"}) => posted <= lives

(* When nobody is busy with an open report, the last question in the DM is *)
(* the one the next reply will be filed under (handleMessage.ts:80-86):    *)
(* redelivered and hasty messages, timeouts and restarts keep them in step.*)
DmShowsNextQuestion ==
    Quiet /\ status = "in_progress"
        /\ Undisturbed({"edit", "throw", "raced", "crossed", "straddled"}) =>
        /\ Len(answers) < Len(questions)
        /\ shown = questions[Len(answers) + 1]
=============================================================================
