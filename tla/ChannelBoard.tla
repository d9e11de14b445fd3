----------------------------- MODULE ChannelBoard -----------------------------
(***************************************************************************)
(* What a run leaves in the team's channel.  A completed report is posted  *)
(* by broadcastReport, as its author when they have connected their Slack  *)
(* account and by the bot otherwise; the header message counts the         *)
(* reports; and a member who connects has the note under their latest      *)
(* bot-posted report replaced.  Several messages are handled at once, two  *)
(* of them may complete the same report, the worker's time-outs and        *)
(* restarts write over what they read earlier, members connect while their *)
(* report is being posted, and any call may fail.                          *)
(***************************************************************************)
EXTENDS Naturals, Sequences, SequencesExt, FiniteSets

CONSTANTS
    Member,
    Message,    \* replies that end a conversation: a last answer or "skip all"
    Author,     \* Author[x]: the member who sends message x
    Starts      \* the situations a behaviour may begin in

EnvEvent == {"throw", "lost", "connect", "revoke", "rotate", "timeout", "restart"}

ASSUME MemberAssumption == IsFiniteSet(Member)
ASSUME AuthorAssumption == Author \in [Message -> Member]

(* Of a start: who has been asked, who has an older report that went out as *)
(* the bot, who is connected, whether there is a header message, the       *)
(* messages that will be sent, and how often each event may happen.        *)
ASSUME StartsAssumption == \A s \in Starts :
    /\ s.asked \subseteq Member /\ s.posters \subseteq Member
    /\ s.connected \subseteq Member \ s.posters
    /\ s.opening \in BOOLEAN
    /\ s.messages \subseteq Message
    /\ s.budget \in [EnvEvent -> Nat]

Day == {"old", "today"}      \* an earlier report and the one of this run

(* slack_user_tokens: no row, a token Slack accepts, one it has revoked,   *)
(* and one that was encrypted under another INTERNAL_API_SECRET.           *)
TokenState == {"none", "good", "revoked", "unreadable"}

NoPost == 0

NoJob == [job |-> "none"]

VARIABLES
    status,     \* status[m]: standup_reports.status of today's report
    row,        \* row[m][d]: channel_post_ts and posted_as of the report of day d
    token,      \* token[m]: slack_user_tokens
    opening,    \* standup_runs.channel_opening_ts is set
    channel,    \* channel[ts]: who a post is about, who it appears as, its footer
    header,     \* the count of reports the header message shows
    pc,         \* pc[x]: where the handler of message x is suspended
    local,      \* local[x]: what that handler holds: token, ts and author of its post, count
    worker,     \* the time-out or restart that the worker has decided on and not written yet
    link,       \* link[m]: the install link m has followed
    cpc,        \* cpc[m]: where m's OAuth callback is suspended
    found,      \* found[m]: the post that callback is about to edit
    mishaps,    \* history: what has disturbed the board so far
    undone,     \* history: members whose completed report was given another status
    grounds,    \* history: grounds[m] counts what can put m's report into the channel
    left        \* what remains of the start's budget

handlerVars == <<pc, local>>
connectVars == <<link, cpc, found>>
slackVars   == <<channel, header>>
historyVars == <<mishaps, undone, grounds>>
vars == <<status, row, token, opening, slackVars, handlerVars, worker, connectVars, historyVars, left>>

Idle == [token |-> "none", ts |-> NoPost, as |-> "bot", count |-> 0]

(* The worker has tried to post the header before it asked anybody. *)
Init ==
    /\ \E s \in Starts :
          LET old == SetToSeq(s.posters)
          IN  /\ status = [m \in Member |-> IF m \in s.asked THEN "in_progress" ELSE "none"]
              /\ channel = [k \in DOMAIN old |-> [who |-> old[k], as |-> "bot", footer |-> "nudge"]]
              /\ row = [m \in Member |-> [d \in Day |->
                          IF d = "old" /\ m \in s.posters
                          THEN [ts |-> CHOOSE k \in DOMAIN old : old[k] = m, as |-> "bot"]
                          ELSE [ts |-> NoPost, as |-> "none"]]]
              /\ token = [m \in Member |-> IF m \in s.connected THEN "good" ELSE "none"]
              /\ opening = s.opening
              /\ pc = [x \in Message |-> IF x \in s.messages THEN "idle" ELSE "done"]
              /\ left = s.budget
    /\ header = 0
    /\ local = [x \in Message |-> Idle]
    /\ worker = NoJob
    /\ link = [m \in Member |-> "none"] /\ cpc = [m \in Member |-> "idle"]
    /\ found = [m \in Member |-> NoPost]
    /\ mishaps = {} /\ undone = {}
    /\ grounds = [m \in Member |-> IF status[m] = "in_progress" THEN 1 ELSE 0]

Spend(e)    == left[e] > 0 /\ left' = [left EXCEPT ![e] = @ - 1]
Mishap(es)  == mishaps' = mishaps \cup es /\ UNCHANGED <<undone, grounds>>
Unrecorded  == UNCHANGED historyVars
Calm        == Unrecorded /\ UNCHANGED left
Allow(m)    == grounds' = [grounds EXCEPT ![m] = @ + 1]

Goto(x, next)     == pc' = [pc EXCEPT ![x] = next]
Keep(x, field, v) == local' = [local EXCEPT ![x][field] = v]

-----------------------------------------------------------------------------
(* The report's row.  Everybody reads its status first and writes another  *)
(* one later, by id and whatever it has become meanwhile; the columns of   *)
(* its post are left as they are.                                          *)

Overwrite(m, new) ==
    /\ status' = [status EXCEPT ![m] = new]
    /\ undone' = IF status[m] = "completed" THEN undone \cup {m} ELSE undone

(* sendDm's insert, which gives way to a report that is there. *)
OpenReport(m) ==
    /\ worker = NoJob
    /\ status[m] = "none"
    /\ status' = [status EXCEPT ![m] = "in_progress"]
    /\ Allow(m)
    /\ UNCHANGED <<row, token, opening, slackVars, handlerVars, worker, connectVars>>
    /\ UNCHANGED <<mishaps, undone, left>>

(* timeoutReport finds the report open and its deadline past, retrigger    *)
(* finds it absent or timed out; the worker does one job at a time.        *)
DecideJob(job, m, statuses) ==
    /\ worker = NoJob
    /\ status[m] \in statuses
    /\ Spend(job)
    /\ worker' = [job |-> job, who |-> m]
    /\ UNCHANGED <<status, row, token, opening, slackVars, handlerVars, connectVars>> /\ Unrecorded

DecideTimeout(m) == DecideJob("timeout", m, {"in_progress"})
DecideRestart(m) == DecideJob("restart", m, {"none", "timed_out"})

Expire ==
    /\ worker.job = "timeout"
    /\ Overwrite(worker.who, "timed_out")
    /\ worker' = NoJob
    /\ UNCHANGED <<row, token, opening, slackVars, handlerVars, connectVars, mishaps, grounds, left>>

Reopen ==
    /\ worker.job = "restart"
    /\ Overwrite(worker.who, "in_progress")
    /\ Allow(worker.who)
    /\ worker' = NoJob
    /\ UNCHANGED <<row, token, opening, slackVars, handlerVars, connectVars, mishaps, left>>

(* Something between the job's read and its write fails; a retry decides   *)
(* afresh.                                                                 *)
JobFails ==
    /\ worker # NoJob
    /\ worker' = NoJob
    /\ UNCHANGED <<status, row, token, opening, slackVars, handlerVars, connectVars>> /\ Calm

(* handleMessage finds the author's report open and computes its action    *)
(* from the answers it read.                                               *)
Receive(x) ==
    /\ pc[x] = "idle"
    /\ status[Author[x]] = "in_progress"
    /\ \E next \in {"complete", "abort"} : Goto(x, next)
    /\ UNCHANGED <<status, row, token, opening, slackVars, local, worker, connectVars>> /\ Calm

Complete(x) ==
    /\ pc[x] = "complete"
    /\ status' = [status EXCEPT ![Author[x]] = "completed"]
    /\ IF status[Author[x]] = "in_progress" THEN UNCHANGED grounds ELSE Allow(Author[x])
    /\ Goto(x, "outro")
    /\ UNCHANGED <<row, token, opening, slackVars, local, worker, connectVars>>
    /\ UNCHANGED <<mishaps, undone, left>>

(* The member is told, and the run is finalized (StandupDay). *)
Abort(x) ==
    /\ pc[x] = "abort"
    /\ Overwrite(Author[x], "timed_out")
    /\ Goto(x, "done")
    /\ UNCHANGED <<row, token, opening, slackVars, local, worker, connectVars, mishaps, grounds, left>>

Outro(x) ==
    /\ pc[x] = "outro"
    /\ Goto(x, "token")
    /\ UNCHANGED <<status, row, token, opening, slackVars, local, worker, connectVars>> /\ Calm

(* broadcastReport reads the team, the window, the issues and the token; a *)
(* token it cannot decrypt counts as none.                                 *)
UserToken(m) == IF token[m] = "unreadable" THEN "none" ELSE token[m]

ReadToken(x) ==
    /\ pc[x] = "token"
    /\ Keep(x, "token", UserToken(Author[x]))
    /\ Goto(x, IF UserToken(Author[x]) # "none" THEN "postUser" ELSE "postBot")
    /\ UNCHANGED <<status, row, token, opening, slackVars, worker, connectVars>> /\ Calm

(* buildReportBlocks, with the footer that a post of the bot has. *)
Blocks(m, as) == [who |-> m, as |-> as, footer |-> IF as = "bot" THEN "nudge" ELSE "none"]

(* chat.postMessage and chat.update. *)
Post(m, as)     == channel' = Append(channel, Blocks(m, as))
Edit(k, footer) == channel' = [channel EXCEPT ![k].footer = footer]

(* Slack's answer to a post names its timestamp. *)
Posted(x, as) ==
    /\ Post(Author[x], as)
    /\ local' = [local EXCEPT ![x].ts = Len(channel) + 1, ![x].as = as]

Refused(x) == "revoked" \in {token[Author[x]], local[x].token}

\* Faulty variant: the bot posts whether or not the user's post succeeded.
PostAsBoth(x) ==
    /\ pc[x] = "postUser"
    /\ IF Refused(x) THEN UNCHANGED <<channel, local>> ELSE Posted(x, "user")
    /\ Goto(x, "postBot")
    /\ UNCHANGED <<status, row, token, opening, header, worker, connectVars>> /\ Calm

(* Slack refuses a token that has been revoked by then, and the bot posts  *)
(* instead.                                                                *)
PostAsUser(x) ==
    /\ pc[x] = "postUser"
    /\ IF Refused(x) THEN Goto(x, "postBot") /\ UNCHANGED <<channel, local>>
                     ELSE Goto(x, "row") /\ Posted(x, "user")
    /\ UNCHANGED <<status, row, token, opening, header, worker, connectVars>> /\ Calm

PostAsBot(x) ==
    /\ pc[x] = "postBot"
    /\ Posted(x, "bot")
    /\ Goto(x, "row")
    /\ UNCHANGED <<status, row, token, opening, header, worker, connectVars>> /\ Calm

\* Faulty variant: the row says how the report was meant to be posted.
RecordIntent(x) ==
    /\ pc[x] = "row"
    /\ row' = [row EXCEPT ![Author[x]]["today"] =
                  [ts |-> local[x].ts, as |-> IF local[x].token = "none" THEN "bot" ELSE "user"]]
    /\ Goto(x, IF opening THEN "count" ELSE "nudge")
    /\ UNCHANGED <<status, token, opening, slackVars, local, worker, connectVars>> /\ Calm

(* The permalink never fails; the update names the report by id. *)
RecordPost(x) ==
    /\ pc[x] = "row"
    /\ row' = [row EXCEPT ![Author[x]]["today"] = [ts |-> local[x].ts, as |-> local[x].as]]
    /\ Goto(x, IF opening THEN "count" ELSE "nudge")
    /\ UNCHANGED <<status, token, opening, slackVars, local, worker, connectVars>> /\ Calm

Completed == {m \in Member : status[m] = "completed"}

\* Two handlers have counted and not written yet.
Crossing == IF \E y \in Message : pc[y] = "header" THEN {"crossed"} ELSE {}

\* Faulty variant: the reports are counted as they were before one's own.
CountOthers(x) ==
    /\ pc[x] = "count"
    /\ Keep(x, "count", Cardinality(Completed \ {Author[x]}))
    /\ Goto(x, "header")
    /\ Mishap(Crossing)
    /\ UNCHANGED <<status, row, token, opening, slackVars, worker, connectVars, left>>

(* The header is updated with a count that was read before. *)
CountReports(x) ==
    /\ pc[x] = "count"
    /\ Keep(x, "count", Cardinality(Completed))
    /\ Goto(x, "header")
    /\ Mishap(Crossing)
    /\ UNCHANGED <<status, row, token, opening, slackVars, worker, connectVars, left>>

\* Faulty variant: the count is added to what the header shows.
AddToHeader(x) ==
    /\ pc[x] = "header"
    /\ header' = header + local[x].count
    /\ Goto(x, "nudge")
    /\ UNCHANGED <<status, row, token, opening, channel, local, worker, connectVars>> /\ Calm

UpdateHeader(x) ==
    /\ pc[x] = "header"
    /\ header' = local[x].count
    /\ Goto(x, "nudge")
    /\ UNCHANGED <<status, row, token, opening, channel, local, worker, connectVars>> /\ Calm

(* After a bot post the member is reminded to connect, best-effort; the    *)
(* run is finalized then (StandupDay).                                     *)
Nudge(x) ==
    /\ pc[x] = "nudge"
    /\ Goto(x, "done")
    /\ UNCHANGED <<status, row, token, opening, slackVars, local, worker, connectVars>> /\ Calm

(* Where a handler goes on whose call fails: a token that cannot be read   *)
(* and a failed user post fall back to the bot, any other failure ends the *)
(* handler or the broadcast, that of another read at "token" included.     *)
AfterFailure(step) ==
    CASE step = "token"    -> {"postBot", "done"}
      [] step = "postUser" -> {"postBot"}
      [] OTHER             -> {"done"}

HandlerThrows(x) ==
    /\ pc[x] \in {"complete", "abort", "outro", "token", "postUser", "postBot", "row", "count", "header"}
    /\ Spend("throw")
    /\ \E next \in AfterFailure(pc[x]) : Goto(x, next)
    /\ Mishap({"throw"})
    /\ UNCHANGED <<status, row, token, opening, slackVars, local, worker, connectVars>>

(* Slack has taken the post but its answer is lost. *)
PostAnswerLost(x) ==
    /\ pc[x] \in {"postUser", "postBot"}
    /\ pc[x] = "postUser" => ~Refused(x)
    /\ Spend("lost")
    /\ Post(Author[x], IF pc[x] = "postUser" THEN "user" ELSE "bot")
    /\ \E next \in AfterFailure(pc[x]) : Goto(x, next)
    /\ mishaps' = mishaps \cup {"lost"} /\ Allow(Author[x])
    /\ UNCHANGED <<status, row, token, opening, header, local, worker, connectVars, undone>>

-----------------------------------------------------------------------------
(* Connecting: /api/slack/install and the OAuth callback. *)

FollowLink(m) ==
    /\ Spend("connect")
    /\ link[m] = "none" /\ cpc[m] = "idle"
    /\ link' = [link EXCEPT ![m] = "fresh"]
    /\ UNCHANGED <<status, row, token, opening, slackVars, handlerVars, worker, cpc, found>> /\ Unrecorded

(* More than ten minutes go by. *)
LinkExpires(m) ==
    /\ link[m] = "fresh"
    /\ link' = [link EXCEPT ![m] = "stale"]
    /\ UNCHANGED <<status, row, token, opening, slackVars, handlerVars, worker, cpc, found>> /\ Calm

(* verifyState lets a fresh state of the present secret through. *)
VerifyState(m) ==
    /\ link[m] # "none"
    /\ link' = [link EXCEPT ![m] = "none"]
    /\ cpc' = [cpc EXCEPT ![m] = IF link[m] = "fresh" THEN "save" ELSE "idle"]
    /\ UNCHANGED <<status, row, token, opening, slackVars, handlerVars, worker, found>> /\ Calm

SaveToken(m) ==
    /\ cpc[m] = "save"
    /\ token' = [token EXCEPT ![m] = "good"]
    /\ cpc' = [cpc EXCEPT ![m] = "find"]
    /\ UNCHANGED <<status, row, opening, slackVars, handlerVars, worker, link, found>> /\ Calm

BotReports(m) == {d \in Day : row[m][d].as = "bot" /\ row[m][d].ts # NoPost}

\* A handler of m is past the token and not yet through with the row.
Overtaking(m) ==
    IF \E x \in Message : Author[x] = m /\ pc[x] \in {"token", "postUser", "postBot", "row"}
    THEN {"overtaken"} ELSE {}

\* Faulty variant: the oldest of the member's bot-posted reports is refreshed.
FindOldestReport(m) ==
    /\ cpc[m] = "find"
    /\ IF BotReports(m) = {}
       THEN cpc' = [cpc EXCEPT ![m] = "idle"] /\ UNCHANGED found
       ELSE /\ cpc' = [cpc EXCEPT ![m] = "swap"]
            /\ found' = [found EXCEPT ![m] = row[m][IF "old" \in BotReports(m) THEN "old" ELSE "today"].ts]
    /\ Mishap(Overtaking(m))
    /\ UNCHANGED <<status, row, token, opening, slackVars, handlerVars, worker, link, left>>

(* refreshLatestBotReport: the latest report whose row says the bot posted it. *)
FindBotReport(m) ==
    /\ cpc[m] = "find"
    /\ IF BotReports(m) = {}
       THEN cpc' = [cpc EXCEPT ![m] = "idle"] /\ UNCHANGED found
       ELSE /\ cpc' = [cpc EXCEPT ![m] = "swap"]
            /\ found' = [found EXCEPT ![m] = row[m][IF "today" \in BotReports(m) THEN "today" ELSE "old"].ts]
    /\ Mishap(Overtaking(m))
    /\ UNCHANGED <<status, row, token, opening, slackVars, handlerVars, worker, link, left>>

SwapFooter(m) ==
    /\ cpc[m] = "swap"
    /\ Edit(found[m], "connected")
    /\ cpc' = [cpc EXCEPT ![m] = "idle"] /\ found' = [found EXCEPT ![m] = NoPost]
    /\ UNCHANGED <<status, row, token, opening, header, handlerVars, worker, link>> /\ Calm

(* A failed exchange or save ends the callback with an error page; a       *)
(* failed confirmation or refresh is swallowed.                            *)
ConnectThrows(m) ==
    /\ cpc[m] \in {"save", "find", "swap"}
    /\ Spend("throw")
    /\ cpc' = [cpc EXCEPT ![m] = "idle"] /\ found' = [found EXCEPT ![m] = NoPost]
    /\ Mishap({"throw"})
    /\ UNCHANGED <<status, row, token, opening, slackVars, handlerVars, worker, link>>

(* The member removes the app from their Slack account. *)
RevokeToken(m) ==
    /\ token[m] = "good"
    /\ Spend("revoke")
    /\ token' = [token EXCEPT ![m] = "revoked"]
    /\ UNCHANGED <<status, row, opening, slackVars, handlerVars, worker, connectVars>> /\ Unrecorded

(* The services are restarted with another INTERNAL_API_SECRET: stored     *)
(* tokens cannot be read and pending links do not verify.  Whatever ran    *)
(* in them has ended.                                                      *)
RotateSecret ==
    /\ Spend("rotate")
    /\ worker = NoJob
    /\ \A x \in Message : pc[x] \in {"idle", "done"}
    /\ \A m \in Member : cpc[m] = "idle"
    /\ token' = [m \in Member |-> IF token[m] = "none" THEN "none" ELSE "unreadable"]
    /\ link'  = [m \in Member |-> IF link[m] = "none" THEN "none" ELSE "stale"]
    /\ UNCHANGED <<status, row, opening, slackVars, handlerVars, worker, cpc, found>> /\ Unrecorded

Next ==
    \/ \E m \in Member : OpenReport(m) \/ DecideTimeout(m) \/ DecideRestart(m)
    \/ Expire \/ Reopen \/ JobFails
    \/ \E x \in Message :
          \/ Receive(x) \/ Complete(x) \/ Abort(x) \/ Outro(x) \/ ReadToken(x)
          \/ PostAsUser(x) \/ PostAsBot(x) \/ RecordPost(x)
          \/ CountReports(x) \/ UpdateHeader(x) \/ Nudge(x)
          \/ HandlerThrows(x) \/ PostAnswerLost(x)
    \/ \E m \in Member :
          \/ FollowLink(m) \/ LinkExpires(m) \/ VerifyState(m) \/ SaveToken(m)
          \/ FindBotReport(m) \/ SwapFooter(m) \/ ConnectThrows(m)
          \/ RevokeToken(m)
    \/ RotateSecret

Spec == Init /\ [][Next]_vars

-----------------------------------------------------------------------------
(* The report page (getRunDetail): each member's card, and the counts.     *)

Card(m) ==
    IF status[m] = "none" THEN [status |-> "absent", link |-> NoPost, postedAs |-> "none"]
    ELSE [status |-> status[m], link |-> row[m]["today"].ts, postedAs |-> row[m]["today"].as]

Participation ==
    [reported |-> Cardinality({m \in Member : Card(m).status = "completed"}),
     total    |-> Cardinality({m \in Member : Card(m).status # "absent"})]

-----------------------------------------------------------------------------
Undisturbed(es) == mishaps \cap es = {}

HandlerStep == {"idle", "complete", "abort", "outro", "token", "postUser", "postBot", "row", "count",
                "header", "nudge", "done"}
Posting     == {"outro", "token", "postUser", "postBot", "row"}
Counting    == Posting \cup {"count", "header"}

RowState   == [ts : Nat, as : {"none", "bot", "user"}]
PostState  == [who : Member, as : {"bot", "user"}, footer : {"none", "nudge", "connected"}]
LocalState == [token : TokenState, ts : Nat, as : {"bot", "user"}, count : 0..Cardinality(Member)]
WorkerJob  == [job : {"timeout", "restart"}, who : Member]

(* Every variable has its type, every timestamp that is kept is that of a  *)
(* message in the channel, and who has a link to follow is in no callback. *)
TypeOK ==
    /\ status \in [Member -> {"none", "in_progress", "completed", "timed_out"}]
    /\ row \in [Member -> [Day -> RowState]]
    /\ \A m \in Member, d \in Day : row[m][d].ts <= Len(channel)
    /\ token \in [Member -> TokenState]
    /\ opening \in BOOLEAN
    /\ channel \in Seq(PostState)
    /\ header \in 0..Cardinality(Member)
    /\ pc \in [Message -> HandlerStep]
    /\ local \in [Message -> LocalState]
    /\ \A x \in Message : local[x].ts <= Len(channel)
    /\ worker \in WorkerJob \cup {NoJob}
    /\ link \in [Member -> {"none", "fresh", "stale"}]
    /\ cpc \in [Member -> {"idle", "save", "find", "swap"}]
    /\ \A m \in Member : link[m] # "none" => cpc[m] = "idle"
    /\ found \in [Member -> Nat]
    /\ \A m \in Member : IF cpc[m] = "swap" THEN found[m] \in 1..Len(channel) ELSE found[m] = NoPost
    /\ undone \subseteq Member
    /\ grounds \in [Member -> Nat]
    /\ left \in [EnvEvent -> Nat]

(* The header (handleMessage.ts:213-229) against the report page: it counts *)
(* more reports only by those that were completed and then overwritten by  *)
(* a time-out, an abort or a restart that had read an earlier status; and  *)
(* once no broadcast is under way it counts no fewer, however the handlers *)
(* interleaved, unless one failed or one wrote a count that another had    *)
(* overtaken.                                                              *)
HeaderIsHonest ==
    /\ header <= Cardinality(Completed \cup undone)
    /\ opening /\ (\A x \in Message : pc[x] \notin Counting)
          /\ Undisturbed({"throw", "lost", "crossed"})
          => Participation.reported <= header

PostsAbout(m, d) ==
    {k \in DOMAIN channel : channel[k].who = m /\ (row[m]["old"].ts = k <=> d = "old")}

(* handleMessage.ts:89-94, 172-203: a report is in the channel at most once *)
(* per time it was opened, also when it falls back to the bot; every other *)
(* post is owed to a handler that completed the report when it was no      *)
(* longer open, or to an answer of Slack that was lost.                    *)
PostedOnce == \A m \in Member : Cardinality(PostsAbout(m, "today")) <= grounds[m]

(* A report's card in the web app (reports.ts:101-105) links to a post of  *)
(* that report and names the identity it appears under.  The card of a     *)
(* completed report has a link once no handler is about to post it, unless *)
(* a call failed; another card has one only after a completed report was   *)
(* overwritten.                                                            *)
RowDescribesPost ==
    \A m \in Member :
        /\ Card(m).link # NoPost =>
              /\ channel[Card(m).link].who = m
              /\ channel[Card(m).link].as = Card(m).postedAs
              /\ Card(m).status = "completed" \/ m \in undone
        /\ Card(m).status = "completed" /\ Undisturbed({"throw", "lost"})
              /\ (\A x \in Message : Author[x] = m => pc[x] \notin Posting)
              => Card(m).link # NoPost

Settled(m) ==
    /\ \A x \in Message : Author[x] = m => pc[x] \in {"idle", "done"}
    /\ cpc[m] = "idle"

(* The post that the latest of the member's posted reports links to. *)
LatestPost(m) == row[m][IF row[m]["today"].ts # NoPost THEN "today" ELSE "old"].ts

(* connect-cleanup.ts:7-10: once everything has settled, the latest report *)
(* of a connected member does not say that they have not connected, unless *)
(* a call failed or the connection came while the report was being posted. *)
NudgeAccountedFor ==
    \A m \in Member :
        /\ Settled(m) /\ token[m] = "good" /\ LatestPost(m) # NoPost
        /\ Undisturbed({"throw", "lost", "overtaken"})
        => channel[LatestPost(m)].footer # "nudge"
=============================================================================
