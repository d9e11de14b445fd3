# poddaily in TLA+

poddaily runs asynchronous daily standups in Slack. This directory models the parts of it that are
concurrent: a worker, an api process and a web process that share Postgres rows and a BullMQ queue,
take no locks, and are interrupted at every `await`. TLC checks the models on small instances and
TLAPS proves the main invariants for every instance.

## 1. The system

```
   Slack ──message.im, /standup──▶ api ──retrigger──▶ ┌────────────┐
     ▲                              │                  │ BullMQ     │◀── tick (job scheduler)
     │ DMs, channel posts           │ rows             │ "standup"  │◀── trigger, reconcile ── web
     └─────────── worker ◀──────────┼───── jobs ─────── └────────────┘          │
                    │               ▼                       ▲ send (late join) ─┤
                    └────────▶  Postgres  ◀──────────────────────── rows ───────┘ ◀── Linear webhook
```

| Component | State it keeps | Operations | What makes it correct |
|---|---|---|---|
| Run opening and fan-out (`worker/openRun.ts`) | `standup_runs` (one row per standup and day) | `openRun`, `ensureRunOpen`, `fanOutSends` | one run per day whoever opens it; everybody who reports gets a send job |
| Report DM and re-trigger (`worker/sendDm.ts`, `retrigger.ts`) | `standup_reports` | ask, insert, arm the timeout; reset and reopen | asked once; every open report has a timeout; a finished report is never reopened |
| Timeout and finalization (`worker/timeoutReport.ts`, `db/runs.ts`) | report and run `status` | time out, re-enqueue, finalize | a finished report is spared; the run is completed when and only when all reports are |
| Job queue (`worker/queue.ts`, `shared/queue-contract.ts`) | Redis | three attempts, exponential backoff, delays, stalled jobs | a job is not lost while it has attempts left |
| Reminders (`worker/remindReport.ts`, `shared/reminders.ts`) | delayed jobs | plan, remind | at their times, to those who are still writing |
| Conversation (`api/handleMessage.ts`, `handleCommand.ts`, `shared/dmEngine.ts`) | answers, status | reply, skip all, keyword, `/standup start` | answers go under their questions; one broadcast; the run is finalized |
| Team administration (`web/lib/teams.ts`, `late-join.ts`) | `team_members` | add, permissions, remove, late join | a member added during a run is served |
| Settings (`web/lib/standups.ts`, `web/lib/queue.ts`) | `standups` | upsert, pause, trigger, request a reconcile | changes take effect without a restart |
| Reconciliation (`worker/reconcile*.ts`) | BullMQ job schedulers | diff, remove, add | one scheduler per active standup, with its pattern |
| Schedule arithmetic (`shared/schedule.ts`, `sendInstants.ts`, `reminders.ts`) | none | cron and instants | agrees with the definition of "next active weekday" |
| Channel broadcast (`handleMessage.ts`, `shared/broadcast.ts`, `web/lib/connect-cleanup.ts`) | Slack messages, `posted_as` | post, update the header, refresh the footer | the header ends up with the final counts |
| Tokens and connect flow (`db/tokens.ts`, `web/lib/oauth-state.ts`, the OAuth routes) | `slack_user_tokens` | install link, callback, refresh of the last post | a connected member posts under their own name |
| Users and roles (`web/lib/users.ts`, `authz.ts`) | `app_users`, `team_managers` | login, change role | there is always an admin |
| Linear (`db/integrations.ts`, webhook route, `pruneLinear.ts`) | `linear_activity`, secrets | ingest, prune | latest known snapshot per issue |
| Directory (`db/directory.ts`, `syncDirectory.ts`, `slack-client`) and its search box (`member-search.tsx`) | `slack_directory_users`; the box's React state | paginated sync; debounced search | everybody Slack listed is there; the list answers what was typed |
| Health page (`web/lib/health.ts`) | none of its own | verdict, next run | a missed run shows, and no other does |
| Other pages, clients, stub, deployment | none of their own | reads, rendering, I/O | not modelled |

Components meet in three ways: rows of Postgres that several processes read and write (with unique
keys but without transactions around read-then-write), jobs (at-least-once, any order), and Slack
messages (at-least-once). What is hard, and where it bites, is listed in `PROJECT.json` under
`hazards`.

## 2. What is modelled

### StandupDay

One standup on one calendar day, every step of `openRun`, `sendDm`, `retrigger`, `timeoutReport`,
`finalizeRunIfDone`, `handleMessage`, `handleCommand`, `enqueueLateJoinIfOpen` and the server actions
around them. **An action is the code between two awaits**: what it reads is what the rows hold at that
moment, and what it decided earlier it carries in its own state.

| Variable | Code |
|---|---|
| `run` | `standup_runs.status` of the day, `"none"` while there is no row (unique on standup and date) |
| `active`, `membership` | `standups.is_active`; a `team_members` row and its `can_report` |
| `status`, `answers`, `overdue` | the member's `standup_reports` row: status, number of answers, `timeout_at < now` |
| `asked`, `posted` | what Slack has seen: first questions per member, channel posts per member |
| `queue` | for each job the number of copies waiting, delayed or in backoff |
| `wpc`, `wjob`, `created`, `todo` | where the worker is suspended, in which job, and the job's local variables |
| `inflight` | message and command handlers: who, how many answers they read, where they are suspended |
| `joins` | running late-join checks |
| `left` | what remains of the budget for events that nothing forces to happen |

| Actions | Code |
|---|---|
| `Take` | BullMQ hands a job to the worker (concurrency one, `worker/index.ts`) |
| `LoadStandup`, `EnsureRunOpen`, `ListMembers`, `FanOut` | `openRun.ts`, shared with the team recovery of `retrigger.ts` |
| `CheckNotSent`, `AskFirstQuestion`, `InsertReport`, `ArmTimeout` | `sendDm.ts` |
| `GuardRetrigger`, `AskFirstQuestion`, `ResetReport`, `ReopenRun`, `ArmTimeout`, then `ListMembers` | `retrigger.ts` |
| `ReadDeadline`, `RearmTimeout`, `Expire`, `WorkerFinalize` | `timeoutReport.ts`, `runs.ts` |
| `WorkerThrows`, `WorkerCrashes` | a failed attempt (retried from the top while attempts are left), a stalled job |
| `ReceiveReply`, `ReceiveSkipAll`, then `WriteNext` / `WriteComplete` / `WriteAbort`, `AnswerMember`, `Broadcast`, `HandlerFinalize` | `handleMessage.ts`, `dmEngine.ts`, `runs.ts` |
| `ReceiveKeyword`, `ReceiveSlashStart`, `DayState`, `EnqueueRetrigger` | `maybeRetrigger`, `handleCommand.ts`, `standupState.ts` |
| `AddReporter`, `DropReporter`, `JoinReadsRun`, `JoinReadsReport`, `JoinSends` | `teams.ts`, the server actions of `teams/[id]/page.tsx`, `late-join.ts` |
| `TogglePause`, `TriggerRun`, `SchedulerTick`, `DeadlinePasses` | `standups.ts`, `web/lib/queue.ts` and `trigger.ts`, the job scheduler, the clock |

Details of the code that the model keeps on purpose:

- Every job has three attempts except the scheduler's tick, whose template has no options
  (`reconcileSchedules.ts:45-49`) and which therefore gets one.
- The first question is posted before the row is written, in both `sendDm` and `retrigger`.
- Terminal writes (`Expire`, `WriteComplete`, `WriteAbort`) name the row by id and do not look at the
  status again; a handler that read old answers overwrites newer ones.
- Only `broadcastReport` and the finalization of a handler catch their failures. Any other failure ends
  the handler, and Slack is not asked to deliver again.
- A permission form starts a late join whatever it changes.

Abstractions: texts, time zones, send instants and the weekday guard are gone, so a delayed job may
come due at any moment and a tick may come on any day; the list of questions is fixed, with
`Questions` of them; reminders are left out because nothing here reads what they write; the three
reads of a late join before it looks for the report are one step, and so are the reads of
`getMemberDayState` and of a handler's first three queries; two identical late joins are one.

### ScheduleReconcile

The schedule of every standup is kept twice, in its Postgres row and as a BullMQ job scheduler whose
key is the standup's id. `reconcileSchedules` copies the first to the second in four kinds of await:
read the rows, list the schedulers, remove, add. It has no transaction across the two stores, the web
process edits the rows meanwhile, and it runs in two processes, the worker (at boot, then one
reconcile job at a time) and `reconcile-cli`.

| Variable | Code |
|---|---|
| `row`, `active` | `standups.schedule_cron` with `schedule_tz`, and `is_active` |
| `scheduler`, `timer` | the job schedulers in Redis: per standup, and the one that reconciles every 15 minutes |
| `jobs`, `unannounced` | reconcile jobs in the queue; edits whose `enqueueScheduleReconcile` is still to come |
| `pc`, `booting`, `seen`, `toRemove`, `toAdd` | where each reconciler is suspended, and its local variables |

| Actions | Code |
|---|---|
| `SaveStandup`, `SetStandupActive`, then `EnqueueReconcile` or `EnqueueFails` | `standups.ts`, the actions of `standup/page.tsx`, `web/lib/queue.ts` |
| `Boot`, `TakeJob`, `RunCli`, `TimerFires` | `worker/index.ts`, `processor.ts`, `reconcile-cli.ts`, the repeatable job |
| `ReadRows`, `ListSchedulers`, `RemoveScheduler`, `UpsertScheduler` | `reconcileSchedules.ts`, with `diffSchedules` as `Superfluous` and `Missing` |
| `Throws`, `Crash` | a rejected await (the job has one attempt; boot and cli exit), the death of the worker |

A schedule is a model value and `TickOf` is `deriveTickCron`: schedules that differ in the hour alone
have one tick, a malformed cron has none. The order of the rows is left open. Two clicks on Pause may
write the same value, because the negated value was read before; `SetStandupActive` allows either.

### DailyDelivery

The day as its members see it: no processes, jobs or retries. The day is opened once, a report is
opened after its member has been sent the first question, and what is over starts again only after
somebody has asked for it. `StandupDay` implements it: `run`, `asked > 0`, `status` and the number of
keywords spent are mapped to `day`, `prompted`, `report` and `requests`, and the run `day_faults` checks
`DeliversTheDay == Delivery!Spec` as a property. Every step of the processes, a failed one or a retry
included, is a step of this day or none. It allows a report in a day that the others
have closed, because the code does (section 3).

### DmConversation

One member's conversation about one report, in which answers have content: which question each is
filed under, and which message it came in. `StandupDay` counts answers and cannot tell a misfiled one.

| Variable | Code |
|---|---|
| `questions`, `status`, `answers` | `standups.questions`; the report row |
| `shown` | the last question posted into the DM |
| `said`, `inbox` | the member's messages and the question that was on display, deliveries still to come |
| `handlers` | running handlers: the message, the report and questions read, where they are suspended |
| `posted`, `restart` | broadcasts; the re-trigger job |
| `filed`, `lives`, `mishaps` | history: written messages, openings of the report, what has disturbed the conversation |

| Actions | Code |
|---|---|
| `Say`, `Redeliver`, `EditQuestions` | the member, Slack's at-least-once delivery, the question editor |
| `ReadReport` / `ReadNoReport`, `Decide`, `WriteAnswers` / `WriteAbort`, `PostReply`, `Broadcast`, `HandlerThrows` | `handleMessage` between its awaits, with `advanceReport` as a function |
| `EnqueueRetrigger`, `RestartAsks`, `RestartResets` | `maybeRetrigger`, `retrigger` |
| `TimeOut` | `timeoutReport` |

### ChannelBoard

What a run leaves in the team's channel: `broadcastReport` call by call for every message that completes a
report, and the flow in which members connect their Slack account. Handlers are per message, not per
member: two of them may have read the same open report, and then both complete and post it.

| Variable | Code |
|---|---|
| `status`, `row` | the report's status; its `channel_post_ts` and `posted_as`, today's and an older report's |
| `worker` | what a time-out or a restart has decided on and not written yet |
| `token`, `link` | `slack_user_tokens` (`revoked` at Slack, `unreadable` under another secret); the signed state of the install link |
| `opening`, `header`, `channel` | whether the header message exists, the count it shows, the posts with their identity and footer |
| `pc`, `local` | where the handler of a message is suspended, and its local variables |
| `cpc`, `found` | the same of a member's OAuth callback |
| `mishaps`, `undone`, `grounds` | history: failed calls, lost answers, overtaken counts and clean-ups; members whose completed report was overwritten; what can put a member's report into the channel |

`Receive` reads the open report; `Complete` and `Abort` write later, by id, whatever the status has become
(`handleMessage.ts:69-71`, `90-92`). `DecideTimeout` and `DecideRestart` read as well, and `Expire` and
`Reopen` write over what was completed meanwhile, leaving the columns of the post as they are
(`timeoutReport.ts:34-37`, `retrigger.ts:57-63`). Each await of `broadcastReport` is an action (`ReadToken`,
`PostAsUser`, `PostAsBot`, `RecordPost`, `CountReports`, `UpdateHeader`, `Nudge`), and so is each of the callback
(`VerifyState`, `SaveToken`, `FindBotReport`, `SwapFooter`). `HandlerThrows` and `PostAnswerLost` fail any of
them, before or after Slack took the message; `AfterFailure` says where the handler goes on: a token
that cannot be read and a failed user post fall back to the bot, any other failure ends it. `RevokeToken` and
`RotateSecret` make a stored token useless. `Starts` names the situations a run may find in the channel, each
with the messages that will be sent and its own budget. `Card` and `Participation` are what the report page makes of it.

### Accounts, Directory, MemberSearch, LinearFeed, Workspace

What the web process keeps between the daily runs. `Workspace` composes the four and gives each the
others' state: the Linear feed resolves addresses through the users and the directory, the search box
reads the directory.

| Module | State | Actions |
|---|---|---|
| `Accounts` | `users` (`app_users.role`), `managers` (`team_managers`), `op` (one request per id) | `Login`, `ReconcileByEmail`, `Bootstrap`, `InsertUser` (`provisionUserOnLogin`, a read-committed transaction); `BeginRoleChange`, `ReadTarget`, `CountAdmins`, `WriteRole` (`changeUserRole`); `AddTeamManager`, `RemoveTeamManager` |
| `Directory` | `slack`, `dir`, the sync's `page`, `fetched`, `unwritten` | `BeginSync`, `ReadPage` (the cursor loop), `WriteChunk`, `SyncFails`; `ChangePerson` in Slack |
| `MemberSearch` | `query`, `open`, `timer`, `requests`, `results`, `selected` | the React component: `Type`, `OpenList`, `CloseList`, `SendSearch`, `AnswerSearch`, `ShowResults`, `EndSearch`, `Choose`, `ClearChoice` |
| `LinearFeed` | `setting`, `secrets`, `hooks`, `stored` (`linear_activity`), `reports`, `posting` | the webhook (`VerifySignature`, `RecordEvent`, `StoreSnapshot`, `HookFails`), the Integrations page in two statements each, `Prune`, the reports of a member, `PostToChannel` with its window |

`Starts` names the situations a behaviour begins in, each with its own budget, so that one instance
can hold a workspace in which two people log in, one in which the directory is synced while people
leave, and one in which Linear delivers out of order, without multiplying them.

### ScheduleMath and StandupClock

`ScheduleMath` translates the pure functions (`cronFromWeekly`, `parseWeeklyCron`, `anchorDate`,
`isActiveWeekday`, `computeSendInstant`, `nextRunInstant`, `deriveTickCron`, `reminderDelays`); the properties of
`StandupClock` compare them with definitions that only look at clocks on the wall.

| Variable of `StandupClock` | Code |
|---|---|
| `now`, `up`, `dark` | the clock, in slots; the worker's container and the instants it was down |
| `plan`, `active`, `changed` | the `standups` row and when it was last written |
| `scheduler`, `jobs` | the job scheduler's pattern and next tick; delayed and waiting jobs with their instants |
| `run`, `report` | `standup_runs` and `standup_reports` by date, with the instants of asks, reminders and expiry |
| `pokes`, `left` | history of manual triggers; the budget of the start |

| Actions | Code |
|---|---|
| `Advance`, `Boot`, `Stop` | time; `worker/index.ts` with its reconcile at boot |
| `SaveStandup`, `ToggleActive`, `TriggerNow` | the actions of `standup/page.tsx` |
| `TickJob`, `ForceJob`, `ReconcileJob` | `processor.ts`, `openRun.ts` with `FanOutSends` |
| `SendDmJob`, `RetriggerJob`, `TimeoutJob`, `RemindJob` | the handlers, each in one step |
| `Reply`, `Close`, `Keyword` | the api process |

### The other modules

The `MC` modules hold the instances, the `Proofs` modules the theorems. Those about the day are in three:
`StandupDayProofs` proves what concerns one report (types and deadlines), `StandupDayRunProofs` what
concerns the run (who is asked, and who closes it), `StandupDayDeliveryProofs` what concerns the member
(that `StandupDay` implements `DailyDelivery`, and how often a member is asked). `ScheduleReconcileProofs`,
`DmConversationProofs`, `ChannelBoardProofs`, `WorkspaceProofs` and `StandupClockProofs` belong to the module
they are named after.

Abstractions of these modules:

- `DmConversation`: texts are their kind (`"text"`, `"skip all"`, `"keyword"`); a list has at most two
  questions; the guard in `maybeRetrigger` against a duplicate keyword is `restart = "none"`.
- `ChannelBoard`: only messages that end the conversation matter; the team has a channel and `NEXTAUTH_URL`
  is set, so the note to connect is there; blocks are author, identity and footer.
- `Accounts`: one request per id at a time; an id's e-mail address does not change; a session is valid.
- `LinearFeed`: one member's reports, one issue and one broadcast at a time; a snapshot is its version,
  its closing and whether it is assigned to this member or to nobody.
- `StandupClock`: zones have fixed offsets (no daylight saving within the days of a run), a job
  takes less than a slot and is one step, due jobs come in any order, identical jobs are one, a late
  join is left to `StandupDay`. Its properties hold at this grain: what a reply between the read and the
  update of a time-out, or a crash before its finalization, does to the day is shown in `StandupDay`
  (`day_overwrite`, `day_stranded`).

## 3. What the runs check

`Budget` bounds how often each unforced event happens: `tick`, `trigger`, `staff` (an edit of the
team), `pause`, `keyword` (a keyword or `/standup start`), `throw` (a failed await), `crash`. Replies,
skips, deadlines and everything the processes do by themselves are not bounded. `Handler` bounds
how many messages are being handled at one time; `FailAt` names the awaits that may fail.

| Run | Instance | Checks |
|---|---|---|
| `day_team` | 2 members, 1 handler, 2 questions, one tick, trigger and team edit | `NoReporterForgotten`, `LastReportFinalizes` |
| `day_faults` | 1 member, 1 handler, 1 question, one of everything but the trigger, failures anywhere but at the steps that carry a report's timeout | `TypeOK`, `DeadlineGuarded`, `ExtraAsksAccountedFor`, `ForgottenAccountedFor`, `DeliversTheDay` |
| `day_live` | 2 members, 1 handler, 1 question, one tick, fair scheduling | `EveryReporterServed`, `RunCloses` |
| `day_early_close` | as `day_live`, safety only | **violated**: `CompletedRunIsSettled` |
| `day_overwrite` | 1 member, one tick and restart, no failure | **violated**: `WorkerSparesFinished` |
| `day_untimed` | 1 member, one tick and restart, one failure on the way to a timeout job | **violated**: `DeadlineGuarded` |
| `day_stranded` | 1 member, one tick and restart, one failure of the outro or of a finalization | **violated**: `ClosedAtRest` |
| `reconcile` | 1 standup, 4 schedules (2 with one tick, 1 malformed), 2 edits, an outage, failed await, crash and cli run, fair scheduling | `TypeOK`, `QuietMeansSynced`, `NoChurn`, `SelfHeals` |
| `conversation` | 2 questions, 3 messages, 2 handlers, 2 edits, redeliveries, failures or timeouts | `TypeOK`, `MisfiledAccountedFor`, `OneAnswerPerMessage`, `NoAnswerLost`, `CompletedReportIsWhole`, `PostedOncePerOpening`, `DmShowsNextQuestion` |
| `channel_board` | 2 members, 3 messages; 7 starts: one member with or without an older report and a token, with everything but failed calls, or with failed calls and lost answers, or two members | `TypeOK`, `HeaderIsHonest`, `PostedOnce`, `RowDescribesPost`, `NudgeAccountedFor` |
| `workspace` | a person with 3 ids over time and a second one, 3 pages of which 2 are read, 1 issue; 15 starts | `TypeOK`, `LastAdminGuarded`, `OneRowPerPerson`, `LoginGivesDueRank`, `DirectoryIsCurrent`, `NoOlderResults`, `SettledSearchIsCurrent`, `ClosingsAccountedFor`, `RowIsNewest`, `DisconnectHolds` |
| `clock` | 2 members in 2 zones, a schedule in a third, 2 days of 5 slots; 8 starts | `TypeOK`, `AskedAtTheirTime`, `ReportClockKept`, `HealthIsHonest` |

- `NoReporterForgotten`: once the run is open, a reporter without a report has a send job, or is on the
  list being fanned out to, or has a late join under way that will see the run. This relates the
  row, the queue, the worker's local list and the web process; it is where "the admin adds Ana while
  the tick is opening the run" would go wrong. Two members and one edit reach both orders of the
  edit against the run's insert and against the member query.
- `LastReportFinalizes`: when the last report of a running run has become terminal, somebody is still on
  the way to finalizing it. Two finishers, one in the worker and one in the api, may each miss the
  other's write, but not both.
- `DeadlineGuarded`: an open report has a timeout job, or the worker is about to enqueue one. It
  includes the job that comes early, the deadline that moves while the job is in hand, and the second
  life of a restarted report.
- `ExtraAsksAccountedFor`: a member is sent the first question more than once only when an attempt
  failed, the worker died or the member asked for a restart: forced triggers, late joins and repeated
  fan-outs never do it alone.
- `ForgottenAccountedFor`: a reporter who is not on the way to being asked in an open run has behind it a
  failure, a crash or a pause that happened; the code has no repair for them (`openRun.ts:94-97` says so of
  one), and nothing else leads there. One of them contradicts the code's own words (the team recovery, below).
- `DeliversTheDay`: the refinement of section 2, with failures, a crash, a pause and a restart.
- `EveryReporterServed`, `RunCloses`: everybody who reports when the run is open gets a finished report,
  by answering or by the deadline, and the run is completed.

- `QuietMeansSynced`: when the worker is up and no reconcile is queued or about to be, Redis holds exactly
  the schedulers the rows ask for. The hard case is the edit between the read of the rows and the
  writes to Redis. It is claimed as long as the run was `Untroubled`: no request lost, no await failed, no
  `reconcile-cli` (crashes and edits are not trouble). Beside a running cli it does not hold: a slow cli
  writes back an old schedule that the worker has replaced, and the next periodic reconcile repairs it.
- `NoChurn`: a scheduler that is right is changed only if a further reconcile is due, again without trouble.
- `SelfHeals`: after any combination of a lost request, a failed reconcile, a crash and a stale cli, the
  two stores agree for good. `MaxJobs` (2) bounds the timer's jobs only.

- `MisfiledAccountedFor`, `OneAnswerPerMessage`, `NoAnswerLost`, `CompletedReportIsWhole`,
  `PostedOncePerOpening`, `DmShowsNextQuestion`: each says what a conversation keeps and names the
  mishaps that break it; the list after "unless" is the smallest for which TLC agrees. So edits of the
  questions misfile an answer but lose none, redeliveries repeat an answer but never skip a question
  in the DM, and only two handlers that read the same report, or one that is still computing when the
  report is restarted, can lose an answer or post twice.
- `HeaderIsHonest`: the header against the report page. It is written with a count that was read before, so
  two handlers can cross and leave the smaller count. It can also be too large, but only by reports
  that were completed, counted, and then overwritten by a time-out, an abort or a restart that had
  read an earlier status; the header is not written again for that.
- `PostedOnce`: the posts of a member's report are no more than its openings, the handlers that completed it
  when it was no longer open (`handleMessage.ts:48-49`: two messages that both read it open), and the answers
  of Slack that were lost, after which the bot posts a second time. The fall-back from the member's token
  to the bot adds none.
- `RowDescribesPost`: a card's link leads to a post of that report and names the identity it appears under,
  whichever of two handlers recorded last. A report that is not completed has a link only if it was
  completed once and then overwritten: the columns of the post are not cleared.
- `NudgeAccountedFor`: the note to connect under a connected member's latest report. A connecting member's
  clean-up may overtake the bot's post and miss it; nothing else leaves the note.
- `LastAdminGuarded`: rows and admins across overlapping requests. Two admins who demote each other at
  the same time can leave nobody, because the count is read outside the write (`users.ts:96`);
  without an overlap no sequence of logins, adoptions and role changes does.
- `OneRowPerPerson`, `LoginGivesDueRank`: action properties of the login that adopts older rows.
- `DirectoryIsCurrent`: what the directory holds after a sync was true at some moment since the sync
  began, for everybody within the page cap. Pages are read at different moments while people come and
  go. The cap (200 pages in the code) is reached in the instance: whoever is behind it is not covered.
- `NoOlderResults`, `SettledSearchIsCurrent`: answers in any order, aborted and failed searches.
- `ClosingsAccountedFor`: an issue that is closed before a report's window appeared in an earlier one, or
  on a page, or precedes everything a first report looks back on; `RowIsNewest`, `DisconnectHolds` as named.
- `AskedAtTheirTime`: across outages, edits, pauses and zones more than a day apart, everyone is asked when
  their own clock shows the time, or at a manual trigger. `ReportClockKept` does the same for deadlines
  and reminders, `HealthIsHonest` for the health page.

One handler at a time in `StandupDay` is a bound of its instances, not of the model; two at once are in
`DmConversation`, where the answers have content, and the theorems of section 4 hold for any number.
A second question only matters where reports end, so
`day_team` has it and `day_faults`, with its many failures, does not. One tick and
one trigger are enough for the race between openers, since `run` has a single row; one failure is
enough to lose a step, and with `tries` up to three attempts the retry is real. `reconcile` has one standup
because standups only share the list a reconcile works off, and two edits, so that one can be overtaken by
the reconcile of the other. Three messages are one more than the questions, so that a message comes after
the last answer, and a redelivery still has an answer to disturb. In `channel_board` two messages of one member are what it takes
for two handlers to hold one report, and a second member for counts that cross; the starts divide the
events, because all at once is too much for TLC (the theorems of section 4 allow everything at once). In `workspace` three ids of
one person are what it takes for a login to find two stale rows; page size and chunk are one. In `clock`
the time-out is longer than half a day and one zone is more than a day ahead of another, so dates,
deadlines and ticks meet within ten slots.

The violated runs are differences between the code and what it says of itself:

- **A run closes early.** `runs.ts:10-11` calls `finalizeRunIfDone` concurrency-safe. It is, for callers
  that overlap with each other; it is not against `sendDm`, whose insert may come between the read of
  the reports and the write of the run, or after it. Members in later time zones are asked hours
  after the earlier ones, so the run is completed when the early birds are done.
- **The worker takes a finished report back.** `sendDm.ts:56` and `timeoutReport.ts:12` promise a no-op for a
  report that finished first, and `retrigger.ts:23-24` that a restart spares what has been finished; neither the
  update nor the upsert has a condition on the status. TLC's trace (`day_overwrite`) is the time-out. The same
  instance holds the restart: guard and upsert are two Slack calls apart, and a late reply that completes the
  report in between is reset with its answers.
- **A report without a timeout.** `retrigger.ts:18-21` announces a new timeout for a restarted report. When the
  write that reopens the run fails after the upsert, or the enqueueing after it, the retry finds the report
  in progress and stops at `retrigger.ts:45` (TLC's trace, `day_untimed`). The same happens in `sendDm`: if `enqueueTimeout`
  throws after the insert, the retry stops at `sendDm.ts:21`, and the promise of `getting-started.md:144` (timed
  out after 4 h) is not kept. `FailAt` in `day_faults` leaves out `TimerStep`, the steps with this weakness, and
  the theorem `DeadlinesAreGuarded` has the same assumption.
- **A run that nobody closes.** `getting-started.md:145-146` says the run closes once everyone is done or timed
  out. It stays running when the outro's post fails (TLC's trace, `day_stranded`), when `finalizeRunIfDone` fails
  once in `timeoutReport` (the retry stops at the status check) or in a handler, and, with no failure at all,
  when a restarted report ends between the two writes of `retrigger`. All of them are in the instance.
  `ClosedAtRest` is read when no process is at work and no job is left, so nothing can still repair it.

### Observed, without a run of their own

What the models show or had to take into account beside:

- A re-trigger that opens the day and fails after its upsert never recovers the team: its retry stops at the
  guard, and the fan-out to the rest of the team (`retrigger.ts:25-27`) does not happen. `ForgottenAccountedFor`
  names the failure.
- A message that Slack delivers twice answers the next question as well, against `api/src/index.ts:41-42` ("a
  redelivery is harmless") and `dmEngine.ts:15-16`. `OneAnswerPerMessage` and `MisfiledAccountedFor` name the redelivery.
- The overwriting time-out of `day_overwrite`, seen from the channel: the report has been posted and counted, against
  `getting-started.md:144-145` (a timed-out report "is **not** broadcast"). `HeaderIsHonest` and `RowDescribesPost`
  say what is left of it.
- A completed report's window of Linear issues ends at the `reported_at` that was read before its
  completion, while the next report's begins at the completion: an issue closed between question and
  completion is in no post, only on the report page (`handleMessage.ts:147` says "since their last standup").
- `issue_updated_at` is stored but never compared, so an older snapshot that arrives later wins; snapshots
  of unassigned issues are skipped, and the row keeps its former assignee.
- A secret that is added while another admin disconnects Linear stays behind.
- The page of unmatched people counts an address in `app_users` as matched; `resolveMemberEmail` prefers the
  directory's address for the same person.
- A login under a new id deletes the old rows, and their `team_managers` rows with them.
- During the 200 ms of the debounce the search box shows the list of the previous text; an aborted search
  ends the spinner of the one that replaced it; `hasMore` stays after a choice or a failed search.
- Two handlers that complete one report post it twice (`PostedOnce` allows for it); `handleMessage.ts:48-49`
  declares concurrent messages of one member acceptable.
- The row of a report whose completion was overwritten keeps its post and link through a restart.
- An id that shares the member's address takes an issue off the page of unmatched people, although the member's
  posts do not list it while their own id has no row.
- A standup whose time lies before 00:05 is shown as missed until the tick; one that is resumed after 00:05
  is announced for today though no tick will come; after an outage all overdue reminders come at once.

### Fairness

`FairSpec` assumes what runs by itself to go on: the worker's steps, each handler, each late join, and
the clock. Jobs get strong fairness per kind and addressee: BullMQ hands out jobs in the order in
which they come due, so a due job is not passed over for ever, but each job is only momentarily
available to a worker that is busy between two takes. Nothing is assumed of people, failures or the
scheduler. `RunCloses` needs at least one report: a run of a team in which nobody reports is never
completed, because only a finished report calls `finalizeRunIfDone`.

In `ScheduleReconcile` the fair actions are the restart of the container (`restart: unless-stopped`), the
steps of a started reconcile, the queue, the timer, and the second half of a web action. Edits and
failures are not, and their budget makes them stop, which `SelfHeals` needs.

## 4. What is proved

Every theorem holds for every value of the constants that the named assumptions allow: any number of
members, handlers, questions, messages, standups, people and issues, and any budget. TLC checks the same
properties on the instances of section 3.

### The day

`StandupDayProofs`, for every set of failing steps:

- `TypeCorrect`: `Spec => []TypeOK`. The part that is not bookkeeping says which job can be suspended
  at which await (`JobsAt`); every later proof uses it to know that the job in hand names a member.
- `DeadlinesAreGuarded`: `Spec => []DeadlineGuarded` if no step of `TimerStep` fails. The inductive
  invariant adds that a handler that works on a report that it read is about a member whose report
  exists (`HandlersHaveReports`), because a late write of answers must not be the one that creates an
  open report. Steps that leave the worker, the statuses and the timeout jobs alone are
  collected in one lemma (`Bystander`).

`StandupDayRunProofs`:

- `LastReportCloses`: `Spec => []LastReportFinalizes` if nobody asks for a restart (`Budget["keyword"] = 0`) and
  none of the steps fails that nobody repeats (`ClosingStep`: the finalization, the outro and the reply to
  an abort); the worker may fail or crash anywhere else, and so may the handlers. The run `day_stranded`
  shows what happens without the assumptions. The restart is a real exception: `retrigger` sets the
  run back to running in a step of its own, and a report that finishes between its two writes finds the run
  still completed and leaves it at that. The inductive invariant needs that nothing belonging to a run
  exists before it (`NothingBeforeRun`) and that there is no re-trigger anywhere (`NoRestarts`). Most steps
  are dispatched by `Unnoticed`: they change neither run nor reports and stop nobody on the way.
- `NobodyIsForgotten`: `Spec => []NoReporterForgotten` if nothing fails and nobody pauses the standup (a late
  join gives up on a paused one). The inductive invariant adds `RestartsHaveReports`, which says why a
  re-trigger may leave its own member out of the fan-out: by then that member has a report.
- `ForgettingTakesAFailure`: `ForgottenAccountedFor` holds without any assumption. The invariant above is
  proved here *as long as* the events at fault are unspent (`Untouched(es)`: their budget is still whole).
  After a step that spends one there is nothing left to show; a step that spares them (`Spares(es)`) is no
  failure (`FailuresAreSpent`), and the lemmas for the theorem above apply to it.

`StandupDayDeliveryProofs`, with failures at any step, crashes, pauses, restarts:

- `DayIsDelivered`: `Spec => DeliversTheDay`. Most steps change nothing that `DailyDelivery` speaks of
  (`UnseenStutters`); the twelve that write the run, a report, a question or a request are mapped one by one.
  The mapping needs three invariants: `NothingBeforeRun` (no question before the day), `QuestionFirst` (whoever
  has a report, or is about to get one, was asked; whoever finalizes has a report), and `RestartsAsked` (a
  re-trigger in the queue, in the worker's hands or on its way there was asked for by a member).
- `ExtraAsksArePaid`: `Spec => []ExtraAsksAccountedFor`. The inductive invariant `AsksCounted` weighs a
  member's asks, the re-triggers queued or on their way, and the one that the worker is about to send,
  against what was spent on failures, crashes and requests. A retried job is paid by the failure that
  put it back, and the first ask by the report that is not there yet.

### Reconciliation

`ScheduleReconcileProofs`:

- `TypeCorrect`, as above.
- `QuietIsSynced`: `Spec => []QuietMeansSynced`, for any budget. Every trouble costs something that nobody gets
  back (`TroubleCosts`), so an untroubled state has an untroubled past in which the worker was the only
  reconciler (`OnlyTheWorker`). The inductive invariant says of it that what the worker read is current or a
  further reconcile is due (`FreshUnlessAnnounced`), and that the standups where Redis differs from what was read are those on
  the two lists (`FixesTheRest`); a standup on both lists is why removals must come first.
- `RightSchedulersStay`: `Spec => NoChurn`, from the same invariant.

### The conversation

`DmConversationProofs`: all properties of the run. `ConversationInv` is a stack of layers, each under the
mishaps of its own property, and each proved with the help of the ones below it.

- `FiledAnswersStay`, `ReportsArePostedOnce`: while no two handlers have computed on one report and no restart
  came in between (`Calm`), a handler that is about to write has read the answers as they are
  (`WritersExtend`), and broadcasts and handlers that will broadcast are no more than the openings of
  the report (`PostsFollowOpenings`).
- `CompletedReportsAreWhole` needs that no edit came in between either (`Unedited`): the answers follow the
  questions one by one.
- `DmKeepsStep`: what is shown, or what the one handler that has still to post will show, is the question
  after the last answer (`InStep`).
- `AnswersStandUnderTheirQuestion`: with a patient member (`Patient`) there is one message, handler or question
  pending at any time (`OneAtATime`), which is why nothing can be raced or straddled.
- `MessagesAnswerOnce`: every message is in the inbox, with a handler, or among the answers, and in one of them
  only (`EachOnce`). This one allows handlers to overwrite each other.

### The channel

`ChannelBoardProofs`: the five properties of `channel_board`, from `BoardInv`, for any number of messages per
member and with every event of the budget at once.

- `CardsLinkToTheirPost`: `RowsHold` follows the timestamp from Slack's answer through the handler into the
  row, for each handler separately, so that it does not matter which one records last. The channel only grows
  and a footer changes in place (`ChannelKept`). A link on a card that is not completed is traced to
  `undone`; that a completed report gets its link is carried by `LinksFollow` while no call has failed.
- `ReportsArePostedOnce`: `PostsCounted` weighs the posts of a member's report, the handlers that have completed
  it and not posted yet, and the report itself while it is open, against `grounds`: every way to
  complete a report that is not open, to open it again, or to post without an answer adds one on both sides.
- `HeaderCountsReports`: the header and every count in a handler's hands are at most the number of reports
  that are completed or were undone, a set that only grows (`CountsLag`); while handlers take turns, the
  last one to count counts them all (`LastCountStands`). Counts are cardinalities of subsets of the members.
- `ConnectedAreNotAsked`: `ConnectedClean` speaks of a connected member's posts in every phase of the callback
  and of each of their handlers.

### The workspace

`WorkspaceProofs`: every property of the run. `WorkspaceInv` is a conjunction of
one invariant per module; a step of one module leaves the others' variables alone (`AccountsAside`,
`DirectoryAside`, `SearchAside`, `LinearAside`) and at most spends from the common budget.

- `AnAdminRemains`, `LoginsAdoptRows`, `LoginsKeepRank`: `Fresh(i)` says of each request that nothing has
  overtaken what it will write: the rows to adopt are the ones there are, the role is the one due, and an
  admin is taken down only beside another. `Committing` shows that whoever writes the table marks
  all the requests that had read it.
- `SyncsAreCurrent`: `Reading` and `Writing` say what is known of the pages that have been read and of the
  chunks that have been written. That the loop ends at the last page needs the greatest of a finite set of
  page numbers, which is proved from the well-foundedness of the naturals (`Least`, `MaxOf`, `Bounded`).
- `ResultsGoForward`, `SearchesSettle`: the one search that is not aborted is the last one sent (`Latest`), and
  while nothing is due it is for what has been typed (`Following`).
- `RowsAreNewest`: while the snapshots of an issue come in order, the webhooks that run for it carry the same
  one, which is at least the accepted one (`InOrder`).
- `DisconnectingHolds`: between the two statements of a disconnect no secret is left, and no other admin's
  request is between its own (`Disconnecting`).
- `ClosingsAreListed`: `Spec => []ClosingsAccountedFor` if no other id has the member's e-mail address. A post
  looks back to the report before it, so what it leaves out is listed if everything before *that* report is.
  `EarlierClosings` follows this chain down to the first report by taking the earliest completed report with
  an unlisted closing before it. The chain holds because completed reports are posted one at a time,
  and their windows stay as they are (`Retold`). The address matters for the page of unmatched people only; it
  asks for an address of the row, while the post asks for this member's.

### The clock

`StandupClockProofs`: every property of the run, for zones that are at most two days apart (those of the earth
are 26 hours apart) and any length of the day, the timeout and the run. The lemmas on `ScheduleMath`
come first: division by the day, the seven weekdays, least elements of sets of numbers (`Least`), the next tick as a
match of its pattern (`NextTickMatches`), the next run (`NextRunIsFirst`). `Steps` then says of every
action at once what it may do to a run, a report and a job (`RunMoved`, `ReportMoved`, `JobGone`, `JobCame`),
and the invariants below are proved from that summary and `Advance` alone.

- `TypeCorrect`: dates stay among those that the zones can reach, and a run is there before its reports are.
- `AskedInTime`: a job that is due waits only for a worker that is down (`JobsServed`). Sends and asks are
  placed by the member's clock or by hand (`SendsPlaced`, `AsksPlaced`), and who has not been asked has a send
  job that comes no later than the wake-up (`SendsKept`). The wake-up is a minimum over instants; `Waking`
  shows it to be the send instant that the code computes, or the opening of the run if that is later. It
  uses that a run's date is the one its schedule's clock showed at the opening (`RunsDated`).
- `ClocksAreKept`: an open report has a timeout job that comes no later than its deadline (`TimeoutsKept`), so a
  deadline that moves needs no second job; every reminder still to come has its job, and one that is past
  was given or lies before the last ask (`RemindersKept`).
- `PageIsHonest`: a worker without reconcile jobs has the row's pattern in its scheduler (`SchedulerFollows`),
  which skips no match (`NoTickSkipped`). Hence a tick that the row has stood for since the slot before, with the
  worker there for both slots, has opened its date (`TicksOpen`), and what the page misses is excused or
  lies behind the date of a later run. A run that is running waits for somebody (`RunsWait`).

### Assumptions

Each is named in the module of its constant and evaluated by TLC: `QuestionsAssumption`, `QuestionAssumption`
(at least one question), `TickAssumption` (`TickOf` maps schedules to ticks; the two null values are not
among them), `MaxJobsAssumption`, `MaxMessagesAssumption`, `BudgetAssumption` (budgets are
natural numbers), `AuthorAssumption` (every message has an author), `MemberAssumption` of `ChannelBoard` and `StandupClock` and `IdAssumption` (finitely many members and ids, which
counting needs), `EmailAssumption`, `PagesAssumption` and `ChunkAssumption` (pages are numbered from one, at
least one is read, chunks and limits are positive), `MatchesAssumption` (a query matches ids, and
the empty query is one), `TimesAssumption`, `ReporterAssumption`, `StartsAssumption` (the starts of `ChannelBoard` name members and messages, and nobody
connected has an older post of the bot; a workspace starts empty
or with an admin, and with a directory that is empty or current; a standup with a schedule), `DayAssumption`,
`OffsetAssumption` (zones are at most two days apart), `HomeAssumption`, `TimeAssumption` and
`WeeklyAssumption` (a schedule is saved with at least one day and a time of day, as the form demands).

### Only model-checked

The three liveness properties `EveryReporterServed`, `RunCloses` and `SelfHeals`: liveness under fairness is out
of this prover's reach. `RunCloses` and `EveryReporterServed` are checked for one handler.

## 5. Plan

The models are written. What is left, most important first:

1. Proofs: every safety property of a passing run is a theorem. Lemmas that still say something on their own:
   `CronFromWeekly` and `ParseWeekdays` are inverse on what the form saves; the schedules of `StandupClock` and
   of `ScheduleReconcile` are reconciled alike.
2. Two handlers at once in `StandupDay` with failures, if the states allow it.

## 6. What is not modelled

Rendering, styling, the landing and install pages, lists of runs and reports that are plain queries;
creating, renaming and deleting teams; avatars; the cipher; Slack's and Redis' own behaviour beyond what the
code relies on; daylight saving; deployment files, the Slack stub and the scripts. `PROJECT.json` names
for each component what is left out.
