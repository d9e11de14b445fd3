------------------------------ MODULE LinearFeed ------------------------------
(***************************************************************************)
(* The Linear integration: the webhook that stores snapshots of issues,    *)
(* the admin's connecting and disconnecting, the daily prune, and the use  *)
(* of the stored issues, as the list of those that a member has closed     *)
(* since their last standup under the report posted to the channel.  One   *)
(* member is followed through several days.  Linear delivers snapshots in  *)
(* any order and repeats those that were not accepted.                     *)
(***************************************************************************)
EXTENDS Directory, Sequences

CONSTANTS
    Issue,
    Secret,     \* signing secrets, one per webhook configured in Linear
    Reporter,   \* the assignee whose reports are followed
    Day,        \* the length of a day
    Retention   \* LINEAR_ACTIVITY_RETENTION_DAYS

ASSUME TimesAssumption == Day \in Nat \ {0} /\ Retention \in Nat
ASSUME ReporterAssumption == Reporter \in Id

VARIABLES
    now,
    issue,      \* issue[k]: Linear's issue: its version, when it was closed (0: open), assigned
    emitted,    \* the snapshots that Linear has sent or will send again
    setting,    \* integration_settings.enabled of "linear", "none" while there is no row
    secrets,    \* integration_secrets
    admin,      \* the second statements of admins' requests that are to come
    hooks,      \* the webhook requests that are running
    stored,     \* stored[k]: the linear_activity row, version 0 while there is none
    reports,    \* the member's reports, oldest first
    posting,    \* the broadcast under way: its report and the end of its window
    wish,       \* history: what the admins did last, "crossed" when two requests overlapped
    accepted,   \* history: accepted[k]: the newest version that has been stored
    reordered,  \* history: the issues whose snapshots have overtaken each other
    missed,     \* history: the closings that lay before the window of a broadcast
    windows     \* history: the windows that have been broadcast

connectionVars == <<setting, secrets, admin, hooks, wish>>
issueVars      == <<issue, emitted>>
storeVars      == <<stored, accepted, reordered>>
reportVars     == <<reports, posting, missed, windows>>
linearVars     == <<now, issueVars, connectionVars, storeVars, reportVars>>

NoRow     == [ver |-> 0, at |-> 0, received |-> 0]
NoPosting == [n |-> 0, to |-> 0]

LinearInit(start) ==
    /\ now = 1
    /\ issue = [k \in Issue |-> [ver |-> 0, at |-> 0, assigned |-> TRUE]]
    /\ emitted = {}
    /\ setting = IF start.linear THEN "on" ELSE "none"
    /\ IF start.linear THEN \E s \in Secret : secrets = {s} ELSE secrets = {}
    /\ wish = IF start.linear THEN "connected" ELSE "none"
    /\ admin = {} /\ hooks = {}
    /\ stored = [k \in Issue |-> NoRow]
    /\ reports = <<>> /\ posting = NoPosting
    /\ accepted = [k \in Issue |-> 0]
    /\ reordered = {} /\ missed = {} /\ windows = {}

Tick ==
    /\ Spend("tick")
    /\ now' = now + 1
    /\ UNCHANGED <<issueVars, connectionVars, storeVars, reportVars>>

-----------------------------------------------------------------------------
(* Linear: an issue is closed, reopened, assigned or unassigned. *)

ChangeIssue(k) ==
    /\ Spend("issue")
    /\ \E at \in {0, now}, assigned \in BOOLEAN :
          /\ <<at, assigned>> # <<issue[k].at, issue[k].assigned>>
          /\ issue' = [issue EXCEPT ![k] = [ver |-> @.ver + 1, at |-> at, assigned |-> assigned]]
          /\ emitted' = emitted \cup {[k |-> k, ver |-> issue[k].ver + 1, at |-> at, assigned |-> assigned]}
    /\ UNCHANGED <<now, connectionVars, storeVars, reportVars>>

(* A snapshot reaches the webhook, maybe again; the setting is read. *)
Deliver(e, s) ==
    /\ Spend("deliver")
    /\ hooks' = hooks \cup {[e |-> e, s |-> s, off |-> setting = "off", pc |-> "verify"]}
    /\ reordered' = IF accepted[e.k] > e.ver \/ (\E h \in hooks : h.e.k = e.k /\ h.e.ver # e.ver)
                    THEN reordered \cup {e.k} ELSE reordered
    /\ UNCHANGED <<now, issueVars, setting, secrets, admin, wish, stored, accepted, reportVars>>

Go(h, pc) == hooks' = (hooks \ {h}) \cup {[h EXCEPT !.pc = pc]}
Respond(h) == hooks' = hooks \ {h}
Accept(h) == accepted' = [accepted EXCEPT ![h.e.k] = Max({@, h.e.ver})]

(* verifyLinearSignature, with each of the secrets. *)
Signed(h) == h.s \in secrets

(* parseLinearIssueEvent: snapshots of unassigned issues are skipped. *)
Skipped(h) == ~h.e.assigned

(* Without a secret that has signed it an event is rejected. *)
VerifySignature(h) ==
    /\ h.pc = "verify"
    /\ IF Signed(h) THEN Go(h, "record") ELSE Respond(h)
    /\ UNCHANGED <<now, issueVars, setting, secrets, admin, wish, storeVars, reportVars, left>>

(* recordIntegrationEvent: a row is created, and then it is enabled. *)
Touched(enabled) == IF enabled = "none" THEN "on" ELSE enabled

\* Faulty variant: recording an event switches the integration on.
RecordAndEnable(h) ==
    /\ h.pc = "record"
    /\ setting' = "on"
    /\ IF h.off \/ Skipped(h) THEN Respond(h) ELSE Go(h, "store")
    /\ UNCHANGED <<now, issueVars, secrets, admin, wish, storeVars, reportVars, left>>

(* The event is recorded; then the setting read at the start decides.      *)
RecordEvent(h) ==
    /\ h.pc = "record"
    /\ setting' = Touched(setting)
    /\ IF h.off \/ Skipped(h) THEN Respond(h) ELSE Go(h, "store")
    /\ UNCHANGED <<now, issueVars, secrets, admin, wish, storeVars, reportVars, left>>

\* Faulty variant: the first snapshot is kept.
StoreFirst(h) ==
    /\ h.pc = "store"
    /\ IF stored[h.e.k].ver # 0 THEN UNCHANGED stored
       ELSE stored' = [stored EXCEPT ![h.e.k] = [ver |-> h.e.ver, at |-> h.e.at, received |-> now]]
    /\ Accept(h)
    /\ Respond(h)
    /\ UNCHANGED <<now, issueVars, setting, secrets, admin, wish, reordered, reportVars, left>>

(* upsertLinearActivity: the last one written stays. *)
StoreSnapshot(h) ==
    /\ h.pc = "store"
    /\ stored' = [stored EXCEPT ![h.e.k] = [ver |-> h.e.ver, at |-> h.e.at, received |-> now]]
    /\ Accept(h)
    /\ Respond(h)
    /\ UNCHANGED <<now, issueVars, setting, secrets, admin, wish, reordered, reportVars, left>>

HookFails(h) ==
    /\ Respond(h)
    /\ UNCHANGED <<now, issueVars, setting, secrets, admin, wish, storeVars, reportVars, left>>

(* pruneLinear, daily: what was received before the retention window. *)
Expired(k) == stored[k].ver # 0 /\ stored[k].received + Retention * Day < now

Prune ==
    /\ \E k \in Issue : Expired(k)
    /\ stored' = [k \in Issue |-> IF Expired(k) THEN NoRow ELSE stored[k]]
    /\ UNCHANGED <<now, issueVars, connectionVars, accepted, reordered, reportVars, left>>

-----------------------------------------------------------------------------
(* The Integrations page: each action is two statements. *)

Begin(second) ==
    /\ Spend("admin")
    /\ second \notin admin
    /\ admin' = admin \cup {second}
    /\ wish' = IF admin = {} THEN "none" ELSE "crossed"

End(second, did) ==
    /\ second \in admin
    /\ admin' = admin \ {second}
    /\ wish' = IF wish = "crossed" THEN wish ELSE did

AddSecret(s) ==
    /\ Begin("enable")
    /\ secrets' = secrets \cup {s}
    /\ UNCHANGED <<now, issueVars, setting, hooks, storeVars, reportVars>>

EnableLinear ==
    /\ End("enable", "connected")
    /\ setting' = "on"
    /\ UNCHANGED <<now, issueVars, secrets, hooks, storeVars, reportVars, left>>

RemoveSecret(s) ==
    /\ Spend("admin")
    /\ s \in secrets
    /\ secrets' = secrets \ {s}
    /\ UNCHANGED <<now, issueVars, setting, admin, hooks, wish, storeVars, reportVars>>

\* disconnectLinearAction: first the secrets, then the setting.
RemoveAllSecrets ==
    /\ Begin("disable")
    /\ secrets' = {}
    /\ UNCHANGED <<now, issueVars, setting, hooks, storeVars, reportVars>>

DisableLinear ==
    /\ End("disable", "disconnected")
    /\ setting' = "off"
    /\ UNCHANGED <<now, issueVars, secrets, hooks, storeVars, reportVars, left>>

-----------------------------------------------------------------------------
(* The member's reports.  reported_at is the time of the insert until the  *)
(* report is completed; a restart sets it to null.                         *)

Null == 0

OpenReport ==
    /\ Spend("day")
    /\ \A n \in DOMAIN reports : reports[n].made \div Day < now \div Day
    /\ reports' = Append(reports, [made |-> now, at |-> now, status |-> "in_progress"])
    /\ UNCHANGED <<now, issueVars, connectionVars, storeVars, posting, missed, windows>>

TimeOutReport(n) ==
    /\ reports[n].status = "in_progress"
    /\ Spend("report")
    /\ reports' = [reports EXCEPT ![n].status = "timed_out"]
    /\ UNCHANGED <<now, issueVars, connectionVars, storeVars, posting, missed, windows>>

RestartReport(n) ==
    /\ n = Len(reports) /\ reports[n].status = "timed_out"
    /\ reports[n].made \div Day = now \div Day
    /\ reports' = [reports EXCEPT ![n].status = "in_progress", ![n].at = Null]
    /\ UNCHANGED <<now, issueVars, connectionVars, storeVars, posting, missed, windows, left>>

(* The member's messages go to the latest open report.  The handler that   *)
(* completes it broadcasts with the reported_at that it has read before.   *)
CompleteReport(n) ==
    /\ reports[n].status = "in_progress"
    /\ \A j \in DOMAIN reports : j > n => reports[j].status # "in_progress"
    /\ posting = NoPosting
    /\ reports' = [reports EXCEPT ![n].status = "completed", ![n].at = now]
    /\ posting' = [n |-> n, to |-> reports[n].at]
    /\ UNCHANGED <<now, issueVars, connectionVars, storeVars, missed, windows, left>>

\* Faulty variant: any earlier report counts, completed or not.
LastReportOfAnyKind(before) ==
    Max({0} \cup {reports[j].at : j \in {j \in DOMAIN reports : reports[j].at < before}})

LastReportDateBefore(before) ==
    Max({0} \cup {reports[j].at : j \in {j \in DOMAIN reports :
                     reports[j].status = "completed" /\ reports[j].at < before}})

Minus(t, d) == IF t > d THEN t - d ELSE 0

WindowStart(made, to) ==
    IF LastReportDateBefore(made) # 0 THEN LastReportDateBefore(made) ELSE Minus(to, Day)

(* resolveMemberEmail: the directory first, the web app's users then. *)
EmailKnown == EmailOf[Reporter] # NoEmail /\ (dir[Reporter] # "none" \/ Reporter \in Rows)

(* The page of unmatched people: the stored issues of an address that is   *)
(* in neither table, under whatever id.                                    *)
Unmatched ==
    {k \in Issue : /\ stored[k].ver # 0
                   /\ ~\E i \in Id : /\ EmailOf[i] # NoEmail /\ EmailOf[i] = EmailOf[Reporter]
                                     /\ dir[i] # "none" \/ i \in Rows}

ClosedIn(from, to) == {k \in Issue : stored[k].at # 0 /\ from <= stored[k].at /\ stored[k].at < to}

Window ==
    LET to == IF posting.to = Null THEN now ELSE posting.to
    IN  [from |-> WindowStart(reports[posting.n].made, to), to |-> to, n |-> posting.n]

(* The report page lists under a completed report what was closed up to    *)
(* its completion, the reported_at that the row has by then.               *)
CardWindow(n) == [from |-> WindowStart(reports[n].made, reports[n].at), to |-> reports[n].at]

(* The broadcast lists the issues closed in its window, none when the      *)
(* address is unknown.                                                     *)
PostToChannel ==
    /\ posting # NoPosting
    /\ windows' = windows \cup {Window}
    /\ missed' = IF EmailKnown
                 THEN missed \cup {stored[k].at : k \in ClosedIn(0, Window.from)}
                 ELSE missed
    /\ posting' = NoPosting
    /\ UNCHANGED <<now, issueVars, connectionVars, storeVars, reports, left>>

(* The lookup or the whole broadcast fails; nothing tries again. *)
PostFails ==
    /\ posting # NoPosting
    /\ Spend("report")
    /\ windows' = windows \cup {Window}
    /\ posting' = NoPosting
    /\ UNCHANGED <<now, issueVars, connectionVars, storeVars, reports, missed>>

LinearNext ==
    \/ Tick \/ Prune
    \/ \E k \in Issue : ChangeIssue(k)
    \/ \E e \in emitted, s \in Secret : Deliver(e, s)
    \/ \E h \in hooks : VerifySignature(h) \/ RecordEvent(h) \/ StoreSnapshot(h) \/ HookFails(h)
    \/ \E s \in Secret : AddSecret(s) \/ RemoveSecret(s)
    \/ EnableLinear \/ RemoveAllSecrets \/ DisableLinear
    \/ OpenReport
    \/ \E n \in DOMAIN reports : TimeOutReport(n) \/ RestartReport(n) \/ CompleteReport(n)
    \/ PostToChannel \/ PostFails

-----------------------------------------------------------------------------
Snapshot == [k : Issue, ver : Nat, at : Nat, assigned : BOOLEAN]
Hook     == [e : Snapshot, s : Secret, off : BOOLEAN, pc : {"verify", "record", "store"}]
Report   == [made : Nat, at : Nat, status : {"in_progress", "timed_out", "completed"}]

(* A snapshot is never ahead of its issue nor a time ahead of the clock,   *)
(* and what has been posted are windows of reports that there are.         *)
LinearTypeOK ==
    /\ now \in Nat
    /\ issue \in [Issue -> [ver : Nat, at : Nat, assigned : BOOLEAN]]
    /\ emitted \subseteq Snapshot /\ \A e \in emitted : e.ver <= issue[e.k].ver /\ e.at <= now
    /\ setting \in {"none", "on", "off"} /\ secrets \subseteq Secret
    /\ admin \subseteq {"enable", "disable"}
    /\ wish \in {"none", "connected", "disconnected", "crossed"}
    /\ hooks \subseteq Hook /\ \A h \in hooks : h.e \in emitted
    /\ stored \in [Issue -> [ver : Nat, at : Nat, received : Nat]]
    /\ \A k \in Issue : stored[k].ver <= issue[k].ver /\ stored[k].at <= now
    /\ accepted \in [Issue -> Nat] /\ reordered \subseteq Issue
    /\ reports \in Seq(Report)
    /\ \A n \in DOMAIN reports : reports[n].at \in {Null} \cup (reports[n].made)..now
    /\ posting \in [n : Nat, to : Nat] /\ posting.n \in 0..Len(reports)
    /\ posting.n = 0 => posting = NoPosting
    /\ missed \subseteq Nat
    /\ \A w \in windows : w.from \in Nat /\ w.to \in Nat /\ w.n \in 1..Len(reports)

(* handleMessage.ts:144-151, reports.ts:92-99: an issue closed before the  *)
(* window of a report's post had its turn in an earlier post (which it may *)
(* have reached the webhook too late for), or on the page of a report it   *)
(* was closed after the question of, or it is older than the first report  *)
(* looks back.  What no post can list because its assignee's address is    *)
(* unknown is on the page of unmatched people (integrations.ts:174-190).   *)
ClosingsAccountedFor ==
    /\ \A at \in missed : \E w \in windows :
          LET card == CardWindow(w.n)
          IN  \/ w.from <= at /\ at < w.to
              \/ card.from <= at /\ at < card.to
              \/ at < Max({w.from, card.from}) /\ LastReportDateBefore(reports[w.n].made) = 0
    /\ ~EmailKnown => {k \in Issue : stored[k].at # 0} \subseteq Unmatched

(* integrations.ts:104-125: the row of an issue holds the newest snapshot  *)
(* that was accepted, unless snapshots of the issue overtook each other on *)
(* their way or inside the webhook (issue_updated_at is not compared).     *)
RowIsNewest ==
    \A k \in Issue \ reordered : stored[k].ver \in {0, accepted[k]}

(* integrations page.tsx:73-80: once an admin has disconnected Linear, no  *)
(* webhook that is still running switches it on again, and no secret is    *)
(* left; a crossing addition of a secret is the exception.                 *)
DisconnectHolds ==
    wish = "disconnected" => setting = "off" /\ secrets = {}
=============================================================================
