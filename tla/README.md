# DeskApp: a TLA+ model

DeskApp is a LAN desktop application. A *Central Server* (one asyncio process over one SQLite
file) keeps projects, tasks, progress logs, task proposals, date change requests and COO
alerts; the PCs of Heads, Admins, the COO and the Super Admin talk to it over WebSockets. A
Head may work offline: what he submits goes through a persistent outbox on his PC.

This directory holds TLA+ modules of the parts whose correctness depends on the order of
events, TLC configurations that check them on small instances, and proofs that TLAPS checks
for every instance. Commands, from this directory: `tlc -workers 2 -config MCOutbox.cfg
MCOutbox` (the pairs of configuration and module are in `PROJECT.json`), `tlapm
OutboxProofs.tla`.

## 1. Inventory

| Component (source) | State | Operations | What is hard | What makes it correct |
|---|---|---|---|---|
| Outbox of the Head's PC (`services/sync_service.py`, `ClientQueueDBManager`) | rows of `client_queue.db` (PENDING, FAILED), `_flush_lock`, `_retry_task` | submit, flush, retry, discard, periodic retry | crash and restart, a reply lost or late, a flush requested while another runs | stored exactly once, in order, nothing lost, nothing stuck |
| Connection and session loop (`network/client.py`) | socket, token, `_pending` futures, export chunks | login, reconnect with RESUME, request, export, logout | drops, timeouts, messages left over on an old connection | at most one reply per request; the session ends only when it must |
| Server dispatch (`network/server.py`) | `sessions`, login lockout | one handler per action, broadcasts | handlers interleave at every `await`; the session copy lags the account | each action decides on what holds when it writes |
| Projects, tasks, accounts (`database/db_manager.py`) | tables `projects`, `tasks`, `users`, `disciplines` | add, update, hide, delete; update_user | several Admins with stale screens; soft deletion; task numbers | rows never vanish, IDs are never reused, dates ordered; all lists of a Head's tasks agree |
| Progress logs (same) | table `progress_logs` | submit | resends, late offline logs, two Heads on a task | stored once; New Task first and only first; revisions R1, R2, ... |
| Proposals and date changes (same) | `task_proposals`, `task_date_change_requests` | create, approve, reject | two Admins decide at once; resends; three database calls in a handler | a decision is final; one task per approved proposal |
| COO alerts (same, `ui/head_workspace.py`) | `priority_notifications`, open modals | create, push, snapshot, answer | push and snapshot both open the modal; offline answer; two PCs | one answer stands; asked until answered, and then no more |
| Sessions, passwords, accounts (same, `core/auth.py`) | `user_sessions`, `sessions` | login, resume, logout, reset, revoke | read of the account and binding of the session are apart | a live session never outlives a reset; one Super Admin remains |
| Backups and restore (`services/maintenance.py`) | backup files, the day's slot | scheduled backup, retention, restore | failure, clock changes, crash | a backup a day, the newest kept, restore is all or nothing |
| Migrations (`db_manager.py`) | `user_version` | ordered steps | crash between steps | each step takes effect once |
| Live views (`ui/components.py`, workspaces) | cached rows, collected scopes | DATA_CHANGED, debounce, reload | changes during a reload | a view catches up with the last change and never goes back |
| Export transfer (`server.py`, `client.py`) | chunks | export request | drops, timeouts | the bytes received are the bytes sent |
| Analytics, timeline, reports (`db_manager.py`, `excel_service.py`) | none | read-only queries | four queries, each with its own joins and conditions | they agree about every task |
| Start, windows (`main.py`, `login_dialog.py`) | windows | start, restore, emergency reset, login, close | modal dialogs run the event loop | nothing missed between login and workspace |
| Styles, painting, configuration | none | | | |

Interactions. A Head's workspace calls `SyncService.submit`; the outbox sends through the
client; the server's handler reads one message at a time per connection and runs each database
call in one worker thread, so a call is atomic and a handler of several calls is not. Admins
change, through the same worker, what Heads submit about. The server pushes events back: most
only make the workspaces reload, those about alerts open the Head's dialog and fill the COO's
list. The scheduler's backups run on the same worker; a restore and the emergency reset run as
processes of their own while the server is down.

## 2. Modules

```
OutboxPromise          Registry (projects, tasks, accounts)     Extrema (lemmas on Min, Max)
     ^ implements          ^ EXTENDS        ^ EXTENDS
  Outbox              ProgressLogs       Approvals
     ^                 ^        ^            ^
OutboxProofs  ProgressLogsProofs Reports  ApprovalsProofs   (proofs EXTEND RegistryProofs)

  Sessions      Migrations     LiveViews (windows, connections, reloads)
     ^              ^ EXTENDS      ^ EXTENDS
SessionsProofs   Backups         Alerts
                    ^              ^
               BackupsProofs   AlertsProofs (of LiveViews and Alerts)
```

Each component that TLC checks has an `MC...` module with its instances (`Reports` in
`MCProgressLogs`, `Registry` with the modules that extend it, `Alerts` in `MCDesk`).

**`Outbox`** is the Head's outbox, his connection and the server end of the four queued
actions. Items are rows of `client_queue.db` by `queue_id`; `status` is the row's status, with
"synced" and "discarded" for a row that is deleted. `flush`, `batch` and `reply` are the
coroutine that holds `_flush_lock`: where it is, the rest of its snapshot, and the reply that
arrived. `wake` is a `flush_offline_queue` scheduled and not started. `wire[c]` holds the
messages of connection `c` that the server has not read; those of a dropped connection may
still be read or be lost. `copies` counts the rows the server's tables hold for an item, so a
lost idempotency check shows as a second copy. One action per step between two awaits:
`Submit`, `Retry`, `Discard`, `FlushStart`, `PeriodicRetry`, `FlushSend`, `ReplyOk`,
`ReplyRefused`, `ReplyError`, `Timeout`; `Drop`, `Reconnect`, `EndSession` (logout, expired
session, or the program ends at any point), `Login`, `LoginWithPasswordChange`; the server's
`ServerRefuse`, `ServerStore`, `ServerError`, `LoseWire`; and `ChangeTarget`, `ChangeRole`,
what others do to an item's task or alert and to the account. The reply of the server reaches
the flush only if it still waits for that very request (`Awaited`, by `msg_id` in the code).

**`OutboxPromise`** is what the outbox promises with no mention of connections: a submission
is new, held, saved, or dropped after a refusal, and saved in the order submitted unless
refused. `Outbox` implements it through `fate` (`KeepsPromise`).

**`Registry`** has the rows of projects and tasks (hidden and soft-deleted ones included), the
discipline of each Head's account, and `session`, the copy the server's sessions carry, which
`RefreshSession` brings up to date a step after `UpdateHead`. One action per call, parameters
from small sets: any task ID the Admin types, any dates or none
(`NewDates`, the defaults counted from the day the clock shows), the state a stale screen showed.

**`ProgressLogs`** adds `logs`, the rows of `progress_logs` in the order stored, and
`SubmitLog`: any log, any number of times, at any moment. The role is checked on the session,
discipline and assignment on the account (`FitsHead`), as in the code.

**`Approvals`** adds proposals, date change requests and `checking`, the
REQUEST_TASK_DATE_CHANGE messages between two of their three database calls. `origin` is a
history variable: what made each task.

**`Reports`** extends `ProgressLogs` with four queries as operators, each with the conditions
of its SQL or Python: the dashboard (`get_analytics_data`), the timelines
(`get_project_timeline_data`), the task rows of an Excel report (`build_task_rows`,
`tasks_in_scope`) and a Head's list (`_head_tasks`). The stage of a log is a function of its ID,
and the properties quantify over all such functions.

**`Sessions`** is the server's side of logging in, passwords and accounts. A handler is a
coroutine, one per connection. `work` is the queue of the single worker thread, `done` the queue
of the event loop. Every action is one of three kinds: a message arrives and its handler runs to
its first await (`Login`, `Resume`, `Logout`, `ChangePassword`, `Manage`); the worker executes
the oldest call, an atomic transaction (`Authenticate`, `CreateSession`, `ResolveSession`,
`DeleteSession`, `ChangeStored`, `DeleteOtherSessions`, `CreateUser`, `UpdateUser`, `GetUser`,
`ResetPassword`); the event loop resumes the oldest handler (`Authenticated` ... `RevokeNext`),
or a connection ends (`Disconnect`). `handler[c]` has the coroutine's locals, as the row it read
and whether the Session object it captured is still the connection's (`held`). Passwords are
either the owner's or given (the user ID, a one-time password), which is what
`must_change_password` says.

**`Migrations`** has what a database holds and the steps of `_migrate` as a table: which versions
need a step, what its transaction adds, which version it leaves. **`Backups`** puts it to work:
one process at a time has the file (`proc`), the server starting step by step, `--restore`, or
`--reset-superadmin`, and `Stop` ends it between any two steps. `sched` is
`BackupScheduler.run`: `FirstBackup` or `CopiedToday`, `Started`, then in each round of its loop
`DailyBackup` or `Sleep`. The backup time is a setting that each reading finds at any value
(`\E slot \in Times` where `_slot` is called), so the Super Admin, or a restored database, may move
it between two rounds or while a backup runs; `sched.read` and `sched.slot` are the clock and the
time of the last round. `BackupDone` and `BackupFailed` are the ends of `backup_database`, retention
included.
A restore is `RestoreBegin`, `SaveCurrent` or `SaveFails`, `Overwrite`, `CopyPart`, `CopyRest`,
since `copy2` truncates and then fills the live file.

**`LiveViews`** has the windows. The rows of a table are a version. A change commits
(`Change`, `Store`) and leaves its handler a list of broadcasts (`Announced`, per action of the
server), sent one by one (`Announce`) while other handlers run. A window takes what its
connection delivers (`Take`), asks again for what the scopes concern (`Wanted`), at once or when
its `ChangeDebouncer` fires (`Fire`), and the server reads the tables of a request one call after
the other (`Read`). `Taken` says in which order messages are shown: events and the outbox's
replies may overtake replies, which take one more turn of the event loop (`deliver`). `Fail`,
`Drop`, `Resume`, `Restart` are the faults.

**`Alerts`** extends it with alerts: `Notify`, `Create`, `SendAnswer`, `Respond`, the messages a
window takes about them, the Head's `Answer`, and `box`, the answers in the outbox of each PC,
which `Outbox` models in full. Two history variables: `said`, what each PC answered last, and
`overtaken`, for each window the alerts whose confirmation or event it handled before a message that
has that very alert as pending (`ShowsPending`) and had left the server earlier. An alert leaves
`overtaken` when it is answered again, when the window is opened anew, and with the next reload
after which no trace of the overtaken message is left.

Dates are numbers: the code compares `YYYY-MM-DD` strings, whose order is the calendar's. The day
the server's clock shows is any day at each reading. Names, notes and texts are left out: no
property depends on them; stages are in `Reports` only. A call the code rejects changes nothing and
is no step.

## 3. What the runs check

| Run | Checks | Bounds |
|---|---|---|
| `outbox` | `ExactlyOnce`, `InOrder`, `FailedWasRefused`, `IInv`, `KeepsPromise`, `RetryDrains` | 2 items (a date change request and a log), 3 connections, 2 faults, 2 changes by others |
| `outbox_forced` | `PendingDrains` is violated | 2 items, 1 connection, no fault |
| `outbox_failed` | `FailedNotStored` is violated | 2 items, 1 fault, 1 change |
| `logs` | `LogsTypeOK`, `StoredOnce`, `FirstEntryIsNew`, `RevisionsSequential`, `LogsBelong`, `HistoryKept`, `ScreensAgree`, `HeadsSeeTheirTasks` | 1 project, 2 Heads, 2 disciplines, 2 dates, 2 tasks, 3 logs, in slices |
| `approvals` | `ApprovalsTypeOK`, `TaskOrigins`, `RequestsRefer`, `DecisionsFinal`, `SoftDelete` | 1 project, 2 tasks, 2 proposals, 1 request handled twice at a time |
| `end_only` | `DatesOrdered` is violated | 1 proposal, 2 days |
| `sessions` | `SessionsTypeOK`, `SessionFresh`, `OldTokensDie`, `SuperAdminRemains` | 2 accounts in 4 tables, 2 connections, 2 logins, 2 requests of managers |
| `backups` | `BackupsTypeOK`, `ServesOnlyMigrated`, `OnceConverted`, `Undoable`, `Daily`, `GoodCopyRemains` | 4 ticks (2 days), 2 backup times, 2 backups, 2 restores, keep 1 or 2, 3 databases found and none |
| `backups_restore` | `RestoreWorks` is violated | 3 ticks |
| `desk` | `AlertsTypeOK`, `StaleIsOnItsWay`, `PendingShown`, `ConfirmedStands`, `AskedOnce`, `TrackerFollows`, `NeverBackwards` | 15 scenes of 1 to 3 windows, up to 2 changes, 1 alert, up to 2 faults |
| `asked_again` | `OneModal` is violated | the COO and a Head, 1 alert, 1 change, no fault |
| `tracker_stale` | `RowsFollow` is violated | the same |

Why the bounds are enough. Order and duplication concern a pair of items: two items, a lost reply,
its resend on another connection and the old copy served late need three connections and two
faults, and a refusal in between needs a change. There is one connection more than faults can end,
as a bound on connections must not be what strands an item of `RetryDrains`. Revision numbers need
two revisions after a first entry, and a second task to show that they are counted per task.
`Slice` cuts the product of that with disciplines and dates: either two tasks and three logs in one
discipline on one date, or one task and two logs where the disciplines of both accounts and of the
task differ and change, or where the task's dates do. Each hazard of `logs` lies within one slice;
all of it together, and larger instances, are covered by the proofs. For the approvals two
proposals compete for the next task ID while an Admin adds tasks, and one request is handled on two
connections at once.

What `sessions` is about happens between two connections: one that binds a session and one that
changes the account under it; two logins give a token from before a reset and one from after. For
`backups` a day has two ticks and the backup time is one of them, so it may be ahead, due, or moved
across now in either direction; two days show that the second day's slot is not taken as done, two
backups with one kept show retention, two restores show a restore of what an earlier one left. The
databases found are of the first release, of one with soft deletion whose log times are still UTC,
and of one that lacks only the last step. In `desk` a scene picks panels and kinds of changes:
every panel, every kind of change, a window that is just opening, and the COO with a Head on one or
two PCs. Two changes are what it takes for reloads to cross, and a fault may hit any step of any of
them.

Deadlock is not checked (`CHECK_DEADLOCK FALSE`): with every bound used up and nothing
waiting, the system may really stop.

Fairness (`FairSpec`, in `outbox` for `RetryDrains` and in `outbox_forced`): weak fairness of the
steps the event loop owes, a scheduled flush, its next request, the handling of a reply; of the
30-second timer; of reconnecting, which the session loop tries for ever with a bounded back-off;
and of the server reading each open connection. Nothing obliges the Head, the Admins or a fault.
Each action is either continuously enabled until taken or no longer needed, so weak fairness is all
it takes.

### Where the code and its documents disagree

1. *"These items were not saved"* (`outbox_failed`). `server.py:437` checks that the task is
   visible before `db_manager.py:1352` looks for the stored request. After a lost reply and a
   hidden task, the resend is refused and the stored request is listed as not saved.
2. *"retried automatically every 30 seconds"* (`outbox_forced`). The modal password dialog lets
   the "connected" signal pass before `SyncService` listens, so `_periodic_retry` does not run
   in that session until it reconnects. An item submitted while a flush is in its last request
   then waits.
3. *"start before end"* (`end_only`). A proposal with only an end date, approved after that day,
   becomes a task that ends before it starts. The application's own dialog sends both dates.
4. *"If it keeps failing, restore the latest backup"* (`backups_restore`). A restore interrupted
   while copying leaves a truncated database, which stops the server's start. The next restore
   fails on its safety copy of that file (`maintenance.py:77` raises `sqlite3.DatabaseError`,
   `main.py:77` expects `OSError` and `ValueError`) until the file is removed by hand.
5. *"A COO alert opens one modal, even across refreshes and reconnects"* (`asked_again`). A reply is
   shown one turn of the event loop after it arrived (`client.py:42`). A snapshot read while the
   alert was pending and the confirmation of its answer may arrive together: the outbox item is gone
   when the snapshot is shown, and the dialog opens again.
6. *"updates rows in place"* (`tracker_stale`). In the same way a reply with PENDING is shown after
   the event of the answer, and the COO's row stays at PENDING until his next reload.

`AskedOnce` and `TrackerFollows` say that 5 and 6 happen in no other way: each excuses one alert in
one window, and only if that alert's own confirmation or event was handled before an older message
that has it as pending.

## 4. What is proved

For every value of the constants, from the assumptions `OutboxConstants`, `RegistryConstants`,
`ApprovalsConstants`, `SessionsConstants`, `BackupsConstants`, `StagesAreListed` (the stages are
finitely many) and `DeskConstants` (a scene gives each window a panel or nothing) only:

* `OutboxProofs`: `IInv` is inductive; type correctness, `ExactlyOnce`, `InOrder`,
  `FailedWasRefused`; and the outbox implements `OutboxPromise` (`OutboxKeepsPromise`).
* `RegistryProofs`: types and foreign keys, and `SoftDelete` under every call of the Admins.
* `ProgressLogsProofs`: `LogsIInv` is inductive, hence `LogsTypeOK`, `StoredOnce`, `FirstEntryIsNew`,
  `RevisionsSequential`, `LogsBelong`; and `HistoryKept`. Of the queries of `Reports`:
  `ScreensAgree`, given what the logs and the registry keep, and `HeadsSeeTheirTasks`.
* `ApprovalsProofs`: `ApprovalsIInv` is inductive, hence `TaskOrigins` and `RequestsRefer`;
  `DecisionsFinal`; and `SoftDelete` for the calls of the Admins and the approvals together.
* `SessionsProofs`: `SessionsIInv` is inductive, hence all four properties of `sessions`.
* `BackupsProofs`: `BackupsIInv` is inductive, hence all six properties of `backups`.
* `AlertsProofs`, for any number of windows, panels, alerts, changes and faults: `Desk` and
  `Answering` are inductive, hence `AlertsTypeOK` and `ConfirmedStands`; with `Once`,
  `NoneMissed` and `AllFollow`, each inductive on top of them, `AskedOnce`, `PendingShown` and
  `TrackerFollows`; with `AllOrdered`, `NeverBackwards`; and with `AllCatchUp` on top of that,
  `StaleIsOnItsWay`.

The argument for the outbox. `InOrder` is not inductive: what the server will store depends on
what is on the way, and that on what the flush has in hand. `IInv` ties them together. A flush
runs exactly while its snapshot has items, all PENDING (`FlushShape`). A PENDING item that the
snapshot lacks and that is older than one it has was refused once, because it came back by a Retry
(`SnapshotComplete`). So whatever is sent has nothing older left behind (`SentInOrder`), on every
connection, also the dropped ones, and stays so since copies and refusals are never taken back
(`ClearedStays`). The reply in hand tells what the server did with the current item (`Awaiting`).
The refinement follows: a step of the server saves or refuses an item that nothing older holds
back; every other step submits, discards a refused item, or stutters.

The argument for the logs: the number `_next_revision` gives exceeds all revisions of the task,
and the numbers below it are all in use (`NextRevisionIsNext`), which together with `TypeFits`
extends each property by one row; the registry's calls leave logs alone and never remove or move a
task (`SoftDeleteHolds`).

The argument for the approvals: a proposal still PENDING names no task, so the task an approval
makes, at an ID that was free (`NextTaskIdIsFree`), is its first; no other step gives a task an
origin, and no task is ever removed or moved to another project (`SoftDeleteHolds`).

The argument for the sessions. `SessionFresh` is not inductive: a login or RESUME that read the
account before an update binds what it read. What saves it is that both queues are first in, first
out. `Following` says so: whoever holds a row that is no longer the account's has, behind him in a
queue, the `update_user` or `get_user` that will put right what he binds. `Doomed` is the same for
tokens: a handler about to bind a token from before a reset has that reset behind him in `done`,
which will find the session and revoke it. `Held` and `Issued` tie the handlers' locals to tokens
and accounts. The mutant that lets the worker run calls in any order breaks it.

The argument for the database. A content is `Sound` when it has all that its version stands for
and its log times are in its version's clock; every earlier release's database is, every migration
takes sound to sound, and whatever is copied or restored was. `Midway` relates the version read at
the start, which the code does not read again, to what the steps so far have left. `Saved` says
that nothing writes the database between safety copy and overwriting. `Scheduled` carries the day:
a day the scheduler takes as done has a backup begun at or after the time set then, or the server
was started after it, with a copy of that day or one that was being made when the day began. A
complete copy remains because only a completed backup prunes, after adding a complete copy that is
the last by name, which `Numbered` gives.

The argument for the queries: the tasks of a dashboard and of a timeline are the same set; the
logs of a task are all of its project (`LogsBelong`), so a query by project and one by task find
the same newest log (`TimelineHasAllLogs`); every task has exactly one stage of a finite list, so
the counts by stage add up to the tasks (`SizesAddUp`, by choosing a smallest set it fails for);
and as the revisions of a task are numbered without gaps, the highest number is how many there are
(`RevisionsAreAsManyAsNumbered`). `HeadsSeeTheirTasks` compares three conditions that the code
states in three places and needs no induction.

The argument for the alerts. `Desk` says which requests and messages a window may have: only a
window that is up has requests and replies, and a reply has all that was read for it. `Answering`
says that of an answer in a PC's outbox there is at most one request or acknowledgement under way,
and that what the PC said stands until it is acknowledged. `Once` follows the messages that may
open the dialog, in the order of the connection: the push comes before any snapshot that has the
alert (`PushedFirst`), and a snapshot that still has an answered alert is before the
acknowledgement of the answer while the outbox has it (`OldFirst`), so it can be shown after it
only if the acknowledgement was handled before it: then, and only then, the alert is in
`overtaken` (`HeardOvertaken`), where it stays as long as such a snapshot is on the wire or the
dialog open (`ShownOvertaken`). `NoneMissed` strengthens `PendingShown`: a snapshot on the wire
that lacks the alert was read before the alert was made, and then the dialog, an answer or the
push is there, which showing it does not undo. `AllFollow` has the same shape for the COO's list:
an answer's event says what is stored (`EventsTrue`), and every message that would put an older
status in the list has the event behind it or was overtaken by it (`EventsBehind`); what a list or
a reply has of an alert is its status or an earlier one (`StatusesTrue`), so what is overtaken
shows it as pending and nothing else. The mutants of `desk` drop what the proofs use: the reload
after a resumed session, the one call that reads the alerts with their names, the check of the
outbox before a dialog, the check of the stored status.

The argument for the tables of a window. `NeverBackwards` needs that reloads do not overtake each
other: a reply leaves the connection only at its head, and only the first request of a connection
is being read. So what a window shows, the replies on the wire in their order, what is being read
and the table are each at least as new as the one before (`Forward`, for each table of each
request). Every step is one of a few kinds for a window (`TurnOf`): a new reply goes last and
holds what was read (`NewReply`), all others keep the order (`PlacedBy`), and whatever is read is
the table's current version.

`StaleIsOnItsWay` is not inductive: a stale reply on the wire will put stale rows in the window.
`AllCatchUp` says it of all three places data is in: the window, each reply and the read that
is handled are current, or the request is `Due` behind them; it is due when it will be made,
waits at the server, or is settled by a later message (`Settles`). That a request is handled only after
those before it, and that replies keep their order, keeps what is due behind (`StillDue`). When a
change touches a table, `EveryWriteIsTold` and `EveryTableIsHeardOf` compare, for each kind of
change and each panel, the scopes the handlers announce with those the panel listens to: all who
show the table are owed the news (`SameOrTold`), which stays owed, goes on the wire, into the
debouncer and becomes a request (`WillAskStays`), or becomes the reload that the request follows
(`AwaitedStays`: the Head's timeline after his snapshot).

Only model-checked: `RetryDrains` and `PendingDrains`, as liveness is out of the prover's reach, and
the counterexamples of the violated runs.

## 5. What is not modelled, and why

What the models leave out of a modelled part:

* `Approvals`: between the three calls of a date change request the task may be hidden or
  reassigned; the request is then stored for a task its Head no longer sees, and an Admin decides.
  No document forbids it and no property does; those of `approvals` hold in all these orders.
* `ProgressLogs`: a log of an account that was just given another role, in a session from before
  the change, is stored without a look at discipline and assignment; `HistoryKept` says so.
* `Registry`: `update_user` does not look at the tasks assigned to an account that changes
  discipline or role (`db_manager.py:834`). Such a task keeps its row's Head and is shown to none,
  which `HeadsSeeTheirTasks` reports alike in all three places; an Admin reassigns it.
  (`CHANGELOG.md:162`, "disciplines and assigned Heads exist and match", is about what a client
  sends with a task, which `ValidFields` checks.)
* `Outbox`: the overlap of an old flush with a new login on the same PC; `EndSession` ends the
  flush. What both would send is stored once by its ID.
* `Sessions`: refusals are no steps, so the lockout of a user ID after wrong passwords, which only
  refuses, is not there; nor are the expiry of tokens, and the settings `a_login` reads. A manager
  resetting his own password is not offered by any window (`superadmin_workspace.py:202`). The
  session's password flag may lag after a refresh that crossed a password change; the server then
  still asks for a password change and withholds events until that user's next login or RESUME,
  which no property forbids. A login whose password was accepted before a reset and whose session
  is made after it keeps a token newer than the reset; `OldTokensDie` is about older ones.
* `Backups`: the clock is not set back (the names of copies would no longer sort by age); two
  restores are more than a second apart, as the names of their safety copies are; writes of the
  running server are one number. A failed or interrupted backup counts as the day's, as in the
  code, and so does one made before the backup time was moved to later that day: `Daily` asks for
  one at or after the time that was set when it was begun. It lets one corner pass: a server
  started after the day's time, just before midnight, whose copy has the name of the day before. A
  restore and a server exclude each other; the code looks at the port once, before it asks for YES
  (`main.py:61-69`), and leaves the rest to the operator, who has stopped the server. A crash
  after the bootstrap has committed and before the one-time password is shown loses it;
  `--reset-superadmin` is the way out.
* `LiveViews`: columns joined from another table count as part of a table only where the server
  announces them (a renamed user's name in lists of proposals is not refreshed, nor a renamed
  discipline in the analytics). A failed or timed-out reload leaves the old view and a toast. The
  acting window's own extra reloads, the timeline's selection by hand, forms and combo boxes are
  left out. A Head's log is the outbox's and changes nothing of his window's tables but the entry
  mark. The timeline does not follow logs, since nothing is announced for it.
* `Alerts`: Retry and Discard of a refused answer, which `Outbox` has; what `ConfirmedStands` says
  of a refused answer, that it is among the rejected items, holds until it is discarded there.
* `Reports`: filters by date and Head, and the breakdown by Head; with a filter a report's stage
  is the newest that passes it. "Newest" is by the server's clock, which is not set back.
* `Registry`: disciplines exist from the start; `LiveViews` has their changes as announcements.

Parts left out:

* Export transfer: one request whose chunks travel in order on one connection and die with it; it
  holds up the other requests of its connection, which is the timeout of `Fail`.
* PING, logging, argument parsing, printing, single-instance checks, configuration: no state.
* Widgets, styles, painting, workbook layout: no state the properties tell apart.
* Seeded data other than the Super Admin: it only adds to the tables models start from.
