---------------------------- MODULE ProgressLogs ----------------------------
(***************************************************************************)
(* The progress logs of the tasks: DBManager.submit_progress_log behind    *)
(* the SUBMIT_LOG handler, over the projects, tasks and Head accounts of   *)
(* Registry, which the Admins change between two submissions.              *)
(*                                                                         *)
(* Any log may arrive at any time and again: the outbox of a Head resends  *)
(* what was not confirmed, logs written offline arrive late, and Heads of  *)
(* a discipline write about the same task without knowing of each other.   *)
(***************************************************************************)
EXTENDS Registry, Sequences

CONSTANT LogIds   \* bound: the log_ids the PCs generate

VARIABLE logs     \* the rows of progress_logs, in the order they were stored

logVars == <<project, task, discipline, session, logs>>

\* ENTRY_TYPES; a log without a type gets one from the history of its task.
EntryTypes == {"NEW", "CONTINUATION", "REVISION"}
Untyped == "none"

LogRow ==
  [id: LogIds, employee: Heads, project: Projects, task: TaskIds,
   type: EntryTypes, revision: Nat, start: PlannedDates, end: PlannedDates]

LogsInit == RegistryInit /\ logs = <<>>

LogsOf(n) == {k \in DOMAIN logs : logs[k].task = n}
RevisionsOf(n) == {k \in LogsOf(n) : logs[k].type = "REVISION"}

\* Mutant: counts every entry of the task.
NextRevisionOfEntries(n) == Cardinality(LogsOf(n)) + 1

\* _next_revision: MAX(revision_number) + 1, counted per task.
NextRevision(n) ==
  IF RevisionsOf(n) = {} THEN 1 ELSE Max({logs[k].revision : k \in RevisionsOf(n)}) + 1

\* Mutant: stores what was sent.
EntryTypeAsSent(n, sent) == sent

\* The type the row gets: the one sent, or the one the history calls for.
EntryType(n, sent) ==
  IF sent # Untyped THEN sent ELSE IF LogsOf(n) = {} THEN "NEW" ELSE "CONTINUATION"

\* Mutant: only a second New Task entry is refused.
TypeFitsLater(n, type) == type = "NEW" => LogsOf(n) = {}

\* "New Task" is the first entry of a task and only that.
TypeFits(n, type) == type = "NEW" <=> LogsOf(n) = {}

\* Mutant: looks at the last log only.
LastLog(id) == logs # <<>> /\ logs[Len(logs)].id = id

\* A resend: the log_id is stored, the stored row is returned.
StoredLog(id) == \E k \in DOMAIN logs : logs[k].id = id

\* Checked on the account, whose role may have changed since the session took it:
\* of an account that is not a Head's any more, discipline and assignment are not.
FitsHead(n, h) == discipline[h] # NoDiscipline => Admits(task[n], h, discipline[h])

\* The planned dates are the task's at this moment, the number is given here.
Row(id, h, n, type) ==
  [id |-> id, employee |-> h, project |-> task[n].project, task |-> n, type |-> type,
   revision |-> IF type = "REVISION" THEN NextRevision(n) ELSE 0,
   start |-> task[n].start, end |-> task[n].end]

\* Mutant: a resend writes the row again, with the dates the task has now.
SubmitReplacing(id, h, p, n, sent) ==
  /\ session[h] # NoDiscipline
  /\ ActiveTask(n) /\ task[n].project = p
  /\ FitsHead(n, h)
  /\ StoredLog(id) \/ TypeFits(n, EntryType(n, sent))
  /\ logs' = IF StoredLog(id)
             THEN [k \in DOMAIN logs |->
                     IF logs[k].id = id /\ logs[k].task = n
                     THEN [logs[k] EXCEPT !.start = task[n].start, !.end = task[n].end]
                     ELSE logs[k]]
             ELSE Append(logs, Row(id, h, n, EntryType(n, sent)))
  /\ UNCHANGED registryVars

SubmitLog(id, h, p, n, sent) ==
  /\ session[h] # NoDiscipline      \* the role HEAD, which SUBMIT_LOG demands
  /\ ~StoredLog(id)
  /\ LiveTask(n)
  /\ task[n].project = p
  /\ ActiveTask(n)
  /\ FitsHead(n, h)
  /\ TypeFits(n, EntryType(n, sent))
  /\ logs' = Append(logs, Row(id, h, n, EntryType(n, sent)))
  /\ UNCHANGED registryVars

LogsNext ==
  \/ RegistryNext /\ UNCHANGED logs
  \/ \E id \in LogIds, h \in Heads, p \in Projects, n \in TaskIds,
        sent \in EntryTypes \cup {Untyped} : SubmitLog(id, h, p, n, sent)

LogsSpec == LogsInit /\ [][LogsNext]_logVars

-----------------------------------------------------------------------------
(* Properties *)

LogsTypeOK == RegistryTypeOK /\ logs \in Seq(LogRow)

\* A log is stored once, however often its PC sends it.
StoredOnce == \A i, j \in DOMAIN logs : logs[i].id = logs[j].id => i = j

\* "a second New Task entry, or a Continuation or Revision before the first
\* entry, is rejected": of the logs of a task the first is its New Task entry,
\* and no other is, whichever Head sent it.
FirstEntryIsNew ==
  \A k \in DOMAIN logs :
    logs[k].type = "NEW" <=> \A i \in LogsOf(logs[k].task) : k <= i

\* "unique, sequential numbers": the revisions of a task are R1, R2, R3 ... in
\* the order they were stored, whoever submitted them.
RevisionsSequential ==
  \A k \in DOMAIN logs :
    LET earlier == {i \in RevisionsOf(logs[k].task) : i < k}
    IN logs[k].type = "REVISION" =>
         /\ \A i \in earlier : logs[i].revision < logs[k].revision
         /\ \A r \in 1 .. logs[k].revision - 1 : \E i \in earlier : logs[i].revision = r
         /\ logs[k].revision >= 1

\* Foreign keys: the project and the task of a log have their rows, and the task
\* is still one of that project, whatever the Admins hid, deleted or edited since.
LogsBelong ==
  \A k \in DOMAIN logs :
    /\ logs[k].task \in DOMAIN task
    /\ task[logs[k].task].project = logs[k].project
    /\ logs[k].project \in DOMAIN project

\* "Earlier logs keep the dates that applied when they were submitted": a log
\* gets the dates its task has at that moment, and no stored log ever changes,
\* whatever is edited or sent again later.  A log appears only for a task that is
\* neither hidden nor deleted and that is the Head's by the account as it is then;
\* an account that is not a Head's any more is let through, in a session from
\* before the change, without a look at discipline and assignment.
HistoryKept ==
  [][ /\ \A k \in DOMAIN logs : k \in DOMAIN logs' /\ logs'[k] = logs[k]
      /\ \A k \in DOMAIN logs' \ DOMAIN logs :
           LET new == logs'[k]
               of  == task[new.task]
               d   == discipline[new.employee]
           IN /\ ActiveTask(new.task)
              /\ new.project = of.project /\ new.start = of.start /\ new.end = of.end
              /\ d \in Disciplines => Admits(of, new.employee, d)
    ]_logVars

\* The inductive invariant behind them.
LogsIInv ==
  /\ LogsTypeOK /\ TasksHaveProjects
  /\ StoredOnce /\ FirstEntryIsNew /\ RevisionsSequential /\ LogsBelong
=============================================================================
