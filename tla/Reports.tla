------------------------------ MODULE Reports -------------------------------
(***************************************************************************)
(* The status of the tasks as four queries compute it from the logs: the   *)
(* Admin's dashboard, the project timelines, the task summary of an Excel  *)
(* report, and the lists of tasks a Head's reports and PC show.  Each has  *)
(* its own joins and conditions for what is hidden or deleted.             *)
(*                                                                         *)
(* The stage a log reports is chosen on the PC that makes its log_id, so   *)
(* that it is a function of the log_id.  A task's newest log is the last   *)
(* that was stored: submitted_at is the server's clock, which is not set   *)
(* back, and rowid decides between logs of one second.                     *)
(***************************************************************************)
EXTENDS ProgressLogs

CONSTANT Stages   \* of PROGRESS_STAGES, those that are tried

ASSUME StagesAreListed == IsFiniteSet(Stages)

NotStarted == "Not Started"

\* The stage of the newest of some logs of a task.
NewestStage(rows, stage) == IF rows = {} THEN NotStarted ELSE stage[logs[Max(rows)].id]

-----------------------------------------------------------------------------
(* get_analytics_data: active projects, each with its tasks by status. *)

DashboardProjects == {p \in DOMAIN project : project[p] = "active"}
DashboardTasks(p) == {n \in DOMAIN task : task[n].project = p /\ task[n].state = "active"}

\* Mutant: the tasks are joined with all their logs.
DashboardCountJoined(p, s, stage) ==
  Cardinality({k \in DOMAIN logs : logs[k].task \in DashboardTasks(p) /\ stage[logs[k].id] = s})
  + (IF s = NotStarted THEN Cardinality({n \in DashboardTasks(p) : LogsOf(n) = {}}) ELSE 0)

DashboardCount(p, s, stage) ==
  Cardinality({n \in DashboardTasks(p) : NewestStage(LogsOf(n), stage) = s})

DashboardRevisions(p) == Cardinality({k \in DOMAIN logs : logs[k].project = p /\ logs[k].type = "REVISION"})

-----------------------------------------------------------------------------
(* get_project_timeline_data: the listed tasks of a project that is not deleted. *)

\* get_tasks without hidden ones.
Listed(p) == {n \in DOMAIN task : /\ task[n].project = p
                                  /\ task[n].state = "active" /\ project[p] # "deleted"}

TimelineTasks(p) == IF project[p] = "deleted" THEN {} ELSE Listed(p)

TimelineStage(p, n, stage) == NewestStage({k \in LogsOf(n) : logs[k].project = p}, stage)

TimelineCount(p, s, stage) == Cardinality({n \in TimelineTasks(p) : TimelineStage(p, n, stage) = s})

TimelineRevisions(n) == IF LogsOf(n) = {} THEN 0 ELSE Cardinality(RevisionsOf(n))

-----------------------------------------------------------------------------
(* build_report without filters, and for one Head. *)

\* get_tasks with hidden ones.
SummaryTasks == {n \in DOMAIN task : task[n].state # "deleted" /\ project[task[n].project] # "deleted"}

\* build_task_rows: the first of the logs, which come newest first, and how many there are.
SummaryRow(n, stage) == [stage |-> NewestStage(LogsOf(n), stage), logs |-> Cardinality(LogsOf(n))]

\* Mutant: unassigned tasks of every discipline are listed, too.
TasksInScopeAnyDiscipline(h) == {n \in SummaryTasks : task[n].head \in {NoHead, h}}

\* tasks_in_scope for a Head.
TasksInScope(h) ==
  {n \in SummaryTasks : /\ discipline[h] # NoDiscipline => task[n].discipline = discipline[h]
                        /\ task[n].head \in {NoHead, h}}

\* _head_tasks: what his PC shows, by the discipline of his session.
HeadTasks(h) ==
  {n \in DOMAIN task : /\ n \in Listed(task[n].project) /\ project[task[n].project] = "active"
                       /\ task[n].discipline = session[h] /\ task[n].head \in {NoHead, h}}

-----------------------------------------------------------------------------
RevisionNumbers(n) == {0} \cup {logs[k].revision : k \in RevisionsOf(n)}

\* "Joins never multiply counts": dashboard, timeline and report agree about every task,
\* whatever stages the logs report: a dashboard's counts are its timeline's and add up to its
\* tasks, a summary row has the timeline's stage, and the revisions counted are those numbered.
ScreensAgree ==
  \A stage \in [LogIds -> Stages] :
    /\ \A p \in DashboardProjects :
         /\ \A s \in Stages \cup {NotStarted} : DashboardCount(p, s, stage) = TimelineCount(p, s, stage)
         /\ MapThenSumSet(LAMBDA s : DashboardCount(p, s, stage), Stages \cup {NotStarted})
              = Cardinality(TimelineTasks(p))
    /\ \A p \in DOMAIN project : \A n \in TimelineTasks(p) :
         /\ n \in SummaryTasks
         /\ SummaryRow(n, stage).stage = TimelineStage(p, n, stage)
         /\ TimelineRevisions(n) = Max(RevisionNumbers(n))
    /\ \A p \in DashboardProjects :
         DashboardRevisions(p) = MapThenSumSet(LAMBDA n : Max(RevisionNumbers(n)),
                                               {n \in DOMAIN task : task[n].project = p})

\* "For a Head the tasks they can log on": the report of a Head lists the tasks whose logs
\* submit_progress_log would take from him if they were shown, and his PC shows just those it
\* takes, by the discipline his session has.
HeadsSeeTheirTasks ==
  \A h \in Heads :
    /\ discipline[h] # NoDiscipline => TasksInScope(h) = {n \in SummaryTasks : FitsHead(n, h)}
    /\ session[h] # NoDiscipline =>
         HeadTasks(h) = {n \in DOMAIN task : ActiveTask(n) /\ Admits(task[n], h, session[h])}
=============================================================================
