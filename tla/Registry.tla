------------------------------ MODULE Registry ------------------------------
(***************************************************************************)
(* Projects, tasks and Head accounts in the Central Server's database:     *)
(* the tables DBManager keeps and the operations the Admin's workspace     *)
(* calls on them.  ProgressLogs and Approvals build on this module.        *)
(*                                                                         *)
(* The server runs every database call in one worker thread, and each      *)
(* writes in one BEGIN IMMEDIATE transaction: a call is one action here.   *)
(* A call the code rejects (ValueError, PermissionError) changes nothing   *)
(* and is no step.  The rows of a table are the domain of a function, so   *)
(* DOMAIN task is the set of IDs in use.  A calendar date is a number, as  *)
(* the code compares 'YYYY-MM-DD' strings in calendar order; the day the   *)
(* server's clock shows (today) is any day, at every reading.              *)
(***************************************************************************)
EXTENDS Naturals, FiniteSetsExt

CONSTANTS
  Projects, Disciplines, Heads,
  NoHead,         \* tasks.assigned_head_id is NULL
  NoDiscipline,   \* of an account whose role is not HEAD any more
  MaxTasks,       \* bound: task IDs
  LastDay,        \* bound: the days the clock may show and the dates typed
  DefaultSpan     \* days an ADD_TASK without an end date is given; 7 in the code

TaskIds == 1 .. MaxTasks           \* TSK-01, TSK-02, ...
NoId == 0
Days == 1 .. LastDay
NoDate == 0
PlannedDates == 1 .. LastDay + DefaultSpan

\* The dates a new task gets: the ones typed, or for an empty field a default
\* counted from the day the server's clock shows.
NewDates ==
  {<<IF s = NoDate THEN today ELSE s, IF e = NoDate THEN today + DefaultSpan ELSE e>> :
     today \in Days, s \in Days \cup {NoDate}, e \in Days \cup {NoDate}}

ASSUME RegistryConstants ==
  /\ MaxTasks \in Nat /\ LastDay \in Nat \ {0} /\ DefaultSpan \in Nat
  /\ NoHead \notin Heads /\ NoDiscipline \notin Disciplines

VARIABLES
  project,     \* row of each project: "active", "hidden" or "deleted"
  task,        \* row of each task
  discipline,  \* the discipline of each Head's account
  session      \* the discipline the server's sessions of the Head carry

registryVars == <<project, task, discipline, session>>

Visibility == {"active", "hidden", "deleted"}

TaskRow ==
  [state: Visibility, project: Projects, discipline: Disciplines,
   head: Heads \cup {NoHead}, start: PlannedDates, end: PlannedDates]

\* A table with one more row.
WithRow(table, id, row) ==
  [k \in DOMAIN table \cup {id} |-> IF k = id THEN row ELSE table[k]]

RegistryInit ==
  /\ project = [p \in {} |-> "active"]
  /\ task = [n \in {} |-> "active"]
  /\ discipline \in [Heads -> Disciplines]
  /\ session = discipline

-----------------------------------------------------------------------------
(* Row lookups *)

\* _project_row: a deleted project does not exist for any caller.
LiveProject(p) == p \in DOMAIN project /\ project[p] # "deleted"

\* _task_row: neither does a deleted task, nor a task of a deleted project.
LiveTask(n) ==
  n \in DOMAIN task /\ task[n].state # "deleted" /\ LiveProject(task[n].project)

\* What a Head can work on: task and project neither hidden nor deleted.
ActiveTask(n) ==
  n \in DOMAIN task /\ task[n].state = "active" /\ project[task[n].project] = "active"

\* The task is one for this Head, taken to be of discipline d.
Admits(row, h, d) == row.discipline = d /\ row.head \in {h, NoHead}

\* _next_task_id: one more than the largest number in use.
NextTaskId == IF DOMAIN task = {} THEN 1 ELSE Max(DOMAIN task) + 1

\* _validate_task_fields
ValidFields(d, h, s, e) == s <= e /\ (h # NoHead => discipline[h] = d)

Insert(n, p, d, h, s, e) ==
  task' = WithRow(task, n, [state |-> "active", project |-> p, discipline |-> d,
                            head |-> h, start |-> s, end |-> e])

\* The button sends what its screen showed, which another Admin may have changed.
Toggled(shownHidden) == IF shownHidden THEN "active" ELSE "hidden"

-----------------------------------------------------------------------------
(* Operations *)

AddProject(p) ==
  /\ p \notin DOMAIN project
  /\ project' = WithRow(project, p, "active")
  /\ UNCHANGED <<task, discipline, session>>

ToggleHideProject(p, shownHidden) ==
  /\ LiveProject(p)
  /\ project' = [project EXCEPT ![p] = Toggled(shownHidden)]
  /\ UNCHANGED <<task, discipline, session>>

\* The row stays, with its tasks and everything submitted for them.
DeleteProject(p) ==
  /\ LiveProject(p)
  /\ project' = [project EXCEPT ![p] = "deleted"]
  /\ UNCHANGED <<task, discipline, session>>

\* The Admin typed a task ID, or left the field empty for the next free one.
AddTask(typed, p, d, h, start, end) ==
  LET n == IF typed = NoId THEN NextTaskId ELSE typed
  IN /\ n <= MaxTasks /\ typed \notin DOMAIN task
     /\ LiveProject(p)
     /\ ValidFields(d, h, start, end)
     /\ Insert(n, p, d, h, start, end)
     /\ UNCHANGED <<project, discipline, session>>

\* A field the message leaves out keeps its value, and is validated all the same.
UpdateTask(n, d, h, s, e) ==
  /\ LiveTask(n)
  /\ ValidFields(d, h, s, e)
  /\ task' = [task EXCEPT ![n].discipline = d, ![n].head = h,
                          ![n].start = s, ![n].end = e]
  /\ UNCHANGED <<project, discipline, session>>

UpdateTaskDates(n, s, e) ==
  /\ LiveTask(n)
  /\ s <= e
  /\ task' = [task EXCEPT ![n].start = s, ![n].end = e]
  /\ UNCHANGED <<project, discipline, session>>

\* Mutant: looks for the row only.
ToggleAnyTask(n, shownHidden) ==
  /\ n \in DOMAIN task
  /\ task' = [task EXCEPT ![n].state = Toggled(shownHidden)]
  /\ UNCHANGED <<project, discipline, session>>

ToggleHideTask(n, shownHidden) ==
  /\ LiveTask(n)
  /\ task' = [task EXCEPT ![n].state = Toggled(shownHidden)]
  /\ UNCHANGED <<project, discipline, session>>

\* Mutant: deletes the row.
DeleteTaskRow(n) ==
  /\ LiveTask(n)
  /\ task' = [m \in DOMAIN task \ {n} |-> task[m]]
  /\ UNCHANGED <<project, discipline, session>>

DeleteTask(n) ==
  /\ LiveTask(n)
  /\ task' = [task EXCEPT ![n].state = "deleted"]
  /\ UNCHANGED <<project, discipline, session>>

\* update_user: another discipline, or another role (which clears it).  The
\* tasks assigned to the account are not looked at.
UpdateHead(h, d) ==
  /\ d # discipline[h]
  /\ discipline' = [discipline EXCEPT ![h] = d]
  /\ UNCHANGED <<project, task, session>>

\* A session takes the account as it is now: _refresh_user_sessions, a database
\* call of its own after update_user, or a new LOGIN or RESUME.
RefreshSession(h) ==
  /\ session' = [session EXCEPT ![h] = discipline[h]]
  /\ UNCHANGED <<project, task, discipline>>

-----------------------------------------------------------------------------
AddAnyTask ==
  \E typed \in TaskIds \cup {NoId}, p \in Projects, d \in Disciplines,
     h \in Heads \cup {NoHead}, dates \in NewDates : AddTask(typed, p, d, h, dates[1], dates[2])

ChangeTask(n) ==
  \/ \E d \in Disciplines, h \in Heads \cup {NoHead}, s, e \in PlannedDates : UpdateTask(n, d, h, s, e)
  \/ \E s, e \in Days : UpdateTaskDates(n, s, e)
  \/ \E shown \in BOOLEAN : ToggleHideTask(n, shown)
  \/ DeleteTask(n)

ChangeProject(p) ==
  \/ AddProject(p)
  \/ \E shown \in BOOLEAN : ToggleHideProject(p, shown)
  \/ DeleteProject(p)

ChangeHeads ==
  \E h \in Heads :
    \/ \E d \in Disciplines \cup {NoDiscipline} : UpdateHead(h, d)
    \/ RefreshSession(h)

RegistryNext ==
  \/ \E p \in Projects : ChangeProject(p)
  \/ AddAnyTask
  \/ \E n \in TaskIds : ChangeTask(n)
  \/ ChangeHeads

RegistrySpec == RegistryInit /\ [][RegistryNext]_registryVars

-----------------------------------------------------------------------------
(* Properties *)

RegistryTypeOK ==
  /\ DOMAIN project \subseteq Projects /\ project \in [DOMAIN project -> Visibility]
  /\ DOMAIN task \subseteq TaskIds /\ task \in [DOMAIN task -> TaskRow]
  /\ discipline \in [Heads -> Disciplines \cup {NoDiscipline}]
  /\ session \in [Heads -> Disciplines \cup {NoDiscipline}]

\* Foreign keys: the project of a task has a row, whatever is deleted.
TasksHaveProjects == \A n \in DOMAIN task : task[n].project \in DOMAIN project

\* "Its row and all its logs stay in the database ... and its ID can't be
\* reused": no call replaces the row of a task or moves it to another project,
\* and nothing about a task changes, or appears, once it or its project is deleted.
SoftDelete ==
  [][ /\ \A p \in DOMAIN project :
           p \in DOMAIN project' /\ (project[p] = "deleted" => project'[p] = "deleted")
      /\ \A n \in DOMAIN task :
           /\ n \in DOMAIN task'
           /\ task'[n].project = task[n].project
           /\ ~LiveTask(n) => task'[n] = task[n]
      /\ \A n \in DOMAIN task' \ DOMAIN task : project[task'[n].project] # "deleted"
    ]_registryVars

\* "dates (YYYY-MM-DD, start before end)": no task ends before it starts.
DatesOrdered == \A n \in DOMAIN task : task[n].start <= task[n].end
=============================================================================
