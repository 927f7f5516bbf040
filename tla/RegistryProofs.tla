--------------------------- MODULE RegistryProofs ---------------------------
(***************************************************************************)
(* What every call on projects, tasks and accounts keeps, for any number   *)
(* of them: types, foreign keys and soft deletion.                         *)
(***************************************************************************)
EXTENDS Registry, Extrema, TLAPS

\* The largest task ID in use is one of them, so the next one is free.
LEMMA NextTaskIdIsFree ==
  ASSUME RegistryTypeOK
  PROVE  NextTaskId \in Nat \ {0} /\ NextTaskId \notin DOMAIN task
<1>1. MaxTasks \in Nat /\ DOMAIN task \in SUBSET (1 .. MaxTasks)
  BY RegistryConstants DEF RegistryTypeOK, TaskIds
<1>2. CASE DOMAIN task = {}
  BY <1>2 DEF NextTaskId
<1>3. CASE DOMAIN task # {}
  <2>1. Max(DOMAIN task) \in 1 .. MaxTasks /\ \A k \in DOMAIN task : k <= Max(DOMAIN task)
    BY <1>1, <1>3, MaxIsGreatest
  <2>2. NextTaskId = Max(DOMAIN task) + 1
    BY <1>3 DEF NextTaskId
  <2> QED BY <2>1, <2>2
<1> QED BY <1>2, <1>3

\* Whatever the Admin typed, the dates of a new task are planned dates.
LEMMA NewDatesArePlanned ==
  ASSUME NEW dates \in NewDates
  PROVE  dates[1] \in PlannedDates /\ dates[2] \in PlannedDates
<1>1. PICK today \in Days, s \in Days \cup {NoDate}, e \in Days \cup {NoDate} :
        dates = <<IF s = NoDate THEN today ELSE s, IF e = NoDate THEN today + DefaultSpan ELSE e>>
  BY DEF NewDates
<1>2. today \in PlannedDates /\ today + DefaultSpan \in PlannedDates
  BY RegistryConstants DEF Days, PlannedDates
<1>3. (s # NoDate => s \in PlannedDates) /\ (e # NoDate => e \in PlannedDates)
  BY RegistryConstants DEF Days, PlannedDates
<1> QED BY <1>1, <1>2, <1>3

\* ADD_TASK puts a well formed row at an ID that was free, in a project that exists.
LEMMA AddTaskInserts ==
  ASSUME RegistryTypeOK,
         NEW typed \in TaskIds \cup {NoId}, NEW p \in Projects, NEW d \in Disciplines,
         NEW h \in Heads \cup {NoHead}, NEW start \in PlannedDates, NEW end \in PlannedDates,
         AddTask(typed, p, d, h, start, end)
  PROVE  \E n \in TaskIds \ DOMAIN task : \E row \in TaskRow :
           /\ task' = WithRow(task, n, row)
           /\ row.project = p /\ LiveProject(p) /\ row.start <= row.end
           /\ UNCHANGED <<project, discipline, session>>
<1> DEFINE n   == IF typed = NoId THEN NextTaskId ELSE typed
           row == [state |-> "active", project |-> p, discipline |-> d,
                   head |-> h, start |-> start, end |-> end]
<1>1. n \in TaskIds \ DOMAIN task
  BY NextTaskIdIsFree, RegistryConstants DEF AddTask, TaskIds, NoId
<1>2. row \in TaskRow
  BY DEF TaskRow, Visibility
<1>3. task' = WithRow(task, n, row) /\ LiveProject(p) /\ start <= end
      /\ UNCHANGED <<project, discipline, session>>
  BY DEF AddTask, Insert, ValidFields
<1> QED BY <1>1, <1>2, <1>3

\* The calls that edit a task row in place leave all rows but one alone, and
\* reach only a row that is live.
LEMMA ChangeTaskEdits ==
  ASSUME RegistryTypeOK, NEW n \in TaskIds, ChangeTask(n)
  PROVE  /\ LiveTask(n) /\ UNCHANGED <<project, discipline, session>>
         /\ DOMAIN task' = DOMAIN task /\ task' \in [DOMAIN task -> TaskRow]
         /\ \A m \in DOMAIN task : m # n => task'[m] = task[m]
         /\ task'[n].project = task[n].project
<1>0. n \in DOMAIN task => task[n] \in TaskRow
  BY DEF RegistryTypeOK
<1>d. Days \subseteq PlannedDates
  BY RegistryConstants DEF Days, PlannedDates
<1>1. ASSUME NEW d \in Disciplines, NEW h \in Heads \cup {NoHead},
             NEW s \in PlannedDates, NEW e \in PlannedDates, UpdateTask(n, d, h, s, e)
      PROVE  /\ LiveTask(n) /\ UNCHANGED <<project, discipline, session>>
             /\ \E row \in TaskRow : task' = [task EXCEPT ![n] = row] /\ row.project = task[n].project
  <2>1. n \in DOMAIN task /\ LiveTask(n)
    BY <1>1 DEF UpdateTask, LiveTask
  <2>2. task' = [task EXCEPT ![n] = [task[n] EXCEPT !.discipline = d, !.head = h,
                                                     !.start = s, !.end = e]]
    BY <1>1, <2>1 DEF UpdateTask, RegistryTypeOK
  <2>3. [task[n] EXCEPT !.discipline = d, !.head = h, !.start = s, !.end = e] \in TaskRow
    BY <1>0, <1>d, <2>1 DEF TaskRow
  <2> QED BY <1>0, <1>1, <2>1, <2>2, <2>3 DEF UpdateTask, TaskRow
<1>2. ASSUME NEW s \in Days, NEW e \in Days, UpdateTaskDates(n, s, e)
      PROVE  /\ LiveTask(n) /\ UNCHANGED <<project, discipline, session>>
             /\ \E row \in TaskRow : task' = [task EXCEPT ![n] = row] /\ row.project = task[n].project
  <2>1. n \in DOMAIN task /\ LiveTask(n)
    BY <1>2 DEF UpdateTaskDates, LiveTask
  <2>2. task' = [task EXCEPT ![n] = [task[n] EXCEPT !.start = s, !.end = e]]
    BY <1>2, <2>1 DEF UpdateTaskDates, RegistryTypeOK
  <2>3. [task[n] EXCEPT !.start = s, !.end = e] \in TaskRow
    BY <1>0, <1>d, <2>1 DEF TaskRow
  <2> QED BY <1>0, <1>2, <2>1, <2>2, <2>3 DEF UpdateTaskDates, TaskRow
<1>3. ASSUME NEW v \in Visibility, LiveTask(n), task' = [task EXCEPT ![n].state = v],
             UNCHANGED <<project, discipline, session>>
      PROVE  \E row \in TaskRow : task' = [task EXCEPT ![n] = row] /\ row.project = task[n].project
  <2>1. n \in DOMAIN task
    BY <1>3 DEF LiveTask
  <2>2. task' = [task EXCEPT ![n] = [task[n] EXCEPT !.state = v]]
    BY <1>3, <2>1 DEF RegistryTypeOK
  <2>3. [task[n] EXCEPT !.state = v] \in TaskRow
    BY <1>0, <2>1 DEF TaskRow
  <2> QED BY <1>0, <2>1, <2>2, <2>3 DEF TaskRow
<1>4. /\ LiveTask(n) /\ UNCHANGED <<project, discipline, session>>
      /\ \E row \in TaskRow : task' = [task EXCEPT ![n] = row] /\ row.project = task[n].project
  <2>1. \A b \in BOOLEAN : Toggled(b) \in Visibility
    BY DEF Toggled, Visibility
  <2>2. ASSUME NEW b \in BOOLEAN, ToggleHideTask(n, b)
        PROVE  /\ LiveTask(n) /\ UNCHANGED <<project, discipline, session>>
               /\ task' = [task EXCEPT ![n].state = Toggled(b)]
    BY <2>2 DEF ToggleHideTask
  <2>3. ASSUME DeleteTask(n)
        PROVE  /\ LiveTask(n) /\ UNCHANGED <<project, discipline, session>>
               /\ task' = [task EXCEPT ![n].state = "deleted"] /\ "deleted" \in Visibility
    BY <2>3 DEF DeleteTask, Visibility
  <2>4. CASE \E b \in BOOLEAN : ToggleHideTask(n, b)
    BY <1>3, <2>1, <2>2, <2>4
  <2>5. CASE DeleteTask(n)
    BY <1>3, <2>3, <2>5
  <2> QED BY <1>1, <1>2, <2>4, <2>5 DEF ChangeTask
<1>5. PICK row \in TaskRow : task' = [task EXCEPT ![n] = row] /\ row.project = task[n].project
  BY <1>4
<1>6. n \in DOMAIN task
  BY <1>4 DEF LiveTask
<1> QED BY <1>4, <1>5, <1>6 DEF RegistryTypeOK

-----------------------------------------------------------------------------
(* One call *)

\* The effect of ADD_TASK: one row more, in a project that exists.
InsertStep ==
  \E n \in TaskIds \ DOMAIN task : \E row \in TaskRow :
    /\ task' = WithRow(task, n, row)
    /\ LiveProject(row.project) /\ row.start <= row.end
    /\ UNCHANGED <<project, discipline, session>>

\* A new task is an insertion at a free ID.
LEMMA AddIsInsert == RegistryTypeOK /\ AddAnyTask => InsertStep
<1> SUFFICES ASSUME RegistryTypeOK, AddAnyTask PROVE InsertStep
  OBVIOUS
<1>1. PICK typed \in TaskIds \cup {NoId}, p \in Projects, d \in Disciplines,
           h \in Heads \cup {NoHead}, dates \in NewDates :
        AddTask(typed, p, d, h, dates[1], dates[2])
  BY DEF AddAnyTask
<1> QED BY <1>1, NewDatesArePlanned, AddTaskInserts DEF InsertStep

\* A call on a project changes the row of that project only, and never brings a
\* deleted one back.
LEMMA ChangeProjectEdits ==
  ASSUME RegistryTypeOK, NEW p \in Projects, ChangeProject(p)
  PROVE  /\ UNCHANGED <<task, discipline, session>>
         /\ DOMAIN project' = DOMAIN project \cup {p}
         /\ project' \in [DOMAIN project' -> Visibility]
         /\ \A q \in DOMAIN project : q # p => project'[q] = project[q]
         /\ p \in DOMAIN project => project[p] # "deleted"
<1>1. CASE AddProject(p)
  <2>1. p \notin DOMAIN project /\ project' = WithRow(project, p, "active")
    BY <1>1 DEF AddProject
  <2>2. "active" \in Visibility
    BY DEF Visibility
  <2>3. /\ DOMAIN project' = DOMAIN project \cup {p}
        /\ project' \in [DOMAIN project' -> Visibility]
        /\ \A q \in DOMAIN project : q # p => project'[q] = project[q]
    BY <2>1, <2>2 DEF WithRow, RegistryTypeOK
  <2> QED BY <1>1, <2>1, <2>3 DEF AddProject
<1>2. CASE ~AddProject(p)
  <2>1. \E v \in Visibility : project' = [project EXCEPT ![p] = v]
    BY <1>2 DEF ChangeProject, ToggleHideProject, DeleteProject, Toggled, Visibility
  <2>2. LiveProject(p) /\ UNCHANGED <<task, discipline, session>>
    BY <1>2 DEF ChangeProject, ToggleHideProject, DeleteProject
  <2> QED BY <2>1, <2>2 DEF LiveProject, RegistryTypeOK
<1> QED BY <1>1, <1>2

\* Types and foreign keys survive every call.
LEMMA RegistryStep ==
  RegistryTypeOK /\ TasksHaveProjects /\ [RegistryNext]_registryVars
    => RegistryTypeOK' /\ TasksHaveProjects'
<1> SUFFICES ASSUME RegistryTypeOK, TasksHaveProjects, [RegistryNext]_registryVars
             PROVE  RegistryTypeOK' /\ TasksHaveProjects'
  OBVIOUS
<1>1. CASE \E p \in Projects : ChangeProject(p)
  BY <1>1, ChangeProjectEdits DEF RegistryTypeOK, TasksHaveProjects
<1>2. CASE AddAnyTask
  <2>1. PICK n \in TaskIds \ DOMAIN task, row \in TaskRow :
          /\ task' = WithRow(task, n, row)
          /\ LiveProject(row.project)
          /\ UNCHANGED <<project, discipline, session>>
    BY <1>2, AddIsInsert DEF InsertStep
  <2>2. /\ DOMAIN task' = DOMAIN task \cup {n} /\ DOMAIN task' \subseteq TaskIds
        /\ task' \in [DOMAIN task' -> TaskRow] /\ task'[n] = row
        /\ \A k \in DOMAIN task : task'[k] = task[k]
    BY <2>1 DEF WithRow, RegistryTypeOK
  <2>3. RegistryTypeOK'
    BY <2>1, <2>2 DEF RegistryTypeOK
  <2>4. TasksHaveProjects'
    BY <2>1, <2>2 DEF TasksHaveProjects, LiveProject
  <2> QED BY <2>3, <2>4
<1>3. CASE \E n \in TaskIds : ChangeTask(n)
  <2>1. PICK n \in TaskIds : ChangeTask(n)
    BY <1>3
  <2>2. /\ LiveTask(n) /\ UNCHANGED <<project, discipline, session>>
        /\ DOMAIN task' = DOMAIN task /\ task' \in [DOMAIN task -> TaskRow]
        /\ \A m \in DOMAIN task : m # n => task'[m] = task[m]
        /\ task'[n].project = task[n].project
    BY <2>1, ChangeTaskEdits
  <2> QED BY <2>2 DEF RegistryTypeOK, TasksHaveProjects
<1>4. CASE ChangeHeads
  BY <1>4 DEF ChangeHeads, UpdateHead, RefreshSession, RegistryTypeOK, TasksHaveProjects
<1>5. CASE UNCHANGED registryVars
  BY <1>5 DEF registryVars, RegistryTypeOK, TasksHaveProjects
<1> QED BY <1>1, <1>2, <1>3, <1>4, <1>5 DEF RegistryNext

\* Empty tables are typed.
LEMMA RegistryStart == RegistryInit => RegistryTypeOK /\ TasksHaveProjects
BY DEF RegistryInit, RegistryTypeOK, TasksHaveProjects

\* The content of SoftDelete, for one step.
SoftDeleteStep ==
  /\ \A p \in DOMAIN project :
       p \in DOMAIN project' /\ (project[p] = "deleted" => project'[p] = "deleted")
  /\ \A n \in DOMAIN task :
       /\ n \in DOMAIN task'
       /\ task'[n].project = task[n].project
       /\ ~LiveTask(n) => task'[n] = task[n]
  /\ \A n \in DOMAIN task' \ DOMAIN task : project[task'[n].project] # "deleted"

\* No call replaces, moves, revives or edits what SoftDelete protects.
LEMMA SoftDeleteHolds == RegistryTypeOK /\ RegistryNext => SoftDeleteStep
<1> SUFFICES ASSUME RegistryTypeOK, RegistryNext PROVE SoftDeleteStep
  OBVIOUS
<1>1. CASE \E p \in Projects : ChangeProject(p)
  BY <1>1, ChangeProjectEdits DEF SoftDeleteStep
<1>2. CASE AddAnyTask
  <2>1. PICK n \in TaskIds \ DOMAIN task, row \in TaskRow :
          /\ task' = WithRow(task, n, row)
          /\ LiveProject(row.project)
          /\ UNCHANGED <<project, discipline, session>>
    BY <1>2, AddIsInsert DEF InsertStep
  <2>2. /\ DOMAIN task' = DOMAIN task \cup {n} /\ task'[n] = row
        /\ \A k \in DOMAIN task : task'[k] = task[k]
    BY <2>1 DEF WithRow, RegistryTypeOK
  <2> QED BY <2>1, <2>2 DEF SoftDeleteStep, LiveProject
<1>3. CASE \E n \in TaskIds : ChangeTask(n)
  <2>1. PICK n \in TaskIds : ChangeTask(n)
    BY <1>3
  <2>2. /\ LiveTask(n) /\ UNCHANGED <<project, discipline, session>>
        /\ DOMAIN task' = DOMAIN task
        /\ \A m \in DOMAIN task : m # n => task'[m] = task[m]
        /\ task'[n].project = task[n].project
    BY <2>1, ChangeTaskEdits
  <2> QED BY <2>2 DEF SoftDeleteStep
<1>4. CASE ChangeHeads
  BY <1>4 DEF ChangeHeads, UpdateHead, RefreshSession, SoftDeleteStep
<1> QED BY <1>1, <1>2, <1>3, <1>4 DEF RegistryNext

-----------------------------------------------------------------------------
(* The theorems *)

\* Every table keeps its type, and every task has the row of its project.
THEOREM RegistryIsTyped == RegistrySpec => [](RegistryTypeOK /\ TasksHaveProjects)
BY RegistryStart, RegistryStep, PTL DEF RegistrySpec

\* Soft deletion: rows are never replaced, moved or revived, and what is
\* deleted, or in a deleted project, never changes again.
THEOREM DeletedStaysDeleted == RegistrySpec => SoftDelete
<1>1. RegistryTypeOK /\ RegistryNext => SoftDeleteStep
  BY SoftDeleteHolds
<1>2. RegistryTypeOK /\ [RegistryNext]_registryVars => [SoftDeleteStep]_registryVars
  BY <1>1
<1> QED BY <1>2, RegistryIsTyped, PTL DEF RegistrySpec, SoftDelete, SoftDeleteStep
=============================================================================
