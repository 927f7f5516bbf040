-------------------------- MODULE ApprovalsProofs ---------------------------
(***************************************************************************)
(* Machine-checked safety of Approvals, for every number of projects,      *)
(* tasks, Heads, proposals, requests and messages handled at a time.       *)
(***************************************************************************)
EXTENDS Approvals, RegistryProofs

\* The inductive invariant.
ApprovalsIInv == ApprovalsTypeOK /\ TasksHaveProjects /\ TaskOrigins /\ RequestsRefer

-----------------------------------------------------------------------------
(* The start *)

\* Nothing is asked for at the start.
LEMMA ApprovalsStart == ApprovalsInit => ApprovalsIInv
<1> SUFFICES ASSUME ApprovalsInit PROVE ApprovalsIInv
  OBVIOUS
<1>1. RegistryTypeOK /\ TasksHaveProjects /\ DOMAIN task = {}
  BY RegistryStart DEF ApprovalsInit, RegistryInit
<1>2. /\ DOMAIN proposal = {} /\ DOMAIN request = {} /\ DOMAIN checking = {} /\ DOMAIN origin = {}
      /\ proposal = [i \in DOMAIN proposal |-> proposal[i]]
      /\ request = [i \in DOMAIN request |-> request[i]]
      /\ checking = [i \in DOMAIN checking |-> checking[i]]
  BY DEF ApprovalsInit
<1> QED BY <1>1, <1>2 DEF ApprovalsIInv, ApprovalsTypeOK, TaskOrigins, RequestsRefer

-----------------------------------------------------------------------------
(* Steps that leave tasks and proposals alone *)

\* Handling a date change request up to its insert.
LEMMA RequestHandling ==
  ASSUME ApprovalsIInv, NEW c \in Handlers,
         (\E i \in DOMAIN Asked : ReadProjects(c, i)) \/ ReadTasks(c) \/ StoreRequest(c)
  PROVE  /\ ApprovalsIInv' /\ UNCHANGED <<registryVars, proposal, origin>>
         /\ \A i \in DOMAIN request : i \in DOMAIN request' /\ request'[i] = request[i]
<1>0. /\ DOMAIN checking \subseteq Handlers /\ checking \in [DOMAIN checking -> CheckRow]
      /\ DOMAIN request \subseteq DOMAIN Asked /\ request \in [DOMAIN request -> Statuses]
  BY DEF ApprovalsIInv, ApprovalsTypeOK
<1>1. UNCHANGED <<registryVars, proposal, origin>>
  BY DEF ReadProjects, ReadTasks, StoreRequest
<1>f. Finished(c) => /\ DOMAIN checking' \subseteq Handlers
                     /\ checking' \in [DOMAIN checking' -> CheckRow]
  BY <1>0 DEF Finished
<1>2. DOMAIN checking' \subseteq Handlers /\ checking' \in [DOMAIN checking' -> CheckRow]
  <2>1. ASSUME NEW i \in DOMAIN Asked, ReadProjects(c, i)
        PROVE  DOMAIN checking' \subseteq Handlers /\ checking' \in [DOMAIN checking' -> CheckRow]
    <3> DEFINE row == [id |-> i, step |-> "projects", as |-> session[Asked[i].by],
                       visible |-> {p \in DOMAIN project : project[p] = "active"}]
    <3>1. session[Asked[i].by] \in Disciplines
      BY <2>1, ApprovalsConstants DEF ReadProjects, ApprovalsIInv, ApprovalsTypeOK, RegistryTypeOK
    <3>2. row \in CheckRow
      BY <3>1 DEF CheckRow, ApprovalsIInv, ApprovalsTypeOK, RegistryTypeOK
    <3>3. checking' = WithRow(checking, c, row)
      BY <2>1 DEF ReadProjects
    <3> HIDE DEF row
    <3> QED BY <1>0, <3>2, <3>3 DEF WithRow
  <2>2. ASSUME ReadTasks(c)
        PROVE  DOMAIN checking' \subseteq Handlers /\ checking' \in [DOMAIN checking' -> CheckRow]
    <3>1. CASE checking' = [checking EXCEPT ![c].step = "tasks"]
      BY <1>0, <2>2, <3>1 DEF ReadTasks, CheckRow
    <3> QED BY <1>f, <2>2, <3>1 DEF ReadTasks
  <2> QED BY <1>f, <2>1, <2>2 DEF StoreRequest
<1>3. /\ DOMAIN request' \subseteq DOMAIN Asked /\ request' \in [DOMAIN request' -> Statuses]
      /\ \A i \in DOMAIN request : i \in DOMAIN request' /\ request'[i] = request[i]
      /\ \A i \in DOMAIN request' : Asked[i].task \in DOMAIN task
  <2>1. \A i \in DOMAIN request : Asked[i].task \in DOMAIN task
    BY DEF ApprovalsIInv, RequestsRefer
  <2>2. CASE StoreRequest(c)
    <3> DEFINE i == checking[c].id
    <3>1. i \in DOMAIN Asked
      BY <1>0, <2>2 DEF StoreRequest, CheckRow
    <3>2. CASE request' = request
      BY <1>0, <2>1, <3>2
    <3>3. CASE request' = WithRow(request, i, "PENDING") /\ i \notin DOMAIN request
               /\ LiveTask(Asked[i].task)
      <4>1. "PENDING" \in Statuses /\ Asked[i].task \in DOMAIN task
        BY <3>3 DEF Statuses, LiveTask
      <4> HIDE DEF i
      <4> QED BY <1>0, <2>1, <3>1, <3>3, <4>1 DEF WithRow
    <3> QED BY <2>2, <3>2, <3>3 DEF StoreRequest
  <2>3. CASE ~StoreRequest(c)
    <3>1. request' = request
      BY <2>3 DEF ReadProjects, ReadTasks
    <3> QED BY <1>0, <2>1, <3>1
  <2> QED BY <2>2, <2>3
<1>4. ApprovalsTypeOK'
  BY <1>1, <1>2, <1>3 DEF ApprovalsIInv, ApprovalsTypeOK, RegistryTypeOK, registryVars
<1>5. TasksHaveProjects' /\ TaskOrigins' /\ RequestsRefer'
  BY <1>1, <1>3 DEF ApprovalsIInv, TasksHaveProjects, TaskOrigins, RequestsRefer, registryVars
<1> QED BY <1>1, <1>3, <1>4, <1>5 DEF ApprovalsIInv

\* Rejecting a request.
LEMMA RequestRejected ==
  ASSUME ApprovalsIInv, NEW i \in DOMAIN Asked, RejectRequest(i)
  PROVE  /\ ApprovalsIInv' /\ UNCHANGED <<registryVars, proposal, origin>>
         /\ DOMAIN request' = DOMAIN request
         /\ \A k \in DOMAIN request : request[k] # "PENDING" => request'[k] = request[k]
<1>1. UNCHANGED <<registryVars, proposal, checking, origin>>
  BY DEF RejectRequest
<1>2. /\ DOMAIN request' = DOMAIN request /\ request' \in [DOMAIN request -> Statuses]
      /\ \A k \in DOMAIN request : request[k] # "PENDING" => request'[k] = request[k]
  BY DEF RejectRequest, PendingRequest, ApprovalsIInv, ApprovalsTypeOK, Statuses
<1>3. ApprovalsTypeOK'
  BY <1>1, <1>2 DEF ApprovalsIInv, ApprovalsTypeOK, RegistryTypeOK, registryVars
<1>4. TasksHaveProjects' /\ TaskOrigins' /\ RequestsRefer'
  BY <1>1, <1>2 DEF ApprovalsIInv, TasksHaveProjects, TaskOrigins, RequestsRefer, registryVars
<1> QED BY <1>1, <1>2, <1>3, <1>4 DEF ApprovalsIInv

\* Storing a proposal, and rejecting one.
LEMMA ProposalHandling ==
  ASSUME ApprovalsIInv, NEW i \in DOMAIN Wanted, ProposeTask(i) \/ RejectProposal(i)
  PROVE  /\ ApprovalsIInv' /\ UNCHANGED <<registryVars, request, origin>>
         /\ \A k \in DOMAIN proposal : k \in DOMAIN proposal'
                 /\ (proposal[k].status # "PENDING" => proposal'[k] = proposal[k])
<1>0. DOMAIN proposal \subseteq DOMAIN Wanted /\ proposal \in [DOMAIN proposal -> ProposalRow]
  BY DEF ApprovalsIInv, ApprovalsTypeOK
<1>1. UNCHANGED <<registryVars, request, checking, origin>>
  BY DEF ProposeTask, RejectProposal
<1>2. \E row \in ProposalRow :
        /\ proposal' = WithRow(proposal, i, row)
        /\ row.status # "APPROVED" /\ row.task = NoTask
        /\ i \in DOMAIN proposal => proposal[i].status = "PENDING"
        /\ Wanted[i].project \in DOMAIN project
  <2>1. CASE ProposeTask(i)
    <3> DEFINE row == [status |-> "PENDING", task |-> NoTask, discipline |-> session[Wanted[i].by]]
    <3>1. session[Wanted[i].by] \in Disciplines
      BY <2>1, ApprovalsConstants DEF ProposeTask, ApprovalsIInv, ApprovalsTypeOK, RegistryTypeOK
    <3>2. row \in ProposalRow /\ row.status # "APPROVED" /\ row.task = NoTask
      BY <3>1 DEF ProposalRow, Statuses
    <3>3. proposal' = WithRow(proposal, i, row) /\ i \notin DOMAIN proposal
          /\ Wanted[i].project \in DOMAIN project
      BY <2>1 DEF ProposeTask, LiveProject
    <3> QED BY <3>2, <3>3
  <2>2. CASE RejectProposal(i)
    <3> DEFINE row == [proposal[i] EXCEPT !.status = "REJECTED"]
    <3>1. i \in DOMAIN proposal /\ proposal[i].status = "PENDING"
          /\ proposal' = [proposal EXCEPT ![i].status = "REJECTED"]
      BY <2>2 DEF RejectProposal, PendingProposal
    <3>2. proposal[i].task = NoTask /\ Wanted[i].project \in DOMAIN project
      BY <3>1 DEF ApprovalsIInv, TaskOrigins, RequestsRefer
    <3>3. row \in ProposalRow /\ row.status # "APPROVED" /\ row.task = NoTask
      BY <1>0, <3>1, <3>2 DEF ProposalRow, Statuses
    <3>4. proposal' = WithRow(proposal, i, row)
      BY <1>0, <3>1 DEF WithRow
    <3> QED BY <3>1, <3>2, <3>3, <3>4
  <2> QED BY <2>1, <2>2
<1>3. PICK row \in ProposalRow :
        /\ proposal' = WithRow(proposal, i, row)
        /\ row.status # "APPROVED" /\ row.task = NoTask
        /\ i \in DOMAIN proposal => proposal[i].status = "PENDING"
        /\ Wanted[i].project \in DOMAIN project
  BY <1>2
<1>4. /\ DOMAIN proposal' = DOMAIN proposal \cup {i}
      /\ proposal' \in [DOMAIN proposal' -> ProposalRow]
      /\ proposal'[i] = row /\ \A k \in DOMAIN proposal : k # i => proposal'[k] = proposal[k]
  BY <1>0, <1>3 DEF WithRow
<1>5. ApprovalsTypeOK'
  BY <1>0, <1>1, <1>4 DEF ApprovalsIInv, ApprovalsTypeOK, RegistryTypeOK, registryVars
<1>6. TasksHaveProjects' /\ RequestsRefer'
  BY <1>1, <1>3, <1>4 DEF ApprovalsIInv, TasksHaveProjects, RequestsRefer, registryVars
<1>7. \A n \in DOMAIN task : origin[n] # "added" => origin[n] \in DOMAIN proposal /\ origin[n] # i
  <2>1. SUFFICES ASSUME NEW n \in DOMAIN task, origin[n] # "added"
                 PROVE  origin[n] \in DOMAIN proposal /\ origin[n] # i
    OBVIOUS
  <2>2. origin[n] \in DOMAIN proposal /\ proposal[origin[n]].task = n
    BY <2>1 DEF ApprovalsIInv, TaskOrigins
  <2>3. i \in DOMAIN proposal => proposal[i].task = NoTask
    BY <1>3 DEF ApprovalsIInv, TaskOrigins
  <2>4. n # NoTask
    BY <2>1 DEF ApprovalsIInv, ApprovalsTypeOK, RegistryTypeOK, TaskIds, NoTask
  <2> QED BY <2>2, <2>3, <2>4
<1>8. TaskOrigins'
  BY <1>1, <1>3, <1>4, <1>7 DEF ApprovalsIInv, TaskOrigins, registryVars
<1> QED BY <1>1, <1>3, <1>4, <1>5, <1>6, <1>8 DEF ApprovalsIInv

-----------------------------------------------------------------------------
(* The decisions that change tasks *)

\* Approving a proposal makes one task, at an ID that was free, in its project.
LEMMA ProposalApproved ==
  ASSUME ApprovalsIInv, NEW i \in DOMAIN Wanted, NEW today \in Days, ApproveProposal(today, i)
  PROVE  /\ ApprovalsIInv' /\ SoftDeleteStep /\ UNCHANGED request
         /\ \A k \in DOMAIN proposal : k \in DOMAIN proposal'
                 /\ (proposal[k].status # "PENDING" => proposal'[k] = proposal[k])
<1> DEFINE n     == NextTaskId
           start == IF Wanted[i].start = NoDate THEN today ELSE Wanted[i].start
           end   == IF Wanted[i].end = NoDate THEN start ELSE Wanted[i].end
           new   == [state |-> "active", project |-> Wanted[i].project,
                     discipline |-> proposal[i].discipline, head |-> NoHead,
                     start |-> start, end |-> end]
<1>0. /\ DOMAIN proposal \subseteq DOMAIN Wanted /\ proposal \in [DOMAIN proposal -> ProposalRow]
      /\ RegistryTypeOK /\ TasksHaveProjects /\ DOMAIN origin = DOMAIN task
  BY DEF ApprovalsIInv, ApprovalsTypeOK
<1>1. n \in TaskIds \ DOMAIN task
  BY <1>0, NextTaskIdIsFree, RegistryConstants DEF ApproveProposal, TaskIds
<1>2. /\ i \in DOMAIN proposal /\ proposal[i].status = "PENDING" /\ proposal[i].task = NoTask
      /\ LiveProject(Wanted[i].project)
  BY DEF ApproveProposal, PendingProposal, ApprovalsIInv, TaskOrigins
<1>3. start \in PlannedDates /\ end \in PlannedDates /\ Wanted[i].project \in Projects
  BY ApprovalsConstants, RegistryConstants DEF Days, PlannedDates
<1>4. new \in TaskRow /\ new.project = Wanted[i].project
  BY <1>0, <1>2, <1>3 DEF TaskRow, Visibility, ProposalRow
<1>5. /\ task' = WithRow(task, n, new) /\ origin' = WithRow(origin, n, i)
      /\ proposal' = [proposal EXCEPT ![i].status = "APPROVED", ![i].task = n]
      /\ UNCHANGED <<project, discipline, session, request, checking>>
  BY DEF ApproveProposal, Insert
<1> HIDE DEF n, new
<1>6. /\ DOMAIN task' = DOMAIN task \cup {n} /\ DOMAIN task' \subseteq TaskIds
      /\ task' \in [DOMAIN task' -> TaskRow] /\ task'[n] = new
      /\ \A k \in DOMAIN task : task'[k] = task[k]
  BY <1>0, <1>1, <1>4, <1>5 DEF WithRow, RegistryTypeOK
<1>7. /\ DOMAIN origin' = DOMAIN task' /\ origin'[n] = i
      /\ \A k \in DOMAIN task : origin'[k] = origin[k]
  BY <1>0, <1>1, <1>5, <1>6 DEF WithRow
<1>8. /\ DOMAIN proposal' = DOMAIN proposal /\ proposal' \in [DOMAIN proposal' -> ProposalRow]
      /\ proposal'[i].status = "APPROVED" /\ proposal'[i].task = n
      /\ \A k \in DOMAIN proposal : k # i => proposal'[k] = proposal[k]
  BY <1>0, <1>1, <1>2, <1>5 DEF ProposalRow, Statuses
<1>9. RegistryTypeOK' /\ TasksHaveProjects'
  BY <1>0, <1>2, <1>4, <1>5, <1>6 DEF RegistryTypeOK, TasksHaveProjects, LiveProject
<1>10. ApprovalsTypeOK'
  BY <1>0, <1>5, <1>7, <1>8, <1>9 DEF ApprovalsIInv, ApprovalsTypeOK
<1>11. \A k \in DOMAIN task : origin[k] # "added" => origin[k] # i
  <2>1. NoTask \notin DOMAIN task
    BY <1>0 DEF RegistryTypeOK, TaskIds, NoTask
  <2> QED BY <1>2, <2>1 DEF ApprovalsIInv, TaskOrigins
<1>12. TaskOrigins'
  <2>1. \A k \in DOMAIN task' :
          origin'[k] # "added" =>
            /\ origin'[k] \in DOMAIN proposal'
            /\ proposal'[origin'[k]].task = k
            /\ task'[k].project = Wanted[origin'[k]].project
    BY <1>2, <1>4, <1>6, <1>7, <1>8, <1>11 DEF ApprovalsIInv, TaskOrigins
  <2>2. \A k \in DOMAIN proposal' :
          IF proposal'[k].status = "APPROVED"
          THEN proposal'[k].task \in DOMAIN task' /\ origin'[proposal'[k].task] = k
          ELSE proposal'[k].task = NoTask
    BY <1>6, <1>7, <1>8 DEF ApprovalsIInv, TaskOrigins
  <2> QED BY <2>1, <2>2 DEF TaskOrigins
<1>13. RequestsRefer'
  BY <1>5, <1>6, <1>8 DEF ApprovalsIInv, RequestsRefer
<1>14. SoftDeleteStep
  BY <1>2, <1>4, <1>5, <1>6 DEF SoftDeleteStep, LiveProject
<1> QED BY <1>2, <1>5, <1>8, <1>9, <1>10, <1>12, <1>13, <1>14 DEF ApprovalsIInv

\* Approving a request edits the dates of one live task.
LEMMA RequestApproved ==
  ASSUME ApprovalsIInv, NEW i \in DOMAIN Asked, ApproveRequest(i)
  PROVE  /\ ApprovalsIInv' /\ SoftDeleteStep /\ UNCHANGED proposal
         /\ DOMAIN request' = DOMAIN request
         /\ \A k \in DOMAIN request : request[k] # "PENDING" => request'[k] = request[k]
<1> DEFINE n   == Asked[i].task
           row == [task[n] EXCEPT !.start = Asked[i].start, !.end = Asked[i].end]
<1>0. /\ DOMAIN request \subseteq DOMAIN Asked /\ request \in [DOMAIN request -> Statuses]
      /\ RegistryTypeOK /\ TasksHaveProjects
  BY DEF ApprovalsIInv, ApprovalsTypeOK
<1>1. LiveTask(n) /\ n \in DOMAIN task /\ task[n] \in TaskRow
  BY <1>0 DEF ApproveRequest, LiveTask, RegistryTypeOK
<1>2. Asked[i].start \in PlannedDates /\ Asked[i].end \in PlannedDates
  BY ApprovalsConstants, RegistryConstants DEF Days, PlannedDates
<1>3. row \in TaskRow /\ row.project = task[n].project
  BY <1>1, <1>2 DEF TaskRow
<1>4. task' = [task EXCEPT ![n] = row]
  BY <1>0, <1>1 DEF ApproveRequest, RegistryTypeOK
<1>5. /\ request' = [request EXCEPT ![i] = "APPROVED"] /\ request[i] = "PENDING"
      /\ UNCHANGED <<project, discipline, session, proposal, checking, origin>>
  BY DEF ApproveRequest, PendingRequest
<1> HIDE DEF row, n
<1>6. /\ DOMAIN task' = DOMAIN task /\ task' \in [DOMAIN task' -> TaskRow]
      /\ \A m \in DOMAIN task : m # n => task'[m] = task[m]
      /\ \A m \in DOMAIN task : task'[m].project = task[m].project
  BY <1>0, <1>1, <1>3, <1>4 DEF RegistryTypeOK
<1>7. /\ DOMAIN request' = DOMAIN request /\ request' \in [DOMAIN request -> Statuses]
      /\ \A k \in DOMAIN request : request[k] # "PENDING" => request'[k] = request[k]
  BY <1>0, <1>5 DEF Statuses
<1>8. RegistryTypeOK' /\ TasksHaveProjects'
  BY <1>0, <1>5, <1>6 DEF RegistryTypeOK, TasksHaveProjects
<1>9. ApprovalsTypeOK'
  BY <1>0, <1>5, <1>6, <1>7, <1>8 DEF ApprovalsIInv, ApprovalsTypeOK
<1>10. TaskOrigins' /\ RequestsRefer'
  BY <1>5, <1>6, <1>7 DEF ApprovalsIInv, TaskOrigins, RequestsRefer
<1>11. SoftDeleteStep
  BY <1>1, <1>5, <1>6 DEF SoftDeleteStep
<1> QED BY <1>5, <1>7, <1>8, <1>9, <1>10, <1>11 DEF ApprovalsIInv

\* What an Admin does to projects and tasks leaves every decision in place.
LEMMA AdminSteps ==
  ASSUME ApprovalsIInv, AdminStep
  PROVE  ApprovalsIInv' /\ SoftDeleteStep /\ UNCHANGED <<proposal, request>>
<1>1. RegistryTypeOK /\ TasksHaveProjects
  BY DEF ApprovalsIInv, ApprovalsTypeOK
<1>2. /\ RegistryNext
      /\ origin' = [n \in DOMAIN task' |-> IF n \in DOMAIN task THEN origin[n] ELSE "added"]
      /\ UNCHANGED <<proposal, request, checking>>
  BY DEF AdminStep
<1>3. RegistryTypeOK' /\ TasksHaveProjects'
  BY <1>1, <1>2, RegistryStep
<1>4. SoftDeleteStep
  BY <1>1, <1>2, SoftDeleteHolds
<1>5. ApprovalsTypeOK'
  BY <1>2, <1>3 DEF ApprovalsIInv, ApprovalsTypeOK
<1>6. TaskOrigins' /\ RequestsRefer'
  BY <1>2, <1>4 DEF ApprovalsIInv, TaskOrigins, RequestsRefer, SoftDeleteStep
<1> QED BY <1>2, <1>3, <1>4, <1>5, <1>6 DEF ApprovalsIInv

-----------------------------------------------------------------------------
(* Every step *)

\* The content of DecisionsFinal, for one step.
DecisionsStep ==
  /\ \A i \in DOMAIN proposal :
       /\ i \in DOMAIN proposal'
       /\ proposal[i].status # "PENDING" => proposal'[i] = proposal[i]
  /\ \A i \in DOMAIN request :
       /\ i \in DOMAIN request'
       /\ request[i] # "PENDING" => request'[i] = request[i]

\* Every step keeps the invariant, what was deleted and what was decided.
LEMMA ApprovalsStep ==
  ApprovalsIInv /\ ApprovalsNext => ApprovalsIInv' /\ SoftDeleteStep /\ DecisionsStep
<1> SUFFICES ASSUME ApprovalsIInv, ApprovalsNext
             PROVE  ApprovalsIInv' /\ SoftDeleteStep /\ DecisionsStep
  OBVIOUS
<1>1. CASE AdminStep
  BY <1>1, AdminSteps DEF DecisionsStep
<1>2. ASSUME NEW i \in DOMAIN Wanted, ProposeTask(i) \/ RejectProposal(i)
      PROVE  ApprovalsIInv' /\ SoftDeleteStep /\ DecisionsStep
  BY <1>2, ProposalHandling DEF SoftDeleteStep, DecisionsStep, registryVars
<1>3. ASSUME NEW i \in DOMAIN Wanted, NEW today \in Days, ApproveProposal(today, i)
      PROVE  ApprovalsIInv' /\ SoftDeleteStep /\ DecisionsStep
  BY <1>3, ProposalApproved DEF DecisionsStep
<1>4. ASSUME NEW c \in Handlers,
             (\E i \in DOMAIN Asked : ReadProjects(c, i)) \/ ReadTasks(c) \/ StoreRequest(c)
      PROVE  ApprovalsIInv' /\ SoftDeleteStep /\ DecisionsStep
  BY <1>4, RequestHandling DEF SoftDeleteStep, DecisionsStep, registryVars
<1>5. ASSUME NEW i \in DOMAIN Asked, ApproveRequest(i)
      PROVE  ApprovalsIInv' /\ SoftDeleteStep /\ DecisionsStep
  BY <1>5, RequestApproved DEF DecisionsStep
<1>6. ASSUME NEW i \in DOMAIN Asked, RejectRequest(i)
      PROVE  ApprovalsIInv' /\ SoftDeleteStep /\ DecisionsStep
  BY <1>6, RequestRejected DEF SoftDeleteStep, DecisionsStep, registryVars
<1> QED BY <1>1, <1>2, <1>3, <1>4, <1>5, <1>6 DEF ApprovalsNext

\* A stutter changes none of the variables.
LEMMA ApprovalsStutter == ApprovalsIInv /\ UNCHANGED allVars => ApprovalsIInv'
BY DEF ApprovalsIInv, ApprovalsTypeOK, RegistryTypeOK, TasksHaveProjects, TaskOrigins,
       RequestsRefer, allVars

-----------------------------------------------------------------------------
(* The theorems *)

\* The inductive invariant: types, foreign keys, and the tie between each
\* approved proposal and the one task made from it.
THEOREM ApprovalsInvariant == ApprovalsSpec => []ApprovalsIInv
BY ApprovalsStart, ApprovalsStep, ApprovalsStutter, PTL DEF ApprovalsSpec

\* Every table, and every handler between two of its calls, keeps its type.
THEOREM ApprovalsAreTyped == ApprovalsSpec => []ApprovalsTypeOK
<1>1. ApprovalsIInv => ApprovalsTypeOK
  BY DEF ApprovalsIInv
<1> QED BY <1>1, ApprovalsInvariant, PTL

\* However often and by whomever a proposal is sent and decided, it is APPROVED
\* exactly when one task was made from it.
THEOREM OneTaskPerProposal == ApprovalsSpec => []TaskOrigins
<1>1. ApprovalsIInv => TaskOrigins
  BY DEF ApprovalsIInv
<1> QED BY <1>1, ApprovalsInvariant, PTL

\* What is asked for concerns projects and tasks that have rows.
THEOREM RequestsHaveSubjects == ApprovalsSpec => []RequestsRefer
<1>1. ApprovalsIInv => RequestsRefer
  BY DEF ApprovalsIInv
<1> QED BY <1>1, ApprovalsInvariant, PTL

\* A decision is never taken back or changed.
THEOREM DecisionsStand == ApprovalsSpec => DecisionsFinal
<1>1. ApprovalsIInv /\ [ApprovalsNext]_allVars => [DecisionsStep]_allVars
  BY ApprovalsStep
<1> QED BY <1>1, ApprovalsInvariant, PTL DEF ApprovalsSpec, DecisionsFinal, DecisionsStep

\* Deciding what the Heads ask for respects soft deletion too: an approval
\* edits no task that is deleted, and makes none in a deleted project.
THEOREM ApprovalsRespectDeletion == ApprovalsSpec => SoftDelete
<1>1. ApprovalsIInv /\ [ApprovalsNext]_allVars => [SoftDeleteStep]_registryVars
  BY ApprovalsStep DEF registryVars, allVars
<1> QED BY <1>1, ApprovalsInvariant, PTL DEF ApprovalsSpec, SoftDelete, SoftDeleteStep
=============================================================================
