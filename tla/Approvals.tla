----------------------------- MODULE Approvals ------------------------------
(***************************************************************************)
(* Task proposals and date change requests: what Heads ask for and what    *)
(* the Admins decide, over the projects, tasks and accounts of Registry.   *)
(*                                                                         *)
(* Each call is repeatable: the outbox of a Head resends a request, and    *)
(* two Admins may click on the same one, with the same or with opposite    *)
(* decisions.  Storing a proposal and each decision is one transaction;    *)
(* the handler of REQUEST_TASK_DATE_CHANGE awaits three database calls,    *)
(* between which other handlers run theirs.                                *)
(***************************************************************************)
EXTENDS Registry

CONSTANTS
  Wanted,    \* the proposals the Heads' PCs generate, by proposal_id
  Asked,     \* the date change requests they generate, by request_id
  Handlers   \* bound: REQUEST_TASK_DATE_CHANGE messages handled at a time

ASSUME ApprovalsConstants ==
  /\ \A i \in DOMAIN Wanted :
       Wanted[i] \in [by: Heads, project: Projects, start: Days \cup {NoDate}, end: Days \cup {NoDate}]
  /\ \A i \in DOMAIN Asked : Asked[i] \in [by: Heads, task: TaskIds, start: Days, end: Days]

VARIABLES
  proposal,   \* rows of task_proposals
  request,    \* rows of task_date_change_requests
  checking,   \* the date change requests being handled, between two database calls
  origin      \* history: what made each task, "added" (by an Admin) or a proposal_id

allVars == <<project, task, discipline, session, proposal, request, checking, origin>>

Statuses == {"PENDING", "APPROVED", "REJECTED"}
NoTask == 0   \* task_proposals.task_id is NULL

ProposalRow == [status: Statuses, discipline: Disciplines, task: TaskIds \cup {NoTask}]
CheckRow ==
  [id: DOMAIN Asked, step: {"projects", "tasks"}, as: Disciplines, visible: SUBSET Projects]

ApprovalsInit ==
  /\ RegistryInit
  /\ proposal = [i \in {} |-> "PENDING"]
  /\ request = [i \in {} |-> "PENDING"]
  /\ checking = [c \in {} |-> "projects"]
  /\ origin = [n \in {} |-> "added"]

-----------------------------------------------------------------------------
(* Task proposals *)

\* create_task_proposal, behind PROPOSE_TASK: a stored proposal_id is returned.
ProposeTask(i) ==
  LET want == Wanted[i]
  IN /\ session[want.by] # NoDiscipline
     /\ want.start # NoDate /\ want.end # NoDate => want.start <= want.end
     /\ i \notin DOMAIN proposal
     /\ LiveProject(want.project) /\ project[want.project] = "active"
     /\ proposal' = WithRow(proposal, i, [status |-> "PENDING", task |-> NoTask,
                                          discipline |-> session[want.by]])
     /\ UNCHANGED <<registryVars, request, checking, origin>>

\* Mutant: an approved proposal may be decided again.
UndecidedProposal(i) == i \in DOMAIN proposal /\ proposal[i].status # "REJECTED"

PendingProposal(i) == i \in DOMAIN proposal /\ proposal[i].status = "PENDING"

\* Mutant: keeps the missing dates.
ApproveUndated(today, i) ==
  /\ PendingProposal(i)
  /\ LiveProject(Wanted[i].project)
  /\ NextTaskId <= MaxTasks
  /\ Insert(NextTaskId, Wanted[i].project, proposal[i].discipline, NoHead,
            Wanted[i].start, Wanted[i].end)
  /\ proposal' = [proposal EXCEPT ![i].status = "APPROVED", ![i].task = NextTaskId]
  /\ origin' = WithRow(origin, NextTaskId, i)
  /\ UNCHANGED <<project, discipline, session, request, checking>>

\* approve_task_proposal: the task is made in the transaction that records the
\* decision.  The dates are the requested ones, or today.
ApproveProposal(today, i) ==
  LET want  == Wanted[i]
      start == IF want.start = NoDate THEN today ELSE want.start
      end   == IF want.end = NoDate THEN start ELSE want.end
  IN /\ PendingProposal(i)
     /\ LiveProject(want.project)
     /\ NextTaskId <= MaxTasks
     /\ Insert(NextTaskId, want.project, proposal[i].discipline, NoHead, start, end)
     /\ proposal' = [proposal EXCEPT ![i].status = "APPROVED", ![i].task = NextTaskId]
     /\ origin' = WithRow(origin, NextTaskId, i)
     /\ UNCHANGED <<project, discipline, session, request, checking>>

RejectProposal(i) ==
  /\ PendingProposal(i)
  /\ proposal' = [proposal EXCEPT ![i].status = "REJECTED"]
  /\ UNCHANGED <<registryVars, request, checking, origin>>

-----------------------------------------------------------------------------
(* Date change requests *)

\* The message is read, with the session as it is then; _head_tasks asks for the
\* visible projects.
ReadProjects(c, i) ==
  /\ session[Asked[i].by] # NoDiscipline
  /\ c \notin DOMAIN checking
  /\ checking' = WithRow(checking, c, [id |-> i, step |-> "projects", as |-> session[Asked[i].by],
                                       visible |-> {p \in DOMAIN project : project[p] = "active"}])
  /\ UNCHANGED <<registryVars, proposal, request, origin>>

Finished(c) == checking' = [k \in DOMAIN checking \ {c} |-> checking[k]]

\* get_tasks of the Head's discipline, of which _head_tasks keeps those of the
\* projects read before.
ShownTo(h, d, n, projects) ==
  /\ n \in DOMAIN task /\ task[n].state = "active"
  /\ LiveProject(task[n].project) /\ task[n].project \in projects
  /\ Admits(task[n], h, d)

\* FORBIDDEN when the task is not among them.
ReadTasks(c) ==
  LET ask == Asked[checking[c].id]
  IN /\ c \in DOMAIN checking /\ checking[c].step = "projects"
     /\ IF ShownTo(ask.by, checking[c].as, ask.task, checking[c].visible)
        THEN checking' = [checking EXCEPT ![c].step = "tasks"]
        ELSE Finished(c)
     /\ UNCHANGED <<registryVars, proposal, request, origin>>

\* create_task_date_change_request: a stored request_id is returned, and the
\* task must still exist.
StoreRequest(c) ==
  LET i   == checking[c].id
      ask == Asked[i]
      new == i \notin DOMAIN request /\ ask.start <= ask.end /\ LiveTask(ask.task)
  IN /\ c \in DOMAIN checking /\ checking[c].step = "tasks"
     /\ Finished(c)
     /\ request' = IF new THEN WithRow(request, i, "PENDING") ELSE request
     /\ UNCHANGED <<registryVars, proposal, origin>>

\* Mutant: an approved request may be decided again.
UndecidedRequest(i) == i \in DOMAIN request /\ request[i] # "REJECTED"

PendingRequest(i) == i \in DOMAIN request /\ request[i] = "PENDING"

\* approve_task_date_change_request moves the task in the same transaction.
ApproveRequest(i) ==
  LET n == Asked[i].task
  IN /\ PendingRequest(i)
     /\ LiveTask(n)
     /\ task' = [task EXCEPT ![n].start = Asked[i].start, ![n].end = Asked[i].end]
     /\ request' = [request EXCEPT ![i] = "APPROVED"]
     /\ UNCHANGED <<project, discipline, session, proposal, checking, origin>>

RejectRequest(i) ==
  /\ PendingRequest(i)
  /\ request' = [request EXCEPT ![i] = "REJECTED"]
  /\ UNCHANGED <<registryVars, proposal, checking, origin>>

-----------------------------------------------------------------------------
\* An Admin's step; a task it adds has origin "added".
AdminStep ==
  /\ RegistryNext
  /\ origin' = [n \in DOMAIN task' |-> IF n \in DOMAIN task THEN origin[n] ELSE "added"]
  /\ UNCHANGED <<proposal, request, checking>>

ApprovalsNext ==
  \/ AdminStep
  \/ \E i \in DOMAIN Wanted :
       \/ ProposeTask(i) \/ RejectProposal(i)
       \/ \E today \in Days : ApproveProposal(today, i)
  \/ \E c \in Handlers :
       \/ \E i \in DOMAIN Asked : ReadProjects(c, i)
       \/ ReadTasks(c) \/ StoreRequest(c)
  \/ \E i \in DOMAIN Asked : ApproveRequest(i) \/ RejectRequest(i)

ApprovalsSpec == ApprovalsInit /\ [][ApprovalsNext]_allVars

-----------------------------------------------------------------------------
(* Properties *)

ApprovalsTypeOK ==
  /\ RegistryTypeOK
  /\ DOMAIN proposal \subseteq DOMAIN Wanted /\ proposal \in [DOMAIN proposal -> ProposalRow]
  /\ DOMAIN request \subseteq DOMAIN Asked /\ request \in [DOMAIN request -> Statuses]
  /\ DOMAIN checking \subseteq Handlers /\ checking \in [DOMAIN checking -> CheckRow]
  /\ DOMAIN origin = DOMAIN task

\* "Approving twice ... never creates a duplicate task": a proposal is APPROVED
\* exactly when one task was made from it, in its project; it names that task,
\* and any other task was added by an Admin.
TaskOrigins ==
  /\ \A n \in DOMAIN task :
       origin[n] # "added" =>
         /\ origin[n] \in DOMAIN proposal
         /\ proposal[origin[n]].task = n
         /\ task[n].project = Wanted[origin[n]].project
  /\ \A i \in DOMAIN proposal :
       IF proposal[i].status = "APPROVED"
       THEN proposal[i].task \in DOMAIN task /\ origin[proposal[i].task] = i
       ELSE proposal[i].task = NoTask

\* "can only be decided while pending": no decision is ever taken back or
\* changed, by another Admin, a second click or a resend of the request.
DecisionsFinal ==
  [][ /\ \A i \in DOMAIN proposal :
           /\ i \in DOMAIN proposal'
           /\ proposal[i].status # "PENDING" => proposal'[i] = proposal[i]
      /\ \A i \in DOMAIN request :
           /\ i \in DOMAIN request'
           /\ request[i] # "PENDING" => request'[i] = request[i]
    ]_allVars

\* Foreign keys: what is asked for concerns projects and tasks that have rows.
RequestsRefer ==
  /\ \A i \in DOMAIN proposal : Wanted[i].project \in DOMAIN project
  /\ \A i \in DOMAIN request : Asked[i].task \in DOMAIN task
=============================================================================
