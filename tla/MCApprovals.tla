---------------------------- MODULE MCApprovals -----------------------------
(***************************************************************************)
(* Instances of Approvals for TLC.                                         *)
(***************************************************************************)
EXTENDS Approvals, TLC

CONSTANTS h1, p1

\* Two tasks proposed for the same project, one without dates.
TwoProposals ==
  "PROP-1" :> [by |-> h1, project |-> p1, start |-> 1, end |-> 1] @@
  "PROP-2" :> [by |-> h1, project |-> p1, start |-> NoDate, end |-> NoDate]

\* A proposal that names its last day only.
EndOnly == "PROP-1" :> [by |-> h1, project |-> p1, start |-> NoDate, end |-> 1]

\* A request about the first task, which its Head's outbox may send again.
OneRequest == "DCR-1" :> [by |-> h1, task |-> 1, start |-> 1, end |-> 1]

\* The connections whose messages are handled are interchangeable.
SymHandlers == Permutations(Handlers)

NoRequests == [i \in {} |-> i]
=============================================================================
