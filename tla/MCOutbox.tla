------------------------------ MODULE MCOutbox ------------------------------
(***************************************************************************)
(* Instances of Outbox for TLC.                                            *)
(***************************************************************************)
EXTENDS Outbox, TLC

\* A date change request, whose visibility is checked before idempotency, and
\* a log, whose validation comes after it.
DateChangeThenLog == 1 :> "REQUEST_TASK_DATE_CHANGE" @@ 2 :> "SUBMIT_LOG"
=============================================================================
