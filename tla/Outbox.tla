------------------------------- MODULE Outbox -------------------------------
(***************************************************************************)
(* The reliable outbox of a Head's PC and the server end it talks to:      *)
(* SyncService (app/services/sync_service.py) over ClientQueueDBManager    *)
(* (app/database/db_manager.py), the connection life cycle of              *)
(* NetworkClient (app/network/client.py) and the dispatch and idempotent   *)
(* writes of the Central Server for the four queued actions.               *)
(*                                                                         *)
(* Items are the rows of client_queue.db, numbered by their AUTOINCREMENT  *)
(* queue_id, so i < j says that i was submitted before j.  A connection is *)
(* a FIFO of requests: the server's handler reads one message at a time.   *)
(* The requests a dropped connection had delivered stay in its FIFO, and   *)
(* the server may still serve them or lose them.                           *)
(***************************************************************************)
EXTENDS Naturals, Sequences

CONSTANTS
  NumItems,            \* bound: submissions of the Head
  Kind,                \* the queued action of each item
  MaxConns,            \* bound: connections the client opens
  MaxFaults,           \* bound: drops, timeouts, INTERNAL replies, ended sessions
  MaxChanges,          \* bound: changes an Admin makes to the items' targets
  PasswordChangeLogins \* may a login go through the forced password change?

Items == 1 .. NumItems
Conns == 1 .. MaxConns

\* QUEUED_ACTIONS
Kinds == {"SUBMIT_LOG", "PROPOSE_TASK", "REQUEST_TASK_DATE_CHANGE", "RESPOND_NOTIFICATION"}

ASSUME OutboxConstants ==
  /\ NumItems \in Nat /\ MaxConns \in Nat /\ MaxFaults \in Nat /\ MaxChanges \in Nat
  /\ Kind \in [Items -> Kinds]
  /\ PasswordChangeLogins \in BOOLEAN

VARIABLES
  \* client_queue.db: survives the end of the session and of the program
  submitted,  \* the last queue_id handed out
  status,     \* PENDING, FAILED; "none" before, "synced" / "discarded" after the row is deleted
  \* the running client
  app,        \* "closed" or "open": a HeadWorkspace with its SyncService
  conn,       \* the connection in use, 0 when is_connected is False
  opened,     \* connections opened so far
  retryTask,  \* _periodic_retry is running
  wake,       \* a flush_offline_queue coroutine is scheduled and has not started
  flush,      \* the coroutine that holds _flush_lock: "idle", "loop" or "wait"
  batch,      \* the items of its snapshot it is not done with
  reply,      \* the reply to its request: "none", "ok", "refused" or "error"
  \* the network and the Central Server
  wire,       \* the unread requests of each connection
  copies,     \* how many rows the server's tables hold for each item
  head,       \* the account still has the role HEAD
  blocked,    \* items whose task or project is hidden, deleted or moved, or alert answered
  refused,    \* history: items the server answered with a permanent error
  faults, changes

clientVars == <<submitted, status, app, conn, opened, retryTask, wake, flush, batch, reply>>
serverVars == <<copies, head, blocked, refused, changes>>
vars == <<submitted, status, app, conn, opened, retryTask, wake, flush, batch, reply,
          wire, copies, head, blocked, refused, faults, changes>>

Init ==
  /\ submitted = 0
  /\ status = [i \in Items |-> "none"]
  /\ app = "closed" /\ conn = 0 /\ opened = 0
  /\ retryTask = FALSE /\ wake = FALSE
  /\ flush = "idle" /\ batch = {} /\ reply = "none"
  /\ wire = [c \in Conns |-> <<>>]
  /\ copies = [i \in Items |-> 0]
  /\ head = TRUE /\ blocked = {} /\ refused = {}
  /\ faults = 0 /\ changes = 0

Pending == {i \in Items : status[i] = "PENDING"}
Stored  == {i \in Items : copies[i] > 0}

\* The item whose turn it is: get_items orders the snapshot by queue_id.
Current == CHOOSE i \in batch : \A k \in batch : i <= k

Fault == faults < MaxFaults /\ faults' = faults + 1

-----------------------------------------------------------------------------
(* The Head and the outbox *)

\* submit: the row is written before anything is sent; schedule_flush only
\* schedules while connected.
Submit ==
  /\ app = "open" /\ submitted < NumItems
  /\ submitted' = submitted + 1
  /\ status' = [status EXCEPT ![submitted + 1] = "PENDING"]
  /\ wake' = (wake \/ conn # 0)
  /\ UNCHANGED <<app, conn, opened, retryTask, flush, batch, reply, wire, faults, serverVars>>

\* retry_failed, from the dialog that lists the FAILED items
Retry(i) ==
  /\ app = "open" /\ status[i] = "FAILED"
  /\ status' = [status EXCEPT ![i] = "PENDING"]
  /\ wake' = (wake \/ conn # 0)
  /\ UNCHANGED <<submitted, app, conn, opened, retryTask, flush, batch, reply, wire, faults, serverVars>>

\* Mutant: discards an item that was not refused.
DiscardWaiting(i) ==
  /\ app = "open" /\ status[i] \in {"PENDING", "FAILED"}
  /\ status' = [status EXCEPT ![i] = "discarded"]
  /\ UNCHANGED <<submitted, app, conn, opened, retryTask, wake, flush, batch, reply, wire, faults, serverVars>>

\* discard_failed
Discard(i) ==
  /\ app = "open" /\ status[i] = "FAILED"
  /\ status' = [status EXCEPT ![i] = "discarded"]
  /\ UNCHANGED <<submitted, app, conn, opened, retryTask, wake, flush, batch, reply, wire, faults, serverVars>>

\* flush_offline_queue takes the lock and reads its snapshot.
TakeBatch ==
  /\ batch' = Pending
  /\ flush' = IF Pending = {} THEN "idle" ELSE "loop"

\* Mutant: does not look at the lock.
FlushStartUnlocked ==
  /\ wake /\ wake' = FALSE
  /\ TakeBatch
  /\ UNCHANGED <<submitted, status, app, conn, opened, retryTask, reply, wire, faults, serverVars>>

\* A scheduled flush_offline_queue runs: it returns at once when the lock is held.
FlushStart ==
  /\ wake /\ wake' = FALSE
  /\ IF flush = "idle" THEN TakeBatch ELSE UNCHANGED <<flush, batch>>
  /\ UNCHANGED <<submitted, status, app, conn, opened, retryTask, reply, wire, faults, serverVars>>

\* Mutant: one round only, without the loop around it.
PeriodicRetryOnce ==
  /\ retryTask /\ conn # 0 /\ Pending # {}
  /\ flush = "idle" /\ TakeBatch
  /\ retryTask' = FALSE
  /\ UNCHANGED <<submitted, status, app, conn, opened, wake, reply, wire, faults, serverVars>>

\* One round of _periodic_retry, every RETRY_INTERVAL_SECONDS
PeriodicRetry ==
  /\ retryTask /\ conn # 0 /\ Pending # {}
  /\ flush = "idle" /\ TakeBatch
  /\ UNCHANGED <<submitted, status, app, conn, opened, retryTask, wake, reply, wire, faults, serverVars>>

\* break: the lock is released, the rest of the snapshot forgotten.
StopFlush == flush' = "idle" /\ batch' = {} /\ reply' = "none"

\* The next item of the loop is sent, or the loop ends because the client is offline.
FlushSend ==
  /\ flush = "loop"
  /\ \/ /\ conn = 0 /\ StopFlush
        /\ UNCHANGED wire
     \/ /\ conn # 0
        /\ wire' = [wire EXCEPT ![conn] = Append(@, Current)]
        /\ flush' = "wait" /\ reply' = "none"
        /\ UNCHANGED batch
  /\ UNCHANGED <<submitted, status, app, conn, opened, retryTask, wake, faults, serverVars>>

\* The loop goes on with the next item of the snapshot, or ends after the last.
NextItem ==
  /\ batch' = batch \ {Current}
  /\ flush' = IF batch = {Current} THEN "idle" ELSE "loop"
  /\ reply' = "none"

\* The request returned: delete_item.
ReplyOk ==
  /\ flush = "wait" /\ reply = "ok"
  /\ status' = [status EXCEPT ![Current] = "synced"]
  /\ NextItem
  /\ UNCHANGED <<submitted, app, conn, opened, retryTask, wake, wire, faults, serverVars>>

\* ServerError with a code of PERMANENT_ERROR_CODES: mark_failed, continue.
ReplyRefused ==
  /\ flush = "wait" /\ reply = "refused"
  /\ status' = [status EXCEPT ![Current] = "FAILED"]
  /\ NextItem
  /\ UNCHANGED <<submitted, app, conn, opened, retryTask, wake, wire, faults, serverVars>>

\* Mutant: goes on with the next item after a transient error.
ReplyErrorContinues ==
  /\ flush = "wait" /\ reply = "error"
  /\ NextItem
  /\ UNCHANGED <<submitted, status, app, conn, opened, retryTask, wake, wire, faults, serverVars>>

\* Mutant: takes a transient error for a refusal.
ReplyErrorFails ==
  /\ flush = "wait" /\ reply = "error"
  /\ status' = [status EXCEPT ![Current] = "FAILED"]
  /\ StopFlush
  /\ UNCHANGED <<submitted, app, conn, opened, retryTask, wake, wire, faults, serverVars>>

\* ServerError with another code: break, the item stays PENDING.
ReplyError ==
  /\ flush = "wait" /\ reply = "error"
  /\ StopFlush
  /\ UNCHANGED <<submitted, status, app, conn, opened, retryTask, wake, wire, faults, serverVars>>

\* No reply within 20 s: break.  The request, or its reply, may still be on the way.
Timeout ==
  /\ flush = "wait" /\ Fault
  /\ StopFlush
  /\ UNCHANGED <<submitted, status, app, conn, opened, retryTask, wake, wire, serverVars>>

-----------------------------------------------------------------------------
(* The connection and the session *)

\* The session loop sees the connection end: _fail_pending raises OfflineError
\* in the flush that waits.  Also the client's view of a server restart.
Drop ==
  /\ conn # 0 /\ Fault
  /\ conn' = 0
  /\ IF flush = "wait" THEN StopFlush ELSE UNCHANGED <<flush, batch, reply>>
  /\ UNCHANGED <<submitted, status, app, opened, retryTask, wake, wire, serverVars>>

OpenConn == opened < MaxConns /\ opened' = opened + 1 /\ conn' = opened + 1

\* RESUME succeeded: connection_status_changed(True) schedules a flush and
\* starts _periodic_retry if it is not running.
Reconnect ==
  /\ app = "open" /\ conn = 0 /\ OpenConn
  /\ wake' = TRUE /\ retryTask' = TRUE
  /\ UNCHANGED <<submitted, status, app, flush, batch, reply, wire, faults, serverVars>>

\* Logout, session_expired or the end of the program: the SyncService is gone,
\* the queue file stays.
EndSession ==
  /\ app = "open" /\ Fault
  /\ app' = "closed" /\ conn' = 0
  /\ retryTask' = FALSE /\ wake' = FALSE
  /\ StopFlush
  /\ UNCHANGED <<submitted, status, opened, wire, serverVars>>

\* open_workspace: schedule_flush at its end finds the client connected.  The
\* SyncService hears connection_status_changed(True), which the session loop
\* emits after the login, and starts _periodic_retry -
OpenWorkspace(hearsStatus) ==
  /\ app = "closed" /\ head /\ OpenConn
  /\ app' = "open" /\ wake' = TRUE /\ retryTask' = hearsStatus
  /\ UNCHANGED <<submitted, status, flush, batch, reply, wire, faults, serverVars>>

Login == OpenWorkspace(TRUE)

\* - except when the forced password change came first: its modal dialog runs
\* the event loop, so the signal was emitted before the SyncService connected.
LoginWithPasswordChange == PasswordChangeLogins /\ OpenWorkspace(FALSE)

-----------------------------------------------------------------------------
(* The Central Server *)

\* The request just read is the one the flush is waiting for: it was the last sent.
Awaited(c) == flush = "wait" /\ c = conn /\ Len(wire[c]) = 1

Take(c) == wire[c] # <<>> /\ wire' = [wire EXCEPT ![c] = Tail(@)]

Answer(c, r) == reply' = IF Awaited(c) THEN r ELSE reply

\* FORBIDDEN, decided before the server looks for a stored copy: the role in
\* handle_message, the task's visibility in a_request_date_change.
Forbidden(i) == ~head \/ (Kind[i] = "REQUEST_TASK_DATE_CHANGE" /\ i \in blocked)

\* A permanent error: FORBIDDEN, or a validation that fails with no copy stored.
Refuses(i) == Forbidden(i) \/ (i \in blocked /\ i \notin Stored)

ServerRefuse(c) ==
  /\ Take(c) /\ Refuses(Head(wire[c]))
  /\ refused' = refused \cup {Head(wire[c])}
  /\ Answer(c, "refused")
  /\ UNCHANGED <<submitted, status, app, conn, opened, retryTask, wake, flush, batch,
                 copies, head, blocked, faults, changes>>

\* Mutant: inserts without looking for a stored copy.
WriteAlways(i) == [copies EXCEPT ![i] = @ + 1]

\* The writes are idempotent: a copy already stored is returned as it is.
WriteOnce(i) == IF i \in Stored THEN copies ELSE [copies EXCEPT ![i] = @ + 1]

ServerStore(c) ==
  /\ Take(c) /\ ~Refuses(Head(wire[c]))
  /\ copies' = WriteOnce(Head(wire[c]))
  /\ Answer(c, "ok")
  /\ UNCHANGED <<submitted, status, app, conn, opened, retryTask, wake, flush, batch,
                 head, blocked, refused, faults, changes>>

\* An unexpected exception: INTERNAL, nothing stored.
ServerError(c) ==
  /\ Take(c) /\ Fault
  /\ Answer(c, "error")
  /\ UNCHANGED <<submitted, status, app, conn, opened, retryTask, wake, flush, batch, serverVars>>

\* The server notices that a connection is gone: what it had not read is lost.
LoseWire(c) ==
  /\ c # conn /\ wire[c] # <<>>
  /\ wire' = [wire EXCEPT ![c] = <<>>]
  /\ UNCHANGED <<clientVars, serverVars, faults>>

\* An Admin hides, deletes, moves or restores the item's target; an alert is
\* answered the other way from another PC, which nothing takes back.
ChangeTarget(i) ==
  /\ changes < MaxChanges /\ changes' = changes + 1
  /\ Kind[i] = "RESPOND_NOTIFICATION" => i \notin blocked
  /\ blocked' = IF i \in blocked THEN blocked \ {i} ELSE blocked \cup {i}
  /\ UNCHANGED <<clientVars, wire, copies, head, refused, faults>>

\* UPDATE_USER gives the account another role, or its old role back.
ChangeRole ==
  /\ changes < MaxChanges /\ changes' = changes + 1
  /\ head' = ~head
  /\ UNCHANGED <<clientVars, wire, copies, blocked, refused, faults>>

-----------------------------------------------------------------------------
Serve(c) == ServerRefuse(c) \/ ServerStore(c)

Next ==
  \/ Submit \/ FlushStart \/ PeriodicRetry \/ FlushSend
  \/ ReplyOk \/ ReplyRefused \/ ReplyError \/ Timeout
  \/ Drop \/ Reconnect \/ EndSession \/ Login \/ LoginWithPasswordChange
  \/ ChangeRole
  \/ \E i \in Items : Retry(i) \/ Discard(i) \/ ChangeTarget(i)
  \/ \E c \in Conns : Serve(c) \/ ServerError(c) \/ LoseWire(c)

Spec == Init /\ [][Next]_vars

(***************************************************************************)
(* Fairness: the event loop runs what is ready (a scheduled flush, its     *)
(* next step, a reply that arrived), the retry timer fires, the client     *)
(* reconnects while the server is reachable, and the server reads every    *)
(* open connection.  Nothing obliges the Head, the Admin or a fault.       *)
(***************************************************************************)
Fairness ==
  /\ WF_vars(FlushStart) /\ WF_vars(FlushSend) /\ WF_vars(PeriodicRetry)
  /\ WF_vars(ReplyOk \/ ReplyRefused \/ ReplyError)
  /\ WF_vars(Reconnect)
  /\ \A c \in Conns : WF_vars(Serve(c))

FairSpec == Spec /\ Fairness

-----------------------------------------------------------------------------
(* Properties *)

TypeOK ==
  /\ submitted \in 0 .. NumItems
  /\ status \in [Items -> {"none", "PENDING", "FAILED", "synced", "discarded"}]
  /\ app \in {"closed", "open"}
  /\ conn \in 0 .. MaxConns /\ opened \in 0 .. MaxConns /\ conn <= opened
  /\ retryTask \in BOOLEAN /\ wake \in BOOLEAN
  /\ flush \in {"idle", "loop", "wait"}
  /\ batch \in SUBSET Items
  /\ reply \in {"none", "ok", "refused", "error"}
  /\ wire \in [Conns -> Seq(Items)]
  /\ copies \in [Items -> Nat]
  /\ head \in BOOLEAN
  /\ blocked \in SUBSET Items /\ refused \in SUBSET Items
  /\ faults \in 0 .. MaxFaults /\ changes \in 0 .. MaxChanges

\* Whatever is lost, repeated or late, no submission is stored twice, and one
\* whose row the client deleted because the server confirmed it is stored.
ExactlyOnce ==
  \A i \in Items :
    /\ copies[i] <= 1
    /\ status[i] = "synced" => copies[i] = 1

\* "Stops at the first transient failure to preserve ordering": when the server
\* holds a submission, each earlier one is stored too or was refused at least
\* once, through every timeout, reconnect, restart and left-over copy.
InOrder ==
  \A i, j \in Items : i < j /\ j \in Stored => i \in Stored \/ i \in refused

\* A submission is FAILED, or discarded, only after the server really refused it.
FailedWasRefused ==
  \A i \in Items : status[i] \in {"FAILED", "discarded"} => i \in refused

\* A submission that waits while the periodic retry runs is sent and answered, also
\* one whose own flush found the lock held: it does not stay PENDING for ever.
RetryDrains ==
  \A i \in Items :
    (status[i] = "PENDING" /\ app = "open" /\ retryTask) ~> (status[i] # "PENDING" \/ app = "closed")

\* "Items are retried automatically every 30 seconds": the same of every submission
\* waiting in the outbox of an open workspace.
PendingDrains ==
  \A i \in Items :
    (status[i] = "PENDING" /\ app = "open") ~> (status[i] # "PENDING" \/ app = "closed")

\* The text of the Rejected Items dialog, "These items were not saved": a FAILED
\* item has no copy on the server.
FailedNotStored == \A i \in Items : status[i] = "FAILED" => i \notin Stored

(***************************************************************************)
(* The outbox keeps the promise of OutboxPromise.                          *)
(***************************************************************************)
fate ==
  [i \in Items |->
    IF status[i] = "none" THEN "new"
    ELSE IF i \in Stored THEN "saved"
    ELSE IF status[i] = "discarded" THEN "dropped"
    ELSE "held"]

Promise == INSTANCE OutboxPromise WITH fate <- fate, refused <- refused

\* Every step of the outbox is a step of the promise or leaves it alone.
KeepsPromise == Promise!Spec

(***************************************************************************)
(* The inductive invariant behind the safety properties.                   *)
(***************************************************************************)

\* queue_ids are handed out one after the other.
Numbered == \A i \in Items : status[i] = "none" <=> i > submitted

\* A flush runs exactly while its snapshot has items left, all of them PENDING.
FlushShape ==
  /\ flush = "idle" <=> batch = {}
  /\ batch \subseteq Pending
  /\ flush # "idle" \/ wake \/ retryTask => app = "open"
  /\ flush = "wait" => conn # 0
  /\ flush # "wait" => reply = "none"

\* A PENDING item the snapshot lacks, older than one it has, was once refused.
SnapshotComplete ==
  \A j \in batch : \A i \in Pending : i < j => i \in batch \/ i \in refused

\* Everything sent is submitted, with nothing older left behind.
Cleared(j) ==
  /\ j <= submitted
  /\ \A i \in Items : i < j => i \in Stored \/ i \in refused

SentInOrder == \A c \in Conns : \A k \in 1 .. Len(wire[c]) : Cleared(wire[c][k])

\* Only opened connections carry requests.
Unopened == \A c \in Conns : c > opened => wire[c] = <<>>

\* A request awaiting its reply is the last one of the connection, and the
\* reply in hand says what the server did with it.
Awaiting ==
  flush = "wait" =>
    /\ Cleared(Current)
    /\ reply = "none" => /\ wire[conn] # <<>>
                         /\ wire[conn][Len(wire[conn])] = Current
    /\ reply # "none" => wire[conn] = <<>>
    /\ reply = "ok" => copies[Current] > 0
    /\ reply = "refused" => Current \in refused

StoredShape ==
  /\ \A i \in Items : copies[i] > 0 => Cleared(i)
  /\ \A i \in Items : i \in refused => Cleared(i)

IInv ==
  /\ TypeOK /\ Numbered /\ FlushShape /\ SnapshotComplete /\ SentInOrder
  /\ Unopened /\ Awaiting /\ StoredShape /\ ExactlyOnce /\ FailedWasRefused
=============================================================================
