---------------------------- MODULE OutboxProofs ----------------------------
(***************************************************************************)
(* Machine-checked safety of Outbox, for every number of submissions,      *)
(* connections, faults and changes.                                        *)
(***************************************************************************)
EXTENDS Outbox, Extrema, SequenceTheorems, TLAPS

\* The item the flush is at is the oldest one of its snapshot.
LEMMA CurrentIsOldest ==
  ASSUME TypeOK, batch # {}
  PROVE  /\ Current \in batch
         /\ Current \in Items
         /\ \A k \in batch : Current <= k
<1>1. \E i \in batch : \A k \in batch : i <= k
  BY OutboxConstants, HasLeast DEF TypeOK, Items
<1> QED BY <1>1 DEF Current, TypeOK

-----------------------------------------------------------------------------
(* The initial state *)

\* An empty queue and no connection satisfy the inductive invariant.
LEMMA InitIInv == Init => IInv
<1> SUFFICES ASSUME Init PROVE IInv
  OBVIOUS
<1>1. TypeOK
  <2>1. retryTask \in BOOLEAN /\ wake \in BOOLEAN /\ head \in BOOLEAN
    BY Zenon DEF Init
  <2>2. wire \in [Conns -> Seq(Items)] /\ copies \in [Items -> Nat]
    BY DEF Init
  <2> QED BY <2>1, <2>2, OutboxConstants DEF Init, TypeOK
<1>2. Numbered
  BY OutboxConstants DEF Init, Numbered, Items
<1>3. FlushShape /\ SnapshotComplete /\ Awaiting
  BY DEF Init, FlushShape, SnapshotComplete, Awaiting, Pending
<1>4. SentInOrder /\ Unopened
  BY DEF Init, SentInOrder, Unopened
<1>5. StoredShape /\ ExactlyOnce /\ FailedWasRefused
  BY DEF Init, StoredShape, ExactlyOnce, FailedWasRefused
<1> QED BY <1>1, <1>2, <1>3, <1>4, <1>5 DEF IInv

-----------------------------------------------------------------------------
(* Types *)

\* Every step of the client, the network and the server keeps the types.
LEMMA TypeStep == IInv /\ [Next]_vars => TypeOK'
<1> SUFFICES ASSUME IInv, [Next]_vars PROVE TypeOK'
  OBVIOUS
<1> USE OutboxConstants DEF IInv, TypeOK
<1>1. flush # "idle" => Current \in Items
  BY CurrentIsOldest DEF FlushShape
<1>2. CASE Submit
  BY <1>2 DEF Submit, serverVars, Items
<1>3. CASE \E i \in Items : Retry(i) \/ Discard(i)
  BY <1>3 DEF Retry, Discard, serverVars
<1>4. CASE FlushStart \/ PeriodicRetry
  BY <1>4 DEF FlushStart, PeriodicRetry, TakeBatch, Pending, serverVars
<1>5. CASE FlushSend
  <2>1. CASE conn = 0
    BY <1>5, <2>1 DEF FlushSend, StopFlush, serverVars
  <2>2. CASE conn # 0
    <3>1. conn \in Conns /\ Current \in Items
      BY <1>1, <1>5, <2>2 DEF FlushSend, Conns
    <3>2. Append(wire[conn], Current) \in Seq(Items)
      BY <3>1
    <3> QED BY <1>5, <2>2, <3>1, <3>2 DEF FlushSend, serverVars
  <2> QED BY <2>1, <2>2
<1>6. CASE ReplyOk \/ ReplyRefused \/ ReplyError \/ Timeout
  BY <1>6 DEF ReplyOk, ReplyRefused, ReplyError, Timeout, NextItem, StopFlush, Fault, serverVars
<1>7. CASE Drop \/ EndSession
  <2>1. retryTask' \in BOOLEAN /\ wake' \in BOOLEAN
    BY <1>7, Zenon DEF Drop, EndSession, serverVars
  <2> QED BY <1>7, <2>1 DEF Drop, EndSession, StopFlush, Fault, serverVars
<1>8. CASE Reconnect \/ Login \/ LoginWithPasswordChange
  <2>1. retryTask' \in BOOLEAN /\ wake' \in BOOLEAN
    BY <1>8, Zenon DEF Reconnect, Login, LoginWithPasswordChange, OpenWorkspace
  <2> QED BY <1>8, <2>1 DEF Reconnect, Login, LoginWithPasswordChange, OpenWorkspace, OpenConn, serverVars
<1>9. CASE \E c \in Conns : Serve(c) \/ ServerError(c)
  <2>1. PICK c \in Conns : Serve(c) \/ ServerError(c)
    BY <1>9
  <2>2. wire[c] # <<>> /\ wire' = [wire EXCEPT ![c] = Tail(@)]
    BY <2>1 DEF Serve, ServerRefuse, ServerStore, ServerError, Take
  <2>3. Head(wire[c]) \in Items /\ Tail(wire[c]) \in Seq(Items)
    BY <2>2
  <2>4. CASE ServerRefuse(c)
    BY <2>2, <2>3, <2>4 DEF ServerRefuse, Answer
  <2>5. CASE ServerStore(c)
    <3>1. copies' \in [Items -> Nat]
      BY <2>3, <2>5 DEF ServerStore, WriteOnce
    <3> QED BY <2>2, <2>3, <2>5, <3>1 DEF ServerStore, Answer
  <2>6. CASE ServerError(c)
    BY <2>2, <2>3, <2>6 DEF ServerError, Answer, Fault, serverVars
  <2> QED BY <2>1, <2>4, <2>5, <2>6 DEF Serve
<1>10. CASE \E c \in Conns : LoseWire(c)
  BY <1>10 DEF LoseWire, clientVars, serverVars
<1>11. CASE ChangeRole \/ \E i \in Items : ChangeTarget(i)
  <2>1. head' \in BOOLEAN
    BY <1>11, Zenon DEF ChangeRole, ChangeTarget
  <2> QED BY <1>11, <2>1 DEF ChangeRole, ChangeTarget, clientVars
<1>12. CASE UNCHANGED vars
  BY <1>12 DEF vars
<1> QED BY <1>2, <1>3, <1>4, <1>5, <1>6, <1>7, <1>8, <1>9, <1>10, <1>11, <1>12 DEF Next
-----------------------------------------------------------------------------
(* What the groups of steps leave alone *)

\* Steps of the server, the network and the Admin do not touch the client,
\* except for the reply.
OtherStep ==
  \/ \E c \in Conns : Serve(c) \/ ServerError(c) \/ LoseWire(c)
  \/ ChangeRole \/ \E i \in Items : ChangeTarget(i)
  \/ UNCHANGED vars

\* What the steps of the server and the network leave alone.
LEMMA OtherStepFrame ==
  OtherStep => UNCHANGED <<submitted, status, app, conn, opened, retryTask, wake, flush, batch>>
BY DEF OtherStep, Serve, ServerRefuse, ServerStore, ServerError, LoseWire, ChangeRole,
       ChangeTarget, clientVars, vars

\* Steps of the Head, the flush and the session do not touch the server, and
\* only FlushSend writes to a connection.
ClientStep ==
  \/ Submit \/ FlushStart \/ PeriodicRetry \/ ReplyOk \/ ReplyRefused \/ ReplyError
  \/ Timeout \/ Drop \/ Reconnect \/ EndSession \/ Login \/ LoginWithPasswordChange
  \/ \E i \in Items : Retry(i) \/ Discard(i)

\* What the client's steps, other than a send, leave alone.
LEMMA ClientStepFrame ==
  /\ ClientStep => UNCHANGED <<wire, copies, refused>>
  /\ FlushSend => UNCHANGED <<submitted, status, app, conn, opened, retryTask, wake, copies, refused>>
BY DEF ClientStep, Submit, FlushStart, PeriodicRetry, ReplyOk, ReplyRefused, ReplyError,
       Timeout, Drop, Reconnect, EndSession, Login, LoginWithPasswordChange, OpenWorkspace,
       Retry, Discard, FlushSend, serverVars

\* The three kinds of step the proofs below distinguish.
LEMMA NextCases == [Next]_vars <=> ClientStep \/ FlushSend \/ OtherStep
BY DEF Next, ClientStep, OtherStep

-----------------------------------------------------------------------------
(* The queue *)

\* submit gives the next queue_id, and no other step touches the numbering.
LEMMA NumberedStep == IInv /\ [Next]_vars => Numbered'
<1> SUFFICES ASSUME IInv, [Next]_vars PROVE Numbered'
  OBVIOUS
<1> USE OutboxConstants DEF IInv, TypeOK
<1>1. flush # "idle" => Current \in Items /\ status[Current] = "PENDING"
  BY CurrentIsOldest DEF FlushShape, Pending
<1>2. CASE Submit
  BY <1>2 DEF Submit, Numbered, Items
<1>3. CASE \E i \in Items : Retry(i) \/ Discard(i)
  BY <1>3 DEF Retry, Discard, Numbered
<1>4. CASE ReplyOk \/ ReplyRefused
  BY <1>1, <1>4 DEF ReplyOk, ReplyRefused, Numbered
<1>5. CASE \/ FlushStart \/ PeriodicRetry \/ ReplyError \/ Timeout
           \/ Drop \/ Reconnect \/ EndSession \/ Login \/ LoginWithPasswordChange
  <2>1. UNCHANGED <<submitted, status>>
    BY <1>5 DEF FlushStart, PeriodicRetry, ReplyError, Timeout, Drop, Reconnect,
                EndSession, Login, LoginWithPasswordChange, OpenWorkspace
  <2> QED BY <2>1 DEF Numbered
<1>6. CASE FlushSend \/ OtherStep
  BY <1>6, ClientStepFrame, OtherStepFrame DEF Numbered
<1> QED BY <1>2, <1>3, <1>4, <1>5, <1>6, NextCases DEF ClientStep

\* A row becomes FAILED on a refusal in hand and discarded from FAILED.
LEMMA FailedWasRefusedStep == IInv /\ [Next]_vars => FailedWasRefused'
<1> SUFFICES ASSUME IInv, [Next]_vars PROVE FailedWasRefused'
  OBVIOUS
<1> USE OutboxConstants DEF IInv, TypeOK
<1>1. refused \subseteq refused'
  <2>1. CASE ClientStep \/ FlushSend
    BY <2>1, ClientStepFrame
  <2>2. CASE OtherStep
    BY <2>2 DEF OtherStep, Serve, ServerRefuse, ServerStore, ServerError, LoseWire,
                ChangeRole, ChangeTarget, serverVars, vars
  <2> QED BY <2>1, <2>2, NextCases
<1>2. CASE Submit
  BY <1>1, <1>2 DEF Submit, FailedWasRefused, Items
<1>3. CASE \E i \in Items : Retry(i) \/ Discard(i)
  BY <1>1, <1>3 DEF Retry, Discard, FailedWasRefused
<1>4. CASE ReplyOk \/ ReplyRefused
  BY <1>1, <1>4 DEF ReplyOk, ReplyRefused, FailedWasRefused, Awaiting
<1>5. CASE \/ FlushStart \/ PeriodicRetry \/ ReplyError \/ Timeout
           \/ Drop \/ Reconnect \/ EndSession \/ Login \/ LoginWithPasswordChange
  <2>1. UNCHANGED status
    BY <1>5 DEF FlushStart, PeriodicRetry, ReplyError, Timeout, Drop, Reconnect,
                EndSession, Login, LoginWithPasswordChange, OpenWorkspace
  <2> QED BY <1>1, <2>1 DEF FailedWasRefused
<1>6. CASE FlushSend \/ OtherStep
  BY <1>1, <1>6, ClientStepFrame, OtherStepFrame DEF FailedWasRefused
<1> QED BY <1>2, <1>3, <1>4, <1>5, <1>6, NextCases DEF ClientStep
-----------------------------------------------------------------------------
(* The flush and its snapshot *)

\* The flush keeps its snapshot in step with the rows it has not dealt with.
LEMMA FlushShapeStep == IInv /\ [Next]_vars => FlushShape'
<1> SUFFICES ASSUME IInv, [Next]_vars PROVE FlushShape'
  OBVIOUS
<1> USE OutboxConstants DEF IInv, TypeOK, FlushShape, Pending
<1>1. flush # "idle" => Current \in batch
  BY CurrentIsOldest
<1>2. CASE Submit
  BY <1>2 DEF Submit, Numbered, Items
<1>3. CASE \E i \in Items : Retry(i) \/ Discard(i)
  BY <1>3 DEF Retry, Discard
<1>4. CASE FlushStart \/ PeriodicRetry
  BY <1>4 DEF FlushStart, PeriodicRetry, TakeBatch
<1>5. CASE FlushSend
  BY <1>5 DEF FlushSend, StopFlush
<1>6. CASE ReplyOk \/ ReplyRefused
  BY <1>1, <1>6 DEF ReplyOk, ReplyRefused, NextItem
<1>7. CASE ReplyError \/ Timeout \/ Drop \/ EndSession
  BY <1>7 DEF ReplyError, Timeout, Drop, EndSession, StopFlush
<1>8. CASE Reconnect \/ Login \/ LoginWithPasswordChange
  BY <1>8 DEF Reconnect, Login, LoginWithPasswordChange, OpenWorkspace, OpenConn
<1>9. CASE OtherStep
  <2>1. flush # "wait" => reply' = reply
    BY <1>9 DEF OtherStep, Serve, ServerRefuse, ServerStore, ServerError, Answer, Awaited,
                LoseWire, ChangeRole, ChangeTarget, clientVars, vars
  <2> QED BY <1>9, <2>1, OtherStepFrame
<1> QED BY <1>2, <1>3, <1>4, <1>5, <1>6, <1>7, <1>8, <1>9, NextCases DEF ClientStep

\* What the server holds or has refused, and the numbers handed out, only grow.
LEMMA Growth ==
  ASSUME IInv, [Next]_vars
  PROVE  /\ submitted <= submitted'
         /\ \A i \in Items : copies[i] > 0 => copies'[i] > 0
         /\ refused \subseteq refused'
<1> USE OutboxConstants DEF IInv, TypeOK
<1>1. submitted <= submitted'
  <2>1. CASE Submit
    BY <2>1 DEF Submit
  <2>2. CASE ~Submit
    <3>1. submitted' = submitted
      BY <2>2, OtherStepFrame, ClientStepFrame, NextCases
         DEF ClientStep, FlushStart, PeriodicRetry, ReplyOk, ReplyRefused, ReplyError, Timeout,
             Drop, Reconnect, EndSession, Login, LoginWithPasswordChange, OpenWorkspace, Retry, Discard
    <3> QED BY <3>1
  <2> QED BY <2>1, <2>2
<1>2. CASE ClientStep \/ FlushSend
  BY <1>1, <1>2, ClientStepFrame
<1>3. CASE \E c \in Conns : ServerStore(c)
  <2>1. PICK c \in Conns : ServerStore(c)
    BY <1>3
  <2>2. Head(wire[c]) \in Items
    BY <2>1 DEF ServerStore, Take
  <2> QED BY <1>1, <2>1, <2>2 DEF ServerStore, WriteOnce
<1>4. CASE OtherStep /\ ~\E c \in Conns : ServerStore(c)
  BY <1>1, <1>4 DEF OtherStep, Serve, ServerRefuse, ServerError, LoseWire, ChangeRole,
                    ChangeTarget, serverVars, vars
<1> QED BY <1>2, <1>3, <1>4, NextCases

\* A PENDING item enters only behind the snapshot, or after a refusal.
LEMMA SnapshotCompleteStep == IInv /\ [Next]_vars => SnapshotComplete'
<1> SUFFICES ASSUME IInv, [Next]_vars,
                    NEW j \in batch', NEW i \in Pending', i < j, i \notin refused'
             PROVE  i \in batch'
  BY DEF SnapshotComplete
<1> USE OutboxConstants DEF IInv, TypeOK, Pending
<1>1. i \in Items /\ i \notin refused
  BY Growth
<1>2. flush # "idle" => /\ Current \in batch
                        /\ \A k \in batch : Current <= k
  BY CurrentIsOldest DEF FlushShape
<1>3. CASE Submit
  <2>1. j \in batch /\ j <= submitted
    BY <1>3 DEF Submit, FlushShape, Numbered, Items
  <2>2. i \in Pending
    BY <1>1, <1>3, <2>1 DEF Submit, Items
  <2> QED BY <1>1, <1>3, <2>1, <2>2 DEF Submit, SnapshotComplete
<1>4. CASE \E k \in Items : Retry(k) \/ Discard(k)
  <2>1. i \in Pending /\ batch' = batch
    BY <1>1, <1>4 DEF Retry, Discard, FailedWasRefused
  <2> QED BY <1>1, <2>1 DEF SnapshotComplete
<1>5. CASE FlushStart \/ PeriodicRetry
  BY <1>1, <1>5 DEF FlushStart, PeriodicRetry, TakeBatch, SnapshotComplete
<1>6. CASE ReplyOk \/ ReplyRefused
  <2>1. /\ j \in batch /\ batch' = batch \ {Current}
        /\ i \in Pending /\ i # Current
    BY <1>1, <1>2, <1>6 DEF ReplyOk, ReplyRefused, NextItem, FlushShape
  <2> QED BY <1>1, <2>1 DEF SnapshotComplete
<1>7. CASE ReplyError \/ Timeout \/ EndSession
  BY <1>7 DEF ReplyError, Timeout, EndSession, StopFlush
<1>8. CASE Drop \/ FlushSend
  BY <1>1, <1>8 DEF Drop, FlushSend, StopFlush, SnapshotComplete
<1>9. CASE Reconnect \/ Login \/ LoginWithPasswordChange
  BY <1>1, <1>9 DEF Reconnect, Login, LoginWithPasswordChange, OpenWorkspace, SnapshotComplete
<1>10. CASE OtherStep
  BY <1>1, <1>10, OtherStepFrame DEF SnapshotComplete
<1> QED BY <1>3, <1>4, <1>5, <1>6, <1>7, <1>8, <1>9, <1>10, NextCases DEF ClientStep
-----------------------------------------------------------------------------
(* Order *)

\* Once nothing older is left behind an item, nothing ever is.
ClearedNext(j) ==
  /\ j <= submitted'
  /\ \A i \in Items : i < j => copies'[i] > 0 \/ i \in refused'

\* What is cleared stays cleared: copies and refusals are never taken back.
LEMMA ClearedStays ==
  ASSUME IInv, [Next]_vars, NEW j \in Items, Cleared(j)
  PROVE  ClearedNext(j)
<1>1. j <= submitted'
  <2>1. submitted \in Nat /\ submitted' \in Nat /\ j \in Nat
    BY OutboxConstants, TypeStep DEF IInv, TypeOK, Items
  <2> QED BY <2>1, Growth DEF Cleared
<1>2. \A i \in Items : i < j => copies'[i] > 0 \/ i \in refused'
  BY Growth DEF Cleared, Stored
<1> QED BY <1>1, <1>2 DEF ClearedNext

\* The flush never sends past an item that is neither stored nor refused.
LEMMA SendsInOrder ==
  ASSUME IInv, flush # "idle"
  PROVE  Cleared(Current)
<1> USE OutboxConstants DEF IInv, TypeOK
<1>1. /\ Current \in batch /\ Current \in Items
      /\ \A k \in batch : Current <= k
  BY CurrentIsOldest DEF FlushShape
<1>2. status[Current] = "PENDING" /\ Current <= submitted
  BY <1>1 DEF FlushShape, Pending, Numbered, Items
<1>3. ASSUME NEW i \in Items, i < Current
      PROVE  i \in Stored \/ i \in refused
  <2>1. status[i] # "none"
    BY <1>1, <1>2, <1>3 DEF Numbered, Items
  <2>2. CASE status[i] = "PENDING"
    BY <1>1, <1>3, <2>2 DEF SnapshotComplete, Pending, Items
  <2>3. CASE status[i] \in {"FAILED", "discarded"}
    BY <2>3 DEF FailedWasRefused
  <2>4. CASE status[i] = "synced"
    BY <2>4 DEF ExactlyOnce, Stored
  <2> QED BY <2>1, <2>2, <2>3, <2>4
<1> QED BY <1>2, <1>3 DEF Cleared

\* A server step takes the oldest request of its connection.
ServerReads(c) ==
  /\ c \in Conns /\ wire[c] # <<>>
  /\ wire' = [wire EXCEPT ![c] = Tail(@)]
  /\ Head(wire[c]) \in Items /\ Cleared(Head(wire[c]))

\* The request the server reads was sent in order.
LEMMA ServerTakes ==
  ASSUME IInv, NEW c \in Conns, Serve(c) \/ ServerError(c)
  PROVE  ServerReads(c)
<1>1. wire[c] # <<>> /\ wire' = [wire EXCEPT ![c] = Tail(@)]
  BY DEF Serve, ServerRefuse, ServerStore, ServerError, Take
<1>2. wire[c] \in Seq(Items)
  BY DEF IInv, TypeOK
<1>3. Head(wire[c]) = wire[c][1] /\ 1 \in 1 .. Len(wire[c])
  BY <1>1, <1>2
<1> QED BY <1>1, <1>2, <1>3 DEF ServerReads, IInv, SentInOrder

\* Whatever is on the way was sent in order, on every connection.
LEMMA SentInOrderStep == IInv /\ [Next]_vars => SentInOrder'
<1> SUFFICES ASSUME IInv, [Next]_vars, NEW c \in Conns, NEW k \in 1 .. Len(wire'[c])
             PROVE  ClearedNext(wire'[c][k])
  BY DEF SentInOrder, Cleared, Stored, ClearedNext
<1> USE DEF IInv, TypeOK
<1>1. wire[c] \in Seq(Items)
  OBVIOUS
<1>2. ASSUME NEW m \in 1 .. Len(wire[c]) PROVE ClearedNext(wire[c][m])
  BY <1>1, <1>2, ClearedStays, ElementOfSeq DEF SentInOrder
<1>3. CASE wire'[c] = wire[c]
  BY <1>2, <1>3
<1>4. CASE FlushSend /\ wire'[c] # wire[c]
  <2>1. /\ flush # "idle" /\ conn = c
        /\ wire' = [wire EXCEPT ![conn] = Append(@, Current)]
    BY <1>4 DEF FlushSend
  <2>2. Current \in Items /\ ClearedNext(Current)
    BY <2>1, CurrentIsOldest, SendsInOrder, ClearedStays DEF FlushShape
  <2>3. wire'[c] = Append(wire[c], Current)
    BY <2>1
  <2>4. CASE k = Len(wire[c]) + 1
    <3>1. wire'[c][k] = Current
      BY <1>1, <2>2, <2>3, <2>4, AppendProperties
    <3> QED BY <3>1, <2>2
  <2>5. CASE k # Len(wire[c]) + 1
    <3>1. k \in 1 .. Len(wire[c]) /\ wire'[c][k] = wire[c][k]
      BY <1>1, <2>2, <2>3, <2>5, AppendProperties
    <3> QED BY <3>1, <1>2
  <2> QED BY <2>4, <2>5
<1>5. CASE (\E d \in Conns : Serve(d) \/ ServerError(d)) /\ wire'[c] # wire[c]
  <2>1. PICK d \in Conns : Serve(d) \/ ServerError(d)
    BY <1>5
  <2>2. d = c /\ wire[c] # <<>> /\ wire'[c] = Tail(wire[c])
    BY <1>5, <2>1, ServerTakes DEF ServerReads
  <2>3. k + 1 \in 1 .. Len(wire[c]) /\ wire'[c][k] = wire[c][k + 1]
    BY <1>1, <2>2, HeadTailProperties
  <2> QED BY <2>3, <1>2
<1>6. CASE (\E d \in Conns : LoseWire(d)) /\ wire'[c] # wire[c]
  <2>1. wire'[c] = <<>>
    BY <1>6 DEF LoseWire
  <2>2. k \in 1 .. 0
    BY <2>1
  <2> QED BY <2>2
<1>7. CASE ClientStep \/ ChangeRole \/ (\E i \in Items : ChangeTarget(i)) \/ UNCHANGED vars
  BY <1>3, <1>7, ClientStepFrame DEF ChangeRole, ChangeTarget, vars
<1> QED BY <1>3, <1>4, <1>5, <1>6, <1>7, NextCases DEF OtherStep
-----------------------------------------------------------------------------
(* Connections *)

\* Nothing is on a connection that was never opened.
LEMMA UnopenedStep == IInv /\ [Next]_vars => Unopened'
<1> SUFFICES ASSUME IInv, [Next]_vars, NEW c \in Conns, c > opened'
             PROVE  wire'[c] = <<>>
  BY DEF Unopened
<1> USE OutboxConstants DEF IInv, TypeOK
<1>1. c > opened
  <2>1. CASE Reconnect \/ Login \/ LoginWithPasswordChange
    BY <2>1 DEF Reconnect, Login, LoginWithPasswordChange, OpenWorkspace, OpenConn, Conns
  <2>2. CASE ~(Reconnect \/ Login \/ LoginWithPasswordChange)
    <3>1. opened' = opened
      BY <2>2, OtherStepFrame, ClientStepFrame, NextCases
         DEF ClientStep, Submit, FlushStart, PeriodicRetry, ReplyOk, ReplyRefused, ReplyError,
             Timeout, Drop, EndSession, Retry, Discard
    <3> QED BY <3>1
  <2> QED BY <2>1, <2>2
<1>2. wire[c] = <<>>
  BY <1>1 DEF Unopened
<1>3. CASE ClientStep
  BY <1>2, <1>3, ClientStepFrame
<1>4. CASE FlushSend
  BY <1>1, <1>2, <1>4 DEF FlushSend, Conns
<1>5. CASE \E d \in Conns : Serve(d) \/ ServerError(d)
  <2>1. PICK d \in Conns : Serve(d) \/ ServerError(d)
    BY <1>5
  <2> QED BY <1>2, <2>1, ServerTakes DEF ServerReads
<1>6. CASE \E d \in Conns : LoseWire(d)
  BY <1>2, <1>6 DEF LoseWire
<1>7. CASE ChangeRole \/ (\E i \in Items : ChangeTarget(i)) \/ UNCHANGED vars
  BY <1>2, <1>7 DEF ChangeRole, ChangeTarget, vars
<1> QED BY <1>3, <1>4, <1>5, <1>6, <1>7, NextCases DEF OtherStep

\* The request just appended is the last of the connection.
LEMMA LastOfAppend ==
  ASSUME NEW S, NEW s \in Seq(S), NEW e \in S
  PROVE  Append(s, e) # <<>> /\ Append(s, e)[Len(Append(s, e))] = e
BY AppendProperties

\* Reading the oldest request leaves the last one where it is.
LEMMA LastOfTail ==
  ASSUME NEW S, NEW s \in Seq(S), s # <<>>
  PROVE  /\ Len(s) = 1 => Tail(s) = <<>> /\ Head(s) = s[Len(s)]
         /\ Len(s) # 1 => Tail(s) # <<>> /\ Tail(s)[Len(Tail(s))] = s[Len(s)]
<1>1. /\ Tail(s) \in Seq(S) /\ Len(Tail(s)) = Len(s) - 1
      /\ \A k \in 1 .. Len(Tail(s)) : Tail(s)[k] = s[k + 1]
  BY HeadTailProperties
<1>2. Len(s) \in Nat /\ Len(s) # 0
  <2>1. Len(s) \in Nat
    BY LenProperties
  <2>2. CASE Len(s) = 0
    BY <2>2, EmptySeq
  <2> QED BY <2>1, <2>2
<1>3. CASE Len(s) = 1
  <2>1. Tail(s) = <<>>
    <3>1. \A t \in Seq(S) : Len(t) = 0 => t = <<>>
      BY EmptySeq
    <3>2. Len(Tail(s)) = 0
      BY <1>1, <1>3
    <3> QED BY <1>1, <3>1, <3>2
  <2> QED BY <1>3, <2>1
<1>4. CASE Len(s) # 1
  <2>1. Len(Tail(s)) \in 1 .. Len(Tail(s)) /\ Len(Tail(s)) + 1 = Len(s)
    BY <1>1, <1>2, <1>4
  <2>2. Len(Tail(s)) # 0
    BY <1>1, <1>2, <1>4
  <2>3. Tail(s) # <<>>
    <3>1. \A t : Len(t) # 0 => t # <<>>
      BY EmptySeq
    <3> QED BY <2>2, <3>1
  <2> QED BY <1>1, <1>4, <2>1, <2>3
<1> QED BY <1>3, <1>4

\* The conjuncts of Awaiting about the request in flight, for a given item.
InFlight(i) ==
  /\ Cleared(i)
  /\ reply = "none" => wire[conn] # <<>> /\ wire[conn][Len(wire[conn])] = i
  /\ reply # "none" => wire[conn] = <<>>
  /\ reply = "ok" => copies[i] > 0
  /\ reply = "refused" => i \in refused

\* The reply in hand is the answer to the request the flush waits for.
LEMMA AwaitingStep == IInv /\ [Next]_vars => Awaiting'
<1> SUFFICES ASSUME IInv, [Next]_vars, flush' = "wait"
             PROVE  /\ ClearedNext(Current')
                    /\ reply' = "none" => /\ wire'[conn'] # <<>>
                                          /\ wire'[conn'][Len(wire'[conn'])] = Current'
                    /\ reply' # "none" => wire'[conn'] = <<>>
                    /\ reply' = "ok" => copies'[Current'] > 0
                    /\ reply' = "refused" => Current' \in refused'
  BY DEF Awaiting, Cleared, ClearedNext, Stored
<1> USE OutboxConstants DEF IInv, TypeOK
<1>1. CASE FlushSend
  <2>1. /\ flush = "loop" /\ conn \in Conns
        /\ wire' = [wire EXCEPT ![conn] = Append(@, Current)]
        /\ reply' = "none" /\ batch' = batch /\ conn' = conn
    BY <1>1 DEF FlushSend, StopFlush, Conns
  <2>2. Current' = Current
    BY <2>1 DEF Current
  <2>3. Current \in Items /\ ClearedNext(Current)
    BY <2>1, CurrentIsOldest, SendsInOrder, ClearedStays DEF FlushShape
  <2>4. wire'[conn] = Append(wire[conn], Current) /\ wire[conn] \in Seq(Items)
    BY <2>1
  <2>5. wire'[conn] # <<>> /\ wire'[conn][Len(wire'[conn])] = Current
    <3> HIDE DEF IInv, TypeOK
    <3> QED BY <2>3, <2>4, LastOfAppend
  <2> QED BY <2>1, <2>2, <2>3, <2>5
<1>2. CASE ~FlushSend
  <2>1. flush = "wait" /\ batch' = batch /\ conn' = conn
    <3>1. CASE ClientStep
      BY <3>1 DEF ClientStep, Submit, FlushStart, PeriodicRetry, TakeBatch, ReplyOk,
             ReplyRefused, ReplyError, NextItem, Timeout, Drop, Reconnect, EndSession, StopFlush,
             Login, LoginWithPasswordChange, OpenWorkspace, Retry, Discard, FlushShape
    <3>2. CASE OtherStep
      BY <3>2, OtherStepFrame
    <3> QED BY <1>2, <3>1, <3>2, NextCases
  <2>2. Current' = Current
    BY <2>1 DEF Current
  <2>3. Current \in Items /\ InFlight(Current) /\ conn \in Conns
    BY <2>1, CurrentIsOldest DEF FlushShape, Awaiting, InFlight, Conns
  <2>4. ClearedNext(Current)
    BY <2>3, ClearedStays DEF InFlight
  <2>5. /\ copies[Current] > 0 => copies'[Current] > 0
        /\ Current \in refused => Current \in refused'
    BY <2>3, Growth
  <2>6. CASE wire'[conn] = wire[conn] /\ reply' = reply
    BY <2>1, <2>2, <2>3, <2>4, <2>5, <2>6 DEF InFlight, Stored
  <2>7. CASE ClientStep
    <3>1. reply' = reply
      BY <2>1, <2>7 DEF ClientStep, Submit, FlushStart, PeriodicRetry, TakeBatch, ReplyOk,
             ReplyRefused, ReplyError, NextItem, Timeout, Drop, Reconnect, EndSession, StopFlush,
             Login, LoginWithPasswordChange, OpenWorkspace, Retry, Discard, FlushShape
    <3> QED BY <2>6, <2>7, <3>1, ClientStepFrame
  <2>8. CASE \E c \in Conns : LoseWire(c)
    BY <2>3, <2>6, <2>8 DEF LoseWire, clientVars
  <2>9. CASE ChangeRole \/ (\E i \in Items : ChangeTarget(i)) \/ UNCHANGED vars
    BY <2>6, <2>9 DEF ChangeRole, ChangeTarget, clientVars, vars
  <2>10. CASE \E c \in Conns : Serve(c) \/ ServerError(c)
    <3>1. PICK c \in Conns : Serve(c) \/ ServerError(c)
      BY <2>10
    <3>2. ServerReads(c)
      BY <3>1, ServerTakes
    <3>3. CASE ~Awaited(c) /\ c # conn
      BY <2>3, <2>6, <3>1, <3>2, <3>3
         DEF ServerReads, Serve, ServerRefuse, ServerStore, ServerError, Answer
    <3>4. CASE c = conn
      <4> DEFINE s == wire[conn]
      <4>1. s \in Seq(Items) /\ s # <<>> /\ wire'[conn] = Tail(s)
        BY <2>3, <3>2, <3>4 DEF ServerReads
      <4>2. reply = "none" /\ s[Len(s)] = Current
        BY <2>3, <4>1 DEF InFlight
      <4>4. CASE Len(s) = 1
        <5>1. Awaited(c) /\ Head(s) = Current /\ Tail(s) = <<>>
          BY <2>1, <3>4, <4>1, <4>2, <4>4, LastOfTail DEF Awaited
        <5>2. CASE ServerRefuse(c)
          BY <2>1, <2>2, <2>4, <3>4, <4>1, <5>1, <5>2 DEF ServerRefuse, Answer
        <5>3. CASE ServerStore(c)
          <6>1. copies'[Current] > 0
            BY <2>3, <3>4, <5>1, <5>3 DEF ServerStore, WriteOnce, Stored
          <6> QED BY <2>1, <2>2, <2>4, <3>4, <4>1, <5>1, <5>3, <6>1 DEF ServerStore, Answer
        <5>4. CASE ServerError(c)
          BY <2>1, <2>2, <2>4, <3>4, <4>1, <5>1, <5>4 DEF ServerError, Answer
        <5> QED BY <3>1, <5>2, <5>3, <5>4 DEF Serve
      <4>5. CASE Len(s) # 1
        <5>1. reply' = "none"
          BY <3>1, <3>4, <4>2, <4>5
             DEF Serve, ServerRefuse, ServerStore, ServerError, Answer, Awaited
        <5>2. Tail(s) # <<>> /\ Tail(s)[Len(Tail(s))] = s[Len(s)]
          BY <4>1, <4>5, LastOfTail
        <5> QED BY <2>1, <2>2, <2>4, <4>1, <4>2, <5>1, <5>2
      <4> QED BY <4>4, <4>5
    <3> QED BY <3>3, <3>4 DEF Awaited
  <2> QED BY <1>2, <2>7, <2>8, <2>9, <2>10, NextCases DEF OtherStep
<1> QED BY <1>1, <1>2
-----------------------------------------------------------------------------
(* What the server holds *)

\* The server stores and refuses only what was sent in order.
LEMMA StoredShapeStep == IInv /\ [Next]_vars => StoredShape'
<1> SUFFICES ASSUME IInv, [Next]_vars, NEW i \in Items, copies'[i] > 0 \/ i \in refused'
             PROVE  ClearedNext(i)
  BY DEF StoredShape, Cleared, ClearedNext, Stored
<1>1. CASE copies[i] > 0 \/ i \in refused
  <2>1. Cleared(i)
    BY <1>1 DEF IInv, StoredShape
  <2> QED BY <2>1, ClearedStays
<1>2. CASE ~(copies[i] > 0 \/ i \in refused)
  <2>1. ~(ClientStep \/ FlushSend)
    BY <1>2, ClientStepFrame
  <2>2. PICK c \in Conns : Serve(c)
    BY <1>2, <2>1, NextCases DEF OtherStep, ServerError, LoseWire, ChangeRole,
                                 ChangeTarget, serverVars, vars
  <2>3. ServerReads(c)
    BY <2>2, ServerTakes
  <2>4. i = Head(wire[c])
    BY <1>2, <2>2, <2>3
       DEF Serve, ServerRefuse, ServerStore, WriteOnce, ServerReads, IInv, TypeOK
  <2> QED BY <2>3, <2>4, ClearedStays DEF ServerReads
<1> QED BY <1>1, <1>2

\* The idempotent write and the deletion of a confirmed row keep one copy.
LEMMA ExactlyOnceStep == IInv /\ [Next]_vars => ExactlyOnce'
<1> SUFFICES ASSUME IInv, [Next]_vars, NEW i \in Items
             PROVE  /\ copies'[i] <= 1
                    /\ status'[i] = "synced" => copies'[i] = 1
  BY DEF ExactlyOnce
<1> USE OutboxConstants DEF IInv, TypeOK
<1>1. copies[i] \in Nat /\ copies'[i] \in Nat /\ (copies[i] > 0 => copies'[i] > 0)
  BY Growth, TypeStep
<1>2. copies[i] <= 1 /\ (status[i] = "synced" => copies[i] = 1)
  BY DEF ExactlyOnce
<1>3. copies'[i] <= 1
  <2>1. CASE \E c \in Conns : ServerStore(c)
    BY <1>1, <1>2, <2>1 DEF ServerStore, WriteOnce, Stored
  <2>2. CASE ~\E c \in Conns : ServerStore(c)
    <3>1. copies' = copies
      BY <2>2, ClientStepFrame, NextCases
         DEF OtherStep, Serve, ServerRefuse, ServerError, LoseWire, ChangeRole, ChangeTarget,
             serverVars, vars
    <3> QED BY <1>2, <3>1
  <2> QED BY <2>1, <2>2
<1>4. ASSUME status'[i] = "synced", status[i] # "synced"
      PROVE  copies[i] > 0
  <2>1. ReplyOk
    BY <1>4, OtherStepFrame, ClientStepFrame, NextCases
       DEF ClientStep, Submit, FlushStart, PeriodicRetry, ReplyRefused, ReplyError, Timeout,
           Drop, Reconnect, EndSession, Login, LoginWithPasswordChange, OpenWorkspace, Retry, Discard
  <2>2. i = Current /\ flush = "wait" /\ reply = "ok"
    BY <1>4, <2>1 DEF ReplyOk
  <2> QED BY <2>2 DEF Awaiting
<1>5. status'[i] = "synced" => copies[i] > 0
  BY <1>1, <1>2, <1>4
<1> QED BY <1>1, <1>3, <1>5

-----------------------------------------------------------------------------
(* The theorems *)

\* IInv is inductive: it holds initially and every step preserves it.
THEOREM IInvInvariant == Spec => []IInv
<1>1. Init => IInv
  BY InitIInv
<1>2. IInv /\ [Next]_vars => IInv'
  <2> SUFFICES ASSUME IInv, [Next]_vars PROVE IInv'
    OBVIOUS
  <2>1. TypeOK' /\ Numbered' /\ FlushShape' /\ SnapshotComplete'
    BY TypeStep, NumberedStep, FlushShapeStep, SnapshotCompleteStep
  <2>2. SentInOrder' /\ Unopened' /\ Awaiting' /\ StoredShape'
    BY SentInOrderStep, UnopenedStep, AwaitingStep, StoredShapeStep
  <2>3. ExactlyOnce' /\ FailedWasRefused'
    BY ExactlyOnceStep, FailedWasRefusedStep
  <2> QED BY <2>1, <2>2, <2>3 DEF IInv
<1> QED BY <1>1, <1>2, PTL DEF Spec

\* Every variable of the outbox keeps its type.
THEOREM TypeCorrect == Spec => []TypeOK
<1>1. IInv => TypeOK
  BY DEF IInv
<1> QED BY <1>1, IInvInvariant, PTL

\* The idempotent writes and the outbox together: no submission is stored
\* twice, and a confirmed one is stored.
THEOREM StoredExactlyOnce == Spec => []ExactlyOnce
<1>1. IInv => ExactlyOnce
  BY DEF IInv
<1> QED BY <1>1, IInvInvariant, PTL

\* The server stores a Head's submissions in the order they were made, up to
\* those it refused.
THEOREM StoredInOrder == Spec => []InOrder
<1>1. IInv => InOrder
  BY DEF IInv, StoredShape, Cleared, InOrder, Stored
<1> QED BY <1>1, IInvInvariant, PTL

\* No submission is FAILED, and none can be discarded, that the server did not refuse.
THEOREM FailedOnlyIfRefused == Spec => []FailedWasRefused
<1>1. IInv => FailedWasRefused
  BY DEF IInv
<1> QED BY <1>1, IInvInvariant, PTL
-----------------------------------------------------------------------------
(* Refinement *)

\* An empty queue is the initial state of the promise.
LEMMA InitPromise == Init => Promise!Init
BY DEF Init, Promise!Init, fate, Promise!Items, Items

\* How the fate of one item follows from its row and its copies.
LEMMA FateOf ==
  /\ DOMAIN fate = Items
  /\ \A i \in Items :
       /\ status[i] = "none" => fate[i] = "new"
       /\ status[i] # "none" /\ copies[i] > 0 => fate[i] = "saved"
       /\ status[i] = "discarded" /\ ~(copies[i] > 0) => fate[i] = "dropped"
       /\ status[i] \notin {"none", "discarded"} /\ ~(copies[i] > 0) => fate[i] = "held"
BY DEF fate, Stored

\* A cleared item is submitted, and all older ones are saved or were refused.
LEMMA ClearedMayOvertake ==
  ASSUME IInv, NEW j \in Items, Cleared(j)
  PROVE  status[j] # "none" /\ Promise!MayOvertake(j)
<1>1. j \in Nat /\ submitted \in Nat /\ j <= submitted
  BY OutboxConstants DEF IInv, TypeOK, Cleared, Items
<1>2. ASSUME NEW k \in Items, k <= j PROVE status[k] # "none"
  BY <1>1, <1>2, OutboxConstants DEF IInv, Numbered, Items
<1>3. status[j] # "none"
  BY <1>1, <1>2
<1>4. ASSUME NEW k \in Items, k < j
      PROVE  fate[k] = "saved" \/ k \in refused
  <2>1. status[k] # "none"
    BY <1>1, <1>2, <1>4, OutboxConstants DEF Items
  <2> QED BY <1>4, <2>1, FateOf DEF Cleared, Stored
<1> QED BY <1>3, <1>4 DEF Promise!MayOvertake, Promise!Items, Items

\* Every step is a step of the promise or leaves fates and refusals alone.
LEMMA StepPromise == IInv /\ [Next]_vars => [Promise!Next]_(Promise!vars)
<1> SUFFICES ASSUME IInv, [Next]_vars
             PROVE  Promise!Next \/ (fate' = fate /\ refused' = refused)
  BY DEF Promise!vars
<1> USE OutboxConstants
<1>1. CASE Submit
  <2> DEFINE i == submitted + 1
  <2>1. /\ i \in Items /\ status' = [status EXCEPT ![i] = "PENDING"]
        /\ copies' = copies /\ refused' = refused
    BY <1>1 DEF Submit, serverVars, IInv, TypeOK, Items
  <2>2. status[i] = "none" /\ \A k \in Items : k < i => status[k] # "none"
    BY <2>1 DEF IInv, TypeOK, Numbered, Items
  <2>3. ~(copies[i] > 0)
    BY <2>1, <2>2, ClearedMayOvertake DEF IInv, StoredShape
  <2>4. fate[i] = "new" /\ \A k \in Items : k < i => fate[k] # "new"
    BY <2>1, <2>2, FateOf DEF fate
  <2>5. fate' = [fate EXCEPT ![i] = "held"]
    BY <2>1, <2>2, <2>3 DEF fate, Stored, IInv, TypeOK
  <2>6. Promise!Submit(i)
    BY <2>1, <2>4, <2>5 DEF Promise!Submit, Promise!Items, Items
  <2> QED BY <2>1, <2>6 DEF Promise!Next, Promise!Items, Items
<1>2. CASE \E i \in Items : Discard(i)
  <2>1. PICK i \in Items : Discard(i)
    BY <1>2
  <2>2. /\ status[i] = "FAILED" /\ status' = [status EXCEPT ![i] = "discarded"]
        /\ copies' = copies /\ refused' = refused /\ i \in refused
    BY <2>1 DEF Discard, serverVars, IInv, FailedWasRefused
  <2>3. CASE copies[i] > 0
    BY <2>2, <2>3 DEF fate, Stored, IInv, TypeOK
  <2>4. CASE ~(copies[i] > 0)
    <3>1. fate[i] = "held" /\ fate' = [fate EXCEPT ![i] = "dropped"]
      BY <2>2, <2>4 DEF fate, Stored, IInv, TypeOK
    <3>2. Promise!Drop(i)
      BY <2>2, <3>1 DEF Promise!Drop
    <3> QED BY <3>2 DEF Promise!Next, Promise!Items, Items
  <2> QED BY <2>3, <2>4
<1>3. CASE (\E i \in Items : Retry(i)) \/ ReplyOk \/ ReplyRefused
  <2>1. PICK i \in Items : /\ \/ status[i] = "FAILED"
                              \/ status[i] = "PENDING"
                           /\ \/ status' = [status EXCEPT ![i] = "PENDING"]
                              \/ status' = [status EXCEPT ![i] = "FAILED"]
                              \/ status' = [status EXCEPT ![i] = "synced"]
    <3>1. flush # "idle" => Current \in Items /\ status[Current] = "PENDING"
      BY CurrentIsOldest DEF IInv, FlushShape, Pending
    <3> QED BY <1>3, <3>1 DEF Retry, ReplyOk, ReplyRefused
  <2>2. copies' = copies /\ refused' = refused
    BY <1>3, ClientStepFrame DEF ClientStep
  <2> QED BY <2>1, <2>2 DEF fate, Stored, IInv, TypeOK
<1>4. CASE \/ FlushStart \/ PeriodicRetry \/ ReplyError \/ Timeout \/ Drop
           \/ Reconnect \/ EndSession \/ Login \/ LoginWithPasswordChange \/ FlushSend
  <2>1. UNCHANGED <<status, copies, refused>>
    BY <1>4 DEF FlushStart, PeriodicRetry, ReplyError, Timeout, Drop, Reconnect,
                EndSession, Login, LoginWithPasswordChange, OpenWorkspace, FlushSend, serverVars
  <2> QED BY <2>1 DEF fate, Stored
<1>5. CASE \E c \in Conns : ServerStore(c)
  <2>1. PICK c \in Conns : ServerStore(c)
    BY <1>5
  <2> DEFINE i == Head(wire[c])
  <2>2. /\ i \in Items /\ Cleared(i)
        /\ copies' = WriteOnce(i) /\ status' = status /\ refused' = refused
    BY <2>1, ServerTakes DEF ServerReads, Serve, ServerStore
  <2>3. CASE copies[i] > 0
    BY <2>2, <2>3 DEF WriteOnce, fate, Stored
  <2>4. CASE ~(copies[i] > 0)
    <3>1. status[i] # "none" /\ Promise!MayOvertake(i)
      BY <2>2, ClearedMayOvertake
    <3>2. fate[i] \in {"held", "dropped"}
      BY <2>2, <2>4, <3>1, FateOf
    <3>3. fate' = [fate EXCEPT ![i] = "saved"]
      <4>1. copies' = [copies EXCEPT ![i] = @ + 1]
        BY <2>2, <2>4 DEF WriteOnce, Stored
      <4>2. Stored' = Stored \cup {i}
        BY <2>2, <4>1 DEF Stored, IInv, TypeOK
      <4> QED BY <2>2, <3>1, <4>2 DEF fate
    <3>4. Promise!Save(i)
      BY <2>2, <3>1, <3>2, <3>3 DEF Promise!Save
    <3> QED BY <2>2, <3>4 DEF Promise!Next, Promise!Items, Items
  <2> QED BY <2>3, <2>4
<1>6. CASE \E c \in Conns : ServerRefuse(c)
  <2>1. PICK c \in Conns : ServerRefuse(c)
    BY <1>6
  <2> DEFINE i == Head(wire[c])
  <2>2. /\ i \in Items /\ Cleared(i) /\ refused' = refused \cup {i}
        /\ copies' = copies /\ status' = status
    BY <2>1, ServerTakes DEF ServerReads, Serve, ServerRefuse
  <2>3. fate' = fate
    BY <2>2 DEF fate, Stored
  <2>4. fate[i] # "new" /\ Promise!MayOvertake(i)
    BY <2>2, ClearedMayOvertake DEF fate
  <2>5. Promise!Refuse(i)
    BY <2>2, <2>3, <2>4 DEF Promise!Refuse
  <2> QED BY <2>2, <2>5 DEF Promise!Next, Promise!Items, Items
<1>7. CASE OtherStep /\ ~\E c \in Conns : Serve(c)
  <2>1. UNCHANGED <<status, copies, refused>>
    BY <1>7, OtherStepFrame
       DEF OtherStep, ServerError, LoseWire, ChangeRole, ChangeTarget, serverVars, vars
  <2> QED BY <2>1 DEF fate, Stored
<1> QED BY <1>1, <1>2, <1>3, <1>4, <1>5, <1>6, <1>7, NextCases DEF ClientStep, Serve

\* The outbox implements its promise: every step is a step of OutboxPromise or
\* leaves the fates and refusals alone.
THEOREM OutboxKeepsPromise == Spec => KeepsPromise
<1>1. Init => Promise!Init
  BY InitPromise
<1>2. IInv /\ [Next]_vars => [Promise!Next]_(Promise!vars)
  BY StepPromise
<1> QED BY <1>1, <1>2, IInvInvariant, PTL DEF Spec, KeepsPromise, Promise!Spec
=============================================================================
