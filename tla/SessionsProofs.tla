--------------------------- MODULE SessionsProofs ---------------------------
(***************************************************************************)
(* What holds of sessions and accounts for any number of users,            *)
(* connections, logins and requests.  The worker executes calls in the     *)
(* order they were asked for, and handlers resume in the order their calls *)
(* were executed: whoever is about to put something old into a session has *)
(* somebody behind it in a queue who will put it right.                    *)
(***************************************************************************)
EXTENDS Sessions, SequenceTheorems, TLAPS

\* A connection is in one queue, once, while it awaits a call.
Queued ==
  /\ \A i, j \in DOMAIN work : work[i] = work[j] => i = j
  /\ \A i, j \in DOMAIN done : done[i] = done[j] => i = j
  /\ \A i \in DOMAIN work, j \in DOMAIN done : work[i] # done[j]
  /\ \A i \in DOMAIN work : handler[work[i]].step \in Calls \ {"refused"}
  /\ \A j \in DOMAIN done : handler[done[j]].step \in Calls

\* Tokens belong to accounts, and a login on its way has room for its token.
Issued ==
  /\ \A t \in DOMAIN owner : account[owner[t]].role # NoAccount
  /\ \A c, d \in LoggingIn : c = d
  /\ \A c \in LoggingIn :
       handler[c].step = "authenticate" \/ ~Pending(done, c) => Len(owner) < MaxTokens
  /\ \A u \in Users : resetAt[u] <= Len(owner)

\* What a handler holds before and after its call.
Before(h) ==
  /\ h.step \in Calls \ {"refused"} => h.user \in Users
  /\ h.step \in {"create_user", "update_user"} => h.row.role \in Roles
  /\ h.step = "resolve_session" => h.token \in DOMAIN owner /\ owner[h.token] = h.user
  /\ h.step = "create_session" => h.row.role # NoAccount
  /\ h.step \in {"create_session", "get_user"} => account[h.user].role # NoAccount

After(h) ==
  /\ h.step = "create_session" => h.token \in DOMAIN owner /\ owner[h.token] = h.user
  /\ h.step \in {"authenticate", "resolve_session", "get_user"} => h.row.role # NoAccount
  /\ h.step \in {"authenticate", "resolve_session", "update_user"} => account[h.user].role # NoAccount

Held == /\ \A c \in Conns : Before(handler[c])
        /\ \A i \in DOMAIN done : After(handler[done[i]])

\* Handlers in queue q, after position i, that are at step for user u.
Waits(q, i, step, u) ==
  \E j \in DOMAIN q : j > i /\ handler[q[j]].step = step /\ handler[q[j]].user = u

FreshOf(h) == h.row.role = account[h.user].role

\* A row that is no longer the account's has the update, or its refresh, behind it.
Following ==
  /\ \A i \in DOMAIN done : LET h == handler[done[i]] IN
       h.step \in {"authenticate", "resolve_session", "get_user"} =>
         FreshOf(h) \/ Waits(done, i, "update_user", h.user)
  /\ \A i \in DOMAIN work : LET h == handler[work[i]] IN
       h.step = "create_session" =>
         FreshOf(h) \/ Waits(done, 0, "update_user", h.user) \/ Waits(work, i, "get_user", h.user)
  /\ \A i \in DOMAIN done : LET h == handler[done[i]] IN
       h.step = "create_session" =>
         \/ FreshOf(h) \/ Waits(done, 0, "update_user", h.user)
         \/ Waits(work, 0, "get_user", h.user) \/ Waits(done, i, "get_user", h.user)

\* A token from before a reset has the revocation behind it.
Doomed ==
  \A i \in DOMAIN done : LET h == handler[done[i]] IN
    h.step \in {"create_session", "resolve_session"} =>
      h.token > resetAt[h.user] \/ Waits(done, i, "reset_user_password", h.user)

SessionsIInv ==
  /\ SessionsTypeOK /\ Queued /\ Issued /\ Held
  /\ Following /\ SessionFresh /\ Doomed /\ OldTokensDie /\ SuperAdminRemains

-----------------------------------------------------------------------------
(* Queues. *)

LEMMA Appended ==
  ASSUME NEW S, NEW q \in Seq(S), NEW e \in S
  PROVE  /\ Append(q, e) \in Seq(S) /\ Len(Append(q, e)) = Len(q) + 1
         /\ DOMAIN Append(q, e) = DOMAIN q \cup {Len(q) + 1}
         /\ Len(q) \in Nat /\ DOMAIN q = 1..Len(q)
         /\ \A i \in DOMAIN q : Append(q, e)[i] = q[i] /\ i \in Nat /\ i >= 1 /\ i <= Len(q) /\ q[i] \in S
         /\ Append(q, e)[Len(q) + 1] = e
OBVIOUS

LEMMA Removed ==
  ASSUME NEW S, NEW q \in Seq(S), q # <<>>
  PROVE  /\ Tail(q) \in Seq(S) /\ 1 \in DOMAIN q /\ Head(q) = q[1] /\ q[1] \in S
         /\ \A i \in DOMAIN Tail(q) : i \in Nat /\ i >= 1 /\ i + 1 \in DOMAIN q /\ Tail(q)[i] = q[i + 1]
         /\ \A i \in DOMAIN q : /\ i \in Nat /\ i >= 1 /\ q[i] \in S
                                /\ i > 1 => i - 1 \in DOMAIN Tail(q) /\ Tail(q)[i - 1] = q[i]
OBVIOUS

LEMMA NobodyIsInNoCall == NoSession \notin Session /\ Idle \in HandlerRow /\ Refusal \in HandlerRow
                          /\ Idle.step = "idle" /\ Refusal.step = "refused"
                          /\ \A s \in Session : s # NoSession
<1>1. NoAccount \in Roles \cup {NoAccount} /\ "HEAD" \in Roles /\ FALSE \in BOOLEAN /\ NoUser \in Users \cup {NoUser}
      /\ 0 \in 0..MaxTokens /\ {} \in SUBSET Conns
  BY SessionsConstants DEF Roles
<1>2. Idle \in HandlerRow
  BY <1>1 DEF Idle, HandlerRow, Account, Calls
<1>3. Refusal \in HandlerRow
  BY <1>1 DEF Refusal, Idle, HandlerRow, Account, Calls
<1>4. \A s \in Session : s # NoSession
  BY DEF Session, NoSession
<1> QED BY <1>2, <1>3, <1>4 DEF Idle, Refusal

LEMMA Unpacked ==
  ASSUME SessionsIInv
  PROVE  /\ account \in Accounts /\ owner \in Seq(Users) /\ Len(owner) <= MaxTokens /\ Len(owner) \in Nat
         /\ valid \subseteq DOMAIN owner /\ DOMAIN owner = 1..Len(owner)
         /\ session \in [Conns -> Session \cup {NoSession}] /\ handler \in [Conns -> HandlerRow]
         /\ work \in Seq(Conns) /\ done \in Seq(Conns) /\ resetAt \in [Users -> 0..MaxTokens]
         /\ \A d \in Conns : /\ handler[d] \in HandlerRow /\ Before(handler[d])
                             /\ Bound(d) => /\ session[d] \in Session
                                            /\ session[d].token \in DOMAIN owner
                                            /\ owner[session[d].token] = session[d].user
         /\ \A i \in DOMAIN done : After(handler[done[i]])
         /\ \A i \in DOMAIN work : i \in Nat /\ i >= 1 /\ work[i] \in Conns /\ handler[work[i]].step # "idle"
         /\ \A i \in DOMAIN done : i \in Nat /\ i >= 1 /\ done[i] \in Conns /\ handler[done[i]].step # "idle"
         /\ Queued /\ Issued /\ Following /\ SessionFresh /\ Doomed /\ OldTokensDie /\ SuperAdminRemains
<1>1. /\ \A i \in DOMAIN work : i \in Nat /\ i >= 1 /\ work[i] \in Conns
      /\ \A i \in DOMAIN done : i \in Nat /\ i >= 1 /\ done[i] \in Conns
  BY DEF SessionsIInv, SessionsTypeOK
<1>2. "idle" \notin Calls
  BY DEF Calls
<1> QED BY <1>1, <1>2 DEF SessionsIInv, SessionsTypeOK, Held, Bound, Queued

-----------------------------------------------------------------------------
(* A message arrives. *)

\* Who waits still waits after a handler joined the end of a queue.
LEMMA BegunStep ==
  ASSUME SessionsIInv, NEW c \in Conns, NEW h \in HandlerRow, Begin(c, h), Before(h),
         h.step \in Calls \ {"refused", "create_session"},
         h.step = "authenticate" => LoggingIn \subseteq {c} /\ Len(owner) < MaxTokens
  PROVE  SessionsIInv'
<1> DEFINE L == Len(work) + 1
<1>0. /\ handler[c].step = "idle" /\ handler' = [handler EXCEPT ![c] = h] /\ work' = Append(work, c)
      /\ UNCHANGED <<account, owner, valid, session, done, resetAt>>
  BY DEF Begin
<1>1. /\ work' \in Seq(Conns) /\ DOMAIN work' = DOMAIN work \cup {L} /\ work'[L] = c /\ L \in Nat
      /\ \A i \in DOMAIN work : work'[i] = work[i] /\ i < L /\ i \in Nat /\ i >= 1 /\ work[i] \in Conns
  BY <1>0, Unpacked, Appended
<1>2. /\ \A i \in DOMAIN work : work[i] # c
      /\ \A i \in DOMAIN done : done[i] # c /\ done[i] \in Conns
  BY <1>0, Unpacked
<1>3. /\ handler' \in [Conns -> HandlerRow] /\ handler'[c] = h
      /\ \A d \in Conns \ {c} : handler'[d] = handler[d]
  BY <1>0, Unpacked
<1> HIDE DEF L
<1>4. SessionsTypeOK'
  BY <1>0, <1>1, <1>3, Unpacked DEF SessionsIInv, SessionsTypeOK, Bound
<1>5. Queued'
  BY <1>0, <1>1, <1>2, <1>3 DEF SessionsIInv, Queued
<1>6. Issued'
  <2>1. LoggingIn' \subseteq LoggingIn \cup {c} /\ (h.step # "authenticate" => LoggingIn' \subseteq LoggingIn)
    BY <1>0, <1>3 DEF LoggingIn
  <2>2. h.step = "authenticate" => LoggingIn' \subseteq {c}
    BY <1>3, <2>1
  <2>3. \A d \in Conns : Pending(done, d)' = Pending(done, d)
    BY <1>0 DEF Pending
  <2>4. \A d \in LoggingIn' : d \in Conns
    BY DEF LoggingIn
  <2> QED BY <1>0, <1>3, <2>1, <2>2, <2>3, <2>4 DEF SessionsIInv, Issued
<1>7. Held'
  BY <1>0, <1>2, <1>3 DEF SessionsIInv, Held, Before, After
<1>8. /\ \A i \in Nat : \A step, u : Waits(done, i, step, u) => Waits(done, i, step, u)'
      /\ \A i \in Nat : \A step, u : Waits(work, i, step, u) => Waits(work, i, step, u)'
  BY <1>0, <1>1, <1>2, <1>3 DEF Waits
<1>9. Following'
  <2>1. \A i \in DOMAIN done : handler'[done'[i]] = handler[done[i]] /\ i \in Nat
    BY <1>0, <1>2, <1>3, Unpacked
  <2>2. \A i \in DOMAIN work : handler'[work'[i]] = handler[work[i]] /\ i \in Nat
    BY <1>1, <1>2, <1>3
  <2>3. handler'[work'[L]].step # "create_session"
    BY <1>1, <1>3
  <2>4. account' = account /\ done' = done
    BY <1>0
  <2> QED BY <1>1, <1>8, <2>1, <2>2, <2>3, <2>4 DEF SessionsIInv, Following, FreshOf
<1>10. SessionFresh'
  BY <1>0, <1>2, <1>3 DEF SessionsIInv, SessionFresh, Pending, Bound
<1>11. Doomed'
  <2>1. \A i \in DOMAIN done : handler'[done'[i]] = handler[done[i]] /\ i \in Nat
    BY <1>0, <1>2, <1>3, Unpacked
  <2> QED BY <1>0, <1>8, <2>1 DEF SessionsIInv, Doomed
<1>12. OldTokensDie'
  <2>1. \A d \in Conns : Revoking(d) => Revoking(d)'
    BY <1>0, <1>2, <1>3 DEF Revoking, Pending
  <2> QED BY <1>0, <2>1 DEF SessionsIInv, OldTokensDie, Bound
<1>13. SuperAdminRemains'
  BY <1>0 DEF SessionsIInv, SuperAdminRemains, SuperAdmins
<1> QED BY <1>4, <1>5, <1>6, <1>7, <1>9, <1>10, <1>11, <1>12, <1>13 DEF SessionsIInv

-----------------------------------------------------------------------------
(* The worker executes a call. *)

\* A call keeps the invariant if what it changes of an account or of the resets is what its
\* handler, now last in `done`, will put right, and what it read is the present state.
LEMMA ExecutedStep ==
  ASSUME SessionsIInv, NEW c \in Conns, NEW h \in HandlerRow, Executed(c, h),
         h.step \in {handler[c].step, "refused"},
         h.step = "refused" => handler[c].step # "get_user",
         h.step # "refused" => h.user = handler[c].user,
         account' \in Accounts, owner' \in Seq(Users), Len(owner') <= MaxTokens,
         valid' \subseteq DOMAIN owner', resetAt' \in [Users -> 0..MaxTokens],
         \A t \in DOMAIN owner : t \in DOMAIN owner' /\ owner'[t] = owner[t],
         \A t \in DOMAIN owner' : account'[owner'[t]].role # NoAccount,
         Len(owner) <= Len(owner'), owner' = owner \/ handler[c].step = "create_session",
         \A u \in Users : /\ resetAt'[u] <= Len(owner')
                          /\ resetAt'[u] # resetAt[u] => h.step = "reset_user_password" /\ h.user = u,
         \A t \in valid' : t > resetAt'[owner'[t]],
         \A u \in Users : account[u].role # NoAccount =>
            /\ account'[u].role # NoAccount
            /\ account'[u].role # account[u].role => h.step = "update_user" /\ h.user = u,
         Before(h)', After(h)',
         h.step \in {"authenticate", "resolve_session", "get_user"} => h.row.role = account'[h.user].role,
         h.step = "create_session" => h.row = handler[c].row,
         h.step \in {"create_session", "resolve_session"} => h.token > resetAt'[h.user],
         SuperAdminRemains'
  PROVE  SessionsIInv'
<1>D. PICK D : D = Len(done) + 1
  OBVIOUS
<1>k. PICK k : k = handler[c].step
  OBVIOUS
<1>0. /\ work # <<>> /\ Head(work) = c /\ work' = Tail(work) /\ done' = Append(done, c)
      /\ handler' = [handler EXCEPT ![c] = h] /\ session' = session
  BY DEF Executed
<1>1. /\ work' \in Seq(Conns) /\ 1 \in DOMAIN work /\ work[1] = c
      /\ \A i \in DOMAIN work' : i \in Nat /\ i >= 1 /\ i + 1 \in DOMAIN work /\ work'[i] = work[i + 1]
      /\ \A i \in DOMAIN work : i > 1 => i - 1 \in DOMAIN work' /\ work'[i - 1] = work[i]
  BY <1>0, Unpacked, Removed
<1>2. /\ done' \in Seq(Conns) /\ DOMAIN done' = DOMAIN done \cup {D} /\ done'[D] = c /\ D \in Nat /\ D >= 1
      /\ \A i \in DOMAIN done : done'[i] = done[i] /\ i < D /\ i \in Nat /\ i >= 1 /\ done[i] \in Conns
  BY <1>0, <1>D, Unpacked, Appended
<1>3. /\ \A i \in DOMAIN work : i > 1 => work[i] # c
      /\ \A i \in DOMAIN done : done[i] # c
      /\ k \in Calls \ {"refused"} /\ k # "revoke"
  <2>1. Queued /\ "revoke" \notin Calls
    BY Unpacked DEF Calls
  <2>2. \A i \in DOMAIN work : i > 1 => work[i] # c
    BY <1>1, <2>1, Unpacked DEF Queued
  <2>3. \A i \in DOMAIN done : done[i] # c
    BY <1>1, <2>1 DEF Queued
  <2>4. k \in Calls \ {"refused"}
    BY <1>1, <1>k, <2>1 DEF Queued
  <2> QED BY <2>1, <2>2, <2>3, <2>4
<1>4. /\ handler' \in [Conns -> HandlerRow] /\ handler'[c] = h
      /\ \A d \in Conns \ {c} : handler'[d] = handler[d]
  BY <1>0, Unpacked
<1>5. /\ \A i \in DOMAIN done : handler'[done'[i]] = handler[done[i]]
      /\ \A i \in DOMAIN work' : handler'[work'[i]] = handler[work[i + 1]]
      /\ handler'[done'[D]] = h
  BY <1>1, <1>2, <1>3, <1>4, Unpacked
<1>6. /\ \A i \in Nat : \A step, u : Waits(done, i, step, u) => Waits(done, i, step, u)'
      /\ \A i \in Nat \ {0} : \A step, u : Waits(work, i, step, u) => Waits(work, i - 1, step, u)'
      /\ \A step, u : Waits(work, 0, step, u) =>
           Waits(work, 0, step, u)' \/ (k = step /\ handler[c].user = u)
      /\ \A i \in DOMAIN done \cup {0} : Waits(done, i, h.step, h.user)'
  <2>1. \A i \in Nat : \A step, u : Waits(done, i, step, u) => Waits(done, i, step, u)'
    BY <1>2, <1>5 DEF Waits
  <2>2. \A i \in Nat \ {0} : \A step, u : Waits(work, i, step, u) => Waits(work, i - 1, step, u)'
    <3> SUFFICES ASSUME NEW i \in Nat \ {0}, NEW step, NEW u, Waits(work, i, step, u)
                 PROVE  Waits(work, i - 1, step, u)'
      OBVIOUS
    <3>1. PICK j \in DOMAIN work : j > i /\ handler[work[j]].step = step /\ handler[work[j]].user = u
      BY DEF Waits
    <3>2. j \in Nat /\ j > 1 /\ j - 1 \in DOMAIN work' /\ j - 1 > i - 1 /\ (j - 1) + 1 = j
      BY <1>1, <3>1, Unpacked
    <3> QED BY <1>5, <3>1, <3>2 DEF Waits
  <2>3. \A step, u : Waits(work, 0, step, u) =>
           Waits(work, 0, step, u)' \/ (k = step /\ handler[c].user = u)
    <3> SUFFICES ASSUME NEW step, NEW u, Waits(work, 0, step, u)
                 PROVE  Waits(work, 0, step, u)' \/ (k = step /\ handler[c].user = u)
      OBVIOUS
    <3>1. PICK j \in DOMAIN work : handler[work[j]].step = step /\ handler[work[j]].user = u
      BY DEF Waits
    <3>2. CASE j = 1
      BY <1>1, <1>k, <3>1, <3>2
    <3>3. CASE j # 1
      <4>1. j \in Nat /\ j > 1 /\ j - 1 \in DOMAIN work' /\ j - 1 > 0 /\ (j - 1) + 1 = j
        BY <1>1, <3>3, Unpacked, SMTT(30)
      <4> QED BY <1>5, <3>1, <4>1 DEF Waits
    <3> QED BY <3>2, <3>3
  <2>4. \A i \in DOMAIN done \cup {0} : Waits(done, i, h.step, h.user)'
    BY <1>2, <1>5 DEF Waits
  <2> QED BY <2>1, <2>2, <2>3, <2>4
<1>7. \A u \in Users : account[u].role # NoAccount /\ account'[u].role # account[u].role =>
        \A i \in DOMAIN done \cup {0} : Waits(done, i, "update_user", u)'
  BY <1>6
<1>8. SessionsTypeOK'
  BY <1>0, <1>1, <1>2, <1>4, Unpacked DEF SessionsTypeOK, Bound
<1>9. Queued'
  <2>1. \A i, j \in DOMAIN work' : work'[i] = work'[j] => i = j
    BY <1>1, Unpacked, SMTT(30) DEF Queued
  <2>2. \A i, j \in DOMAIN done' : done'[i] = done'[j] => i = j
    BY <1>2, <1>3, Unpacked DEF Queued
  <2>3. \A i \in DOMAIN work', j \in DOMAIN done' : work'[i] # done'[j]
    BY <1>1, <1>2, <1>3, Unpacked DEF Queued
  <2>4. \A i \in DOMAIN work' : handler'[work'[i]].step \in Calls \ {"refused"}
    BY <1>1, <1>5, Unpacked, SMTT(30) DEF Queued
  <2>5. h.step \in Calls
    BY <1>3, <1>k DEF Calls
  <2>6. \A j \in DOMAIN done' : handler'[done'[j]].step \in Calls
    BY <1>2, <1>5, <2>5, Unpacked DEF Queued
  <2> QED BY <2>1, <2>2, <2>3, <2>4, <2>6 DEF Queued
<1>10. Issued'
  <2>1. \A d \in Conns : (Pending(done, d)' <=> Pending(done, d) \/ d = c)
    BY <1>2 DEF Pending
  <2>2. LoggingIn' \subseteq LoggingIn
    BY <1>4 DEF LoggingIn
  <2>3. \A d \in LoggingIn' : /\ handler'[d].step = "authenticate" \/ ~Pending(done, d)' => Len(owner') < MaxTokens
    <3> SUFFICES ASSUME NEW d \in LoggingIn', handler'[d].step = "authenticate" \/ ~Pending(done, d)'
                 PROVE  Len(owner') < MaxTokens
      OBVIOUS
    <3>0. d \in LoggingIn /\ d \in Conns
      BY <2>2 DEF LoggingIn
    <3>1. CASE owner' = owner
      <4>1. handler[d].step = "authenticate" \/ ~Pending(done, d)
        BY <1>4, <2>1, <3>0
      <4> QED BY <3>0, <3>1, <4>1, Unpacked DEF Issued
    <3>2. CASE k = "create_session"
      <4>1. c \in LoggingIn
        BY <1>k, <3>2 DEF LoggingIn
      <4>2. d = c
        BY <3>0, <4>1, Unpacked DEF Issued
      <4>3. Pending(done, d)'
        BY <2>1, <4>2
      <4>4. handler'[d].step # "authenticate"
        BY <1>4, <1>k, <3>2, <4>2
      <4> QED BY <4>3, <4>4
    <3> QED BY <1>k, <3>1, <3>2
  <2>4. \A d, e \in LoggingIn' : d = e
    BY <2>2, Unpacked DEF Issued
  <2> QED BY <2>3, <2>4 DEF Issued
<1>11. Held'
  <2>1. ASSUME NEW d \in Conns \ {c} PROVE Before(handler[d])'
    <3>1. Before(handler[d]) /\ handler'[d] = handler[d]
      BY <1>4, Unpacked
    <3>2. handler[d].step \in {"create_session", "get_user"} => handler[d].user \in Users
      BY <3>1 DEF Before, Calls
    <3> QED BY <3>1, <3>2 DEF Before
  <2>2. ASSUME NEW i \in DOMAIN done PROVE After(handler[done[i]])'
    <3>1. After(handler[done[i]]) /\ Before(handler[done[i]]) /\ handler'[done'[i]] = handler[done[i]]
      BY <1>2, <1>5, Unpacked
    <3>2. handler[done[i]].step \in Calls \ {"refused"} => handler[done[i]].user \in Users
      BY <3>1 DEF Before
    <3> QED BY <3>1, <3>2 DEF After, Calls
  <2>3. Before(handler[c])'
    BY <1>4 DEF Before
  <2>4. \A i \in DOMAIN done' : After(handler[done[i]])'
    <3> TAKE i \in DOMAIN done'
    <3>1. CASE i \in DOMAIN done
      BY <2>2, <3>1
    <3>2. CASE i = D
      BY <1>5, <3>2 DEF After
    <3> QED BY <1>2, <3>1, <3>2
  <2> QED BY <2>1, <2>3, <2>4 DEF Held
<1>12. Following'
  <2>1. \A u \in Users : \/ account[u].role # NoAccount /\ account'[u].role = account[u].role
                         \/ account[u].role = NoAccount
                         \/ \A i \in DOMAIN done \cup {0} : Waits(done, i, "update_user", u)'
    BY <1>7
  <2>2. ASSUME NEW i \in DOMAIN done', NEW g, g = handler'[done'[i]],
               g.step \in {"authenticate", "resolve_session", "get_user"}
        PROVE  g.row.role = account'[g.user].role \/ Waits(done, i, "update_user", g.user)'
    <3>1. CASE i = D
      BY <1>5, <2>2, <3>1
    <3>2. CASE i \in DOMAIN done
      <4>1. g = handler[done[i]] /\ Before(g) /\ After(g) /\ i \in Nat
        BY <1>2, <1>5, <2>2, <3>2, Unpacked
      <4>2. g.user \in Users /\ account[g.user].role # NoAccount
        BY <2>2, <4>1 DEF Before, After, Calls
      <4>3. g.row.role = account[g.user].role \/ Waits(done, i, "update_user", g.user)
        BY <2>2, <3>2, <4>1, Unpacked DEF Following, FreshOf
      <4> QED BY <1>6, <2>1, <3>2, <4>1, <4>2, <4>3
    <3> QED BY <1>2, <3>1, <3>2
  <2>3. ASSUME NEW i \in DOMAIN work', NEW g, g = handler'[work'[i]], g.step = "create_session"
        PROVE  \/ g.row.role = account'[g.user].role
               \/ Waits(done, 0, "update_user", g.user)' \/ Waits(work, i, "get_user", g.user)'
    <3>1. i \in Nat /\ i + 1 \in DOMAIN work /\ g = handler[work[i + 1]] /\ Before(g)
      BY <1>1, <1>5, <2>3, Unpacked
    <3>2. g.user \in Users /\ account[g.user].role # NoAccount
      BY <2>3, <3>1 DEF Before, Calls
    <3>3. \/ g.row.role = account[g.user].role
          \/ Waits(done, 0, "update_user", g.user) \/ Waits(work, i + 1, "get_user", g.user)
      BY <2>3, <3>1, Unpacked DEF Following, FreshOf
    <3>4. Waits(work, i + 1, "get_user", g.user) => Waits(work, (i + 1) - 1, "get_user", g.user)'
      BY <1>6, <3>1
    <3>5. (i + 1) - 1 = i
      BY <3>1
    <3> QED BY <1>6, <2>1, <3>2, <3>3, <3>4, <3>5
  <2>4. ASSUME NEW i \in DOMAIN done', NEW g, g = handler'[done'[i]], g.step = "create_session"
        PROVE  \/ g.row.role = account'[g.user].role \/ Waits(done, 0, "update_user", g.user)'
               \/ Waits(work, 0, "get_user", g.user)' \/ Waits(done, i, "get_user", g.user)'
    <3>1. CASE i = D
      <4>1. g = h /\ k = "create_session" /\ h.user = handler[c].user /\ h.row = handler[c].row
        BY <1>5, <1>k, <2>4, <3>1
      <4>2. g.user \in Users /\ account[g.user].role # NoAccount
        BY <1>k, <4>1, Unpacked DEF Before, Calls
      <4>3. \/ g.row.role = account[g.user].role
            \/ Waits(done, 0, "update_user", g.user) \/ Waits(work, 1, "get_user", g.user)
        BY <1>1, <1>k, <4>1, Unpacked DEF Following, FreshOf
      <4>4. Waits(work, 1, "get_user", g.user) => Waits(work, 1 - 1, "get_user", g.user)'
        BY <1>6
      <4>5. 1 - 1 = 0
        OBVIOUS
      <4> QED BY <1>6, <2>1, <4>2, <4>3, <4>4, <4>5
    <3>2. CASE i \in DOMAIN done
      <4>1. g = handler[done[i]] /\ Before(g) /\ i \in Nat
        BY <1>2, <1>5, <2>4, <3>2, Unpacked
      <4>2. g.user \in Users /\ account[g.user].role # NoAccount
        BY <2>4, <4>1 DEF Before, Calls
      <4>3. \/ g.row.role = account[g.user].role \/ Waits(done, 0, "update_user", g.user)
            \/ Waits(work, 0, "get_user", g.user) \/ Waits(done, i, "get_user", g.user)
        BY <2>4, <3>2, <4>1, Unpacked DEF Following, FreshOf
      <4>4. k = "get_user" => h.step = "get_user" /\ h.user = handler[c].user
        BY <1>k
      <4> QED BY <1>6, <2>1, <3>2, <4>1, <4>2, <4>3, <4>4
    <3> QED BY <1>2, <3>1, <3>2
  <2> QED BY <2>2, <2>3, <2>4 DEF Following, FreshOf, Waits
<1>13. SessionFresh'
  <2> SUFFICES ASSUME NEW d \in Conns, Bound(d)
               PROVE  \/ session[d].role = account'[session[d].user].role
                      \/ \E e \in Conns : /\ handler'[e].user = session[d].user
                                          /\ \/ handler'[e].step = "update_user" /\ Pending(done, e)'
                                             \/ handler'[e].step = "get_user"
    BY <1>0 DEF SessionFresh, Bound
  <2>1. session[d].user \in Users /\ account[session[d].user].role # NoAccount
    BY Unpacked DEF Issued, Session
  <2>2. Pending(done, c)'
    BY <1>2 DEF Pending
  <2>3. CASE account'[session[d].user].role # account[session[d].user].role
    BY <1>4, <2>1, <2>2, <2>3
  <2>4. CASE \E e \in Conns : /\ handler[e].user = session[d].user
                              /\ \/ handler[e].step = "update_user" /\ Pending(done, e)
                                 \/ handler[e].step = "get_user"
    <3>1. PICK e \in Conns : /\ handler[e].user = session[d].user
                             /\ \/ handler[e].step = "update_user" /\ Pending(done, e)
                                \/ handler[e].step = "get_user"
      BY <2>4
    <3>2. Pending(done, e) => e # c /\ Pending(done, e)'
      BY <1>2, <1>3 DEF Pending
    <3> QED BY <1>4, <3>1, <3>2
  <2> QED BY <2>3, <2>4, Unpacked DEF SessionFresh
<1>14. Doomed'
  <2>1. ASSUME NEW i \in DOMAIN done', NEW g, g = handler'[done'[i]],
               g.step \in {"create_session", "resolve_session"}
        PROVE  g.token > resetAt'[g.user] \/ Waits(done, i, "reset_user_password", g.user)'
    <3>1. CASE i = D
      BY <1>5, <2>1, <3>1
    <3>2. CASE i \in DOMAIN done
      <4>1. g = handler[done[i]] /\ Before(g) /\ i \in Nat
        BY <1>2, <1>5, <2>1, <3>2, Unpacked
      <4>2. g.user \in Users
        BY <2>1, <4>1 DEF Before, Calls
      <4>3. g.token > resetAt[g.user] \/ Waits(done, i, "reset_user_password", g.user)
        BY <2>1, <3>2, <4>1, Unpacked DEF Doomed
      <4>4. resetAt'[g.user] = resetAt[g.user] \/ Waits(done, i, "reset_user_password", g.user)'
        BY <1>6, <3>2, <4>2
      <4> QED BY <1>6, <4>1, <4>3, <4>4
    <3> QED BY <1>2, <3>1, <3>2
  <2> QED BY <2>1 DEF Doomed, Waits
<1>15. OldTokensDie'
  <2> SUFFICES ASSUME NEW d \in Conns, Bound(d)
               PROVE  session[d].token > resetAt'[session[d].user] \/ Revoking(d)'
    BY <1>0 DEF OldTokensDie, Bound
  <2>1. session[d].user \in Users
    BY Unpacked DEF Session
  <2>2. Pending(done, c)' /\ \A e \in Conns : Pending(done, e) => e # c /\ Pending(done, e)'
    BY <1>2, <1>3 DEF Pending
  <2>3. CASE resetAt'[session[d].user] # resetAt[session[d].user]
    BY <1>0, <1>4, <2>1, <2>2, <2>3 DEF Revoking
  <2>4. Revoking(d) => Revoking(d)'
    BY <1>0, <1>3, <1>4, <1>k, <2>2 DEF Revoking
  <2> QED BY <2>3, <2>4, Unpacked DEF OldTokensDie
<1> QED BY <1>8, <1>9, <1>10, <1>11, <1>12, <1>13, <1>14, <1>15 DEF SessionsIInv

\* A row that is changed in one field stays a row.
LEMMA RowsChanged ==
  ASSUME NEW a \in Account
  PROVE  /\ \A row : row = [a EXCEPT !.must = TRUE] \/ row = [a EXCEPT !.must = FALSE] =>
              row \in Account /\ row.role = a.role
         /\ \A r \in Roles : \A row : row = [a EXCEPT !.role = r] => row \in Account /\ row.role = r
BY DEF Account

\* Calls that change no role and issue and revoke nothing but by deleting tokens.
LEMMA QuietStep ==
  ASSUME SessionsIInv, NEW c \in Conns, NEW h \in HandlerRow, Executed(c, h),
         h.step \in {handler[c].step, "refused"},
         h.step = "refused" => handler[c].step # "get_user",
         h.step # "refused" => h.user = handler[c].user,
         h.step \notin {"create_session"},
         UNCHANGED <<owner, resetAt>>, valid' \subseteq valid,
         account' \in Accounts, \A u \in Users : account'[u].role = account[u].role,
         Before(h), After(h),
         h.step \in {"authenticate", "resolve_session", "get_user"} => h.row.role = account[h.user].role,
         h.step = "resolve_session" => h.token \in valid
  PROVE  SessionsIInv'
<1>1. /\ owner' \in Seq(Users) /\ Len(owner') <= MaxTokens /\ resetAt' \in [Users -> 0..MaxTokens]
      /\ valid' \subseteq DOMAIN owner' /\ Len(owner) <= Len(owner')
      /\ \A t \in DOMAIN owner : owner[t] \in Users
  BY Unpacked
<1>2. /\ \A t \in DOMAIN owner' : account'[owner'[t]].role # NoAccount
      /\ \A u \in Users : resetAt'[u] <= Len(owner')
  BY <1>1, Unpacked DEF Issued
<1>3. \A t \in valid : t > resetAt[owner[t]]
  BY Unpacked DEF OldTokensDie
<1>4. h.step \in {"authenticate", "resolve_session", "get_user", "create_session", "update_user"} => h.user \in Users
  BY DEF Before, Calls
<1>5. h.step \in {"authenticate", "resolve_session", "get_user"} => h.row.role = account'[h.user].role
  BY <1>4
<1>6. Before(h)' /\ After(h)'
  BY <1>4 DEF Before, After
<1>7. h.step = "resolve_session" => h.token > resetAt'[h.user]
  BY <1>3 DEF Before
<1>8. SuperAdminRemains'
  BY Unpacked DEF SuperAdminRemains, SuperAdmins
<1> QED BY <1>1, <1>2, <1>3, <1>5, <1>6, <1>7, <1>8, ExecutedStep

LEMMA WorkerStep ==
  ASSUME SessionsIInv, NEW c \in Conns, Worker(c)
  PROVE  SessionsIInv'
<1>0. PICK g : g = handler[c]
  OBVIOUS
<1>1. g \in HandlerRow /\ Before(g)
  BY <1>0, Unpacked
<1>2. After(Refusal) /\ Before(Refusal) /\ Refusal \in HandlerRow /\ Refusal.step = "refused"
  BY NobodyIsInNoCall DEF Before, After
<1>3. account \in Accounts /\ \A u \in Users : account[u] \in Account
  BY Unpacked DEF Accounts
<1>4. CASE Authenticate(c)
  <2>1. g.step = "authenticate" /\ g.user \in Users /\ UNCHANGED <<account, owner, valid, resetAt>>
    BY <1>0, <1>1, <1>4 DEF Authenticate, Before, Calls
  <2>2. CASE Executed(c, Refusal)
    BY <1>0, <1>2, <1>3, <2>1, <2>2, QuietStep
  <2>3. CASE account[g.user].role # NoAccount
             /\ Executed(c, [g EXCEPT !.row = account[g.user], !.forced = FALSE])
    <3>1. PICK h : h = [g EXCEPT !.row = account[g.user], !.forced = FALSE]
      OBVIOUS
    <3>2. h \in HandlerRow /\ h.step = "authenticate" /\ h.user = g.user /\ h.row = account[g.user]
      BY <1>1, <1>3, <2>1, <3>1 DEF HandlerRow
    <3>3. Before(h) /\ After(h)
      BY <2>1, <2>3, <3>2 DEF Before, After
    <3> QED BY <1>0, <1>3, <2>1, <2>3, <3>1, <3>2, <3>3, QuietStep
  <2> QED BY <1>0, <1>4, <2>2, <2>3 DEF Authenticate
<1>5. CASE ResolveSession(c)
  <2>1. g.step = "resolve_session" /\ g.user \in Users /\ UNCHANGED <<account, owner, valid, resetAt>>
    BY <1>0, <1>1, <1>5 DEF ResolveSession, Before, Calls
  <2>2. CASE Executed(c, Refusal)
    BY <1>0, <1>2, <1>3, <2>1, <2>2, QuietStep
  <2>3. CASE g.token \in valid /\ Executed(c, [g EXCEPT !.row = account[g.user]])
    <3>1. PICK h : h = [g EXCEPT !.row = account[g.user]]
      OBVIOUS
    <3>2. h \in HandlerRow /\ h.step = "resolve_session" /\ h.user = g.user
          /\ h.row = account[g.user] /\ h.token = g.token
      BY <1>1, <1>3, <2>1, <3>1 DEF HandlerRow
    <3>3. account[g.user].role # NoAccount
      BY <1>1, <2>1, Unpacked DEF Before, Issued
    <3>4. Before(h) /\ After(h)
      BY <1>1, <2>1, <3>2, <3>3 DEF Before, After
    <3> QED BY <1>0, <1>3, <2>1, <2>3, <3>1, <3>2, <3>4, QuietStep
  <2> QED BY <1>0, <1>5, <2>2, <2>3 DEF ResolveSession
<1>6. CASE DeleteSession(c) \/ DeleteOtherSessions(c)
  <2>1. /\ g.step \in {"delete_session", "delete_user_sessions"} /\ valid' \subseteq valid
        /\ UNCHANGED <<account, owner, resetAt>> /\ Executed(c, g)
    BY <1>0, <1>6 DEF DeleteSession, DeleteOtherSessions
  <2>2. After(g)
    BY <2>1 DEF After
  <2> QED BY <1>0, <1>1, <1>3, <2>1, <2>2, QuietStep
<1>7. CASE GetUser(c)
  <2>1. /\ g.step = "get_user" /\ g.user \in Users /\ UNCHANGED <<account, owner, valid, resetAt>>
        /\ Executed(c, [g EXCEPT !.row = account[g.user]])
    BY <1>0, <1>1, <1>7 DEF GetUser, Before, Calls
  <2>2. PICK h : h = [g EXCEPT !.row = account[g.user]]
    OBVIOUS
  <2>3. h \in HandlerRow /\ h.step = "get_user" /\ h.user = g.user /\ h.row = account[g.user]
    BY <1>1, <1>3, <2>1, <2>2 DEF HandlerRow
  <2>4. Before(h) /\ After(h)
    BY <1>1, <2>1, <2>3 DEF Before, After
  <2> QED BY <1>0, <1>3, <2>1, <2>2, <2>3, <2>4, QuietStep
<1>8. CASE ChangeStored(c)
  <2>1. g.step = "change_password" /\ UNCHANGED <<owner, valid, resetAt>> /\ g.user \in Users
    BY <1>0, <1>1, <1>8 DEF ChangeStored, Before, Calls
  <2>2. account' \in Accounts /\ \A u \in Users : account'[u].role = account[u].role
    <3>1. PICK row : row = [account[g.user] EXCEPT !.must = FALSE]
      OBVIOUS
    <3>2. account' = account \/ account' = [account EXCEPT ![g.user] = row]
      BY <1>0, <1>8, <3>1 DEF ChangeStored
    <3>3. row \in Account /\ row.role = account[g.user].role
      BY <1>3, <2>1, <3>1, RowsChanged
    <3> QED BY <1>3, <2>1, <3>2, <3>3 DEF Accounts
  <2>3. Executed(c, g) \/ Executed(c, Refusal)
    BY <1>0, <1>8 DEF ChangeStored
  <2>4. After(g)
    BY <2>1 DEF After
  <2>5. CASE Executed(c, g)
    BY <1>0, <1>1, <2>1, <2>2, <2>4, <2>5, QuietStep
  <2>6. CASE Executed(c, Refusal)
    BY <1>0, <1>2, <2>1, <2>2, <2>6, QuietStep, SMTT(30)
  <2> QED BY <2>3, <2>5, <2>6
<1>9. CASE CreateSession(c)
  <2> DEFINE T == Len(owner) + 1
  <2>1. /\ g.step = "create_session" /\ g.user \in Users /\ owner' = Append(owner, g.user)
        /\ valid' = valid \cup {T} /\ UNCHANGED <<account, resetAt>>
        /\ Executed(c, [g EXCEPT !.token = T])
    BY <1>0, <1>1, <1>9 DEF CreateSession, Before, Calls
  <2>2. /\ owner' \in Seq(Users) /\ Len(owner') = T /\ DOMAIN owner' = DOMAIN owner \cup {T} /\ T \in Nat
        /\ owner'[T] = g.user /\ DOMAIN owner = 1..Len(owner) /\ T > Len(owner) /\ T >= 1
        /\ \A t \in DOMAIN owner : owner'[t] = owner[t] /\ owner[t] \in Users
    BY <2>1, Unpacked, Appended
  <2>3. ~Pending(done, c)
    <3>1. Head(work) = c /\ work # <<>>
      BY <2>1 DEF Executed
    <3>2. 1 \in DOMAIN work /\ work[1] = c
      BY <3>1, Unpacked, Removed
    <3> QED BY <3>2, Unpacked DEF Queued, Pending
  <2>4. T <= MaxTokens
    <3>1. c \in LoggingIn
      BY <1>0, <2>1 DEF LoggingIn
    <3>2. Len(owner) < MaxTokens
      BY <2>3, <3>1, Unpacked DEF Issued
    <3> QED BY <3>2, Unpacked, SessionsConstants
  <2>5. PICK h : h = [g EXCEPT !.token = T]
    OBVIOUS
  <2>6. T \in 0..MaxTokens
    BY <2>2, <2>4, SessionsConstants
  <2>7. h \in HandlerRow /\ h.step = "create_session" /\ h.user = g.user /\ h.token = T /\ h.row = g.row
    BY <1>1, <2>1, <2>5, <2>6 DEF HandlerRow
  <2>8. Before(h)' /\ After(h)'
    BY <1>1, <2>1, <2>2, <2>7 DEF Before, After
  <2>9. /\ \A u \in Users : resetAt'[u] <= Len(owner') /\ resetAt'[u] < T
        /\ \A t \in valid' : t > resetAt'[owner'[t]]
        /\ \A t \in DOMAIN owner' : account'[owner'[t]].role # NoAccount
    <3>1. \A u \in Users : resetAt[u] \in 0..MaxTokens /\ resetAt[u] <= Len(owner)
      BY Unpacked DEF Issued
    <3>2. \A u \in Users : resetAt[u] < T
      BY <2>2, <3>1, SessionsConstants
    <3>3. \A t \in valid : t > resetAt[owner[t]] /\ t \in DOMAIN owner
      BY Unpacked DEF OldTokensDie
    <3>4. account[g.user].role # NoAccount
      BY <1>1, <2>1 DEF Before
    <3> QED BY <2>1, <2>2, <3>1, <3>2, <3>3, <3>4, Unpacked DEF Issued
  <2>10. SuperAdminRemains' /\ valid' \subseteq DOMAIN owner'
    BY <2>1, <2>2, Unpacked DEF SuperAdminRemains, SuperAdmins
  <2>11. resetAt' = resetAt /\ account' = account /\ Executed(c, h) /\ Len(owner) <= Len(owner')
    BY <2>1, <2>2, <2>5, Unpacked
  <2> HIDE DEF T
  <2>12. h.token > resetAt'[h.user] /\ Len(owner') <= MaxTokens
    BY <2>1, <2>2, <2>4, <2>7, <2>9
  <2> QED BY <1>0, <2>1, <2>2, <2>7, <2>8, <2>9, <2>10, <2>11, <2>12, ExecutedStep, Unpacked
<1>10. CASE CreateUser(c)
  <2>1. g.step = "create_user" /\ g.user \in Users /\ g.row.role \in Roles /\ UNCHANGED <<owner, valid, resetAt>>
    BY <1>0, <1>1, <1>10 DEF CreateUser, Before, Calls
  <2>2. CASE Executed(c, Refusal) /\ account' = account
    BY <1>0, <1>2, <1>3, <2>1, <2>2, QuietStep
  <2>3. CASE /\ Executed(c, g) /\ account[g.user].role = NoAccount
             /\ account' = [account EXCEPT ![g.user] = [role |-> g.row.role, must |-> TRUE]]
    <3>1. PICK row : row = [role |-> g.row.role, must |-> TRUE]
      OBVIOUS
    <3>2. row \in Account /\ row.role = g.row.role
      BY <2>1, <3>1 DEF Account
    <3>3. account' \in Accounts /\ account'[g.user].role = g.row.role
          /\ \A u \in Users \ {g.user} : account'[u] = account[u]
      BY <1>3, <2>1, <2>3, <3>1, <3>2 DEF Accounts
    <3>4. g.row.role # NoAccount
      BY <2>1 DEF Roles, NoAccount
    <3>5. /\ Before(g)' /\ After(g)'
          /\ \A t \in DOMAIN owner' : account'[owner'[t]].role # NoAccount
      BY <1>1, <2>1, <2>3, <3>3, <3>4, Unpacked DEF Before, After, Issued
    <3>6. SuperAdminRemains'
      <4>1. PICK u \in Users : account[u].role = "SUPER_ADMIN"
        BY Unpacked DEF SuperAdminRemains, SuperAdmins
      <4>2. u # g.user
        BY <2>3, <4>1 DEF NoAccount
      <4> QED BY <3>3, <4>1, <4>2 DEF SuperAdminRemains, SuperAdmins
    <3>7. /\ \A t \in valid' : t > resetAt'[owner'[t]]
          /\ \A u \in Users : resetAt'[u] <= Len(owner')
      BY <2>1, Unpacked DEF OldTokensDie, Issued
    <3>9. /\ owner' \in Seq(Users) /\ Len(owner') <= MaxTokens /\ Len(owner) <= Len(owner')
          /\ valid' \subseteq DOMAIN owner' /\ resetAt' \in [Users -> 0..MaxTokens]
      BY <2>1, Unpacked
    <3> QED BY <1>0, <1>1, <2>1, <2>3, <3>3, <3>5, <3>6, <3>7, <3>9, ExecutedStep
  <2> QED BY <1>0, <1>10, <2>2, <2>3 DEF CreateUser
<1>11. CASE UpdateUser(c)
  <2>1. g.step = "update_user" /\ g.user \in Users /\ g.row.role \in Roles /\ UNCHANGED <<owner, valid, resetAt>>
    BY <1>0, <1>1, <1>11 DEF UpdateUser, Before, Calls
  <2>2. CASE Executed(c, Refusal) /\ account' = account
    BY <1>0, <1>2, <1>3, <2>1, <2>2, QuietStep
  <2>3. CASE /\ Executed(c, g) /\ MayBecome(g.user, g.row.role, g.by)
             /\ account' = [account EXCEPT ![g.user].role = g.row.role]
    <3>1. account' \in Accounts /\ account'[g.user].role = g.row.role
          /\ \A u \in Users \ {g.user} : account'[u] = account[u]
      <4>1. PICK row : row = [account[g.user] EXCEPT !.role = g.row.role]
        OBVIOUS
      <4>2. account' = [account EXCEPT ![g.user] = row]
        BY <2>3, <4>1
      <4>3. row \in Account /\ row.role = g.row.role
        BY <1>3, <2>1, <4>1, RowsChanged
      <4> QED BY <1>3, <2>1, <4>2, <4>3 DEF Accounts
    <3>2. g.row.role # NoAccount
      BY <2>1 DEF Roles, NoAccount
    <3>3. /\ Before(g)' /\ After(g)'
          /\ \A t \in DOMAIN owner' : account'[owner'[t]].role # NoAccount
      BY <1>1, <2>1, <2>3, <3>1, <3>2, Unpacked DEF Before, After, Issued
    <3>4. SuperAdminRemains'
      <4>1. CASE g.row.role = "SUPER_ADMIN" \/ account[g.user].role # "SUPER_ADMIN"
        <5>1. PICK u \in Users : account[u].role = "SUPER_ADMIN"
          BY Unpacked DEF SuperAdminRemains, SuperAdmins
        <5> QED BY <2>1, <3>1, <4>1, <5>1 DEF SuperAdminRemains, SuperAdmins
      <4>2. CASE g.row.role # "SUPER_ADMIN" /\ account[g.user].role = "SUPER_ADMIN"
        <5>1. SuperAdmins # {g.user} /\ g.user \in SuperAdmins
          BY <2>1, <2>3, <4>2 DEF MayBecome, SuperAdmins
        <5>2. PICK u \in Users : account[u].role = "SUPER_ADMIN" /\ u # g.user
          BY <5>1 DEF SuperAdmins
        <5> QED BY <3>1, <5>2 DEF SuperAdminRemains, SuperAdmins
      <4> QED BY <4>1, <4>2
    <3>5. /\ \A t \in valid' : t > resetAt'[owner'[t]]
          /\ \A u \in Users : resetAt'[u] <= Len(owner')
      BY <2>1, Unpacked DEF OldTokensDie, Issued
    <3>6. \A u \in Users : account[u].role # NoAccount =>
            /\ account'[u].role # NoAccount
            /\ account'[u].role # account[u].role => g.step = "update_user" /\ g.user = u
      BY <2>1, <3>1, <3>2
    <3>9. /\ owner' \in Seq(Users) /\ Len(owner') <= MaxTokens /\ Len(owner) <= Len(owner')
          /\ valid' \subseteq DOMAIN owner' /\ resetAt' \in [Users -> 0..MaxTokens]
      BY <2>1, Unpacked
    <3> QED BY <1>0, <1>1, <2>1, <2>3, <3>1, <3>3, <3>4, <3>5, <3>6, <3>9, ExecutedStep
  <2> QED BY <1>0, <1>11, <2>2, <2>3 DEF UpdateUser
<1>12. CASE ResetPassword(c)
  <2>1. g.step = "reset_user_password" /\ g.user \in Users /\ UNCHANGED owner
    BY <1>0, <1>1, <1>12 DEF ResetPassword, Before, Calls
  <2>2. CASE Executed(c, Refusal) /\ UNCHANGED <<account, valid, resetAt>>
    BY <1>0, <1>2, <1>3, <2>1, <2>2, QuietStep
  <2>3. CASE /\ Executed(c, g) /\ account' = [account EXCEPT ![g.user].must = TRUE]
             /\ valid' = {t \in valid : owner[t] # g.user}
             /\ resetAt' = [resetAt EXCEPT ![g.user] = Len(owner)]
    <3>1. account' \in Accounts /\ \A u \in Users : account'[u].role = account[u].role
      <4>1. PICK row : row = [account[g.user] EXCEPT !.must = TRUE]
        OBVIOUS
      <4>2. account' = [account EXCEPT ![g.user] = row]
        BY <2>3, <4>1
      <4>3. row \in Account /\ row.role = account[g.user].role
        BY <1>3, <2>1, <4>1, RowsChanged
      <4> QED BY <1>3, <2>1, <4>2, <4>3 DEF Accounts
    <3>2. /\ resetAt' \in [Users -> 0..MaxTokens] /\ resetAt'[g.user] = Len(owner)
          /\ \A u \in Users \ {g.user} : resetAt'[u] = resetAt[u]
      BY <2>1, <2>3, Unpacked, SessionsConstants
    <3>3. /\ Before(g)' /\ After(g)'
          /\ \A t \in DOMAIN owner' : account'[owner'[t]].role # NoAccount
      <4>1. \A t \in DOMAIN owner : owner[t] \in Users
        BY Unpacked
      <4> QED BY <1>1, <2>1, <3>1, <4>1, Unpacked DEF Before, After, Issued
    <3>4. SuperAdminRemains'
      BY <3>1, Unpacked DEF SuperAdminRemains, SuperAdmins
    <3>5. /\ \A t \in valid' : t > resetAt'[owner'[t]] /\ t \in DOMAIN owner
          /\ \A u \in Users : resetAt'[u] <= Len(owner')
      <4>1. \A t \in DOMAIN owner : owner[t] \in Users
        BY Unpacked
      <4>2. \A t \in valid : t \in DOMAIN owner /\ t > resetAt[owner[t]]
        BY Unpacked DEF OldTokensDie
      <4> QED BY <2>1, <2>3, <3>2, <4>1, <4>2, Unpacked DEF Issued
    <3>9. /\ owner' \in Seq(Users) /\ Len(owner') <= MaxTokens /\ Len(owner) <= Len(owner')
          /\ valid' \subseteq DOMAIN owner' /\ resetAt' \in [Users -> 0..MaxTokens]
      BY <2>1, <2>3, <3>2, Unpacked
    <3> QED BY <1>0, <1>1, <2>1, <2>3, <3>1, <3>2, <3>3, <3>4, <3>5, <3>9, ExecutedStep, ZenonT(60)
  <2> QED BY <1>0, <1>12, <2>2, <2>3 DEF ResetPassword
<1> QED BY <1>4, <1>5, <1>6, <1>7, <1>8, <1>9, <1>10, <1>11, <1>12 DEF Worker

-----------------------------------------------------------------------------
(* The event loop resumes a handler. *)

\* For session data about user u that is not the account's there is an excuse.
Excused(u) ==
  \E d \in Conns : /\ handler[d].user = u
                   /\ \/ handler[d].step = "update_user" /\ Pending(done, d)
                      \/ handler[d].step = "get_user"

\* The handler at the head of `done` goes on: to its next call, or out of the queues.
Advances(c, g, h) ==
  /\ g = handler[c] /\ done # <<>> /\ Head(done) = c /\ done' = Tail(done) /\ UNCHANGED Loop
  /\ handler' \in [Conns -> HandlerRow] /\ handler'[c] = h
  /\ \A d \in Conns \ {c} : /\ handler'[d].step = handler[d].step /\ handler'[d].user = handler[d].user
                            /\ handler'[d].row = handler[d].row /\ handler'[d].token = handler[d].token
                            /\ handler'[d].todo = handler[d].todo
  /\ \/ work' = work /\ h.step \in {"idle", "revoke"} /\ g.step # "update_user"
        /\ (h.step = "revoke" => g.step = "reset_user_password" /\ h.user = g.user)
     \/ /\ work' = Append(work, c) /\ h.user = g.user /\ h.row = g.row /\ h.token = g.token
        /\ \/ g.step = "authenticate" /\ h.step = "create_session"
           \/ g.step = "change_password" /\ h.step = "delete_user_sessions"
           \/ g.step = "update_user" /\ h.step = "get_user"

\* What the queues keep.
LEMMA AdvanceMoves ==
  ASSUME SessionsIInv, NEW c \in Conns, NEW g, NEW h, Advances(c, g, h)
  PROVE  /\ work' \in Seq(Conns) /\ done' \in Seq(Conns) /\ 1 \in DOMAIN done /\ done[1] = c
         /\ \A i \in DOMAIN done' : /\ i \in Nat /\ i + 1 \in DOMAIN done /\ done'[i] = done[i + 1]
                                    /\ done'[i] \in Conns \ {c}
         /\ \A i \in DOMAIN done : i # 1 => i - 1 \in DOMAIN done' /\ done'[i - 1] = done[i]
         /\ \A i \in DOMAIN work : i \in DOMAIN work' /\ work'[i] = work[i] /\ work[i] \in Conns \ {c} /\ i \in Nat
         /\ \/ DOMAIN work' = DOMAIN work /\ h.step \in {"idle", "revoke"}
            \/ \E w \in Nat : /\ DOMAIN work' = DOMAIN work \cup {w} /\ work'[w] = c
                              /\ \A i \in DOMAIN work : i < w
                              /\ h.step \in {"create_session", "delete_user_sessions", "get_user"}
         /\ \A d \in Conns \ {c} : Pending(done, d) => Pending(done, d)'
         /\ \A d \in Conns : Pending(done, d)' => d # c /\ Pending(done, d)
<1>1. /\ done' \in Seq(Conns) /\ 1 \in DOMAIN done /\ done[1] = c
      /\ \A i \in DOMAIN done' : i \in Nat /\ i >= 1 /\ i + 1 \in DOMAIN done /\ done'[i] = done[i + 1]
      /\ \A i \in DOMAIN done : /\ i \in Nat /\ i >= 1 /\ done[i] \in Conns
                                /\ i > 1 => i - 1 \in DOMAIN done' /\ done'[i - 1] = done[i]
  <2>1. done \in Seq(Conns) /\ done # <<>> /\ done' = Tail(done) /\ Head(done) = c
    BY Unpacked DEF Advances
  <2> QED BY <2>1, Removed
<1>2. Queued /\ \A i \in DOMAIN work : work[i] \in Conns /\ i \in Nat /\ i >= 1
  BY Unpacked
<1>3. /\ \A i \in DOMAIN done' : i + 1 # 1 /\ done'[i] \in Conns \ {c}
      /\ \A i \in DOMAIN work : work[i] \in Conns \ {c}
  BY <1>1, <1>2 DEF Queued
<1>4. /\ \A d \in Conns \ {c} : Pending(done, d) => Pending(done, d)'
      /\ \A d \in Conns : Pending(done, d)' => d # c /\ Pending(done, d)
  <2>1. \A i \in DOMAIN done : done[i] # c => i - 1 \in DOMAIN done' /\ done'[i - 1] = done[i]
    <3> TAKE i \in DOMAIN done
    <3>1. done[i] # c => i > 1
      BY <1>1
    <3> QED BY <1>1, <3>1
  <2> QED BY <1>1, <1>3, <2>1 DEF Pending
<1>5. CASE work' = work /\ h.step \in {"idle", "revoke"}
  <2>1. work' \in Seq(Conns) /\ DOMAIN work' = DOMAIN work /\ \A i \in DOMAIN work : work'[i] = work[i]
    BY <1>5, Unpacked
  <2> QED BY <1>1, <1>2, <1>3, <1>4, <1>5, <2>1
<1>6. CASE work' = Append(work, c) /\ h.step \in {"create_session", "delete_user_sessions", "get_user"}
  <2>0. PICK w : w = Len(work) + 1
    OBVIOUS
  <2>1. /\ work' \in Seq(Conns) /\ DOMAIN work' = DOMAIN work \cup {w} /\ work'[w] = c /\ w \in Nat
        /\ \A i \in DOMAIN work : work'[i] = work[i] /\ i < w
    BY <1>6, <2>0, Unpacked, Appended
  <2>2. \E v \in Nat : /\ DOMAIN work' = DOMAIN work \cup {v} /\ work'[v] = c
                       /\ \A i \in DOMAIN work : i < v
                       /\ h.step \in {"create_session", "delete_user_sessions", "get_user"}
    BY <1>6, <2>1
  <2>3. \A i \in DOMAIN work : i \in DOMAIN work' /\ work'[i] = work[i] /\ work[i] \in Conns \ {c} /\ i \in Nat
    BY <1>2, <1>3, <2>1
  <2>4. \A i \in DOMAIN done : i # 1 => i - 1 \in DOMAIN done' /\ done'[i - 1] = done[i]
    BY <1>1
  <2> QED BY <1>1, <1>3, <1>4, <2>1, <2>2, <2>3, <2>4
<1> QED BY <1>5, <1>6 DEF Advances

LEMMA AdvanceWaits ==
  ASSUME SessionsIInv, NEW c \in Conns, NEW g, NEW h, Advances(c, g, h)
  PROVE  /\ \A i \in DOMAIN done : \A step, u : i # 1 /\ Waits(done, i, step, u) => Waits(done, i - 1, step, u)'
         /\ \A step, u : Waits(done, 1, step, u) => Waits(done, 0, step, u)'
         /\ \A i \in Nat : \A step, u : Waits(work, i, step, u) => Waits(work, i, step, u)'
         /\ \A step, u : Waits(done, 0, step, u) => Waits(done, 0, step, u)' \/ (g.step = step /\ g.user = u)
         /\ \A i \in DOMAIN work \cup {0} : \A u : g.step = "update_user" /\ g.user = u => Waits(work, i, "get_user", u)'
<1>1. \A i \in DOMAIN done' : handler'[done'[i]].step = handler[done[i + 1]].step
                              /\ handler'[done'[i]].user = handler[done[i + 1]].user
  BY AdvanceMoves DEF Advances
<1>2. ASSUME NEW i \in DOMAIN done, NEW step, NEW u, NEW j \in DOMAIN done, j # 1,
             handler[done[j]].step = step, handler[done[j]].user = u
      PROVE  /\ j - 1 \in DOMAIN done' /\ (j - 1) + 1 = j /\ j \in Nat /\ j - 1 > 0 /\ i \in Nat
             /\ handler'[done'[j - 1]].step = step /\ handler'[done'[j - 1]].user = u
             /\ j > i => j - 1 > i - 1
  <2>1. j \in Nat /\ i \in Nat /\ j >= 1
    BY Unpacked
  <2>2. j - 1 \in DOMAIN done' /\ (j - 1) + 1 = j
    BY <1>2, <2>1, AdvanceMoves
  <2> QED BY <1>1, <1>2, <2>1, <2>2
<1>3. \A i \in DOMAIN done : \A step, u : i # 1 /\ Waits(done, i, step, u) => Waits(done, i - 1, step, u)'
  <2> SUFFICES ASSUME NEW i \in DOMAIN done, NEW step, NEW u, i # 1, Waits(done, i, step, u)
               PROVE  Waits(done, i - 1, step, u)'
    OBVIOUS
  <2>1. PICK j \in DOMAIN done : j > i /\ handler[done[j]].step = step /\ handler[done[j]].user = u
    BY DEF Waits
  <2>2. j # 1 /\ i \in Nat
    BY <2>1, Unpacked
  <2>3. /\ j - 1 \in DOMAIN done' /\ j - 1 > i - 1
        /\ handler'[done'[j - 1]].step = step /\ handler'[done'[j - 1]].user = u
    BY <1>2, <2>1, <2>2
  <2> QED BY <2>3 DEF Waits
<1>4. \A step, u : Waits(done, 1, step, u) => Waits(done, 0, step, u)'
  <2> SUFFICES ASSUME NEW step, NEW u, Waits(done, 1, step, u) PROVE Waits(done, 0, step, u)'
    OBVIOUS
  <2>1. PICK j \in DOMAIN done : j > 1 /\ handler[done[j]].step = step /\ handler[done[j]].user = u
    BY DEF Waits
  <2>2. j # 1 /\ 1 \in DOMAIN done
    BY <2>1, AdvanceMoves, Unpacked
  <2>3. /\ j - 1 \in DOMAIN done' /\ j - 1 > 0
        /\ handler'[done'[j - 1]].step = step /\ handler'[done'[j - 1]].user = u
    BY <1>2, <2>1, <2>2
  <2> QED BY <2>3 DEF Waits
<1>5. \A i \in Nat : \A step, u : Waits(work, i, step, u) => Waits(work, i, step, u)'
  BY AdvanceMoves DEF Waits, Advances
<1>6. \A step, u : Waits(done, 0, step, u) => Waits(done, 0, step, u)' \/ (g.step = step /\ g.user = u)
  <2> SUFFICES ASSUME NEW step, NEW u, Waits(done, 0, step, u), ~(g.step = step /\ g.user = u)
               PROVE  Waits(done, 0, step, u)'
    OBVIOUS
  <2>1. PICK j \in DOMAIN done : handler[done[j]].step = step /\ handler[done[j]].user = u
    BY DEF Waits
  <2>2. j # 1 /\ 1 \in DOMAIN done
    BY <2>1, AdvanceMoves DEF Advances
  <2>3. /\ j - 1 \in DOMAIN done' /\ j - 1 > 0
        /\ handler'[done'[j - 1]].step = step /\ handler'[done'[j - 1]].user = u
    BY <1>2, <2>1, <2>2
  <2> QED BY <2>3 DEF Waits
<1>7. \A i \in DOMAIN work \cup {0} : \A u : g.step = "update_user" /\ g.user = u => Waits(work, i, "get_user", u)'
  <2> SUFFICES ASSUME NEW i \in DOMAIN work \cup {0}, g.step = "update_user" PROVE Waits(work, i, "get_user", g.user)'
    BY DEF Waits
  <2>0. work' = Append(work, c) /\ h.step = "get_user" /\ h.user = g.user /\ handler'[c] = h
    BY DEF Advances
  <2>1. PICK w : w = Len(work) + 1
    OBVIOUS
  <2>2. w \in DOMAIN work' /\ work'[w] = c /\ w > i
    BY <2>0, <2>1, Unpacked, Appended
  <2> QED BY <2>0, <2>2 DEF Waits
<1> QED BY <1>3, <1>4, <1>5, <1>6, <1>7

\* The part of the invariant that the sessions have no say in.
LEMMA AdvanceStep ==
  ASSUME SessionsIInv, NEW c \in Conns, NEW g, NEW h, Advances(c, g, h)
  PROVE  /\ Queued' /\ Issued' /\ Held' /\ Following' /\ Doomed' /\ SuperAdminRemains'
         /\ \A u \in Users : Excused(u) /\ ~(g.step = "get_user" /\ g.user = u) => Excused(u)'
         /\ \A u : Waits(done, 0, "update_user", u) => Excused(u)'
         /\ \A u : Waits(done, 1, "get_user", u) \/ Waits(work, 0, "get_user", u) => Excused(u)'
<1>0. /\ handler'[c] = h /\ g = handler[c] /\ UNCHANGED <<account, owner, valid, resetAt>>
      /\ \A d \in Conns \ {c} : /\ handler'[d].step = handler[d].step /\ handler'[d].user = handler[d].user
                                /\ handler'[d].row = handler[d].row /\ handler'[d].token = handler[d].token
      /\ g \in HandlerRow /\ Before(g) /\ After(g)
  BY AdvanceMoves, Unpacked DEF Advances, Loop
<1>q. /\ \A i \in DOMAIN work : i \in DOMAIN work' /\ work'[i] = work[i] /\ work[i] \in Conns \ {c}
      /\ \A i \in DOMAIN work' : i \in DOMAIN work
                                \/ (work'[i] = c /\ h.step \in {"create_session", "delete_user_sessions", "get_user"})
      /\ \A i, j \in DOMAIN work' : i \in DOMAIN work \/ j \in DOMAIN work \/ i = j
  <2>1. \A i \in DOMAIN work : i \in DOMAIN work' /\ work'[i] = work[i] /\ work[i] \in Conns \ {c}
    BY AdvanceMoves
  <2>2. \/ DOMAIN work' = DOMAIN work
        \/ \E w \in Nat : /\ DOMAIN work' = DOMAIN work \cup {w} /\ work'[w] = c
                          /\ h.step \in {"create_session", "delete_user_sessions", "get_user"}
    BY AdvanceMoves
  <2>3. \A i \in DOMAIN work' : i \in DOMAIN work
                   \/ (work'[i] = c /\ h.step \in {"create_session", "delete_user_sessions", "get_user"})
    BY <2>2
  <2>4. \A i, j \in DOMAIN work' : i \in DOMAIN work \/ j \in DOMAIN work \/ i = j
    BY <2>2
  <2> QED BY <2>1, <2>3, <2>4
<1>r. /\ \A i, j \in DOMAIN work : work[i] = work[j] => i = j
      /\ \A i, j \in DOMAIN done : done[i] = done[j] => i = j
      /\ \A i \in DOMAIN work, j \in DOMAIN done : work[i] # done[j]
      /\ \A i \in DOMAIN work : handler[work[i]].step \in Calls \ {"refused"}
      /\ \A j \in DOMAIN done : handler[done[j]].step \in Calls
  BY Unpacked DEF Queued
<1>d. \A i \in DOMAIN done' : /\ i \in Nat /\ i + 1 \in DOMAIN done /\ done'[i] = done[i + 1]
                              /\ done'[i] \in Conns \ {c}
  BY AdvanceMoves
<1>u. Following /\ Doomed
  BY Unpacked
<1>1. Queued'
  <2>1. \A i, j \in DOMAIN done' : done'[i] = done'[j] => i = j
    BY AdvanceMoves, Unpacked, SMTT(30) DEF Queued
  <2>2. \A i, j \in DOMAIN work' : work'[i] = work'[j] => i = j
    BY <1>q, <1>r
  <2>3. \A i \in DOMAIN work', j \in DOMAIN done' : work'[i] # done'[j]
    <3> TAKE i \in DOMAIN work', j \in DOMAIN done'
    <3>1. CASE i \in DOMAIN work
      BY <1>d, <1>q, <1>r, <3>1
    <3>2. CASE work'[i] = c
      BY <1>d, <3>2
    <3> QED BY <1>q, <3>1, <3>2
  <2>4. \A j \in DOMAIN done' : handler'[done'[j]].step \in Calls
    <3> TAKE j \in DOMAIN done'
    <3>1. PICK d \in Conns \ {c} : d = done'[j] /\ handler[d].step \in Calls
      BY <1>d, <1>r
    <3> QED BY <1>0, <3>1
  <2>5. \A i \in DOMAIN work' : handler'[work'[i]].step \in Calls \ {"refused"}
    <3> TAKE i \in DOMAIN work'
    <3>1. CASE i \in DOMAIN work
      <4>1. PICK d \in Conns \ {c} : d = work'[i] /\ handler[d].step \in Calls \ {"refused"}
        BY <1>q, <1>r, <3>1
      <4> QED BY <1>0, <4>1
    <3>2. CASE work'[i] = c /\ h.step \in {"create_session", "delete_user_sessions", "get_user"}
      BY <1>0, <3>2 DEF Calls
    <3> QED BY <1>q, <3>1, <3>2
  <2> QED BY <2>1, <2>2, <2>3, <2>4, <2>5 DEF Queued
<1>2. Issued'
  <2>1. LoggingIn' \subseteq LoggingIn
    <3>1. h.step \in {"authenticate", "create_session"} => g.step = "authenticate"
      BY DEF Advances
    <3> QED BY <1>0, <3>1 DEF LoggingIn
  <2>2. ASSUME NEW d \in LoggingIn', handler'[d].step = "authenticate" \/ ~Pending(done, d)'
        PROVE  handler[d].step = "authenticate" \/ ~Pending(done, d)
    <3>1. CASE d = c
      <4>1. handler'[c].step \in {"authenticate", "create_session"} => g.step = "authenticate"
        BY <1>0 DEF Advances
      <4> QED BY <1>0, <2>2, <3>1, <4>1 DEF LoggingIn
    <3>2. CASE d # c
      BY <1>0, <2>2, <3>2, AdvanceMoves DEF LoggingIn
    <3> QED BY <3>1, <3>2
  <2> QED BY <1>0, <2>1, <2>2, Unpacked DEF Issued
<1>3. Held'
  <2>1. ASSUME NEW d \in Conns \ {c} PROVE Before(handler[d])'
    BY <1>0, Unpacked DEF Before
  <2>2. Before(handler[c])'
    BY <1>0 DEF Advances, Before, After, Calls
  <2>3. ASSUME NEW i \in DOMAIN done' PROVE After(handler[done[i]])'
    <3>1. PICK d \in Conns \ {c} : d = done'[i] /\ After(handler[d])
      BY AdvanceMoves, Unpacked
    <3> QED BY <1>0, <3>1 DEF After
  <2> QED BY <2>1, <2>2, <2>3 DEF Held
<1>4. \A i \in DOMAIN done' : LET d == done'[i] IN
        /\ i + 1 \in DOMAIN done /\ i + 1 # 1 /\ (i + 1) - 1 = i /\ d = done[i + 1]
        /\ handler'[d].step = handler[d].step /\ handler'[d].user = handler[d].user
        /\ handler'[d].row = handler[d].row /\ handler'[d].token = handler[d].token
  BY <1>0, AdvanceMoves
<1>5. ASSUME NEW i \in DOMAIN done', NEW step, NEW u, Waits(done, i + 1, step, u)
      PROVE  Waits(done, i, step, u)'
  <2>1. Waits(done, (i + 1) - 1, step, u)'
    BY <1>4, <1>5, AdvanceWaits
  <2> QED BY <1>4, <2>1
<1>6. Following'
  <2>1. ASSUME NEW i \in DOMAIN done', NEW k, k = handler'[done'[i]],
               k.step \in {"authenticate", "resolve_session", "get_user"}
        PROVE  k.row.role = account'[k.user].role \/ Waits(done, i, "update_user", k.user)'
    <3>1. PICK d \in Conns : d = done[i + 1] /\ d = done'[i] /\ handler[d].step = k.step
                            /\ handler[d].row = k.row /\ handler[d].user = k.user
      BY <1>4, <1>d, <2>1
    <3>2. k.row.role = account[k.user].role \/ Waits(done, i + 1, "update_user", k.user)
      BY <1>d, <1>u, <2>1, <3>1 DEF Following, FreshOf
    <3> QED BY <1>0, <1>5, <3>2
  <2>2. ASSUME NEW i \in DOMAIN done', NEW k, k = handler'[done'[i]], k.step = "create_session"
        PROVE  \/ k.row.role = account'[k.user].role \/ Waits(done, 0, "update_user", k.user)'
               \/ Waits(work, 0, "get_user", k.user)' \/ Waits(done, i, "get_user", k.user)'
    <3>1. \/ k.row.role = account[k.user].role \/ Waits(done, 0, "update_user", k.user)
          \/ Waits(work, 0, "get_user", k.user) \/ Waits(done, i + 1, "get_user", k.user)
      <4>1. PICK d \in Conns : d = done[i + 1] /\ d = done'[i] /\ handler[d].step = k.step
                              /\ handler[d].row = k.row /\ handler[d].user = k.user
        BY <1>4, <1>d, <2>2
      <4> QED BY <1>d, <1>u, <2>2, <4>1 DEF Following, FreshOf
    <3>2. Waits(done, 0, "update_user", k.user) =>
            Waits(done, 0, "update_user", k.user)' \/ Waits(work, 0, "get_user", k.user)'
      BY AdvanceWaits
    <3>3. Waits(work, 0, "get_user", k.user) => Waits(work, 0, "get_user", k.user)'
      BY AdvanceWaits
    <3> QED BY <1>0, <1>5, <3>1, <3>2, <3>3
  <2>3. ASSUME NEW i \in DOMAIN work', NEW k, k = handler'[work'[i]], k.step = "create_session"
        PROVE  \/ k.row.role = account'[k.user].role
               \/ Waits(done, 0, "update_user", k.user)' \/ Waits(work, i, "get_user", k.user)'
    <3>1. CASE i \in DOMAIN work
      <4>1. PICK d \in Conns \ {c} : d = work[i] /\ work'[i] = d /\ i \in Nat
        BY <3>1, AdvanceMoves
      <4>2. handler[d].step = "create_session" /\ k.row = handler[d].row /\ k.user = handler[d].user
        BY <1>0, <2>3, <4>1
      <4>3. \/ k.row.role = account[k.user].role
            \/ Waits(done, 0, "update_user", k.user) \/ Waits(work, i, "get_user", k.user)
        BY <3>1, <4>1, <4>2, Unpacked DEF Following, FreshOf
      <4>4. Waits(done, 0, "update_user", k.user) =>
              Waits(done, 0, "update_user", k.user)' \/ Waits(work, i, "get_user", k.user)'
        BY <3>1, AdvanceWaits
      <4>5. Waits(work, i, "get_user", k.user) => Waits(work, i, "get_user", k.user)'
        BY <4>1, AdvanceWaits
      <4> QED BY <1>0, <4>3, <4>4, <4>5
    <3>2. CASE i \notin DOMAIN work
      <4>1. k = h /\ h.step = "create_session"
        BY <1>0, <1>q, <2>3, <3>2
      <4>2. g.step = "authenticate" /\ h.row = g.row /\ h.user = g.user
        BY <4>1 DEF Advances
      <4>3. g.row.role = account[g.user].role \/ Waits(done, 1, "update_user", g.user)
        <5>1. 1 \in DOMAIN done /\ handler[done[1]] = g
          BY <1>0, AdvanceMoves
        <5> QED BY <4>2, <5>1, Unpacked DEF Following, FreshOf
      <4>4. Waits(done, 1, "update_user", g.user) => Waits(done, 0, "update_user", g.user)'
        BY AdvanceWaits
      <4> QED BY <1>0, <4>1, <4>2, <4>3, <4>4
    <3> QED BY <3>1, <3>2
  <2> QED BY <2>1, <2>2, <2>3 DEF Following, FreshOf, Waits
<1>7. Doomed'
  <2>1. ASSUME NEW i \in DOMAIN done', NEW k, k = handler'[done'[i]],
               k.step \in {"create_session", "resolve_session"}
        PROVE  k.token > resetAt'[k.user] \/ Waits(done, i, "reset_user_password", k.user)'
    <3>1. PICK d \in Conns : d = done[i + 1] /\ d = done'[i] /\ handler[d].step = k.step
                            /\ handler[d].token = k.token /\ handler[d].user = k.user
      BY <1>4, <1>d, <2>1
    <3>2. k.token > resetAt[k.user] \/ Waits(done, i + 1, "reset_user_password", k.user)
      BY <1>d, <1>u, <2>1, <3>1 DEF Doomed
    <3> QED BY <1>0, <1>5, <3>2
  <2> QED BY <2>1 DEF Doomed, Waits
<1>8. \A u \in Users : Excused(u) /\ ~(g.step = "get_user" /\ g.user = u) => Excused(u)'
  <2> SUFFICES ASSUME NEW u \in Users, Excused(u), ~(g.step = "get_user" /\ g.user = u)
               PROVE  Excused(u)'
    OBVIOUS
  <2>1. PICK d \in Conns : /\ handler[d].user = u
                           /\ \/ handler[d].step = "update_user" /\ Pending(done, d)
                              \/ handler[d].step = "get_user"
    BY DEF Excused
  <2>2. CASE d # c
    BY <1>0, <2>1, <2>2, AdvanceMoves DEF Excused
  <2>3. CASE d = c
    <3>1. h.step = "get_user" /\ h.user = u
      BY <1>0, <2>1, <2>3 DEF Advances
    <3> QED BY <1>0, <3>1 DEF Excused
  <2> QED BY <2>2, <2>3
<1>9. \A u : Waits(done, 0, "update_user", u) => Excused(u)'
  <2> SUFFICES ASSUME NEW u, Waits(done, 0, "update_user", u) PROVE Excused(u)'
    OBVIOUS
  <2>1. PICK j \in DOMAIN done : handler[done[j]].step = "update_user" /\ handler[done[j]].user = u
    BY DEF Waits
  <2>2. Pending(done, done[j]) /\ done[j] \in Conns
    BY Unpacked DEF Pending
  <2>3. CASE done[j] = c
    <3>1. h.step = "get_user" /\ h.user = u
      BY <1>0, <2>1, <2>3 DEF Advances
    <3> QED BY <1>0, <3>1 DEF Excused
  <2>4. CASE done[j] # c
    BY <1>0, <2>1, <2>2, <2>4, AdvanceMoves DEF Excused
  <2> QED BY <2>3, <2>4
<1>10. \A u : Waits(done, 1, "get_user", u) \/ Waits(work, 0, "get_user", u) => Excused(u)'
  <2>1. \A u : Waits(done, 1, "get_user", u) => Excused(u)'
    <3> SUFFICES ASSUME NEW u, Waits(done, 1, "get_user", u) PROVE Excused(u)'
      OBVIOUS
    <3>1. PICK j \in DOMAIN done : j > 1 /\ handler[done[j]].step = "get_user" /\ handler[done[j]].user = u
      BY DEF Waits
    <3>2. done[j] \in Conns /\ done[j] # c
      BY <3>1, AdvanceMoves, Unpacked DEF Queued
    <3> QED BY <1>0, <3>1, <3>2 DEF Excused
  <2>2. \A u : Waits(work, 0, "get_user", u) => Excused(u)'
    BY <1>0, AdvanceMoves DEF Excused, Waits
  <2> QED BY <2>1, <2>2
<1>11. SuperAdminRemains'
  BY <1>0, Unpacked DEF SuperAdminRemains, SuperAdmins
<1> QED BY <1>1, <1>2, <1>3, <1>6, <1>7, <1>8, <1>9, <1>10, <1>11

\* A resumption may keep sessions as they are, refresh those of the account it read, list those
\* of the account it reset, or bind what it loaded.
LEMMA ResumptionStep ==
  ASSUME SessionsIInv, NEW c \in Conns, NEW g, NEW h, Advances(c, g, h),
         session' \in [Conns -> Session \cup {NoSession}],
         \A d \in Conns : Bound(d)' =>
           \/ /\ Bound(d) /\ session'[d].user = session[d].user /\ session'[d].token = session[d].token
              /\ IF g.step = "get_user" /\ g.user = session[d].user
                 THEN session'[d].role = g.row.role ELSE session'[d].role = session[d].role
              /\ g.step = "reset_user_password" /\ g.user = session[d].user =>
                   h.step = "revoke" /\ d \in h.todo
           \/ /\ d = c /\ g.step \in {"create_session", "resolve_session"}
              /\ session'[d].user = g.user /\ session'[d].token = g.token
              /\ session'[d].role = g.row.role
  PROVE  SessionsIInv'
<1> DEFINE Same(d) == /\ Bound(d) /\ session'[d].user = session[d].user /\ session'[d].token = session[d].token
                      /\ IF g.step = "get_user" /\ g.user = session[d].user
                         THEN session'[d].role = g.row.role ELSE session'[d].role = session[d].role
                      /\ g.step = "reset_user_password" /\ g.user = session[d].user =>
                           h.step = "revoke" /\ d \in h.todo
           New(d) == /\ d = c /\ g.step \in {"create_session", "resolve_session"}
                     /\ session'[d].user = g.user /\ session'[d].token = g.token
                     /\ session'[d].role = g.row.role
<1>0. /\ handler'[c] = h /\ g = handler[c] /\ UNCHANGED <<account, owner, valid, resetAt>>
      /\ handler' \in [Conns -> HandlerRow]
      /\ \A d \in Conns \ {c} : /\ handler'[d].step = handler[d].step /\ handler'[d].user = handler[d].user
                                /\ handler'[d].todo = handler[d].todo
  BY DEF Advances, Loop
<1>1. /\ 1 \in DOMAIN done /\ done[1] = c /\ done' \in Seq(Conns) /\ work' \in Seq(Conns)
      /\ \A d \in Conns \ {c} : Pending(done, d) => Pending(done, d)'
  BY AdvanceMoves
<1>2. /\ g \in HandlerRow /\ Before(g) /\ After(g) /\ Following /\ Doomed /\ SessionFresh /\ OldTokensDie
      /\ g.step \in Calls /\ \A j \in DOMAIN done : done[j] \in Conns /\ (done[j] = c => j = 1)
  BY <1>0, <1>1, Unpacked DEF Queued
<1>3. /\ Queued' /\ Issued' /\ Held' /\ Following' /\ Doomed' /\ SuperAdminRemains'
      /\ \A u \in Users : Excused(u) /\ ~(g.step = "get_user" /\ g.user = u) => Excused(u)'
      /\ \A u : Waits(done, 0, "update_user", u) => Excused(u)'
      /\ \A u : Waits(done, 1, "get_user", u) \/ Waits(work, 0, "get_user", u) => Excused(u)'
  BY AdvanceStep
<1>4. \A d \in Conns : Bound(d)' => Same(d) \/ New(d)
  OBVIOUS
<1>5. \A d \in Conns : Bound(d) => /\ session[d].user \in Users /\ session[d].token \in DOMAIN owner
                                   /\ owner[session[d].token] = session[d].user
  BY Unpacked DEF Session
<1>6. New(c) => /\ g.token \in DOMAIN owner /\ owner[g.token] = g.user /\ g.user \in Users
  BY <1>2 DEF Before, After, Calls
<1>7. \A u : Waits(done, 1, "update_user", u) => Waits(done, 0, "update_user", u)
  <2>1. \A j \in DOMAIN done : j > 1 => j > 0
    BY Unpacked
  <2> QED BY <2>1 DEF Waits
<1> HIDE DEF Same, New
<1>8. SessionsTypeOK'
  <2>1. \A d \in Conns : Bound(d)' => /\ session'[d].token \in DOMAIN owner'
                                      /\ owner'[session'[d].token] = session'[d].user
    BY <1>0, <1>4, <1>5, <1>6 DEF Same, New
  <2> QED BY <1>0, <1>1, <2>1, Unpacked DEF SessionsTypeOK
<1>9. SessionFresh'
  <2>1. g.step \in {"resolve_session", "get_user"} =>
          g.row.role = account[g.user].role \/ Waits(done, 1, "update_user", g.user)
    BY <1>0, <1>1, <1>2 DEF Following, FreshOf
  <2>2. g.step = "create_session" =>
          \/ g.row.role = account[g.user].role \/ Waits(done, 0, "update_user", g.user)
          \/ Waits(work, 0, "get_user", g.user) \/ Waits(done, 1, "get_user", g.user)
    BY <1>0, <1>1, <1>2 DEF Following, FreshOf
  <2>3. ASSUME NEW u, u = g.user
        PROVE  g.step \in {"create_session", "resolve_session", "get_user"} =>
                 g.row.role = account[u].role \/ Excused(u)'
    BY <1>3, <1>7, <2>1, <2>2, <2>3
  <2>4. ASSUME NEW d \in Conns, Bound(d)', NEW u, u = session'[d].user
        PROVE  session'[d].role = account[u].role \/ Excused(u)'
    <3>1. CASE Same(d) /\ ~(g.step = "get_user" /\ g.user = session[d].user)
      <4>1. u \in Users /\ u = session[d].user /\ session'[d].role = session[d].role /\ Bound(d)
        BY <1>5, <2>4, <3>1 DEF Same
      <4>2. session[d].role = account[u].role \/ Excused(u)
        BY <1>2, <4>1 DEF SessionFresh, Excused
      <4> QED BY <1>3, <3>1, <4>1, <4>2
    <3>2. CASE Same(d) /\ g.step = "get_user" /\ g.user = session[d].user
      <4>1. u = g.user /\ session'[d].role = g.row.role
        BY <2>4, <3>2 DEF Same
      <4> QED BY <2>3, <3>2, <4>1
    <3>3. CASE New(d)
      <4>1. u = g.user /\ session'[d].role = g.row.role /\ g.step \in {"create_session", "resolve_session"}
        BY <2>4, <3>3 DEF New
      <4> QED BY <2>3, <4>1
    <3> QED BY <1>4, <2>4, <3>1, <3>2, <3>3
  <2> QED BY <1>0, <2>4 DEF SessionFresh, Excused, Bound
<1>10. OldTokensDie'
  <2>1. \A t \in valid' : t > resetAt'[owner'[t]]
    BY <1>0, <1>2 DEF OldTokensDie
  <2>2. ASSUME NEW d \in Conns, Bound(d)'
        PROVE  session'[d].token > resetAt'[session'[d].user] \/ Revoking(d)'
    <3>1. CASE Same(d)
      <4>1. session[d].token > resetAt[session[d].user] \/ Revoking(d)
        BY <1>2, <3>1 DEF Same, OldTokensDie
      <4>2. ASSUME Revoking(d) PROVE Revoking(d)'
        <5>1. PICK e \in Conns : /\ handler[e].user = session[d].user
                                 /\ \/ handler[e].step = "reset_user_password" /\ Pending(done, e)
                                    \/ handler[e].step = "revoke" /\ d \in handler[e].todo
          BY <4>2 DEF Revoking
        <5>2. CASE e # c
          BY <1>0, <1>1, <3>1, <5>1, <5>2 DEF Revoking, Same
        <5>3. CASE e = c
          <6>1. g.step = "reset_user_password" /\ g.user = session[d].user
            BY <1>0, <1>2, <5>1, <5>3 DEF Calls
          <6>2. h.step = "revoke" /\ d \in h.todo
            BY <3>1, <6>1 DEF Same
          <6>3. h.user = g.user
            BY <6>2 DEF Advances
          <6> QED BY <1>0, <3>1, <6>1, <6>2, <6>3 DEF Revoking, Same
        <5> QED BY <5>2, <5>3
      <4> QED BY <1>0, <3>1, <4>1, <4>2 DEF Same
    <3>2. CASE New(d)
      <4>1. d = c /\ session'[d].token = g.token /\ session'[d].user = g.user
        BY <3>2 DEF New
      <4>2. g.token > resetAt[g.user] \/ Waits(done, 1, "reset_user_password", g.user)
        BY <1>0, <1>1, <1>2, <3>2 DEF New, Doomed
      <4>3. ASSUME Waits(done, 1, "reset_user_password", g.user) PROVE Revoking(d)'
        <5>1. PICK j \in DOMAIN done : j > 1 /\ handler[done[j]].step = "reset_user_password"
                                       /\ handler[done[j]].user = g.user
          BY <4>3 DEF Waits
        <5>2. PICK e \in Conns \ {c} : e = done[j] /\ Pending(done, e)
          BY <1>2, <5>1 DEF Pending
        <5> QED BY <1>0, <1>1, <4>1, <5>1, <5>2 DEF Revoking
      <4> QED BY <1>0, <4>1, <4>2, <4>3
    <3> QED BY <1>4, <2>2, <3>1, <3>2
  <2> QED BY <2>1, <2>2 DEF OldTokensDie
<1> QED BY <1>3, <1>8, <1>9, <1>10 DEF SessionsIInv

\* Closing a connection, and the end of a revocation, touch neither queue.
LEMMA AsideStep ==
  ASSUME SessionsIInv, UNCHANGED <<Loop, work, done>>, handler' \in [Conns -> HandlerRow],
         session' \in [Conns -> Session \cup {NoSession}],
         \A d \in Conns :
           \/ /\ handler'[d].step = handler[d].step /\ handler'[d].user = handler[d].user
              /\ handler'[d].row = handler[d].row /\ handler'[d].token = handler[d].token
           \/ handler[d].step = "revoke" /\ handler'[d].step = "idle" /\ handler[d].todo = {},
         \A d \in Conns : Bound(d)' =>
           session'[d] = session[d] /\ \A e \in Conns : d \in handler[e].todo => d \in handler'[e].todo
  PROVE  SessionsIInv'
<1>0. UNCHANGED <<account, owner, valid, changes, resetAt, work, done>>
  BY DEF Loop
<1>1. /\ "revoke" \notin Calls /\ "idle" \notin Calls
      /\ \A i \in DOMAIN work : work[i] \in Conns /\ i \in Nat
      /\ \A i \in DOMAIN done : done[i] \in Conns /\ i \in Nat
      /\ Queued
  BY Unpacked DEF Calls
<1>2. /\ \A d \in Conns : handler[d].step # "revoke" =>
           /\ handler'[d].step = handler[d].step /\ handler'[d].user = handler[d].user
           /\ handler'[d].row = handler[d].row /\ handler'[d].token = handler[d].token
      /\ \A d \in Conns : handler'[d].step \in {"idle", "revoke"} \/ handler[d].step # "revoke"
  OBVIOUS
<1>3. /\ \A i \in DOMAIN work : LET d == work[i] IN
           /\ handler'[d].step = handler[d].step /\ handler'[d].user = handler[d].user
           /\ handler'[d].row = handler[d].row /\ handler'[d].token = handler[d].token
      /\ \A i \in DOMAIN done : LET d == done[i] IN
           /\ handler'[d].step = handler[d].step /\ handler'[d].user = handler[d].user
           /\ handler'[d].row = handler[d].row /\ handler'[d].token = handler[d].token
  BY <1>1, <1>2 DEF Queued
<1>4. SessionsTypeOK'
  BY <1>0, Unpacked DEF SessionsTypeOK, Bound
<1>5. Queued'
  BY <1>0, <1>1, <1>3 DEF Queued
<1>6. Issued'
  <2>1. \A d \in LoggingIn' : d \in LoggingIn /\ handler'[d].step = handler[d].step
    BY <1>2 DEF LoggingIn
  <2>2. \A d \in Conns : Pending(done, d)' = Pending(done, d)
    BY <1>0 DEF Pending
  <2>3. \A d \in LoggingIn : d \in Conns
    BY DEF LoggingIn
  <2> QED BY <1>0, <2>1, <2>2, <2>3, Unpacked DEF Issued
<1>7. Held'
  <2>1. ASSUME NEW d \in Conns PROVE Before(handler[d])'
    <3>1. CASE handler[d].step # "revoke"
      <4>1. Before(handler[d])
        BY Unpacked
      <4>2. /\ handler'[d].step = handler[d].step /\ handler'[d].user = handler[d].user
            /\ handler'[d].row = handler[d].row /\ handler'[d].token = handler[d].token
        BY <1>2, <3>1
      <4> QED BY <1>0, <4>1, <4>2 DEF Before
    <3>2. CASE handler'[d].step \in {"idle", "revoke"}
      BY <1>1, <3>2 DEF Before
    <3> QED BY <1>2, <3>1, <3>2
  <2>2. ASSUME NEW i \in DOMAIN done' PROVE After(handler[done[i]])'
    <3>1. PICK d \in Conns : d = done[i] /\ After(handler[d])
      BY <1>0, <1>1, Unpacked
    <3>2. /\ handler'[d].step = handler[d].step /\ handler'[d].user = handler[d].user
          /\ handler'[d].row = handler[d].row /\ handler'[d].token = handler[d].token
      BY <1>0, <1>3, <3>1
    <3> QED BY <1>0, <3>1, <3>2 DEF After
  <2> QED BY <2>1, <2>2 DEF Held
<1>8. /\ \A i, step, u : Waits(done, i, step, u) => Waits(done, i, step, u)'
      /\ \A i, step, u : Waits(work, i, step, u) => Waits(work, i, step, u)'
  BY <1>0, <1>3 DEF Waits
<1>9. Following'
  <2>1. Following
    BY Unpacked
  <2> QED BY <1>0, <1>3, <1>8, <2>1 DEF Following, FreshOf
<1>10. Doomed'
  <2>1. Doomed
    BY Unpacked
  <2> QED BY <1>0, <1>3, <1>8, <2>1 DEF Doomed
<1>11. SessionFresh'
  <2>1. SessionFresh
    BY Unpacked
  <2> QED BY <1>0, <1>2, <2>1 DEF SessionFresh, Bound, Pending
<1>12. OldTokensDie'
  <2>1. ASSUME NEW d \in Conns, Bound(d)', Revoking(d) PROVE Revoking(d)'
    <3>1. PICK e \in Conns : /\ handler[e].user = session[d].user
                             /\ \/ handler[e].step = "reset_user_password" /\ Pending(done, e)
                                \/ handler[e].step = "revoke" /\ d \in handler[e].todo
      BY <2>1 DEF Revoking
    <3>2. /\ handler'[e].step = handler[e].step /\ handler'[e].user = handler[e].user
          /\ d \in handler[e].todo => d \in handler'[e].todo
          /\ session'[d] = session[d]
      BY <1>2, <2>1, <3>1
    <3> QED BY <1>0, <3>1, <3>2 DEF Revoking, Pending
  <2>2. OldTokensDie
    BY Unpacked
  <2> QED BY <1>0, <2>1, <2>2 DEF OldTokensDie, Bound
<1>13. SuperAdminRemains'
  BY <1>0, Unpacked DEF SuperAdminRemains, SuperAdmins
<1> QED BY <1>4, <1>5, <1>6, <1>7, <1>9, <1>10, <1>11, <1>12, <1>13 DEF SessionsIInv

\* What the event loop does to the row of a handler.
LEMMA StepMoves ==
  ASSUME NEW g \in HandlerRow, NEW x \in Calls
  PROVE  LET h == [g EXCEPT !.step = x]
         IN h \in HandlerRow /\ h.step = x /\ h.user = g.user /\ h.row = g.row /\ h.token = g.token
BY DEF HandlerRow

WithTodo(g, S) == [g EXCEPT !.todo = S]
WithHeld(g, b) == [g EXCEPT !.held = b]

LEMMA TodoMoves ==
  ASSUME NEW g \in HandlerRow, NEW S \in SUBSET Conns
  PROVE  /\ WithTodo(g, S) \in HandlerRow /\ WithTodo(g, S).step = g.step
         /\ WithTodo(g, S).user = g.user /\ WithTodo(g, S).row = g.row
         /\ WithTodo(g, S).token = g.token /\ WithTodo(g, S).todo = S
BY DEF HandlerRow, WithTodo

LEMMA HeldMoves ==
  ASSUME NEW g \in HandlerRow, NEW b \in BOOLEAN
  PROVE  /\ WithHeld(g, b) \in HandlerRow /\ WithHeld(g, b).step = g.step
         /\ WithHeld(g, b).user = g.user /\ WithHeld(g, b).row = g.row
         /\ WithHeld(g, b).token = g.token /\ WithHeld(g, b).todo = g.todo
BY DEF HandlerRow, WithHeld

\* What it does to a session.
LEMMA FlagMoves ==
  ASSUME NEW s \in Session
  PROVE  LET h == [s EXCEPT !.must = FALSE]
         IN h \in Session /\ h.user = s.user /\ h.role = s.role /\ h.token = s.token
BY DEF Session

WithRole(s, r, m) == [s EXCEPT !.role = r, !.must = m]

LEMMA RoleMoves ==
  ASSUME NEW s \in Session, NEW r \in Roles, NEW m \in BOOLEAN
  PROVE  /\ WithRole(s, r, m) \in Session /\ WithRole(s, r, m).user = s.user
         /\ WithRole(s, r, m).role = r /\ WithRole(s, r, m).token = s.token
BY DEF Session, WithRole

LEMMA FinishAdvances ==
  ASSUME SessionsIInv, NEW c \in Conns, NEW step, Resumed(c, step), Finish(c), step # "update_user"
  PROVE  Advances(c, handler[c], Idle) /\ handler[c].step = step
<1>1. /\ handler' = [handler EXCEPT ![c] = Idle] /\ handler \in [Conns -> HandlerRow]
      /\ Idle \in HandlerRow /\ Idle.step = "idle" /\ work' = work
  BY Unpacked, NobodyIsInNoCall DEF Finish
<1>2. /\ done # <<>> /\ Head(done) = c /\ done' = Tail(done) /\ UNCHANGED Loop /\ handler[c].step = step
  BY DEF Resumed
<1>3. handler' \in [Conns -> HandlerRow] /\ handler'[c] = Idle /\ \A d \in Conns \ {c} : handler'[d] = handler[d]
  BY <1>1
<1> QED BY <1>1, <1>2, <1>3 DEF Advances

LEMMA AwaitAdvances ==
  ASSUME SessionsIInv, NEW c \in Conns, NEW step, NEW next, Resumed(c, step), Await(c, next),
         \/ step = "authenticate" /\ next = "create_session"
         \/ step = "change_password" /\ next = "delete_user_sessions"
         \/ step = "update_user" /\ next = "get_user"
  PROVE  SessionsIInv'
<1>1. PICK h : h = [handler[c] EXCEPT !.step = next]
  OBVIOUS
<1>2. /\ handler' = [handler EXCEPT ![c] = h] /\ work' = Append(work, c) /\ session' = session
      /\ done # <<>> /\ Head(done) = c /\ done' = Tail(done) /\ UNCHANGED Loop /\ handler[c].step = step
  BY <1>1 DEF Await, Resumed
<1>3. next \in Calls /\ handler[c] \in HandlerRow /\ handler \in [Conns -> HandlerRow]
  BY Unpacked DEF Calls
<1>4. /\ h \in HandlerRow /\ h.step = next /\ h.user = handler[c].user
      /\ h.row = handler[c].row /\ h.token = handler[c].token
  BY <1>1, <1>3, StepMoves
<1>5. handler' \in [Conns -> HandlerRow] /\ handler'[c] = h /\ \A d \in Conns \ {c} : handler'[d] = handler[d]
  BY <1>2, <1>3, <1>4
<1>6. Advances(c, handler[c], h)
  BY <1>2, <1>4, <1>5 DEF Advances
<1>7. /\ session' \in [Conns -> Session \cup {NoSession}]
      /\ \A d \in Conns : Bound(d)' => Bound(d) /\ session'[d] = session[d]
      /\ handler[c].step \notin {"get_user", "reset_user_password"}
  BY <1>2, Unpacked DEF Bound
<1> QED BY <1>6, <1>7, ResumptionStep

LEMMA EventLoopStep ==
  ASSUME SessionsIInv, NEW c \in Conns, EventLoop(c)
  PROVE  SessionsIInv'
<1>0. PICK g : g = handler[c]
  OBVIOUS
<1>1. /\ session \in [Conns -> Session \cup {NoSession}] /\ handler \in [Conns -> HandlerRow]
      /\ g \in HandlerRow /\ Before(g)
      /\ \A d \in Conns : Bound(d) => session[d] \in Session
      /\ \A d \in Conns : ~Bound(d) => session[d] = NoSession
  BY <1>0, Unpacked DEF Bound
<1>2. ASSUME NEW step, Resumed(c, step) PROVE After(g) /\ g.step = step
  <2>1. done # <<>> /\ Head(done) = c /\ handler[c].step = step /\ done \in Seq(Conns)
    BY <1>2, Unpacked DEF Resumed
  <2>2. 1 \in DOMAIN done /\ done[1] = c
    BY <2>1, Removed
  <2> QED BY <1>0, <2>1, <2>2, Unpacked
<1>3. ASSUME NEW step, Resumed(c, step), Finish(c), step \notin {"update_user", "get_user", "reset_user_password"},
             session' \in [Conns -> Session \cup {NoSession}],
             \A d \in Conns : Bound(d)' =>
               \/ /\ Bound(d) /\ session'[d].user = session[d].user /\ session'[d].token = session[d].token
                  /\ session'[d].role = session[d].role
               \/ /\ d = c /\ step \in {"create_session", "resolve_session"}
                  /\ session'[d].user = g.user /\ session'[d].token = g.token
                  /\ session'[d].role = g.row.role
      PROVE  SessionsIInv'
  <2>1. Advances(c, g, Idle) /\ g.step = step
    BY <1>0, <1>3, FinishAdvances
  <2>2. g.step \notin {"get_user", "reset_user_password"}
    BY <1>3, <2>1
  <2> QED BY <1>3, <2>1, <2>2, ResumptionStep
<1>4. CASE Authenticated(c) \/ Changed(c) \/ Updated(c)
  BY <1>4, AwaitAdvances DEF Authenticated, Changed, Updated
<1>5. ASSUME NEW step, step \in {"create_session", "resolve_session"}, Resumed(c, step), Bind(c), Finish(c)
      PROVE  SessionsIInv'
  <2>1. PICK s : s = [user |-> g.user, role |-> g.row.role, must |-> g.row.must, token |-> g.token]
    OBVIOUS
  <2>2. session' = [session EXCEPT ![c] = s]
    BY <1>0, <1>5, <2>1 DEF Bind
  <2>3. g.user \in Users /\ g.row.role \in Roles /\ g.row.must \in BOOLEAN /\ g.token \in 1..MaxTokens
    <3>1. After(g) /\ g.step = step
      BY <1>2, <1>5
    <3>2. /\ g.user \in Users /\ g.row.role # NoAccount /\ g.token \in DOMAIN owner
          /\ g.row.role \in Roles \cup {NoAccount} /\ g.row.must \in BOOLEAN
      BY <1>1, <1>5, <3>1 DEF Before, After, Calls, HandlerRow, Account
    <3>3. DOMAIN owner = 1..Len(owner) /\ Len(owner) <= MaxTokens /\ Len(owner) \in Nat
      BY Unpacked
    <3> QED BY <3>2, <3>3, SessionsConstants
  <2>4. s \in Session /\ s.user = g.user /\ s.role = g.row.role /\ s.token = g.token
    BY <2>1, <2>3 DEF Session
  <2>5. /\ session' \in [Conns -> Session \cup {NoSession}] /\ session'[c] = s
        /\ \A d \in Conns \ {c} : session'[d] = session[d]
    BY <1>1, <2>2, <2>4
  <2> QED BY <1>3, <1>5, <2>4, <2>5 DEF Bound
<1>6. CASE LoggedIn(c) \/ ResumedSession(c)
  BY <1>5, <1>6 DEF LoggedIn, ResumedSession
<1>7. CASE LoggedOut(c)
  <2>1. /\ Resumed(c, "delete_session") /\ Finish(c)
        /\ session' = [session EXCEPT ![c] = NoSession]
    BY <1>7 DEF LoggedOut
  <2>2. /\ session' \in [Conns -> Session \cup {NoSession}]
        /\ \A d \in Conns : Bound(d)' => session'[d] = session[d] /\ Bound(d)
    BY <1>1, <2>1 DEF Bound
  <2> QED BY <1>3, <2>1, <2>2
<1>8. CASE ChangeDone(c)
  <2>1. Resumed(c, "delete_user_sessions") /\ Finish(c)
    BY <1>8 DEF ChangeDone
  <2>2. PICK s : s = [session[c] EXCEPT !.must = FALSE]
    OBVIOUS
  <2>3. session' = session \/ session' = [session EXCEPT ![c] = s]
    BY <1>8, <2>2 DEF ChangeDone
  <2>4. CASE session' = session
    BY <1>1, <1>3, <2>1, <2>4 DEF Bound
  <2>5. CASE session' = [session EXCEPT ![c] = s]
    <3>1. Bound(c) => /\ s \in Session /\ s.user = session[c].user
                      /\ s.role = session[c].role /\ s.token = session[c].token
      BY <1>1, <2>2, FlagMoves
    <3>2. ~Bound(c) => s = NoSession
      BY <1>1, <2>2 DEF NoSession
    <3>3. /\ session' \in [Conns -> Session \cup {NoSession}] /\ session'[c] = s
          /\ \A d \in Conns \ {c} : session'[d] = session[d]
      BY <1>1, <2>5, <3>1, <3>2
    <3> QED BY <1>3, <2>1, <3>1, <3>2, <3>3 DEF Bound
  <2> QED BY <2>3, <2>4, <2>5
<1>9. CASE Answered(c, "create_user") \/ Answered(c, "refused")
  BY <1>1, <1>3, <1>9 DEF Answered, Bound
<1>10. CASE Refreshed(c)
  <2>1. /\ Resumed(c, "get_user") /\ work' = work
        /\ session' = [d \in Conns |-> IF d \in SessionsOf(g.user)
                         THEN [session[d] EXCEPT !.role = g.row.role, !.must = g.row.must] ELSE session[d]]
        /\ handler' = [d \in Conns |-> IF d = c THEN Idle
                         ELSE [handler[d] EXCEPT !.held = @ /\ d \notin SessionsOf(g.user)]]
    BY <1>0, <1>10 DEF Refreshed
  <2>2. After(g) /\ g.step = "get_user" /\ g.row.role \in Roles /\ g.row.must \in BOOLEAN
    <3>1. After(g) /\ g.step = "get_user"
      BY <1>2, <2>1
    <3> QED BY <1>1, <3>1 DEF After, HandlerRow, Account
  <2>3. \A d \in Conns \ {c} : /\ handler'[d] \in HandlerRow /\ handler'[d].step = handler[d].step
                               /\ handler'[d].user = handler[d].user /\ handler'[d].row = handler[d].row
                               /\ handler'[d].token = handler[d].token /\ handler'[d].todo = handler[d].todo
    <3> TAKE d \in Conns \ {c}
    <3>1. PICK b \in BOOLEAN : b = (handler[d].held /\ d \notin SessionsOf(g.user))
      OBVIOUS
    <3>2. handler'[d] = WithHeld(handler[d], b)
      BY <2>1, <3>1, Zenon DEF WithHeld
    <3> QED BY <1>1, <3>2, HeldMoves
  <2>4. handler'[c] = Idle /\ handler' \in [Conns -> HandlerRow]
    <3>1. handler'[c] = Idle /\ DOMAIN handler' = Conns /\ handler' = [d \in Conns |-> handler'[d]]
      BY <2>1
    <3> QED BY <2>3, <3>1, NobodyIsInNoCall
  <2>5. Advances(c, g, Idle)
    <3>1. /\ done # <<>> /\ Head(done) = c /\ done' = Tail(done) /\ UNCHANGED Loop
      BY <2>1 DEF Resumed
    <3>2. Idle.step = "idle"
      BY NobodyIsInNoCall
    <3> QED BY <1>0, <2>1, <2>2, <2>3, <2>4, <3>1, <3>2 DEF Advances
  <2>6. ASSUME NEW d \in Conns
        PROVE  /\ session'[d] \in Session \cup {NoSession}
               /\ session'[d] # NoSession =>
                    /\ Bound(d) /\ session'[d].user = session[d].user /\ session'[d].token = session[d].token
                    /\ IF g.user = session[d].user THEN session'[d].role = g.row.role
                       ELSE session'[d].role = session[d].role
    <3>1. CASE d \in SessionsOf(g.user)
      <4>1. Bound(d) /\ session[d].user = g.user /\ session[d] \in Session
        BY <1>1, <3>1 DEF SessionsOf
      <4>2. session'[d] = WithRole(session[d], g.row.role, g.row.must)
        BY <2>1, <3>1 DEF WithRole
      <4> QED BY <2>2, <4>1, <4>2, RoleMoves
    <3>2. CASE d \notin SessionsOf(g.user)
      <4>1. session'[d] = session[d]
        BY <2>1, <3>2
      <4>2. Bound(d) => session[d].user # g.user
        BY <3>2 DEF SessionsOf
      <4> QED BY <1>1, <4>1, <4>2 DEF Bound
    <3> QED BY <3>1, <3>2
  <2>7. session' \in [Conns -> Session \cup {NoSession}]
    BY <2>1, <2>6
  <2> QED BY <2>2, <2>5, <2>6, <2>7, ResumptionStep DEF Bound
<1>11. CASE RevokeStart(c)
  <2>1. PICK h : h = [[g EXCEPT !.step = "revoke"] EXCEPT !.todo = SessionsOf(g.user)]
    OBVIOUS
  <2>2. /\ Resumed(c, "reset_user_password") /\ UNCHANGED <<session, work>>
        /\ handler' = [handler EXCEPT ![c] = h]
    BY <1>0, <1>1, <1>11, <2>1 DEF RevokeStart
  <2>3. SessionsOf(g.user) \in SUBSET Conns
    BY DEF SessionsOf
  <2>4. h \in HandlerRow /\ h.step = "revoke" /\ h.user = g.user /\ h.todo = SessionsOf(g.user)
    BY <1>1, <2>1, <2>3 DEF HandlerRow
  <2>5. handler' \in [Conns -> HandlerRow] /\ handler'[c] = h /\ \A d \in Conns \ {c} : handler'[d] = handler[d]
    BY <1>1, <2>2, <2>4
  <2>6. g.step = "reset_user_password"
    BY <1>2, <2>2
  <2>7. Advances(c, g, h)
    <3>1. /\ done # <<>> /\ Head(done) = c /\ done' = Tail(done) /\ UNCHANGED Loop
      BY <2>2 DEF Resumed
    <3> QED BY <1>0, <2>2, <2>4, <2>5, <2>6, <3>1 DEF Advances
  <2>8. \A d \in Conns : Bound(d)' => /\ Bound(d) /\ session'[d] = session[d]
                                      /\ g.user = session[d].user => d \in h.todo
    BY <2>2, <2>4 DEF Bound, SessionsOf
  <2> QED BY <1>1, <2>2, <2>4, <2>6, <2>7, <2>8, ResumptionStep
<1>12. CASE RevokeNext(c)
  <2>1. g.step = "revoke" /\ UNCHANGED <<Loop, work, done>>
    BY <1>0, <1>12 DEF RevokeNext
  <2>2. ASSUME NEW d \in g.todo, session' = [session EXCEPT ![d] = NoSession],
               handler' = [e \in Conns |-> [handler[e] EXCEPT !.todo = IF e = c THEN @ \ {d} ELSE @,
                                                              !.held = @ /\ e # d]]
        PROVE  SessionsIInv'
    <3>1. \A e \in Conns : /\ handler'[e] \in HandlerRow /\ handler'[e].step = handler[e].step
                           /\ handler'[e].user = handler[e].user /\ handler'[e].row = handler[e].row
                           /\ handler'[e].token = handler[e].token
                           /\ handler'[e].todo = (IF e = c THEN handler[e].todo \ {d} ELSE handler[e].todo)
      <4> TAKE e \in Conns
      <4>1. PICK b \in BOOLEAN : b = (handler[e].held /\ e # d)
        OBVIOUS
      <4>2. PICK S : S = (IF e = c THEN handler[e].todo \ {d} ELSE handler[e].todo)
        OBVIOUS
      <4>3. S \in SUBSET Conns /\ handler[e] \in HandlerRow
        BY <1>1, <4>2 DEF HandlerRow
      <4>4. PICK h \in HandlerRow : h = WithTodo(handler[e], S)
        BY <4>3, TodoMoves
      <4>5. handler'[e] = [[handler[e] EXCEPT !.todo = S] EXCEPT !.held = b]
        BY <2>2, <4>1, <4>2, Zenon
      <4>6. handler'[e] = WithHeld(WithTodo(handler[e], S), b)
        BY <4>5, Zenon DEF WithHeld, WithTodo
      <4>7. handler'[e] = WithHeld(h, b)
        BY <4>4, <4>6
      <4>8. /\ h.step = handler[e].step /\ h.user = handler[e].user
            /\ h.row = handler[e].row /\ h.token = handler[e].token /\ h.todo = S
        BY <4>3, <4>4, TodoMoves
      <4>9. /\ handler'[e] \in HandlerRow /\ handler'[e].step = h.step
            /\ handler'[e].user = h.user /\ handler'[e].row = h.row
            /\ handler'[e].token = h.token /\ handler'[e].todo = h.todo
        BY <4>7, HeldMoves
      <4> QED BY <4>2, <4>8, <4>9
    <3>2. handler' \in [Conns -> HandlerRow]
      BY <2>2, <3>1
    <3>3. /\ session' \in [Conns -> Session \cup {NoSession}]
          /\ \A e \in Conns : Bound(e)' => session'[e] = session[e] /\ e # d
      BY <1>1, <2>2 DEF Bound
    <3>4. \A e \in Conns : Bound(e)' => session'[e] = session[e]
                             /\ \A f \in Conns : e \in handler[f].todo => e \in handler'[f].todo
      BY <3>1, <3>3
    <3> QED BY <2>1, <3>1, <3>2, <3>3, <3>4, AsideStep
  <2>3. CASE g.todo = {} /\ handler' = [handler EXCEPT ![c] = Idle] /\ UNCHANGED session
    <3>1. handler' \in [Conns -> HandlerRow] /\ handler'[c].step = "idle" /\ \A d \in Conns \ {c} : handler'[d] = handler[d]
      BY <1>1, <2>3, NobodyIsInNoCall
    <3>2. \A d, e \in Conns : d \in handler[e].todo => d \in handler'[e].todo
      BY <1>0, <2>3, <3>1
    <3> QED BY <1>0, <1>1, <2>1, <2>3, <3>1, <3>2, AsideStep
  <2> QED BY <1>0, <1>12, <2>2, <2>3 DEF RevokeNext
<1>13. CASE Disconnect(c)
  <2>1. /\ UNCHANGED <<Loop, work, done>> /\ session' = [session EXCEPT ![c] = NoSession]
        /\ handler' = [d \in Conns |-> [handler[d] EXCEPT !.todo = @ \ {c}]]
    BY <1>13 DEF Disconnect
  <2>2. \A e \in Conns : /\ handler'[e] \in HandlerRow /\ handler'[e].step = handler[e].step
                         /\ handler'[e].user = handler[e].user /\ handler'[e].row = handler[e].row
                         /\ handler'[e].token = handler[e].token /\ handler'[e].todo = handler[e].todo \ {c}
    <3> TAKE e \in Conns
    <3>1. PICK S : S = handler[e].todo \ {c}
      OBVIOUS
    <3>2. S \in SUBSET Conns /\ handler[e] \in HandlerRow
      BY <1>1, <3>1 DEF HandlerRow
    <3>3. handler'[e] = WithTodo(handler[e], S)
      BY <2>1, <3>1 DEF WithTodo
    <3> QED BY <3>1, <3>2, <3>3, TodoMoves
  <2>3. handler' \in [Conns -> HandlerRow]
    BY <2>1, <2>2
  <2>4. /\ session' \in [Conns -> Session \cup {NoSession}]
        /\ \A e \in Conns : Bound(e)' => session'[e] = session[e] /\ e # c
    BY <1>1, <2>1 DEF Bound
  <2>5. \A e \in Conns : Bound(e)' => session'[e] = session[e]
                           /\ \A f \in Conns : e \in handler[f].todo => e \in handler'[f].todo
    BY <2>2, <2>4
  <2> QED BY <2>1, <2>2, <2>3, <2>4, <2>5, AsideStep
<1> QED BY <1>4, <1>6, <1>7, <1>8, <1>9, <1>10, <1>11, <1>12, <1>13 DEF EventLoop

-----------------------------------------------------------------------------
(* The specification. *)

LEMMA DispatchStep ==
  ASSUME SessionsIInv, NEW c \in Conns, Dispatch(c)
  PROVE  SessionsIInv'
<1>0. /\ Idle \in HandlerRow /\ \A d \in Conns : Bound(d) => session[d] \in Session
      /\ DOMAIN owner = 1..Len(owner) /\ Len(owner) <= MaxTokens /\ Len(owner) \in Nat /\ MaxTokens \in Nat
      /\ \A t \in DOMAIN owner : owner[t] \in Users
      /\ \A d \in Conns : Bound(d) => /\ session[d].user \in Users /\ session[d].token \in 0..MaxTokens
                                      /\ session[d].must \in BOOLEAN /\ session[d].role \in Roles
  BY Unpacked, NobodyIsInNoCall, SessionsConstants DEF Session
<1>1. ASSUME NEW u \in Users, NEW given \in BOOLEAN, Login(c, u, given) PROVE SessionsIInv'
  <2>1. PICK h : h = [Idle EXCEPT !.step = "authenticate", !.user = u, !.forced = given]
    OBVIOUS
  <2>2. h \in HandlerRow /\ h.step = "authenticate" /\ h.user = u
    BY <1>0, <2>1 DEF HandlerRow, Idle, Calls
  <2>3. /\ Begin(c, h) /\ Len(owner) < MaxTokens /\ LoggingIn \subseteq {c}
    BY <1>1, <2>1 DEF Login
  <2>4. Before(h)
    BY <2>2 DEF Before
  <2>5. h.step \in Calls \ {"refused", "create_session"}
    BY <2>2 DEF Calls
  <2> QED BY <2>2, <2>3, <2>4, <2>5, BegunStep
<1>2. ASSUME NEW t \in DOMAIN owner, Resume(c, t) PROVE SessionsIInv'
  <2>1. PICK h : h = [Idle EXCEPT !.step = "resolve_session", !.user = owner[t], !.token = t]
    OBVIOUS
  <2>2. t \in 0..MaxTokens /\ owner[t] \in Users
    BY <1>0
  <2>3. h \in HandlerRow /\ h.step = "resolve_session" /\ h.user = owner[t] /\ h.token = t
    BY <1>0, <2>1, <2>2 DEF HandlerRow, Idle, Calls
  <2>4. Begin(c, h)
    BY <1>2, <2>1 DEF Resume
  <2>5. Before(h)
    BY <2>2, <2>3 DEF Before
  <2>6. h.step \in Calls \ {"refused", "create_session"} /\ h.step # "authenticate"
    BY <2>3 DEF Calls
  <2> QED BY <2>3, <2>4, <2>5, <2>6, BegunStep
<1>3. CASE Logout(c)
  <2>1. PICK h : h = [Idle EXCEPT !.step = "delete_session", !.user = session[c].user, !.token = session[c].token]
    OBVIOUS
  <2>2. Begin(c, h) /\ session[c].user \in Users /\ session[c].token \in 0..MaxTokens
    BY <1>0, <1>3, <2>1 DEF Logout
  <2>3. h \in HandlerRow /\ h.step = "delete_session" /\ h.user \in Users
    BY <1>0, <2>1, <2>2 DEF HandlerRow, Idle, Calls
  <2>4. Before(h)
    BY <2>3 DEF Before
  <2>5. h.step \in Calls \ {"refused", "create_session"} /\ h.step # "authenticate"
    BY <2>3 DEF Calls
  <2> QED BY <2>2, <2>3, <2>4, <2>5, BegunStep
<1>4. CASE ChangePassword(c)
  <2>1. PICK h : h = [Idle EXCEPT !.step = "change_password", !.user = session[c].user,
                                  !.token = session[c].token, !.forced = session[c].must, !.held = TRUE]
    OBVIOUS
  <2>2. /\ Begin(c, h) /\ session[c].user \in Users /\ session[c].token \in 0..MaxTokens
        /\ session[c].must \in BOOLEAN
    BY <1>0, <1>4, <2>1 DEF ChangePassword
  <2>3. h \in HandlerRow /\ h.step = "change_password" /\ h.user \in Users
    BY <1>0, <2>1, <2>2 DEF HandlerRow, Idle, Calls
  <2>4. Before(h)
    BY <2>3 DEF Before
  <2>5. h.step \in Calls \ {"refused", "create_session"} /\ h.step # "authenticate"
    BY <2>3 DEF Calls
  <2> QED BY <2>2, <2>3, <2>4, <2>5, BegunStep
<1>5. ASSUME NEW step, NEW u \in Users, NEW r, Manage(c, step, u, r),
             \/ step \in {"create_user", "update_user"} /\ r \in Roles
             \/ step = "reset_user_password" /\ r = NoAccount
      PROVE  SessionsIInv'
  <2>1. PICK row : row = [Idle.row EXCEPT !.role = r]
    OBVIOUS
  <2>2. row \in Account /\ row.role = r
    BY <1>5, <2>1 DEF Idle, Account
  <2>3. PICK h : h = [Idle EXCEPT !.step = step, !.user = u, !.row = row, !.by = session[c].role]
    OBVIOUS
  <2>4. Begin(c, h) /\ session[c].role \in Roles
    BY <1>0, <1>5, <2>1, <2>3 DEF Manage
  <2>5. step \in Calls \ {"refused", "create_session"} /\ step # "authenticate"
    BY <1>5 DEF Calls
  <2>6. h \in HandlerRow /\ h.step = step /\ h.user = u /\ h.row = row
    BY <1>0, <2>2, <2>3, <2>4, <2>5 DEF HandlerRow, Idle
  <2>7. Before(h)
    BY <1>5, <2>2, <2>6 DEF Before
  <2> QED BY <2>4, <2>5, <2>6, <2>7, BegunStep
<1> QED BY <1>1, <1>2, <1>3, <1>4, <1>5 DEF Dispatch

LEMMA SessionsStart == Init => SessionsIInv
<1> SUFFICES ASSUME Init PROVE SessionsIInv
  OBVIOUS
<1>1. /\ account \in Accounts /\ \E u \in Users : account[u].role = "SUPER_ADMIN"
      /\ owner = <<>> /\ work = <<>> /\ done = <<>> /\ valid = {} /\ MaxTokens \in Nat
      /\ \A c \in Conns : handler[c] = Idle /\ ~Bound(c)
      /\ DOMAIN owner = {} /\ DOMAIN work = {} /\ DOMAIN done = {} /\ Len(owner) = 0
      /\ owner \in Seq(Users) /\ work \in Seq(Conns) /\ done \in Seq(Conns)
      /\ \A u \in Users : resetAt[u] = 0
  BY SessionsConstants DEF Init, Bound
<1>2. SessionsTypeOK
  <2>1. handler \in [Conns -> HandlerRow] /\ session \in [Conns -> Session \cup {NoSession}]
    BY NobodyIsInNoCall DEF Init
  <2>2. resetAt \in [Users -> 0..MaxTokens]
    BY <1>1 DEF Init
  <2> QED BY <1>1, <2>1, <2>2 DEF SessionsTypeOK
<1>3. \A c \in Conns : handler[c].step \notin Calls
  BY <1>1 DEF Idle, Calls
<1>4. LoggingIn = {}
  BY <1>3 DEF LoggingIn, Calls
<1>5. Queued /\ Issued /\ Following /\ Doomed
  BY <1>1, <1>4 DEF Queued, Issued, Following, Doomed
<1>6. Held
  BY <1>1, <1>3 DEF Held, Before, Calls
<1>7. SessionFresh /\ OldTokensDie /\ SuperAdminRemains
  BY <1>1 DEF SessionFresh, OldTokensDie, SuperAdminRemains, SuperAdmins
<1> QED BY <1>2, <1>5, <1>6, <1>7 DEF SessionsIInv

LEMMA SessionsUnchanged == SessionsIInv /\ UNCHANGED vars => SessionsIInv'
<1> SUFFICES ASSUME SessionsIInv, UNCHANGED vars PROVE SessionsIInv'
  OBVIOUS
<1>1. /\ UNCHANGED <<Loop, work, done>> /\ handler' = handler /\ session' = session
  BY DEF vars, Loop
<1>2. handler' \in [Conns -> HandlerRow] /\ session' \in [Conns -> Session \cup {NoSession}]
  BY <1>1, Unpacked
<1> QED BY <1>1, <1>2, AsideStep DEF Bound

\* The inductive invariant: the queues hold each connection once, tokens and rows on their
\* way are owned and fresh or followed by their correction, and all that the runs check.
THEOREM SessionsInvariant == SessionsSpec => []SessionsIInv
<1>1. SessionsIInv /\ [SessionsNext]_vars => SessionsIInv'
  BY SessionsUnchanged, DispatchStep, WorkerStep, EventLoopStep DEF SessionsNext
<1> QED BY <1>1, SessionsStart, PTL DEF SessionsSpec

\* Rows, tokens, sessions and handlers keep their types.
THEOREM SessionsAreTyped == SessionsSpec => []SessionsTypeOK
<1>1. SessionsIInv => SessionsTypeOK
  BY DEF SessionsIInv
<1> QED BY <1>1, SessionsInvariant, PTL

\* No session keeps a role its account lost, beyond the update that will refresh it.
THEOREM SessionsAreFresh == SessionsSpec => []SessionFresh
<1>1. SessionsIInv => SessionFresh
  BY DEF SessionsIInv
<1> QED BY <1>1, SessionsInvariant, PTL

\* After a reset no older token is accepted, and no session bound with one stays open.
THEOREM OldTokensAreDead == SessionsSpec => []OldTokensDie
<1>1. SessionsIInv => OldTokensDie
  BY DEF SessionsIInv
<1> QED BY <1>1, SessionsInvariant, PTL

\* Managers never leave the system without a Super Admin.
THEOREM ASuperAdminRemains == SessionsSpec => []SuperAdminRemains
<1>1. SessionsIInv => SuperAdminRemains
  BY DEF SessionsIInv
<1> QED BY <1>1, SessionsInvariant, PTL
=============================================================================
