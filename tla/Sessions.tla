------------------------------ MODULE Sessions ------------------------------
(***************************************************************************)
(* Sessions, passwords and accounts on the Central Server.                 *)
(*                                                                         *)
(* Each connection has one handler at a time.  A handler is a coroutine:   *)
(* it runs between two awaits, and awaits database calls that one worker   *)
(* thread executes in the order they were asked for.  `work` holds the     *)
(* handlers whose call waits for the worker, `done` those whose call was   *)
(* executed and that the event loop will resume, oldest first.  Between    *)
(* the two, and between two calls of a handler, other handlers run.        *)
(*                                                                         *)
(* A password is known to its owner only, or was given to him: his user    *)
(* ID, or a one-time password.  An account has a given password exactly    *)
(* when must_change_password is set, so the flag stands for both.  A role  *)
(* stands for all that a session copies from the account.  What is refused *)
(* changes nothing: wrong passwords, locked user IDs, expired tokens and   *)
(* requests of the wrong role are no steps.  The server starts with any    *)
(* accounts, a Super Admin among them.                                     *)
(***************************************************************************)
EXTENDS Naturals, Sequences

CONSTANTS
  Users,       \* user IDs
  Start,       \* the tables of accounts the server may start with
  Conns,       \* connections open at a time
  MaxTokens,   \* bound: logins
  MaxChanges   \* bound: requests of managers about accounts

VARIABLES
  account,  \* rows of `users`
  owner,    \* the user of each session token, in the order they were issued
  valid,    \* the tokens with a row in user_sessions
  session,  \* CentralWebSocketServer.sessions
  handler,  \* the coroutine of each connection
  work,     \* handlers whose database call waits for the worker
  done,     \* handlers whose database call was executed, to be resumed
  changes,  \* requests of managers so far
  resetAt   \* history: the tokens issued before the last reset of each password

vars == <<account, owner, valid, session, handler, work, done, changes, resetAt>>

Roles == {"HEAD", "ADMIN", "SUPER_ADMIN"}
Managers == {"ADMIN", "SUPER_ADMIN"}
NoAccount == "no_account"
NoSession == [user |-> "no_session"]

Account == [role: Roles \cup {NoAccount}, must: BOOLEAN]
Accounts == [Users -> Account]

\* The server makes a Super Admin before it listens when there is none.
ASSUME SessionsConstants ==
  /\ \A a \in Start : a \in Accounts /\ \E u \in Users : a[u].role = "SUPER_ADMIN"
  /\ MaxTokens \in Nat /\ MaxChanges \in Nat

NoUser == "no_user"
Session == [user: Users, role: Roles, must: BOOLEAN, token: 1..MaxTokens]

\* Where a handler is: the database call it awaits (or just awaited), or "revoke"
\* between two closings of connections.
Calls == {"authenticate", "create_session", "resolve_session", "delete_session",
          "change_password", "delete_user_sessions", "create_user", "update_user",
          "get_user", "reset_user_password", "refused"}

\* The locals of a handler: the account it is about, the row it read or the role it
\* asks for, the captured session's role, token and password flag, whether the
\* captured session is still the connection's, and the connections left to revoke.
HandlerRow == [step: Calls \cup {"idle", "revoke"}, user: Users \cup {NoUser}, row: Account,
               by: Roles, token: 0..MaxTokens, forced: BOOLEAN, held: BOOLEAN,
               todo: SUBSET Conns]

Idle == [step |-> "idle", user |-> NoUser, row |-> [role |-> NoAccount, must |-> FALSE],
         by |-> "HEAD", token |-> 0, forced |-> FALSE, held |-> FALSE, todo |-> {}]

Bound(c) == session[c] # NoSession
Loop == <<account, owner, valid, changes, resetAt>>   \* what no resumption changes

Init ==
  /\ account \in Start
  /\ owner = <<>> /\ valid = {}
  /\ session = [c \in Conns |-> NoSession]
  /\ handler = [c \in Conns |-> Idle]
  /\ work = <<>> /\ done = <<>>
  /\ changes = 0
  /\ resetAt = [u \in Users |-> 0]

-----------------------------------------------------------------------------
(* A message arrives: the checks of handle_message, then the handler runs to its *)
(* first await.                                                                  *)

Begin(c, h) ==
  /\ handler[c].step = "idle"
  /\ handler' = [handler EXCEPT ![c] = h]
  /\ work' = Append(work, c)
  /\ UNCHANGED <<account, owner, valid, session, done, resetAt>>

LoggingIn == {c \in Conns : handler[c].step \in {"authenticate", "create_session"}}

\* LOGIN with a password that is the user's own or was given to him.
Login(c, u, given) ==
  /\ ~Bound(c)
  /\ \A d \in LoggingIn : d = c   \* bound: one login at a time leaves room for its token
  /\ Len(owner) < MaxTokens
  /\ Begin(c, [Idle EXCEPT !.step = "authenticate", !.user = u, !.forced = given])
  /\ UNCHANGED changes

\* RESUME with a token the server issued.
Resume(c, t) ==
  /\ ~Bound(c)
  /\ Begin(c, [Idle EXCEPT !.step = "resolve_session", !.user = owner[t], !.token = t])
  /\ UNCHANGED changes

Logout(c) ==
  /\ Bound(c)
  /\ Begin(c, [Idle EXCEPT !.step = "delete_session", !.user = session[c].user,
                           !.token = session[c].token])
  /\ UNCHANGED changes

\* The old password is only waived while the session must change it.
ChangePassword(c) ==
  /\ Bound(c)
  /\ Begin(c, [Idle EXCEPT !.step = "change_password", !.user = session[c].user,
                           !.token = session[c].token, !.forced = session[c].must, !.held = TRUE])
  /\ UNCHANGED changes

\* CREATE_USER, UPDATE_USER, RESET_PASSWORD of managers who need not change their
\* password first.  No window offers a manager to reset his own password.
Manage(c, step, u, role) ==
  /\ Bound(c) /\ ~session[c].must /\ session[c].role \in Managers
  /\ step = "reset_user_password" => u # session[c].user
  /\ changes < MaxChanges /\ changes' = changes + 1
  /\ Begin(c, [Idle EXCEPT !.step = step, !.user = u, !.row.role = role, !.by = session[c].role])

-----------------------------------------------------------------------------
(* The worker executes the oldest call.  Each is atomic: nothing else writes. *)

\* Mutant: as many workers as calls.
ExecutedInAnyOrder(c, h) ==
  \E i \in DOMAIN work :
    /\ work[i] = c
    /\ work' = SubSeq(work, 1, i - 1) \o SubSeq(work, i + 1, Len(work))
    /\ done' = Append(done, c)
    /\ handler' = [handler EXCEPT ![c] = h]
    /\ UNCHANGED <<session, changes>>

Executed(c, h) ==
  /\ work # <<>> /\ Head(work) = c
  /\ work' = Tail(work)
  /\ done' = Append(done, c)
  /\ handler' = [handler EXCEPT ![c] = h]
  /\ UNCHANGED <<session, changes>>

Refusal == [Idle EXCEPT !.step = "refused"]

\* authenticate: a given password is right as long as it was not changed.
Authenticate(c) ==
  LET h == handler[c]
      a == account[h.user]
  IN /\ h.step = "authenticate"
     /\ Executed(c, IF a.role # NoAccount /\ a.must = h.forced
                    THEN [h EXCEPT !.row = a, !.forced = FALSE] ELSE Refusal)
     /\ UNCHANGED <<account, owner, valid, resetAt>>

\* Mutant: the handler takes the newest token before its own is stored.
CreateSessionLater(c) ==
  LET h == handler[c]
  IN /\ h.step = "create_session"
     /\ owner' = Append(owner, h.user)
     /\ valid' = valid \cup {Len(owner) + 1}
     /\ Executed(c, [h EXCEPT !.token = Len(owner)])
     /\ UNCHANGED <<account, resetAt>>

CreateSession(c) ==
  LET h == handler[c]
  IN /\ h.step = "create_session"
     /\ owner' = Append(owner, h.user)
     /\ valid' = valid \cup {Len(owner) + 1}
     /\ Executed(c, [h EXCEPT !.token = Len(owner) + 1])
     /\ UNCHANGED <<account, resetAt>>

ResolveSession(c) ==
  LET h == handler[c]
  IN /\ h.step = "resolve_session"
     /\ Executed(c, IF h.token \in valid THEN [h EXCEPT !.row = account[h.user]] ELSE Refusal)
     /\ UNCHANGED <<account, owner, valid, resetAt>>

DeleteSession(c) ==
  /\ handler[c].step = "delete_session"
  /\ valid' = valid \ {handler[c].token}
  /\ Executed(c, handler[c])
  /\ UNCHANGED <<account, owner, resetAt>>

\* change_password: the old password is wrong if it was reset meanwhile.
ChangeStored(c) ==
  LET h  == handler[c]
      ok == h.forced \/ ~account[h.user].must
  IN /\ h.step = "change_password"
     /\ account' = IF ok THEN [account EXCEPT ![h.user].must = FALSE] ELSE account
     /\ Executed(c, IF ok THEN h ELSE Refusal)
     /\ UNCHANGED <<owner, valid, resetAt>>

\* delete_user_sessions(keep_token): the user's other PCs have to log in again.
DeleteOtherSessions(c) ==
  LET h == handler[c]
  IN /\ h.step = "delete_user_sessions"
     /\ valid' = {t \in valid : owner[t] = h.user => t = h.token}
     /\ Executed(c, h)
     /\ UNCHANGED <<account, owner, resetAt>>

\* create_user: an Admin creates Heads only; the first password is the user ID.
CreateUser(c) ==
  LET h  == handler[c]
      ok == /\ h.by = "ADMIN" => h.row.role = "HEAD"
            /\ account[h.user].role = NoAccount
  IN /\ h.step = "create_user"
     /\ account' = IF ok THEN [account EXCEPT ![h.user] = [role |-> h.row.role, must |-> TRUE]]
                   ELSE account
     /\ Executed(c, IF ok THEN h ELSE Refusal)
     /\ UNCHANGED <<owner, valid, resetAt>>

SuperAdmins == {u \in Users : account[u].role = "SUPER_ADMIN"}

\* Mutant: counts the Super Admins with the one it is about to change.
MayBecomeCountingAll(u, role, by) ==
  /\ account[u].role # NoAccount
  /\ by = "ADMIN" => account[u].role = "HEAD" /\ role = "HEAD"
  /\ account[u].role = "SUPER_ADMIN" /\ role # "SUPER_ADMIN" => SuperAdmins # {}

\* update_user: who may give whom which role, and the last Super Admin keeps his.
MayBecome(u, role, by) ==
  /\ account[u].role # NoAccount
  /\ by = "ADMIN" => account[u].role = "HEAD" /\ role = "HEAD"
  /\ account[u].role = "SUPER_ADMIN" /\ role # "SUPER_ADMIN" => SuperAdmins # {u}

UpdateUser(c) ==
  LET h  == handler[c]
      ok == MayBecome(h.user, h.row.role, h.by)
  IN /\ h.step = "update_user"
     /\ account' = IF ok THEN [account EXCEPT ![h.user].role = h.row.role] ELSE account
     /\ Executed(c, IF ok THEN h ELSE Refusal)
     /\ UNCHANGED <<owner, valid, resetAt>>

GetUser(c) ==
  /\ handler[c].step = "get_user"
  /\ Executed(c, [handler[c] EXCEPT !.row = account[handler[c].user]])
  /\ UNCHANGED <<account, owner, valid, resetAt>>

\* reset_user_password: the password, the flag and the tokens in one transaction.
ResetPassword(c) ==
  LET h  == handler[c]
      ok == /\ account[h.user].role # NoAccount
            /\ h.by = "ADMIN" => account[h.user].role = "HEAD"
  IN /\ h.step = "reset_user_password"
     /\ IF ok THEN /\ account' = [account EXCEPT ![h.user].must = TRUE]
                   /\ valid' = {t \in valid : owner[t] # h.user}
                   /\ resetAt' = [resetAt EXCEPT ![h.user] = Len(owner)]
                   /\ Executed(c, h)
        ELSE /\ Executed(c, Refusal)
             /\ UNCHANGED <<account, valid, resetAt>>
     /\ UNCHANGED owner

-----------------------------------------------------------------------------
(* The event loop resumes the handlers in the order their calls were executed. *)

Resumed(c, step) ==
  /\ done # <<>> /\ Head(done) = c /\ handler[c].step = step
  /\ done' = Tail(done)
  /\ UNCHANGED Loop

Await(c, step) == /\ handler' = [handler EXCEPT ![c].step = step]
                  /\ work' = Append(work, c)
                  /\ UNCHANGED session

Finish(c) == handler' = [handler EXCEPT ![c] = Idle] /\ UNCHANGED work

\* The session the handler loaded becomes the connection's.
Bind(c) == session' = [session EXCEPT ![c] =
  [user |-> handler[c].user, role |-> handler[c].row.role, must |-> handler[c].row.must,
   token |-> handler[c].token]]

Authenticated(c) == Resumed(c, "authenticate") /\ Await(c, "create_session")
LoggedIn(c)      == Resumed(c, "create_session") /\ Bind(c) /\ Finish(c)
ResumedSession(c) == Resumed(c, "resolve_session") /\ Bind(c) /\ Finish(c)

LoggedOut(c) ==
  /\ Resumed(c, "delete_session")
  /\ session' = [session EXCEPT ![c] = NoSession] /\ Finish(c)

Changed(c) == Resumed(c, "change_password") /\ Await(c, "delete_user_sessions")

\* The flag is cleared on the session that was captured, which may have been replaced.
ChangeDone(c) ==
  /\ Resumed(c, "delete_user_sessions")
  /\ session' = IF handler[c].held THEN [session EXCEPT ![c].must = FALSE] ELSE session
  /\ Finish(c)

Answered(c, step) == Resumed(c, step) /\ Finish(c) /\ UNCHANGED session

Updated(c) == Resumed(c, "update_user") /\ Await(c, "get_user")

SessionsOf(u) == {d \in Conns : Bound(d) /\ session[d].user = u}

\* _refresh_user_sessions: new Session objects with the same tokens.
Refreshed(c) ==
  LET h == handler[c]
  IN /\ Resumed(c, "get_user")
     /\ session' = [d \in Conns |-> IF d \in SessionsOf(h.user)
                      THEN [session[d] EXCEPT !.role = h.row.role, !.must = h.row.must]
                      ELSE session[d]]
     /\ handler' = [d \in Conns |-> IF d = c THEN Idle
                      ELSE [handler[d] EXCEPT !.held = @ /\ d \notin SessionsOf(h.user)]]
     /\ UNCHANGED work

\* Mutant: revokes only the sessions whose password flag is clear, as broadcasts do.
RevokedIfLive(c) ==
  /\ Resumed(c, "reset_user_password")
  /\ handler' = [handler EXCEPT ![c].step = "revoke",
                                ![c].todo = {d \in SessionsOf(handler[c].user) : ~session[d].must}]
  /\ UNCHANGED <<session, work>>

\* _revoke_user_sessions lists the sessions at once and then closes one after the other.
RevokeStart(c) ==
  /\ Resumed(c, "reset_user_password")
  /\ handler' = [handler EXCEPT ![c].step = "revoke", ![c].todo = SessionsOf(handler[c].user)]
  /\ UNCHANGED <<session, work>>

RevokeNext(c) ==
  /\ handler[c].step = "revoke"
  /\ \/ \E d \in handler[c].todo :
          /\ session' = [session EXCEPT ![d] = NoSession]
          /\ handler' = [e \in Conns |->
               [handler[e] EXCEPT !.todo = IF e = c THEN @ \ {d} ELSE @,
                                  !.held = @ /\ e # d]]
     \/ handler[c].todo = {} /\ handler' = [handler EXCEPT ![c] = Idle] /\ UNCHANGED session
  /\ UNCHANGED <<Loop, work, done>>

\* The connection ends; its coroutine ends after the message it handles.
Disconnect(c) ==
  /\ handler[c].step = "idle" /\ Bound(c)
  /\ session' = [session EXCEPT ![c] = NoSession]
  /\ handler' = [d \in Conns |-> [handler[d] EXCEPT !.todo = @ \ {c}]]
  /\ UNCHANGED <<Loop, work, done>>

-----------------------------------------------------------------------------
Dispatch(c) ==
  \/ \E u \in Users, given \in BOOLEAN : Login(c, u, given)
  \/ \E t \in DOMAIN owner : Resume(c, t)
  \/ Logout(c)
  \/ ChangePassword(c)
  \/ \E u \in Users, r \in Roles : \/ Manage(c, "create_user", u, r)
                                   \/ Manage(c, "update_user", u, r)
  \/ \E u \in Users : Manage(c, "reset_user_password", u, NoAccount)

Worker(c) ==
  \/ Authenticate(c) \/ CreateSession(c) \/ ResolveSession(c) \/ DeleteSession(c)
  \/ ChangeStored(c) \/ DeleteOtherSessions(c) \/ CreateUser(c) \/ UpdateUser(c)
  \/ GetUser(c) \/ ResetPassword(c)

EventLoop(c) ==
  \/ Authenticated(c) \/ LoggedIn(c) \/ ResumedSession(c) \/ LoggedOut(c)
  \/ Changed(c) \/ ChangeDone(c) \/ Updated(c) \/ Refreshed(c)
  \/ Answered(c, "create_user") \/ Answered(c, "refused")
  \/ RevokeStart(c) \/ RevokeNext(c) \/ Disconnect(c)

SessionsNext == \E c \in Conns : Dispatch(c) \/ Worker(c) \/ EventLoop(c)

SessionsSpec == Init /\ [][SessionsNext]_vars

-----------------------------------------------------------------------------
Pending(q, d) == \E i \in DOMAIN q : q[i] = d

\* Rows, tokens, sessions and handlers have their types; a session's token was issued to
\* its user, and a connection has at most one call on the way.
SessionsTypeOK ==
  /\ account \in Accounts
  /\ owner \in Seq(Users) /\ Len(owner) <= MaxTokens
  /\ valid \subseteq DOMAIN owner
  /\ session \in [Conns -> Session \cup {NoSession}]
  /\ handler \in [Conns -> HandlerRow]
  /\ work \in Seq(Conns) /\ done \in Seq(Conns)
  /\ resetAt \in [Users -> 0..MaxTokens]
  /\ \A c \in Conns : Bound(c) => /\ session[c].token \in DOMAIN owner
                                  /\ owner[session[c].token] = session[c].user

\* A session's copy of the role is the account's, unless the update that changed it has
\* yet to refresh the sessions.  A login or a resumption reads the account, awaits other
\* calls and binds what it read: only the worker's order keeps it from binding an old role
\* after the refresh.
SessionFresh ==
  \A c \in Conns : Bound(c) =>
    \/ session[c].role = account[session[c].user].role
    \/ \E d \in Conns : /\ handler[d].user = session[c].user
                        /\ \/ handler[d].step = "update_user" /\ Pending(done, d)
                           \/ handler[d].step = "get_user"

Revoking(c) ==
  \E d \in Conns : /\ handler[d].user = session[c].user
                   /\ \/ handler[d].step = "reset_user_password" /\ Pending(done, d)
                      \/ handler[d].step = "revoke" /\ c \in handler[d].todo

\* "When an admin resets a password, that user's open sessions are closed": no token issued
\* before a reset is accepted after it, and a session bound with one, even while the reset
\* was on its way, is about to be revoked.
OldTokensDie ==
  /\ \A t \in valid : t > resetAt[owner[t]]
  /\ \A c \in Conns : Bound(c) => session[c].token > resetAt[session[c].user] \/ Revoking(c)

\* However managers change each other's accounts, a Super Admin remains.
SuperAdminRemains == SuperAdmins # {}
=============================================================================
