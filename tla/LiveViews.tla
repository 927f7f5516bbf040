----------------------------- MODULE LiveViews ------------------------------
(***************************************************************************)
(* The tables that the windows of the PCs show, and how a change reaches   *)
(* them.  A request that changes data is executed on the database worker;  *)
(* its handler then announces the kinds of data that changed, one          *)
(* broadcast after the other, while other requests are handled.  A window  *)
(* that hears of a change asks for the data it shows; the Admin's and the  *)
(* Super Admin's collect announcements for 250 ms first.  The server       *)
(* handles the requests of one connection one at a time.                   *)
(*                                                                         *)
(* The rows of a table are abstracted to a version: how often the data it  *)
(* shows was changed.  A Super Admin's window embeds the Admin's and the   *)
(* COO's panels, which listen each for itself, so that a panel stands for  *)
(* a window.  Who made a change is not modelled: its window gets the same  *)
(* announcements as the others.  Names shown from a joined table are not   *)
(* part of a table's version unless the server announces them for it.      *)
(***************************************************************************)
EXTENDS Naturals, Sequences, FiniteSets, TLC, SequencesExt

CONSTANTS
  Windows,  \* the windows of the PCs
  Scenes    \* what is looked at together: the panels shown, the changes made, and the bounds on
            \* changes (most) and on lost connections, restarts and failed requests (faults)

VARIABLES
  scene,     \* the scene that is played
  version,   \* the tables of the server
  changes,   \* requests that changed data, so far
  handlers,  \* what the handler of each of these still has to send
  conn,      \* the connection of each window
  asks,      \* its requests on the way to the server, the one being handled first
  wire,      \* what was sent to it and not yet taken from the connection
  dirty,     \* the scopes its ChangeDebouncer has collected
  view,      \* what it shows: for each request the data of the last reply
  warned,    \* the requests whose last failure it showed in a toast
  faults

viewVars == <<scene, version, changes, handlers, conn, asks, wire, dirty, view, warned, faults>>

Tables == {"projects", "disciplines", "tasks", "entries", "users", "proposals",
           "date_changes", "settings", "logs"}
Panels == {"admin", "super", "coo", "head"}
Nobody == "nobody"
Panel(w) == scene.panel[w]

\* What each panel asks for when it loads everything, in this order.
Asked ==
  [admin |-> <<"disciplines", "projects", "tasks", "timeline", "users", "proposals",
               "date_changes", "analytics">>,
   super |-> <<"users", "disciplines", "settings">>,
   coo |-> <<"users", "projects", "disciplines", "logs", "alerts">>,
   head |-> <<"snapshot", "proposals", "date_changes">>,
   nobody |-> <<>>]

\* The scopes that make a panel ask again for each.  A log event counts as the scope "log".
AdminScopes ==
  [disciplines |-> {"disciplines"}, projects |-> {"projects"}, tasks |-> {"tasks"},
   timeline |-> {"tasks"}, users |-> {"users"}, proposals |-> {"proposals"},
   date_changes |-> {"date_changes"}, analytics |-> {"log", "tasks", "projects", "users"}]

SuperScopes ==
  [users |-> {"users"}, disciplines |-> {"disciplines"}, settings |-> {"settings", "users"}]

CooScopes ==
  [users |-> {"users"}, projects |-> {"projects", "disciplines", "users"},
   disciplines |-> {"projects", "disciplines", "users"}, logs |-> {"log", "users"},
   alerts |-> {"users"}]

HeadScopes ==
  [snapshot |-> {"projects", "tasks", "disciplines", "users"}, proposals |-> {"proposals"},
   date_changes |-> {"date_changes"}]

Scopes == [admin |-> AdminScopes, super |-> SuperScopes, coo |-> CooScopes, head |-> HeadScopes,
           nobody |-> <<>>]

\* The tables whose rows each request reads, one database call after the other.
SnapshotReads == <<{"projects"}, {"disciplines"}, {"projects"}, {"tasks", "entries"}, {"alerts"}>>
SettingsReads == <<{"settings"}, {"users"}>>
AnalyticsReads == <<{"logs", "tasks", "projects", "users"}>>

\* Mutant: the names that are shown with an alert are read by a second call.
ReadsNamesLater(r) ==
  CASE r = "snapshot" -> SnapshotReads
    [] r = "settings" -> SettingsReads
    [] r = "analytics" -> AnalyticsReads
    [] r = "timeline" -> <<{"tasks"}>>
    [] r = "alerts" -> <<{"alerts"}, {"users"}>>
    [] OTHER -> <<{r}>>

Reads(r) ==
  CASE r = "snapshot" -> SnapshotReads
    [] r = "settings" -> SettingsReads
    [] r = "analytics" -> AnalyticsReads
    [] r = "timeline" -> <<{"tasks"}>>
    [] OTHER -> <<{r}>>

\* What is asked for when a reply is shown: the project lists select a project again.
AdminThen == [projects |-> <<"timeline">>]
HeadThen == [snapshot |-> <<"timeline">>]

Then(panel, r) ==
  CASE panel = "admin" /\ r \in DOMAIN AdminThen -> AdminThen[r]
    [] panel = "head" /\ r \in DOMAIN HeadThen -> HeadThen[r]
    [] OTHER -> <<>>

\* The requests whose replies a panel shows, and their tables that a change of is announced.
Shown(panel) == LET all == Range(Asked[panel])
                IN all \cup UNION {Range(Then(panel, r)) : r \in all}
Live(r) == (UNION Range(Reads(r))) \ {"alerts"}

Managers == {"admin", "super"}
Oversight == Managers \cup {"coo"}

Changed(scopes) == [msg |-> "changed", scopes |-> scopes]

\* What a handler still sends: a broadcast to panels, or the reply to its window.
Tell(scopes, panels) == [message |-> Changed(scopes), panels |-> panels, window |-> Nobody]
Reply(w, message) == [message |-> message, panels |-> {}, window |-> w]
Reaches(item, w) == Panel(w) \in item.panels \/ item.window = w

\* The broadcasts of the handlers.
LogAnnounced ==
  [log |-> <<Tell({"log"}, Oversight)>>,
   first_log |-> <<Tell({"log"}, Oversight), Tell({"tasks"}, {"head"})>>]

\* A decision is announced to the Head who asked for it and to no other Head: a Head's window
\* of a scene is his.
RequestsAnnounced ==
  [propose |-> <<Tell({"proposals"}, Managers)>>,
   approve_proposal |-> <<Tell({"tasks"}, Panels), Tell({"proposals"}, Managers \cup {"head"})>>,
   reject_proposal |-> <<Tell({"proposals"}, Managers \cup {"head"})>>,
   request_date |-> <<Tell({"date_changes"}, Managers)>>,
   approve_date |-> <<Tell({"tasks"}, Panels), Tell({"date_changes"}, Managers \cup {"head"})>>,
   reject_date |-> <<Tell({"date_changes"}, Managers \cup {"head"})>>]

AccountsAnnounced ==
  [discipline |-> <<Tell({"disciplines", "tasks"}, Panels)>>,
   create_user |-> <<Tell({"users"}, Oversight)>>,
   update_user |-> <<Tell({"users", "tasks"}, Panels)>>]

ProjectsAnnounced ==
  [add_project |-> <<Tell({"projects"}, Panels)>>,
   change_project |-> <<Tell({"projects", "tasks"}, Panels)>>,
   task |-> <<Tell({"tasks"}, Panels)>>]

SettingsAnnounced == [settings |-> <<Tell({"settings"}, {"super"})>>]

Announced(k) ==
  CASE k \in DOMAIN LogAnnounced -> LogAnnounced[k]
    [] k \in DOMAIN RequestsAnnounced -> RequestsAnnounced[k]
    [] k \in DOMAIN AccountsAnnounced -> AccountsAnnounced[k]
    [] k \in DOMAIN ProjectsAnnounced -> ProjectsAnnounced[k]
    [] k \in DOMAIN SettingsAnnounced -> SettingsAnnounced[k]

Kinds == DOMAIN LogAnnounced \cup DOMAIN RequestsAnnounced \cup DOMAIN AccountsAnnounced
         \cup DOMAIN ProjectsAnnounced \cup DOMAIN SettingsAnnounced

ASSUME DeskConstants ==
  /\ Nobody \notin Windows
  /\ \A s \in Scenes : s \in [panel : [Windows -> Panels \cup {Nobody}], kinds : SUBSET Kinds,
                               most : Nat, loaded : BOOLEAN, alerts : BOOLEAN, faults : Nat]

\* The tables whose rows, or announced joined columns, each change touches.
Writes(k) ==
  CASE k = "log" -> {"logs"}
    [] k = "first_log" -> {"logs", "entries"}
    [] k \in {"propose", "reject_proposal"} -> {"proposals"}
    [] k = "approve_proposal" -> {"proposals", "tasks"}
    [] k \in {"request_date", "reject_date"} -> {"date_changes"}
    [] k = "approve_date" -> {"date_changes", "tasks"}
    [] k = "discipline" -> {"disciplines", "tasks"}
    [] k = "create_user" -> {"users"}
    [] k = "update_user" -> {"users", "tasks"}
    [] k = "add_project" -> {"projects"}
    [] k = "change_project" -> {"projects", "tasks"}
    [] k = "task" -> {"tasks"}
    [] k = "settings" -> {"settings"}

-----------------------------------------------------------------------------
NoData == [t \in Tables |-> 0]
Blank(panel) == [r \in Shown(panel) |-> NoData]

\* Either the workspaces are about to open, or they show everything.
ViewsInit ==
  /\ scene \in Scenes
  /\ version = NoData
  /\ changes = 0 /\ faults = 0
  /\ handlers = <<>>
  /\ conn = [w \in Windows |-> IF Panel(w) = Nobody THEN "down"
                               ELSE IF scene.loaded THEN "up" ELSE "opening"]
  /\ asks = [w \in Windows |-> <<>>]
  /\ wire = [w \in Windows |-> <<>>]
  /\ dirty = [w \in Windows |-> {}]
  /\ view = [w \in Windows |-> Blank(Panel(w))]
  /\ warned = [w \in Windows |-> {}]

Asking(r, left, got) == [request |-> r, left |-> left, got |-> got]
Ask(r) == Asking(r, Reads(r), <<>>)
Put(f, w, s) == [f EXCEPT ![w] = @ \o s]

\* The requests a panel makes for the scopes that changed.
Wanted(w, scopes) ==
  LET list == Asked[Panel(w)]
      upTo[i \in 0 .. Len(list)] ==
        IF i = 0 THEN <<>>
        ELSE IF Scopes[Panel(w)][list[i]] \cap scopes # {}
             THEN Append(upTo[i - 1], Ask(list[i])) ELSE upTo[i - 1]
  IN upTo[Len(list)]

All(w) == [i \in DOMAIN Asked[Panel(w)] |-> Ask(Asked[Panel(w)][i])]

-----------------------------------------------------------------------------
(* The server. *)

\* A request that changes data is executed; its handler has yet to announce it.
Commit(k, reply) ==
  /\ changes < scene.most /\ changes' = changes + 1
  /\ version' = [t \in Tables |-> version[t] + (IF t \in Writes(k) THEN 1 ELSE 0)]
  /\ handlers' = Append(handlers, Announced(k) \o reply)

Heads == {w \in Windows : Panel(w) = "head"}
HeadsOwn == {"propose", "request_date"}

\* Somebody changes something.
Change(k) ==
  /\ k \in scene.kinds /\ (k \in HeadsOwn => Heads = {})
  /\ Commit(k, <<>>)
  /\ UNCHANGED <<scene, conn, asks, wire, dirty, view, warned, faults>>

Send(item) == [w \in Windows |-> IF Reaches(item, w) /\ conn[w] # "down"
                                 THEN Append(wire[w], item.message) ELSE wire[w]]

\* A handler goes on: its next broadcast reaches every bound session, or its reply is sent.
Announce(i) ==
  /\ handlers[i] # <<>>
  /\ wire' = Send(Head(handlers[i]))
  /\ handlers' = [handlers EXCEPT ![i] = Tail(@)]
  /\ UNCHANGED <<scene, version, changes, conn, asks, dirty, view, warned, faults>>

\* A handler that has not replied keeps its connection's next request waiting.
Busy(w) == \E i \in DOMAIN handlers : \E j \in DOMAIN handlers[i] :
             handlers[i][j].window = w

\* The request of a connection that is being handled.
Handled(w) == {i \in DOMAIN asks[w] : i = 1 /\ ~Busy(w)}

\* What was got so far, and these tables; a table read twice keeps the rows of the first read.
Filled(got, tables, data) ==
  [t \in DOMAIN got \cup tables |-> IF t \in DOMAIN got THEN got[t] ELSE data[t]]

\* A read: the next database call, and with the last one the reply.
Read(w, data) ==
  /\ \E i \in Handled(w) :
       LET a   == asks[w][i]
           got == Filled(a.got, Head(a.left), data)
       IN /\ a.left # <<>>
          /\ IF Len(a.left) > 1
             THEN /\ asks' = [asks EXCEPT ![w][i] = Asking(a.request, Tail(a.left), got)]
                  /\ UNCHANGED wire
             ELSE /\ asks' = [asks EXCEPT ![w] = RemoveAt(@, i)]
                  /\ wire' = Put(wire, w, <<[msg |-> "reply", request |-> a.request, data |-> got]>>)
  /\ UNCHANGED <<scene, version, changes, handlers, conn, dirty, view, warned, faults>>

\* A Head's proposal or date change request is stored; then it is announced and answered.
Store(w) ==
  /\ \E i \in Handled(w) :
       /\ asks[w][i].request \in HeadsOwn
       /\ Commit(asks[w][i].request, <<Reply(w, [msg |-> "synced"])>>)
       /\ asks' = [asks EXCEPT ![w] = RemoveAt(@, i)]
  /\ UNCHANGED <<scene, conn, wire, dirty, view, warned, faults>>

\* A read is answered with an error, or takes so long that its window gives it up.
Fail(w) ==
  /\ faults < scene.faults /\ faults' = faults + 1
  /\ \E i \in Handled(w) :
       /\ asks[w][i].left # <<>>
       /\ asks' = [asks EXCEPT ![w] = RemoveAt(@, i)]
       /\ wire' = Put(wire, w, <<[msg |-> "failed", request |-> asks[w][i].request]>>)
  /\ UNCHANGED <<scene, version, changes, handlers, conn, dirty, view, warned>>

-----------------------------------------------------------------------------
(* A window. *)

\* Mutant: replies overtake each other, too.
TakenAny(w) == DOMAIN wire[w]

\* What leaves the connection first.  A reply is shown one round of the event loop later
\* than an event or the outbox's reply, so that these may overtake replies received with
\* them.
Slow == {"reply", "failed", "resumed", "sent"}
Taken(w) == {i \in DOMAIN wire[w] :
               \/ i = 1
               \/ wire[w][i].msg \notin Slow /\ \A j \in 1..(i - 1) : wire[w][j].msg \in Slow}

\* The Admin's and the Super Admin's panels collect scopes, and the COO's collects logs.
Collected(panel, scopes) ==
  CASE panel \in Managers -> scopes
    [] panel = "coo" -> scopes \cap {"log"}
    [] OTHER -> {}

\* DATA_CHANGED or a log event: ignored while the window is offline.
TakeChanged(w, i) ==
  LET m    == wire[w][i]
      late == Collected(Panel(w), m.scopes)
  IN /\ m.msg = "changed"
     /\ dirty' = [dirty EXCEPT ![w] = @ \cup (IF conn[w] = "opening" THEN {} ELSE late)]
     /\ asks' = IF conn[w] = "up" THEN Put(asks, w, Wanted(w, m.scopes \ late)) ELSE asks
     /\ UNCHANGED <<conn, view, warned>>

\* A reply is shown.
TakeReply(w, i) ==
  LET m == wire[w][i]
      r == m.request
      next == Then(Panel(w), r)
  IN /\ m.msg = "reply"
     /\ view' = [view EXCEPT ![w][r] = [t \in Tables |-> IF t \in Live(r) THEN m.data[t] ELSE 0]]
     /\ warned' = [warned EXCEPT ![w] = @ \ {r}]
     /\ asks' = Put(asks, w, [j \in DOMAIN next |-> Ask(next[j])])
     /\ UNCHANGED <<conn, dirty>>

\* on_request_error: a toast says so, and the window keeps what it shows.
TakeFailed(w, i) ==
  /\ wire[w][i].msg = "failed"
  /\ warned' = [warned EXCEPT ![w] = @ \cup {wire[w][i].request}]
  /\ UNCHANGED <<conn, asks, dirty, view>>

\* The outbox got its confirmation: the Head's window asks for everything.
TakeSynced(w, i) ==
  /\ wire[w][i].msg = "synced"
  /\ asks' = Put(asks, w, All(w))
  /\ UNCHANGED <<conn, dirty, view, warned>>

\* Mutant: the COO's and the Head's windows do not load again after a reconnect.
ResumedQuietly(w, i) ==
  /\ wire[w][i].msg = "resumed"
  /\ conn' = [conn EXCEPT ![w] = "up"]
  /\ asks' = IF Panel(w) \in {"coo", "head"} THEN asks ELSE Put(asks, w, All(w))
  /\ UNCHANGED <<dirty, view, warned>>

\* The session is resumed: the window asks for everything.
TakeResumed(w, i) ==
  /\ wire[w][i].msg = "resumed"
  /\ conn' = [conn EXCEPT ![w] = "up"]
  /\ asks' = Put(asks, w, All(w))
  /\ UNCHANGED <<dirty, view, warned>>

\* Every message a connection carries but those about alerts.
Take(w, i) ==
  /\ i \in Taken(w)
  /\ \/ TakeChanged(w, i) \/ TakeReply(w, i) \/ TakeFailed(w, i)
     \/ TakeSynced(w, i) \/ TakeResumed(w, i)
  /\ wire' = [wire EXCEPT ![w] = RemoveAt(@, i)]
  /\ UNCHANGED <<scene, version, changes, handlers, faults>>

\* Mutant: the scopes are dropped when they should be asked for.
FiredEmpty(w) ==
  /\ dirty[w] # {}
  /\ dirty' = [dirty EXCEPT ![w] = {}]
  /\ asks' = IF conn[w] = "up" /\ asks[w] = <<>> THEN Put(asks, w, Wanted(w, dirty[w])) ELSE asks
  /\ UNCHANGED <<scene, version, changes, handlers, conn, wire, view, warned, faults>>

\* The debouncer's timer fires; offline, the scopes are forgotten.
Fire(w) ==
  /\ dirty[w] # {}
  /\ dirty' = [dirty EXCEPT ![w] = {}]
  /\ asks' = IF conn[w] = "up" THEN Put(asks, w, Wanted(w, dirty[w])) ELSE asks
  /\ UNCHANGED <<scene, version, changes, handlers, conn, wire, view, warned, faults>>

\* The outbox sends a Head's proposal or request.
Submit(w, k) ==
  /\ k \in HeadsOwn \cap scene.kinds /\ Panel(w) = "head" /\ conn[w] = "up"
  /\ changes < scene.most /\ \A i \in DOMAIN asks[w] : asks[w][i].request \notin HeadsOwn
  /\ asks' = Put(asks, w, <<Asking(k, <<>>, <<>>)>>)
  /\ UNCHANGED <<scene, version, changes, handlers, conn, wire, dirty, view, warned, faults>>

\* After the login the workspace is made: it starts to listen and asks for everything.
OpenWorkspace(w) ==
  /\ conn[w] = "opening"
  /\ conn' = [conn EXCEPT ![w] = "up"]
  /\ asks' = [asks EXCEPT ![w] = All(w)]
  /\ UNCHANGED <<scene, version, changes, handlers, wire, dirty, view, warned, faults>>

\* What the handlers still owe to the lost connection of w is sent to nobody.
Orphaned(w) == [i \in DOMAIN handlers |-> [j \in DOMAIN handlers[i] |->
  IF handlers[i][j].window = w THEN Reply(Nobody, handlers[i][j].message) ELSE handlers[i][j]]]

\* Mutant: the requests of the lost connection go on waiting.
DropPending(w) ==
  /\ conn[w] \in {"up", "resuming"}
  /\ faults < scene.faults /\ faults' = faults + 1
  /\ conn' = [conn EXCEPT ![w] = "down"]
  /\ wire' = [wire EXCEPT ![w] = <<>>]
  /\ handlers' = Orphaned(w)
  /\ UNCHANGED <<scene, version, changes, asks, dirty, view, warned>>

\* The connection is lost, with all that is on it; the requests fail.
Drop(w) ==
  /\ conn[w] \in {"up", "resuming"}
  /\ faults < scene.faults /\ faults' = faults + 1
  /\ conn' = [conn EXCEPT ![w] = "down"]
  /\ asks' = [asks EXCEPT ![w] = <<>>]
  /\ wire' = [wire EXCEPT ![w] = <<>>]
  /\ handlers' = Orphaned(w)
  /\ UNCHANGED <<scene, version, changes, dirty, view, warned>>

\* A new connection presents the session token; the server binds it and replies.
Resume(w) ==
  /\ conn[w] = "down" /\ Panel(w) # Nobody
  /\ conn' = [conn EXCEPT ![w] = "resuming"]
  /\ wire' = [wire EXCEPT ![w] = <<[msg |-> "resumed"]>>]
  /\ UNCHANGED <<scene, version, changes, handlers, asks, dirty, view, warned, faults>>

\* The program is closed, and its user logs in again.
Restart(w) ==
  /\ conn[w] = "up"
  /\ faults < scene.faults /\ faults' = faults + 1
  /\ conn' = [conn EXCEPT ![w] = "opening"]
  /\ asks' = [asks EXCEPT ![w] = <<>>]
  /\ wire' = [wire EXCEPT ![w] = <<>>]
  /\ dirty' = [dirty EXCEPT ![w] = {}]
  /\ view' = [view EXCEPT ![w] = Blank(Panel(w))]
  /\ warned' = [warned EXCEPT ![w] = {}]
  /\ handlers' = Orphaned(w)
  /\ UNCHANGED <<scene, version, changes>>

-----------------------------------------------------------------------------
\* A message that makes a window ask for r.
Tells(message, w, r) ==
  \/ message.msg = "synced" /\ r \in Range(Asked[Panel(w)])
  \/ /\ message.msg = "changed"
     /\ r \in DOMAIN Scopes[Panel(w)] /\ Scopes[Panel(w)][r] \cap message.scopes # {}

Current(data, tables) == \A t \in tables \cap DOMAIN data : data[t] = version[t]

\* Request r is on its way, or will be made, and what it reads of these tables is current.
Coming(w, r, tables) ==
  \/ conn[w] # "up"
  \/ \E i \in DOMAIN handlers : \E j \in DOMAIN handlers[i] :
       Reaches(handlers[i][j], w) /\ Tells(handlers[i][j].message, w, r)
  \/ \E i \in DOMAIN wire[w] :
       LET m == wire[w][i]
       IN \/ Tells(m, w, r)
          \/ m.msg = "failed" /\ m.request = r
          \/ m.msg = "reply" /\ m.request = r /\ Current(m.data, tables)
  \/ r \in DOMAIN Scopes[Panel(w)] /\ Scopes[Panel(w)][r] \cap dirty[w] # {}
  \/ \E i \in DOMAIN asks[w] : asks[w][i].request = r /\ Current(asks[w][i].got, tables)

\* The requests whose replies make a window ask for r.
Before(w, r) == {q \in DOMAIN view[w] : r \in Range(Then(Panel(w), q))}

\* What nobody tells a PC of a Head: the requests that he made on another PC.
MadeElsewhere(w) == IF Panel(w) = "head" /\ Heads # {w} THEN {"proposals", "date_changes"} ELSE {}

\* No announced change is lost: what an open window shows is the server's current data,
\* or a reload of it is on its way, or its user was told that a reload failed.
StaleIsOnItsWay ==
  \A w \in Windows : \A r \in DOMAIN view[w] \ MadeElsewhere(w) :
    \/ Current(view[w][r], Live(r))
    \/ Coming(w, r, Live(r)) \/ \E q \in Before(w, r) : Coming(w, q, {})
    \/ warned[w] \cap ({r} \cup Before(w, r)) # {}

\* A window never goes back to older data, whatever reloads cross on the way; only a
\* program that was started again begins with nothing.
NeverBackwards ==
  [][\A w \in Windows : conn'[w] # "opening" /\ view'[w] # view[w] =>
       \A r \in DOMAIN view[w] : \A t \in Live(r) : view'[w][r][t] >= view[w][r][t]]_viewVars
=============================================================================
