------------------------------- MODULE Alerts -------------------------------
(***************************************************************************)
(* COO priority alerts, on top of the windows and connections of LiveViews.*)
(*                                                                         *)
(* An alert reaches its Head twice: pushed to the PCs where he is logged   *)
(* in, and in every snapshot as long as it is pending.  A PC shows it in a *)
(* dialog that only an answer closes, and puts the answer in its outbox,   *)
(* which sends it until the server confirms or refuses it (module Outbox   *)
(* has the outbox itself).  The COO's panel tracks the answers: from the   *)
(* reply to its alert, from the answers the server broadcasts, and from    *)
(* the notifications it loads.                                             *)
(*                                                                         *)
(* All alerts are to one Head; the Heads' windows are PCs he uses.  The    *)
(* handlers of COO_NOTIFY and RESPOND_NOTIFICATION make one database call, *)
(* and send at once when it is done.                                       *)
(***************************************************************************)
EXTENDS LiveViews

CONSTANT Alerts

VARIABLES
  alert,      \* status of the rows of priority_notifications
  open,       \* the alerts each PC shows in a dialog
  box,        \* the answers in its outbox
  tracker,    \* the rows a COO's panel shows
  said,       \* history: the answers last given on each PC
  overtaken   \* history: the alerts whose answer each window heard of before a message
              \* that has them as pending and had left the server earlier

alertVars == <<alert, open, box, tracker, said, overtaken>>
alertsVars == <<viewVars, alertVars>>

Answers == {"ACCEPTED", "DENIED"}
Statuses == {"PENDING"} \cup Answers
None == "none"   \* no such alert, no row, no answer

AlertsInit ==
  /\ ViewsInit
  /\ alert = [n \in Alerts |-> None]
  /\ open = [w \in Windows |-> {}]
  /\ box = [w \in Windows |-> [n \in Alerts |-> None]]
  /\ tracker = [w \in Windows |-> [n \in Alerts |-> None]]
  /\ said = [w \in Windows |-> [n \in Alerts |-> None]]
  /\ overtaken = [w \in Windows |-> {}]

Coos == {w \in Windows : Panel(w) = "coo"}

\* Sent at once to the sessions of the windows ws, and a reply to w, which is none of them.
SentTo(ws, message, w, reply) ==
  [v \in Windows |-> IF conn[v] = "down" THEN wire[v]
                     ELSE IF v = w THEN Append(wire[v], reply)
                     ELSE IF v \in ws THEN Append(wire[v], message) ELSE wire[v]]

-----------------------------------------------------------------------------
(* Requests. *)

\* The COO sends an alert.
Notify(w, n) ==
  /\ scene.alerts /\ w \in Coos /\ conn[w] = "up" /\ alert[n] = None
  /\ \A v \in Coos : \A i \in DOMAIN asks[v] : asks[v][i].request # "notify"
  /\ asks' = Put(asks, w, <<[request |-> "notify", left |-> <<>>, got |-> <<>>, alert |-> n]>>)
  /\ UNCHANGED <<scene, version, changes, handlers, conn, wire, dirty, view, warned, faults>>
  /\ UNCHANGED alertVars

\* COO_NOTIFY: the row is stored, pushed to the Head's PCs, and the COO gets the reply.
Create(w) ==
  /\ \E i \in Handled(w) :
       LET n == asks[w][i].alert
       IN /\ asks[w][i].request = "notify"
          /\ alert' = [alert EXCEPT ![n] = "PENDING"]
          /\ wire' = SentTo(Heads, [msg |-> "alert", alert |-> n], w, [msg |-> "sent", alert |-> n])
          /\ asks' = [asks EXCEPT ![w] = RemoveAt(@, i)]
  /\ UNCHANGED <<scene, version, changes, handlers, conn, dirty, view, warned, faults>>
  /\ UNCHANGED <<open, box, tracker, said, overtaken>>

OnTheWay(w) ==
  \/ \E i \in DOMAIN asks[w] : asks[w][i].request = "respond"
  \/ \E i \in DOMAIN wire[w] : wire[w][i].msg = "ack"

\* The flush sends an answer of the outbox; one at a time.
SendAnswer(w, n) ==
  /\ conn[w] = "up" /\ box[w][n] \in Answers /\ ~OnTheWay(w)
  /\ asks' = Put(asks, w, <<[request |-> "respond", left |-> <<>>, got |-> <<>>, alert |-> n]>>)
  /\ UNCHANGED <<scene, version, changes, handlers, conn, wire, dirty, view, warned, faults>>
  /\ UNCHANGED alertVars

\* Mutant: the last answer is stored.
AcceptsAny(n, status) == alert[n] # None

\* respond_priority_notification: the first answer is stored, and the same one again is right.
Accepts(n, status) == alert[n] \in {"PENDING", status}

\* RESPOND_NOTIFICATION: the answer is stored and broadcast, or refused.
Respond(w) ==
  /\ \E i \in Handled(w) :
       LET n      == asks[w][i].alert
           status == box[w][n]
           ack(ok) == [msg |-> "ack", alert |-> n, ok |-> ok]
           event   == [msg |-> "answered", alert |-> n, status |-> status]
       IN /\ asks[w][i].request = "respond"
          /\ IF Accepts(n, status)
             THEN /\ alert' = [alert EXCEPT ![n] = status]
                  /\ wire' = SentTo(Coos, event, w, ack(TRUE))
             ELSE /\ wire' = SentTo({}, event, w, ack(FALSE))
                  /\ UNCHANGED alert
          /\ asks' = [asks EXCEPT ![w] = RemoveAt(@, i)]
  /\ UNCHANGED <<scene, version, changes, handlers, conn, dirty, view, warned, faults>>
  /\ UNCHANGED <<open, box, tracker, said, overtaken>>

-----------------------------------------------------------------------------
(* The windows. *)

\* Mutant: an alert whose answer waits in the outbox is shown again.
AskedAgain(w, n) == n \notin open[w]

\* on_priority_alert: neither open, nor answered by an item of the outbox, a rejected one included.
ToShow(w, n) == n \notin open[w] /\ box[w][n] = None

PendingIn(statuses) == {n \in Alerts : statuses[n] = "PENDING"}

\* A message that makes its window show the alert as pending.
ShowsPending(m, n) ==
  \/ /\ m.msg = "reply" /\ m.request \in {"snapshot", "alerts"}
     /\ m.data["alerts"][n] = "PENDING"
  \/ m.msg = "sent" /\ m.alert = n

\* The confirmation or the event of an answer, the i-th message, may overtake such messages.
Overtaking(w, i) ==
  LET n == wire[w][i].alert
  IN IF \E j \in 1..(i - 1) : ShowsPending(wire[w][j], n)
     THEN [overtaken EXCEPT ![w] = @ \cup {n}] ELSE overtaken

\* A reply is shown: the snapshot's pending alerts are, the tracker is filled anew.  Overtaken
\* are then the alerts that one of the overtaken messages shows now, or will show.
Shows(w, m) ==
  /\ open' = IF m.msg = "reply" /\ m.request = "snapshot"
             THEN [open EXCEPT ![w] = @ \cup {n \in PendingIn(m.data["alerts"]) : ToShow(w, n)}]
             ELSE open
  /\ tracker' = IF m.msg = "reply" /\ m.request = "alerts"
                THEN [tracker EXCEPT ![w] = m.data["alerts"]] ELSE tracker
  /\ overtaken' = IF m.msg = "reply" /\ m.request \in {"snapshot", "alerts"}
                  THEN [overtaken EXCEPT ![w] =
                          {n \in @ : \/ n \in open'[w] \/ tracker'[w][n] = "PENDING"
                                    \/ \E j \in DOMAIN wire'[w] : ShowsPending(wire'[w][j], n)}]
                  ELSE overtaken
  /\ UNCHANGED <<alert, box, said>>

\* The pushed alert is shown, also while the session is being resumed.
TakeAlert(w, i) ==
  /\ wire[w][i].msg = "alert"
  /\ open' = IF conn[w] # "opening" /\ ToShow(w, wire[w][i].alert)
             THEN [open EXCEPT ![w] = @ \cup {wire[w][i].alert}] ELSE open
  /\ UNCHANGED <<asks, box, tracker, overtaken>>

\* An answer updates the row, or adds it.
TakeAnswered(w, i) ==
  /\ wire[w][i].msg = "answered"
  /\ tracker' = IF conn[w] # "opening"
                THEN [tracker EXCEPT ![w][wire[w][i].alert] = wire[w][i].status] ELSE tracker
  /\ overtaken' = Overtaking(w, i)
  /\ UNCHANGED <<asks, open, box>>

TakeSent(w, i) ==
  /\ wire[w][i].msg = "sent"
  /\ tracker' = [tracker EXCEPT ![w][wire[w][i].alert] = "PENDING"]
  /\ UNCHANGED <<asks, open, box, overtaken>>

\* Confirmed, the answer leaves the outbox; refused, it stays as rejected and the window reloads.
TakeAck(w, i) ==
  /\ wire[w][i].msg = "ack"
  /\ box' = [box EXCEPT ![w][wire[w][i].alert] = IF wire[w][i].ok THEN None ELSE "FAILED"]
  /\ asks' = IF wire[w][i].ok THEN asks ELSE Put(asks, w, All(w))
  /\ overtaken' = Overtaking(w, i)
  /\ UNCHANGED <<open, tracker>>

\* Messages about alerts.  The reply to COO_NOTIFY is slow as every reply to a window is.
TakeAboutAlert(w, i) ==
  /\ i \in Taken(w)
  /\ TakeAlert(w, i) \/ TakeAnswered(w, i) \/ TakeSent(w, i) \/ TakeAck(w, i)
  /\ wire' = [wire EXCEPT ![w] = RemoveAt(@, i)]
  /\ UNCHANGED <<scene, version, changes, handlers, conn, dirty, view, warned, faults>>
  /\ UNCHANGED <<alert, said>>

\* The Head accepts or denies: the dialog closes and the answer is queued.
Answer(w, n, status) ==
  /\ n \in open[w]
  /\ open' = [open EXCEPT ![w] = @ \ {n}]
  /\ box' = [box EXCEPT ![w][n] = status]
  /\ said' = [said EXCEPT ![w][n] = status]
  /\ overtaken' = [overtaken EXCEPT ![w] = @ \ {n}]
  /\ UNCHANGED viewVars /\ UNCHANGED <<alert, tracker>>

\* Closing the program closes its dialogs; the outbox is on disk.
Reopened(w) ==
  /\ Restart(w)
  /\ open' = [open EXCEPT ![w] = {}]
  /\ tracker' = [tracker EXCEPT ![w] = [n \in Alerts |-> None]]
  /\ overtaken' = [overtaken EXCEPT ![w] = {}]
  /\ UNCHANGED <<alert, box, said>>

\* One database call reads versions, and the alerts.
Data == [t \in Tables \cup {"alerts"} |-> IF t = "alerts" THEN alert ELSE version[t]]

-----------------------------------------------------------------------------
Server ==
  \/ \E k \in Kinds : Change(k) /\ UNCHANGED alertVars
  \/ \E i \in DOMAIN handlers : Announce(i) /\ UNCHANGED alertVars
  \/ \E w \in Windows : \/ Read(w, Data) /\ UNCHANGED alertVars
                        \/ Store(w) /\ UNCHANGED alertVars
                        \/ Create(w) \/ Respond(w)

Window(w) ==
  \/ \E i \in DOMAIN wire[w] : Take(w, i) /\ Shows(w, wire[w][i])
  \/ \E i \in DOMAIN wire[w] : TakeAboutAlert(w, i)
  \/ Fire(w) /\ UNCHANGED alertVars
  \/ \E k \in Kinds : Submit(w, k) /\ UNCHANGED alertVars
  \/ OpenWorkspace(w) /\ UNCHANGED alertVars
  \/ \E n \in Alerts : Notify(w, n) \/ SendAnswer(w, n) \/ \E s \in Answers : Answer(w, n, s)

Faults(w) ==
  \/ Drop(w) /\ UNCHANGED alertVars
  \/ Resume(w) /\ UNCHANGED alertVars
  \/ Fail(w) /\ UNCHANGED alertVars
  \/ Reopened(w)

AlertsNext == Server \/ \E w \in Windows : Window(w) \/ Faults(w)

AlertsSpec == AlertsInit /\ [][AlertsNext]_alertsVars

-----------------------------------------------------------------------------
\* Versions, statuses, connections and what the windows hold have their types.
AlertsTypeOK ==
  /\ version \in [Tables -> 0..scene.most]
  /\ changes \in 0..scene.most /\ faults \in 0..scene.faults
  /\ conn \in [Windows -> {"down", "opening", "resuming", "up"}]
  /\ alert \in [Alerts -> Statuses \cup {None}]
  /\ open \in [Windows -> SUBSET Alerts]
  /\ box \in [Windows -> [Alerts -> Answers \cup {None, "FAILED"}]]
  /\ tracker \in [Windows -> [Alerts -> Statuses \cup {None}]]
  /\ said \in [Windows -> [Alerts -> Answers \cup {None}]]
  /\ \A w \in Windows : conn[w] = "down" => wire[w] = <<>> /\ asks[w] = <<>>

\* No pending alert is missed, neither by a PC that is just logging in, nor by one that
\* lost its connection when the alert was pushed: an open window of the Head shows it or has
\* an answer, or the push or a snapshot that has it is on its way, or a reload failed.
PendingShown ==
  \A w \in Heads, n \in PendingIn(alert) :
    \/ conn[w] # "up" \/ n \in open[w] \/ box[w][n] # None
    \/ "snapshot" \in warned[w]
    \/ \E i \in DOMAIN wire[w] :
         \/ wire[w][i].msg = "alert" /\ wire[w][i].alert = n
         \/ /\ wire[w][i].msg = "reply" /\ wire[w][i].request = "snapshot"
            /\ wire[w][i].data["alerts"][n] = "PENDING"
         \/ wire[w][i].msg = "failed" /\ wire[w][i].request = "snapshot"
    \/ \E i \in DOMAIN asks[w] :
         asks[w][i].request = "snapshot" /\ "alerts" \notin DOMAIN asks[w][i].got

\* An answer that left a PC's outbox as confirmed is the one that stands, whatever is
\* answered on the Head's other PCs; one that does not stand is among the rejected items.
ConfirmedStands ==
  \A w \in Windows, n \in Alerts :
    said[w][n] # None => said[w][n] = alert[n] \/ n \in open[w] \/ box[w][n] # None

\* "A COO alert opens one modal, even across refreshes and reconnects": an alert that was
\* answered on a PC is not asked there again.
OneModal == \A w \in Windows, n \in Alerts : n \in open[w] => said[w][n] = None

\* The only way round it: the confirmation of the answer was handled before a snapshot that
\* had left the server before the answer was stored, and that snapshot opened the dialog.
AskedOnce ==
  \A w \in Windows, n \in Alerts : n \in open[w] /\ said[w][n] # None => n \in overtaken[w]

\* What a COO's panel shows of an alert is the server's status, or the answer or a reload is
\* on its way, or a reload failed.
RowFollows(w, n) ==
  \/ tracker[w][n] = None \/ tracker[w][n] = alert[n]
  \/ conn[w] # "up" \/ "alerts" \in warned[w]
  \/ \E i \in DOMAIN wire[w] : wire[w][i].msg = "answered" /\ wire[w][i].alert = n
  \/ Coming(w, "alerts", {})

\* "The COO's response tracker ... updates rows in place": no row falls behind for good.
RowsFollow == \A w \in Coos, n \in Alerts : RowFollows(w, n)

\* The only row that stays behind is one that the answer's event updated before a reply with
\* the alert as pending was shown, which had left the server earlier.
TrackerFollows == \A w \in Coos, n \in Alerts : RowFollows(w, n) \/ n \in overtaken[w]
=============================================================================
