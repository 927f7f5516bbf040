------------------------------- MODULE MCDesk -------------------------------
(***************************************************************************)
(* Instances of Alerts and LiveViews for TLC: each panel with changes to   *)
(* what it shows, and the COO with a Head on one or two PCs.               *)
(***************************************************************************)
EXTENDS Alerts

CONSTANTS w1, w2, w3

Scene(panels, kinds, most, loaded, alerts, faulty) ==
  [panel |-> [w \in Windows |-> CASE w = w1 -> panels[1] [] w = w2 -> panels[2] [] OTHER -> panels[3]],
   kinds |-> kinds, most |-> most, loaded |-> loaded, alerts |-> alerts, faults |-> faulty]

\* One panel that shows everything, or whose window is just opening, and a few changes.
Alone(panel, kinds, most) == Scene(<<panel, Nobody, Nobody>>, kinds, most, TRUE, FALSE, 1)
Opening(panel, kinds, most) == Scene(<<panel, Nobody, Nobody>>, kinds, most, FALSE, FALSE, 1)

Some ==
  {Alone("admin", {"log", "task"}, 2), Alone("admin", {"create_user"}, 2),
   Alone("admin", {"discipline", "propose", "change_project", "request_date"}, 1),
   Opening("admin", {"update_user"}, 1),
   Opening("super", {"settings", "update_user", "discipline"}, 2),
   Alone("coo", {"log", "update_user", "add_project"}, 2), Opening("coo", {"create_user"}, 2),
   Opening("head", {"first_log", "propose"}, 1), Alone("head", {"approve_proposal", "add_project"}, 1),
   Alone("head", {"approve_date"}, 1), Alone("head", {"request_date", "reject_date", "reject_proposal"}, 2),
   Scene(<<"head", "head", Nobody>>, {"propose", "task"}, 1, TRUE, FALSE, 0),
   Scene(<<"coo", "head", Nobody>>, {"task"}, 1, TRUE, TRUE, 1),
   Scene(<<"coo", "head", Nobody>>, {}, 0, TRUE, TRUE, 2),
   Scene(<<"coo", "head", "head">>, {}, 0, TRUE, TRUE, 1)}

\* A COO and a Head, one change that makes the Head's window reload, and no fault at all.
AlertsOnly == {Scene(<<"coo", "head", Nobody>>, {"task"}, 1, TRUE, TRUE, 0)}
=============================================================================
