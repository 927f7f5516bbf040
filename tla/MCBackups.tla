----------------------------- MODULE MCBackups ------------------------------
(***************************************************************************)
(* Instances of Backups for TLC: two days, and databases of the first      *)
(* release, of one whose log times were still UTC although it had soft     *)
(* deletion, and of one that lacks the last step only.                     *)
(***************************************************************************)
EXTENDS Backups

OldDatabases == {c \in Earlier : \/ c.version = 0 /\ ~c.superAdmin
                                 \/ c.version \in {2, 5} /\ c.superAdmin}
=============================================================================
