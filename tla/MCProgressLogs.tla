--------------------------- MODULE MCProgressLogs ---------------------------
(***************************************************************************)
(* Instances of ProgressLogs and Reports for TLC.                          *)
(***************************************************************************)
EXTENDS Reports, TLC

\* log_ids are opaque, and the two Heads and two disciplines interchangeable.
Symmetry == Permutations(LogIds) \cup Permutations(Heads) \cup Permutations(Disciplines)

\* The bound of the run.  With two tasks, a first entry and two revisions, or an
\* entry of each, all is of one discipline and one date; with one task and two logs,
\* either the disciplines of accounts and task differ and change, or the dates do.
OneDiscipline ==
  \E d \in Disciplines : /\ \A h \in Heads : discipline[h] = d /\ session[h] = d
                        /\ \A n \in DOMAIN task : task[n].discipline = d
OneDate == \A n \in DOMAIN task : task[n].start = 1 /\ task[n].end = 1
OneTask == Cardinality(DOMAIN task) <= 1 /\ Len(logs) <= 2
Slice == (OneDate \/ OneTask) /\ (OneDiscipline \/ OneTask) /\ (OneDate \/ OneDiscipline)

SlicedSpec == LogsInit /\ [][LogsNext /\ Slice']_logVars
=============================================================================
