----------------------------- MODULE Migrations -----------------------------
(***************************************************************************)
(* What the central database holds, and the start-up steps that bring any  *)
(* database of an earlier release, or none, to the present schema.         *)
(*                                                                         *)
(* The tables of the baseline are made without a version; each migration   *)
(* is one transaction.  Of the data a content keeps what a migration can   *)
(* lose or do twice: the clock its log times are in, whether it has a      *)
(* Super Admin, and a number that tells one state of the data from         *)
(* another.                                                                *)
(***************************************************************************)
EXTENDS Naturals, Sequences

CONSTANTS MaxData   \* bound: changes of the data

SCHEMA_VERSION == 6

\* What each step adds; log times are converted from UTC to the local clock.
Parts == {"soft_delete", "settings", "password_plain", "approved_task_name"}

\* "mixed" and "shifted" are what a conversion that ran too late or twice would leave.
Clocks == {"none", "utc", "local", "mixed", "shifted"}

Content == [version: 0..SCHEMA_VERSION, has: SUBSET Parts, logs: Clocks,
            superAdmin: BOOLEAN, data: 0..MaxData]

Baseline == [version |-> 0, has |-> {}, logs |-> "none", superAdmin |-> FALSE, data |-> 0]

\* The databases earlier releases left.
Earlier ==
  {[version |-> v,
    has |-> {p \in Parts : \/ p = "soft_delete" /\ v >= 2
                           \/ p = "settings" /\ v >= 4
                           \/ p = "password_plain" /\ v >= 5
                           \/ p = "approved_task_name" /\ v = 6},
    logs |-> IF v >= 3 THEN "local" ELSE "utc", superAdmin |-> s, data |-> 0] :
   v \in {0, 2, 3, 4, 5, 6}, s \in BOOLEAN}

\* Mutant: the settings table's transaction writes its version at once.
StepsVersionedEarly ==
  << [before |-> 2, part |-> "soft_delete",        sets |-> 2],
     [before |-> 4, part |-> "settings",           sets |-> 4],
     [before |-> 3, part |-> "local_time",         sets |-> 4],
     [before |-> 5, part |-> "password_plain",     sets |-> 5],
     [before |-> 6, part |-> "approved_task_name", sets |-> 6] >>

\* Mutant: the conversion of the log times leaves the version to the next step.
StepsVersionedLate ==
  << [before |-> 2, part |-> "soft_delete",        sets |-> 2],
     [before |-> 4, part |-> "settings",           sets |-> 0],
     [before |-> 3, part |-> "local_time",         sets |-> 0],
     [before |-> 4, part |-> "none",               sets |-> 4],
     [before |-> 5, part |-> "password_plain",     sets |-> 5],
     [before |-> 6, part |-> "approved_task_name", sets |-> 6] >>

\* The steps of _migrate in their order: the versions that need them are those below
\* `before`, the transaction adds `part` and leaves version `sets` (0: the one it finds).
Steps ==
  << [before |-> 2, part |-> "soft_delete",        sets |-> 2],
     [before |-> 4, part |-> "settings",           sets |-> 0],
     [before |-> 3, part |-> "local_time",         sets |-> 3],
     [before |-> 4, part |-> "none",               sets |-> 4],
     [before |-> 5, part |-> "password_plain",     sets |-> 5],
     [before |-> 6, part |-> "approved_task_name", sets |-> 6] >>

\* Every stored time is shifted, whatever clock it was written in.
Converted(clock) == CASE clock = "none" -> "none"
                      [] clock = "utc"  -> "local"
                      [] OTHER          -> "shifted"

\* One transaction.
Migrated(c, i) ==
  [c EXCEPT !.has = @ \cup (Parts \cap {Steps[i].part}),
            !.logs = IF Steps[i].part = "local_time" THEN Converted(@) ELSE @,
            !.version = IF Steps[i].sets = 0 THEN @ ELSE Steps[i].sets]

\* A Super Admin is made when there is none.
Bootstrapped(c) == [c EXCEPT !.superAdmin = TRUE]

\* Work on the running server; log times are written in the local clock.
Worked(c) == [c EXCEPT !.data = @ + 1,
                       !.logs = CASE @ = "none" -> "local" [] @ = "utc" -> "mixed" [] OTHER -> @]

\* What the rest of the server relies on.
Current(c) == /\ c.version = SCHEMA_VERSION /\ c.has = Parts
              /\ c.logs \in {"none", "local"} /\ c.superAdmin
=============================================================================
