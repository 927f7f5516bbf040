------------------------------ MODULE Backups -------------------------------
(***************************************************************************)
(* The life of the central database on the server PC: the server starts,   *)
(* migrates, runs, backs up on its schedule and is stopped or crashes at   *)
(* any point; an operator restores a backup or resets the Super Admin      *)
(* while it is down.                                                       *)
(*                                                                         *)
(* The clock shows ticks, a few to the day.  The daily backup time is a    *)
(* setting that the Super Admin changes while the server runs, and a       *)
(* restored database brings its own: it is any time at every reading.  The *)
(* scheduler sleeps five minutes at most, so it looks at every tick and    *)
(* may look again at the same one.  A backup runs on the one database      *)
(* worker, so nothing is written meanwhile.  A copy is partial until the   *)
(* backup call returns from the copying; partial copies fail the integrity *)
(* check.  Names of copies are the times they were begun, which sort like  *)
(* (at, n).  The clock is not set back.                                    *)
(***************************************************************************)
EXTENDS Migrations, Integers, FiniteSets

CONSTANTS
  TicksPerDay, \* how finely a day is divided
  Found,       \* contents the first start may find, earlier releases'
  MaxNow,      \* bound: ticks of the clock
  MaxCopies,   \* bound: automatic backups begun
  MaxKeep,     \* largest number of copies to keep that is tried
  MaxRestores  \* bound: restores begun

VARIABLES
  now,      \* the server PC's clock
  db,       \* central_app.db
  files,    \* automatic copies in the backups folder
  safety,   \* contents saved as central_app_pre_restore_*.db, which are never pruned
  proc,     \* the process that has the database open, and where it is
  sched,    \* BackupScheduler.run
  copies,   \* automatic backups begun
  restores, \* restores begun
  began,    \* history: when a backup was begun, and for which slot
  replaced, \* history: contents a restore has overwritten
  made      \* history: a complete copy was made

ASSUME BackupsConstants ==
  /\ TicksPerDay \in Nat \ {0} /\ MaxKeep \in Nat \ {0} /\ Found \subseteq Earlier
  /\ MaxData \in Nat /\ MaxNow \in Nat /\ MaxCopies \in Nat /\ MaxRestores \in Nat

vars == <<now, db, files, safety, proc, sched, copies, restores, began, replaced, made>>
disk == <<db, files, safety>>

Day(t) == t \div TicksPerDay
NoDay == -1
DaysOfClock == {Day(t) : t \in 0..MaxNow} \cup {NoDay}

\* The setting backup_time, as a tick of the day; the start-up copy is for no slot.
Times == 0 .. TicksPerDay - 1
NoSlot == TicksPerDay
AfterSlot(t, slot) == t % TicksPerDay >= slot

File == [at: 0..MaxNow, n: 0..MaxCopies, whole: BOOLEAN, content: Content]

\* The file of the database: none, empty (truncated, not yet copied to), damaged, or whole.
Database == [state: {"absent", "empty", "partial", "whole"}, content: Content]
Holds(state, c) == [state |-> state, content |-> c]

ProcRow == [at: {"off", "tables", "migrate", "bootstrap", "reset", "up", "save", "replace", "failed"},
            reset: BOOLEAN, from: 0..SCHEMA_VERSION, step: 1..Len(Steps) + 1, chosen: Content]
Off == [at |-> "off", reset |-> FALSE, from |-> 0, step |-> 1, chosen |-> Baseline]

SchedRow == [at: {"off", "begin", "first", "start", "loop", "daily", "asleep"},
             doneFor: DaysOfClock,        \* done_for
             late: DaysOfClock,           \* its first value: the server was started after that day's slot
             read: 0..MaxNow, slot: Times \cup {NoSlot}] \* now and slot of the last round
NotRunning == [at |-> "off", doneFor |-> NoDay, late |-> NoDay, read |-> 0, slot |-> NoSlot]

BackupsInit ==
  /\ now = 0
  /\ db \in {Holds("absent", Baseline)} \cup {Holds("whole", c) : c \in Found}
  /\ files = {} /\ safety = {}
  /\ proc = Off /\ sched = NotRunning
  /\ copies = 0 /\ restores = 0
  /\ began = {} /\ replaced = {} /\ made = FALSE

-----------------------------------------------------------------------------
(* Start: init_db, _migrate, the seeds and the bootstrap, for the server or for *)
(* --reset-superadmin.  A damaged file stops it.                                *)

Starting == UNCHANGED <<now, files, safety, copies, restores, began, replaced, made>>

Start(reset) ==
  /\ proc.at = "off" /\ db.state # "partial"
  /\ proc' = [Off EXCEPT !.at = "tables", !.reset = reset]
  /\ UNCHANGED <<db, sched>> /\ Starting

\* The tables are made if they are missing; the version is read once.
Tables ==
  /\ proc.at = "tables"
  /\ db' = IF db.state = "whole" THEN db ELSE Holds("whole", Baseline)
  /\ proc' = [proc EXCEPT !.at = "migrate", !.from = db'.content.version]
  /\ UNCHANGED sched /\ Starting

Migrate ==
  /\ proc.at = "migrate" /\ proc.step <= Len(Steps)
  /\ db' = IF proc.from < Steps[proc.step].before
           THEN Holds("whole", Migrated(db.content, proc.step)) ELSE db
  /\ proc' = [proc EXCEPT !.step = @ + 1]
  /\ UNCHANGED sched /\ Starting

Bootstrap ==
  /\ proc.at = "migrate" /\ proc.step > Len(Steps)
  /\ db' = Holds("whole", Bootstrapped(db.content))
  /\ proc' = [proc EXCEPT !.at = IF proc.reset THEN "reset" ELSE "bootstrap"]
  /\ UNCHANGED sched /\ Starting

\* emergency_reset_superadmin, and the process ends.
ResetSuperAdmin ==
  /\ proc.at = "reset"
  /\ db' = Holds("whole", Bootstrapped(db.content))
  /\ proc' = Off
  /\ UNCHANGED sched /\ Starting

\* The one-time password is shown, the port is opened and the scheduler begins.
Listen ==
  /\ proc.at = "bootstrap"
  /\ proc' = [proc EXCEPT !.at = "up"]
  /\ sched' = [NotRunning EXCEPT !.at = "begin"]
  /\ UNCHANGED db /\ Starting

-----------------------------------------------------------------------------
(* BackupScheduler.run and backup_database. *)

Same == UNCHANGED <<now, db, safety, proc, restores, replaced>>
Copying == sched.at \in {"first", "daily"}
Running == CHOOSE f \in files : f.n = copies   \* the copy being made

BackupBegin(at, slot) ==
  /\ copies < MaxCopies
  /\ copies' = copies + 1
  /\ files' = files \cup {[at |-> now, n |-> copies + 1, whole |-> FALSE, content |-> db.content]}
  /\ began' = began \cup {[at |-> now, slot |-> slot]}
  /\ sched' = [sched EXCEPT !.at = at, !.read = now, !.slot = slot]
  /\ UNCHANGED made /\ Same

MadeToday == \E f \in files : Day(f.at) = Day(now)

FirstBackup == sched.at = "begin" /\ ~MadeToday /\ BackupBegin("first", NoSlot)

CopiedToday ==
  /\ sched.at = "begin" /\ MadeToday
  /\ sched' = [sched EXCEPT !.at = "start"]
  /\ UNCHANGED <<files, copies, began, made>> /\ Same

\* A server started after today's backup time waits for tomorrow's.
Started ==
  /\ sched.at = "start"
  /\ \E slot \in Times, day \in {Day(now), NoDay} :
       /\ (day = Day(now)) = AfterSlot(now, slot)
       /\ sched' = [sched EXCEPT !.at = "loop", !.doneFor = day, !.late = day]
  /\ UNCHANGED <<files, copies, began, made>> /\ Same

\* A round of the loop, the first or the next after five minutes at most: the setting it
\* reads says whether a backup is due.
Round == sched.at \in {"loop", "asleep"}
Due(slot) == AfterSlot(now, slot) /\ sched.doneFor # Day(now)

DailyBackup ==
  \E slot \in Times : Round /\ Due(slot) /\ BackupBegin("daily", slot)

Sleep ==
  /\ Round
  /\ \E slot \in Times :
       ~Due(slot) /\ sched' = [sched EXCEPT !.at = "asleep", !.read = now, !.slot = slot]
  /\ UNCHANGED <<files, copies, began, made>> /\ Same

\* Mutant: the day is read again after the backup.
ReturnedOn(day) ==
  sched' = IF sched.at = "first" THEN [sched EXCEPT !.at = "start"]
           ELSE [sched EXCEPT !.at = "asleep", !.doneFor = Day(now), !.read = now]

\* The backup call returns to the scheduler, whether it succeeded or not.
Returned(day) ==
  sched' = IF sched.at = "first" THEN [sched EXCEPT !.at = "start"]
           ELSE [sched EXCEPT !.at = "asleep", !.doneFor = day]

Older(f, g) == f.at < g.at \/ (f.at = g.at /\ f.n < g.n)

\* All but the last `keep` names.
Excess(all, keep) == {f \in all : Cardinality({g \in all : Older(f, g)}) >= keep}

\* Mutant: the copies to keep are counted before the new one is known to be good.
BackupFailedPruning ==
  /\ Copying
  /\ \E keep \in 1..MaxKeep : files' = files \ Excess(files, keep)
  /\ Returned(Day(sched.read))
  /\ UNCHANGED <<copies, began, made>> /\ Same

\* The copy is whole and was checked; older ones that can be removed are.
BackupDone ==
  /\ Copying
  /\ LET all == (files \ {Running}) \cup {[Running EXCEPT !.whole = TRUE]}
     IN \E keep \in 1..MaxKeep : \E gone \in SUBSET Excess(all, keep) : files' = all \ gone
  /\ made' = TRUE
  /\ Returned(Day(sched.read))
  /\ UNCHANGED <<copies, began>> /\ Same

\* No copy, a damaged one that is removed, or an exception that leaves it.
BackupFailed ==
  /\ Copying
  /\ files' \in {files, files \ {Running}}
  /\ Returned(Day(sched.read))
  /\ UNCHANGED <<copies, began, made>> /\ Same

Work ==
  /\ proc.at = "up" /\ ~Copying /\ db.content.data < MaxData
  /\ db' = Holds("whole", Worked(db.content))
  /\ UNCHANGED <<now, files, safety, proc, sched, copies, restores, began, replaced, made>>

-----------------------------------------------------------------------------
(* --restore, while no server runs. *)

Restoring == UNCHANGED <<now, files, sched, copies, began, made>>

\* Mutant: whether a server runs is not looked at.
RestoreBeginAnytime ==
  /\ restores < MaxRestores
  /\ \E c \in safety \cup {f.content : f \in {g \in files : g.whole}} :
       proc' = [Off EXCEPT !.at = "save", !.chosen = c]
  /\ restores' = restores + 1
  /\ UNCHANGED <<db, safety, replaced>> /\ Restoring

\* Any copy that passes the integrity check.
RestoreBegin ==
  /\ proc.at = "off" /\ restores < MaxRestores
  /\ \E c \in safety \cup {f.content : f \in {g \in files : g.whole}} :
       proc' = [Off EXCEPT !.at = "save", !.chosen = c]
  /\ restores' = restores + 1
  /\ UNCHANGED <<db, safety, replaced>> /\ Restoring

\* The safety copy of what there is.
SaveCurrent ==
  /\ proc.at = "save" /\ db.state # "partial"
  /\ safety' = IF db.state = "whole" THEN safety \cup {db.content} ELSE safety
  /\ proc' = [proc EXCEPT !.at = "replace"]
  /\ UNCHANGED <<db, restores, replaced>> /\ Restoring

\* sqlite3.DatabaseError, which run_restore does not expect.
SaveFails ==
  /\ proc.at = "save" /\ db.state = "partial"
  /\ proc' = [proc EXCEPT !.at = "failed"]
  /\ UNCHANGED <<db, safety, restores, replaced>> /\ Restoring

\* Mutant: the file is opened for writing before the safety copy is made.
OverwriteFirst ==
  /\ proc.at \in {"save", "replace"} /\ db.state \in {"absent", "whole"}
  /\ db' = Holds("empty", Baseline)
  /\ replaced' = IF db.state = "whole" THEN replaced \cup {db.content} ELSE replaced
  /\ UNCHANGED <<safety, proc, restores>> /\ Restoring

\* shutil.copy2: the file is truncated, then filled.
Overwrite ==
  /\ proc.at = "replace" /\ db.state \in {"absent", "whole"}
  /\ db' = Holds("empty", Baseline)
  /\ replaced' = IF db.state = "whole" THEN replaced \cup {db.content} ELSE replaced
  /\ UNCHANGED <<safety, proc, restores>> /\ Restoring

CopyPart ==
  /\ proc.at = "replace" /\ db.state = "empty"
  /\ db' = Holds("partial", Baseline)
  /\ UNCHANGED <<safety, proc, restores, replaced>> /\ Restoring

CopyRest ==
  /\ proc.at = "replace" /\ db.state = "partial"
  /\ db' = Holds("whole", proc.chosen)
  /\ proc' = Off
  /\ UNCHANGED <<safety, restores, replaced>> /\ Restoring

-----------------------------------------------------------------------------
\* The server or the operator's command is stopped, or its PC fails.
Stop ==
  /\ proc.at # "off"
  /\ proc' = Off /\ sched' = NotRunning
  /\ UNCHANGED <<now, disk, copies, restores, began, replaced, made>>

\* Time passes between the wake-ups, and during a backup.
Tick ==
  /\ now < MaxNow
  /\ sched.at = "off" \/ (sched.read = now /\ (sched.at = "asleep" \/ Copying))
  /\ now' = now + 1
  /\ UNCHANGED <<disk, proc, sched, copies, restores, began, replaced, made>>

Scheduler == FirstBackup \/ CopiedToday \/ Started \/ DailyBackup \/ Sleep
Restore == RestoreBegin \/ SaveCurrent \/ SaveFails \/ Overwrite \/ CopyPart \/ CopyRest

BackupsNext ==
  \/ \E reset \in BOOLEAN : Start(reset)
  \/ Tables \/ Migrate \/ Bootstrap \/ ResetSuperAdmin \/ Listen
  \/ Scheduler \/ BackupDone \/ BackupFailed \/ Work
  \/ Restore \/ Stop \/ Tick

BackupsSpec == BackupsInit /\ [][BackupsNext]_vars

-----------------------------------------------------------------------------
\* Files and processes have their types, the scheduler runs while the server does, and a
\* running server's database is whole.
BackupsTypeOK ==
  /\ now \in 0..MaxNow
  /\ db \in Database
  /\ files \subseteq File /\ safety \subseteq Content
  /\ proc \in ProcRow /\ sched \in SchedRow
  /\ copies \in 0..MaxCopies /\ restores \in 0..MaxRestores
  /\ began \subseteq [at: 0..MaxNow, slot: Times \cup {NoSlot}] /\ replaced \subseteq Content /\ made \in BOOLEAN
  /\ (sched.at # "off") = (proc.at = "up")
  /\ proc.at \in {"migrate", "bootstrap", "reset", "up"} => db.state = "whole"
  /\ Copying => \E f \in files : f.n = copies /\ ~f.whole

\* Whatever database it finds, and wherever earlier starts stopped, the server that
\* listens has every migration done and a Super Admin.
ServesOnlyMigrated == proc.at = "up" => Current(db.content)

Contents == {f.content : f \in files} \cup safety
            \cup (IF db.state = "whole" THEN {db.content} ELSE {})

\* No crash, restore or second start converts the log times twice or leaves some behind.
OnceConverted == \A c \in Contents : c.logs \notin {"mixed", "shifted"}

\* "It first saves the current database": whatever a restore overwrites can be restored,
\* wherever the restore stops.
Undoable == replaced \subseteq safety

\* "Every day at the daily backup time", whose changes "apply without a restart": when the
\* scheduler's last round came after the time it read, a backup was begun that day at or
\* after the time set then; or the server was started after the time set then, and there
\* was a copy of that day or one being made when the day began.
Daily ==
  sched.at = "asleep" /\ sched.read = now /\ AfterSlot(now, sched.slot) =>
    \E b \in began :
      \/ Day(b.at) = Day(now) /\ AfterSlot(b.at, b.slot)
      \/ sched.late = Day(now) /\ Day(now) \in {Day(b.at), Day(b.at + 1)}

\* Failed and interrupted backups, and retention at any setting, leave a complete automatic
\* copy once one was made.
GoodCopyRemains == made => \E f \in files : f.whole

\* "If it keeps failing, restore the latest backup": the restore of a complete copy does
\* not fail.
RestoreWorks == proc.at # "failed"
=============================================================================
