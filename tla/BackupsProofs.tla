--------------------------- MODULE BackupsProofs ----------------------------
(***************************************************************************)
(* What holds of the database, its copies and its restores for any clock,  *)
(* any number of backups and restores, and any database an earlier release *)
(* left: every content on the disk is one that the migrations understand.  *)
(***************************************************************************)
EXTENDS Backups, FiniteSetTheorems, TLAPS

\* What each migration relies on: a content has all that its version stands for, and its
\* log times are in the clock of its version.
Sound(c) ==
  /\ c \in Content
  /\ c.version >= 2 => "soft_delete" \in c.has
  /\ c.version >= 4 => "settings" \in c.has
  /\ c.version >= 5 => "password_plain" \in c.has
  /\ c.version = SCHEMA_VERSION => "approved_task_name" \in c.has
  /\ c.logs \in IF c.version < 3 THEN {"none", "utc"} ELSE {"none", "local"}

\* The version after the migrations before step i, for a database found at version v.
Reached(i, v) ==
  LET least == CASE i = 1 -> 0 [] i = 2 -> 2 [] i = 3 -> 2 [] i = 4 -> 3
                 [] i = 5 -> 4 [] i = 6 -> 5 [] OTHER -> 6
  IN IF v < least THEN least ELSE v

\* The version is read once; what is on the disk follows from it and from the step.
Midway ==
  /\ proc.at = "tables" => proc.step = 1
  /\ proc.at = "migrate" =>
       /\ db.content.version = Reached(proc.step, proc.from)
       /\ proc.step > 2 /\ proc.from < 4 => "settings" \in db.content.has

\* Every content in use is sound, and the running server's is complete.
Contented ==
  /\ Sound(db.content) /\ Sound(proc.chosen)
  /\ \A f \in files : Sound(f.content)
  /\ \A c \in safety : Sound(c)
  /\ proc.at \in {"bootstrap", "up"} => Current(db.content)

\* Between the safety copy and the overwriting nothing else writes the database.
Saved == proc.at = "replace" /\ db.state = "whole" => db.content \in safety

\* Copies are numbered and dated in the order they were begun, and the one being made is
\* the last.
Numbered ==
  /\ \A f \in files : f.n <= copies /\ f.at <= now /\ \E b \in began : b.at = f.at
  /\ \A f, g \in files : /\ f.n = g.n => f = g
                         /\ f.n < g.n => f.at <= g.at

\* For every day the scheduler takes as done there was a backup.
CopyOf(d) == \E b \in began : d \in {Day(b.at), Day(b.at + 1)}
DayDone(d) ==
  \/ \E b \in began : Day(b.at) = d /\ AfterSlot(b.at, b.slot)
  \/ sched.late = d /\ CopyOf(d)

Scheduled ==
  /\ sched.at \in {"loop", "asleep", "daily"} /\ sched.doneFor # NoDay => DayDone(sched.doneFor)
  /\ sched.at = "start" => CopyOf(Day(now))
  /\ sched.at \in {"first", "daily"} =>
       /\ \E b \in began : b.at = sched.read /\ b.slot = sched.slot
       /\ now \in {sched.read, sched.read + 1}
       /\ \E f \in files : f.n = copies /\ f.at = sched.read /\ ~f.whole
  /\ sched.at = "daily" => AfterSlot(sched.read, sched.slot)
  /\ sched.at = "asleep" /\ AfterSlot(sched.read, sched.slot) => sched.doneFor = Day(sched.read)

BackupsIInv ==
  /\ BackupsTypeOK /\ Midway /\ Contented /\ Saved
  /\ Numbered /\ Scheduled /\ Undoable /\ GoodCopyRemains

-----------------------------------------------------------------------------
(* Contents: each start-up step takes sound contents to sound contents. *)

LEMMA StepsAre ==
  /\ Len(Steps) = 6 /\ DOMAIN Steps = 1..6
  /\ Steps[1] = [before |-> 2, part |-> "soft_delete",        sets |-> 2]
  /\ Steps[2] = [before |-> 4, part |-> "settings",           sets |-> 0]
  /\ Steps[3] = [before |-> 3, part |-> "local_time",         sets |-> 3]
  /\ Steps[4] = [before |-> 4, part |-> "none",               sets |-> 4]
  /\ Steps[5] = [before |-> 5, part |-> "password_plain",     sets |-> 5]
  /\ Steps[6] = [before |-> 6, part |-> "approved_task_name", sets |-> 6]
BY DEF Steps

LEMMA MigrationKeepsSound ==
  ASSUME NEW c, Sound(c), NEW v \in 0..SCHEMA_VERSION, NEW i \in 1..Len(Steps),
         c.version = Reached(i, v), i > 2 /\ v < 4 => "settings" \in c.has,
         v < Steps[i].before
  PROVE  /\ Sound(Migrated(c, i))
         /\ Migrated(c, i).version = Reached(i + 1, v)
         /\ i + 1 > 2 /\ v < 4 => "settings" \in Migrated(c, i).has
<1> DEFINE m == Migrated(c, i)
<1>0. c = [version |-> c.version, has |-> c.has, logs |-> c.logs,
           superAdmin |-> c.superAdmin, data |-> c.data]
      /\ c.version \in 0..6 /\ c.has \subseteq Parts /\ c.logs \in Clocks
  BY DEF Sound, Content, SCHEMA_VERSION
<1>1. m = [version |-> IF Steps[i].sets = 0 THEN c.version ELSE Steps[i].sets,
           has |-> c.has \cup (Parts \cap {Steps[i].part}),
           logs |-> IF Steps[i].part = "local_time" THEN Converted(c.logs) ELSE c.logs,
           superAdmin |-> c.superAdmin, data |-> c.data]
  <2> DEFINE has == c.has \cup (Parts \cap {Steps[i].part})
             logs == IF Steps[i].part = "local_time" THEN Converted(c.logs) ELSE c.logs
             version == IF Steps[i].sets = 0 THEN c.version ELSE Steps[i].sets
  <2>1. m = [c EXCEPT !.has = has, !.logs = logs, !.version = version]
    BY DEF Migrated
  <2> HIDE DEF m, has, logs, version
  <2>2. m = [version |-> version, has |-> has, logs |-> logs,
             superAdmin |-> c.superAdmin, data |-> c.data]
    BY <1>0, <2>1
  <2> QED BY <2>2 DEF m, has, logs, version
<1>2. i \in {1, 2, 3, 4, 5, 6}
  BY StepsAre
<1>3. CASE i = 1
  <2>0. Steps[i].part = "soft_delete" /\ "soft_delete" \in Parts
    BY <1>3, StepsAre DEF Parts
  <2>1. Parts \cap {Steps[i].part} = {"soft_delete"} /\ "soft_delete" \in Parts
    BY <2>0, Zenon
  <2>2. m.has = c.has \cup {"soft_delete"} /\ m.logs = c.logs
        /\ m.version = IF Steps[i].sets = 0 THEN c.version ELSE Steps[i].sets
    BY <1>1, <1>3, <2>1, StepsAre
  <2>3. m \in Content
    BY <1>0, <1>1, <1>3, <2>1, StepsAre DEF Sound, Content, SCHEMA_VERSION
  <2> HIDE DEF m
  <2>4. Sound(m) /\ m.version = Reached(i + 1, v) /\ (i + 1 > 2 /\ v < 4 => "settings" \in m.has)
    BY <1>3, <2>2, <2>3, StepsAre DEF Sound, SCHEMA_VERSION, Reached
  <2> QED BY <2>4 DEF m
<1>4. CASE i = 2
  <2>0. Steps[i].part = "settings" /\ "settings" \in Parts
    BY <1>4, StepsAre DEF Parts
  <2>1. Parts \cap {Steps[i].part} = {"settings"} /\ "settings" \in Parts
    BY <2>0, Zenon
  <2>2. m.has = c.has \cup {"settings"} /\ m.logs = c.logs
        /\ m.version = IF Steps[i].sets = 0 THEN c.version ELSE Steps[i].sets
    BY <1>1, <1>4, <2>1, StepsAre
  <2>3. m \in Content
    BY <1>0, <1>1, <1>4, <2>1, StepsAre DEF Sound, Content, SCHEMA_VERSION
  <2> HIDE DEF m
  <2>4. Sound(m) /\ m.version = Reached(i + 1, v) /\ (i + 1 > 2 /\ v < 4 => "settings" \in m.has)
    BY <1>4, <2>2, <2>3, StepsAre DEF Sound, SCHEMA_VERSION, Reached
  <2> QED BY <2>4 DEF m
<1>5. CASE i = 3
  BY <1>0, <1>1, <1>5, StepsAre DEF Sound, Content, SCHEMA_VERSION, Parts, Clocks, Reached, Converted
<1>6. CASE i = 4
  BY <1>0, <1>1, <1>6, StepsAre DEF Sound, Content, SCHEMA_VERSION, Parts, Clocks, Reached
<1>7. CASE i = 5
  <2>0. Steps[i].part = "password_plain" /\ "password_plain" \in Parts
    BY <1>7, StepsAre DEF Parts
  <2>1. Parts \cap {Steps[i].part} = {"password_plain"} /\ "password_plain" \in Parts
    BY <2>0, Zenon
  <2>2. m.has = c.has \cup {"password_plain"} /\ m.logs = c.logs
        /\ m.version = IF Steps[i].sets = 0 THEN c.version ELSE Steps[i].sets
    BY <1>1, <1>7, <2>1, StepsAre
  <2>3. m \in Content
    BY <1>0, <1>1, <1>7, <2>1, StepsAre DEF Sound, Content, SCHEMA_VERSION
  <2> HIDE DEF m
  <2>4. Sound(m) /\ m.version = Reached(i + 1, v) /\ (i + 1 > 2 /\ v < 4 => "settings" \in m.has)
    BY <1>7, <2>2, <2>3, StepsAre DEF Sound, SCHEMA_VERSION, Reached
  <2> QED BY <2>4 DEF m
<1>8. CASE i = 6
  <2>0. Steps[i].part = "approved_task_name" /\ "approved_task_name" \in Parts
    BY <1>8, StepsAre DEF Parts
  <2>1. Parts \cap {Steps[i].part} = {"approved_task_name"} /\ "approved_task_name" \in Parts
    BY <2>0, Zenon
  <2>2. m.has = c.has \cup {"approved_task_name"} /\ m.logs = c.logs
        /\ m.version = IF Steps[i].sets = 0 THEN c.version ELSE Steps[i].sets
    BY <1>1, <1>8, <2>1, StepsAre
  <2>3. m \in Content
    BY <1>0, <1>1, <1>8, <2>1, StepsAre DEF Sound, Content, SCHEMA_VERSION
  <2> HIDE DEF m
  <2>4. Sound(m) /\ m.version = Reached(i + 1, v) /\ (i + 1 > 2 /\ v < 4 => "settings" \in m.has)
    BY <1>8, <2>2, <2>3, StepsAre DEF Sound, SCHEMA_VERSION, Reached
  <2> QED BY <2>4 DEF m
<1> QED BY <1>2, <1>3, <1>4, <1>5, <1>6, <1>7, <1>8

LEMMA SkippingKeepsReached ==
  ASSUME NEW v \in 0..SCHEMA_VERSION, NEW i \in 1..Len(Steps), v >= Steps[i].before
  PROVE  Reached(i + 1, v) = Reached(i, v) /\ (i = 2 => v >= 4)
<1>1. i \in {1, 2, 3, 4, 5, 6}
  BY StepsAre
<1> QED BY <1>1, StepsAre DEF Reached, SCHEMA_VERSION

LEMMA BaselineIsSound == Sound(Baseline)
BY BackupsConstants DEF Sound, Baseline, Content, Parts, Clocks, SCHEMA_VERSION

LEMMA FoundIsSound == \A c \in Found : Sound(c)
<1> SUFFICES ASSUME NEW c \in Earlier PROVE Sound(c)
  BY BackupsConstants
<1>1. PICK v \in {0, 2, 3, 4, 5, 6}, s \in BOOLEAN :
        c = [version |-> v,
             has |-> {p \in Parts : \/ p = "soft_delete" /\ v >= 2
                                    \/ p = "settings" /\ v >= 4
                                    \/ p = "password_plain" /\ v >= 5
                                    \/ p = "approved_task_name" /\ v = 6},
             logs |-> IF v >= 3 THEN "local" ELSE "utc", superAdmin |-> s, data |-> 0]
  BY DEF Earlier
<1>2. c \in Content
  BY <1>1, BackupsConstants DEF Content, Clocks, SCHEMA_VERSION
<1>3. \A p \in Parts : p \in c.has <=> \/ p = "soft_delete" /\ v >= 2
                                       \/ p = "settings" /\ v >= 4
                                       \/ p = "password_plain" /\ v >= 5
                                       \/ p = "approved_task_name" /\ v = 6
  BY <1>1
<1>4. c.version = v /\ c.logs = IF v >= 3 THEN "local" ELSE "utc"
  BY <1>1
<1> QED BY <1>2, <1>3, <1>4 DEF Sound, Parts, SCHEMA_VERSION

\* A sound content at the present version lacks nothing but perhaps a Super Admin.
LEMMA BootstrapCompletes ==
  ASSUME NEW c, Sound(c)
  PROVE  /\ Sound(Bootstrapped(c)) /\ Bootstrapped(c).version = c.version
         /\ c.version = SCHEMA_VERSION => Current(Bootstrapped(c))
<1> DEFINE b == Bootstrapped(c)
<1>1. c \in Content /\ TRUE \in BOOLEAN
  BY DEF Sound
<1>2. b \in Content /\ b.superAdmin = TRUE
  BY <1>1 DEF Bootstrapped, Content
<1>3. b.version = c.version /\ b.has = c.has /\ b.logs = c.logs
  BY <1>1 DEF Bootstrapped, Content
<1> HIDE DEF b
<1>4. Sound(b)
  BY <1>2, <1>3 DEF Sound
<1>5. c.version = SCHEMA_VERSION => b.has = Parts /\ b.logs \in {"none", "local"}
  BY <1>2, <1>3, <1>4 DEF Sound, Content, SCHEMA_VERSION, Parts
<1>6. c.version = SCHEMA_VERSION => Current(b)
  BY <1>2, <1>3, <1>5 DEF Current
<1> QED BY <1>3, <1>4, <1>6 DEF b

LEMMA WorkKeepsCurrent ==
  ASSUME NEW c, Sound(c), Current(c), c.data < MaxData
  PROVE  Sound(Worked(c)) /\ Current(Worked(c))
<1>1. c = [version |-> c.version, has |-> c.has, logs |-> c.logs,
           superAdmin |-> c.superAdmin, data |-> c.data] /\ c.data \in 0..MaxData
  BY DEF Sound, Content
<1> DEFINE w == Worked(c)
           logs == CASE c.logs = "none" -> "local" [] c.logs = "utc" -> "mixed" [] OTHER -> c.logs
<1>2. logs = "local"
  BY DEF Current
<1>3. w = [c EXCEPT !.data = c.data + 1, !.logs = logs]
  BY DEF Worked
<1> HIDE DEF w, logs
<1>4. w = [version |-> c.version, has |-> c.has, logs |-> "local",
           superAdmin |-> c.superAdmin, data |-> c.data + 1]
  BY <1>1, <1>2, <1>3
<1>5. Sound(w) /\ Current(w)
  BY <1>1, <1>4, BackupsConstants DEF Sound, Content, Current, SCHEMA_VERSION, Clocks, Parts
<1> QED BY <1>5 DEF w

-----------------------------------------------------------------------------
(* The clock. *)

LEMMA Days ==
  /\ \A t \in Nat : Day(t) \in Nat
  /\ \A t \in 0..MaxNow : Day(t) \in DaysOfClock /\ Day(t) # NoDay
  /\ NoDay \in DaysOfClock /\ NoSlot \notin Times
<1>1. \A t \in Nat : Day(t) \in Nat
  BY BackupsConstants DEF Day
<1> QED BY <1>1, BackupsConstants DEF NoDay, DaysOfClock, NoSlot, Times

-----------------------------------------------------------------------------
(* Steps that leave one half of the state alone keep that half's invariants. *)

LEMMA ClockSideKept ==
  ASSUME BackupsIInv, UNCHANGED <<now, files, sched, copies, began, made>>
  PROVE  Numbered' /\ Scheduled' /\ GoodCopyRemains'
<1>1. Numbered'
  BY DEF BackupsIInv, Numbered
<1>2. Scheduled'
  BY DEF BackupsIInv, Scheduled, DayDone, CopyOf
<1>3. GoodCopyRemains'
  BY DEF BackupsIInv, GoodCopyRemains
<1> QED BY <1>1, <1>2, <1>3

LEMMA DatabaseSideKept ==
  ASSUME BackupsIInv, UNCHANGED <<db, safety, proc, replaced>>, \A f \in files' : Sound(f.content)
  PROVE  Midway' /\ Contented' /\ Saved' /\ Undoable'
<1>1. Midway'
  BY DEF BackupsIInv, Midway
<1>2. Contented'
  BY DEF BackupsIInv, Contented
<1>3. Saved' /\ Undoable'
  BY DEF BackupsIInv, Saved, Undoable
<1> QED BY <1>1, <1>2, <1>3

LEMMA OffIsTyped == Off \in ProcRow /\ NotRunning \in SchedRow /\ Sound(Off.chosen) /\ Off.at = "off"
                    /\ NotRunning.at = "off" /\ Off.chosen = Baseline
<1>1. Baseline \in Content
  BY BaselineIsSound DEF Sound
<1>2. Off \in ProcRow
  BY <1>1, StepsAre DEF Off, ProcRow, SCHEMA_VERSION
<1>3. NotRunning \in SchedRow
  BY Days, BackupsConstants DEF NotRunning, SchedRow
<1> QED BY <1>2, <1>3, BaselineIsSound DEF Off, NotRunning

-----------------------------------------------------------------------------
(* The start-up. *)

LEMMA StartupStep ==
  ASSUME BackupsIInv,
         (\E reset \in BOOLEAN : Start(reset)) \/ Tables \/ Migrate \/ Bootstrap \/ ResetSuperAdmin \/ Listen
  PROVE  BackupsIInv'
<1> USE DEF Starting
<1>0. /\ proc \in ProcRow /\ db \in Database /\ sched \in SchedRow /\ Sound(db.content)
      /\ proc.at # "up" => sched.at = "off"
      /\ \A at \in {"off", "tables", "migrate", "bootstrap", "reset", "up", "save", "replace", "failed"} :
           [proc EXCEPT !.at = at] \in ProcRow
  BY DEF BackupsIInv, BackupsTypeOK, ProcRow, Contented
<1>1. ASSUME NEW reset \in BOOLEAN, Start(reset) PROVE BackupsIInv'
  <2>1. proc' = [Off EXCEPT !.at = "tables", !.reset = reset] /\ proc.at = "off"
        /\ UNCHANGED <<db, sched, now, files, safety, copies, restores, began, replaced, made>>
    BY <1>1 DEF Start
  <2>2. proc' \in ProcRow /\ proc'.at = "tables" /\ proc'.step = 1 /\ Sound(proc'.chosen)
    BY <2>1, OffIsTyped DEF ProcRow, Off
  <2>3. BackupsTypeOK'
    BY <1>0, <2>1, <2>2 DEF BackupsIInv, BackupsTypeOK, Copying
  <2>4. Midway' /\ Contented' /\ Saved' /\ Undoable'
    BY <2>1, <2>2 DEF BackupsIInv, Midway, Contented, Saved, Undoable
  <2> QED BY <2>1, <2>3, <2>4, ClockSideKept DEF BackupsIInv
<1>2. CASE Tables
  <2>1. /\ proc.at = "tables" /\ UNCHANGED <<sched, now, files, safety, copies, restores, began, replaced, made>>
        /\ db' = IF db.state = "whole" THEN db ELSE Holds("whole", Baseline)
        /\ proc' = [proc EXCEPT !.at = "migrate", !.from = db'.content.version]
    BY <1>2 DEF Tables
  <2>2. db' \in Database /\ db'.state = "whole" /\ Sound(db'.content)
    BY <1>0, <2>1, BaselineIsSound DEF Database, Holds, Sound
  <2>3. db'.content.version \in 0..SCHEMA_VERSION
    BY <2>2 DEF Sound, Content
  <2>4. proc' \in ProcRow /\ proc'.at = "migrate" /\ proc'.chosen = proc.chosen
        /\ proc'.from = db'.content.version /\ proc'.step = proc.step
    BY <1>0, <2>1, <2>3, ZenonT(60) DEF ProcRow
  <2>5. BackupsTypeOK'
    BY <1>0, <2>1, <2>2, <2>4 DEF BackupsIInv, BackupsTypeOK, Copying
  <2>6. proc.step = 1
    BY <2>1 DEF BackupsIInv, Midway
  <2>7. Midway'
    BY <2>3, <2>4, <2>6 DEF Midway, Reached, SCHEMA_VERSION
  <2>8. Contented' /\ Saved' /\ Undoable'
    BY <2>1, <2>2, <2>4 DEF BackupsIInv, Contented, Saved, Undoable
  <2> QED BY <2>1, <2>5, <2>7, <2>8, ClockSideKept DEF BackupsIInv
<1>3. CASE Migrate
  <2>1. /\ proc.at = "migrate" /\ proc.step <= Len(Steps)
        /\ UNCHANGED <<sched, now, files, safety, copies, restores, began, replaced, made>>
        /\ db' = IF proc.from < Steps[proc.step].before
                 THEN Holds("whole", Migrated(db.content, proc.step)) ELSE db
        /\ proc' = [proc EXCEPT !.step = proc.step + 1]
    BY <1>3 DEF Migrate
  <2>2. proc.step \in 1..Len(Steps) /\ proc.from \in 0..SCHEMA_VERSION /\ db.state = "whole"
    BY <1>0, <2>1, StepsAre DEF ProcRow, BackupsIInv, BackupsTypeOK
  <2>3. proc' \in ProcRow /\ proc'.at = "migrate" /\ proc'.chosen = proc.chosen
        /\ proc'.from = proc.from /\ proc'.step = proc.step + 1
    BY <1>0, <2>1, <2>2, StepsAre DEF ProcRow
  <2>4. /\ db.content.version = Reached(proc.step, proc.from)
        /\ proc.step > 2 /\ proc.from < 4 => "settings" \in db.content.has
    BY <2>1 DEF BackupsIInv, Midway
  <2>5. /\ db'.state = "whole" /\ Sound(db'.content) /\ db' \in Database
        /\ db'.content.version = Reached(proc.step + 1, proc.from)
        /\ proc.step + 1 > 2 /\ proc.from < 4 => "settings" \in db'.content.has
    <3>1. CASE proc.from < Steps[proc.step].before
      <4> DEFINE m == Migrated(db.content, proc.step)
      <4>1. db' = Holds("whole", m)
        BY <2>1, <3>1
      <4>2. /\ Sound(m) /\ m.version = Reached(proc.step + 1, proc.from)
            /\ proc.step + 1 > 2 /\ proc.from < 4 => "settings" \in m.has
        BY <1>0, <2>2, <2>4, <3>1, MigrationKeepsSound
      <4> HIDE DEF m
      <4> QED BY <4>1, <4>2 DEF Holds, Database, Sound
    <3>2. CASE ~(proc.from < Steps[proc.step].before)
      <4>1. Steps[proc.step].before \in Nat
        BY <2>2, StepsAre
      <4>2. Reached(proc.step + 1, proc.from) = Reached(proc.step, proc.from)
            /\ (proc.step = 2 => proc.from >= 4)
        BY <2>2, <3>2, <4>1, SkippingKeepsReached DEF SCHEMA_VERSION
      <4>3. db' = db
        BY <2>1, <3>2
      <4> QED BY <1>0, <2>2, <2>4, <4>2, <4>3, StepsAre DEF SCHEMA_VERSION
    <3> QED BY <3>1, <3>2
  <2>6. BackupsTypeOK'
    BY <1>0, <2>1, <2>3, <2>5 DEF BackupsIInv, BackupsTypeOK, Copying
  <2>7. Midway'
    BY <2>3, <2>5 DEF Midway
  <2>8. Contented' /\ Saved' /\ Undoable'
    BY <2>1, <2>3, <2>5 DEF BackupsIInv, Contented, Saved, Undoable
  <2> QED BY <2>1, <2>6, <2>7, <2>8, ClockSideKept DEF BackupsIInv
<1>4. ASSUME Bootstrap \/ ResetSuperAdmin PROVE BackupsIInv'
  <2> DEFINE b == Bootstrapped(db.content)
  <2>1. /\ UNCHANGED <<sched, now, files, safety, copies, restores, began, replaced, made>>
        /\ db' = Holds("whole", b)
    BY <1>4 DEF Bootstrap, ResetSuperAdmin
  <2>2. Sound(b) /\ (db.content.version = SCHEMA_VERSION => Current(b))
    BY <1>0, BootstrapCompletes
  <2>3. /\ proc' \in ProcRow /\ proc'.at \in {"bootstrap", "reset", "off"} /\ proc.at # "up"
        /\ proc'.chosen = proc.chosen \/ proc'.chosen = Baseline
        /\ proc'.at = "bootstrap" => proc.at = "migrate" /\ proc.step > Len(Steps)
    <3>1. CASE Bootstrap
      <4>1. PICK at \in {"bootstrap", "reset"} : proc' = [proc EXCEPT !.at = at]
        BY <3>1 DEF Bootstrap
      <4>2. proc.at = "migrate" /\ proc.step > Len(Steps)
        BY <3>1 DEF Bootstrap
      <4>3. proc' \in ProcRow
        BY <1>0, <4>1
      <4>4. proc \in ProcRow
        BY <1>0
      <4>5. proc'.at = at /\ proc'.chosen = proc.chosen
        BY <4>1, <4>4 DEF ProcRow
      <4> QED BY <4>2, <4>3, <4>5
    <3>2. CASE ResetSuperAdmin
      BY <3>2, OffIsTyped DEF ResetSuperAdmin
    <3> QED BY <1>4, <3>1, <3>2
  <2>4. proc'.at = "bootstrap" => db.content.version = SCHEMA_VERSION
    <3>1. SUFFICES ASSUME proc'.at = "bootstrap" PROVE db.content.version = SCHEMA_VERSION
      OBVIOUS
    <3>2. proc.step = 7 /\ proc.from \in 0..6
      BY <1>0, <2>3, <3>1, StepsAre DEF ProcRow, SCHEMA_VERSION
    <3> QED BY <2>3, <3>1, <3>2 DEF BackupsIInv, Midway, Reached, SCHEMA_VERSION
  <2> HIDE DEF b
  <2>5. db' \in Database /\ db'.state = "whole" /\ db'.content = b
    BY <2>1, <2>2 DEF Holds, Database, Sound
  <2>6. BackupsTypeOK'
    BY <1>0, <2>1, <2>3, <2>5 DEF BackupsIInv, BackupsTypeOK, Copying
  <2>7. Midway' /\ Contented' /\ Saved' /\ Undoable'
    BY <2>1, <2>2, <2>3, <2>4, <2>5, BaselineIsSound DEF BackupsIInv, Midway, Contented, Saved, Undoable
  <2> QED BY <2>1, <2>6, <2>7, ClockSideKept DEF BackupsIInv
<1>5. CASE Listen
  <2>1. /\ proc.at = "bootstrap" /\ proc' = [proc EXCEPT !.at = "up"]
        /\ sched' = [NotRunning EXCEPT !.at = "begin"]
        /\ UNCHANGED <<db, now, files, safety, copies, restores, began, replaced, made>>
    BY <1>5 DEF Listen
  <2>2. proc' \in ProcRow /\ proc'.at = "up" /\ proc'.chosen = proc.chosen
        /\ sched' \in SchedRow /\ sched'.at = "begin"
    BY <1>0, <2>1, OffIsTyped, ZenonT(60) DEF ProcRow, SchedRow
  <2>3. BackupsTypeOK'
    BY <1>0, <2>1, <2>2 DEF BackupsIInv, BackupsTypeOK, Copying
  <2>4. Midway' /\ Contented' /\ Saved' /\ Undoable'
    BY <2>1, <2>2 DEF BackupsIInv, Midway, Contented, Saved, Undoable
  <2>5. Numbered' /\ Scheduled' /\ GoodCopyRemains'
    BY <2>1, <2>2 DEF BackupsIInv, Numbered, Scheduled, GoodCopyRemains
  <2> QED BY <2>3, <2>4, <2>5 DEF BackupsIInv
<1> QED BY <1>1, <1>2, <1>3, <1>4, <1>5

-----------------------------------------------------------------------------
(* Work on the running server, restores and stops. *)

LEMMA WorkStep ==
  ASSUME BackupsIInv, Work
  PROVE  BackupsIInv'
<1>1. /\ proc.at = "up" /\ db' = Holds("whole", Worked(db.content)) /\ db.content.data < MaxData
      /\ UNCHANGED <<now, files, safety, proc, sched, copies, restores, began, replaced, made>>
  BY DEF Work
<1>2. Sound(Worked(db.content)) /\ Current(Worked(db.content))
  BY <1>1, WorkKeepsCurrent DEF BackupsIInv, Contented
<1>3. db' \in Database /\ db'.state = "whole" /\ db'.content = Worked(db.content)
  BY <1>1, <1>2 DEF Holds, Database, Sound
<1>4. BackupsTypeOK'
  BY <1>1, <1>3 DEF BackupsIInv, BackupsTypeOK, Copying
<1>5. Midway' /\ Contented' /\ Saved' /\ Undoable'
  BY <1>1, <1>2, <1>3 DEF BackupsIInv, Midway, Contented, Saved, Undoable
<1> QED BY <1>1, <1>4, <1>5, ClockSideKept DEF BackupsIInv

LEMMA RestoreStep ==
  ASSUME BackupsIInv, Restore
  PROVE  BackupsIInv'
<1>0. /\ proc \in ProcRow /\ db \in Database /\ Sound(db.content) /\ Sound(proc.chosen)
      /\ proc.at # "up" => sched.at = "off"
      /\ \A at \in {"off", "tables", "migrate", "bootstrap", "reset", "up", "save", "replace", "failed"} :
           /\ [proc EXCEPT !.at = at] \in ProcRow /\ [proc EXCEPT !.at = at].at = at
           /\ [proc EXCEPT !.at = at].chosen = proc.chosen
  BY DEF BackupsIInv, BackupsTypeOK, ProcRow, Contented
<1>1. UNCHANGED <<now, files, sched, copies, began, made>> /\ proc.at # "up" /\ sched.at = "off"
  BY <1>0 DEF Restore, RestoreBegin, SaveCurrent, SaveFails, Overwrite, CopyPart, CopyRest, Restoring
<1>2. /\ proc' \in ProcRow /\ db' \in Database /\ Sound(db'.content) /\ Sound(proc'.chosen)
      /\ proc'.at \in {"off", "save", "replace", "failed"}
      /\ restores' \in 0..MaxRestores
  <2>1. CASE RestoreBegin
    <3>1. PICK c \in safety \cup {f.content : f \in {g \in files : g.whole}} :
            proc' = [Off EXCEPT !.at = "save", !.chosen = c]
      BY <2>1 DEF RestoreBegin
    <3>2. Sound(c)
      BY DEF BackupsIInv, Contented
    <3>3. proc' \in ProcRow /\ proc'.at = "save" /\ proc'.chosen = c
      BY <3>1, <3>2, OffIsTyped DEF ProcRow, Sound
    <3> QED BY <1>0, <2>1, <3>2, <3>3, BackupsConstants DEF RestoreBegin, BackupsIInv, BackupsTypeOK
  <2>2. CASE SaveCurrent \/ SaveFails
    BY <1>0, <2>2 DEF SaveCurrent, SaveFails, BackupsIInv, BackupsTypeOK
  <2>3. CASE Overwrite \/ CopyPart
    BY <1>0, <2>3, BaselineIsSound DEF Overwrite, CopyPart, BackupsIInv, BackupsTypeOK, Holds, Database, Sound
  <2>4. CASE CopyRest
    BY <1>0, <2>4, OffIsTyped DEF CopyRest, BackupsIInv, BackupsTypeOK, Holds, Database, Sound
  <2> QED BY <2>1, <2>2, <2>3, <2>4 DEF Restore
<1>3. /\ safety \subseteq safety' /\ \A c \in safety' : Sound(c)
      /\ replaced' \subseteq Content /\ Undoable' /\ Saved'
  <2>1. CASE RestoreBegin
    BY <1>2, <2>1, OffIsTyped DEF RestoreBegin, BackupsIInv, BackupsTypeOK, Contented, Undoable, Saved, ProcRow
  <2>2. CASE SaveCurrent
    BY <1>0, <2>2 DEF SaveCurrent, BackupsIInv, BackupsTypeOK, Contented, Undoable, Saved
  <2>3. CASE SaveFails
    BY <1>0, <2>3 DEF SaveFails, BackupsIInv, BackupsTypeOK, Contented, Undoable, Saved
  <2>4. CASE Overwrite
    BY <1>0, <2>4 DEF Overwrite, BackupsIInv, BackupsTypeOK, Contented, Undoable, Saved, Holds, Database
  <2>5. CASE CopyPart
    BY <1>0, <2>5 DEF CopyPart, BackupsIInv, BackupsTypeOK, Contented, Undoable, Saved, Holds
  <2>6. CASE CopyRest
    BY <1>0, <2>6, OffIsTyped DEF CopyRest, BackupsIInv, BackupsTypeOK, Contented, Undoable, Saved, Holds
  <2> QED BY <2>1, <2>2, <2>3, <2>4, <2>5, <2>6 DEF Restore
<1>4. BackupsTypeOK'
  BY <1>1, <1>2, <1>3 DEF BackupsIInv, BackupsTypeOK, Copying, Sound
<1>5. Midway' /\ Contented'
  BY <1>1, <1>2, <1>3 DEF BackupsIInv, Midway, Contented
<1> QED BY <1>1, <1>3, <1>4, <1>5, ClockSideKept DEF BackupsIInv

LEMMA StopStep ==
  ASSUME BackupsIInv, Stop
  PROVE  BackupsIInv'
<1>1. proc' = Off /\ sched' = NotRunning /\ proc'.at = "off" /\ sched'.at = "off"
      /\ UNCHANGED <<now, db, files, safety, copies, restores, began, replaced, made>>
  BY OffIsTyped DEF Stop, disk
<1>2. BackupsTypeOK'
  BY <1>1, OffIsTyped DEF BackupsIInv, BackupsTypeOK, Copying
<1>3. Midway' /\ Contented' /\ Saved' /\ Undoable'
  BY <1>1, OffIsTyped, BaselineIsSound DEF BackupsIInv, Midway, Contented, Saved, Undoable
<1>4. Numbered' /\ Scheduled' /\ GoodCopyRemains'
  BY <1>1 DEF BackupsIInv, Numbered, Scheduled, GoodCopyRemains
<1> QED BY <1>2, <1>3, <1>4 DEF BackupsIInv

-----------------------------------------------------------------------------
(* The clock and the scheduler. *)

LEMMA TickStep ==
  ASSUME BackupsIInv, Tick
  PROVE  BackupsIInv'
<1>1. /\ now' = now + 1 /\ now \in 0..MaxNow /\ now' \in 0..MaxNow
      /\ sched.at = "off" \/ (sched.read = now /\ sched.at \in {"asleep", "first", "daily"})
      /\ UNCHANGED <<db, files, safety, proc, sched, copies, restores, began, replaced, made>>
  BY BackupsConstants DEF Tick, disk, Copying, BackupsIInv, BackupsTypeOK
<1>2. BackupsTypeOK'
  BY <1>1 DEF BackupsIInv, BackupsTypeOK, Copying
<1>3. Numbered'
  <2>1. \A f \in files : f.at \in 0..MaxNow
    BY DEF BackupsIInv, BackupsTypeOK, File
  <2> QED BY <1>1, <2>1, BackupsConstants DEF BackupsIInv, Numbered
<1>4. Scheduled' /\ GoodCopyRemains'
  BY <1>1 DEF BackupsIInv, Scheduled, DayDone, CopyOf, GoodCopyRemains
<1>5. \A f \in files' : Sound(f.content)
  BY <1>1 DEF BackupsIInv, Contented
<1> QED BY <1>1, <1>2, <1>3, <1>4, <1>5, DatabaseSideKept DEF BackupsIInv

\* What a backup that begins adds: the last copy, not yet whole.
LEMMA BackupBegins ==
  ASSUME BackupsIInv, NEW at \in {"first", "daily"}, NEW slot \in Times \cup {NoSlot},
         BackupBegin(at, slot), sched.at # "off",
         at = "daily" => AfterSlot(now, slot) /\ sched.at \in {"loop", "asleep"}
  PROVE  BackupsIInv'
<1> DEFINE f == [at |-> now, n |-> copies + 1, whole |-> FALSE, content |-> db.content]
           b == [at |-> now, slot |-> slot]
<1>1. /\ copies < MaxCopies /\ copies' = copies + 1 /\ files' = files \cup {f}
      /\ began' = began \cup {b} /\ sched' = [sched EXCEPT !.at = at, !.read = now, !.slot = slot]
      /\ UNCHANGED <<now, db, safety, proc, restores, replaced, made>>
  BY DEF BackupBegin, Same
<1>2. now \in 0..MaxNow /\ copies \in 0..MaxCopies /\ sched \in SchedRow /\ proc.at = "up"
      /\ db.state = "whole" /\ Sound(db.content)
  BY DEF BackupsIInv, BackupsTypeOK, Contented
<1>3. /\ f \in File /\ f.n = copies + 1 /\ f.at = now /\ f.whole = FALSE /\ f.content = db.content
      /\ b \in [at: 0..MaxNow, slot: Times \cup {NoSlot}] /\ b.at = now /\ b.slot = slot
  BY <1>1, <1>2, BackupsConstants DEF File, Sound
<1>4. sched' \in SchedRow /\ sched'.at = at /\ sched'.read = now /\ sched'.slot = slot
      /\ sched'.doneFor = sched.doneFor /\ sched'.late = sched.late
  BY <1>1, <1>2 DEF SchedRow
<1> HIDE DEF f, b
<1>5. copies' \in 0..MaxCopies /\ began' \subseteq [at: 0..MaxNow, slot: Times \cup {NoSlot}]
      /\ files' \subseteq File
  <2>1. copies' \in 0..MaxCopies
    BY <1>1, <1>2, BackupsConstants
  <2> QED BY <1>1, <1>2, <1>3, <2>1 DEF BackupsIInv, BackupsTypeOK
<1>6. BackupsTypeOK'
  BY <1>1, <1>2, <1>3, <1>4, <1>5 DEF BackupsIInv, BackupsTypeOK, Copying
<1>7. Numbered'
  <2>1. \A g \in files : g.n \in Nat /\ g.at \in Nat /\ g.n <= copies /\ g.at <= now
                         /\ \E c \in began : c.at = g.at
    BY DEF BackupsIInv, BackupsTypeOK, Numbered, File
  <2>2. \A g, h \in files : (g.n = h.n => g = h) /\ (g.n < h.n => g.at <= h.at)
    BY DEF BackupsIInv, Numbered
  <2>3. \A g \in files' : \E c \in began' : c.at = g.at
    BY <1>1, <1>3, <2>1
  <2>4. \A g \in files' : g.n <= copies' /\ g.at <= now'
    BY <1>1, <1>2, <1>3, <2>1
  <2>5. \A g, h \in files' : (g.n = h.n => g = h) /\ (g.n < h.n => g.at <= h.at)
    BY <1>1, <1>2, <1>3, <2>1, <2>2
  <2> QED BY <2>3, <2>4, <2>5 DEF Numbered
<1>8. Scheduled'
  <2>1. at = "daily" /\ sched.doneFor # NoDay => DayDone(sched.doneFor)
    BY DEF BackupsIInv, Scheduled
  <2>2. at = "daily" /\ sched'.doneFor # NoDay => DayDone(sched.doneFor)'
    BY <1>1, <1>4, <2>1 DEF DayDone, CopyOf
  <2>3. sched'.doneFor = sched.doneFor
    BY <1>4
  <2>4. \E c \in began' : c.at = sched'.read /\ c.slot = sched'.slot
    BY <1>1, <1>3, <1>4
  <2>5. \E g \in files' : g.n = copies' /\ g.at = sched'.read /\ ~g.whole
    BY <1>1, <1>3, <1>4
  <2> QED BY <1>1, <1>2, <1>4, <2>2, <2>3, <2>4, <2>5 DEF Scheduled, DayDone, CopyOf
<1>9. GoodCopyRemains' /\ \A g \in files' : Sound(g.content)
  BY <1>1, <1>2, <1>3 DEF BackupsIInv, GoodCopyRemains, Contented
<1> QED BY <1>1, <1>6, <1>7, <1>8, <1>9, DatabaseSideKept DEF BackupsIInv

\* The copy being made is the last one, and not whole.
LEMMA TheRunningCopy ==
  ASSUME BackupsIInv, Copying
  PROVE  /\ Running \in files /\ Running.n = copies /\ ~Running.whole /\ Running \in File
         /\ \A g \in files \ {Running} : g.n < copies /\ g.at <= Running.at
<1>1. PICK f \in files : f.n = copies /\ f.at = sched.read /\ ~f.whole
  BY DEF BackupsIInv, Scheduled, Copying
<1>2. \A g \in files : g.n = copies => g = f
  BY <1>1 DEF BackupsIInv, Numbered
<1>3. Running = f
  BY <1>1, <1>2 DEF Running
<1>4. \A g \in files : g.n \in Nat /\ g.n <= copies /\ copies \in Nat
  BY DEF BackupsIInv, BackupsTypeOK, Numbered, File
<1>5. \A g \in files \ {f} : g.n < f.n
  BY <1>1, <1>2, <1>4
<1>6. \A g \in files \ {f} : g.at <= f.at
  BY <1>1, <1>5 DEF BackupsIInv, Numbered
<1> QED BY <1>1, <1>3, <1>5, <1>6 DEF BackupsIInv, BackupsTypeOK

\* A backup call that returns leaves its day done: it began that day, after the time set
\* then, or as the first of a server that was started.
LEMMA BackupReturns ==
  ASSUME BackupsIInv, Copying, Returned(Day(sched.read)),
         UNCHANGED <<now, db, safety, proc, restores, replaced, copies, began>>,
         files' \subseteq File, made' \in BOOLEAN
  PROVE  Scheduled' /\ BackupsTypeOK'
<1>1. sched \in SchedRow /\ now \in 0..MaxNow /\ sched.read \in 0..MaxNow
      /\ now \in {sched.read, sched.read + 1} /\ sched.at \in {"first", "daily"}
  BY DEF BackupsIInv, BackupsTypeOK, SchedRow, Scheduled, Copying
<1>2. PICK b \in began : b.at = sched.read /\ b.slot = sched.slot
  BY <1>1 DEF BackupsIInv, Scheduled
<1>3. CASE sched.at = "first"
  <2>1. sched' = [sched EXCEPT !.at = "start"]
    BY <1>3 DEF Returned
  <2>2. sched' \in SchedRow /\ sched'.at = "start"
    BY <1>1, <2>1 DEF SchedRow
  <2>3. CopyOf(Day(now))
    BY <1>1, <1>2 DEF CopyOf
  <2>4. Scheduled'
    BY <2>2, <2>3 DEF Scheduled, CopyOf
  <2>5. BackupsTypeOK'
    BY <1>3, <2>2 DEF BackupsIInv, BackupsTypeOK, Copying
  <2> QED BY <2>4, <2>5
<1>4. CASE sched.at = "daily"
  <2>1. sched' = [sched EXCEPT !.at = "asleep", !.doneFor = Day(sched.read)]
    BY <1>4 DEF Returned
  <2>2. sched' \in SchedRow /\ sched'.at = "asleep" /\ sched'.doneFor = Day(sched.read)
        /\ sched'.read = sched.read
    BY <1>1, <2>1, Days DEF SchedRow
  <2>3. Day(b.at) = Day(sched.read) /\ AfterSlot(b.at, b.slot)
    BY <1>2, <1>4 DEF BackupsIInv, Scheduled
  <2>4. DayDone(Day(sched.read))'
    BY <2>2, <2>3 DEF DayDone
  <2>5. Scheduled'
    BY <2>2, <2>3, <2>4 DEF Scheduled, DayDone, CopyOf
  <2>6. BackupsTypeOK'
    BY <1>4, <2>2 DEF BackupsIInv, BackupsTypeOK, Copying
  <2> QED BY <2>5, <2>6
<1> QED BY <1>1, <1>3, <1>4

LEMMA BackupDoneStep ==
  ASSUME BackupsIInv, BackupDone
  PROVE  BackupsIInv'
<1> DEFINE new == [Running EXCEPT !.whole = TRUE]
           all == (files \ {Running}) \cup {new}
<1>1. /\ Copying /\ made' = TRUE /\ Returned(Day(sched.read))
      /\ UNCHANGED <<copies, began, now, db, safety, proc, restores, replaced>>
  BY DEF BackupDone, Same
<1>2. PICK keep \in 1..MaxKeep : \E gone \in SUBSET Excess(all, keep) : files' = all \ gone
  BY DEF BackupDone
<1>3. PICK gone \in SUBSET Excess(all, keep) : files' = all \ gone
  BY <1>2
<1>4. /\ new \in File /\ new.n = copies /\ new.at = Running.at /\ new.whole
      /\ new.content = Running.content
  BY <1>1, TheRunningCopy DEF File
<1> HIDE DEF new
<1>5. \A g \in all : ~Older(new, g)
  <2>1. \A g \in files : g.n \in Nat /\ g.at \in Nat
    BY DEF BackupsIInv, BackupsTypeOK, File
  <2> QED BY <1>1, <1>4, <2>1, TheRunningCopy DEF Older
<1>6. {g \in all : Older(new, g)} = {}
  BY <1>5
<1>7. new \notin Excess(all, keep)
  BY <1>2, <1>6, FS_EmptySet, BackupsConstants DEF Excess
<1>8. new \in files' /\ files' \subseteq all
  BY <1>3, <1>7
<1>9. files' \subseteq File /\ \A f \in files' : Sound(f.content)
  BY <1>1, <1>4, <1>8, TheRunningCopy DEF BackupsIInv, BackupsTypeOK, Contented
<1>10. Scheduled' /\ BackupsTypeOK'
  BY <1>1, <1>9, BackupReturns
<1>11. Numbered'
  <2>1. \A f \in files : f.n \in Nat /\ f.at \in Nat /\ f.n <= copies /\ f.at <= now
                         /\ \E b \in began : b.at = f.at
    BY DEF BackupsIInv, BackupsTypeOK, Numbered, File
  <2>2. \A f \in files' : f = new \/ f \in files \ {Running}
    BY <1>8
  <2>3. \A f \in files' : f.n <= copies' /\ f.at <= now' /\ \E b \in began' : b.at = f.at
    BY <1>1, <1>4, <2>1, <2>2, TheRunningCopy
  <2>4. \A f, g \in files' : /\ f.n = g.n => f = g
                             /\ f.n < g.n => f.at <= g.at
    BY <1>1, <1>4, <2>1, <2>2, TheRunningCopy DEF BackupsIInv, Numbered
  <2> QED BY <2>3, <2>4 DEF Numbered
<1>12. GoodCopyRemains'
  BY <1>4, <1>8 DEF GoodCopyRemains
<1> QED BY <1>1, <1>9, <1>10, <1>11, <1>12, DatabaseSideKept DEF BackupsIInv

LEMMA BackupFailedStep ==
  ASSUME BackupsIInv, BackupFailed
  PROVE  BackupsIInv'
<1>1. /\ Copying /\ Returned(Day(sched.read)) /\ files' \in {files, files \ {Running}}
      /\ UNCHANGED <<copies, began, made, now, db, safety, proc, restores, replaced>>
  BY DEF BackupFailed, Same
<1>2. files' \subseteq files /\ \A f \in files \ files' : f = Running
  BY <1>1
<1>3. Scheduled' /\ BackupsTypeOK'
  BY <1>1, <1>2, BackupReturns DEF BackupsIInv, BackupsTypeOK
<1>4. Numbered'
  BY <1>1, <1>2 DEF BackupsIInv, Numbered
<1>5. GoodCopyRemains'
  BY <1>1, <1>2, TheRunningCopy DEF BackupsIInv, GoodCopyRemains
<1>6. \A f \in files' : Sound(f.content)
  BY <1>2 DEF BackupsIInv, Contented
<1> QED BY <1>1, <1>3, <1>4, <1>5, <1>6, DatabaseSideKept DEF BackupsIInv

LEMMA SchedulerStep ==
  ASSUME BackupsIInv, Scheduler
  PROVE  BackupsIInv'
<1>1. CASE FirstBackup
  BY <1>1, BackupBegins DEF FirstBackup
<1>2. CASE DailyBackup
  <2>1. PICK slot \in Times : Round /\ Due(slot) /\ BackupBegin("daily", slot)
    BY <1>2 DEF DailyBackup
  <2> QED BY <2>1, BackupBegins DEF Due, Round
<1>3. ASSUME CopiedToday \/ Started \/ Sleep PROVE BackupsIInv'
  <2>0. /\ UNCHANGED <<files, copies, began, made, now, db, safety, proc, restores, replaced>>
        /\ sched \in SchedRow /\ now \in 0..MaxNow /\ sched.at # "off"
    BY <1>3 DEF CopiedToday, Started, Sleep, Round, Same, BackupsIInv, BackupsTypeOK
  <2>1. sched' \in SchedRow /\ sched'.at \in {"start", "loop", "asleep"} /\ Scheduled'
    <3>1. CASE CopiedToday
      <4>1. sched' = [sched EXCEPT !.at = "start"] /\ MadeToday
        BY <3>1 DEF CopiedToday
      <4>2. sched' \in SchedRow /\ sched'.at = "start"
        BY <2>0, <4>1 DEF SchedRow
      <4>3. CopyOf(Day(now))
        BY <4>1 DEF MadeToday, BackupsIInv, Numbered, CopyOf
      <4> QED BY <2>0, <4>2, <4>3 DEF Scheduled, CopyOf
    <3>2. CASE Started
      <4>0. PICK slot \in Times, day \in {Day(now), NoDay} :
              sched' = [sched EXCEPT !.at = "loop", !.doneFor = day, !.late = day]
        BY <3>2 DEF Started
      <4>1. sched.at = "start" /\ day \in DaysOfClock
        BY <2>0, <3>2, Days DEF Started
      <4>2. sched' \in SchedRow /\ sched'.at = "loop" /\ sched'.late = day /\ sched'.doneFor = day
        BY <2>0, <4>0, <4>1 DEF SchedRow
      <4>3. day # NoDay => CopyOf(day)
        BY <4>1 DEF BackupsIInv, Scheduled
      <4>4. day # NoDay => DayDone(day)'
        BY <2>0, <4>2, <4>3 DEF DayDone, CopyOf
      <4> QED BY <2>0, <4>2, <4>4 DEF Scheduled, DayDone, CopyOf
    <3>3. CASE Sleep
      <4>1. PICK slot \in Times :
              ~Due(slot) /\ sched' = [sched EXCEPT !.at = "asleep", !.read = now, !.slot = slot]
        BY <3>3 DEF Sleep
      <4>2. sched.at \in {"loop", "asleep"} /\ (AfterSlot(now, slot) => sched.doneFor = Day(now))
        BY <3>3, <4>1 DEF Sleep, Round, Due
      <4>3. sched' \in SchedRow /\ sched'.at = "asleep" /\ sched'.read = now /\ sched'.slot = slot
            /\ sched'.doneFor = sched.doneFor /\ sched'.late = sched.late
        BY <2>0, <4>1 DEF SchedRow
      <4>4. sched.doneFor # NoDay => DayDone(sched.doneFor)
        BY <4>2 DEF BackupsIInv, Scheduled
      <4> QED BY <2>0, <4>2, <4>3, <4>4 DEF Scheduled, DayDone, CopyOf
    <3> QED BY <1>3, <3>1, <3>2, <3>3
  <2>2. BackupsTypeOK'
    BY <2>0, <2>1 DEF BackupsIInv, BackupsTypeOK, Copying
  <2>3. Numbered' /\ GoodCopyRemains'
    BY <2>0 DEF BackupsIInv, Numbered, GoodCopyRemains
  <2>4. \A f \in files' : Sound(f.content)
    BY <2>0 DEF BackupsIInv, Contented
  <2> QED BY <2>0, <2>1, <2>2, <2>3, <2>4, DatabaseSideKept DEF BackupsIInv
<1> QED BY <1>1, <1>2, <1>3 DEF Scheduler

-----------------------------------------------------------------------------
LEMMA BackupsStart == BackupsInit => BackupsIInv
<1> SUFFICES ASSUME BackupsInit PROVE BackupsIInv
  OBVIOUS
<1>1. /\ now = 0 /\ files = {} /\ safety = {} /\ proc = Off /\ sched = NotRunning
      /\ copies = 0 /\ restores = 0 /\ began = {} /\ replaced = {} /\ made = FALSE
  BY DEF BackupsInit
<1>2. db \in Database /\ Sound(db.content)
  BY BaselineIsSound, FoundIsSound DEF BackupsInit, Holds, Database, Sound
<1>3. BackupsTypeOK
  <2>1. proc \in ProcRow /\ sched \in SchedRow /\ proc.at = "off" /\ sched.at = "off"
    BY <1>1, OffIsTyped
  <2>2. 0 \in 0..MaxNow /\ 0 \in 0..MaxCopies /\ 0 \in 0..MaxRestores /\ FALSE \in BOOLEAN
    BY BackupsConstants
  <2> QED BY <1>1, <1>2, <2>1, <2>2 DEF BackupsTypeOK, Copying
<1>4. Midway /\ Contented /\ Saved /\ Undoable
  BY <1>1, <1>2, OffIsTyped DEF Midway, Contented, Saved, Undoable
<1>5. Numbered /\ Scheduled /\ GoodCopyRemains
  BY <1>1, OffIsTyped DEF Numbered, Scheduled, GoodCopyRemains
<1> QED BY <1>3, <1>4, <1>5 DEF BackupsIInv

LEMMA BackupsKept == BackupsIInv /\ [BackupsNext]_vars => BackupsIInv'
<1> SUFFICES ASSUME BackupsIInv, [BackupsNext]_vars PROVE BackupsIInv'
  OBVIOUS
<1>1. CASE UNCHANGED vars
  <2>1. UNCHANGED <<now, db, files, safety, proc, sched, copies, restores, began, replaced, made>>
    BY <1>1 DEF vars
  <2>2. BackupsTypeOK'
    BY <2>1 DEF BackupsIInv, BackupsTypeOK, Copying
  <2>3. \A f \in files' : Sound(f.content)
    BY <2>1 DEF BackupsIInv, Contented
  <2> QED BY <2>1, <2>2, <2>3, ClockSideKept, DatabaseSideKept DEF BackupsIInv
<1>2. CASE BackupsNext
  BY <1>2, StartupStep, SchedulerStep, BackupDoneStep, BackupFailedStep, WorkStep, RestoreStep,
     StopStep, TickStep DEF BackupsNext
<1> QED BY <1>1, <1>2

\* The inductive invariant: contents fit their versions, copies are numbered in the order
\* they were begun, and the scheduler's day follows its backups.
THEOREM BackupsInvariant == BackupsSpec => []BackupsIInv
BY BackupsStart, BackupsKept, PTL DEF BackupsSpec

\* Files, processes and the scheduler have their types, for any clock and any number of
\* backups and restores.
THEOREM BackupsAreTyped == BackupsSpec => []BackupsTypeOK
<1>1. BackupsIInv => BackupsTypeOK
  BY DEF BackupsIInv
<1> QED BY <1>1, BackupsInvariant, PTL

\* The server that listens has every migration done and a Super Admin, whatever it found
\* and wherever earlier starts stopped.
THEOREM ServedDatabaseIsCurrent == BackupsSpec => []ServesOnlyMigrated
<1>1. BackupsIInv => ServesOnlyMigrated
  BY DEF BackupsIInv, Contented, ServesOnlyMigrated
<1> QED BY <1>1, BackupsInvariant, PTL

\* Log times are converted once, in the database and in every copy.
THEOREM LogTimesConvertedOnce == BackupsSpec => []OnceConverted
<1>1. BackupsIInv => OnceConverted
  <2>1. \A c : Sound(c) => c.logs \notin {"mixed", "shifted"}
    BY DEF Sound
  <2> QED BY <2>1 DEF BackupsIInv, Contented, OnceConverted, Contents
<1> QED BY <1>1, BackupsInvariant, PTL

\* What a restore overwrites was saved before.
THEOREM RestoresCanBeUndone == BackupsSpec => []Undoable
<1>1. BackupsIInv => Undoable
  BY DEF BackupsIInv
<1> QED BY <1>1, BackupsInvariant, PTL

\* No failure and no retention setting removes the last complete copy.
THEOREM ACompleteCopyRemains == BackupsSpec => []GoodCopyRemains
<1>1. BackupsIInv => GoodCopyRemains
  BY DEF BackupsIInv
<1> QED BY <1>1, BackupsInvariant, PTL

\* A scheduler that looked after the daily time then set has begun that day's backup, for
\* any times the setting is given and any division of the day.
THEOREM BackedUpDaily == BackupsSpec => []Daily
<1>1. BackupsIInv => Daily
  <2>1. now \in 0..MaxNow /\ BackupsIInv => Day(now) # NoDay
    BY Days
  <2> QED BY <2>1 DEF BackupsIInv, BackupsTypeOK, Scheduled, DayDone, CopyOf, Daily
<1> QED BY <1>1, BackupsInvariant, PTL
=============================================================================
