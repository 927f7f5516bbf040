------------------------- MODULE ProgressLogsProofs -------------------------
(***************************************************************************)
(* Machine-checked safety of ProgressLogs and of the queries of Reports,   *)
(* for every number of projects, tasks, Heads, logs and stages.            *)
(***************************************************************************)
EXTENDS Reports, RegistryProofs, SequenceTheorems, FunctionTheorems

\* The number a new revision gets: above all of its task, and next in line.
LEMMA NextRevisionIsNext ==
  ASSUME LogsTypeOK, RevisionsSequential, NEW n
  PROVE  /\ NextRevision(n) \in Nat \ {0}
         /\ \A i \in RevisionsOf(n) : logs[i].revision < NextRevision(n)
         /\ \A r \in 1 .. NextRevision(n) - 1 : \E i \in RevisionsOf(n) : logs[i].revision = r
<1> DEFINE revs == {logs[k].revision : k \in RevisionsOf(n)}
<1>1. CASE RevisionsOf(n) = {}
  BY <1>1 DEF NextRevision
<1>2. CASE RevisionsOf(n) # {}
  <2>1. Len(logs) \in Nat /\ DOMAIN logs = 1 .. Len(logs)
        /\ \A k \in DOMAIN logs : logs[k] \in LogRow
    BY DEF LogsTypeOK
  <2>2. RevisionsOf(n) \in SUBSET (1 .. Len(logs))
    BY <2>1 DEF RevisionsOf, LogsOf
  <2>3. PICK k \in RevisionsOf(n) : \A i \in RevisionsOf(n) : i <= k
    BY <1>2, <2>1, <2>2, HasGreatest
  <2>4. k \in DOMAIN logs /\ logs[k].task = n /\ logs[k].type = "REVISION"
    BY DEF RevisionsOf, LogsOf
  <2>5. \A i \in RevisionsOf(n) : logs[i].revision \in Nat /\ logs[i].revision >= 1
    BY <2>1 DEF RevisionsOf, LogsOf, LogRow, RevisionsSequential
  <2>6. \A i \in RevisionsOf(n) : i # k => i < k
    BY <2>1, <2>2, <2>3
  <2>7. \A i \in RevisionsOf(n) : logs[i].revision <= logs[k].revision
    BY <2>4, <2>5, <2>6 DEF RevisionsSequential
  <2>8. revs \in SUBSET (1 .. logs[k].revision) /\ revs # {} /\ logs[k].revision \in revs
    BY <2>5, <2>7
  <2>9. Max(revs) \in revs /\ \A r \in revs : r <= Max(revs)
    <3> HIDE DEF revs
    <3> QED BY <2>5, <2>8, MaxIsGreatest
  <2>10. Max(revs) = logs[k].revision
    <3>1. Max(revs) \in 1 .. logs[k].revision /\ logs[k].revision <= Max(revs)
      BY <2>8, <2>9
    <3> QED BY <3>1, <2>5
  <2>11. NextRevision(n) = logs[k].revision + 1
    BY <1>2, <2>10 DEF NextRevision
  <2>12. \A r \in 1 .. logs[k].revision - 1 : \E i \in RevisionsOf(n) : logs[i].revision = r
    BY <2>4 DEF RevisionsSequential
  <2> HIDE DEF revs
  <2> QED BY <2>5, <2>7, <2>11, <2>12
<1> QED BY <1>1, <1>2

\* Nothing is stored at the start.
LEMMA LogsStart == LogsInit => LogsIInv
<1> SUFFICES ASSUME LogsInit PROVE LogsIInv
  OBVIOUS
<1>1. logs = <<>> /\ RegistryTypeOK /\ TasksHaveProjects
  BY RegistryStart DEF LogsInit
<1> QED BY <1>1 DEF LogsIInv, LogsTypeOK, StoredOnce, FirstEntryIsNew, RevisionsSequential,
             LogsBelong

\* A call on the registry leaves the logs alone, and their rows in place.
LEMMA RegistryKeepsLogs ==
  LogsIInv /\ [RegistryNext]_registryVars /\ UNCHANGED logs => LogsIInv'
<1> SUFFICES ASSUME LogsIInv, [RegistryNext]_registryVars, UNCHANGED logs PROVE LogsIInv'
  OBVIOUS
<1>1. RegistryTypeOK' /\ TasksHaveProjects'
  BY RegistryStep DEF LogsIInv, LogsTypeOK
<1>2. /\ \A p \in DOMAIN project : p \in DOMAIN project'
      /\ \A n \in DOMAIN task : n \in DOMAIN task' /\ task'[n].project = task[n].project
  <2>1. CASE RegistryNext
    BY <2>1, SoftDeleteHolds DEF LogsIInv, LogsTypeOK, SoftDeleteStep
  <2>2. CASE UNCHANGED registryVars
    BY <2>2 DEF registryVars
  <2> QED BY <2>1, <2>2
<1>3. LogsBelong'
  BY <1>2 DEF LogsIInv, LogsBelong
<1>4. StoredOnce' /\ FirstEntryIsNew' /\ RevisionsSequential'
  BY DEF LogsIInv, StoredOnce, FirstEntryIsNew, RevisionsSequential, LogsOf, RevisionsOf
<1> QED BY <1>1, <1>3, <1>4 DEF LogsIInv, LogsTypeOK

\* A new log is added at the end.
LEMMA SubmitAppends ==
  ASSUME LogsIInv, NEW id \in LogIds, NEW h \in Heads, NEW p \in Projects, NEW n \in TaskIds,
         NEW sent \in EntryTypes \cup {Untyped}, SubmitLog(id, h, p, n, sent)
  PROVE  \E new \in LogRow :
           /\ new = Row(id, h, n, EntryType(n, sent))
           /\ logs' \in Seq(LogRow) /\ Len(logs') = Len(logs) + 1
           /\ DOMAIN logs = 1 .. Len(logs) /\ Len(logs) \in Nat
           /\ DOMAIN logs' = DOMAIN logs \cup {Len(logs) + 1}
           /\ \A k \in DOMAIN logs : logs'[k] = logs[k]
           /\ logs'[Len(logs) + 1] = new
<1> DEFINE type == EntryType(n, sent)
           new == Row(id, h, n, type)
<1>1. n \in DOMAIN task /\ task[n] \in TaskRow
  BY DEF SubmitLog, LiveTask, LogsIInv, LogsTypeOK, RegistryTypeOK
<1>2. type \in EntryTypes
  BY DEF EntryType, EntryTypes
<1>3. NextRevision(n) \in Nat
  BY NextRevisionIsNext DEF LogsIInv
<1>4. new \in LogRow
  <2> HIDE DEF type
  <2>1. (IF type = "REVISION" THEN NextRevision(n) ELSE 0) \in Nat
    BY <1>3
  <2> QED BY <1>1, <1>2, <2>1 DEF Row, LogRow, TaskRow
<1>5. logs \in Seq(LogRow) /\ logs' = Append(logs, new)
  BY DEF SubmitLog, LogsIInv, LogsTypeOK
<1> HIDE DEF new
<1>6. /\ logs' \in Seq(LogRow) /\ Len(logs') = Len(logs) + 1 /\ Len(logs) \in Nat
      /\ DOMAIN logs = 1 .. Len(logs) /\ DOMAIN logs' = 1 .. Len(logs) + 1
      /\ \A k \in 1 .. Len(logs) : logs'[k] = logs[k]
      /\ logs'[Len(logs) + 1] = new
  BY <1>4, <1>5, AppendProperties
<1>7. new = Row(id, h, n, EntryType(n, sent))
  BY DEF new
<1> QED BY <1>4, <1>6, <1>7

\* Storing a log keeps the invariant.
LEMMA SubmitKeepsLogs ==
  ASSUME LogsIInv, NEW id \in LogIds, NEW h \in Heads, NEW p \in Projects, NEW n \in TaskIds,
         NEW sent \in EntryTypes \cup {Untyped}, SubmitLog(id, h, p, n, sent)
  PROVE  LogsIInv'
<1> DEFINE last == Len(logs) + 1
           type == EntryType(n, sent)
<1>1. PICK new \in LogRow :
        /\ new = Row(id, h, n, type)
        /\ logs' \in Seq(LogRow) /\ Len(logs') = last
        /\ DOMAIN logs = 1 .. Len(logs) /\ Len(logs) \in Nat
        /\ DOMAIN logs' = DOMAIN logs \cup {last}
        /\ \A k \in DOMAIN logs : logs'[k] = logs[k]
        /\ logs'[last] = new
  BY SubmitAppends
<1>2. /\ new.id = id /\ new.task = n /\ new.type = type /\ new.project = task[n].project
      /\ new.revision = IF type = "REVISION" THEN NextRevision(n) ELSE 0
  BY <1>1 DEF Row
<1>3. /\ ~StoredLog(id) /\ LiveTask(n) /\ TypeFits(n, type)
      /\ UNCHANGED registryVars
  BY DEF SubmitLog
<1> HIDE DEF type
<1>4. last \notin DOMAIN logs /\ \A k \in DOMAIN logs : k < last /\ k \in Nat /\ logs[k] \in LogRow
  BY <1>1 DEF LogsIInv, LogsTypeOK
<1>5. RegistryTypeOK' /\ TasksHaveProjects'
  BY <1>3, RegistryStep DEF LogsIInv, LogsTypeOK
<1>6. StoredOnce'
  BY <1>1, <1>2, <1>3 DEF StoredOnce, StoredLog, LogsIInv
<1>7. LogsBelong'
  BY <1>1, <1>2, <1>3 DEF LogsBelong, LogsIInv, LiveTask, LiveProject, registryVars
<1>8. FirstEntryIsNew'
  <2>1. /\ LogsOf(n)' = LogsOf(n) \cup {last}
        /\ \A m : m # n => LogsOf(m)' = LogsOf(m)
    BY <1>1, <1>2, <1>4 DEF LogsOf
  <2>2. \A k \in DOMAIN logs : \A m : m = logs[k].task =>
          ((\A i \in LogsOf(m)' : k <= i) <=> \A i \in LogsOf(m) : k <= i)
    BY <1>1, <1>4, <2>1
  <2>3. \A k \in DOMAIN logs :
          \A m : m = logs[k].task => (logs[k].type = "NEW" <=> \A i \in LogsOf(m)' : k <= i)
    BY <2>2 DEF LogsIInv, FirstEntryIsNew
  <2>4. type = "NEW" <=> \A i \in LogsOf(n)' : last <= i
    <3>1. type = "NEW" <=> LogsOf(n) = {}
      BY <1>3 DEF TypeFits
    <3>2. \A i \in LogsOf(n) : i \in DOMAIN logs
      BY DEF LogsOf
    <3> QED BY <1>1, <1>4, <2>1, <3>1, <3>2
  <2> QED BY <1>1, <1>2, <2>3, <2>4 DEF FirstEntryIsNew, LogsOf
<1>9. RevisionsSequential'
  <2> DEFINE Earlier(k, m) == {i \in DOMAIN logs : logs[i].task = m /\ logs[i].type = "REVISION" /\ i < k}
             Next_(k, m) == {i \in DOMAIN logs' : logs'[i].task = m /\ logs'[i].type = "REVISION" /\ i < k}
             Fits(S, r) == /\ \A i \in S : logs'[i].revision < r
                           /\ \A q \in 1 .. r - 1 : \E i \in S : logs'[i].revision = q
                           /\ r >= 1
  <2>1. \A k \in DOMAIN logs : \A m : Next_(k, m) = Earlier(k, m)
    BY <1>1, <1>4
  <2>2. \A m : Next_(last, m) = RevisionsOf(m)
    BY <1>1, <1>4 DEF RevisionsOf, LogsOf
  <2>3. ASSUME NEW k \in DOMAIN logs, logs[k].type = "REVISION"
        PROVE  Fits(Next_(k, logs[k].task), logs[k].revision)
    <3>1. Earlier(k, logs[k].task) = {i \in RevisionsOf(logs[k].task) : i < k}
      BY DEF RevisionsOf, LogsOf
    <3>2. /\ \A i \in Earlier(k, logs[k].task) : logs[i].revision < logs[k].revision
          /\ \A r \in 1 .. logs[k].revision - 1 :
               \E i \in Earlier(k, logs[k].task) : logs[i].revision = r
          /\ logs[k].revision >= 1
      BY <2>3, <3>1 DEF LogsIInv, RevisionsSequential
    <3>3. \A i \in Earlier(k, logs[k].task) : logs'[i].revision = logs[i].revision
      BY <1>1
    <3>4. Next_(k, logs[k].task) = Earlier(k, logs[k].task)
      BY <2>1
    <3> HIDE DEF Earlier, Next_
    <3> QED BY <3>2, <3>3, <3>4
  <2>4. ASSUME type = "REVISION" PROVE Fits(Next_(last, n), new.revision)
    <3>1. new.revision = NextRevision(n)
      BY <1>2, <2>4
    <3>2. /\ NextRevision(n) \in Nat \ {0}
          /\ \A i \in RevisionsOf(n) : logs[i].revision < NextRevision(n)
          /\ \A r \in 1 .. NextRevision(n) - 1 : \E i \in RevisionsOf(n) : logs[i].revision = r
      BY NextRevisionIsNext DEF LogsIInv
    <3>3. \A i \in RevisionsOf(n) : logs'[i].revision = logs[i].revision
      BY <1>1 DEF RevisionsOf, LogsOf
    <3>4. Next_(last, n) = RevisionsOf(n)
      BY <2>2
    <3> HIDE DEF Next_
    <3> QED BY <3>1, <3>2, <3>3, <3>4
  <2>5. ASSUME NEW k \in DOMAIN logs', logs'[k].type = "REVISION"
        PROVE  Fits(Next_(k, logs'[k].task), logs'[k].revision)
    <3> HIDE DEF Fits, Next_
    <3>1. CASE k \in DOMAIN logs
      BY <1>1, <2>3, <2>5, <3>1
    <3>2. CASE k = last
      BY <1>1, <1>2, <2>4, <2>5, <3>2
    <3> QED BY <1>1, <3>1, <3>2
  <2>6. \A k \in DOMAIN logs' :
          Next_(k, logs'[k].task) = {i \in RevisionsOf(logs[k].task)' : i < k}
    BY DEF RevisionsOf, LogsOf
  <2> HIDE DEF Next_
  <2> QED BY <2>5, <2>6 DEF RevisionsSequential
<1>10. LogsTypeOK'
  BY <1>1, <1>5 DEF LogsTypeOK
<1> QED BY <1>5, <1>6, <1>7, <1>8, <1>9, <1>10 DEF LogsIInv

-----------------------------------------------------------------------------
(* The theorems *)

\* The invariant is inductive.
THEOREM LogsInvariant == LogsSpec => []LogsIInv
<1>1. ASSUME LogsIInv, [LogsNext]_logVars PROVE LogsIInv'
  <2>1. CASE RegistryNext /\ UNCHANGED logs
    BY <1>1, <2>1, RegistryKeepsLogs
  <2>2. CASE UNCHANGED logVars
    BY <1>1, <2>2, RegistryKeepsLogs DEF logVars, registryVars
  <2>3. CASE \E id \in LogIds, h \in Heads, p \in Projects, n \in TaskIds,
                sent \in EntryTypes \cup {Untyped} : SubmitLog(id, h, p, n, sent)
    BY <1>1, <2>3, SubmitKeepsLogs
  <2> QED BY <1>1, <2>1, <2>2, <2>3 DEF LogsNext
<1> QED BY <1>1, LogsStart, PTL DEF LogsSpec

\* Logs keep their types, as do the rows of projects, tasks and accounts beneath them.
THEOREM LogsAreTyped == LogsSpec => []LogsTypeOK
BY LogsInvariant, PTL DEF LogsIInv

\* However often a log is sent, and in whatever order the PCs get through, it is stored once.
THEOREM LogsStoredOnce == LogsSpec => []StoredOnce
BY LogsInvariant, PTL DEF LogsIInv

\* The first log of every task, and no other, is its New Task entry.
THEOREM FirstEntries == LogsSpec => []FirstEntryIsNew
BY LogsInvariant, PTL DEF LogsIInv

\* The revisions of every task are numbered 1, 2, 3 ... in the order stored.
THEOREM RevisionsAreSequential == LogsSpec => []RevisionsSequential
BY LogsInvariant, PTL DEF LogsIInv

\* Every log keeps its task and its project, whatever the Admins do.
THEOREM LogsKeepTheirTask == LogsSpec => []LogsBelong
BY LogsInvariant, PTL DEF LogsIInv

\* A log is one its author may write about its task now, which gives it its dates.
FitsNow(new) ==
  LET of == task[new.task]
      d  == discipline[new.employee]
  IN /\ ActiveTask(new.task)
     /\ new.project = of.project /\ new.start = of.start /\ new.end = of.end
     /\ d \in Disciplines => Admits(of, new.employee, d)

\* The content of HistoryKept, for one step.
HistoryStep ==
  /\ \A k \in DOMAIN logs : k \in DOMAIN logs' /\ logs'[k] = logs[k]
  /\ \A k \in DOMAIN logs' \ DOMAIN logs : FitsNow(logs'[k])

\* A stored log never changes, and a new one has the dates of its task and fits its Head.
THEOREM HistoryIsKept == LogsSpec => HistoryKept
<1>1. ASSUME LogsIInv, LogsNext PROVE HistoryStep
  <2>1. CASE RegistryNext /\ UNCHANGED logs
    BY <2>1 DEF HistoryStep
  <2>2. CASE \E id \in LogIds, h \in Heads, p \in Projects, n \in TaskIds,
                sent \in EntryTypes \cup {Untyped} : SubmitLog(id, h, p, n, sent)
    <3>1. PICK id \in LogIds, h \in Heads, p \in Projects, n \in TaskIds,
               sent \in EntryTypes \cup {Untyped} : SubmitLog(id, h, p, n, sent)
      BY <2>2
    <3>2. PICK new \in LogRow :
            /\ new = Row(id, h, n, EntryType(n, sent))
            /\ Len(logs') = Len(logs) + 1 /\ Len(logs) \in Nat
            /\ DOMAIN logs' = DOMAIN logs \cup {Len(logs) + 1}
            /\ \A k \in DOMAIN logs : logs'[k] = logs[k]
            /\ logs'[Len(logs) + 1] = new
      BY <1>1, <3>1, SubmitAppends
    <3>3. /\ new.task = n /\ new.employee = h /\ new.project = task[n].project
          /\ new.start = task[n].start /\ new.end = task[n].end
      BY <3>2 DEF Row
    <3>4. ActiveTask(n) /\ FitsHead(n, h)
      BY <3>1 DEF SubmitLog
    <3>5. FitsNow(new)
      BY <3>3, <3>4, RegistryConstants DEF FitsNow, FitsHead
    <3> QED BY <3>2, <3>5 DEF HistoryStep
  <2> QED BY <1>1, <2>1, <2>2 DEF LogsNext
<1>2. LogsIInv /\ [LogsNext]_logVars => [HistoryStep]_logVars
  BY <1>1
<1> QED BY <1>2, LogsInvariant, PTL DEF LogsSpec, HistoryKept, HistoryStep, FitsNow

-----------------------------------------------------------------------------
(* Counting: a sum of cardinalities *)

\* The sum that MapThenSumSet defines, of the sizes of the sets parts[x], for x in S.
SumOfSizes(parts, S) ==
  (CHOOSE iter : iter = [s \in SUBSET S |->
     IF s = {} THEN 0
     ELSE Cardinality(parts[CHOOSE x \in s : TRUE]) + iter[s \ {CHOOSE x \in s : TRUE}]])[S]

\* Without one of its parts, which shares nothing with the others, a union is that much smaller.
LEMMA OnePartLess ==
  ASSUME NEW S, IsFiniteSet(S), NEW parts, \A x \in S : IsFiniteSet(parts[x]),
         \A x, y \in S : x # y => parts[x] \cap parts[y] = {},
         NEW s \in SUBSET S, NEW x \in s
  PROVE  /\ Cardinality(UNION {parts[y] : y \in s})
              = Cardinality(parts[x]) + Cardinality(UNION {parts[y] : y \in s \ {x}})
         /\ IsFiniteSet(UNION {parts[y] : y \in s})
<1> DEFINE U(r) == UNION {parts[y] : y \in r}
<1>1. ASSUME NEW r \in SUBSET S PROVE IsFiniteSet(U(r))
  <2>1. IsFiniteSet(r)
    BY FS_Subset
  <2> DEFINE f == [y \in r |-> parts[y]]
             T == {parts[y] : y \in r}
  <2>2. f \in Surjection(r, T)
    BY DEF Surjection
  <2>3. IsFiniteSet(T)
    <3> HIDE DEF f, T
    <3> QED BY <2>1, <2>2, FS_Surjection
  <2>4. \A t \in T : IsFiniteSet(t)
    OBVIOUS
  <2> HIDE DEF T
  <2>5. IsFiniteSet(UNION T)
    BY <2>3, <2>4, FS_UNION
  <2> QED BY <2>5 DEF T
<1>2. IsFiniteSet(parts[x]) /\ IsFiniteSet(U(s \ {x})) /\ IsFiniteSet(U(s))
  <2>1. s \ {x} \in SUBSET S
    OBVIOUS
  <2> QED BY <1>1, <2>1
<1>3. U(s) = parts[x] \cup U(s \ {x}) /\ parts[x] \cap U(s \ {x}) = {}
  OBVIOUS
<1> HIDE DEF U
<1>4. Cardinality(U(s)) = Cardinality(parts[x]) + Cardinality(U(s \ {x})) - Cardinality({})
  <2>1. Cardinality(parts[x] \cup U(s \ {x}))
          = Cardinality(parts[x]) + Cardinality(U(s \ {x})) - Cardinality(parts[x] \cap U(s \ {x}))
    BY <1>2, FS_Union
  <2> QED BY <1>3, <2>1
<1>5. Cardinality({}) = 0 /\ Cardinality(parts[x]) \in Nat /\ Cardinality(U(s \ {x})) \in Nat
  BY <1>2, FS_EmptySet, FS_CardinalityType
<1>6. Cardinality(U(s)) = Cardinality(parts[x]) + Cardinality(U(s \ {x}))
  BY <1>4, <1>5
<1> QED BY <1>2, <1>6 DEF U

\* The sizes of sets that share nothing add up to the size of their union.  The least subset
\* of S for which a function that satisfies the recursion differs would be one element larger
\* than one for which it does not.
LEMMA SizesAddUp ==
  ASSUME NEW S, IsFiniteSet(S), NEW parts, \A x \in S : IsFiniteSet(parts[x]),
         \A x, y \in S : x # y => parts[x] \cap parts[y] = {}
  PROVE  SumOfSizes(parts, S) = Cardinality(UNION {parts[x] : x \in S})
<1>0. \A s \in SUBSET S : \A x \in s :
        Cardinality(UNION {parts[y] : y \in s})
          = Cardinality(parts[x]) + Cardinality(UNION {parts[y] : y \in s \ {x}})
  <2> SUFFICES ASSUME NEW s \in SUBSET S, NEW x \in s
               PROVE  Cardinality(UNION {parts[y] : y \in s})
                        = Cardinality(parts[x]) + Cardinality(UNION {parts[y] : y \in s \ {x}})
    OBVIOUS
  <2> QED BY OnePartLess
<1> DEFINE size(s) == Cardinality(UNION {parts[x] : x \in s})
           one(s) == CHOOSE x \in s : TRUE
           Solves(f) == f = [s \in SUBSET S |->
                               IF s = {} THEN 0 ELSE Cardinality(parts[one(s)]) + f[s \ {one(s)}]]
           sizes == [s \in SUBSET S |-> size(s)]
<1>1. size({}) = 0
  BY FS_EmptySet
<1>2. ASSUME NEW s \in SUBSET S, s # {}
      PROVE  /\ one(s) \in s /\ s \ {one(s)} \in SUBSET S /\ s \ {one(s)} # s
             /\ size(s) = Cardinality(parts[one(s)]) + size(s \ {one(s)})
  <2>1. one(s) \in s
    BY <1>2
  <2>2. \A x \in s : size(s) = Cardinality(parts[x]) + size(s \ {x})
    BY <1>0
  <2> HIDE DEF one, size, Solves, sizes
  <2> QED BY <2>1, <2>2
<1>3. Solves(sizes)
  <2> SUFFICES ASSUME NEW s \in SUBSET S
               PROVE  size(s) = IF s = {} THEN 0 ELSE Cardinality(parts[one(s)]) + sizes[s \ {one(s)}]
    BY Zenon
  <2>1. CASE s = {}
    BY <1>1, <2>1
  <2>2. CASE s # {}
    <3>1. s \ {one(s)} \in SUBSET S
      BY <1>2, <2>2
    <3>2. sizes[s \ {one(s)}] = size(s \ {one(s)})
      <4> HIDE DEF size, one
      <4> QED BY <3>1
    <3>3. size(s) = Cardinality(parts[one(s)]) + size(s \ {one(s)})
      BY <1>2, <2>2
    <3> HIDE DEF size, one, sizes
    <3> QED BY <2>2, <3>2, <3>3
  <2> QED BY <2>1, <2>2
<1>4. ASSUME NEW f, Solves(f) PROVE f[S] = size(S)
  <2> DEFINE wrong == {s \in SUBSET S : f[s] # size(s)}
             less == StrictSubsetOrdering(S)
  <2>1. IsWellFoundedOn(less, SUBSET S)
    BY FS_FiniteSubsetsOfFinite, FS_StrictSubsetOrderingWellFounded
  <2>2. ASSUME wrong # {} PROVE FALSE
    <3>1. PICK s \in wrong : \A r \in wrong : <<r, s>> \notin less
      <4>1. wrong \subseteq SUBSET S
        OBVIOUS
      <4> HIDE DEF wrong, less
      <4> QED BY <2>1, <2>2, <4>1, WFMin
    <3> HIDE DEF one, size
    <3>2. f[s] = IF s = {} THEN 0 ELSE Cardinality(parts[one(s)]) + f[s \ {one(s)}]
      BY <1>4
    <3>3. s # {}
      BY <1>1, <3>2
    <3>4. s \ {one(s)} \notin wrong
      BY <1>2, <3>1, <3>3 DEF StrictSubsetOrdering
    <3>5. f[s \ {one(s)}] = size(s \ {one(s)})
      BY <1>2, <3>3, <3>4
    <3> QED BY <1>2, <3>2, <3>3, <3>5
  <2> QED BY <2>2
<1>5. SumOfSizes(parts, S) = (CHOOSE f : Solves(f))[S]
  BY DEF SumOfSizes
<1>6. Solves(CHOOSE f : Solves(f))
  <2> HIDE DEF Solves
  <2> QED BY <1>3
<1> HIDE DEF Solves
<1> QED BY <1>4, <1>5, <1>6

-----------------------------------------------------------------------------
(* The queries of Reports *)

\* The logs and the tasks are finitely many, and the rows are typed.
LEMMA TablesAreFinite ==
  ASSUME LogsTypeOK
  PROVE  /\ IsFiniteSet(DOMAIN logs) /\ IsFiniteSet(DOMAIN task)
         /\ DOMAIN logs = 1 .. Len(logs) /\ Len(logs) \in Nat
         /\ \A k \in DOMAIN logs : logs[k] \in LogRow
         /\ \A n \in DOMAIN task : task[n] \in TaskRow
<1>1. Len(logs) \in Nat /\ DOMAIN logs = 1 .. Len(logs) /\ \A k \in DOMAIN logs : logs[k] \in LogRow
  BY DEF LogsTypeOK
<1>2. IsFiniteSet(1 .. Len(logs)) /\ IsFiniteSet(1 .. MaxTasks)
  BY <1>1, FS_Interval, RegistryConstants
<1>3. DOMAIN task \subseteq 1 .. MaxTasks /\ \A n \in DOMAIN task : task[n] \in TaskRow
  BY DEF LogsTypeOK, RegistryTypeOK, TaskIds
<1> QED BY <1>1, <1>2, <1>3, FS_Subset

\* Numbered 1, 2, 3 ..., the revisions of a task are as many as the highest number says.
LEMMA RevisionsAreAsManyAsNumbered ==
  ASSUME LogsTypeOK, RevisionsSequential, NEW n
  PROVE  Cardinality(RevisionsOf(n)) = Max(RevisionNumbers(n)) /\ IsFiniteSet(RevisionsOf(n))
<1> DEFINE m == NextRevision(n) - 1
           number == [k \in RevisionsOf(n) |-> logs[k].revision]
<1>1. /\ m \in Nat
      /\ \A i \in RevisionsOf(n) : logs[i].revision < m + 1
      /\ \A r \in 1 .. m : \E i \in RevisionsOf(n) : logs[i].revision = r
  BY NextRevisionIsNext
<1>2. /\ RevisionsOf(n) \subseteq DOMAIN logs /\ DOMAIN logs = 1 .. Len(logs) /\ Len(logs) \in Nat
      /\ \A i \in RevisionsOf(n) : logs[i] \in LogRow /\ logs[i].type = "REVISION" /\ logs[i].task = n
      /\ IsFiniteSet(DOMAIN logs)
  BY TablesAreFinite DEF RevisionsOf, LogsOf
<1>3. \A i \in RevisionsOf(n) : logs[i].revision \in Nat /\ logs[i].revision >= 1
  BY <1>2 DEF RevisionsSequential, LogRow
<1> HIDE DEF m
<1>4. number \in [RevisionsOf(n) -> 1 .. m]
  BY <1>1, <1>3
<1>5. \A i, k \in RevisionsOf(n) : i < k => logs[i].revision < logs[k].revision
  BY <1>2 DEF RevisionsSequential
<1>6. \A i, k \in RevisionsOf(n) : number[i] = number[k] => i = k
  <2> SUFFICES ASSUME NEW i \in RevisionsOf(n), NEW k \in RevisionsOf(n), number[i] = number[k], i # k
               PROVE  FALSE
    OBVIOUS
  <2>1. i < k \/ k < i
    BY <1>2
  <2> QED BY <1>3, <1>5, <2>1
<1>7. \A r \in 1 .. m : \E i \in RevisionsOf(n) : number[i] = r
  BY <1>1
<1>8. number \in Bijection(RevisionsOf(n), 1 .. m)
  <2> HIDE DEF number
  <2> QED BY <1>4, <1>6, <1>7, Fun_IsInj, Fun_IsSurj DEF Bijection
<1>9. IsFiniteSet(RevisionsOf(n))
  BY <1>2, FS_Subset
<1>10. Cardinality(RevisionsOf(n)) = m
  <2>1. ExistsBijection(RevisionsOf(n), 1 .. m)
    BY <1>8 DEF ExistsBijection
  <2>2. Cardinality(1 .. m) = Cardinality(RevisionsOf(n))
    BY <1>9, <2>1, FS_Bijection
  <2>3. Cardinality(1 .. m) = m
    BY <1>1, FS_Interval
  <2> QED BY <2>2, <2>3
<1>11. m \in RevisionNumbers(n) /\ \A r \in RevisionNumbers(n) : m >= r
  <2>1. CASE m = 0
    <3>1. RevisionsOf(n) = {}
      BY <1>1, <1>3, <2>1
    <3> QED BY <2>1, <3>1 DEF RevisionNumbers
  <2>2. CASE m # 0
    <3>1. m \in 1 .. m
      BY <1>1, <2>2
    <3> QED BY <1>1, <1>3, <3>1 DEF RevisionNumbers
  <2> QED BY <2>1, <2>2
<1>12. Max(RevisionNumbers(n)) = m
  <2>1. \A r \in RevisionNumbers(n) : r \in Nat
    BY <1>3 DEF RevisionNumbers
  <2>2. /\ Max(RevisionNumbers(n)) \in RevisionNumbers(n)
        /\ \A r \in RevisionNumbers(n) : Max(RevisionNumbers(n)) >= r
    BY <1>11 DEF Max
  <2> DEFINE M == Max(RevisionNumbers(n))
  <2>3. M \in Nat /\ M >= m /\ m >= M
    <3> HIDE DEF M
    <3>1. M \in RevisionNumbers(n) /\ \A r \in RevisionNumbers(n) : M >= r
      BY <2>2 DEF M
    <3> QED BY <1>11, <2>1, <3>1
  <2> HIDE DEF M
  <2>4. M = m
    BY <1>1, <2>3
  <2> QED BY <2>4 DEF M
<1> QED BY <1>9, <1>10, <1>12

\* The logs of a task carry its project, so that the timeline of the project has them all.
LEMMA TimelineHasAllLogs ==
  ASSUME LogsBelong, NEW n \in DOMAIN task, NEW stage
  PROVE  TimelineStage(task[n].project, n, stage) = NewestStage(LogsOf(n), stage)
<1>1. {k \in LogsOf(n) : logs[k].project = task[n].project} = LogsOf(n)
  BY DEF LogsBelong, LogsOf
<1> QED BY <1>1 DEF TimelineStage

\* A task is in one of the stages, or not started.
LEMMA StageIsListed ==
  ASSUME LogsTypeOK, NEW n, NEW stage \in [LogIds -> Stages]
  PROVE  NewestStage(LogsOf(n), stage) \in Stages \cup {NotStarted}
<1>1. CASE LogsOf(n) = {}
  BY <1>1 DEF NewestStage
<1>2. CASE LogsOf(n) # {}
  <2>1. DOMAIN logs = 1 .. Len(logs) /\ Len(logs) \in Nat /\ \A k \in DOMAIN logs : logs[k] \in LogRow
    BY TablesAreFinite
  <2>2. LogsOf(n) \in SUBSET (1 .. Len(logs))
    BY <2>1 DEF LogsOf
  <2>3. Max(LogsOf(n)) \in LogsOf(n)
    BY <1>2, <2>1, <2>2, MaxIsGreatest
  <2>4. logs[Max(LogsOf(n))].id \in LogIds
    BY <2>1, <2>2, <2>3 DEF LogRow
  <2> QED BY <1>2, <2>4 DEF NewestStage
<1> QED BY <1>1, <1>2

\* The counts by stage of an active project's dashboard add up to the tasks of its timeline:
\* every task is counted in one stage.
LEMMA StagesAddUp ==
  ASSUME LogsTypeOK, NEW p \in DashboardProjects, NEW stage \in [LogIds -> Stages]
  PROVE  MapThenSumSet(LAMBDA s : DashboardCount(p, s, stage), Stages \cup {NotStarted})
           = Cardinality(TimelineTasks(p))
<1> DEFINE S == Stages \cup {NotStarted}
           In(s) == {n \in DashboardTasks(p) : NewestStage(LogsOf(n), stage) = s}
           parts == [s \in S |-> In(s)]
<1>1. MapThenSumSet(LAMBDA s : DashboardCount(p, s, stage), S) = SumOfSizes(parts, S)
  BY DEF MapThenSumSet, MapThenFoldSet, SumOfSizes, DashboardCount
<1>2. IsFiniteSet(S)
  <2>1. IsFiniteSet({NotStarted})
    BY FS_Singleton
  <2> QED BY <2>1, StagesAreListed, FS_Union
<1>3. \A s \in S : IsFiniteSet(parts[s])
  <2> SUFFICES ASSUME NEW s \in S PROVE IsFiniteSet(In(s))
    OBVIOUS
  <2>1. In(s) \subseteq DOMAIN task
    BY DEF DashboardTasks
  <2> HIDE DEF In
  <2> QED BY <2>1, TablesAreFinite, FS_Subset
<1>4. \A s, r \in S : s # r => parts[s] \cap parts[r] = {}
  OBVIOUS
<1>5. UNION {parts[s] : s \in S} = DashboardTasks(p)
  <2>1. \A n \in DashboardTasks(p) : \E s \in S : n \in parts[s]
    BY StageIsListed
  <2> QED BY <2>1
<1>6. DashboardTasks(p) = TimelineTasks(p)
  BY DEF DashboardProjects, DashboardTasks, TimelineTasks, Listed
<1> HIDE DEF S, parts
<1>7. SumOfSizes(parts, S) = Cardinality(UNION {parts[s] : s \in S})
  BY <1>2, <1>3, <1>4, SizesAddUp
<1> QED BY <1>1, <1>5, <1>6, <1>7 DEF S

\* The revisions a dashboard counts for a project are those its tasks were numbered.
LEMMA RevisionsAddUp ==
  ASSUME LogsTypeOK, LogsBelong, RevisionsSequential, NEW p
  PROVE  DashboardRevisions(p) = MapThenSumSet(LAMBDA n : Max(RevisionNumbers(n)),
                                               {n \in DOMAIN task : task[n].project = p})
<1> DEFINE S == {n \in DOMAIN task : task[n].project = p}
           parts == [n \in S |-> RevisionsOf(n)]
<1>1. MapThenSumSet(LAMBDA n : Max(RevisionNumbers(n)), S) = SumOfSizes(parts, S)
  <2>1. \A n : Max(RevisionNumbers(n)) = Cardinality(RevisionsOf(n))
    BY RevisionsAreAsManyAsNumbered
  <2> DEFINE highest == [n \in S |-> Max(RevisionNumbers(n))]
             one(s) == CHOOSE x \in s : TRUE
             next(f) == [s \in SUBSET S |->
                           IF s = {} THEN 0 ELSE highest[one(s)] + f[s \ {one(s)}]]
             nextSize(f) == [s \in SUBSET S |->
                               IF s = {} THEN 0 ELSE Cardinality(parts[one(s)]) + f[s \ {one(s)}]]
  <2>2. MapThenSumSet(LAMBDA n : Max(RevisionNumbers(n)), S) = (CHOOSE f : f = next(f))[S]
    BY DEF MapThenSumSet, MapThenFoldSet
  <2>3. \A x \in S : highest[x] = Cardinality(parts[x])
    BY <2>1
  <2>4. \A f : next(f) = nextSize(f)
    <3>1. \A s \in SUBSET S : s # {} => one(s) \in S
      OBVIOUS
    <3> HIDE DEF one, highest, parts
    <3> QED BY <2>3, <3>1
  <2> HIDE DEF next
  <2>5. (CHOOSE f : f = next(f)) = (CHOOSE f : f = nextSize(f))
    BY <2>4
  <2> QED BY <2>2, <2>5 DEF SumOfSizes
<1>2. IsFiniteSet(S)
  BY TablesAreFinite, FS_Subset
<1>3. \A n \in S : IsFiniteSet(parts[n])
  BY RevisionsAreAsManyAsNumbered
<1>4. \A n, m \in S : n # m => parts[n] \cap parts[m] = {}
  <2>1. \A n \in S : \A k \in parts[n] : logs[k].task = n
    BY DEF RevisionsOf, LogsOf
  <2> HIDE DEF parts
  <2> QED BY <2>1
<1>5. UNION {parts[n] : n \in S} = {k \in DOMAIN logs : logs[k].project = p /\ logs[k].type = "REVISION"}
  <2> DEFINE T == {k \in DOMAIN logs : logs[k].project = p /\ logs[k].type = "REVISION"}
  <2>1. \A k \in T : logs[k].task \in S /\ k \in parts[logs[k].task]
    BY DEF RevisionsOf, LogsOf, LogsBelong
  <2>2. \A n \in S : \A k \in parts[n] : k \in T
    BY DEF RevisionsOf, LogsOf, LogsBelong
  <2> HIDE DEF S, T, parts
  <2>3. UNION {parts[n] : n \in S} = T
    BY <2>1, <2>2
  <2> QED BY <2>3 DEF T
<1> HIDE DEF S, parts
<1>6. SumOfSizes(parts, S) = Cardinality(UNION {parts[n] : n \in S})
  BY <1>2, <1>3, <1>4, SizesAddUp
<1> QED BY <1>1, <1>5, <1>6 DEF S, DashboardRevisions

\* Dashboard, timelines and reports agree about every task in every state of the logs.
THEOREM ScreensAlwaysAgree == LogsSpec => []ScreensAgree
<1>1. ASSUME LogsIInv PROVE ScreensAgree
  <2> SUFFICES ASSUME NEW stage \in [LogIds -> Stages]
               PROVE
       /\ \A p \in DashboardProjects :
            /\ \A s \in Stages \cup {NotStarted} : DashboardCount(p, s, stage) = TimelineCount(p, s, stage)
            /\ MapThenSumSet(LAMBDA s : DashboardCount(p, s, stage), Stages \cup {NotStarted})
                 = Cardinality(TimelineTasks(p))
       /\ \A p \in DOMAIN project : \A n \in TimelineTasks(p) :
            /\ n \in SummaryTasks
            /\ SummaryRow(n, stage).stage = TimelineStage(p, n, stage)
            /\ TimelineRevisions(n) = Max(RevisionNumbers(n))
       /\ \A p \in DashboardProjects :
            DashboardRevisions(p) = MapThenSumSet(LAMBDA n : Max(RevisionNumbers(n)),
                                                  {n \in DOMAIN task : task[n].project = p})
    BY DEF ScreensAgree
  <2>1. LogsTypeOK /\ LogsBelong /\ RevisionsSequential
    BY <1>1 DEF LogsIInv
  <2>2. ASSUME NEW p \in DashboardProjects, NEW s
        PROVE  DashboardCount(p, s, stage) = TimelineCount(p, s, stage)
    <3>1. DashboardTasks(p) = TimelineTasks(p)
      BY DEF DashboardProjects, DashboardTasks, TimelineTasks, Listed
    <3>2. \A n \in DashboardTasks(p) : TimelineStage(p, n, stage) = NewestStage(LogsOf(n), stage)
      BY <2>1, TimelineHasAllLogs DEF DashboardTasks
    <3> QED BY <3>1, <3>2 DEF DashboardCount, TimelineCount
  <2>3. ASSUME NEW p \in DOMAIN project, NEW n \in TimelineTasks(p)
        PROVE  /\ n \in SummaryTasks
               /\ SummaryRow(n, stage).stage = TimelineStage(p, n, stage)
               /\ TimelineRevisions(n) = Max(RevisionNumbers(n))
    <3>1. n \in DOMAIN task /\ task[n].project = p /\ task[n].state = "active" /\ project[p] # "deleted"
      BY <2>3 DEF TimelineTasks, Listed
    <3>2. n \in SummaryTasks
      BY <3>1 DEF SummaryTasks
    <3>3. SummaryRow(n, stage).stage = TimelineStage(p, n, stage)
      BY <2>1, <3>1, TimelineHasAllLogs DEF SummaryRow
    <3>4. TimelineRevisions(n) = Cardinality(RevisionsOf(n))
      <4>1. LogsOf(n) = {} => RevisionsOf(n) = {}
        BY DEF RevisionsOf
      <4> QED BY <4>1, FS_EmptySet DEF TimelineRevisions
    <3>5. TimelineRevisions(n) = Max(RevisionNumbers(n))
      BY <2>1, <3>4, RevisionsAreAsManyAsNumbered
    <3> QED BY <3>2, <3>3, <3>5
  <2>4. \A p \in DashboardProjects :
          MapThenSumSet(LAMBDA s : DashboardCount(p, s, stage), Stages \cup {NotStarted})
            = Cardinality(TimelineTasks(p))
    BY <2>1, StagesAddUp
  <2>5. \A p : DashboardRevisions(p) = MapThenSumSet(LAMBDA n : Max(RevisionNumbers(n)),
                                                     {n \in DOMAIN task : task[n].project = p})
    BY <2>1, RevisionsAddUp
  <2> QED BY <2>2, <2>3, <2>4, <2>5
<1> QED BY <1>1, LogsInvariant, PTL

\* The report of a Head lists the tasks whose logs would be taken from him, and his PC those it
\* takes.  The conditions of the three places agree in every state.
THEOREM HeadsAlwaysSeeTheirTasks == LogsSpec => []HeadsSeeTheirTasks
<1>1. HeadsSeeTheirTasks
  <2> SUFFICES ASSUME NEW h \in Heads
               PROVE
       /\ discipline[h] # NoDiscipline => TasksInScope(h) = {n \in SummaryTasks : FitsHead(n, h)}
       /\ session[h] # NoDiscipline =>
            HeadTasks(h) = {n \in DOMAIN task : ActiveTask(n) /\ Admits(task[n], h, session[h])}
    BY DEF HeadsSeeTheirTasks
  <2>1. discipline[h] # NoDiscipline => TasksInScope(h) = {n \in SummaryTasks : FitsHead(n, h)}
    BY DEF TasksInScope, FitsHead, Admits
  <2>2. HeadTasks(h) = {n \in DOMAIN task : ActiveTask(n) /\ Admits(task[n], h, session[h])}
    BY DEF HeadTasks, Listed, ActiveTask, Admits
  <2> QED BY <2>1, <2>2
<1> QED BY <1>1, PTL
=============================================================================
