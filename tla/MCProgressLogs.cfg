\* Two tasks, three logs, two Heads, two disciplines and two dates, in the slices
\* that Slice allows.
CONSTANTS
  Projects = {p1}
  Disciplines = {d1, d2}
  Heads = {h1, h2}
  NoHead = NoHead
  NoDiscipline = NoDiscipline
  MaxTasks = 2
  LastDay = 2
  DefaultSpan = 0
  LogIds = {l1, l2, l3}
  Stages = {"Done", "Hold"}
SYMMETRY Symmetry
SPECIFICATION SlicedSpec
INVARIANTS LogsTypeOK StoredOnce FirstEntryIsNew RevisionsSequential LogsBelong ScreensAgree HeadsSeeTheirTasks
PROPERTIES HistoryKept
CHECK_DEADLOCK FALSE
