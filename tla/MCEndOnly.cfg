\* One proposal, and a clock that may show its last day or the day after.
CONSTANTS
  p1 = p1
  h1 = h1
  Projects = {p1}
  Disciplines = {d1}
  Heads = {h1}
  NoHead = NoHead
  NoDiscipline = NoDiscipline
  MaxTasks = 1
  LastDay = 2
  DefaultSpan = 0
  Wanted <- EndOnly
  Asked <- NoRequests
  Handlers = {}
SPECIFICATION ApprovalsSpec
INVARIANTS DatesOrdered
CHECK_DEADLOCK FALSE
