\* Two proposals, one request resent on a second connection, an Admin who adds,
\* edits, hides and deletes tasks meanwhile; room for both proposed tasks.
CONSTANTS
  p1 = p1
  h1 = h1
  Projects = {p1}
  Disciplines = {d1}
  Heads = {h1}
  NoHead = NoHead
  NoDiscipline = NoDiscipline
  MaxTasks = 2
  LastDay = 1
  DefaultSpan = 0
  Wanted <- TwoProposals
  Asked <- OneRequest
  Handlers = {c1, c2}
SYMMETRY SymHandlers
SPECIFICATION ApprovalsSpec
INVARIANTS ApprovalsTypeOK TaskOrigins RequestsRefer
PROPERTIES DecisionsFinal SoftDelete
CHECK_DEADLOCK FALSE
