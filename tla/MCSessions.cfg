CONSTANTS
  root = root
  u1 = u1
  Users = {root, u1}
  Start <- Tables
  Conns = {c1, c2}
  MaxTokens = 2
  MaxChanges = 2
SYMMETRY SymConns
SPECIFICATION SessionsSpec
INVARIANTS SessionsTypeOK SessionFresh OldTokensDie SuperAdminRemains
CHECK_DEADLOCK FALSE
