\* A reply to the COO that an answer's event overtakes.
CONSTANTS
  w1 = w1
  w2 = w2
  w3 = w3
  Windows = {w1, w2, w3}
  Alerts = {"n1"}
  Scenes <- AlertsOnly
SPECIFICATION AlertsSpec
INVARIANT RowsFollow
CHECK_DEADLOCK FALSE
