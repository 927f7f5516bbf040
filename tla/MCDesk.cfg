CONSTANTS
  w1 = w1
  w2 = w2
  w3 = w3
  Windows = {w1, w2, w3}
  Alerts = {"n1"}
  Scenes <- Some
SPECIFICATION AlertsSpec
INVARIANTS AlertsTypeOK StaleIsOnItsWay PendingShown ConfirmedStands AskedOnce TrackerFollows
PROPERTY NeverBackwards
CHECK_DEADLOCK FALSE
