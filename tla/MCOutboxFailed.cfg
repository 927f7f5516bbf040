\* One lost reply and one change of the task are enough.
CONSTANTS
  NumItems = 2
  Kind <- DateChangeThenLog
  MaxConns = 2
  MaxFaults = 1
  MaxChanges = 1
  PasswordChangeLogins = FALSE
SPECIFICATION Spec
INVARIANTS FailedNotStored
CHECK_DEADLOCK FALSE
