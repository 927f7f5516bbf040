\* No fault at all: the second submission is made while the first is in flight.
CONSTANTS
  NumItems = 2
  Kind <- DateChangeThenLog
  MaxConns = 1
  MaxFaults = 0
  MaxChanges = 0
  PasswordChangeLogins = TRUE
SPECIFICATION FairSpec
PROPERTIES PendingDrains
CHECK_DEADLOCK FALSE
