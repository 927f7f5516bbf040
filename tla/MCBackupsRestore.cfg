CONSTANTS
  TicksPerDay = 2
  MaxData = 1
  Found <- OldDatabases
  MaxNow = 2
  MaxCopies = 2
  MaxKeep = 2
  MaxRestores = 2
SPECIFICATION BackupsSpec
INVARIANT RestoreWorks
CHECK_DEADLOCK FALSE
