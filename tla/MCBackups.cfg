CONSTANTS
  TicksPerDay = 2
  MaxData = 1
  Found <- OldDatabases
  MaxNow = 3
  MaxCopies = 2
  MaxKeep = 2
  MaxRestores = 2
SPECIFICATION BackupsSpec
INVARIANTS BackupsTypeOK ServesOnlyMigrated OnceConverted Undoable Daily GoodCopyRemains
CHECK_DEADLOCK FALSE
