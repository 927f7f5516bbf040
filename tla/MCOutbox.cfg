\* Two submissions of different kinds; three connections, two faults, two
\* changes by the Admin: enough for a lost reply, its resend on another
\* connection, the left-over copy served late, and a refusal in between.
\* One connection more than the faults can end.
CONSTANTS
  NumItems = 2
  Kind <- DateChangeThenLog
  MaxConns = 3
  MaxFaults = 2
  MaxChanges = 2
  PasswordChangeLogins = TRUE
SPECIFICATION FairSpec
INVARIANTS ExactlyOnce InOrder FailedWasRefused IInv
PROPERTIES KeepsPromise RetryDrains
CHECK_DEADLOCK FALSE
