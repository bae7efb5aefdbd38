\* An extended key (0 prefix) at the LocalLogon prompt, then further keys at the WFC loop.
CONSTANTS
  DayLen <- MCDayLen
  SecondsPerMinute <- MCSecondsPerMinute
  CalloutGap <- MCCalloutGap
  CleanGap <- MCCleanGap
  Keystrokes <- MCKeysNul
  DigitValue <- MCDigitValue
  MaxKeys = 3
  Accounts <- MCAccounts
  SL <- MCSL
  Deleted <- MCDeleted
  UserCount <- MCUserCount
  RunsBeginDay = TRUE
  CalloutNode = TRUE
  Launches <- MCLaunchPlain
SPECIFICATION Spec
INVARIANT CommandsAreWholeKeystrokes
CHECK_DEADLOCK FALSE
