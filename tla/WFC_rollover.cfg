\* The beginday rollover against doWFCEvents' one snapshot of the status file. QuitBBS ends the process, so the loop may stop.
CONSTANTS
  DayLen <- MCDayLen
  SecondsPerMinute <- MCSecondsPerMinute
  CalloutGap <- MCCalloutGap
  CleanGap <- MCCleanGap
  Keystrokes <- MCKeysPlain
  DigitValue <- MCDigitValue
  MaxKeys = 1
  Accounts <- MCAccounts
  SL <- MCSL
  Deleted <- MCDeleted
  UserCount <- MCUserCount
  RunsBeginDay = TRUE
  CalloutNode = TRUE
  Launches <- MCLaunchPlain
SPECIFICATION Spec
INVARIANT RolloverOncePerDate
CHECK_DEADLOCK FALSE
