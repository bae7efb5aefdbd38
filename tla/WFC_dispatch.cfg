\* Run's logon paths and the WFC loop with every kind of key: session consistency and the end of
\* LocalLogon's busy-wait.  QuitBBS ends the process, so the loop may stop.
CONSTANTS
  DayLen <- MCDayLen
  SecondsPerMinute <- MCSecondsPerMinute
  CalloutGap <- MCCalloutGap
  CleanGap <- MCCleanGap
  Keystrokes <- MCKeysAll
  DigitValue <- MCDigitValue
  MaxKeys = 3
  Accounts <- MCAccounts
  SL <- MCSL
  Deleted <- MCDeleted
  UserCount <- MCUserCount
  RunsBeginDay = TRUE
  CalloutNode = TRUE
  Launches <- MCLaunches
SPECIFICATION Spec
INVARIANT TypeOK SessionUserConsistent CmdLineUserOnlyAtStart
PROPERTY BusyWaitEnds ImplementsDispatcher
CHECK_DEADLOCK FALSE
