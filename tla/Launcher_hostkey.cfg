\* Node starts of every transport, with crashes, password changes and key deletions: the host key's lifetime; and Run's -R event time for every time of day.
CONSTANTS
  pw1 = pw1
  pw2 = pw2
  Types = {"NONE", "TELNET", "SSH"}
  Passwords <- MCPasswords
  MaxStarts <- MCMaxStarts
  CanCrash = TRUE
  MinutesPerDay <- MCMinutesPerDay
  SecsPerMinute <- MCSecsPerMinute
SPECIFICATION Spec
INVARIANT TypeOK EventDelayMatchesReference
PROPERTY HostKeyStable
\* After the last start the behaviour stops: MaxStarts bounds the restarts.
CHECK_DEADLOCK FALSE
