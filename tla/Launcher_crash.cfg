\* SSH starts that may die during Key::Create.
CONSTANTS
  pw1 = pw1
  pw2 = pw2
  Types = {"SSH"}
  Passwords <- MCPasswords
  MaxStarts <- MCMaxStarts
  CanCrash = TRUE
  MinutesPerDay <- MCMinutesPerDay
  SecsPerMinute <- MCSecsPerMinute
SPECIFICATION Spec
INVARIANT KeyFileWhole
\* After the last start the behaviour stops: MaxStarts bounds the restarts.
CHECK_DEADLOCK FALSE
