CONSTANTS
  n1 = n1
  n2 = n2
  Nodes <- MCOneNode
  TextLens <- MCTextLens
  MaxCalls = 3
  CanRestart = TRUE
  MaxCrashes = 2
SPECIFICATION Spec
INVARIANT NoRecordLost
\* Every node stops after MaxCalls log calls and one last catsl.
CHECK_DEADLOCK FALSE
