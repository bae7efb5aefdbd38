CONSTANTS
  n1 = n1
  n2 = n2
  Nodes <- MCTwoNodes
  TextLens <- MCTextLens
  MaxCalls = 2
  CanRestart = FALSE
  MaxCrashes = 0
SPECIFICATION Spec
INVARIANT LogFidelity
\* Every node stops after MaxCalls log calls and one last catsl.
CHECK_DEADLOCK FALSE
