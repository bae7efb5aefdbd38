CONSTANTS
  n1 = n1
  n2 = n2
  Nodes <- MCOneNode
  TextLens <- MCTextLens
  MaxCalls = 4
  CanRestart = FALSE
  MaxCrashes = 0
SPECIFICATION Spec
INVARIANT TypeOK LogFidelity LinesWithinLimit MidlineTracksLine
\* Every node stops after MaxCalls log calls and one last catsl.
CHECK_DEADLOCK FALSE
