\* Three nodes start, stop and restart on one data directory; TEMP_DIRECTORY
\* either names a directory per instance (%n) or is missing; chain
\* registration is on (off, read_chains never touches CHAINS.REG).
CONSTANTS
  Nodes <- MCNodes
  NumInstances = 2
  ConfigKinds <- MCConfigKinds
  TempSettings = {"unset", "perNode"}
  Users <- MCUsers
  NumChains = 2
  ChainRegSettings = {TRUE}
  MaxStarts = 4
SPECIFICATION Spec
INVARIANT TypeOK
INVARIANT ChainsRegSettled
INVARIANT IniFlagsMatchReference
CHECK_DEADLOCK FALSE
