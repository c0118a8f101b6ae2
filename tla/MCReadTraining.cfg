CONSTANTS
  MaxDelayTaps = 2
  MaxReadCycle = 3
  NumRanks = 2
  NumModules = 2
  KeepGoing = FALSE
  ReadBackChecks = {TRUE, FALSE}
  PreambleResponses <- MCPreambleResponses
  DataResponses <- MCDataResponses
SPECIFICATION Spec
INVARIANTS
  TypeOK
  SuccessMeansTrained
PROPERTIES
  Termination
