CONSTANTS
  MaxDelayTaps = 4
  MaxWriteCycle = 7
  MinWrDqsCycle = 4
  NumVrefs = 3
  PhyDelays = 8
  NumRanks = 2
  NumModules = 2
  WideDie = TRUE
  KeepGoing = FALSE
  WlResponses <- MCWlResponses
  DataResponses <- MCDataResponses
  DmResponses <- MCDmResponses
SPECIFICATION Spec
INVARIANTS
  TypeOK
  WlFindsTransition
  WriteCentersWork
  VrefMaximisesWindow
PROPERTIES
  Termination
