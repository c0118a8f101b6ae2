CONSTANTS
  MaxDelayTaps <- MCMaxDelayTaps
  HelperCap <- MCHelperCap
  NumRanks = 2
  NumModules = 1
  TrainingType = "HOST_RCD"
  KeepGoing = FALSE
  LinesWith13 = 1
  LinesWithout13 = 1
  InitLineCount = 1
  CsResponses <- MCCsResponses
  CaResponses <- MCCaResponses
SPECIFICATION Spec
INVARIANTS
  TypeOK
  SamplesFreshAtExtraction
  CkNormalized
  DelaysRestoredAfterRescan
  FinalisedFromFoundEyes
PROPERTIES
  Termination
