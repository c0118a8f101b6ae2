CONSTANTS
  MaxDelayTaps <- MCMaxDelayTaps
  HelperCap <- MCHelperCap
  NumRanks = 1
  NumModules = 1
  TrainingType = "HOST_DRAM"
  KeepGoing = FALSE
  LinesWith13 = 2
  LinesWithout13 = 1
  InitLineCount = 2
  CsResponses <- MCCsResponses
  CaResponses <- MCCaResponses
SPECIFICATION Spec
INVARIANTS
  TypeOK
  SamplesFreshAtExtraction
  CkNormalized
  DelaysRestoredAfterRescan
  FinalisedFromFoundEyes
PROPERTIES
  Termination
