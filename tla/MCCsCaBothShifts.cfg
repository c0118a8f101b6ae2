CONSTANTS
  MaxDelayTaps <- MCMaxDelayTaps
  HelperCap <- MCHelperCap
  NumRanks = 1
  NumModules = 1
  TrainingType = "HOST_DRAM"
  KeepGoing = FALSE
  LinesWith13 = 1
  LinesWithout13 = 1
  InitLineCount = 1
  CsResponses <- MCCsResponses
  CaResponses <- MCCaResponses
SPECIFICATION Spec
PROPERTY
  CsTapRejectsBothShifts
