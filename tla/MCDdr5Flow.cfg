CONSTANTS
  KeepGoing = FALSE
  HostRanks = 1
  Channels = 1
  ModuleCounts = {2, 16}
  DefaultRates <- MCDefaultRates
  SpdChoices <- MCSpdChoices
  HwResponses <- MCHwTrained
SPECIFICATION Spec
INVARIANTS
  TypeOK
  RambusQuirkSelected
PROPERTIES
  FlowImplementsOrchestrator
