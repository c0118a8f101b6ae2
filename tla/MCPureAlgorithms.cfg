CONSTANTS
  MaxDelayTaps <- MCMaxDelayTaps
  HelperCap <- MCHelperCap
SPECIFICATION PureSpec
INVARIANTS
  PureTypeOK
  FindEyeMatchesReference
  ClassifiersMatchReference
  DramToAddrInvertsToDram
  DramToDramInvertsToAddr
  Lp5ReadCentresWork
  Lp5WriteCentresWork
  Lp5SweepMatchesFullScan
