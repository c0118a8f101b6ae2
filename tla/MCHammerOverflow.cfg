CONSTANTS
  ReadsArgs <- MCOverflowReadsArgs
  SyncArgs <- MCOverflowSyncArgs
  AggRowStart = 0
  AggRowEnd = 2
  SyncRowsArgs = {3}
  SyncRowStart = 8
  TargetSubch <- MCTargetOne
  TargetRanks <- MCTargetOne
  TargetBg <- MCTargetBg
  TargetBanks <- MCTargetOne
  Hosts <- MCHosts
  CsvFiles <- MCCsvFiles
  MemRows = {1, 2, 3}
  PatAggs <- MCPatAggs
  PatVictims <- MCPatVictims
  FlipSites <- MCFlipSites
  MaxFlips = 2
  IntBits = 5
  SizeBits = 8
  MaxRangeLen = 4

SPECIFICATION Spec

INVARIANT
  ParseAcceptsWellFormedRanges
