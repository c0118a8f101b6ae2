CONSTANTS
  ReadsArgs <- MCReadsArgs
  SyncArgs <- MCSyncArgs
  AggRowStart = 0
  AggRowEnd = 2
  SyncRowsArgs <- MCSyncRowsArgs
  SyncRowStart = 8
  TargetSubch <- MCTargetOne
  TargetRanks <- MCTargetOne
  TargetBg <- MCTargetBg
  TargetBanks <- MCTargetOne
  Hosts <- MCHosts
  CsvFiles <- MCCsvFiles
  MemRows = {1, 2, 3}
  PatAggs <- MCPatAggs
  PatVictims <- MCPatVictims
  FlipSites <- MCFlipSites
  MaxFlips = 2
  IntBits = 5
  SizeBits = 8
  MaxRangeLen = 4

SPECIFICATION Spec

INVARIANTS
  TypeOK
  FlipsReportedOnce
  ProgressAccounting
  CsvRecordsUnderHeader
  SyncRowsMatchReference
