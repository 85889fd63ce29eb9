CONSTANTS
  r1 = r1
  r2 = r2
  r3 = r3
  a = a
  b = b
  x = x
  NoSymbol = NoSymbol
  Requests <- MCRequests
  Symbols <- MCSymbols
  Seed <- MCSeed
  MinTickers = 1
  MaxTickers = 2

SPECIFICATION FairSpec

INVARIANTS
  TypeOK
  RemovesKeepMin

PROPERTIES
  AddsKeepMax
  RequestsEnd
