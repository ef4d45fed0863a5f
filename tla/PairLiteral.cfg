SPECIFICATION Spec
CONSTANTS
  c = c
  f = f
  Constants <- MCConstants
  Symbols <- MCSymbols
  CacheSlot <- MCCacheSlot
  RangeLimit = 44
  LongLimit = 56
  FlushSlack = 12
  ITLengths = {1}
  TableSizes = {1, 3}
  AsmSizes = {4}
  MaxAsm = 4
  MaxCode = 26
  MaxStart = 4
  MaxDry = 14
  MaxEntries = 3
INVARIANT
  PairReadsItsLiteral
CHECK_DEADLOCK FALSE
