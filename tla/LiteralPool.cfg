SPECIFICATION Spec
CONSTANTS
  c = c
  f = f
  Constants <- MCConstants
  Symbols <- MCSymbols
  CacheSlot <- MCCacheSlot
  RangeLimit = 32
  LongLimit = 44
  FlushSlack = 12
  ITLengths = {1, 2}
  TableSizes = {1, 3}
  AsmSizes = {4}
  MaxAsm = 4
  MaxCode = 44
  MaxStart = 4
  MaxDry = 14
  MaxEntries = 3
INVARIANTS
  TypeOK
  ReadsItsLiteral
  WindowExact
  InRange
PROPERTIES
  WholeITBlocks
  WholeDispatch
CHECK_DEADLOCK FALSE
