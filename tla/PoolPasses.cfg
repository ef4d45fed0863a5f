SPECIFICATION Spec
CONSTANTS
  c = c
  f = f
  Constants <- MCConstants
  Symbols <- MCSymbols
  CacheSlot <- MCCacheSlot
  PairLiterals <- MCConstants
  RangeLimit = 156
  LongLimit = 624
  FlushSlack = 12
  TableSizes = {1, 4}
  ITLengths = {1, 2}
  MaxAsm = 0
  NarrowReach = 30
  FusedReach = 14
  Cushion = 18
  StartLiterals <- MCStartLiterals
  StartTables = {14, 24}
  MaxLoops = 13
  MaxOps = 4
INVARIANT
  
  FusedReaches
  BoundedReaches
CHECK_DEADLOCK FALSE
