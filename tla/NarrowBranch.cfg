SPECIFICATION Spec
CONSTANTS
  c = c
  f = f
  Constants <- ManyConstants
  Symbols <- MCSymbols
  CacheSlot <- ManyCacheSlot
  PairLiterals = {}
  RangeLimit = 156
  LongLimit = 624
  FlushSlack = 12
  TableSizes = {1, 4}
  ITLengths = {1, 2}
  MaxAsm = 0
  NarrowReach = 30
  FusedReach = 14
  Cushion = 16
  StartLiterals <- ManyStartLiterals
  StartTables = {6}
  MaxLoops = 13
  MaxOps = 2
INVARIANT
  NarrowReaches
CHECK_DEADLOCK FALSE
