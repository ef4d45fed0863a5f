SPECIFICATION Spec
CONSTANTS
  MapBytes <- MCMapBytes
  Sizes <- MCSizes
  MaxMisses <- MCMaxMisses
INVARIANTS
  TypeOK
  Walkable
  HeldIsUsed
  HeldDisjoint
  UsedIsExact
  AllFreeIsWhole
