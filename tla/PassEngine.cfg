SPECIFICATION Spec
CONSTANTS
  Groups <- MCGroups
  Counts <- MCCounts
  MaxLives <- MCMaxLives
INVARIANTS
  TypeOK
  
  
  
  
PROPERTIES
  GroupEnds
