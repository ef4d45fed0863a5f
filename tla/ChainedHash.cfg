SPECIFICATION Spec
CONSTANTS
  Hashes = {1, 3}
  FirstBuckets = 1
  FirstSize = 2
  MaxEntries = 5
  MaxClears = 2
INVARIANTS
  TypeOK
  WellChained
PROPERTY
  ImplementsIndex
