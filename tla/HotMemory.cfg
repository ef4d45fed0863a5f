SPECIFICATION Spec
CONSTANTS
  a1 = a1
  a2 = a2
  Zero = Zero
  Junk = Junk
  Arrays <- MCArrays
  Sizes <- MCSizes
  MapBytes <- MCMapBytes
  MaxMisses <- MCMaxMisses
SYMMETRY Perms
INVARIANTS
  TypeOK
  NoDanglingNoLeak
PROPERTIES
  ReleaseIsFinal
  IsArrayStore
