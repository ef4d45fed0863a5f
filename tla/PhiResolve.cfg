SPECIFICATION Spec
CONSTANT
  Programs <- MCPrograms
INVARIANTS
  TypeOK
  EdgeCopied
PROPERTIES
  SavedOnce
  ImplementsSSA
  ReachesProgram
