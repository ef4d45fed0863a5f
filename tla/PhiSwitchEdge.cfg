SPECIFICATION Spec
CONSTANT
  Programs <- Dispatch
PROPERTY
  ImplementsSSA
