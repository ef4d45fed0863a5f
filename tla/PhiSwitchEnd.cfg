SPECIFICATION Spec
CONSTANT
  Programs <- LastSwitch
INVARIANT
  TableEnds
