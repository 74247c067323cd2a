SPECIFICATION Spec
CONSTANTS
  N = 4
  Inputs <- MCInputs
INVARIANTS
  TypeOK
  Acyclic
  ReturnsCrossing
  Correct
  RoundsBounded
PROPERTIES
  Contracts
