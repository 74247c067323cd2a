SPECIFICATION Spec
CONSTANTS
  N = 4
  MaxIdle = 1
  Inputs <- MCInputs
INVARIANTS
  Stars
  TossPays
  Correct
PROPERTIES
  MapKeepsRoots
  Contracts
