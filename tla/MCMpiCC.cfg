SPECIFICATION Spec
CONSTANTS
  N = 4
  P = 3
  Buffer = 5
  MaxEdges = 3
  IntMax = 2
  Inputs <- MCInputs
INVARIANTS
  CollectivesMatch
  Correct
  RoundsBounded
  IntsSuffice
PROPERTIES
  AsIfSequential
  Contracts
  Termination
