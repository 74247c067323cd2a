SPECIFICATION Spec
CONSTANTS
  N = 4
  P = 3
  Buffer = 1
  SparsityThreshold = 1
  SampleTarget = 2
  Inputs <- MCInputs
INVARIANTS
  CollectivesMatch
  EndsInRange
  MapsDensely
  Correct
PROPERTIES
  Contracts
  Termination
