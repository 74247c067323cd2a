SPECIFICATION SharesSpec
CONSTANTS
  P = 2
  SparsityThreshold = 59
  SampleTarget = 6
  Width = 12
  Most = 5
  Available <- CompleteGraphOnFive
INVARIANTS
  CapacityRemains
