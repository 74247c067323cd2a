SPECIFICATION SharesSpec
CONSTANTS
  P = 3
  SparsityThreshold = 3
  SampleTarget = 5
  Width = 8
  Most = 8
  Available <- MCAvailable
INVARIANTS
  ServableShares
  RemainingCanBePlaced
