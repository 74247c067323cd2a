SPECIFICATION Spec
CONSTANTS
  N = 4
  MaxEdges = 4
  MaxLines = 9
  Files <- MCFiles
  GroupSizes <- MCGroupSizes
INVARIANTS
  EveryEdgeOnce
  PositionFollowsStream
  Balanced
  SetsAreComponents
  CountsComponents
