SPECIFICATION Spec
CONSTANTS
  N = 5
  T = 3
  Thread <- MCThread
  Chunk <- MCChunk
INVARIANTS
  IInv
  ReturnsRoots
  PassesLogarithmic
PROPERTIES
  Termination
