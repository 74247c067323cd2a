SPECIFICATION TeamSpec
CONSTANTS
  N = 4
  T = 3
  Inputs <- MCInputs
  Thread <- MCThread
  Chunk <- MCChunk
PROPERTIES
  Implements
  Returns
