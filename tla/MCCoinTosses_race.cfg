SPECIFICATION TossSpec
CONSTANTS
  Primes = 2
  nNodes = 2
  WordSize = 2
  MaxThreads = 2
  Teams <- MCTeams
INVARIANTS
  NotARace
