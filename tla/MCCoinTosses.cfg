SPECIFICATION TossSpec
CONSTANTS
  Primes = 2
  nNodes = 4
  WordSize = 2
  MaxThreads = 4
  Teams <- MCTeams
INVARIANTS
  SeedsSuffice
  OwnWordsKept
  LostTossIsHead
