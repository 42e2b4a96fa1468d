CONSTANTS
  Tags = {1, 2, 3}
  Sets = {0, 1}
  LineWords = 2
  Values = {0, 1}
  Requests <- WordsAndCacops
  CacopAnyTime = FALSE
  CodeAddr <- MCCode
SPECIFICATION FairSpec
INVARIANTS
  LoadsReadCurrent
PROPERTIES
  RefinesMemoryPort
  CacheBecomesReady
