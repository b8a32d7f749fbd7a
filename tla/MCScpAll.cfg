\* Every failure, Abort at any time, steps that are cut short.
CONSTANTS
  Size = 5
  ChunkSize = 2
SPECIFICATION FairSpec
INVARIANTS PrefixKept StopReported CleanIsWhole
PROPERTIES TransferReturns
