\* Every failure of a call.
CONSTANTS
  Size = 5
  ChunkSize = 2
SPECIFICATION Spec
INVARIANTS FailureReported
