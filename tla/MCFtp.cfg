\* Both modes, blocking and not; Connect, any call, and another Get or Delete.
SPECIFICATION FairSpec
CONSTANTS
  Calls <- AnyCall
  Size = 3
  Content <- LineAndHalf
  Modes = {"ACTIVE", "PASSIVE"}
  Blockings = {TRUE, FALSE}
INVARIANTS InStep TrueIsDone
PROPERTY CallEnds
CHECK_DEADLOCK FALSE
