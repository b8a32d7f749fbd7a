\* A page of two by two and of three by three cells.
CONSTANTS
  Sizes <- SmallAndLarge
  Counts = {1, 2}
  HistorySizes = {1, 2}
  MaxRows = 4
  BackupAt <- Corner
SPECIFICATION Spec
INVARIANTS PageInv LinesOnce
PROPERTIES CursorKeepsLine FrameKept ScrollsForward HistoryAppends
CHECK_DEADLOCK FALSE
