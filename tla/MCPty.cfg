SPECIFICATION FairSpec
CONSTANTS
  a = a
  b = b
  None = None
  Objects <- MCObjects
  Kids <- MCKids
  Wild <- MCWild
  TtyRoom = 1
  Lengths = {2}
  MaxIn <- MCMaxIn
  MaxOut <- MCMaxOut
INVARIANTS ChildAccounted OutputKept InputInOrder
CHECK_DEADLOCK FALSE
PROPERTIES KillReturns InputFlushed
