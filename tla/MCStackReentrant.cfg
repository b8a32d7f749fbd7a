\* Handlers call the stack while animations and WhenAction run.
CONSTANTS
  a = a
  b = b
  c = c
  None = None
  Ctrls <- ThreeCtrls
  Animations = {FALSE, TRUE}
  MaxStack = 3
  MaxCalls = 4
SPECIFICATION Spec
SYMMETRY Alike
INVARIANTS OneVisible
PROPERTIES RemoveOfActiveMoves
