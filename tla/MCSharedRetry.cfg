\* Three objects; calls may overlap and time out.
CONSTANTS
  o1 = o1
  o2 = o2
  o3 = o3
  None = None
  Objects <- ThreeObjects
  MaxCalls = 4
SPECIFICATION Spec
SYMMETRY Alike
INVARIANTS SavedAtPath
