\* Three Connects with one object, up to two methods, Abort at any time.
CONSTANTS
  MaxCalls = 3
  MaxMethods = 2
SPECIFICATION FairSpec
INVARIANTS ConnectedIsAuthenticated NoHandleLost AbortStops
PROPERTIES ConnectReturns
CHECK_DEADLOCK FALSE
