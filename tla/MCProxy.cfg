SPECIFICATION FairSpec
CONSTANTS
  Calls <- MCCalls
  Addresses = {"ipv4", "ipv6", "other"}
  NameLen = 2
  MaxCalls = 2
INVARIANTS TunnelIsClean AskedInOrder SocketGivenBack
PROPERTIES RunEnds
CHECK_DEADLOCK FALSE
