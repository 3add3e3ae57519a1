CONSTANTS
  m2 = m2
  w1 = w1
  Hosts <- MCHosts
  Groups <- MCGroups
  ShutdownTimeout = 3
  IpmiTimeout = 2
  BootTimeout = 2
  Threshold = 2
SPECIFICATION Spec
INVARIANTS OnlyLostHostsStayOn GroupsInOrder ConsolesWatched
PROPERTIES ForcedAfterGrace StagesEnd
