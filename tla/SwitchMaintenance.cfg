CONSTANTS
  e1 = e1
  e2 = e2
  f1 = f1
  far = far
  b1 = b1
  b2 = b2
  Ports <- MCPorts
  Jacks <- MCJacks
  Jack <- MCJack
  EdgePorts <- MCEdge
  FabricPorts <- MCFabric
  Others <- MCOthers
  Cables <- MCCables
  Online <- MCOnline
  MaxSwaps = 2
  Topics <- MCTopics
  BMCs <- MCBMCs
  ReconnectRetries = 1
  Switches <- MCSwitches
SPECIFICATION Spec
INVARIANT PoliciesExist
INVARIANT SuccessIsComplete
INVARIANT UnwarnedTopicsAreComplete
INVARIANT NoTaskForgotten
PROPERTY ReportIsStable
PROPERTY SensorsEnd
