CONSTANTS
  Slot = s
  Nodes = {n1, n2}
  BMCs = {b1, b2}
  Chassis = {c1}
  Blades = {"old", "new"}
  MaxCommands = 2
SPECIFICATION Spec
INVARIANT SuccessMeansDiscovered
