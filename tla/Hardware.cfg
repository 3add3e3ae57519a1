CONSTANTS
  Slot = s
  Nodes = {n1, n2}
  BMCs = {b1, b2}
  Chassis = {c1}
  Blades = {"old", "new"}
  MaxCommands = 3
SYMMETRY Symmetry
SPECIFICATION Spec
INVARIANT RemovedStaysRemoved
INVARIANT AddressesRecorded
INVARIANT OneHolderPerAddress
INVARIANT PoweredOffMeansOff
PROPERTY ResumedMeansDiscovered
