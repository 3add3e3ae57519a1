CONSTANTS
  a = a
  b = b
  c1 = c1
  c2 = c2
  Things <- MCThings
  PortSets <- MCPortSets
  States <- MCStates
  Captures <- MCCaptures
  NumToKeep = 1
  LastSecond = 2
  MaxChanges = 1
  MaxSessionChanges = 2
SPECIFICATION StagesSpec
SYMMETRY Symmetry
PROPERTY NewestAreKept
INVARIANT RestoredAsCaptured
INVARIANT SafeMeansIdle
