CONSTANTS
  Images = {a, b, c}
  Stock = stock
SYMMETRY Renamings
SPECIFICATION Spec
INVARIANT NamesStayUsable
INVARIANT KeptUnlessOverwritten
INVARIANT SuccessMeansCreated
INVARIANT SharedBaseIsUsed
