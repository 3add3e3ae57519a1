CONSTANTS
  Images = {a, b}
  Stock = stock
SYMMETRY Renamings
SPECIFICATION Spec
INVARIANT TemplatesUseNewImages
