SPECIFICATION Spec
CONSTANTS
  Obj = {a, b}
  Boundary = Boundary
  COUNT = 2
  Modes <- MCModes
  MaxEntries = 7
  MaxPops = 3
SYMMETRY MCSymmetry
INVARIANTS PagesSound TokensValid
PROPERTY ImplementsStack
