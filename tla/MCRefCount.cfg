SPECIFICATION Spec
CONSTANTS
  Thread = {t1, t2}
  NoThread = NoThread
  RC_HALF = 2
  RC_PINNED = 20
  MaxRefs = 4
SYMMETRY Symmetry
INVARIANTS IInv CountConserved NoUseAfterFree RetainCountExact
PROPERTIES BorrowIsNeverLast ImplementsLifetime
