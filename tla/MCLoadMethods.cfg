SPECIFICATION FairSpec
CONSTANTS
  t1 = t1  t2 = t2  NoThread = NoThread  Nil = Nil
  app = app  bundleB = bundleB  bundleC = bundleC  bundleD = bundleD
  root = root  middle = middle  leaf = leaf  other = other  derived = derived
  onRoot = onRoot  onLeaf = onLeaf  onMissing = onMissing  onOther = onOther
  Thread <- MCThread
  Image <- MCImage
  Bundle <- MCBundle
  Class <- MCClass
  Category <- MCCategory
  Super <- MCSuper
  CategoryClass <- MCCategoryClass
  ImageOf <- MCImageOf
  HasLoad <- MCHasLoad
  NonlazyClasses <- MCNonlazyClasses
  NonlazyCategories <- MCNonlazyCategories
  InitializedFirst <- MCInitializedFirst
  UnmapDetached = FALSE
  MAX_MAPS = 2
CHECK_DEADLOCK FALSE
INVARIANTS CallsSound LoadOrder
PROPERTY EveryLoadRuns
