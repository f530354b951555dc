SPECIFICATION FairSpec
CONSTANTS
  Thread = {t1, t2}
  Root = Root
  Address = Address
  Controller = Controller
  Console = Console
  Class = {Root, Address, Controller, Console}
  NoClass = NoClass
  Super <- MCSuper
  Ancestors <- MCAncestors
  MayMessage <- MCMayMessage
  Trivial = {Root, Address}
  Func = {f}
INVARIANTS InitializingSound AnnouncedOnce
PROPERTIES MessageAfterInitialize CallsReturn
\* The child of a fork may halt; CallsReturn excludes that the system stops
\* with a thread asleep.
CHECK_DEADLOCK FALSE
