SPECIFICATION FairSpec
CONSTANTS
  Mode = {"A", "B"}
  Common = "common"
  DefaultMode = "A"
  Source0 = {"s"}
  Source1 = {"p"}
  Observer = {"o1", "o2"}
  Block = {"b1", "b2"}
  Order <- MCOrder
  Activities <- MCActivities
  Repeating = {"o1"}
  BlockModes <- MCBlockModes
  Owner = "L"
  Client = {"T"}
  IsMain = TRUE
  Programs <- MCPrograms
  MaxDepth = 2
  MaxAlarms = 1
  None = None
INVARIANTS NoLostWakeup BlocksOnce ObserversOnce MembershipSound
PROPERTY StopReturns
CHECK_DEADLOCK FALSE
