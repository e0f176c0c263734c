CONSTANTS
  t1 = t1
  t2 = t2
  held = held
  one = one
  NoPid = NoPid
  Ticks = {t1, t2}
  Spaced = TRUE
  MaxFaults = 1
  Boards <- HeldOneBoard
  Gated = {held}
  MaxActions = 1
  MaxBlocks = 2
SPECIFICATION FairSpec
INVARIANT SingleInstance
PROPERTY EveryVerdictReturns
PROPERTY QuietMeansAudited
PROPERTY QuietMeansReturned
CHECK_DEADLOCK FALSE
