CONSTANTS
  s1 = s1
  a = a
  Plain = Plain
  Sweeps = {s1}
  Scans = {}
  Tickets = {1, 2}
  Texts = {a}
  Spaced = TRUE
  MaxTickets = 1
  StallThreshold = 2
  Skills = {TRUE}
  Faults = {"read", "branch", "review"}
  Signals = {"kill"}
  MaxBlocks = 1
  MaxSignals = 1
SPECIFICATION FairSpec
INVARIANT TypeOK
INVARIANT BlindnessIsCounted
PROPERTY EveryCardIsReviewed
CHECK_DEADLOCK FALSE
