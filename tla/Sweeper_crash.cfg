CONSTANTS
  s1 = s1
  s2 = s2
  s3 = s3
  a = a
  Plain = Plain
  Sweeps = {s1, s2}
  Scans = {s3}
  Tickets = {1}
  Texts = {a}
  Spaced = TRUE
  MaxTickets = 1
  StallThreshold = 1
  Skills = {TRUE, FALSE}
  Faults = {"connect", "apply", "branch", "review", "disk", "stall"}
  Signals = {"kill", "term"}
  MaxBlocks = 2
  MaxSignals = 1
SPECIFICATION Spec
SYMMETRY SweepSymmetry
INVARIANT SingleInstance
INVARIANT LedgerIsEarned
INVARIANT MovedOnce
INVARIANT OneReviewer
INVARIANT SkippedOnce
CHECK_DEADLOCK FALSE
