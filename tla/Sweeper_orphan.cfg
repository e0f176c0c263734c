CONSTANTS
  s1 = s1
  s2 = s2
  a = a
  b = b
  Plain = Plain
  Sweeps = {s1, s2}
  Scans = {}
  Tickets = {1}
  Texts = {a, b}
  Spaced = TRUE
  MaxTickets = 1
  StallThreshold = 1
  Skills = {TRUE}
  Faults = {"apply", "review"}
  Signals = {"kill"}
  MaxBlocks = 2
  MaxSignals = 2
SPECIFICATION Spec
PROPERTY OrphansAreReaped
CHECK_DEADLOCK FALSE
