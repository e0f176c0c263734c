CONSTANTS
  c1 = c1
  c2 = c2
  default = default
  lane = lane
  NoOne = NoOne
  Clients = {c1, c2}
  Names = {default, lane}
  InitialRoster = {default}
  RosterMayChange = TRUE
  MaxHandoffs = 2
  ReviewerKnob = NoOne
  WorkerKnob = NoOne
  AllowSkipClaim = FALSE
  MaxCalls = 2
SPECIFICATION Spec
SYMMETRY ClientSymmetry
PROPERTY ChangesReturnToLane
CHECK_DEADLOCK FALSE
