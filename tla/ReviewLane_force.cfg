CONSTANTS
  c1 = c1
  c2 = c2
  default = default
  lane = lane
  NoOne = NoOne
  Clients = {c1, c2}
  Names = {default, lane}
  InitialRoster = {default}
  RosterMayChange = FALSE
  MaxHandoffs = 1
  ReviewerKnob = default
  WorkerKnob = lane
  AllowSkipClaim = FALSE
  MaxCalls = 2
SPECIFICATION Spec
PROPERTY ForceIsAsserted
CHECK_DEADLOCK FALSE
