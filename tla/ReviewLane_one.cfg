CONSTANTS
  c1 = c1
  critic = critic
  default = default
  lane = lane
  other = other
  NoOne = NoOne
  Clients = {c1}
  Names = {default, critic, lane, other}
  InitialRoster = {default, critic}
  RosterMayChange = FALSE
  MaxHandoffs = 2
  ReviewerKnob = default
  WorkerKnob = lane
  AllowSkipClaim = FALSE
  MaxCalls = 3
SPECIFICATION FairSpec
INVARIANT NoSelfReview
INVARIANT PromisedLaneIsNotSpawned
PROPERTY HandoffLandsSpawnable
PROPERTY ForceIsAsserted
PROPERTY CommentPrecedesTransition
PROPERTY PromisedReviewHappens
CHECK_DEADLOCK FALSE
