CONSTANTS
  ready = ready
  review = review
  Unread = Unread
  Statuses = {ready, review}
  Timeout = 5
  MaxReturned = 3
  MaxPollErrors = 3
  MaxEvents = 4
  MaxMoves = 2
SPECIFICATION FairSpec
INVARIANT CursorIsHonest
PROPERTY NewsEndsTheWait
PROPERTY BlipsAreTolerated
PROPERTY EveryWaitEnds
CHECK_DEADLOCK FALSE
