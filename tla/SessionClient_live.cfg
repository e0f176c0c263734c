CONSTANTS
  a = a
  b = b
  Nobody = Nobody
  Callers = {a, b}
  LoginsFail = TRUE
  MaxSessions = 3
  MaxDrops = 2
  MaxClock = 3
SPECIFICATION FairSpec
PROPERTY EveryRequestReturns
PROPERTY ImplementsService
PROPERTY LoginIsNeeded
CHECK_DEADLOCK FALSE
