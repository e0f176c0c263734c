CONSTANTS
  r1 = r1
  r2 = r2
  q = q
  p = p
  Requests = {r1, r2}
  IPs = {p, q}
  Cost = 4
  Rate = 2
  Slip = 1
  Capacity = 4
  Second = 2
  MaxClock = 3
SPECIFICATION Spec
SYMMETRY LimiterSymmetry
INVARIANT RateIsBounded
PROPERTY BurstIsOwn
PROPERTY RetryIsHonoured
CHECK_DEADLOCK FALSE
