CONSTANTS
  Requests = {r1, r2}
  MaxConcurrent = 1
  Estimates = {1}
  Actuals = {0, 2}
  NotHeld = NotHeld
  CapCents = 2
  Window = 0
SPECIFICATION FairSpec
INVARIANT ReleasedUnbilled
