CONSTANTS
  Requests = {r1, r2, r3}
  Estimates = {1, 2}
  Actuals = {1, 3}
  NotHeld = NotHeld
  CapCents = 3
  Window = 1
SPECIFICATION FairWindow
INVARIANTS
  SpentWithinCap
  WindowBill
  NoPhantomSpend
PROPERTY CapLockoutEnds
