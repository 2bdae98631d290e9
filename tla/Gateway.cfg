CONSTANTS
  Requests = {r1, r2, r3}
  MaxConcurrent = 1
  Estimates = {1}
  Actuals = {0, 2}
  NotHeld = NotHeld
  CapCents = 2
  Window = 0
SPECIFICATION FairSpec
INVARIANTS
  PermitsAccounted
PROPERTIES
  ImplementsLedger
  StreamsAndShadowsSettle
  ReservationsEnd
